-------------------------- MODULE TreeDeserializer --------------------------
(***************************************************************************)
(* lib/rbs/wasm/deserializer.rb: the bytes of TreeSerializer are read back *)
(* into Ruby objects, driven by the table of                               *)
(* lib/rbs/wasm/serialization_schema.rb, with the locations of             *)
(* lib/rbs/wasm/location.rb.                                               *)
(***************************************************************************)
EXTENDS Integers, Sequences, SequencesExt, TLC

LOCAL S == INSTANCE TreeSerializer
LOCAL L == INSTANCE Locations
LOCAL INSTANCE RubyValues

(***************************************************************************)
(* The entries of the schema.                                              *)
(***************************************************************************)
Reader(name, read) == [name |-> name, read |-> read]
Span(n) == Reader(n, "range")
Spans(n) == Reader(n, "ranges")
Node(n) == Reader(n, "node")
List(n) == Reader(n, "list")
Hash(n) == Reader(n, "hash")
Text(n) == Reader(n, "text")
Flag(n) == Reader(n, "flag")
IvarName(n) == Reader(n, "ivar_name")
Unnamed(reader) == reader                 \* read, but not given to the constructor

Visibility(n) == Reader(n, <<"", "public", "private">>)
Kind(n) == Reader(n, <<"instance", "singleton">>)
MethodKind(n) == Reader(n, <<"instance", "singleton", "singleton_instance">>)
Variance(n) == Reader(n, <<"invariant", "covariant", "contravariant">>)

Req(name) == <<name, TRUE>>
Opt(name) == <<name, FALSE>>

Entry(kind, class, children, fields, located, resolves) ==
    [kind |-> kind, class |-> class, children |-> children, fields |-> fields,
     located |-> located, resolves |-> resolves]
Special(kind) == Entry(kind, "", <<>>, <<>>, FALSE, FALSE)
Located(class, children, fields) == Entry("node", class, children, fields, TRUE, FALSE)
ResolvingLocated(class, children, fields) == Entry("node", class, children, fields, TRUE, TRUE)
Bare(class, fields) == Entry("node", class, <<>>, fields, FALSE, FALSE)

Schema_Notes ==
    1 :> Located("RBS::AST::Annotation", <<>>, <<Text("string")>>) @@
    2 :> Special("bool") @@
    3 :> Located("RBS::AST::Comment", <<>>, <<Unnamed(Text(""))>>)

Schema_Classes ==
    4 :> ResolvingLocated("RBS::AST::Declarations::Class",
      <<Req("keyword"), Req("name"), Req("end"), Opt("type_params"), Opt("lt")>>,
      <<Node("name"), List("type_params"), Node("super_class"), List("members"), List("annotations"),
        Node("comment")>>) @@
    5 :> Located("RBS::AST::Declarations::Class::Super",
      <<Req("name"), Opt("args")>>,
      <<Node("name"), List("args")>>) @@
    6 :> Located("RBS::AST::Declarations::ClassAlias",
      <<Req("keyword"), Req("new_name"), Req("eq"), Req("old_name")>>,
      <<Node("new_name"), Node("old_name"), Node("comment"), List("annotations")>>) @@
    7 :> Located("RBS::AST::Declarations::Constant",
      <<Req("name"), Req("colon")>>,
      <<Node("name"), Node("type"), Node("comment"), List("annotations")>>)

Schema_Modules ==
    8 :> Located("RBS::AST::Declarations::Global",
      <<Req("name"), Req("colon")>>,
      <<Node("name"), Node("type"), Node("comment"), List("annotations")>>) @@
    9 :> ResolvingLocated("RBS::AST::Declarations::Interface",
      <<Req("keyword"), Req("name"), Req("end"), Opt("type_params")>>,
      <<Node("name"), List("type_params"), List("members"), List("annotations"), Node("comment")>>) @@
    10 :> ResolvingLocated("RBS::AST::Declarations::Module",
      <<Req("keyword"), Req("name"), Req("end"), Opt("type_params"), Opt("colon"), Opt("self_types")>>,
      <<Node("name"), List("type_params"), List("self_types"), List("members"), List("annotations"),
        Node("comment")>>) @@
    11 :> Located("RBS::AST::Declarations::Module::Self",
      <<Req("name"), Opt("args")>>,
      <<Node("name"), List("args")>>)

Schema_AliasesAndUses ==
    12 :> Located("RBS::AST::Declarations::ModuleAlias",
      <<Req("keyword"), Req("new_name"), Req("eq"), Req("old_name")>>,
      <<Node("new_name"), Node("old_name"), Node("comment"), List("annotations")>>) @@
    13 :> ResolvingLocated("RBS::AST::Declarations::TypeAlias",
      <<Req("keyword"), Req("name"), Req("eq"), Opt("type_params")>>,
      <<Node("name"), List("type_params"), Node("type"), List("annotations"), Node("comment")>>) @@
    14 :> Located("RBS::AST::Directives::Use", <<Req("keyword")>>, <<List("clauses")>>) @@
    15 :> Located("RBS::AST::Directives::Use::SingleClause",
      <<Req("type_name"), Opt("keyword"), Opt("new_name")>>,
      <<Node("type_name"), Node("new_name")>>) @@
    16 :> Located("RBS::AST::Directives::Use::WildcardClause",
      <<Req("namespace"), Req("star")>>,
      <<Node("namespace")>>) @@
    17 :> Special("integer")

Schema_Attributes ==
    18 :> Located("RBS::AST::Members::Alias",
      <<Req("keyword"), Req("new_name"), Req("old_name"), Opt("new_kind"), Opt("old_kind")>>,
      <<Node("new_name"), Node("old_name"), Kind("kind"), List("annotations"), Node("comment")>>) @@
    19 :> Located("RBS::AST::Members::AttrAccessor",
      <<Req("keyword"), Req("name"), Req("colon"), Opt("kind"), Opt("ivar"), Opt("ivar_name"), Opt("visibility")>>,
      <<Node("name"), Node("type"), IvarName("ivar_name"), Kind("kind"), List("annotations"), Node("comment"),
        Visibility("visibility")>>) @@
    20 :> Located("RBS::AST::Members::AttrReader",
      <<Req("keyword"), Req("name"), Req("colon"), Opt("kind"), Opt("ivar"), Opt("ivar_name"), Opt("visibility")>>,
      <<Node("name"), Node("type"), IvarName("ivar_name"), Kind("kind"), List("annotations"), Node("comment"),
        Visibility("visibility")>>) @@
    21 :> Located("RBS::AST::Members::AttrWriter",
      <<Req("keyword"), Req("name"), Req("colon"), Opt("kind"), Opt("ivar"), Opt("ivar_name"), Opt("visibility")>>,
      <<Node("name"), Node("type"), IvarName("ivar_name"), Kind("kind"), List("annotations"), Node("comment"),
        Visibility("visibility")>>)

Schema_VariablesAndMixins ==
    22 :> Located("RBS::AST::Members::ClassInstanceVariable",
      <<Req("name"), Req("colon"), Opt("kind")>>,
      <<Node("name"), Node("type"), Node("comment")>>) @@
    23 :> Located("RBS::AST::Members::ClassVariable",
      <<Req("name"), Req("colon"), Opt("kind")>>,
      <<Node("name"), Node("type"), Node("comment")>>) @@
    24 :> Located("RBS::AST::Members::Extend",
      <<Req("name"), Req("keyword"), Opt("args")>>,
      <<Node("name"), List("args"), List("annotations"), Node("comment")>>) @@
    25 :> Located("RBS::AST::Members::Include",
      <<Req("name"), Req("keyword"), Opt("args")>>,
      <<Node("name"), List("args"), List("annotations"), Node("comment")>>) @@
    26 :> Located("RBS::AST::Members::InstanceVariable",
      <<Req("name"), Req("colon"), Opt("kind")>>,
      <<Node("name"), Node("type"), Node("comment")>>)

Schema_Methods ==
    27 :> Located("RBS::AST::Members::MethodDefinition",
      <<Req("keyword"), Req("name"), Opt("kind"), Opt("overloading"), Opt("visibility")>>,
      <<Node("name"), MethodKind("kind"), List("overloads"), List("annotations"), Node("comment"),
        Flag("overloading"), Visibility("visibility")>>) @@
    28 :> Bare("RBS::AST::Members::MethodDefinition::Overload",
      <<List("annotations"), Node("method_type")>>) @@
    29 :> Located("RBS::AST::Members::Prepend",
      <<Req("name"), Req("keyword"), Opt("args")>>,
      <<Node("name"), List("args"), List("annotations"), Node("comment")>>) @@
    30 :> Located("RBS::AST::Members::Private", <<>>, <<>>) @@
    31 :> Located("RBS::AST::Members::Public", <<>>, <<>>)

Schema_InlineMethods ==
    32 :> Located("RBS::AST::Ruby::Annotations::BlockParamTypeAnnotation", <<>>,
      <<Span("prefix_location"), Span("ampersand_location"), Span("name_location"), Span("colon_location"),
        Span("question_location"), Span("type_location"), Node("type"), Span("comment_location")>>) @@
    33 :> Located("RBS::AST::Ruby::Annotations::ClassAliasAnnotation", <<>>,
      <<Span("prefix_location"), Span("keyword_location"), Node("type_name"), Span("type_name_location")>>) @@
    34 :> Located("RBS::AST::Ruby::Annotations::ColonMethodTypeAnnotation", <<>>,
      <<Span("prefix_location"), List("annotations"), Node("method_type")>>) @@
    35 :> Located("RBS::AST::Ruby::Annotations::DoubleSplatParamTypeAnnotation", <<>>,
      <<Span("prefix_location"), Span("star2_location"), Span("name_location"), Span("colon_location"),
        Node("param_type"), Span("comment_location")>>) @@
    36 :> Located("RBS::AST::Ruby::Annotations::InstanceVariableAnnotation", <<>>,
      <<Span("prefix_location"), Node("ivar_name"), Span("ivar_name_location"), Span("colon_location"),
        Node("type"), Span("comment_location")>>) @@
    37 :> Located("RBS::AST::Ruby::Annotations::MethodTypesAnnotation", <<>>,
      <<Span("prefix_location"), List("overloads"), Spans("vertical_bar_locations"), Span("dot3_location")>>)

Schema_InlineAssertions ==
    38 :> Located("RBS::AST::Ruby::Annotations::ModuleAliasAnnotation", <<>>,
      <<Span("prefix_location"), Span("keyword_location"), Node("type_name"), Span("type_name_location")>>) @@
    39 :> Located("RBS::AST::Ruby::Annotations::ModuleSelfAnnotation", <<>>,
      <<Span("prefix_location"), Span("keyword_location"), Span("colon_location"), Node("name"), List("args"),
        Span("open_bracket_location"), Span("close_bracket_location"), Spans("args_comma_locations"),
        Span("comment_location")>>) @@
    40 :> Located("RBS::AST::Ruby::Annotations::NodeTypeAssertion", <<>>,
      <<Span("prefix_location"), Node("type")>>) @@
    41 :> Located("RBS::AST::Ruby::Annotations::ParamTypeAnnotation", <<>>,
      <<Span("prefix_location"), Span("name_location"), Span("colon_location"), Node("param_type"),
        Span("comment_location")>>) @@
    42 :> Located("RBS::AST::Ruby::Annotations::ReturnTypeAnnotation", <<>>,
      <<Span("prefix_location"), Span("return_location"), Span("colon_location"), Node("return_type"),
        Span("comment_location")>>) @@
    43 :> Located("RBS::AST::Ruby::Annotations::SkipAnnotation", <<>>,
      <<Span("prefix_location"), Span("skip_location"), Span("comment_location")>>)

Schema_Names ==
    44 :> Located("RBS::AST::Ruby::Annotations::SplatParamTypeAnnotation", <<>>,
      <<Span("prefix_location"), Span("star_location"), Span("name_location"), Span("colon_location"),
        Node("param_type"), Span("comment_location")>>) @@
    45 :> Located("RBS::AST::Ruby::Annotations::TypeApplicationAnnotation", <<>>,
      <<Span("prefix_location"), List("type_args"), Span("close_bracket_location"), Spans("comma_locations")>>) @@
    46 :> Special("string_value") @@
    47 :> Located("RBS::AST::TypeParam",
      <<Req("name"), Opt("variance"), Opt("unchecked"), Opt("upper_bound"), Opt("lower_bound"), Opt("default")>>,
      <<Node("name"), Variance("variance"), Node("upper_bound"), Node("lower_bound"), Node("default_type"),
        Flag("unchecked")>>) @@
    48 :> ResolvingLocated("RBS::MethodType",
      <<Req("type"), Opt("type_params")>>,
      <<List("type_params"), Node("type"), Node("block")>>) @@
    49 :> Special("namespace") @@
    50 :> Special("signature") @@
    51 :> Special("type_name")

Schema_Bases ==
    52 :> Located("RBS::Types::Alias", <<Req("name"), Opt("args")>>, <<Node("name"), List("args")>>) @@
    53 :> Located("RBS::Types::Bases::Any", <<>>, <<Flag("todo")>>) @@
    54 :> Located("RBS::Types::Bases::Bool", <<>>, <<>>) @@
    55 :> Located("RBS::Types::Bases::Bottom", <<>>, <<>>) @@
    56 :> Located("RBS::Types::Bases::Class", <<>>, <<>>) @@
    57 :> Located("RBS::Types::Bases::Instance", <<>>, <<>>) @@
    58 :> Located("RBS::Types::Bases::Nil", <<>>, <<>>) @@
    59 :> Located("RBS::Types::Bases::Self", <<>>, <<>>) @@
    60 :> Located("RBS::Types::Bases::Top", <<>>, <<>>) @@
    61 :> Located("RBS::Types::Bases::Void", <<>>, <<>>)

Schema_Functions ==
    62 :> Located("RBS::Types::Block", <<>>, <<Node("type"), Flag("required"), Node("self_type")>>) @@
    63 :> Located("RBS::Types::ClassInstance", <<Req("name"), Opt("args")>>, <<Node("name"), List("args")>>) @@
    64 :> Located("RBS::Types::ClassSingleton", <<Req("name"), Opt("args")>>, <<Node("name"), List("args")>>) @@
    65 :> Bare("RBS::Types::Function",
      <<List("required_positionals"), List("optional_positionals"), Node("rest_positionals"),
        List("trailing_positionals"), Hash("required_keywords"), Hash("optional_keywords"),
        Node("rest_keywords"), Node("forwarding"), Node("return_type")>>) @@
    66 :> Located("RBS::Types::Function::ForwardingParam", <<>>, <<>>) @@
    67 :> Located("RBS::Types::Function::Param", <<Opt("name")>>, <<Node("type"), Node("name")>>)

Schema_Compounds ==
    68 :> Located("RBS::Types::Interface", <<Req("name"), Opt("args")>>, <<Node("name"), List("args")>>) @@
    69 :> Located("RBS::Types::Intersection", <<>>, <<List("types")>>) @@
    70 :> Located("RBS::Types::Literal", <<>>, <<Node("literal")>>) @@
    71 :> Located("RBS::Types::Optional", <<>>, <<Node("type")>>) @@
    72 :> Located("RBS::Types::Proc", <<>>, <<Node("type"), Node("block"), Node("self_type")>>)

Schema_Records ==
    73 :> Located("RBS::Types::Record", <<>>, <<Hash("all_fields")>>) @@
    74 :> Special("record_field") @@
    75 :> Located("RBS::Types::Tuple", <<>>, <<List("types")>>) @@
    76 :> Located("RBS::Types::Union", <<>>, <<List("types")>>) @@
    77 :> Bare("RBS::Types::UntypedFunction",
      <<Node("return_type")>>) @@
    78 :> Located("RBS::Types::Variable", <<>>, <<Node("name")>>)

Schema ==
    Schema_Notes @@ Schema_Classes @@ Schema_Modules @@ Schema_AliasesAndUses @@ Schema_Attributes @@
    Schema_VariablesAndMixins @@ Schema_Methods @@ Schema_InlineMethods @@ Schema_InlineAssertions @@
    Schema_Names @@ Schema_Bases @@ Schema_Functions @@ Schema_Compounds @@ Schema_Records

(***************************************************************************)
(* Reading.  A reader is given the bytes and the position, and returns the *)
(* value and the position after it; a position of -1 is an exception.      *)
(***************************************************************************)
CONSTANT BufferEncoding        \* buffer.content.encoding

Got(value, pos) == [value |-> value, pos |-> pos]
Failed == Got(RError("Corrupt buffer"), -1)

ReadU8(bytes, pos) ==
    IF pos < 0 \/ pos >= Len(bytes) THEN Failed ELSE Got(bytes[pos + 1], pos + 1)

\* unpack1("l<"): four bytes, the lowest first; a set top bit is a negative number
ReadI32(bytes, pos) ==
    IF pos < 0 \/ pos + 4 > Len(bytes) THEN Failed
    ELSE LET Sum(top) == bytes[pos + 1] + 256 * bytes[pos + 2] + 65536 * bytes[pos + 3] + 16777216 * top
             top == bytes[pos + 4]
         IN  Got(Sum(IF top >= 128 THEN top - 256 ELSE top), pos + 4)

ReadString(bytes, pos) ==
    LET length == ReadI32(bytes, pos) IN
    IF length.pos < 0 \/ length.value < 0 \/ length.pos + length.value > Len(bytes) THEN Failed
    ELSE Got(SubSeq(bytes, length.pos + 1, length.pos + length.value), length.pos + length.value)

\* more items than bytes left: the cursor has drifted
ReadCount(bytes, pos) ==
    LET count == ReadI32(bytes, pos) IN
    IF count.pos < 0 \/ count.value < 0 \/ count.value > Len(bytes) - count.pos THEN Failed ELSE count

NoRange == <<>>
ReadRange(bytes, pos) ==
    LET present == ReadU8(bytes, pos)
        first == ReadI32(bytes, present.pos)
        last == ReadI32(bytes, first.pos)
    IN  CASE present.pos < 0 -> Failed
          [] present.pos >= 0 /\ present.value = 0 -> Got(NoRange, present.pos)
          [] OTHER -> IF last.pos < 0 THEN Failed ELSE Got(<<first.value, last.value>>, last.pos)

RubyLocation(range) == IF range = NoRange THEN RNil ELSE L!SeenPure(L!PureNew(range))

ReadLocationValue(bytes, pos) ==
    LET r == ReadRange(bytes, pos) IN IF r.pos < 0 THEN Failed ELSE Got(RubyLocation(r.value), r.pos)

\* read n values one after the other
ReadEach(Read(_), n, pos) ==
    LET Next1(acc, i) == IF acc.pos < 0 THEN acc
                         ELSE LET r == Read(acc.pos) IN Got(Append(acc.value, r.value), r.pos)
    IN  FoldLeft(Next1, Got(<<>>, pos), [i \in 1 .. n |-> i])

\* the base location, then its children by name
LocationFrom(base, ranges, children) ==
    LET Add(loc, i) ==
            LET name == children[i][1]
                range == ranges.value[i]
            IN  IF children[i][2]
                THEN IF range = NoRange THEN loc ELSE L!PureAddRequired(loc, name, range)
                ELSE IF range = NoRange THEN L!PureAddNoChild(loc, name) ELSE L!PureAddOptional(loc, name, range)
    IN  CASE base.pos < 0 \/ ranges.pos < 0 -> Failed
          [] base.pos >= 0 /\ ranges.pos >= 0 /\ base.value = NoRange -> Got(RNil, ranges.pos)
          [] OTHER -> Got(L!SeenPure(FoldLeft(Add, L!PureNew(base.value), [i \in DOMAIN children |-> i])), ranges.pos)
ReadRanges(bytes, base, children) ==
    LocationFrom(base, ReadEach(LAMBDA p : ReadRange(bytes, p), Len(children), base.pos), children)
ReadLocation(bytes, pos, children) == ReadRanges(bytes, ReadRange(bytes, pos), children)

ReadAttrIvarName(bytes, pos) ==
    LET tag == ReadU8(bytes, pos)
        name == ReadString(bytes, tag.pos)
    IN  CASE tag.pos < 0 -> Failed
          [] tag.pos >= 0 /\ tag.value = 0 -> Got(RNil, tag.pos)
          [] tag.pos >= 0 /\ tag.value = 1 -> Got(RBool(FALSE), tag.pos)
          [] OTHER -> IF name.pos < 0 THEN Failed ELSE Got(RSymbol(name.value, BufferEncoding), name.pos)

ReadAs(read, Wrap(_)) == IF read.pos < 0 THEN Failed ELSE Got(Wrap(read.value), read.pos)
ReadFlag(bytes, pos) == ReadAs(ReadU8(bytes, pos), LAMBDA v : RBool(v # 0))

\* A mutant of ReadEnum: 0 is taken for "none".
ReadEnumFromOne(bytes, pos, symbols) ==
    ReadAs(ReadU8(bytes, pos), LAMBDA v : IF v = 0 \/ symbols[v] = "" THEN RNil ELSE RName(symbols[v]))

\* an index past the symbols reads nil
ReadEnum(bytes, pos, symbols) ==
    ReadAs(ReadU8(bytes, pos),
           LAMBDA v : IF v >= Len(symbols) \/ symbols[v + 1] = "" THEN RNil ELSE RName(symbols[v + 1]))

\* a value of any kind
RECURSIVE ReadField(_, _, _)

ReadNodeList(bytes, pos) ==
    LET count == ReadCount(bytes, pos) IN
    IF count.pos < 0 THEN Failed
    ELSE ReadAs(ReadEach(LAMBDA p : ReadField(bytes, p, "node"), count.value, count.pos), RArray)

ReadHash(bytes, pos) ==
    LET count == ReadCount(bytes, pos)
        Pair(acc, i) ==
            LET key == ReadField(bytes, acc.pos, "node")
                value == ReadField(bytes, key.pos, "node")
            IN  IF acc.pos < 0 \/ key.pos < 0 \/ value.pos < 0 THEN Got(acc.value, -1)
                ELSE Got(RubyAset(acc.value, key.value, value.value), value.pos)
    IN  IF count.pos < 0 THEN Failed
        ELSE ReadAs(FoldLeft(Pair, Got(<<>>, count.pos), [i \in 1 .. count.value |-> i]), RHash)

\* behind its location
ReadFields(bytes, location, entry) ==
    LET Next1(acc, field) ==
            LET r == ReadField(bytes, acc.pos, field.read) IN
            IF acc.pos < 0 \/ r.pos < 0 THEN Got(acc.value, -1)
            ELSE Got(IF field.name = "" THEN acc.value
                     ELSE IF entry.resolves /\ field.name = "type_params"
                          THEN (field.name :> ResolveVariables(r.value)) @@ acc.value
                          ELSE (field.name :> r.value) @@ acc.value, r.pos)
        first == IF entry.located THEN "location" :> location.value ELSE <<>>
    IN  ReadAs(FoldLeft(Next1, Got(first, location.pos), entry.fields),
               LAMBDA kwargs : RObject(entry.class, kwargs))

ReadStruct(bytes, pos, entry) ==
    ReadFields(bytes, IF entry.located THEN ReadLocation(bytes, pos, entry.children) ELSE Got(RNil, pos), entry)

ReadPair(bytes, pos, readers, Wrap(_, _)) ==
    LET a == ReadField(bytes, pos, readers[1])
        b == ReadField(bytes, a.pos, readers[2])
    IN  IF a.pos < 0 \/ b.pos < 0 THEN Failed ELSE Got(Wrap(a.value, b.value), b.pos)

EntryOf(tag) == IF tag \in DOMAIN Schema THEN Schema[tag] ELSE Special("unknown")
ReadBody(bytes, at, entry) ==
    CASE entry.kind = "node" -> ReadStruct(bytes, at, entry)
      [] entry.kind = "bool" -> ReadFlag(bytes, at)
      [] entry.kind = "integer" -> ReadAs(ReadString(bytes, at), ToI)
      [] entry.kind = "string_value" -> ReadAs(ReadString(bytes, at), LAMBDA v : RString(v, "UTF-8"))
      [] entry.kind \in {"record_field", "signature"} ->
           ReadPair(bytes, at, IF entry.kind = "signature" THEN <<"list", "list">> ELSE <<"node", "flag">>,
                    LAMBDA a, b : RArray(<<a, b>>))
      [] entry.kind = "namespace" ->
           ReadPair(bytes, at, <<"list", "flag">>, LAMBDA a, b : RFlyweight("RBS::Namespace", <<a, b>>))
      [] entry.kind = "type_name" ->
           ReadPair(bytes, at, <<"node", "node">>, LAMBDA a, b : RFlyweight("RBS::TypeName", <<a, b>>))
      [] entry.kind = "unknown" -> Failed

ReadNode(bytes, pos) ==
    LET tag == ReadU8(bytes, pos) IN
    CASE tag.pos < 0 -> Failed
      [] tag.pos >= 0 /\ tag.value = 0 -> Got(RNil, tag.pos)
      [] tag.pos >= 0 /\ tag.value = S!SymbolTag ->
           ReadAs(ReadString(bytes, tag.pos), LAMBDA v : RSymbol(v, BufferEncoding))
      [] OTHER -> ReadBody(bytes, tag.pos, EntryOf(tag.value))

ReadField(bytes, pos, reader) ==
    CASE reader = "node"      -> ReadNode(bytes, pos)
      [] reader = "list"      -> ReadNodeList(bytes, pos)
      [] reader = "hash"      -> ReadHash(bytes, pos)
      [] reader = "text"      -> ReadAs(ReadString(bytes, pos), LAMBDA v : RString(v, BufferEncoding))
      [] reader = "flag"      -> ReadFlag(bytes, pos)
      [] reader = "range"     -> ReadLocationValue(bytes, pos)
      [] reader = "ranges"    -> LET count == ReadCount(bytes, pos) IN
                                 IF count.pos < 0 THEN Failed
                                 ELSE ReadAs(ReadEach(LAMBDA p : ReadLocationValue(bytes, p),
                                                      count.value, count.pos), RArray)
      [] reader = "ivar_name" -> ReadAttrIvarName(bytes, pos)
      [] OTHER                -> ReadEnum(bytes, pos, reader)

\* Deserializer.deserialize for "node", .deserialize_node_list for "list"
Deserialize(bytes, reader) == ReadField(bytes, 0, reader).value

=============================================================================
