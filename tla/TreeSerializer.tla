--------------------------- MODULE TreeSerializer ---------------------------
(***************************************************************************)
(* src/serialize.c: a tree is flattened to bytes for the host of the       *)
(* WebAssembly build.  A node is its tag in one byte and then its fields,  *)
(* in the order written here; a count or a length is four bytes, the       *)
(* lowest first; a range is a presence byte and two positions.             *)
(***************************************************************************)
EXTENDS Integers, Sequences, SequencesExt, TLC

LOCAL T == INSTANCE SyntaxTree

(***************************************************************************)
(* The pieces.  They are appended to a buffer (src/util/rbs_buffer.c) that *)
(* grows as needed.                                                        *)
(***************************************************************************)
W_u8(n) == <<n % 256>>

\* a negative position is written as its two's complement
Byte(n, k) == IF n >= 0 THEN (n \div (256 ^ k)) % 256 ELSE 255 - (((-1 - n) \div (256 ^ k)) % 256)
W_u32(n) == [k \in 1 .. 4 |-> Byte(n, k - 1)]

W_string(text) == W_u32(Len(text)) \o text

W_loc_range(range) == IF T!IsNullRange(range) THEN W_u8(0) ELSE W_u8(1) \o W_u32(range[1]) \o W_u32(range[2])

Each(values, Writer(_)) == FlattenSeq([i \in DOMAIN values |-> Writer(values[i])])
Counted(values, Writer(_)) == W_u32(Len(values)) \o Each(values, Writer)

W_loc_range_list(ranges) == Counted(ranges, W_loc_range)

W_attr_ivar_name(ivar) == W_u8(ivar.tag) \o (IF ivar.tag = 2 THEN W_string(ivar.name) ELSE <<>>)

(***************************************************************************)
(* What is written for each kind of node, and in which order.              *)
(***************************************************************************)
Item(writer, field) == [writer |-> writer, field |-> field]
Span(f) == Item("range", f)
Spans(f) == Item("ranges", f)
Node(f) == Item("node", f)
List(f) == Item("list", f)
Hash(f) == Item("hash", f)
Text(f) == Item("text", f)
Constant(f) == Item("text", f)
Flag(f) == Item("flag", f)
Enum(f) == Item("enum", f)
IvarName(f) == Item("ivar_name", f)
EachSpan(fs) == [i \in DOMAIN fs |-> Span(fs[i])]
Tagged(tag, items) == [tag |-> tag, items |-> items]
SymbolTag == 79

Write_Notes ==
    "AST::Annotation" :> Tagged(1, <<Span("location"), Text("string")>>) @@
    "AST::Bool" :> Tagged(2, <<Flag("value")>>) @@
    "AST::Comment" :> Tagged(3, <<Span("location"), Text("string")>>)

Write_Classes ==
    "AST::Declarations::Class" :> Tagged(4,
      EachSpan(<<"location", "keyword_range", "name_range", "end_range", "type_params_range", "lt_range">>) \o
      <<Node("name"), List("type_params"), Node("super_class"), List("members"), List("annotations"),
        Node("comment")>>) @@
    "AST::Declarations::Class::Super" :> Tagged(5,
      EachSpan(<<"location", "name_range", "args_range">>) \o
      <<Node("name"), List("args")>>) @@
    "AST::Declarations::ClassAlias" :> Tagged(6,
      EachSpan(<<"location", "keyword_range", "new_name_range", "eq_range", "old_name_range">>) \o
      <<Node("new_name"), Node("old_name"), Node("comment"), List("annotations")>>) @@
    "AST::Declarations::Constant" :> Tagged(7,
      EachSpan(<<"location", "name_range", "colon_range">>) \o
      <<Node("name"), Node("type"), Node("comment"), List("annotations")>>)

Write_Modules ==
    "AST::Declarations::Global" :> Tagged(8,
      EachSpan(<<"location", "name_range", "colon_range">>) \o
      <<Node("name"), Node("type"), Node("comment"), List("annotations")>>) @@
    "AST::Declarations::Interface" :> Tagged(9,
      EachSpan(<<"location", "keyword_range", "name_range", "end_range", "type_params_range">>) \o
      <<Node("name"), List("type_params"), List("members"), List("annotations"), Node("comment")>>) @@
    "AST::Declarations::Module" :> Tagged(10,
      EachSpan(<<"location", "keyword_range", "name_range", "end_range", "type_params_range", "colon_range",
                    "self_types_range">>) \o
      <<Node("name"), List("type_params"), List("self_types"), List("members"), List("annotations"),
        Node("comment")>>) @@
    "AST::Declarations::Module::Self" :> Tagged(11,
      EachSpan(<<"location", "name_range", "args_range">>) \o
      <<Node("name"), List("args")>>)

Write_AliasesAndUses ==
    "AST::Declarations::ModuleAlias" :> Tagged(12,
      EachSpan(<<"location", "keyword_range", "new_name_range", "eq_range", "old_name_range">>) \o
      <<Node("new_name"), Node("old_name"), Node("comment"), List("annotations")>>) @@
    "AST::Declarations::TypeAlias" :> Tagged(13,
      EachSpan(<<"location", "keyword_range", "name_range", "eq_range", "type_params_range">>) \o
      <<Node("name"), List("type_params"), Node("type"), List("annotations"), Node("comment")>>) @@
    "AST::Directives::Use" :> Tagged(14,
      EachSpan(<<"location", "keyword_range">>) \o
      <<List("clauses")>>) @@
    "AST::Directives::Use::SingleClause" :> Tagged(15,
      EachSpan(<<"location", "type_name_range", "keyword_range", "new_name_range">>) \o
      <<Node("type_name"), Node("new_name")>>) @@
    "AST::Directives::Use::WildcardClause" :> Tagged(16,
      EachSpan(<<"location", "namespace_range", "star_range">>) \o
      <<Node("rbs_namespace")>>) @@
    "AST::Integer" :> Tagged(17, <<Text("string_representation")>>)

Write_Attributes ==
    "AST::Members::Alias" :> Tagged(18,
      EachSpan(<<"location", "keyword_range", "new_name_range", "old_name_range", "new_kind_range",
                    "old_kind_range">>) \o
      <<Node("new_name"), Node("old_name"), Enum("kind"), List("annotations"), Node("comment")>>) @@
    "AST::Members::AttrAccessor" :> Tagged(19,
      EachSpan(<<"location", "keyword_range", "name_range", "colon_range", "kind_range", "ivar_range",
                    "ivar_name_range", "visibility_range">>) \o
      <<Node("name"), Node("type"), IvarName("ivar_name"), Enum("kind"), List("annotations"), Node("comment"),
        Enum("visibility")>>) @@
    "AST::Members::AttrReader" :> Tagged(20,
      EachSpan(<<"location", "keyword_range", "name_range", "colon_range", "kind_range", "ivar_range",
                    "ivar_name_range", "visibility_range">>) \o
      <<Node("name"), Node("type"), IvarName("ivar_name"), Enum("kind"), List("annotations"), Node("comment"),
        Enum("visibility")>>) @@
    "AST::Members::AttrWriter" :> Tagged(21,
      EachSpan(<<"location", "keyword_range", "name_range", "colon_range", "kind_range", "ivar_range",
                    "ivar_name_range", "visibility_range">>) \o
      <<Node("name"), Node("type"), IvarName("ivar_name"), Enum("kind"), List("annotations"), Node("comment"),
        Enum("visibility")>>)

Write_VariablesAndMixins ==
    "AST::Members::ClassInstanceVariable" :> Tagged(22,
      EachSpan(<<"location", "name_range", "colon_range", "kind_range">>) \o
      <<Node("name"), Node("type"), Node("comment")>>) @@
    "AST::Members::ClassVariable" :> Tagged(23,
      EachSpan(<<"location", "name_range", "colon_range", "kind_range">>) \o
      <<Node("name"), Node("type"), Node("comment")>>) @@
    "AST::Members::Extend" :> Tagged(24,
      EachSpan(<<"location", "name_range", "keyword_range", "args_range">>) \o
      <<Node("name"), List("args"), List("annotations"), Node("comment")>>) @@
    "AST::Members::Include" :> Tagged(25,
      EachSpan(<<"location", "name_range", "keyword_range", "args_range">>) \o
      <<Node("name"), List("args"), List("annotations"), Node("comment")>>) @@
    "AST::Members::InstanceVariable" :> Tagged(26,
      EachSpan(<<"location", "name_range", "colon_range", "kind_range">>) \o
      <<Node("name"), Node("type"), Node("comment")>>)

Write_Methods ==
    "AST::Members::MethodDefinition" :> Tagged(27,
      EachSpan(<<"location", "keyword_range", "name_range", "kind_range", "overloading_range",
                    "visibility_range">>) \o
      <<Node("name"), Enum("kind"), List("overloads"), List("annotations"), Node("comment"),
        Flag("overloading"), Enum("visibility")>>) @@
    "AST::Members::MethodDefinition::Overload" :> Tagged(28, <<List("annotations"), Node("method_type")>>) @@
    "AST::Members::Prepend" :> Tagged(29,
      EachSpan(<<"location", "name_range", "keyword_range", "args_range">>) \o
      <<Node("name"), List("args"), List("annotations"), Node("comment")>>) @@
    "AST::Members::Private" :> Tagged(30, <<Span("location")>>) @@
    "AST::Members::Public" :> Tagged(31, <<Span("location")>>)

Write_InlineMethods ==
    "AST::Ruby::Annotations::BlockParamTypeAnnotation" :> Tagged(32,
      EachSpan(<<"location", "prefix_location", "ampersand_location", "name_location", "colon_location",
                    "question_location", "type_location">>) \o
      <<Node("type_"), Span("comment_location")>>) @@
    "AST::Ruby::Annotations::ClassAliasAnnotation" :> Tagged(33,
      EachSpan(<<"location", "prefix_location", "keyword_location">>) \o
      <<Node("type_name"), Span("type_name_location")>>) @@
    "AST::Ruby::Annotations::ColonMethodTypeAnnotation" :> Tagged(34,
      EachSpan(<<"location", "prefix_location">>) \o
      <<List("annotations"), Node("method_type")>>) @@
    "AST::Ruby::Annotations::DoubleSplatParamTypeAnnotation" :> Tagged(35,
      EachSpan(<<"location", "prefix_location", "star2_location", "name_location", "colon_location">>) \o
      <<Node("param_type"), Span("comment_location")>>) @@
    "AST::Ruby::Annotations::InstanceVariableAnnotation" :> Tagged(36,
      EachSpan(<<"location", "prefix_location">>) \o
      <<Node("ivar_name"), Span("ivar_name_location"), Span("colon_location"), Node("type"),
        Span("comment_location")>>) @@
    "AST::Ruby::Annotations::MethodTypesAnnotation" :> Tagged(37,
      EachSpan(<<"location", "prefix_location">>) \o
      <<List("overloads"), Spans("vertical_bar_locations"), Span("dot3_location")>>)

Write_InlineAssertions ==
    "AST::Ruby::Annotations::ModuleAliasAnnotation" :> Tagged(38,
      EachSpan(<<"location", "prefix_location", "keyword_location">>) \o
      <<Node("type_name"), Span("type_name_location")>>) @@
    "AST::Ruby::Annotations::ModuleSelfAnnotation" :> Tagged(39,
      EachSpan(<<"location", "prefix_location", "keyword_location", "colon_location">>) \o
      <<Node("name"), List("args"), Span("open_bracket_location"), Span("close_bracket_location"),
        Spans("args_comma_locations"), Span("comment_location")>>) @@
    "AST::Ruby::Annotations::NodeTypeAssertion" :> Tagged(40,
      EachSpan(<<"location", "prefix_location">>) \o
      <<Node("type")>>) @@
    "AST::Ruby::Annotations::ParamTypeAnnotation" :> Tagged(41,
      EachSpan(<<"location", "prefix_location", "name_location", "colon_location">>) \o
      <<Node("param_type"), Span("comment_location")>>) @@
    "AST::Ruby::Annotations::ReturnTypeAnnotation" :> Tagged(42,
      EachSpan(<<"location", "prefix_location", "return_location", "colon_location">>) \o
      <<Node("return_type"), Span("comment_location")>>) @@
    "AST::Ruby::Annotations::SkipAnnotation" :> Tagged(43,
      EachSpan(<<"location", "prefix_location", "skip_location", "comment_location">>))

Write_Names ==
    "AST::Ruby::Annotations::SplatParamTypeAnnotation" :> Tagged(44,
      EachSpan(<<"location", "prefix_location", "star_location", "name_location", "colon_location">>) \o
      <<Node("param_type"), Span("comment_location")>>) @@
    "AST::Ruby::Annotations::TypeApplicationAnnotation" :> Tagged(45,
      EachSpan(<<"location", "prefix_location">>) \o
      <<List("type_args"), Span("close_bracket_location"), Spans("comma_locations")>>) @@
    "AST::String" :> Tagged(46, <<Text("string")>>) @@
    "AST::TypeParam" :> Tagged(47,
      EachSpan(<<"location", "name_range", "variance_range", "unchecked_range", "upper_bound_range",
                    "lower_bound_range", "default_range">>) \o
      <<Node("name"), Enum("variance"), Node("upper_bound"), Node("lower_bound"), Node("default_type"),
        Flag("unchecked")>>) @@
    "MethodType" :> Tagged(48,
      EachSpan(<<"location", "type_range", "type_params_range">>) \o
      <<List("type_params"), Node("type"), Node("block")>>) @@
    "Namespace" :> Tagged(49, <<List("path"), Flag("absolute")>>) @@
    "Signature" :> Tagged(50, <<List("directives"), List("declarations")>>) @@
    "TypeName" :> Tagged(51, <<Node("rbs_namespace"), Node("name")>>)

Write_Bases ==
    "Types::Alias" :> Tagged(52,
      EachSpan(<<"location", "name_range", "args_range">>) \o
      <<Node("name"), List("args")>>) @@
    "Types::Bases::Any" :> Tagged(53, <<Span("location"), Flag("todo")>>) @@
    "Types::Bases::Bool" :> Tagged(54, <<Span("location")>>) @@
    "Types::Bases::Bottom" :> Tagged(55, <<Span("location")>>) @@
    "Types::Bases::Class" :> Tagged(56, <<Span("location")>>) @@
    "Types::Bases::Instance" :> Tagged(57, <<Span("location")>>) @@
    "Types::Bases::Nil" :> Tagged(58, <<Span("location")>>) @@
    "Types::Bases::Self" :> Tagged(59, <<Span("location")>>) @@
    "Types::Bases::Top" :> Tagged(60, <<Span("location")>>) @@
    "Types::Bases::Void" :> Tagged(61, <<Span("location")>>)

Write_Functions ==
    "Types::Block" :> Tagged(62, <<Span("location"), Node("type"), Flag("required"), Node("self_type")>>) @@
    "Types::ClassInstance" :> Tagged(63,
      EachSpan(<<"location", "name_range", "args_range">>) \o
      <<Node("name"), List("args")>>) @@
    "Types::ClassSingleton" :> Tagged(64,
      EachSpan(<<"location", "name_range", "args_range">>) \o
      <<Node("name"), List("args")>>) @@
    "Types::Function" :>
      Tagged(65, <<List("required_positionals"), List("optional_positionals"), Node("rest_positionals"),
                   List("trailing_positionals"), Hash("required_keywords"), Hash("optional_keywords"),
                   Node("rest_keywords"), Node("forwarding"), Node("return_type")>>) @@
    "Types::Function::ForwardingParam" :> Tagged(66, <<Span("location")>>) @@
    "Types::Function::Param" :> Tagged(67,
      EachSpan(<<"location", "name_range">>) \o
      <<Node("type"), Node("name")>>)

Write_Compounds ==
    "Types::Interface" :> Tagged(68,
      EachSpan(<<"location", "name_range", "args_range">>) \o
      <<Node("name"), List("args")>>) @@
    "Types::Intersection" :> Tagged(69, <<Span("location"), List("types")>>) @@
    "Types::Literal" :> Tagged(70, <<Span("location"), Node("literal")>>) @@
    "Types::Optional" :> Tagged(71, <<Span("location"), Node("type")>>) @@
    "Types::Proc" :> Tagged(72, <<Span("location"), Node("type"), Node("block"), Node("self_type")>>)

Write_Records ==
    "Types::Record" :> Tagged(73, <<Span("location"), Hash("all_fields")>>) @@
    "Types::Record::FieldType" :> Tagged(74, <<Node("type"), Flag("required")>>) @@
    "Types::Tuple" :> Tagged(75, <<Span("location"), List("types")>>) @@
    "Types::Union" :> Tagged(76, <<Span("location"), List("types")>>) @@
    "Types::UntypedFunction" :> Tagged(77, <<Node("return_type")>>) @@
    "Types::Variable" :> Tagged(78, <<Span("location"), Node("name")>>) @@
    "Symbol" :> Tagged(SymbolTag, <<Constant("constant_id")>>)

WriteOrder ==
    Write_Notes @@ Write_Classes @@ Write_Modules @@ Write_AliasesAndUses @@ Write_Attributes @@
    Write_VariablesAndMixins @@ Write_Methods @@ Write_InlineMethods @@ Write_InlineAssertions @@
    Write_Names @@ Write_Bases @@ Write_Functions @@ Write_Compounds @@ Write_Records

RECURSIVE SerializeNode(_)

W_node_list(nodes) == Counted(nodes, LAMBDA node : SerializeNode(node))

\* the length of the C hash is not kept: the pairs are counted
W_hash(hash) == Counted(hash, LAMBDA pair : SerializeNode(pair[1]) \o SerializeNode(pair[2]))

W_item(node, item) ==
    LET value == node[item.field] IN
    CASE item.writer = "range"     -> W_loc_range(value)
      [] item.writer = "ranges"    -> W_loc_range_list(value)
      [] item.writer = "node"      -> SerializeNode(value)
      [] item.writer = "list"      -> W_node_list(value)
      [] item.writer = "hash"      -> W_hash(value)
      [] item.writer = "text"      -> W_string(value)
      [] item.writer = "flag"      -> W_u8(IF value THEN 1 ELSE 0)
      [] item.writer = "enum"      -> W_u8(value)
      [] item.writer = "ivar_name" -> W_attr_ivar_name(value)

SerializeNode(node) ==
    IF node = T!NULL THEN W_u8(0)
    ELSE LET order == WriteOrder[node.tag] IN
         W_u8(order.tag) \o Each(order.items, LAMBDA item : W_item(node, item))

rbs_serialize_node(node) == SerializeNode(node)
rbs_serialize_node_list(nodes) == W_node_list(nodes)

=============================================================================
