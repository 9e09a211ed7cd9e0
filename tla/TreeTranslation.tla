--------------------------- MODULE TreeTranslation ---------------------------
(***************************************************************************)
(* ext/rbs_extension/ast_translation.c: the C extension turns a tree into  *)
(* Ruby objects.  All of them are built through one shared hash of keyword *)
(* arguments, reusable_kwargs_hash, which is therefore passed along from   *)
(* one node to the next.                                                   *)
(***************************************************************************)
EXTENDS Integers, Sequences, SequencesExt, TLC

LOCAL T == INSTANCE SyntaxTree
LOCAL L == INSTANCE Locations
LOCAL INSTANCE RubyValues

(***************************************************************************)
(* ext/rbs_extension/class_constants.c: the C variables and the classes    *)
(* that rbs__init_constants looks up for them.                             *)
(***************************************************************************)
Under(variable, class, names) ==
    [v \in {variable \o "_" \o n : n \in names} |->
        class \o "::" \o (CHOOSE n \in names : variable \o "_" \o n = v)]

ClassConstants ==
    Under("RBS", "RBS", {"MethodType", "Namespace", "TypeName"}) @@
    Under("RBS_AST", "RBS::AST", {"Annotation", "Comment", "TypeParam"}) @@
    Under("RBS_AST_Declarations", "RBS::AST::Declarations",
          {"Class", "ClassAlias", "Constant", "Global", "Interface", "Module", "ModuleAlias", "TypeAlias"}) @@
    Under("RBS_AST_Declarations_Class", "RBS::AST::Declarations::Class", {"Super"}) @@
    Under("RBS_AST_Declarations_Module", "RBS::AST::Declarations::Module", {"Self"}) @@
    Under("RBS_AST_Directives", "RBS::AST::Directives", {"Use"}) @@
    Under("RBS_AST_Directives_Use", "RBS::AST::Directives::Use", {"SingleClause", "WildcardClause"}) @@
    Under("RBS_AST_Members", "RBS::AST::Members",
          {"Alias", "AttrAccessor", "AttrReader", "AttrWriter", "ClassInstanceVariable", "ClassVariable",
           "Extend", "Include", "InstanceVariable", "MethodDefinition", "Prepend", "Private", "Public"}) @@
    Under("RBS_AST_Members_MethodDefinition", "RBS::AST::Members::MethodDefinition", {"Overload"}) @@
    Under("RBS_AST_Ruby_Annotations", "RBS::AST::Ruby::Annotations",
          {"BlockParamTypeAnnotation", "ClassAliasAnnotation", "ColonMethodTypeAnnotation",
           "DoubleSplatParamTypeAnnotation", "InstanceVariableAnnotation", "MethodTypesAnnotation",
           "ModuleAliasAnnotation", "ModuleSelfAnnotation", "NodeTypeAssertion", "ParamTypeAnnotation",
           "ReturnTypeAnnotation", "SkipAnnotation", "SplatParamTypeAnnotation", "TypeApplicationAnnotation"}) @@
    Under("RBS_Types", "RBS::Types",
          {"Alias", "Block", "ClassInstance", "ClassSingleton", "Function", "Interface", "Intersection",
           "Literal", "Optional", "Proc", "Record", "Tuple", "Union", "UntypedFunction", "Variable"}) @@
    Under("RBS_Types_Bases", "RBS::Types::Bases",
          {"Any", "Bool", "Bottom", "Class", "Instance", "Nil", "Self", "Top", "Void"}) @@
    Under("RBS_Types_Function", "RBS::Types::Function", {"ForwardingParam", "Param"})

(***************************************************************************)
(* How each kind of node becomes an object: its class, the children of its *)
(* location, and its keyword arguments.                                    *)
(***************************************************************************)
Arg(name, from, field) == [name |-> name, from |-> from, field |-> field]
Span(f) == Arg(f, "range", f)
Spans(f) == Arg(f, "ranges", f)
Node(f) == Arg(f, "node", f)
List(f) == Arg(f, "list", f)
Hash(f) == Arg(f, "hash", f)
Text(f) == Arg(f, "text", f)
Flag(f) == Arg(f, "flag", f)
IvarName(f) == Arg(f, "ivar_name", f)
As(name, arg) == [arg EXCEPT !.name = name]

Visibility(f) == Arg(f, "visibility", f)
Kind(f) == Arg(f, "kind", f)
MethodKind(f) == Arg(f, "method_kind", f)
Variance(f) == Arg(f, "variance", f)

\* rbs_<enumeration>_to_ruby
Symbols ==
    [visibility |-> <<"", "public", "private">>,
     kind |-> <<"instance", "singleton">>,
     method_kind |-> <<"instance", "singleton", "singleton_instance">>,
     variance |-> <<"invariant", "covariant", "contravariant">>]
EnumToRuby(enum, value) ==
    LET name == Symbols[enum][value + 1] IN IF name = "" THEN RNil ELSE RName(name)

Req(name) == [required |-> TRUE, name |-> name, field |-> name \o "_range"]
Opt(name) == [required |-> FALSE, name |-> name, field |-> name \o "_range"]

Located(class, children, args) ==
    [class |-> class, located |-> TRUE, children |-> children, args |-> args, resolves |-> FALSE]
Bare(class, args) == [Located(class, <<>>, args) EXCEPT !.located = FALSE]
ResolvingLocated(class, children, args) == [Located(class, children, args) EXCEPT !.resolves = TRUE]

Object_Notes ==
    "AST::Annotation" :> Located("RBS_AST_Annotation", <<>>, <<Text("string")>>) @@
    "AST::Comment" :> Located("RBS_AST_Comment", <<>>, <<>>)

Object_Classes ==
    "AST::Declarations::Class" :> ResolvingLocated("RBS_AST_Declarations_Class",
      <<Req("keyword"), Req("name"), Req("end"), Opt("type_params"), Opt("lt")>>,
      <<Node("name"), List("type_params"), Node("super_class"), List("members"), List("annotations"),
        Node("comment")>>) @@
    "AST::Declarations::Class::Super" :> Located("RBS_AST_Declarations_Class_Super",
      <<Req("name"), Opt("args")>>,
      <<Node("name"), List("args")>>) @@
    "AST::Declarations::ClassAlias" :> Located("RBS_AST_Declarations_ClassAlias",
      <<Req("keyword"), Req("new_name"), Req("eq"), Req("old_name")>>,
      <<Node("new_name"), Node("old_name"), Node("comment"), List("annotations")>>) @@
    "AST::Declarations::Constant" :> Located("RBS_AST_Declarations_Constant",
      <<Req("name"), Req("colon")>>,
      <<Node("name"), Node("type"), Node("comment"), List("annotations")>>)

Object_Modules ==
    "AST::Declarations::Global" :> Located("RBS_AST_Declarations_Global",
      <<Req("name"), Req("colon")>>,
      <<Node("name"), Node("type"), Node("comment"), List("annotations")>>) @@
    "AST::Declarations::Interface" :> ResolvingLocated("RBS_AST_Declarations_Interface",
      <<Req("keyword"), Req("name"), Req("end"), Opt("type_params")>>,
      <<Node("name"), List("type_params"), List("members"), List("annotations"), Node("comment")>>) @@
    "AST::Declarations::Module" :> ResolvingLocated("RBS_AST_Declarations_Module",
      <<Req("keyword"), Req("name"), Req("end"), Opt("type_params"), Opt("colon"), Opt("self_types")>>,
      <<Node("name"), List("type_params"), List("self_types"), List("members"), List("annotations"),
        Node("comment")>>) @@
    "AST::Declarations::Module::Self" :> Located("RBS_AST_Declarations_Module_Self",
      <<Req("name"), Opt("args")>>,
      <<Node("name"), List("args")>>)

Object_AliasesAndUses ==
    "AST::Declarations::ModuleAlias" :> Located("RBS_AST_Declarations_ModuleAlias",
      <<Req("keyword"), Req("new_name"), Req("eq"), Req("old_name")>>,
      <<Node("new_name"), Node("old_name"), Node("comment"), List("annotations")>>) @@
    "AST::Declarations::TypeAlias" :> ResolvingLocated("RBS_AST_Declarations_TypeAlias",
      <<Req("keyword"), Req("name"), Req("eq"), Opt("type_params")>>,
      <<Node("name"), List("type_params"), Node("type"), List("annotations"), Node("comment")>>) @@
    "AST::Directives::Use" :> Located("RBS_AST_Directives_Use", <<Req("keyword")>>, <<List("clauses")>>) @@
    "AST::Directives::Use::SingleClause" :> Located("RBS_AST_Directives_Use_SingleClause",
      <<Req("type_name"), Opt("keyword"), Opt("new_name")>>,
      <<Node("type_name"), Node("new_name")>>) @@
    "AST::Directives::Use::WildcardClause" :> Located("RBS_AST_Directives_Use_WildcardClause",
      <<Req("namespace"), Req("star")>>,
      <<As("namespace", Node("rbs_namespace"))>>)

Object_Attributes ==
    "AST::Members::Alias" :> Located("RBS_AST_Members_Alias",
      <<Req("keyword"), Req("new_name"), Req("old_name"), Opt("new_kind"), Opt("old_kind")>>,
      <<Node("new_name"), Node("old_name"), Kind("kind"), List("annotations"), Node("comment")>>) @@
    "AST::Members::AttrAccessor" :> Located("RBS_AST_Members_AttrAccessor",
      <<Req("keyword"), Req("name"), Req("colon"), Opt("kind"), Opt("ivar"), Opt("ivar_name"), Opt("visibility")>>,
      <<Node("name"), Node("type"), IvarName("ivar_name"), Kind("kind"), List("annotations"), Node("comment"),
        Visibility("visibility")>>) @@
    "AST::Members::AttrReader" :> Located("RBS_AST_Members_AttrReader",
      <<Req("keyword"), Req("name"), Req("colon"), Opt("kind"), Opt("ivar"), Opt("ivar_name"), Opt("visibility")>>,
      <<Node("name"), Node("type"), IvarName("ivar_name"), Kind("kind"), List("annotations"), Node("comment"),
        Visibility("visibility")>>) @@
    "AST::Members::AttrWriter" :> Located("RBS_AST_Members_AttrWriter",
      <<Req("keyword"), Req("name"), Req("colon"), Opt("kind"), Opt("ivar"), Opt("ivar_name"), Opt("visibility")>>,
      <<Node("name"), Node("type"), IvarName("ivar_name"), Kind("kind"), List("annotations"), Node("comment"),
        Visibility("visibility")>>)

Object_VariablesAndMixins ==
    "AST::Members::ClassInstanceVariable" :> Located("RBS_AST_Members_ClassInstanceVariable",
      <<Req("name"), Req("colon"), Opt("kind")>>,
      <<Node("name"), Node("type"), Node("comment")>>) @@
    "AST::Members::ClassVariable" :> Located("RBS_AST_Members_ClassVariable",
      <<Req("name"), Req("colon"), Opt("kind")>>,
      <<Node("name"), Node("type"), Node("comment")>>) @@
    "AST::Members::Extend" :> Located("RBS_AST_Members_Extend",
      <<Req("name"), Req("keyword"), Opt("args")>>,
      <<Node("name"), List("args"), List("annotations"), Node("comment")>>) @@
    "AST::Members::Include" :> Located("RBS_AST_Members_Include",
      <<Req("name"), Req("keyword"), Opt("args")>>,
      <<Node("name"), List("args"), List("annotations"), Node("comment")>>) @@
    "AST::Members::InstanceVariable" :> Located("RBS_AST_Members_InstanceVariable",
      <<Req("name"), Req("colon"), Opt("kind")>>,
      <<Node("name"), Node("type"), Node("comment")>>)

Object_Methods ==
    "AST::Members::MethodDefinition" :> Located("RBS_AST_Members_MethodDefinition",
      <<Req("keyword"), Req("name"), Opt("kind"), Opt("overloading"), Opt("visibility")>>,
      <<Node("name"), MethodKind("kind"), List("overloads"), List("annotations"), Node("comment"),
        Flag("overloading"), Visibility("visibility")>>) @@
    "AST::Members::MethodDefinition::Overload" :> Bare("RBS_AST_Members_MethodDefinition_Overload",
      <<List("annotations"), Node("method_type")>>) @@
    "AST::Members::Prepend" :> Located("RBS_AST_Members_Prepend",
      <<Req("name"), Req("keyword"), Opt("args")>>,
      <<Node("name"), List("args"), List("annotations"), Node("comment")>>) @@
    "AST::Members::Private" :> Located("RBS_AST_Members_Private", <<>>, <<>>) @@
    "AST::Members::Public" :> Located("RBS_AST_Members_Public", <<>>, <<>>)

Object_InlineMethods ==
    "AST::Ruby::Annotations::BlockParamTypeAnnotation" :> Located("RBS_AST_Ruby_Annotations_BlockParamTypeAnnotation", <<>>,
      <<Span("prefix_location"), Span("ampersand_location"), Span("name_location"), Span("colon_location"),
        Span("question_location"), Span("type_location"), As("type", Node("type_")), Span("comment_location")>>) @@
    "AST::Ruby::Annotations::ClassAliasAnnotation" :> Located("RBS_AST_Ruby_Annotations_ClassAliasAnnotation", <<>>,
      <<Span("prefix_location"), Span("keyword_location"), Node("type_name"), Span("type_name_location")>>) @@
    "AST::Ruby::Annotations::ColonMethodTypeAnnotation" :> Located("RBS_AST_Ruby_Annotations_ColonMethodTypeAnnotation", <<>>,
      <<Span("prefix_location"), List("annotations"), Node("method_type")>>) @@
    "AST::Ruby::Annotations::DoubleSplatParamTypeAnnotation" :> Located("RBS_AST_Ruby_Annotations_DoubleSplatParamTypeAnnotation", <<>>,
      <<Span("prefix_location"), Span("star2_location"), Span("name_location"), Span("colon_location"),
        Node("param_type"), Span("comment_location")>>) @@
    "AST::Ruby::Annotations::InstanceVariableAnnotation" :> Located("RBS_AST_Ruby_Annotations_InstanceVariableAnnotation", <<>>,
      <<Span("prefix_location"), Node("ivar_name"), Span("ivar_name_location"), Span("colon_location"),
        Node("type"), Span("comment_location")>>) @@
    "AST::Ruby::Annotations::MethodTypesAnnotation" :> Located("RBS_AST_Ruby_Annotations_MethodTypesAnnotation", <<>>,
      <<Span("prefix_location"), List("overloads"), Spans("vertical_bar_locations"), Span("dot3_location")>>)

Object_InlineAssertions ==
    "AST::Ruby::Annotations::ModuleAliasAnnotation" :> Located("RBS_AST_Ruby_Annotations_ModuleAliasAnnotation", <<>>,
      <<Span("prefix_location"), Span("keyword_location"), Node("type_name"), Span("type_name_location")>>) @@
    "AST::Ruby::Annotations::ModuleSelfAnnotation" :> Located("RBS_AST_Ruby_Annotations_ModuleSelfAnnotation", <<>>,
      <<Span("prefix_location"), Span("keyword_location"), Span("colon_location"), Node("name"), List("args"),
        Span("open_bracket_location"), Span("close_bracket_location"), Spans("args_comma_locations"),
        Span("comment_location")>>) @@
    "AST::Ruby::Annotations::NodeTypeAssertion" :> Located("RBS_AST_Ruby_Annotations_NodeTypeAssertion", <<>>,
      <<Span("prefix_location"), Node("type")>>) @@
    "AST::Ruby::Annotations::ParamTypeAnnotation" :> Located("RBS_AST_Ruby_Annotations_ParamTypeAnnotation", <<>>,
      <<Span("prefix_location"), Span("name_location"), Span("colon_location"), Node("param_type"),
        Span("comment_location")>>) @@
    "AST::Ruby::Annotations::ReturnTypeAnnotation" :> Located("RBS_AST_Ruby_Annotations_ReturnTypeAnnotation", <<>>,
      <<Span("prefix_location"), Span("return_location"), Span("colon_location"), Node("return_type"),
        Span("comment_location")>>) @@
    "AST::Ruby::Annotations::SkipAnnotation" :> Located("RBS_AST_Ruby_Annotations_SkipAnnotation", <<>>,
      <<Span("prefix_location"), Span("skip_location"), Span("comment_location")>>)

Object_Names ==
    "AST::Ruby::Annotations::SplatParamTypeAnnotation" :> Located("RBS_AST_Ruby_Annotations_SplatParamTypeAnnotation", <<>>,
      <<Span("prefix_location"), Span("star_location"), Span("name_location"), Span("colon_location"),
        Node("param_type"), Span("comment_location")>>) @@
    "AST::Ruby::Annotations::TypeApplicationAnnotation" :> Located("RBS_AST_Ruby_Annotations_TypeApplicationAnnotation", <<>>,
      <<Span("prefix_location"), List("type_args"), Span("close_bracket_location"), Spans("comma_locations")>>) @@
    "AST::TypeParam" :> Located("RBS_AST_TypeParam",
      <<Req("name"), Opt("variance"), Opt("unchecked"), Opt("upper_bound"), Opt("lower_bound"), Opt("default")>>,
      <<Node("name"), Variance("variance"), Node("upper_bound"), Node("lower_bound"), Node("default_type"),
        Flag("unchecked")>>) @@
    "MethodType" :> ResolvingLocated("RBS_MethodType",
      <<Req("type"), Opt("type_params")>>,
      <<List("type_params"), Node("type"), Node("block")>>)

Object_Bases ==
    "Types::Alias" :> Located("RBS_Types_Alias", <<Req("name"), Opt("args")>>, <<Node("name"), List("args")>>) @@
    "Types::Bases::Any" :> Located("RBS_Types_Bases_Any", <<>>, <<Flag("todo")>>) @@
    "Types::Bases::Bool" :> Located("RBS_Types_Bases_Bool", <<>>, <<>>) @@
    "Types::Bases::Bottom" :> Located("RBS_Types_Bases_Bottom", <<>>, <<>>) @@
    "Types::Bases::Class" :> Located("RBS_Types_Bases_Class", <<>>, <<>>) @@
    "Types::Bases::Instance" :> Located("RBS_Types_Bases_Instance", <<>>, <<>>) @@
    "Types::Bases::Nil" :> Located("RBS_Types_Bases_Nil", <<>>, <<>>) @@
    "Types::Bases::Self" :> Located("RBS_Types_Bases_Self", <<>>, <<>>) @@
    "Types::Bases::Top" :> Located("RBS_Types_Bases_Top", <<>>, <<>>) @@
    "Types::Bases::Void" :> Located("RBS_Types_Bases_Void", <<>>, <<>>)

Object_Functions ==
    "Types::Block" :> Located("RBS_Types_Block", <<>>, <<Node("type"), Flag("required"), Node("self_type")>>) @@
    "Types::ClassInstance" :> Located("RBS_Types_ClassInstance",
      <<Req("name"), Opt("args")>>,
      <<Node("name"), List("args")>>) @@
    "Types::ClassSingleton" :> Located("RBS_Types_ClassSingleton",
      <<Req("name"), Opt("args")>>,
      <<Node("name"), List("args")>>) @@
    "Types::Function" :> Bare("RBS_Types_Function",
      <<List("required_positionals"), List("optional_positionals"), Node("rest_positionals"),
        List("trailing_positionals"), Hash("required_keywords"), Hash("optional_keywords"),
        Node("rest_keywords"), Node("forwarding"), Node("return_type")>>) @@
    "Types::Function::ForwardingParam" :> Located("RBS_Types_Function_ForwardingParam", <<>>, <<>>) @@
    "Types::Function::Param" :> Located("RBS_Types_Function_Param",
      <<Opt("name")>>,
      <<Node("type"), Node("name")>>)

Object_Compounds ==
    "Types::Interface" :> Located("RBS_Types_Interface",
      <<Req("name"), Opt("args")>>,
      <<Node("name"), List("args")>>) @@
    "Types::Intersection" :> Located("RBS_Types_Intersection", <<>>, <<List("types")>>) @@
    "Types::Literal" :> Located("RBS_Types_Literal", <<>>, <<Node("literal")>>) @@
    "Types::Optional" :> Located("RBS_Types_Optional", <<>>, <<Node("type")>>) @@
    "Types::Proc" :> Located("RBS_Types_Proc", <<>>, <<Node("type"), Node("block"), Node("self_type")>>)

Object_Records ==
    "Types::Record" :> Located("RBS_Types_Record", <<>>, <<Hash("all_fields")>>) @@
    "Types::Tuple" :> Located("RBS_Types_Tuple", <<>>, <<List("types")>>) @@
    "Types::Union" :> Located("RBS_Types_Union", <<>>, <<List("types")>>) @@
    "Types::UntypedFunction" :> Bare("RBS_Types_UntypedFunction",
      <<Node("return_type")>>) @@
    "Types::Variable" :> Located("RBS_Types_Variable", <<>>, <<Node("name")>>)

ObjectOf ==
    Object_Notes @@ Object_Classes @@ Object_Modules @@ Object_AliasesAndUses @@ Object_Attributes @@
    Object_VariablesAndMixins @@ Object_Methods @@ Object_InlineMethods @@ Object_InlineAssertions @@
    Object_Names @@ Object_Bases @@ Object_Functions @@ Object_Compounds @@ Object_Records

(***************************************************************************)
(* The parts of a node.                                                    *)
(***************************************************************************)
CONSTANT SourceEncoding        \* the encoding of the buffer's content

\* rbs_location_range_to_ruby_location
LocationOf(range) == IF T!IsNullRange(range) THEN RNil ELSE L!SeenNative(L!NativeNew(range))

\* a location and its children; rbs_check_location raises for nil
LocationWith(node, children) ==
    IF children # <<>> /\ T!IsNullRange(node.location)
    THEN RError("TypeError")
    ELSE IF children = <<>> THEN LocationOf(node.location)
    ELSE L!SeenNative(FoldLeft(
            LAMBDA loc, c : IF c.required THEN L!NativeAddRequired(loc, c.name, node[c.field])
                                          ELSE L!NativeAddOptional(loc, c.name, node[c.field]),
            L!AllocChildren(L!NativeNew(node.location), Len(children)), children))

\* rbs_attr_ivar_name_to_ruby
IvarNameToRuby(ivar) ==
    CASE ivar.tag = 0 -> RNil
      [] ivar.tag = 1 -> RBool(FALSE)
      [] ivar.tag = 2 -> RSymbol(ivar.name, SourceEncoding)

(***************************************************************************)
(* The translation.  It returns the value and the shared hash as it was    *)
(* left.                                                                   *)
(***************************************************************************)
Done(value, h) == [value |-> value, h |-> h]

RECURSIVE ToRuby(_, _), ObjectToRuby(_, _)

\* rbs_node_list_to_ruby_array
ListToRuby(nodes, h) ==
    LET Push(acc, n) == LET r == ToRuby(n, acc.h) IN Done(Append(acc.value, r.value), r.h)
        ArrayOf(all) == Done(RArray(all.value), all.h)
    IN  ArrayOf(FoldLeft(Push, Done(<<>>, h), nodes))

\* rbs_hash_to_ruby_hash
HashToRuby(hash, h) ==
    LET Aset(acc, pair) ==
            LET key == ToRuby(pair[1], acc.h)
                value == ToRuby(pair[2], key.h)
            IN  Done(RubyAset(acc.value, key.value, value.value), value.h)
        all == FoldLeft(Aset, Done(<<>>, h), hash)
    IN  Done(RHash(all.value), all.h)

ArgToRuby(node, arg, h) ==
    LET value == node[arg.field] IN
    CASE arg.from = "node"      -> ToRuby(value, h)
      [] arg.from = "list"      -> ListToRuby(value, h)
      [] arg.from = "hash"      -> HashToRuby(value, h)
      [] arg.from = "range"     -> Done(LocationOf(value), h)
      [] arg.from = "ranges"    -> Done(RArray([i \in DOMAIN value |-> LocationOf(value[i])]), h)
      [] arg.from = "text"      -> Done(RString(value, SourceEncoding), h)
      [] arg.from = "flag"      -> Done(RBool(value), h)
      [] arg.from = "ivar_name" -> Done(IvarNameToRuby(value), h)
      [] OTHER                  -> Done(EnumToRuby(arg.from, value), h)

\* the children first, each with the hash the one before left
ArgsToRuby(node, args, h) ==
    LET Next1(acc, arg) == LET r == ArgToRuby(node, arg, acc.h) IN Done(Append(acc.value, r.value), r.h)
    IN  FoldLeft(Next1, Done(<<>>, h), args)

\* rb_hash_clear, then one rb_hash_aset per argument
Clear(h) == <<>>
Fill(h, names, values) == [n \in ToSet(names) |-> values[CHOOSE i \in DOMAIN names : names[i] = n]] @@ h

Keywords(entry, location, args) ==
    LET names == [i \in DOMAIN entry.args |-> entry.args[i].name]
        values == [i \in DOMAIN names |-> IF entry.resolves /\ names[i] = "type_params"
                                          THEN ResolveVariables(args.value[i]) ELSE args.value[i]]
    IN  IF entry.located THEN Fill(Clear(args.h), <<"location">> \o names, <<location>> \o values)
        ELSE Fill(Clear(args.h), names, values)
Instance(class, kwargs) == Done(RObject(ClassConstants[class], kwargs), kwargs)
ObjectAs(entry, node, h) ==
    Instance(entry.class, Keywords(entry, LocationWith(node, entry.children), ArgsToRuby(node, entry.args, h)))
ObjectToRuby(node, h) == ObjectAs(ObjectOf[node.tag], node, h)

\* rbs_struct_to_ruby_value
ToRuby(node, h) ==
    CASE node = T!NULL -> Done(RNil, h)
      [] node.tag = "AST::Bool" -> Done(RBool(node.value), h)
      [] node.tag = "AST::Integer" -> Done(ToI(node.string_representation), h)
      [] node.tag = "AST::String" -> Done(RString(node.string, "UTF-8"), h)
      [] node.tag = "Symbol" -> Done(RSymbol(node.constant_id, SourceEncoding), h)
      [] node.tag = "Namespace" ->
            LET path == ListToRuby(node.path, h) IN
            Done(RFlyweight(ClassConstants["RBS_Namespace"], <<path.value, RBool(node.absolute)>>), path.h)
      [] node.tag = "TypeName" ->
            LET ns == ToRuby(node.rbs_namespace, h)
                name == ToRuby(node.name, ns.h)
            IN  Done(RFlyweight(ClassConstants["RBS_TypeName"], <<ns.value, name.value>>), name.h)
      [] node.tag = "Signature" ->
            LET directives == ListToRuby(node.directives, h)
                declarations == ListToRuby(node.declarations, directives.h)
            IN  Done(RArray(<<directives.value, declarations.value>>), declarations.h)
      [] node.tag = "Types::Record::FieldType" ->
            LET type == ToRuby(node.type, h) IN Done(RArray(<<type.value, RBool(node.required)>>), type.h)
      [] OTHER -> ObjectToRuby(node, h)

\* the hash of a new translation context is empty
Translate(node) == ToRuby(node, <<>>).value

=============================================================================
