----------------------------- MODULE SyntaxTree -----------------------------
(***************************************************************************)
(* The syntax tree the parser builds: the structs of include/rbs/ast.h and *)
(* the constructors, node lists and hashes of src/ast.c.                   *)
(*                                                                         *)
(* A node is a record: "tag" is base.type, named as rbs_node_type_name     *)
(* names it (without the leading RBS::), "location" is base.location, and  *)
(* the other fields are those of the struct.  A node list is the sequence  *)
(* of its nodes, a hash the sequence of its pairs, a range the pair of its *)
(* character positions, an interned constant its text (that two texts      *)
(* never share an id is ConstantPool's OneIdPerText).                      *)
(***************************************************************************)
EXTENDS Integers, Sequences, SequencesExt, TLC

NULL == [tag |-> "NULL"]                  \* the null pointer
NullRange == <<-1, -1>>                   \* RBS_LOCATION_NULL_RANGE
IsNullRange(rg) == rg[1] = -1             \* RBS_LOCATION_NULL_RANGE_P

(***************************************************************************)
(* What a field of a struct may hold.                                      *)
(***************************************************************************)
Field(is, kind, null) == [is |-> is, kind |-> kind, null |-> null]

Node(kind) == Field("node", kind, FALSE)
AnyNode == Node("any")
OrNull(field) == [field EXCEPT !.null = TRUE]
List == Field("list", "any", FALSE)
Hash == Field("hash", "any", FALSE)
Text == Field("text", "any", FALSE)
ConstantId == Field("constant", "any", FALSE)
Flag == Field("flag", "any", FALSE)
Enum(n) == Field("enum", n, FALSE)        \* an enumeration of n values from 0
IvarName == Field("ivar_name", "any", FALSE)
Required == Field("range", "any", FALSE)
Optional == Field("range", "any", TRUE)
Span == Field("range", "any", TRUE)       \* a range that is no child of the location
Spans == Field("ranges", "any", FALSE)

(***************************************************************************)
(* The structs, group by group in the order of the header.                 *)
(***************************************************************************)
Struct_Notes ==
    "AST::Annotation" :> [string |-> Text] @@
    "AST::Bool" :> [value |-> Flag] @@
    "AST::Comment" :> [string |-> Text]

Struct_Classes ==
    "AST::Declarations::Class" :>
      [name |-> Node("TypeName"), type_params |-> List,
       super_class |-> OrNull(Node("AST::Declarations::Class::Super")), members |-> List, annotations |-> List,
       comment |-> OrNull(Node("AST::Comment")), keyword_range |-> Required, name_range |-> Required,
       end_range |-> Required, type_params_range |-> Optional, lt_range |-> Optional] @@
    "AST::Declarations::Class::Super" :>
      [name |-> Node("TypeName"), args |-> List, name_range |-> Required, args_range |-> Optional] @@
    "AST::Declarations::ClassAlias" :>
      [new_name |-> Node("TypeName"), old_name |-> Node("TypeName"), comment |-> OrNull(Node("AST::Comment")),
       annotations |-> List, keyword_range |-> Required, new_name_range |-> Required, eq_range |-> Required,
       old_name_range |-> Required] @@
    "AST::Declarations::Constant" :>
      [name |-> Node("TypeName"), type |-> AnyNode, comment |-> OrNull(Node("AST::Comment")),
       annotations |-> List, name_range |-> Required, colon_range |-> Required]

Struct_Modules ==
    "AST::Declarations::Global" :>
      [name |-> Node("Symbol"), type |-> AnyNode, comment |-> OrNull(Node("AST::Comment")),
       annotations |-> List, name_range |-> Required, colon_range |-> Required] @@
    "AST::Declarations::Interface" :>
      [name |-> Node("TypeName"), type_params |-> List, members |-> List, annotations |-> List,
       comment |-> OrNull(Node("AST::Comment")), keyword_range |-> Required, name_range |-> Required,
       end_range |-> Required, type_params_range |-> Optional] @@
    "AST::Declarations::Module" :>
      [name |-> Node("TypeName"), type_params |-> List, self_types |-> List, members |-> List,
       annotations |-> List, comment |-> OrNull(Node("AST::Comment")), keyword_range |-> Required,
       name_range |-> Required, end_range |-> Required, type_params_range |-> Optional,
       colon_range |-> Optional, self_types_range |-> Optional] @@
    "AST::Declarations::Module::Self" :>
      [name |-> Node("TypeName"), args |-> List, name_range |-> Required, args_range |-> Optional]

Struct_AliasesAndUses ==
    "AST::Declarations::ModuleAlias" :>
      [new_name |-> Node("TypeName"), old_name |-> Node("TypeName"), comment |-> OrNull(Node("AST::Comment")),
       annotations |-> List, keyword_range |-> Required, new_name_range |-> Required, eq_range |-> Required,
       old_name_range |-> Required] @@
    "AST::Declarations::TypeAlias" :>
      [name |-> Node("TypeName"), type_params |-> List, type |-> AnyNode, annotations |-> List,
       comment |-> OrNull(Node("AST::Comment")), keyword_range |-> Required, name_range |-> Required,
       eq_range |-> Required, type_params_range |-> Optional] @@
    "AST::Directives::Use" :> [clauses |-> List, keyword_range |-> Required] @@
    "AST::Directives::Use::SingleClause" :>
      [type_name |-> Node("TypeName"), new_name |-> OrNull(Node("Symbol")), type_name_range |-> Required,
       keyword_range |-> Optional, new_name_range |-> Optional] @@
    "AST::Directives::Use::WildcardClause" :>
      [rbs_namespace |-> Node("Namespace"), namespace_range |-> Required, star_range |-> Required] @@
    "AST::Integer" :> [string_representation |-> Text]

Struct_Attributes ==
    "AST::Members::Alias" :>
      [new_name |-> Node("Symbol"), old_name |-> Node("Symbol"), kind |-> Enum(2), annotations |-> List,
       comment |-> OrNull(Node("AST::Comment")), keyword_range |-> Required, new_name_range |-> Required,
       old_name_range |-> Required, new_kind_range |-> Optional, old_kind_range |-> Optional] @@
    "AST::Members::AttrAccessor" :>
      [name |-> Node("Symbol"), type |-> AnyNode, ivar_name |-> IvarName, kind |-> Enum(2),
       annotations |-> List, comment |-> OrNull(Node("AST::Comment")), visibility |-> Enum(3),
       keyword_range |-> Required, name_range |-> Required, colon_range |-> Required, kind_range |-> Optional,
       ivar_range |-> Optional, ivar_name_range |-> Optional, visibility_range |-> Optional] @@
    "AST::Members::AttrReader" :>
      [name |-> Node("Symbol"), type |-> AnyNode, ivar_name |-> IvarName, kind |-> Enum(2),
       annotations |-> List, comment |-> OrNull(Node("AST::Comment")), visibility |-> Enum(3),
       keyword_range |-> Required, name_range |-> Required, colon_range |-> Required, kind_range |-> Optional,
       ivar_range |-> Optional, ivar_name_range |-> Optional, visibility_range |-> Optional] @@
    "AST::Members::AttrWriter" :>
      [name |-> Node("Symbol"), type |-> AnyNode, ivar_name |-> IvarName, kind |-> Enum(2),
       annotations |-> List, comment |-> OrNull(Node("AST::Comment")), visibility |-> Enum(3),
       keyword_range |-> Required, name_range |-> Required, colon_range |-> Required, kind_range |-> Optional,
       ivar_range |-> Optional, ivar_name_range |-> Optional, visibility_range |-> Optional]

Struct_VariablesAndMixins ==
    "AST::Members::ClassInstanceVariable" :>
      [name |-> Node("Symbol"), type |-> AnyNode, comment |-> OrNull(Node("AST::Comment")),
       name_range |-> Required, colon_range |-> Required, kind_range |-> Optional] @@
    "AST::Members::ClassVariable" :>
      [name |-> Node("Symbol"), type |-> AnyNode, comment |-> OrNull(Node("AST::Comment")),
       name_range |-> Required, colon_range |-> Required, kind_range |-> Optional] @@
    "AST::Members::Extend" :>
      [name |-> Node("TypeName"), args |-> List, annotations |-> List, comment |-> OrNull(Node("AST::Comment")),
       name_range |-> Required, keyword_range |-> Required, args_range |-> Optional] @@
    "AST::Members::Include" :>
      [name |-> Node("TypeName"), args |-> List, annotations |-> List, comment |-> OrNull(Node("AST::Comment")),
       name_range |-> Required, keyword_range |-> Required, args_range |-> Optional] @@
    "AST::Members::InstanceVariable" :>
      [name |-> Node("Symbol"), type |-> AnyNode, comment |-> OrNull(Node("AST::Comment")),
       name_range |-> Required, colon_range |-> Required, kind_range |-> Optional]

Struct_Methods ==
    "AST::Members::MethodDefinition" :>
      [name |-> Node("Symbol"), kind |-> Enum(3), overloads |-> List, annotations |-> List,
       comment |-> OrNull(Node("AST::Comment")), overloading |-> Flag, visibility |-> Enum(3),
       keyword_range |-> Required, name_range |-> Required, kind_range |-> Optional,
       overloading_range |-> Optional, visibility_range |-> Optional] @@
    "AST::Members::MethodDefinition::Overload" :> [annotations |-> List, method_type |-> AnyNode] @@
    "AST::Members::Prepend" :>
      [name |-> Node("TypeName"), args |-> List, annotations |-> List, comment |-> OrNull(Node("AST::Comment")),
       name_range |-> Required, keyword_range |-> Required, args_range |-> Optional] @@
    "AST::Members::Private" :> <<>> @@
    "AST::Members::Public" :> <<>>

Struct_InlineMethods ==
    "AST::Ruby::Annotations::BlockParamTypeAnnotation" :>
      [prefix_location |-> Span, ampersand_location |-> Span, name_location |-> Span, colon_location |-> Span,
       question_location |-> Span, type_location |-> Span, type_ |-> AnyNode, comment_location |-> Span] @@
    "AST::Ruby::Annotations::ClassAliasAnnotation" :>
      [prefix_location |-> Span, keyword_location |-> Span, type_name |-> OrNull(Node("TypeName")),
       type_name_location |-> Span] @@
    "AST::Ruby::Annotations::ColonMethodTypeAnnotation" :>
      [prefix_location |-> Span, annotations |-> List, method_type |-> AnyNode] @@
    "AST::Ruby::Annotations::DoubleSplatParamTypeAnnotation" :>
      [prefix_location |-> Span, star2_location |-> Span, name_location |-> Span, colon_location |-> Span,
       param_type |-> AnyNode, comment_location |-> Span] @@
    "AST::Ruby::Annotations::InstanceVariableAnnotation" :>
      [prefix_location |-> Span, ivar_name |-> Node("Symbol"), ivar_name_location |-> Span,
       colon_location |-> Span, type |-> AnyNode, comment_location |-> Span] @@
    "AST::Ruby::Annotations::MethodTypesAnnotation" :>
      [prefix_location |-> Span, overloads |-> List, vertical_bar_locations |-> Spans, dot3_location |-> Span]

Struct_InlineAssertions ==
    "AST::Ruby::Annotations::ModuleAliasAnnotation" :>
      [prefix_location |-> Span, keyword_location |-> Span, type_name |-> OrNull(Node("TypeName")),
       type_name_location |-> Span] @@
    "AST::Ruby::Annotations::ModuleSelfAnnotation" :>
      [prefix_location |-> Span, keyword_location |-> Span, colon_location |-> Span, name |-> Node("TypeName"),
       args |-> List, open_bracket_location |-> Span, close_bracket_location |-> Span,
       args_comma_locations |-> Spans, comment_location |-> Span] @@
    "AST::Ruby::Annotations::NodeTypeAssertion" :> [prefix_location |-> Span, type |-> AnyNode] @@
    "AST::Ruby::Annotations::ParamTypeAnnotation" :>
      [prefix_location |-> Span, name_location |-> Span, colon_location |-> Span, param_type |-> AnyNode,
       comment_location |-> Span] @@
    "AST::Ruby::Annotations::ReturnTypeAnnotation" :>
      [prefix_location |-> Span, return_location |-> Span, colon_location |-> Span, return_type |-> AnyNode,
       comment_location |-> Span] @@
    "AST::Ruby::Annotations::SkipAnnotation" :>
      [prefix_location |-> Span, skip_location |-> Span, comment_location |-> Span]

Struct_Names ==
    "AST::Ruby::Annotations::SplatParamTypeAnnotation" :>
      [prefix_location |-> Span, star_location |-> Span, name_location |-> Span, colon_location |-> Span,
       param_type |-> AnyNode, comment_location |-> Span] @@
    "AST::Ruby::Annotations::TypeApplicationAnnotation" :>
      [prefix_location |-> Span, type_args |-> List, close_bracket_location |-> Span, comma_locations |-> Spans] @@
    "AST::String" :> [string |-> Text] @@
    "AST::TypeParam" :>
      [name |-> Node("Symbol"), variance |-> Enum(3), upper_bound |-> OrNull(AnyNode),
       lower_bound |-> OrNull(AnyNode), default_type |-> OrNull(AnyNode), unchecked |-> Flag,
       name_range |-> Required, variance_range |-> Optional, unchecked_range |-> Optional,
       upper_bound_range |-> Optional, lower_bound_range |-> Optional, default_range |-> Optional] @@
    "MethodType" :>
      [type_params |-> List, type |-> AnyNode, block |-> OrNull(Node("Types::Block")), type_range |-> Required,
       type_params_range |-> Optional] @@
    "Namespace" :> [path |-> List, absolute |-> Flag] @@
    "Signature" :> [directives |-> List, declarations |-> List] @@
    "TypeName" :> [rbs_namespace |-> Node("Namespace"), name |-> Node("Symbol")]

Struct_Bases ==
    "Types::Alias" :>
      [name |-> Node("TypeName"), args |-> List, name_range |-> Required, args_range |-> Optional] @@
    "Types::Bases::Any" :> [todo |-> Flag] @@
    "Types::Bases::Bool" :> <<>> @@
    "Types::Bases::Bottom" :> <<>> @@
    "Types::Bases::Class" :> <<>> @@
    "Types::Bases::Instance" :> <<>> @@
    "Types::Bases::Nil" :> <<>> @@
    "Types::Bases::Self" :> <<>> @@
    "Types::Bases::Top" :> <<>> @@
    "Types::Bases::Void" :> <<>>

Struct_Functions ==
    "Types::Block" :> [type |-> AnyNode, required |-> Flag, self_type |-> OrNull(AnyNode)] @@
    "Types::ClassInstance" :>
      [name |-> Node("TypeName"), args |-> List, name_range |-> Required, args_range |-> Optional] @@
    "Types::ClassSingleton" :>
      [name |-> Node("TypeName"), args |-> List, name_range |-> Required, args_range |-> Optional] @@
    "Types::Function" :>
      [required_positionals |-> List, optional_positionals |-> List, rest_positionals |-> OrNull(AnyNode),
       trailing_positionals |-> List, required_keywords |-> Hash, optional_keywords |-> Hash,
       rest_keywords |-> OrNull(AnyNode), forwarding |-> OrNull(AnyNode), return_type |-> AnyNode] @@
    "Types::Function::ForwardingParam" :> <<>> @@
    "Types::Function::Param" :> [type |-> AnyNode, name |-> OrNull(Node("Symbol")), name_range |-> Optional]

Struct_Compounds ==
    "Types::Interface" :>
      [name |-> Node("TypeName"), args |-> List, name_range |-> Required, args_range |-> Optional] @@
    "Types::Intersection" :> [types |-> List] @@
    "Types::Literal" :> [literal |-> AnyNode] @@
    "Types::Optional" :> [type |-> AnyNode] @@
    "Types::Proc" :> [type |-> AnyNode, block |-> OrNull(Node("Types::Block")), self_type |-> OrNull(AnyNode)]

Struct_Records ==
    "Types::Record" :> [all_fields |-> Hash] @@
    "Types::Record::FieldType" :> [type |-> AnyNode, required |-> Flag] @@
    "Types::Tuple" :> [types |-> List] @@
    "Types::Union" :> [types |-> List] @@
    "Types::UntypedFunction" :> [return_type |-> AnyNode] @@
    "Types::Variable" :> [name |-> Node("Symbol")] @@
    "Symbol" :> [constant_id |-> ConstantId]

Struct ==
    Struct_Notes @@ Struct_Classes @@ Struct_Modules @@ Struct_AliasesAndUses @@ Struct_Attributes @@
    Struct_VariablesAndMixins @@ Struct_Methods @@ Struct_InlineMethods @@ Struct_InlineAssertions @@
    Struct_Names @@ Struct_Bases @@ Struct_Functions @@ Struct_Compounds @@ Struct_Records

Kinds == DOMAIN Struct

(***************************************************************************)
(* The constructors: the arguments that follow the location, each stored   *)
(* in the field of its name, and the ranges a new node does not have yet.  *)
(***************************************************************************)
Args(taken, unset) == [taken |-> taken, unset |-> unset]

New_Notes ==
    "AST::Annotation" :> Args(<<"string">>, {}) @@
    "AST::Bool" :> Args(<<"value">>, {}) @@
    "AST::Comment" :> Args(<<"string">>, {})

New_Classes ==
    "AST::Declarations::Class" :>
      Args(<<"name", "type_params", "super_class", "members", "annotations", "comment", "keyword_range",
             "name_range", "end_range">>, {"type_params_range", "lt_range"}) @@
    "AST::Declarations::Class::Super" :> Args(<<"name", "args", "name_range">>, {"args_range"}) @@
    "AST::Declarations::ClassAlias" :>
      Args(<<"new_name", "old_name", "comment", "annotations", "keyword_range", "new_name_range", "eq_range",
             "old_name_range">>, {}) @@
    "AST::Declarations::Constant" :>
      Args(<<"name", "type", "comment", "annotations", "name_range", "colon_range">>, {})

New_Modules ==
    "AST::Declarations::Global" :> Args(<<"name", "type", "comment", "annotations", "name_range", "colon_range">>, {}) @@
    "AST::Declarations::Interface" :>
      Args(<<"name", "type_params", "members", "annotations", "comment", "keyword_range", "name_range",
             "end_range">>, {"type_params_range"}) @@
    "AST::Declarations::Module" :>
      Args(<<"name", "type_params", "self_types", "members", "annotations", "comment", "keyword_range",
             "name_range", "end_range">>, {"type_params_range", "colon_range", "self_types_range"}) @@
    "AST::Declarations::Module::Self" :> Args(<<"name", "args", "name_range">>, {"args_range"})

New_AliasesAndUses ==
    "AST::Declarations::ModuleAlias" :>
      Args(<<"new_name", "old_name", "comment", "annotations", "keyword_range", "new_name_range", "eq_range",
             "old_name_range">>, {}) @@
    "AST::Declarations::TypeAlias" :>
      Args(<<"name", "type_params", "type", "annotations", "comment", "keyword_range", "name_range", "eq_range">>, {"type_params_range"}) @@
    "AST::Directives::Use" :> Args(<<"clauses", "keyword_range">>, {}) @@
    "AST::Directives::Use::SingleClause" :> Args(<<"type_name", "new_name", "type_name_range">>, {"keyword_range", "new_name_range"}) @@
    "AST::Directives::Use::WildcardClause" :> Args(<<"rbs_namespace", "namespace_range", "star_range">>, {}) @@
    "AST::Integer" :> Args(<<"string_representation">>, {})

New_Attributes ==
    "AST::Members::Alias" :>
      Args(<<"new_name", "old_name", "kind", "annotations", "comment", "keyword_range", "new_name_range",
             "old_name_range">>, {"new_kind_range", "old_kind_range"}) @@
    "AST::Members::AttrAccessor" :>
      Args(<<"name", "type", "ivar_name", "kind", "annotations", "comment", "visibility", "keyword_range",
             "name_range", "colon_range">>, {"kind_range", "ivar_range", "ivar_name_range", "visibility_range"}) @@
    "AST::Members::AttrReader" :>
      Args(<<"name", "type", "ivar_name", "kind", "annotations", "comment", "visibility", "keyword_range",
             "name_range", "colon_range">>, {"kind_range", "ivar_range", "ivar_name_range", "visibility_range"}) @@
    "AST::Members::AttrWriter" :>
      Args(<<"name", "type", "ivar_name", "kind", "annotations", "comment", "visibility", "keyword_range",
             "name_range", "colon_range">>, {"kind_range", "ivar_range", "ivar_name_range", "visibility_range"})

New_VariablesAndMixins ==
    "AST::Members::ClassInstanceVariable" :> Args(<<"name", "type", "comment", "name_range", "colon_range">>, {"kind_range"}) @@
    "AST::Members::ClassVariable" :> Args(<<"name", "type", "comment", "name_range", "colon_range">>, {"kind_range"}) @@
    "AST::Members::Extend" :> Args(<<"name", "args", "annotations", "comment", "name_range", "keyword_range">>, {"args_range"}) @@
    "AST::Members::Include" :> Args(<<"name", "args", "annotations", "comment", "name_range", "keyword_range">>, {"args_range"}) @@
    "AST::Members::InstanceVariable" :> Args(<<"name", "type", "comment", "name_range", "colon_range">>, {"kind_range"})

New_Methods ==
    "AST::Members::MethodDefinition" :>
      Args(<<"name", "kind", "overloads", "annotations", "comment", "overloading", "visibility",
             "keyword_range", "name_range">>, {"kind_range", "overloading_range", "visibility_range"}) @@
    "AST::Members::MethodDefinition::Overload" :> Args(<<"annotations", "method_type">>, {}) @@
    "AST::Members::Prepend" :> Args(<<"name", "args", "annotations", "comment", "name_range", "keyword_range">>, {"args_range"}) @@
    "AST::Members::Private" :> Args(<<>>, {}) @@
    "AST::Members::Public" :> Args(<<>>, {})

New_InlineMethods ==
    "AST::Ruby::Annotations::BlockParamTypeAnnotation" :>
      Args(<<"prefix_location", "ampersand_location", "name_location", "colon_location", "question_location",
             "type_location", "type_", "comment_location">>, {}) @@
    "AST::Ruby::Annotations::ClassAliasAnnotation" :>
      Args(<<"prefix_location", "keyword_location", "type_name", "type_name_location">>, {}) @@
    "AST::Ruby::Annotations::ColonMethodTypeAnnotation" :>
      Args(<<"prefix_location", "annotations", "method_type">>, {}) @@
    "AST::Ruby::Annotations::DoubleSplatParamTypeAnnotation" :>
      Args(<<"prefix_location", "star2_location", "name_location", "colon_location", "param_type",
             "comment_location">>, {}) @@
    "AST::Ruby::Annotations::InstanceVariableAnnotation" :>
      Args(<<"prefix_location", "ivar_name", "ivar_name_location", "colon_location", "type", "comment_location">>, {}) @@
    "AST::Ruby::Annotations::MethodTypesAnnotation" :>
      Args(<<"prefix_location", "overloads", "vertical_bar_locations", "dot3_location">>, {})

New_InlineAssertions ==
    "AST::Ruby::Annotations::ModuleAliasAnnotation" :>
      Args(<<"prefix_location", "keyword_location", "type_name", "type_name_location">>, {}) @@
    "AST::Ruby::Annotations::ModuleSelfAnnotation" :>
      Args(<<"prefix_location", "keyword_location", "colon_location", "name", "args", "open_bracket_location",
             "close_bracket_location", "args_comma_locations", "comment_location">>, {}) @@
    "AST::Ruby::Annotations::NodeTypeAssertion" :> Args(<<"prefix_location", "type">>, {}) @@
    "AST::Ruby::Annotations::ParamTypeAnnotation" :>
      Args(<<"prefix_location", "name_location", "colon_location", "param_type", "comment_location">>, {}) @@
    "AST::Ruby::Annotations::ReturnTypeAnnotation" :>
      Args(<<"prefix_location", "return_location", "colon_location", "return_type", "comment_location">>, {}) @@
    "AST::Ruby::Annotations::SkipAnnotation" :> Args(<<"prefix_location", "skip_location", "comment_location">>, {})

New_Names ==
    "AST::Ruby::Annotations::SplatParamTypeAnnotation" :>
      Args(<<"prefix_location", "star_location", "name_location", "colon_location", "param_type",
             "comment_location">>, {}) @@
    "AST::Ruby::Annotations::TypeApplicationAnnotation" :>
      Args(<<"prefix_location", "type_args", "close_bracket_location", "comma_locations">>, {}) @@
    "AST::String" :> Args(<<"string">>, {}) @@
    "AST::TypeParam" :>
      Args(<<"name", "variance", "upper_bound", "lower_bound", "default_type", "unchecked", "name_range">>, {"variance_range", "unchecked_range", "upper_bound_range", "lower_bound_range", "default_range"}) @@
    "MethodType" :> Args(<<"type_params", "type", "block", "type_range">>, {"type_params_range"}) @@
    "Namespace" :> Args(<<"path", "absolute">>, {}) @@
    "Signature" :> Args(<<"directives", "declarations">>, {}) @@
    "TypeName" :> Args(<<"rbs_namespace", "name">>, {})

New_Bases ==
    "Types::Alias" :> Args(<<"name", "args", "name_range">>, {"args_range"}) @@
    "Types::Bases::Any" :> Args(<<"todo">>, {}) @@
    "Types::Bases::Bool" :> Args(<<>>, {}) @@
    "Types::Bases::Bottom" :> Args(<<>>, {}) @@
    "Types::Bases::Class" :> Args(<<>>, {}) @@
    "Types::Bases::Instance" :> Args(<<>>, {}) @@
    "Types::Bases::Nil" :> Args(<<>>, {}) @@
    "Types::Bases::Self" :> Args(<<>>, {}) @@
    "Types::Bases::Top" :> Args(<<>>, {}) @@
    "Types::Bases::Void" :> Args(<<>>, {})

New_Functions ==
    "Types::Block" :> Args(<<"type", "required", "self_type">>, {}) @@
    "Types::ClassInstance" :> Args(<<"name", "args", "name_range">>, {"args_range"}) @@
    "Types::ClassSingleton" :> Args(<<"name", "args", "name_range">>, {"args_range"}) @@
    "Types::Function" :>
      Args(<<"required_positionals", "optional_positionals", "rest_positionals", "trailing_positionals",
             "required_keywords", "optional_keywords", "rest_keywords", "forwarding", "return_type">>, {}) @@
    "Types::Function::ForwardingParam" :> Args(<<>>, {}) @@
    "Types::Function::Param" :> Args(<<"type", "name">>, {"name_range"})

New_Compounds ==
    "Types::Interface" :> Args(<<"name", "args", "name_range">>, {"args_range"}) @@
    "Types::Intersection" :> Args(<<"types">>, {}) @@
    "Types::Literal" :> Args(<<"literal">>, {}) @@
    "Types::Optional" :> Args(<<"type">>, {}) @@
    "Types::Proc" :> Args(<<"type", "block", "self_type">>, {})

New_Records ==
    "Types::Record" :> Args(<<"all_fields">>, {}) @@
    "Types::Record::FieldType" :> Args(<<"type", "required">>, {}) @@
    "Types::Tuple" :> Args(<<"types">>, {}) @@
    "Types::Union" :> Args(<<"types">>, {}) @@
    "Types::UntypedFunction" :> Args(<<"return_type">>, {}) @@
    "Types::Variable" :> Args(<<"name">>, {}) @@
    "Symbol" :> Args(<<"constant_id">>, {})

Constructor ==
    New_Notes @@ New_Classes @@ New_Modules @@ New_AliasesAndUses @@ New_Attributes @@
    New_VariablesAndMixins @@ New_Methods @@ New_InlineMethods @@ New_InlineAssertions @@ New_Names @@
    New_Bases @@ New_Functions @@ New_Compounds @@ New_Records

\* rbs_<kind>_new(allocator, location, arguments...)
Filled(args, arguments) ==
    [f \in ToSet(args.taken) |-> arguments[CHOOSE i \in DOMAIN args.taken : args.taken[i] = f]] @@
    [f \in args.unset |-> NullRange]
New(kind, location, arguments) ==
    [tag |-> kind, location |-> location] @@ Filled(Constructor[kind], arguments)

(***************************************************************************)
(* Hashes: keys are compared by what they spell, and a pair that is set    *)
(* again keeps its place.                                                  *)
(***************************************************************************)
NodeEqual(lhs, rhs) ==
    /\ lhs.tag = rhs.tag
    /\ CASE lhs.tag = "Symbol"       -> lhs.constant_id = rhs.constant_id
         [] lhs.tag = "AST::Bool"    -> lhs.value = rhs.value
         [] lhs.tag = "AST::Integer" -> lhs.string_representation = rhs.string_representation
         [] lhs.tag = "AST::String"  -> lhs.string = rhs.string
         [] OTHER -> FALSE

HashFind(hash, key) == SelectInSeq(hash, LAMBDA pair : NodeEqual(key, pair[1]))

HashSet(hash, key, value) ==
    LET i == HashFind(hash, key) IN
    IF i # 0 THEN [hash EXCEPT ![i][2] = value] ELSE Append(hash, <<key, value>>)

(***************************************************************************)
(* A tree is well formed when every field of every node holds what the     *)
(* struct declares for it: no null where the header says RBS_NONNULL, no   *)
(* null range where it says Required.                                      *)
(***************************************************************************)
ChildrenIn(value, field) ==
    CASE field.is = "node" -> {value} \ {NULL}
      [] field.is = "list" -> ToSet(value)
      [] field.is = "hash" -> ToSet(FlattenSeq(value))
      [] OTHER -> {}

Fits(value, field) ==
    CASE field.is = "node"  -> IF value = NULL THEN field.null ELSE field.kind \in {"any", value.tag}
      [] field.is = "list"  -> NULL \notin ToSet(value)
      [] field.is = "range" -> field.null \/ ~IsNullRange(value)
      [] field.is = "enum"  -> value \in 0 .. field.kind - 1
      [] OTHER -> TRUE

RECURSIVE WellFormed(_)
HasFields(node, fields) ==
    /\ DOMAIN node = DOMAIN fields \cup {"tag", "location"}
    /\ \A f \in DOMAIN fields :
          Fits(node[f], fields[f]) /\ \A child \in ChildrenIn(node[f], fields[f]) : WellFormed(child)
WellFormed(node) == node.tag \in Kinds /\ HasFields(node, Struct[node.tag])

=============================================================================
