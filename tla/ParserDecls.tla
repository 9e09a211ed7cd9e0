----------------------------- MODULE ParserDecls -----------------------------
(***************************************************************************)
(* src/parser.c: declarations, members, use directives and signatures, one *)
(* operator per function.  "at" is where the annotations before a          *)
(* declaration or a member start, none for NullPosition: the comment of    *)
(* what is annotated stands above its annotations.                         *)
(***************************************************************************)
EXTENDS ParserTypes

LOCAL T == INSTANCE SyntaxTree
LOCAL U == INSTANCE Unescape

\* a call of one of the functions here or of ParserTypes by another, with its last arguments
RECURSIVE DeclCall(_, _, _)

NullPosition == [NoPosition EXCEPT !.line = -1]

\* rbs_parser_get_comment for what starts at the current token
CommentOf(p, at) ==
    rbs_parser_get_comment(p, IF at = NullPosition THEN Current(p).start.line ELSE at.line)

(***************************************************************************)
(* Annotations.                                                            *)
(***************************************************************************)
OpeningBytes == {123, 40, 91, 60, 124}      \* { ( [ < |

\* {<tANNOTATION>}: `%a` and a bracketed text
parse_annotation(p) ==
    LET text == Current(p).text IN
    IF text[3] \notin OpeningBytes THEN InternalError(p)
    ELSE Ok(p, T!New("AST::Annotation", SpanOf(Current(p)),
                     <<U!rbs_string_strip_whitespace(SubSeq(text, 4, Len(text) - 1))>>))

RECURSIVE Annotations(_, _, _)
Annotations(p, list, at) ==
    LET q == rbs_parser_advance(p) IN
    IF ~NextIs(p, "tANNOTATION") THEN Ok(p, [list |-> list, at |-> at])
    ELSE Then(parse_annotation(q), LAMBDA r, a :
           Annotations(r, Append(list, a), IF at = NullPosition THEN Current(q).start ELSE at))

parse_annotations(p) == Annotations(p, <<>>, NullPosition)

(***************************************************************************)
(* Constants, globals and type aliases.                                    *)
(***************************************************************************)
\* {tGIDENT} `:` <type>
parse_global_decl(p, at, annotations) ==
    LET name == Current(p)
        comment == CommentOf(p, at)
    IN  Then(AdvanceAssert(p, "pCOLON"), LAMBDA q, colon :
          Yielding(DeclCall("rbs_parse_type", q, {}), LAMBDA r, type :
            T!New("AST::Declarations::Global", Span(name, Current(r)),
                  <<SymbolOf(name), type, comment, annotations, SpanOf(name), SpanOf(colon)>>)))

\* {const_name} `:` <type>
parse_const_decl(p, at, annotations) ==
    LET comment == CommentOf(p, at) IN
    Then(DeclCall("parse_type_name", p, CLASS_NAME), LAMBDA q, name :
      Then(AdvanceAssert(q, "pCOLON"), LAMBDA r, colon :
        Yielding(DeclCall("rbs_parse_type", r, {}), LAMBDA t, type :
          T!New("AST::Declarations::Constant", Span(Current(p), Current(t)),
                <<name.name, type, comment, annotations, name.range, SpanOf(colon)>>))))

\* {kTYPE} alias_name type_params `=` <type>
parse_type_decl(before, at, annotations) ==
    LET keyword == Current(before)
        p == rbs_parser_push_typevar_table(before, TRUE)
    IN  Then(DeclCall("parse_type_name", rbs_parser_advance(p), ALIAS_NAME), LAMBDA q, name :
          Then(DeclCall("parse_type_params", q, TRUE), LAMBDA r, params :
            Then(AdvanceAssert(r, "pEQ"), LAMBDA s, eq :
              Then(DeclCall("rbs_parse_type", s, {}), LAMBDA t, type :
                Yielding(parser_pop_typevar_table(t), LAMBDA u, popped :
                  [T!New("AST::Declarations::TypeAlias", Span(keyword, Current(u)),
                         <<name.name, params.params, type, annotations,
                           rbs_parser_get_comment(u, IF at = NullPosition THEN keyword.start.line ELSE at.line),
                           SpanOf(keyword), name.range, SpanOf(eq)>>)
                     EXCEPT !.type_params_range = params.range])))))

(***************************************************************************)
(* Method names and kinds.                                                 *)
(***************************************************************************)
QuestionableNames == {"tUIDENT", "tLIDENT", "tULIDENT", "tULLIDENT", "tNONASCIIIDENT"} \cup KEYWORD_CASES
OperatorNames == {"pBAR", "pHAT", "pAMP", "pSTAR", "pSTAR2", "pLT", "pGT", "pAREF_OPR", "tOPERATOR"}

\* the value is the symbol and the range the caller is given; for a quoted name the range is not written, and
\* the caller reads what its variable happens to hold
parse_method_name(before) ==
    LET p == rbs_parser_advance(before)
        token == Current(p)
        range == Span(token, Next(p))
    IN  CASE token.type \in QuestionableNames /\ NextIs(p, "pQUESTION") /\ Adjacent(token, Next(p)) ->
               Ok(rbs_parser_advance(p),
                  [symbol |-> T!New("Symbol", range, <<token.text \o Next(p).text>>), range |-> range])
          [] \/ token.type \in {"tBANGIDENT", "tEQIDENT"} \cup OperatorNames
             \/ token.type \in QuestionableNames /\ ~(NextIs(p, "pQUESTION") /\ Adjacent(token, Next(p))) ->
               Ok(p, [symbol |-> SymbolOf(token), range |-> SpanOf(token)])
          [] token.type = "tQIDENT" ->
               Ok(p, [symbol |-> T!New("Symbol", SpanOf(token), <<Unquoted(p, token)>>),
                      range |-> p.options.uninitialized])
          [] OTHER -> Fail(p, token)

INSTANCE_KIND == 0
SINGLETON_KIND == 1
INSTANCE_SINGLETON_KIND == 2

\* {<>}, {} kSELF <`.`> or {} kSELF~`?` <`.`>; the range runs from `self` to the current token whatever follows
parse_instance_singleton_kind(p, allow_selfq) ==
    LET two == rbs_parser_advance(rbs_parser_advance(p))
        Result(q, kind) == Ok(q, [kind |-> kind, range |-> Span(Next(p), Current(q))])
    IN  CASE ~NextIs(p, "kSELF") -> Ok(p, [kind |-> INSTANCE_KIND, range |-> NullRange])
          [] NextIs(p, "kSELF") /\ Next2(p).type = "pDOT" -> Result(two, SINGLETON_KIND)
          [] /\ NextIs(p, "kSELF") /\ Next2(p).type = "pQUESTION" /\ Next3(p).type = "pDOT"
             /\ Next(p).end.char = Next2(p).start.char /\ allow_selfq ->
               Result(rbs_parser_advance(two), INSTANCE_SINGLETON_KIND)
          [] OTHER -> Result(p, INSTANCE_KIND)

\* {kPRIVATE} or {kPUBLIC} and then the keyword, or the keyword itself
Visibility(p) ==
    LET visibility == CASE CurrentIs(p, "kPUBLIC") -> 1 [] CurrentIs(p, "kPRIVATE") -> 2 [] OTHER -> 0 IN
    [p |-> IF visibility = 0 THEN p ELSE rbs_parser_advance(p),
     visibility |-> visibility,
     range |-> IF visibility = 0 THEN NullRange ELSE SpanOf(Current(p))]

(***************************************************************************)
(* Methods.                                                                *)
(***************************************************************************)
MethodTypeStarts == {"pLPAREN", "pARROW", "pLBRACE", "pLBRACKET", "pQUESTION"}
SELF_ID == <<115, 101, 108, 102, 63>>       \* self?

\* method types separated by `|`, perhaps with `...` at the end; a `|` after that is taken, too
RECURSIVE Overloads(_, _, _, _)
Overloads(p, list, instance_only, accept_overload) ==
    Then(IF NextIs(p, "tANNOTATION") THEN parse_annotations(p) ELSE Ok(p, [list |-> <<>>, at |-> NullPosition]),
         LAMBDA q, annotations :
      CASE Next(q).type \in MethodTypeStarts ->
             Then(DeclCall("rbs_parse_method_type", q, <<FALSE, ~instance_only>>), LAMBDA r, type :
               LET overload == T!New("AST::Members::MethodDefinition::Overload", Span(Current(p), Current(r)),
                                     <<annotations.list, type>>)
                   all == [list EXCEPT !.overloads = Append(@, overload), !.last = Current(r)]
               IN  IF NextIs(r, "pBAR") THEN Overloads(rbs_parser_advance(r), all, instance_only, accept_overload)
                   ELSE Ok(r, all))
        [] NextIs(q, "pDOT3") /\ accept_overload ->
             LET r == rbs_parser_advance(q) IN
             Ok(parser_advance_if(r, "pBAR"), [list EXCEPT !.dot3 = SpanOf(Current(r)), !.last = Current(r)])
        [] OTHER -> Fail(q, Next(q)))

\* visibility? {kDEF} method_name `:` <method_types>
parse_member_def(before, instance_only, accept_overload, at, annotations) ==
    LET start == Current(before)
        comment == CommentOf(before, at)
        v == Visibility(before)
        keyword == Current(v.p)
    IN  Then(IF instance_only THEN Ok(v.p, [kind |-> INSTANCE_KIND, range |-> NullRange])
             ELSE parse_instance_singleton_kind(v.p, v.visibility = 0), LAMBDA p, kind :
          Then(DeclCall("parse_method_name", p, <<>>), LAMBDA q, name :
            Then(IF NextIs(q, "pDOT") /\ name.symbol.constant_id = SELF_ID THEN Fail(q, Next(q))
                 ELSE AdvanceAssert(q, "pCOLON"), LAMBDA r, colon :
              Then(Overloads(rbs_parser_push_typevar_table(r, kind.kind # INSTANCE_KIND),
                             [overloads |-> <<>>, dot3 |-> NullRange, last |-> colon], instance_only, accept_overload),
                   LAMBDA t, o :
                Yielding(parser_pop_typevar_table(t), LAMBDA u, popped :
                  [T!New("AST::Members::MethodDefinition", Span(start, o.last),
                         <<name.symbol, kind.kind, o.overloads, annotations, comment, o.dot3 # NullRange, v.visibility,
                           SpanOf(keyword), name.range>>)
                     EXCEPT !.kind_range = kind.range, !.overloading_range = o.dot3,
                            !.visibility_range = v.range])))))

(***************************************************************************)
(* Mixins, aliases, variables and attributes.                              *)
(***************************************************************************)
\* {} class_name ( `[` type args `]` )?
class_instance_name(p, kind, classish_allowed) ==
    Then(DeclCall("parse_type_name", rbs_parser_advance(p), kind), LAMBDA q, name :
      Yielding(DeclCall("TypeArguments", q, {"void"} \cup (IF classish_allowed THEN {"classish"} ELSE {})), LAMBDA r, a :
        [name |-> name.name, name_range |-> name.range, args |-> a.args, args_range |-> a.range]))

Mixins == [kINCLUDE |-> "AST::Members::Include", kEXTEND |-> "AST::Members::Extend",
           kPREPEND |-> "AST::Members::Prepend"]

\* {kINCLUDE}, {kPREPEND} or {kEXTEND} <class_instance_name>; type variables are not visible to extend
parse_mixin_member(p, from_interface, at, annotations) ==
    LET keyword == Current(p)
        names == INTERFACE_NAME \cup (IF from_interface THEN {} ELSE CLASS_NAME)
        scoped == rbs_parser_push_typevar_table(p, keyword.type = "kEXTEND")
    IN  IF from_interface /\ keyword.type # "kINCLUDE" THEN Fail(p, keyword)
        ELSE Then(class_instance_name(scoped, names, ~from_interface), LAMBDA q, mixin :
               Yielding(parser_pop_typevar_table(q), LAMBDA r, popped :
                 LET comment == rbs_parser_get_comment(r, IF at = NullPosition THEN keyword.start.line ELSE at.line) IN
                 [T!New(Mixins[keyword.type], Span(keyword, Current(r)),
                        <<mixin.name, mixin.args, annotations, comment, mixin.name_range, SpanOf(keyword)>>)
                    EXCEPT !.args_range = mixin.args_range]))

\* method_name, or kSELF `.` method_name with the range of `self.`
AliasName(p, singleton) ==
    IF ~singleton THEN Yielding(DeclCall("parse_method_name", p, <<>>), LAMBDA q, name : [name |-> name, kind_range |-> NullRange])
    ELSE Then(AdvanceAssert(p, "kSELF"), LAMBDA q, self :
           Then(AdvanceAssert(q, "pDOT"), LAMBDA r, dot :
             Yielding(DeclCall("parse_method_name", r, <<>>), LAMBDA t, name :
               [name |-> name, kind_range |-> Span(Next(p), Next2(p))])))

\* {kALIAS} new_name <old_name>, both of self or neither
parse_alias_member(p, instance_only, at, annotations) ==
    LET comment == CommentOf(p, at)
        singleton == ~instance_only /\ NextIs(p, "kSELF")
    IN  Then(AliasName(p, singleton), LAMBDA q, new :
          Yielding(AliasName(q, singleton), LAMBDA r, old :
            [T!New("AST::Members::Alias", Span(Current(p), Current(r)),
                   <<new.name.symbol, old.name.symbol, IF singleton THEN 1 ELSE 0, annotations, comment,
                     SpanOf(Current(p)), new.name.range, old.name.range>>)
               EXCEPT !.new_kind_range = new.kind_range, !.old_kind_range = old.kind_range]))

\* `:` <type> after a variable's name, behind a reset table when "reset"
VariableType(p, reset, allowed) ==
    Then(AdvanceAssert(p, "pCOLON"), LAMBDA q, colon :
      Then(DeclCall("rbs_parse_type", IF reset THEN rbs_parser_push_typevar_table(q, TRUE) ELSE q, allowed), LAMBDA r, type :
        Yielding(IF reset THEN parser_pop_typevar_table(r) ELSE Ok(r, NULL), LAMBDA t, popped :
          [type |-> type, colon_range |-> SpanOf(colon)])))

Variable(kind, p, reset, allowed, first, comment) ==
    Yielding(VariableType(p, reset, allowed), LAMBDA q, v :
      T!New(kind, Span(first, Current(q)),
            <<SymbolOf(Current(p)), v.type, comment, SpanOf(Current(p)), v.colon_range>>))

InstanceVariableNames == {"tAIDENT", "kATRBS"}

\* {tAIDENT}, {tA2IDENT} or {kSELF} `.` tAIDENT, then `:` <type>
parse_variable_member(p, at, annotations) ==
    LET comment == CommentOf(p, at)
        first == Current(p)
    IN  CASE annotations # <<>> -> Fail(p, first)
          [] annotations = <<>> /\ first.type \in InstanceVariableNames ->
               Variable("AST::Members::InstanceVariable", p, FALSE, {"self", "classish"}, first, comment)
          [] annotations = <<>> /\ first.type = "tA2IDENT" ->
               Variable("AST::Members::ClassVariable", p, TRUE, {"classish"}, first, comment)
          [] annotations = <<>> /\ first.type = "kSELF" ->
               Then(AdvanceAssert(p, "pDOT"), LAMBDA q, dot :
                 IF Next(q).type \notin InstanceVariableNames THEN InternalError(q)
                 ELSE Yielding(Variable("AST::Members::ClassInstanceVariable", rbs_parser_advance(q), TRUE,
                                        {"self", "classish"}, first, comment), LAMBDA r, variable :
                        [variable EXCEPT !.kind_range = Span(first, dot)]))

parse_visibility_member(p, annotations) ==
    IF annotations # <<>> THEN Fail(p, Current(p))
    ELSE Ok(p, T!New(IF CurrentIs(p, "kPUBLIC") THEN "AST::Members::Public" ELSE "AST::Members::Private",
                     SpanOf(Current(p)), <<>>))

Attributes == [kATTRREADER |-> "AST::Members::AttrReader", kATTRWRITER |-> "AST::Members::AttrWriter",
               kATTRACCESSOR |-> "AST::Members::AttrAccessor"]

\* `(` tAIDENT? `)`, or nothing: which instance variable holds the attribute
AttrVariable(p) ==
    LET open == rbs_parser_advance(p)
        named == Next(open).type \in InstanceVariableNames
        inside == IF named THEN rbs_parser_advance(open) ELSE open
    IN  IF ~NextIs(p, "pLPAREN")
        THEN Ok(p, [ivar |-> [tag |-> 0, name |-> <<>>], range |-> NullRange, name_range |-> NullRange])
        ELSE Yielding(AdvanceAssert(inside, "pRPAREN"), LAMBDA q, close :
               [ivar |-> IF named THEN [tag |-> 2, name |-> Current(inside).text] ELSE [tag |-> 1, name |-> <<>>],
                range |-> Span(Current(open), close),
                name_range |-> IF named THEN SpanOf(Current(inside)) ELSE NullRange])

\* visibility? {attr_keyword} ( `self` `.` )? attr_name attr_var `:` <type>
parse_attribute_member(before, at, annotations) ==
    LET comment == CommentOf(before, at)
        v == Visibility(before)
        keyword == Current(v.p)
    IN  Then(parse_instance_singleton_kind(v.p, FALSE), LAMBDA p, kind :
          Then(DeclCall("parse_method_name", p, <<>>), LAMBDA q, name :
            Then(AttrVariable(q), LAMBDA r, variable :
              Then(AdvanceAssert(r, "pCOLON"), LAMBDA s, colon :
                Then(DeclCall("rbs_parse_type", rbs_parser_push_typevar_table(s, kind.kind = SINGLETON_KIND), {"self", "classish"}),
                     LAMBDA t, type :
                  Yielding(parser_pop_typevar_table(t), LAMBDA u, popped :
                    [T!New(Attributes[keyword.type], Span(Current(before), Current(u)),
                           <<name.symbol, type, variable.ivar, IF kind.kind = INSTANCE_KIND THEN 0 ELSE 1, annotations,
                             comment, v.visibility, SpanOf(keyword), name.range, SpanOf(colon)>>)
                       EXCEPT !.kind_range = kind.range, !.ivar_range = variable.range,
                              !.ivar_name_range = variable.name_range, !.visibility_range = v.range]))))))

(***************************************************************************)
(* Interfaces.                                                             *)
(***************************************************************************)
\* a member is read at the token after its annotations; the list ends before kEND
RECURSIVE Members(_, _, _)
Members(Member(_, _, _), p, list) ==
    IF NextIs(p, "kEND") THEN Ok(p, list)
    ELSE Then(parse_annotations(p), LAMBDA q, a :
           Then(Member(rbs_parser_advance(q), a.at, a.list), LAMBDA r, member :
             Members(Member, r, Append(list, member))))

InterfaceMember(p, at, annotations) ==
    CASE CurrentIs(p, "kDEF") -> DeclCall("parse_member_def", p, <<TRUE, at, annotations>>)
      [] Current(p).type \in DOMAIN Mixins -> DeclCall("parse_mixin_member", p, <<TRUE, at, annotations>>)
      [] CurrentIs(p, "kALIAS") -> DeclCall("parse_alias_member", p, <<TRUE, at, annotations>>)
      [] OTHER -> Fail(p, Current(p))

parse_interface_members(p) == Members(LAMBDA q, at, annotations : InterfaceMember(q, at, annotations), p, <<>>)

\* {`interface`} interface_name module_type_params interface_members <kEND>
parse_interface_decl(before, at, annotations) ==
    LET keyword == Current(before)
        p == rbs_parser_push_typevar_table(before, TRUE)
    IN  Then(DeclCall("parse_type_name", rbs_parser_advance(p), INTERFACE_NAME), LAMBDA q, name :
          Then(DeclCall("parse_type_params", q, TRUE), LAMBDA r, params :
            Then(parse_interface_members(r), LAMBDA s, members :
              Then(AdvanceAssert(s, "kEND"), LAMBDA t, close :
                Yielding(parser_pop_typevar_table(t), LAMBDA u, popped :
                  [T!New("AST::Declarations::Interface", Span(keyword, close),
                         <<name.name, params.params, members, annotations,
                           rbs_parser_get_comment(u, IF at = NullPosition THEN keyword.start.line ELSE at.line),
                           SpanOf(keyword), name.range, SpanOf(close)>>)
                     EXCEPT !.type_params_range = params.range])))))

(***************************************************************************)
(* Modules and classes.                                                    *)
(***************************************************************************)
\* {`:`} module_self_type `,` ... `,` <module_self_type>
RECURSIVE parse_module_self_types(_, _)
parse_module_self_types(before, list) ==
    LET p == rbs_parser_advance(before) IN
    Then(DeclCall("parse_type_name", p, CLASS_NAME \cup INTERFACE_NAME), LAMBDA q, name :
      Then(DeclCall("TypeArguments", q, {"void"}), LAMBDA r, a :
        LET self == [T!New("AST::Declarations::Module::Self",
                           <<name.range[1], IF T!IsNullRange(a.range) THEN name.range[2] ELSE a.range[2]>>,
                           <<name.name, a.args, name.range>>) EXCEPT !.args_range = a.range]
        IN  IF NextIs(r, "pCOMMA") THEN parse_module_self_types(rbs_parser_advance(r), Append(list, self))
            ELSE Ok(r, Append(list, self))))

\* a visibility on the line of what follows belongs to that, and is a member of its own otherwise
VisibilityOrMember(p, at, annotations) ==
    CASE Next(p).start.line # Current(p).start.line -> parse_visibility_member(p, annotations)
      [] Next(p).start.line = Current(p).start.line /\ NextIs(p, "kDEF") ->
           DeclCall("parse_member_def", p, <<FALSE, at, annotations>>)
      [] Next(p).start.line = Current(p).start.line /\ Next(p).type \in DOMAIN Attributes ->
           DeclCall("parse_attribute_member", p, <<at, annotations>>)
      [] OTHER -> Fail(p, Next(p))

\* type variables of the class around it are not visible in a nested declaration
parse_nested_decl(p, at, annotations) ==
    Then(DeclCall("Decl", rbs_parser_push_typevar_table(p, TRUE), <<at, annotations>>), LAMBDA q, decl :
      Yielding(parser_pop_typevar_table(q), LAMBDA r, popped : decl))

ModuleMember(p, at, annotations) ==
    CASE CurrentIs(p, "kDEF") -> DeclCall("parse_member_def", p, <<FALSE, at, annotations>>)
      [] Current(p).type \in DOMAIN Mixins -> DeclCall("parse_mixin_member", p, <<FALSE, at, annotations>>)
      [] CurrentIs(p, "kALIAS") -> DeclCall("parse_alias_member", p, <<FALSE, at, annotations>>)
      [] Current(p).type \in InstanceVariableNames \cup {"tA2IDENT", "kSELF"} ->
           parse_variable_member(p, at, annotations)
      [] Current(p).type \in DOMAIN Attributes -> DeclCall("parse_attribute_member", p, <<at, annotations>>)
      [] Current(p).type \in {"kPUBLIC", "kPRIVATE"} -> VisibilityOrMember(p, at, annotations)
      [] OTHER -> parse_nested_decl(p, at, annotations)

parse_module_members(p) == Members(LAMBDA q, at, annotations : ModuleMember(q, at, annotations), p, <<>>)

\* module_members <kEND>, and the table pushed before them is popped
Body(p) ==
    Then(parse_module_members(p), LAMBDA q, members :
      Then(AdvanceAssert(q, "kEND"), LAMBDA r, close :
        Yielding(parser_pop_typevar_table(r), LAMBDA t, popped : [members |-> members, end |-> close])))

\* ( `:` module_self_types )? with the two ranges
SelfTypes(p) ==
    LET colon == rbs_parser_advance(p) IN
    IF ~NextIs(p, "pCOLON") THEN Ok(p, [types |-> <<>>, colon_range |-> NullRange, range |-> NullRange])
    ELSE Yielding(parse_module_self_types(colon, <<>>), LAMBDA q, types :
           [types |-> types, colon_range |-> SpanOf(Current(colon)), range |-> Span(Next(colon), Current(q))])

parse_module_decl0(p, keyword, name, comment, annotations) ==
    Then(DeclCall("parse_type_params", rbs_parser_push_typevar_table(p, TRUE), TRUE), LAMBDA q, params :
      Then(SelfTypes(q), LAMBDA r, self :
        Yielding(DeclCall("Body", r, <<>>), LAMBDA t, body :
          [T!New("AST::Declarations::Module", Span(keyword, body.end),
                 <<name.name, params.params, self.types, body.members, annotations, comment, SpanOf(keyword), name.range,
                   SpanOf(body.end)>>)
             EXCEPT !.type_params_range = params.range, !.colon_range = self.colon_range,
                    !.self_types_range = self.range])))

\* ( `<` class_instance_name )?
parse_class_decl_super(p) ==
    LET lt == rbs_parser_advance(p) IN
    IF ~NextIs(p, "pLT") THEN Ok(p, [super |-> NULL, lt_range |-> NullRange])
    ELSE Yielding(class_instance_name(lt, CLASS_NAME, FALSE), LAMBDA q, super :
           [super |-> [T!New("AST::Declarations::Class::Super", Span(Next(lt), Current(q)),
                             <<super.name, super.args, super.name_range>>) EXCEPT !.args_range = super.args_range],
            lt_range |-> SpanOf(Current(lt))])

parse_class_decl0(p, keyword, name, comment, annotations) ==
    Then(DeclCall("parse_type_params", rbs_parser_push_typevar_table(p, TRUE), TRUE), LAMBDA q, params :
      Then(parse_class_decl_super(q), LAMBDA r, super :
        Yielding(DeclCall("Body", r, <<>>), LAMBDA t, body :
          [T!New("AST::Declarations::Class", Span(keyword, body.end),
                 <<name.name, params.params, super.super, body.members, annotations, comment, SpanOf(keyword), name.range,
                   SpanOf(body.end)>>)
             EXCEPT !.type_params_range = params.range, !.lt_range = super.lt_range])))

\* {keyword} name `=` <old name>, or {keyword} name <decl0>
ClassOrModule(p, at, annotations, alias_kind, Decl0(_, _, _, _, _)) ==
    LET keyword == Current(p)
        comment == CommentOf(p, at)
    IN  Then(DeclCall("parse_type_name", rbs_parser_advance(p), CLASS_NAME), LAMBDA q, name :
          IF ~NextIs(q, "pEQ") THEN Decl0(q, keyword, name, comment, annotations)
          ELSE Yielding(DeclCall("parse_type_name", rbs_parser_advance(rbs_parser_advance(q)), CLASS_NAME), LAMBDA r, old :
                 T!New(alias_kind, <<keyword.start.char, old.range[2]>>,
                       <<name.name, old.name, comment, annotations, SpanOf(keyword), name.range, SpanOf(Next(q)),
                         old.range>>)))

parse_module_decl(p, at, annotations) ==
    ClassOrModule(p, at, annotations, "AST::Declarations::ModuleAlias",
                  LAMBDA q, k, n, c, a : parse_module_decl0(q, k, n, c, a))
parse_class_decl(p, at, annotations) ==
    ClassOrModule(p, at, annotations, "AST::Declarations::ClassAlias",
                  LAMBDA q, k, n, c, a : parse_class_decl0(q, k, n, c, a))

(***************************************************************************)
(* Declarations.                                                           *)
(***************************************************************************)
Decl(p, at, annotations) ==
    CASE Current(p).type \in {"tUIDENT", "pCOLON2"} -> parse_const_decl(p, at, annotations)
      [] CurrentIs(p, "tGIDENT") -> parse_global_decl(p, at, annotations)
      [] CurrentIs(p, "kTYPE") -> parse_type_decl(p, at, annotations)
      [] CurrentIs(p, "kINTERFACE") -> parse_interface_decl(p, at, annotations)
      [] CurrentIs(p, "kMODULE") -> parse_module_decl(p, at, annotations)
      [] CurrentIs(p, "kCLASS") -> parse_class_decl(p, at, annotations)
      [] OTHER -> Fail(p, Current(p))

parse_decl(p) ==
    Then(parse_annotations(p), LAMBDA q, a : DeclCall("Decl", rbs_parser_advance(q), <<a.at, a.list>>))

(***************************************************************************)
(* Use directives.                                                         *)
(***************************************************************************)
\* (`::`)? (tUIDENT `::`)*: the value is the namespace and its range, null when it is empty
RECURSIVE NamespacePath(_, _, _)
NamespacePath(p, path, range) ==
    IF NextIs(p, "tUIDENT") /\ Next2(p).type = "pCOLON2"
    THEN NamespacePath(rbs_parser_advance(rbs_parser_advance(p)), Append(path, SymbolOf(Next(p))),
                       <<IF T!IsNullRange(range) THEN Next(p).start.char ELSE range[1], Next2(p).end.char>>)
    ELSE Ok(p, [path |-> path, range |-> range])

parse_namespace(p) ==
    LET absolute == NextIs(p, "pCOLON2") IN
    Yielding(NamespacePath(IF absolute THEN rbs_parser_advance(p) ELSE p, <<>>,
                           IF absolute THEN SpanOf(Next(p)) ELSE NullRange), LAMBDA q, n :
      [namespace |-> T!New("Namespace", n.range, <<n.path, absolute>>), range |-> n.range])

From(range, token) == <<IF T!IsNullRange(range) THEN token.start.char ELSE range[1], token.end.char>>

\* the new name is of the kind of the old one; its symbol is made before its range is known
SingleClause(p, n) ==
    LET name == Current(p)
        range == From(n.range, name)
        type_name == T!New("TypeName", range, <<n.namespace, SymbolOf(name)>>)
        as == rbs_parser_advance(p)
    IN  IF ~NextIs(p, "kAS") THEN Ok(p, T!New("AST::Directives::Use::SingleClause", range, <<type_name, NULL, range>>))
        ELSE Yielding(AdvanceAssert(as, name.type), LAMBDA q, new :
               [T!New("AST::Directives::Use::SingleClause", <<range[1], new.end.char>>,
                      <<type_name, T!New("Symbol", NullRange, <<new.text>>), range>>)
                  EXCEPT !.keyword_range = SpanOf(Current(as)), !.new_name_range = SpanOf(new)])

\* A mutant of WildcardClause: the clause ends where its namespace does.
WildcardOfNamespace(p, n) ==
    Ok(p, T!New("AST::Directives::Use::WildcardClause", n.range, <<n.namespace, n.range, SpanOf(Current(p))>>))

\* without a namespace the clause starts nowhere
WildcardClause(p, n) ==
    Ok(p, T!New("AST::Directives::Use::WildcardClause", <<n.range[1], Current(p).end.char>>,
                <<n.namespace, n.range, SpanOf(Current(p))>>))

RECURSIVE parse_use_clauses(_, _)
parse_use_clauses(p, clauses) ==
    Then(parse_namespace(p), LAMBDA q, n :
      Then(CASE Next(q).type \in {"tLIDENT", "tULIDENT", "tUIDENT"} -> SingleClause(rbs_parser_advance(q), n)
             [] NextIs(q, "pSTAR") -> WildcardClause(rbs_parser_advance(q), n)
             [] OTHER -> Fail(q, Next(q)), LAMBDA r, clause :
        IF NextIs(r, "pCOMMA") THEN parse_use_clauses(rbs_parser_advance(r), Append(clauses, clause))
        ELSE Ok(r, Append(clauses, clause))))

parse_use_directive(p) ==
    LET use == rbs_parser_advance(p) IN
    Yielding(parse_use_clauses(use, <<>>), LAMBDA q, clauses :
      T!New("AST::Directives::Use", Span(Current(use), Current(q)), <<clauses, SpanOf(Current(use))>>))

(***************************************************************************)
(* Signatures: the directives, and declarations up to the end of input.    *)
(***************************************************************************)
RECURSIVE Directives(_, _)
Directives(p, list) ==
    IF ~NextIs(p, "kUSE") THEN Ok(p, list)
    ELSE Then(parse_use_directive(p), LAMBDA q, use : Directives(q, Append(list, use)))

RECURSIVE Declarations(_, _)
Declarations(p, list) ==
    IF NextIs(p, "pEOF") THEN Ok(p, list)
    ELSE Then(parse_decl(p), LAMBDA q, decl : Declarations(q, Append(list, decl)))

rbs_parse_signature(p) ==
    Then(Directives(p, <<>>), LAMBDA q, directives :
      Yielding(Declarations(q, <<>>), LAMBDA r, declarations :
        T!New("Signature", Span(Current(p), Current(r)), <<directives, declarations>>)))

DeclCall(function, p, a) ==
    CASE function = "rbs_parse_signature" -> rbs_parse_signature(p)
      [] function = "Decl" -> Decl(p, a[1], a[2])
      [] function = "Body" -> Body(p)
      [] function = "parse_method_name" -> parse_method_name(p)
      [] function = "parse_member_def" -> parse_member_def(p, a[1], TRUE, a[2], a[3])
      [] function = "parse_mixin_member" -> parse_mixin_member(p, a[1], a[2], a[3])
      [] function = "parse_alias_member" -> parse_alias_member(p, a[1], a[2], a[3])
      [] function = "parse_attribute_member" -> parse_attribute_member(p, a[1], a[2])
      [] OTHER -> TypeCall(function, p, a)

=============================================================================
