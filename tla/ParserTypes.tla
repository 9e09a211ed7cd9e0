----------------------------- MODULE ParserTypes -----------------------------
(***************************************************************************)
(* src/parser.c: names, types, functions and method types, one operator    *)
(* per function.  Each takes the state of the parser, whose next token is  *)
(* the first of what is to be parsed unless the name of the function is    *)
(* given a current token, and yields the syntax tree it builds.            *)
(***************************************************************************)
EXTENDS ParserState

LOCAL T == INSTANCE SyntaxTree
LOCAL U == INSTANCE Unescape

NULL == T!NULL
NullRange == T!NullRange

\* The functions of the grammar call each other in cycles: a call of one of them by another, with its last argument.
RECURSIVE TypeCall(_, _, _)

(***************************************************************************)
(* Names.  A kind of type name is the set of the tokens that may end it.   *)
(***************************************************************************)
CLASS_NAME == {"tUIDENT"}
INTERFACE_NAME == {"tULIDENT"}
ALIAS_NAME == {"tLIDENT", "kSKIP", "kRETURN"}

KEYWORD_CASES ==
    {"kBOOL", "kBOT", "kCLASS", "kFALSE", "kINSTANCE", "kINTERFACE", "kNIL", "kSELF", "kSINGLETON", "kTOP",
     "kTRUE", "kVOID", "kTYPE", "kUNCHECKED", "kIN", "kOUT", "kEND", "kDEF", "kINCLUDE", "kEXTEND",
     "kPREPEND", "kALIAS", "kMODULE", "kATTRREADER", "kATTRWRITER", "kATTRACCESSOR", "kPUBLIC", "kPRIVATE",
     "kUNTYPED", "kUSE", "kAS", "k__TODO__", "kSKIP", "kRETURN"}
PARAM_NAME_CASES == KEYWORD_CASES \ {"kSKIP", "kRETURN"}

\* is_keyword_token
KeywordTokens ==
    {"tLIDENT", "tUIDENT", "tULIDENT", "tULLIDENT", "tNONASCIIIDENT", "tQIDENT", "tBANGIDENT"} \cup KEYWORD_CASES
\* is_param_name_token
ParamNameTokens == {"tLIDENT", "tNONASCIIIDENT"}

\* (tUIDENT `::`)*, with nothing in between; the symbol is given the place of its `::`
RECURSIVE TypeNamePath(_, _)
TypeNamePath(p, path) ==
    IF CurrentIs(p, "tUIDENT") /\ NextIs(p, "pCOLON2") /\ Adjacent(Current(p), Next(p)) /\ Adjacent(Next(p), Next2(p))
    THEN TypeNamePath(rbs_parser_advance(rbs_parser_advance(p)),
                      Append(path, T!New("Symbol", SpanOf(Next(p)), <<Current(p).text>>)))
    ELSE Ok(p, path)

\* the value is the name and its range
parse_type_name(p, kind) ==
    LET absolute == CurrentIs(p, "pCOLON2")
        start == Current(p)
    IN  Then(TypeNamePath(IF absolute THEN parser_advance_no_gap(p) ELSE p, <<>>), LAMBDA q, path :
          LET range == Span(start, Current(q))
              namespace == T!New("Namespace", range, <<path, absolute>>)
          IN  IF Current(q).type \in kind
              THEN Ok(q, [name |-> T!New("TypeName", range, <<namespace, SymbolOf(Current(q))>>), range |-> range])
              ELSE Fail(q, Current(q)))

Unquoted(p, token) == U!rbs_unquote_string(token.text, p.options.unicode)

(***************************************************************************)
(* Types.  "allowed" says which of void, self and class/instance may occur *)
(* here.                                                                   *)
(***************************************************************************)
\* type `,` ... up to the token eol, with or without a trailing comma; the commas are kept
RECURSIVE TypeList(_, _, _, _, _)
TypeList(p, eol, allowed, types, commas) ==
    Then(TypeCall("rbs_parse_type", p, allowed), LAMBDA q, type :
      LET all == Append(types, type)
          places == Append(commas, SpanOf(Next(q)))
          after == rbs_parser_advance(q)
      IN  CASE NextIs(q, "pCOMMA") /\ ~NextIs(after, eol) -> TypeList(after, eol, allowed, all, places)
            [] NextIs(q, "pCOMMA") /\ NextIs(after, eol) -> Ok(after, [types |-> all, commas |-> places])
            [] NextIs(q, eol) -> Ok(q, [types |-> all, commas |-> commas])
            [] OTHER -> Fail(q, Next(q)))

parse_type_list(p, eol, allowed) ==
    Yielding(TypeList(p, eol, allowed, <<>>, <<>>), LAMBDA q, list : list.types)

\* here a trailing comma is an error before a bracket
parse_type_list_with_commas(p, eol, allowed) ==
    Then(TypeList(p, eol, allowed, <<>>, <<>>), LAMBDA q, list :
      IF eol = "pRBRACKET" /\ Len(list.commas) = Len(list.types) THEN Fail(q, Next(q)) ELSE Ok(q, list))

Everything == {"void", "self", "classish"}

\* `[` type_list `]` if there is one, with its range
TypeArguments(p, allowed) ==
    IF ~NextIs(p, "pLBRACKET") THEN Ok(p, [args |-> <<>>, range |-> NullRange])
    ELSE LET open == rbs_parser_advance(p) IN
         Then(TypeCall("parse_type_list", open, allowed), LAMBDA q, types :
           Yielding(AdvanceAssert(q, "pRBRACKET"), LAMBDA r, close :
             [args |-> types, range |-> Span(Current(open), close)]))

\* {type_name} type_args: what may not occur here may still occur in the arguments
parse_instance_type(p, parse_alias) ==
    Then(TypeCall("parse_type_name", p, INTERFACE_NAME \cup CLASS_NAME \cup (IF parse_alias THEN ALIAS_NAME ELSE {})), LAMBDA q, name :
      LET last == Current(q).type
          kind == CASE last \in CLASS_NAME -> "Types::ClassInstance"
                    [] last \in INTERFACE_NAME -> "Types::Interface"
                    [] OTHER -> "Types::Alias"
      IN  Yielding(TypeCall("TypeArguments", q, Everything), LAMBDA r, a :
            [T!New(kind, <<name.range[1], IF T!IsNullRange(a.range) THEN name.range[2] ELSE a.range[2]>>,
                   <<name.name, a.args, name.range>>) EXCEPT !.args_range = a.range]))

parse_singleton_type(p, allowed) ==
    Then(AdvanceAssert(p, "pLPAREN"), LAMBDA q, open :
      Then(TypeCall("parse_type_name", rbs_parser_advance(q), CLASS_NAME), LAMBDA r, name :
        Then(AdvanceAssert(r, "pRPAREN"), LAMBDA s, close :
          Yielding(TypeCall("TypeArguments", s, allowed \cup {"void"}), LAMBDA t, a :
            [T!New("Types::ClassSingleton", Span(Current(p), Current(t)), <<name.name, a.args, name.range>>)
               EXCEPT !.args_range = a.range]))))

\* {<keyword>} `:` or {keyword <`?`>} `:`
parse_keyword_key(p) ==
    LET q == rbs_parser_advance(p) IN
    IF NextIs(q, "pQUESTION")
    THEN Ok(rbs_parser_advance(q), T!New("Symbol", Span(Current(q), Next(q)), <<Current(q).text \o Next(q).text>>))
    ELSE Ok(q, SymbolOf(Current(q)))

is_keyword(p) ==
    /\ Next(p).type \in KeywordTokens
    /\ Adjacent(Next(p), Next2(p))
    /\ \/ Next2(p).type = "pCOLON"
       \/ Next2(p).type = "pQUESTION" /\ Next3(p).type = "pCOLON" /\ Adjacent(Next2(p), Next3(p))

(***************************************************************************)
(* Records.                                                                *)
(***************************************************************************)
LiteralKeys == {"tSYMBOL", "tSQSYMBOL", "tDQSYMBOL", "tSQSTRING", "tDQSTRING", "tINTEGER", "kTRUE", "kFALSE"}

\* a duplicated key sets the error, and the parser goes on
check_key_duplication(p, fields, key) ==
    IF T!HashFind(fields, key) # 0 THEN rbs_parser_set_error(p, Current(p), TRUE) ELSE p

RecordKey(p, fields, allowed) ==
    CASE is_keyword(p) ->
           Then(parse_keyword_key(p), LAMBDA q, key :
             Yielding(AdvanceAssert(check_key_duplication(q, fields, key), "pCOLON"), LAMBDA r, colon : key))
      [] ~is_keyword(p) /\ Next(p).type \in LiteralKeys ->
           Then(TypeCall("parse_simple", p, allowed \ {"void"}), LAMBDA q, type :
             Yielding(AdvanceAssert(check_key_duplication(q, fields, type.literal), "pFATARROW"), LAMBDA r, arrow :
               type.literal))
      [] OTHER -> Fail(p, Next(p))

RECURSIVE RecordAttributes(_, _, _)
RecordAttributes(p, allowed, fields) ==
    LET optional == NextIs(p, "pQUESTION") IN
    Then(RecordKey(parser_advance_if(p, "pQUESTION"), fields, allowed), LAMBDA q, key :
      Then(TypeCall("rbs_parse_type", q, allowed \ {"void"}), LAMBDA r, type :
        LET field == T!New("Types::Record::FieldType", <<Current(q).end.char, Current(r).end.char>>, <<type, ~optional>>)
            all == T!HashSet(fields, key, field)
            after == parser_advance_if(r, "pCOMMA")
        IN  IF NextIs(r, "pCOMMA") /\ ~NextIs(after, "pRBRACE")
            THEN RecordAttributes(after, allowed, all) ELSE Ok(after, all)))

parse_record_attributes(p, allowed) ==
    IF NextIs(p, "pRBRACE") THEN Ok(p, <<>>) ELSE RecordAttributes(p, allowed, <<>>)

(***************************************************************************)
(* Simple types.                                                           *)
(***************************************************************************)
BaseTypes ==
    [kBOOL |-> "Types::Bases::Bool", kBOT |-> "Types::Bases::Bottom", kNIL |-> "Types::Bases::Nil",
     kTOP |-> "Types::Bases::Top", kCLASS |-> "Types::Bases::Class", kINSTANCE |-> "Types::Bases::Instance",
     kSELF |-> "Types::Bases::Self", kVOID |-> "Types::Bases::Void"]
NeededFor == [kCLASS |-> "classish", kINSTANCE |-> "classish", kSELF |-> "self", kVOID |-> "void"]

Literal(p, literal) == T!New("Types::Literal", SpanOf(Current(p)), <<literal>>)

\* {<tSYMBOL>}: the text after the colon
parse_symbol(p) ==
    LET after_colon == Tail(Current(p).text)
        text == IF CurrentIs(p, "tSYMBOL") THEN after_colon ELSE U!rbs_unquote_string(after_colon, p.options.unicode)
    IN  Literal(p, T!New("Symbol", SpanOf(Current(p)), <<text>>))

\* {`^`} function
parse_proc_type(p, allowed) ==
    Yielding(TypeCall("parse_function", p, <<[binding |-> TRUE, block |-> TRUE, forwarding |-> FALSE], allowed>>),
             LAMBDA q, f :
      T!New("Types::Proc", Span(Current(p), Current(q)), <<f.function, f.block, f.self_type>>))

\* {<first token>}
SimpleFrom(p, allowed) ==
    LET token == Current(p)
        range == SpanOf(token)
    IN  CASE token.type = "pLPAREN" ->
               Then(TypeCall("rbs_parse_type", p, allowed), LAMBDA q, type :
                 Yielding(AdvanceAssert(q, "pRPAREN"), LAMBDA r, close : type))
          [] token.type \in DOMAIN BaseTypes ->
               IF token.type \in DOMAIN NeededFor /\ NeededFor[token.type] \notin allowed
               THEN Fail(p, token) ELSE Ok(p, T!New(BaseTypes[token.type], range, <<>>))
          [] token.type \in {"kUNTYPED", "k__TODO__"} ->
               Ok(p, T!New("Types::Bases::Any", range, <<token.type = "k__TODO__">>))
          [] token.type = "tINTEGER" ->
               Ok(p, Literal(p, T!New("AST::Integer", range, <<U!rbs_string_strip_whitespace(token.text)>>)))
          [] token.type \in {"kTRUE", "kFALSE"} ->
               Ok(p, Literal(p, T!New("AST::Bool", range, <<token.type = "kTRUE">>)))
          [] token.type \in {"tSQSTRING", "tDQSTRING"} ->
               Ok(p, Literal(p, T!New("AST::String", range, <<Unquoted(p, token)>>)))
          [] token.type \in {"tSYMBOL", "tSQSYMBOL", "tDQSYMBOL"} -> Ok(p, parse_symbol(p))
          [] token.type = "tUIDENT" /\ parser_typevar_member(p, token.text) ->
               Ok(p, T!New("Types::Variable", range, <<SymbolOf(token)>>))
          [] \/ token.type \in {"tULIDENT", "tLIDENT", "kSKIP", "kRETURN", "pCOLON2"}
             \/ token.type = "tUIDENT" /\ ~parser_typevar_member(p, token.text) -> parse_instance_type(p, TRUE)
          [] token.type = "kSINGLETON" -> parse_singleton_type(p, allowed)
          [] token.type = "pLBRACKET" ->
               Then(IF NextIs(p, "pRBRACKET") THEN Ok(p, <<>>)
                    ELSE TypeCall("parse_type_list", p, allowed \ {"void"}), LAMBDA q, types :
                 Yielding(AdvanceAssert(q, "pRBRACKET"), LAMBDA r, close :
                   T!New("Types::Tuple", Span(token, close), <<types>>)))
          [] token.type = "pAREF_OPR" -> Ok(p, T!New("Types::Tuple", range, <<<<>>>>))
          [] token.type = "pLBRACE" ->
               Then(parse_record_attributes(p, allowed), LAMBDA q, fields :
                 Yielding(AdvanceAssert(q, "pRBRACE"), LAMBDA r, close :
                   T!New("Types::Record", Span(token, close), <<fields>>)))
          [] token.type = "pHAT" -> parse_proc_type(p, allowed)
          [] OTHER -> Fail(p, token)

parse_simple(p, allowed) == SimpleFrom(rbs_parser_advance(p), allowed)

(***************************************************************************)
(* Optional, intersection and union types.                                 *)
(***************************************************************************)
IsVoid(type) == type.tag = "Types::Bases::Void"

parse_optional(p, allowed) ==
    Then(TypeCall("parse_simple", p, allowed), LAMBDA q, type :
      CASE ~NextIs(q, "pQUESTION") -> Ok(q, type)
        [] NextIs(q, "pQUESTION") /\ "void" \in allowed /\ IsVoid(type) -> Fail(q, Current(q))
        [] OTHER -> LET r == rbs_parser_advance(q) IN Ok(r, T!New("Types::Optional", Span(Next(p), Current(r)), <<type>>)))

\* one operand after the other while the operator follows; void may only stand alone
RECURSIVE Operands(_, _, _, _, _)
Operands(Parse(_, _), operator, p, allowed, types) ==
    CASE ~NextIs(p, operator) -> Ok(p, types)
      [] NextIs(p, operator) /\ "void" \in allowed /\ IsVoid(types[1]) -> Fail(p, Current(p))
      [] OTHER -> Then(Parse(rbs_parser_advance(p), allowed \ {"void"}), LAMBDA q, type :
                    Operands(Parse, operator, q, allowed, Append(types, type)))

Combined(Parse(_, _), operator, kind, p, allowed) ==
    Then(Parse(p, allowed), LAMBDA q, first :
      Yielding(Operands(Parse, operator, q, allowed, <<first>>), LAMBDA r, types :
        IF Len(types) = 1 THEN first ELSE T!New(kind, Span(Next(p), Current(r)), <<types>>)))

parse_intersection(p, allowed) ==
    Combined(LAMBDA q, a : TypeCall("parse_optional", q, a), "pAMP", "Types::Intersection", p, allowed)

rbs_parse_type(p, allowed) ==
    Combined(LAMBDA q, a : parse_intersection(q, a), "pBAR", "Types::Union", p, allowed)

(***************************************************************************)
(* Parameters.  They are read in one pass that may only move forward from  *)
(* one group to the next.                                                  *)
(***************************************************************************)
\* {} <type> or {} type <param>
parse_function_param(p, allowed) ==
    Then(TypeCall("rbs_parse_type", p, allowed \ {"void"}), LAMBDA q, type :
      LET r == rbs_parser_advance(q)
          name == Current(r)
      IN  CASE Next(q).type \in {"pCOMMA", "pRPAREN"} ->
                 Ok(q, T!New("Types::Function::Param", Span(Next(p), Current(q)), <<type, NULL>>))
            [] Next(q).type \notin {"pCOMMA", "pRPAREN"} /\ name.type \notin KeywordTokens -> Fail(r, name)
            [] OTHER ->
                 Ok(r, [T!New("Types::Function::Param", Span(Next(p), name),
                              <<type, T!New("Symbol", SpanOf(name), <<Unquoted(r, name)>>)>>)
                          EXCEPT !.name_range = SpanOf(name)]))

\* no keyword may be given twice, be it required or optional
parse_keyword(p, params, group, allowed) ==
    Then(parse_keyword_key(p), LAMBDA q, key :
      IF T!HashFind(params.required_keywords \o params.optional_keywords, key) # 0 THEN Fail(q, Current(q))
      ELSE Then(AdvanceAssert(q, "pCOLON"), LAMBDA r, colon :
             Yielding(TypeCall("parse_function_param", r, allowed), LAMBDA t, param :
               [params EXCEPT ![group] = T!HashSet(@, key, param)])))

NoParams ==
    [untyped |-> FALSE, required_positionals |-> <<>>, optional_positionals |-> <<>>, rest_positionals |-> NULL,
     trailing_positionals |-> <<>>, required_keywords |-> <<>>, optional_keywords |-> <<>>,
     rest_keywords |-> NULL, forwarding |-> NULL]

\* the group to go to at the next token, from the group we are in
GroupAt(p, group) ==
    LET keywords == NextIs(p, "pSTAR2") \/ is_keyword(p) IN
    CASE group = "required" /\ NextIs(p, "pQUESTION") -> "optional"
      [] group = "required" /\ NextIs(p, "pSTAR") -> "rest"
      [] group = "required" /\ NextIs(p, "pDOT3") -> "forwarding"
      [] group = "optional" /\ ~NextIs(p, "pQUESTION") ->
           IF NextIs(p, "pSTAR") THEN "rest"
           ELSE IF keywords THEN "keywords" ELSE IF NextIs(p, "pRPAREN") THEN "end" ELSE "trailing"
      [] group = "trailing" /\ NextIs(p, "pQUESTION") -> "keywords"
      [] group = "trailing" /\ NextIs(p, "pSTAR") -> "end"
      [] group \in {"required", "trailing"} /\ keywords -> "keywords"
      [] group = "keywords" /\ Next(p).type \notin {"pQUESTION", "pSTAR2"} \cup KeywordTokens -> "end"
      [] NextIs(p, "pRPAREN") -> "end"
      [] OTHER -> group

\* one parameter; the value is the parameters so far and the group after it
OneParam(p, group, params, forwarding_allowed, allowed) ==
    LET after == rbs_parser_advance(p)
        In(result, g) == Yielding(result, LAMBDA q, all : [params |-> all, group |-> g])
        Positional(q, field) ==
            Yielding(TypeCall("parse_function_param", q, allowed), LAMBDA r, param : [params EXCEPT ![field] = Append(@, param)])
    IN  CASE group \in {"required", "trailing"} -> In(Positional(p, group \o "_positionals"), group)
          [] group = "optional" /\ ~is_keyword(after) -> In(Positional(after, "optional_positionals"), "optional")
          [] group \in {"optional", "keywords"} /\ NextIs(p, "pQUESTION") /\ is_keyword(after) ->
               In(parse_keyword(after, params, "optional_keywords", allowed), "keywords")
          [] group = "keywords" /\ NextIs(p, "pQUESTION") /\ ~is_keyword(after) -> Fail(after, Next(after))
          [] group = "rest" \/ (group = "keywords" /\ NextIs(p, "pSTAR2")) ->
               In(Yielding(TypeCall("parse_function_param", after, allowed), LAMBDA q, param :
                    [params EXCEPT ![IF group = "rest" THEN "rest_positionals" ELSE "rest_keywords"] = param]),
                  IF group = "rest" THEN "trailing" ELSE "keywords")
          [] group = "keywords" /\ Next(p).type \in KeywordTokens ->
               IF is_keyword(p) THEN In(parse_keyword(p, params, "required_keywords", allowed), "keywords")
               ELSE Fail(p, Next(p))
          [] group = "forwarding" ->
               IF ~forwarding_allowed \/ ~p.options.forwarding THEN Fail(p, Next(p))
               ELSE In(Ok(after, [params EXCEPT !.forwarding =
                                    T!New("Types::Function::ForwardingParam", SpanOf(Current(after)), <<>>)]), "end")

RECURSIVE Params(_, _, _, _, _)
Params(p, group, params, forwarding_allowed, allowed) ==
    LET here == GroupAt(p, group) IN
    IF here = "end" THEN Ok(p, params)
    ELSE Then(OneParam(p, here, params, forwarding_allowed, allowed), LAMBDA q, one :
           \* the first optional keyword does not need a comma after it
           IF one.group # "end" /\ (NextIs(q, "pCOMMA") \/ (here = "optional" /\ one.group = "keywords"))
           THEN Params(parser_advance_if(q, "pCOMMA"), one.group, one.params, forwarding_allowed, allowed)
           ELSE Ok(q, one.params))

parse_params(p, forwarding_allowed, allowed) ==
    CASE NextIs(p, "pQUESTION") /\ Next2(p).type = "pRPAREN" ->
           Ok(rbs_parser_advance(p), [NoParams EXCEPT !.untyped = TRUE])
      [] NextIs(p, "pRPAREN") -> Ok(p, NoParams)
      [] OTHER -> Then(Params(p, "required", NoParams, forwarding_allowed, allowed), LAMBDA q, params :
                    IF NextIs(q, "pRPAREN") THEN Ok(q, params) ELSE Fail(q, Next(q)))

\* {} `(` params <`)`>, or nothing
OptionalParams(p, forwarding_allowed, allowed) ==
    IF ~NextIs(p, "pLPAREN") THEN Ok(p, NoParams)
    ELSE Then(parse_params(rbs_parser_advance(p), forwarding_allowed, allowed), LAMBDA q, params :
           Yielding(AdvanceAssert(q, "pRPAREN"), LAMBDA r, close : params))

(***************************************************************************)
(* Functions and blocks.                                                   *)
(***************************************************************************)
\* {} `[` `self` `:` type <`]`>, or nothing
parse_self_type_binding(p, allowed) ==
    IF ~NextIs(p, "pLBRACKET") THEN Ok(p, NULL)
    ELSE Then(AdvanceAssert(rbs_parser_advance(p), "kSELF"), LAMBDA q, self :
           Then(AdvanceAssert(q, "pCOLON"), LAMBDA r, colon :
             Then(TypeCall("rbs_parse_type", r, allowed \ {"void"}), LAMBDA t, type :
               Yielding(AdvanceAssert(t, "pRBRACKET"), LAMBDA u, close : type))))

FunctionNode(range, params, return_type) ==
    IF params.untyped THEN T!New("Types::UntypedFunction", range, <<return_type>>)
    ELSE T!New("Types::Function", range,
               <<params.required_positionals, params.optional_positionals, params.rest_positionals,
                 params.trailing_positionals, params.required_keywords, params.optional_keywords,
                 params.rest_keywords, params.forwarding, return_type>>)

\* {} `->` <optional>, where the type may be void
ReturnType(p, allowed) ==
    Then(AdvanceAssert(p, "pARROW"), LAMBDA q, arrow : TypeCall("parse_optional", q, allowed \cup {"void"}))

\* {} `?`? `{` params? self_type_binding? `->` optional <`}`>
Block(p, allowed) ==
    LET required == NextIs(p, "pLBRACE")
        open == rbs_parser_advance(parser_advance_if(p, "pQUESTION"))
    IN  Then(TypeCall("OptionalParams", open, <<FALSE, allowed>>), LAMBDA q, params :
          Then(parse_self_type_binding(q, allowed), LAMBDA r, self_type :
            Then(ReturnType(r, allowed), LAMBDA t, return_type :
              Yielding(AdvanceAssert(t, "pRBRACE"), LAMBDA u, close :
                LET range == Span(Next(p), close) IN
                T!New("Types::Block", range, <<FunctionNode(range, params, return_type), required, self_type>>)))))

\* "kind": is a self type binding accepted, a block, a forwarding parameter?
parse_function(p, kind, allowed) ==
    Then(TypeCall("OptionalParams", p, <<kind.forwarding, allowed>>), LAMBDA q, params :
      Then(IF kind.binding THEN parse_self_type_binding(q, allowed)
           ELSE IF params.untyped /\ ~NextIs(q, "pARROW") THEN Fail(q, Next2(q)) ELSE Ok(q, NULL), LAMBDA r, self_type :
        LET has_block == NextIs(r, "pLBRACE") \/ (NextIs(r, "pQUESTION") /\ Next2(r).type = "pLBRACE") IN
        Then(CASE ~has_block -> Ok(r, NULL)
               [] has_block /\ (params.forwarding # NULL \/ ~kind.block) -> Fail(r, Next(r))
               [] OTHER -> Block(r, allowed), LAMBDA t, block :
          Yielding(ReturnType(t, allowed), LAMBDA u, return_type :
            [function |-> FunctionNode(Span(Current(p), Current(u)), params, return_type),
             block |-> block, self_type |-> self_type]))))

(***************************************************************************)
(* Type parameters and method types.                                       *)
(***************************************************************************)
INVARIANT_ == 0
COVARIANT == 1
CONTRAVARIANT == 2

\* {} `<` <type> or {} `>` <type>, or nothing
Bound(p, param) ==
    LET side == CASE NextIs(p, "pLT") -> "upper_bound" [] NextIs(p, "pGT") -> "lower_bound" [] OTHER -> "none"
        open == rbs_parser_advance(p)
    IN  CASE side = "none" -> Ok(p, param)
          [] side # "none" /\ param[side] # NULL -> Fail(p, Next(p))
          [] OTHER -> Yielding(TypeCall("rbs_parse_type", open, {}), LAMBDA q, bound :
               [param EXCEPT ![side] = bound, ![side \o "_range"] = Span(Current(open), Current(q))])

\* once a parameter has a default, all that follow need one
Default(p, param, before) ==
    LET open == rbs_parser_advance(p) IN
    CASE NextIs(p, "pEQ") ->
           Yielding(TypeCall("rbs_parse_type", open, {"void"}), LAMBDA q, type :
             [param EXCEPT !.default_type = type, !.default_range = Span(Current(open), Current(q))])
      [] ~NextIs(p, "pEQ") /\ (\E i \in DOMAIN before : before[i].default_type # NULL) -> Fail(p, Current(p))
      [] OTHER -> Ok(p, param)

\* kUNCHECKED? (kIN|kOUT|) tUIDENT bounds default_type?
TypeParam(p, module_type_params, before) ==
    LET unchecked == module_type_params /\ NextIs(p, "kUNCHECKED")
        q == IF unchecked THEN rbs_parser_advance(p) ELSE p
        variance == CASE module_type_params /\ NextIs(q, "kIN") -> CONTRAVARIANT
                      [] module_type_params /\ NextIs(q, "kOUT") -> COVARIANT
                      [] OTHER -> INVARIANT_
        r == IF variance = INVARIANT_ THEN q ELSE rbs_parser_advance(q)
        Bare(name) ==
            [T!New("AST::TypeParam", NullRange, <<SymbolOf(name), variance, NULL, NULL, NULL, unchecked, SpanOf(name)>>)
               EXCEPT !.unchecked_range = IF unchecked THEN SpanOf(Current(q)) ELSE NullRange,
                      !.variance_range = IF variance = INVARIANT_ THEN NullRange ELSE SpanOf(Current(r))]
    IN  Then(AdvanceAssert(r, "tUIDENT"), LAMBDA r1, name :
          Then(rbs_parser_insert_typevar(r1, name.text), LAMBDA r2, id :
            Then(Bound(r2, Bare(name)), LAMBDA r3, one :
              Then(Bound(r3, one), LAMBDA r4, two :
                Yielding(IF module_type_params THEN Default(r4, two, before) ELSE Ok(r4, two), LAMBDA r5, param :
                  [param EXCEPT !.location = Span(Next(p), Current(r5))])))))

RECURSIVE TypeParams(_, _, _)
TypeParams(p, module_type_params, before) ==
    Then(TypeParam(p, module_type_params, before), LAMBDA q, param :
      CASE NextIs(q, "pCOMMA") -> TypeParams(rbs_parser_advance(q), module_type_params, Append(before, param))
        [] NextIs(q, "pRBRACKET") -> Ok(rbs_parser_advance(q), Append(before, param))
        [] OTHER -> Fail(q, Next(q)))

\* the value is the parameters and the range of the brackets
parse_type_params(p, module_type_params) ==
    IF ~NextIs(p, "pLBRACKET") THEN Ok(p, [params |-> <<>>, range |-> NullRange])
    ELSE Yielding(TypeParams(rbs_parser_advance(p), module_type_params, <<>>), LAMBDA q, params :
           [params |-> params, range |-> Span(Next(p), Current(q))])

RequireEof(result, require_eof) ==
    IF ~require_eof THEN result
    ELSE Then(result, LAMBDA p, value : Yielding(AdvanceAssert(p, "pEOF"), LAMBDA q, eof : value))

\* {} type_params <function>
rbs_parse_method_type(p, require_eof, classish_allowed) ==
    LET allowed == {"self"} \cup (IF classish_allowed THEN {"classish"} ELSE {}) IN
    RequireEof(
      Then(TypeCall("parse_type_params", rbs_parser_push_typevar_table(p, FALSE), FALSE), LAMBDA q, params :
        Then(TypeCall("parse_function", q, <<[binding |-> FALSE, block |-> TRUE, forwarding |-> TRUE], allowed>>),
             LAMBDA r, f :
          Yielding(parser_pop_typevar_table(r), LAMBDA t, popped :
            [T!New("MethodType", Span(Next(p), Current(t)),
                   <<params.params, f.function, f.block, Span(Next(q), Current(t))>>)
               EXCEPT !.type_params_range = params.range]))), require_eof)

\* the end of the input is asked for even after an error, and a second table is pushed where one is to be popped
rbs_parse_type_params(p, module_type_params) ==
    LET listed == TypeCall("parse_type_params", rbs_parser_push_typevar_table(p, TRUE), module_type_params)
        q == rbs_parser_advance(rbs_parser_push_typevar_table(listed.p, FALSE))
    IN  CASE ~NextIs(p, "pLBRACKET") -> Fail(p, Next(p))
          [] NextIs(p, "pLBRACKET") /\ ~CurrentIs(q, "pEOF") -> Fail(q, Current(q))
          [] OTHER -> IF listed.ok THEN Ok(q, listed.v.params) ELSE [listed EXCEPT !.p = q]

TypeCall(function, p, a) ==
    CASE function = "rbs_parse_type" -> rbs_parse_type(p, a)
      [] function = "parse_optional" -> parse_optional(p, a)
      [] function = "parse_simple" -> parse_simple(p, a)
      [] function = "parse_type_name" -> parse_type_name(p, a)
      [] function = "parse_type_list" -> parse_type_list(p, "pRBRACKET", a)
      [] function = "parse_type_list_with_commas" -> parse_type_list_with_commas(p, "pRBRACKET", a)
      [] function = "TypeArguments" -> TypeArguments(p, a)
      [] function = "OptionalParams" -> OptionalParams(p, a[1], a[2])
      [] function = "parse_function_param" -> parse_function_param(p, a)
      [] function = "parse_function" -> parse_function(p, a[1], a[2])
      [] function = "parse_type_params" -> parse_type_params(p, a)
      [] function = "rbs_parse_method_type" -> rbs_parse_method_type(p, a[1], a[2])
      [] function = "rbs_parse_type_params" -> rbs_parse_type_params(p, a)

=============================================================================
