---------------------------- MODULE ParserInline ----------------------------
(***************************************************************************)
(* src/parser.c: the annotations that comments of Ruby programs carry.  A  *)
(* leading annotation stands above what it describes, a trailing one after *)
(* it.                                                                     *)
(***************************************************************************)
EXTENDS ParserDecls

LOCAL T == INSTANCE SyntaxTree

\* a call of one of the functions here or of ParserTypes by another, with its last argument
RECURSIVE InlineCall(_, _, _)

Annotation(name) == "AST::Ruby::Annotations::" \o name

\* {} annotations <method_type>
parse_method_overload(p) ==
    Then(parse_annotations(p), LAMBDA q, annotations :
      Yielding(InlineCall("rbs_parse_method_type", q, <<FALSE, TRUE>>), LAMBDA r, type :
        [annotations |-> annotations.list, method_type |-> type]))

\* overload `|` ... `|` overload, or `|` `...` at the end; an overload is where its last token is
RECURSIVE parse_inline_method_overloads(_, _)
parse_inline_method_overloads(p, list) ==
    Then(InlineCall("parse_method_overload", p, <<>>), LAMBDA q, o :
      LET overload == T!New("AST::Members::MethodDefinition::Overload", SpanOf(Current(q)),
                            <<o.annotations, o.method_type>>)
          bar == rbs_parser_advance(q)
          all == [list EXCEPT !.overloads = Append(@, overload)]
          more == [all EXCEPT !.bars = Append(@, SpanOf(Next(q)))]
      IN  CASE ~NextIs(q, "pBAR") -> Ok(q, all)
            [] NextIs(q, "pBAR") /\ NextIs(bar, "pDOT3") ->
                 Ok(rbs_parser_advance(bar), [more EXCEPT !.dot3 = SpanOf(Next(bar))])
            [] OTHER -> parse_inline_method_overloads(bar, more))

NoOverloads == [overloads |-> <<>>, bars |-> <<>>, dot3 |-> NullRange]

parse_inline_comment(p) ==
    IF NextIs(p, "tINLINECOMMENT") THEN Ok(rbs_parser_advance(p), SpanOf(Next(p))) ELSE Ok(p, NullRange)

\* `:` <type> <comment>
ColonType(p, allowed) ==
    Then(AdvanceAssert(p, "pCOLON"), LAMBDA q, colon :
      Then(InlineCall("rbs_parse_type", q, allowed), LAMBDA r, type :
        Yielding(parse_inline_comment(r), LAMBDA t, comment :
          [colon |-> SpanOf(colon), type |-> type, comment |-> comment])))

(***************************************************************************)
(* After `@rbs`, the current token.                                        *)
(***************************************************************************)
MethodTypes(p) ==
    Yielding(IF NextIs(p, "pDOT3") THEN Ok(rbs_parser_advance(p), [NoOverloads EXCEPT !.dot3 = SpanOf(Next(p))])
             ELSE parse_inline_method_overloads(p, NoOverloads), LAMBDA q, o :
      T!New(Annotation("MethodTypesAnnotation"), Span(Current(p), Current(q)),
            <<SpanOf(Current(p)), o.overloads, o.bars, o.dot3>>))

parse_inline_param_type_annotation(p) ==
    Yielding(InlineCall("ColonType", rbs_parser_advance(p), {"self", "classish"}), LAMBDA q, c :
      T!New(Annotation("ParamTypeAnnotation"), Span(Current(p), Current(q)),
            <<SpanOf(Current(p)), SpanOf(Next(p)), c.colon, c.type, c.comment>>))

SkipAnnotation(p) ==
    Yielding(parse_inline_comment(rbs_parser_advance(p)), LAMBDA q, comment :
      T!New(Annotation("SkipAnnotation"), Span(Current(p), Current(q)),
            <<SpanOf(Current(p)), SpanOf(Next(p)), comment>>))

ReturnTypeAnnotation(p) ==
    Yielding(InlineCall("ColonType", rbs_parser_advance(p), Everything), LAMBDA q, c :
      T!New(Annotation("ReturnTypeAnnotation"), Span(Current(p), Current(q)),
            <<SpanOf(Current(p)), SpanOf(Next(p)), c.colon, c.type, c.comment>>))

InstanceVariableAnnotation(p) ==
    Yielding(InlineCall("ColonType", rbs_parser_advance(p), {"self", "classish"}), LAMBDA q, c :
      T!New(Annotation("InstanceVariableAnnotation"), Span(Current(p), Current(q)),
            <<SpanOf(Current(p)), SymbolOf(Next(p)), SpanOf(Next(p)), c.colon, c.type, c.comment>>))

\* the name of a splat or a block may be left out
ParamName(p) ==
    IF Next(p).type \in ParamNameTokens THEN [p |-> rbs_parser_advance(p), range |-> SpanOf(Next(p))]
    ELSE [p |-> p, range |-> NullRange]

SplatAnnotation(p, kind) ==
    LET name == ParamName(rbs_parser_advance(p)) IN
    Yielding(InlineCall("ColonType", name.p, {"self", "classish"}), LAMBDA q, c :
      T!New(Annotation(kind), Span(Current(p), Current(q)),
            <<SpanOf(Current(p)), SpanOf(Next(p)), name.range, c.colon, c.type, c.comment>>))

\* the self type the block may be given is parsed and dropped
BlockAnnotation(p) ==
    LET name == ParamName(rbs_parser_advance(p)) IN
    Then(AdvanceAssert(name.p, "pCOLON"), LAMBDA q, colon :
      LET optional == NextIs(q, "pQUESTION")
          at == parser_advance_if(q, "pQUESTION")
      IN  Then(InlineCall("parse_function", at,
                          <<[binding |-> TRUE, block |-> FALSE, forwarding |-> FALSE], {"self", "classish"}>>),
               LAMBDA r, f :
            Yielding(parse_inline_comment(r), LAMBDA t, comment :
              T!New(Annotation("BlockParamTypeAnnotation"), Span(Current(p), Current(t)),
                    <<SpanOf(Current(p)), SpanOf(Next(p)), name.range, SpanOf(colon),
                      IF optional THEN SpanOf(Current(at)) ELSE NullRange, Span(Next(at), Current(r)), f.function,
                      comment>>))))

\* ( `[` types and commas `]` )?
BracketedTypes(p, allowed) ==
    IF ~NextIs(p, "pLBRACKET") THEN Ok(p, [types |-> <<>>, commas |-> <<>>, open |-> NullRange, close |-> NullRange])
    ELSE Then(InlineCall("parse_type_list_with_commas", rbs_parser_advance(p), allowed), LAMBDA q, list :
           Ok(rbs_parser_advance(q),
              [types |-> list.types, commas |-> list.commas, open |-> SpanOf(Next(p)), close |-> SpanOf(Next(q))]))

ModuleSelfAnnotation(p) ==
    Then(AdvanceAssert(rbs_parser_advance(p), "pCOLON"), LAMBDA q, colon :
      Then(InlineCall("parse_type_name", rbs_parser_advance(q), CLASS_NAME \cup INTERFACE_NAME), LAMBDA r, name :
        Then(InlineCall("BracketedTypes", r, {"void"}), LAMBDA t, args :
          Yielding(parse_inline_comment(t), LAMBDA u, comment :
            T!New(Annotation("ModuleSelfAnnotation"), Span(Current(p), Current(u)),
                  <<SpanOf(Current(p)), SpanOf(Next(p)), SpanOf(colon), name.name, args.types, args.open, args.close,
                    args.commas, comment>>)))))

AfterAtRbs(p) ==
    LET next == Next(p).type IN
    CASE next \in {"pDOT3", "pLPAREN", "pLBRACKET", "pLBRACE", "tANNOTATION"} -> MethodTypes(p)
      [] next = "kSKIP" /\ Next2(p).type # "pCOLON" -> SkipAnnotation(p)
      [] next = "kRETURN" -> ReturnTypeAnnotation(p)
      [] next = "tAIDENT" -> InstanceVariableAnnotation(p)
      [] \/ next \in ParamNameTokens \cup PARAM_NAME_CASES
         \/ next = "kSKIP" /\ Next2(p).type = "pCOLON" -> parse_inline_param_type_annotation(p)
      [] next = "pSTAR" -> SplatAnnotation(p, "SplatParamTypeAnnotation")
      [] next = "pSTAR2" -> SplatAnnotation(p, "DoubleSplatParamTypeAnnotation")
      [] next = "pAMP" -> BlockAnnotation(p)
      [] next = "kMODULESELF" -> ModuleSelfAnnotation(p)
      [] OTHER -> Fail(p, Next(p))

ColonMethodType(p) ==
    Yielding(InlineCall("parse_method_overload", p, <<>>), LAMBDA q, o :
      T!New(Annotation("ColonMethodTypeAnnotation"), Span(Current(p), Current(q)),
            <<SpanOf(Current(p)), o.annotations, o.method_type>>))

parse_inline_leading_annotation(p) ==
    CASE NextIs(p, "pCOLON") -> ColonMethodType(rbs_parser_advance(p))
      [] NextIs(p, "kATRBS") -> AfterAtRbs(rbs_parser_advance(p))
      [] OTHER -> Fail(p, Next(p))

(***************************************************************************)
(* Trailing annotations: an alias, a type assertion or a type application. *)
(***************************************************************************)
Aliases == [kCLASSALIAS |-> "ClassAliasAnnotation", kMODULEALIAS |-> "ModuleAliasAnnotation"]

\* the name of what is aliased may be left out
AliasAnnotation(p) ==
    LET keyword == rbs_parser_advance(p)
        named == Next(keyword).type \in {"tUIDENT", "pCOLON2"}
    IN  Yielding(IF named THEN InlineCall("parse_type_name", rbs_parser_advance(keyword), CLASS_NAME)
                 ELSE Ok(keyword, [name |-> NULL, range |-> NullRange]), LAMBDA q, name :
          T!New(Annotation(Aliases[Next(p).type]), Span(Current(p), Current(q)),
                <<SpanOf(Current(p)), SpanOf(Next(p)), name.name, name.range>>))

AfterColon(p) ==
    IF Next(p).type \in DOMAIN Aliases THEN AliasAnnotation(p)
    ELSE Yielding(InlineCall("rbs_parse_type", p, Everything), LAMBDA q, type :
           T!New(Annotation("NodeTypeAssertion"), Span(Current(p), Current(q)), <<SpanOf(Current(p)), type>>))

TypeApplication(p) ==
    IF Next2(p).type = "pRBRACKET" THEN Fail(rbs_parser_advance(p), Next2(p))
    ELSE Yielding(InlineCall("BracketedTypes", p, {"void", "self"}), LAMBDA q, list :
           T!New(Annotation("TypeApplicationAnnotation"), Span(Next(p), Current(q)),
                 <<SpanOf(Next(p)), list.types, list.close, list.commas>>))

parse_inline_trailing_annotation(p) ==
    CASE NextIs(p, "pCOLON") -> AfterColon(rbs_parser_advance(p))
      [] NextIs(p, "pLBRACKET") -> TypeApplication(p)
      [] OTHER -> Fail(p, Next(p))

\* what follows an annotation is an error; the first error of the two is kept
UpToEof(result) ==
    LET end == AdvanceAssert(result.p, "pEOF") IN [end EXCEPT !.ok = @ /\ result.ok, !.v = result.v]

rbs_parse_inline_leading_annotation(p) == UpToEof(parse_inline_leading_annotation(p))
rbs_parse_inline_trailing_annotation(p) == UpToEof(parse_inline_trailing_annotation(p))

InlineCall(function, p, a) ==
    CASE function = "rbs_parse_inline_leading_annotation" -> rbs_parse_inline_leading_annotation(p)
      [] function = "rbs_parse_inline_trailing_annotation" -> rbs_parse_inline_trailing_annotation(p)
      [] function = "parse_method_overload" -> parse_method_overload(p)
      [] function = "ColonType" -> ColonType(p, a)
      [] function = "BracketedTypes" -> BracketedTypes(p, a)
      [] OTHER -> DeclCall(function, p, a)

\* a call from outside
ParserCall(function, p, a) == InlineCall(function, p, a)

=============================================================================
