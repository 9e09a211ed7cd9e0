----------------------------- MODULE ParserState -----------------------------
(***************************************************************************)
(* The parser's own state (src/parser.c, include/rbs/parser.h): the window *)
(* of four tokens over the lexer, the comments met so far, the tables of   *)
(* type variables and the first error.  The functions of parser.c take and *)
(* return this state: a result is ok or not, with the state it leaves and  *)
(* the value it yields.                                                    *)
(*                                                                         *)
(* A token is what Lexer yields: its type, its two positions and its text, *)
(* the bytes it spells.                                                    *)
(***************************************************************************)
EXTENDS Integers, Sequences, SequencesExt, FiniteSets, TLC

LOCAL T == INSTANCE SyntaxTree

NoPosition == [byte |-> 0, char |-> 0, line |-> 0, column |-> 0]
NullToken == [type |-> "NullType", start |-> NoPosition, end |-> NoPosition, text |-> <<>>]
NoError == [token |-> NullToken, syntax |-> FALSE, set |-> FALSE]

(***************************************************************************)
(* Tokens.                                                                 *)
(***************************************************************************)
Current(p) == p.window[1]
Next(p) == p.window[2]
Next2(p) == p.window[3]
Next3(p) == p.window[4]

NextIs(p, type) == Next(p).type = type
CurrentIs(p, type) == Current(p).type = type
Adjacent(a, b) == a.end.byte = b.start.byte

Span(first, last) == <<first.start.char, last.end.char>>
SpanOf(token) == Span(token, token)
SymbolOf(token) == T!New("Symbol", SpanOf(token), <<token.text>>)

(***************************************************************************)
(* Comments, the latest first.                                             *)
(***************************************************************************)
RECURSIVE comment_get_comment(_, _)
comment_get_comment(comments, line) ==
    CASE comments = <<>> \/ Head(comments).end.line < line -> <<>>
      [] comments # <<>> /\ Head(comments).end.line = line -> comments
      [] OTHER -> comment_get_comment(Tail(comments), line)

\* A mutant of insert_comment_line: the comment still ends where its first line does.
InsertAtOldEnd(comments, token) ==
    LET found == comment_get_comment(comments, token.start.line - 1)
        at == Len(comments) - Len(found) + 1
    IN  IF found # <<>>
        THEN [comments EXCEPT ![at].lines = Append(@, token)]
        ELSE <<[start |-> token.start, end |-> token.end, lines |-> <<token>>]>> \o comments

insert_comment_line(comments, token) ==
    LET found == comment_get_comment(comments, token.start.line - 1)
        at == Len(comments) - Len(found) + 1
    IN  IF found # <<>>
        THEN [comments EXCEPT ![at].lines = Append(@, token), ![at].end = token.end]
        ELSE <<[start |-> token.start, end |-> token.end, lines |-> <<token>>]>> \o comments

Space == 32
Newline == 10
parse_comment_lines(comment) ==
    LET Body(text) == SubSeq(text, IF Len(text) > 1 /\ text[2] = Space THEN 3 ELSE 2, Len(text))
        string == FoldLeft(LAMBDA s, token : s \o Append(Body(token.text), Newline), <<>>, comment.lines)
    IN  T!New("AST::Comment", <<comment.start.char, comment.end.char>>, <<string>>)

rbs_parser_get_comment(p, subject_line) ==
    LET found == comment_get_comment(p.comments, subject_line - 1) IN
    IF found = <<>> THEN T!NULL ELSE parse_comment_lines(Head(found))

(***************************************************************************)
(* Advancing: the window slides by one significant token, and the line     *)
(* comments before the token that enters it are recorded.  "read" tokens   *)
(* of the input have been asked of the lexer.                              *)
(***************************************************************************)
Skipped == {"tCOMMENT", "tLINECOMMENT", "tTRIVIA"}

rbs_parser_advance(p) ==
    IF Next3(p).type = "pEOF"
    THEN [p EXCEPT !.window = <<Next(p), Next2(p), Next3(p), Next3(p)>>]
    ELSE LET upto == SelectInSubSeq(p.tokens, p.read + 1, Len(p.tokens), LAMBDA t : t.type \notin Skipped)
             passed == SelectSeq(SubSeq(p.tokens, p.read + 1, upto - 1), LAMBDA t : t.type = "tLINECOMMENT")
         IN  [p EXCEPT !.window = <<Next(p), Next2(p), Next3(p), p.tokens[upto]>>,
                       !.read = upto,
                       !.comments = FoldLeft(insert_comment_line, @, passed)]

rbs_parser_new_with_options(tokens, options) ==
    LET new == [tokens |-> tokens, read |-> 0, window |-> <<NullToken, NullToken, NullToken, NullToken>>,
                comments |-> <<>>, vars |-> <<>>, error |-> NoError, options |-> options]
    IN  rbs_parser_advance(rbs_parser_advance(rbs_parser_advance(new)))

(***************************************************************************)
(* Results.  Only the first error is kept; setting it does not by itself   *)
(* stop the parser.                                                        *)
(***************************************************************************)
rbs_parser_set_error(p, token, syntax) ==
    IF p.error.set THEN p ELSE [p EXCEPT !.error = [token |-> token, syntax |-> syntax, set |-> TRUE]]

Ok(p, value) == [ok |-> TRUE, p |-> p, v |-> value]
Fail(p, token) == [ok |-> FALSE, p |-> rbs_parser_set_error(p, token, TRUE), v |-> T!NULL]
InternalError(p) == [ok |-> FALSE, p |-> rbs_parser_set_error(p, Current(p), FALSE), v |-> T!NULL]

\* CHECK_PARSE(call), then the rest
Then(result, Rest(_, _)) == IF result.ok THEN Rest(result.p, result.v) ELSE result
Yielding(result, Value(_, _)) == Then(result, LAMBDA p, v : Ok(p, Value(p, v)))

\* ASSERT_TOKEN and ADVANCE_ASSERT; the token is the value
AssertToken(p, type) == IF CurrentIs(p, type) THEN Ok(p, Current(p)) ELSE Fail(p, Current(p))
AdvanceAssert(p, type) == AssertToken(rbs_parser_advance(p), type)

parser_advance_if(p, type) == IF NextIs(p, type) THEN rbs_parser_advance(p) ELSE p

parser_advance_no_gap(p) ==
    IF Adjacent(Current(p), Next(p)) THEN rbs_parser_advance(p) ELSE rbs_parser_set_error(p, Next(p), TRUE)

(***************************************************************************)
(* The tables of type variables, the top first; the outer tables cannot be *)
(* seen through a reset table.                                             *)
(***************************************************************************)
EmptyTable == [reset |-> FALSE, ids |-> {}]
ResetTable == [reset |-> TRUE, ids |-> {}]

rbs_parser_push_typevar_table(p, reset) ==
    [p EXCEPT !.vars = <<EmptyTable>> \o (IF reset THEN <<ResetTable>> ELSE <<>>) \o @]

rbs_parser_insert_typevar(p, name) ==
    IF Head(p.vars).reset THEN InternalError(p)
    ELSE Ok([p EXCEPT !.vars[1].ids = @ \cup {name}], name)

parser_pop_typevar_table(p) ==
    LET below == Tail(p.vars)
        rest == IF below # <<>> /\ Head(below).reset THEN Tail(below) ELSE below
    IN  IF p.vars = <<>> THEN InternalError(p) ELSE Ok([p EXCEPT !.vars = rest], T!NULL)

\* A mutant of parser_typevar_member: the outer tables are seen through a reset.
MemberOfAnyTable(p, name) == \E i \in DOMAIN p.vars : name \in p.vars[i].ids

parser_typevar_member(p, name) ==
    \E i \in DOMAIN p.vars : name \in p.vars[i].ids /\ \A k \in 1 .. i : ~p.vars[k].reset

=============================================================================
