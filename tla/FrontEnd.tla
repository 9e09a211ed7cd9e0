------------------------------- MODULE FrontEnd -------------------------------
(***************************************************************************)
(* A call of RBS::Parser, from the bytes of a buffer to Ruby objects, by   *)
(* the two implementations there are: the C extension of CRuby             *)
(* (ext/rbs_extension/main.c), which translates the tree the parser built, *)
(* and the WebAssembly one of JRuby (wasm/rbs_wasm.c under                 *)
(* lib/rbs/wasm/parser.rb), which serializes it on one side and rebuilds   *)
(* it on the other.  The same call is answered by the first and then by    *)
(* the second; each makes its own lexer and its own parser.                *)
(*                                                                         *)
(* The parser asks the lexer for one token at a time, and the lexer does   *)
(* not depend on the parser: here all tokens of the range are read first.  *)
(* Messages are left out of errors.                                        *)
(***************************************************************************)
EXTENDS Lexer

CONSTANTS
    Calls,              \* the calls that may be made
    BufferEncoding,     \* the Ruby encoding the strings and symbols of a result have
    Garbage             \* what an uninitialized range may happen to hold

Parser == INSTANCE ParserInline
Tree == INSTANCE SyntaxTree
Translation == INSTANCE TreeTranslation WITH SourceEncoding <- BufferEncoding
Serializer == INSTANCE TreeSerializer
Deserializer == INSTANCE TreeDeserializer
Rules == INSTANCE LexerRules
Ruby == INSTANCE RubyValues

Runners == {"native", "wasm"}
Stages == {"called", "lexing", "lexed", "parsed", "replied", "answered"}

VARIABLES
    request,    \* the call: the entry point, the buffer, the range and the options
    runner,     \* which implementation answers it
    stage,      \* how far it is
    scanner,    \* rbs_lexer_t
    lexed,      \* the tokens read so far
    parsed,     \* what parsing gave: an error, nothing, or a value
    reply,      \* rbs_wasm.c: the status and the bytes of the result
    outcomes    \* what the caller of each implementation got

vars == <<request, runner, stage, scanner, lexed, parsed, reply, outcomes>>

(***************************************************************************)
(* What a caller gets.                                                     *)
(***************************************************************************)
Nothing == [is |-> "nothing"]
Value(value) == [is |-> "value", value |-> value]
Raised(class) == [is |-> "raised", class |-> class]
ParsingError(range, type) == [is |-> "raised", class |-> "ParsingError", range |-> range, type |-> type]
Undefined == [is |-> "undefined"]

Yields(value) == [is |-> "value", error |-> Parser!NoError, value |-> value]
NoValue == [is |-> "nil", error |-> Parser!NoError, value |-> Tree!NULL]
Failed(error) == [is |-> "error", error |-> error, value |-> Tree!NULL]
Unparsed == [is |-> "nothing", error |-> Parser!NoError, value |-> Tree!NULL]

NoReply == [status |-> "none", bytes |-> <<>>]

Init ==
    /\ request \in Calls
    /\ runner = "native"
    /\ stage = "called"
    /\ scanner = NullLexer
    /\ lexed = <<>>
    /\ parsed = Unparsed
    /\ reply = NoReply
    /\ outcomes = [r \in Runners |-> Nothing]

\* the runner has its answer; the other one starts, or nothing is left to do
Answer(outcome) ==
    /\ outcomes' = [outcomes EXCEPT ![runner] = outcome]
    /\ runner' = "wasm"
    /\ stage' = IF runner = "native" THEN "called" ELSE "answered"
    /\ scanner' = NullLexer
    /\ lexed' = <<>>
    /\ parsed' = Unparsed
    /\ reply' = NoReply

(***************************************************************************)
(* The range and the encoding.                                             *)
(***************************************************************************)
\* validate_position_range of main.c and of parser.rb
validate_position_range(r) ==
    /\ r.start_pos >= 0 /\ r.end_pos >= 0
    /\ r.start_pos <= r.end_pos
    /\ r.start_pos <= Len(r.content)

\* the ABI is public, so rbs_wasm.c checks again
range_is_valid(r) == r.start_pos >= 0 /\ r.end_pos >= 0 /\ r.start_pos <= r.end_pos

clamp_end_pos(end_pos, length) == IF end_pos < length THEN end_pos ELSE length

\* of main.c, and resolve_encoding of rbs_wasm.c, which falls back on UTF-8
Resolved(found) == IF found = NoEncoding /\ runner = "wasm" THEN "UTF-8" ELSE found
resolve_encoding(name) == Resolved(IF name = <<>> THEN NoEncoding ELSE rbs_encoding_find(name))
EncodingOf(r) == resolve_encoding(r.encoding)

\* _lex of parser.rb passes the range on as it is, and does not look at the status that comes back
Unvalidated == runner = "wasm" /\ request.entry = "lex"
Accepted == IF Unvalidated THEN range_is_valid(request) ELSE validate_position_range(request)

RejectRange ==
    /\ stage = "called"
    /\ ~Accepted
    /\ Answer(IF Unvalidated THEN Value(<<>>) ELSE Raised("ArgumentError"))
    /\ UNCHANGED request

\* main.c does not look whether it found the encoding, and the lexer follows a null pointer
LoseEncoding ==
    /\ stage = "called"
    /\ Accepted
    /\ EncodingOf(request) = NoEncoding
    /\ Answer(Undefined)
    /\ UNCHANGED request

NewScanner(r) ==
    rbs_lexer_new(r.content, EncodingOf(r), r.start_pos,
                  IF runner = "native" THEN r.end_pos ELSE clamp_end_pos(r.end_pos, Len(r.content)))

\* alloc_parser_from_buffer, alloc_lexer_from_buffer; RBS_WASM_INVALID_START_POS
RejectStart ==
    /\ stage = "called"
    /\ Accepted
    /\ EncodingOf(request) # NoEncoding
    /\ NewScanner(request) = NullLexer
    /\ Answer(Raised("ArgumentError"))
    /\ UNCHANGED request

NewLexer ==
    /\ stage = "called"
    /\ Accepted
    /\ EncodingOf(request) # NoEncoding
    /\ NewScanner(request) # NullLexer
    /\ scanner' = NewScanner(request)
    /\ stage' = "lexing"
    /\ UNCHANGED <<request, runner, lexed, parsed, reply, outcomes>>

Read(next) ==
    /\ lexed' = Append(lexed, next.token)
    /\ scanner' = next.lexer
    /\ stage' = IF next.token.type = "pEOF" THEN "lexed" ELSE "lexing"

NextToken ==
    /\ stage = "lexing"
    /\ Read(rbs_lexer_next_token(scanner))
    /\ UNCHANGED <<request, runner, parsed, reply, outcomes>>

(***************************************************************************)
(* Parsing, from the entry points of main.c.                               *)
(***************************************************************************)
\* A mutant of ErrorOr: nobody looks at the error.
ErrorIgnored(p, outcome) == outcome

\* raise_error_if_any
ErrorOr(p, outcome) == IF p.error.set THEN Failed(p.error) ELSE outcome

RECURSIVE InsertEach(_, _)
InsertEach(p, names) ==
    IF names = <<>> THEN p ELSE InsertEach(Parser!rbs_parser_insert_typevar(p, Head(names)).p, Tail(names))

declare_type_variables(p, variables) ==
    IF ~variables.given THEN p ELSE InsertEach(Parser!rbs_parser_push_typevar_table(p, TRUE), variables.names)

ExpectEof(p) == Parser!AdvanceAssert(p, "pEOF").p

\* The function of parser.c an entry point calls, and what it passes on.
Functions ==
    [signature |-> "rbs_parse_signature", type |-> "rbs_parse_type", method_type |-> "rbs_parse_method_type",
     type_params |-> "rbs_parse_type_params", leading |-> "rbs_parse_inline_leading_annotation",
     trailing |-> "rbs_parse_inline_trailing_annotation"]
Arguments(r) ==
    CASE r.entry = "type" -> r.allowed
      [] r.entry = "method_type" -> <<r.require_eof, TRUE>>
      [] r.entry = "type_params" -> r.module_type_params
      [] OTHER -> <<>>

\* In what follows "result" is what that function gives for p.
parse_type_try(p, r, result) ==
    LET end == IF r.require_eof /\ ~result.p.error.set THEN ExpectEof(result.p) ELSE result.p
    IN  IF Parser!NextIs(p, "pEOF") THEN NoValue ELSE ErrorOr(end, Yields(result.v))

\* also parse_type_params_try
parse_method_type_try(p, result) ==
    IF Parser!NextIs(p, "pEOF") THEN NoValue ELSE ErrorOr(result.p, Yields(result.v))

parse_signature_try(result) == ErrorOr(result.p, Yields(result.v))

\* parse_inline_leading_annotation_try, parse_inline_trailing_annotation_try
parse_inline_annotation_try(result) == ErrorOr(result.p, IF result.ok THEN Yields(result.v) ELSE NoValue)

Native(p, r, result) ==
    CASE r.entry = "signature" -> parse_signature_try(result)
      [] r.entry = "type" -> parse_type_try(p, r, result)
      [] r.entry \in {"method_type", "type_params"} -> parse_method_type_try(p, result)
      [] r.entry \in {"leading", "trailing"} -> parse_inline_annotation_try(result)

(***************************************************************************)
(* Parsing, from the entry points of rbs_wasm.c.  The names of the type    *)
(* variables come separated by newlines; an empty one is passed over.      *)
(***************************************************************************)
with_variables(names) ==
    FlattenSeq([i \in DOMAIN names |-> IF i = 1 THEN names[i] ELSE <<Newline>> \o names[i]])

RECURSIVE SplitLines(_, _)
SplitLines(text, name) ==
    LET kept == IF name = <<>> THEN <<>> ELSE <<name>>
    IN  CASE text = <<>> -> kept
          [] text # <<>> /\ Head(text) = Newline -> kept \o SplitLines(Tail(text), <<>>)
          [] OTHER -> SplitLines(Tail(text), Append(name, Head(text)))

declare_variables(p, variables) ==
    IF ~variables.given THEN p
    ELSE InsertEach(Parser!rbs_parser_push_typevar_table(p, TRUE), SplitLines(with_variables(variables.names), <<>>))

rbs_wasm_parse_type(p, r, result) ==
    LET end == IF ~result.p.error.set /\ r.require_eof THEN ExpectEof(result.p) ELSE result.p
    IN  IF Parser!NextIs(p, "pEOF") THEN NoValue ELSE ErrorOr(end, Yields(result.v))

\* also rbs_wasm_parse_type_params
rbs_wasm_parse_method_type(p, result) ==
    IF Parser!NextIs(p, "pEOF") THEN NoValue ELSE ErrorOr(result.p, Yields(result.v))

rbs_wasm_parse_signature(result) == ErrorOr(result.p, Yields(result.v))

parse_inline_annotation(result) ==
    CASE result.p.error.set -> Failed(result.p.error)
      [] ~result.p.error.set /\ ~result.ok -> NoValue
      [] OTHER -> Yields(result.v)

Wasm(p, r, result) ==
    CASE r.entry = "signature" -> rbs_wasm_parse_signature(result)
      [] r.entry = "type" -> rbs_wasm_parse_type(p, r, result)
      [] r.entry \in {"method_type", "type_params"} -> rbs_wasm_parse_method_type(p, result)
      [] r.entry \in {"leading", "trailing"} -> parse_inline_annotation(result)

\* all but a signature and type parameters are parsed with the variables the caller names
TakesVariables == {"type", "method_type", "leading", "trailing"}
Declared(p, r) ==
    CASE r.entry \notin TakesVariables -> p
      [] r.entry \in TakesVariables /\ runner = "native" -> declare_type_variables(p, r.variables)
      [] OTHER -> declare_variables(p, r.variables)

ParsedBy(p, r, result) == IF runner = "native" THEN Native(p, r, result) ELSE Wasm(p, r, result)
Parsing(p, r) == ParsedBy(p, r, Parser!ParserCall(Functions[r.entry], p, Arguments(r)))

(* The public API never enables the syntax of forwarded parameters.  Only a quoted method name leaves a *)
(* range uninitialized.                                                                                 *)
Options(r, garbage) ==
    [unicode |-> EncodingOf(r) = "UTF-8", forwarding |-> FALSE, uninitialized |-> garbage]
ReadsUninitialized == \E i \in DOMAIN lexed : lexed[i].type = "tQIDENT"

Parse ==
    /\ stage = "lexed"
    /\ request.entry # "lex"
    /\ \E garbage \in IF ReadsUninitialized THEN Garbage ELSE {Tree!NullRange} :
         parsed' = Parsing(Declared(Parser!rbs_parser_new_with_options(lexed, Options(request, garbage)), request), request)
    /\ stage' = "parsed"
    /\ UNCHANGED <<request, runner, scanner, lexed, reply, outcomes>>

(***************************************************************************)
(* The answer of the C extension.                                          *)
(***************************************************************************)
raise_error(error) ==
    IF error.syntax THEN ParsingError(Parser!SpanOf(error.token), error.token.type) ELSE Raised("RuntimeError")

Translated ==
    IF request.entry = "type_params" THEN Translation!ListToRuby(parsed.value, <<>>).value
    ELSE Translation!Translate(parsed.value)

Returned(value) == IF Ruby!IsError(value) THEN Raised(value.error) ELSE Value(value)

AnswerNative ==
    /\ stage = "parsed"
    /\ runner = "native"
    /\ Answer(CASE parsed.is = "error" -> raise_error(parsed.error)
                [] parsed.is = "nil" -> Value(Ruby!RNil)
                [] parsed.is = "value" -> Returned(Translated))
    /\ UNCHANGED request

rbsparser_lex ==
    [i \in DOMAIN lexed |-> [type |-> lexed[i].type, range |-> Parser!SpanOf(lexed[i])]]

AnswerTokens ==
    /\ stage = "lexed"
    /\ runner = "native"
    /\ request.entry = "lex"
    /\ Answer(Value(rbsparser_lex))
    /\ UNCHANGED request

(***************************************************************************)
(* The answer of the WebAssembly build: bytes, and what parser.rb makes of *)
(* them.                                                                   *)
(***************************************************************************)
W_bytes(name) == Serializer!W_string(Ascii(name))

\* the positions, whether it is a syntax error, and the type of the token
set_error_result(error) ==
    Serializer!W_u32(error.token.start.char) \o Serializer!W_u32(error.token.end.char)
    \o Serializer!W_u8(IF error.syntax THEN 1 ELSE 0) \o W_bytes(error.token.type)

set_serialized_result(r, value) ==
    IF r.entry = "type_params" THEN Serializer!rbs_serialize_node_list(value)
    ELSE Serializer!rbs_serialize_node(value)

rbs_wasm_lex ==
    Serializer!Each(lexed, LAMBDA t : W_bytes(t.type) \o Serializer!W_u32(t.start.char) \o Serializer!W_u32(t.end.char))

Reply ==
    /\ runner = "wasm"
    /\ \/ /\ stage = "parsed"
          /\ reply' = CASE parsed.is = "error" -> [status |-> "PARSE_ERROR", bytes |-> set_error_result(parsed.error)]
                        [] parsed.is = "nil" -> [status |-> "OK", bytes |-> <<>>]
                        [] parsed.is = "value" ->
                             [status |-> "OK", bytes |-> set_serialized_result(request, parsed.value)]
       \/ /\ stage = "lexed"
          /\ request.entry = "lex"
          /\ reply' = [status |-> "OK", bytes |-> rbs_wasm_lex]
    /\ stage' = "replied"
    /\ UNCHANGED <<request, runner, scanner, lexed, parsed, outcomes>>

ReadTriple(bytes, pos, First(_, _), Second(_, _), Third(_, _)) ==
    LET a == First(bytes, pos)
        b == Second(bytes, a.pos)
        c == Third(bytes, b.pos)
    IN  [values |-> <<a.value, b.value, c.value>>, pos |-> c.pos]

\* types are compared as the bytes that spell them
Spelled(outcome) == IF "type" \in DOMAIN outcome THEN [outcome EXCEPT !.type = Ascii(@)] ELSE outcome
SpelledTokens(tokens) == [i \in DOMAIN tokens |-> Spelled(tokens[i])]

raise_parsing_error(bytes) ==
    LET head == ReadTriple(bytes, 0, Deserializer!ReadI32, Deserializer!ReadI32, Deserializer!ReadU8)
    IN  IF head.values[3] = 0 THEN Raised("RuntimeError")
        ELSE ParsingError(<<head.values[1], head.values[2]>>, Deserializer!ReadString(bytes, head.pos).value)

RECURSIVE ReadTokens(_, _)
ReadTokens(bytes, pos) ==
    LET next == ReadTriple(bytes, pos, Deserializer!ReadString, Deserializer!ReadI32, Deserializer!ReadI32)
    IN  IF pos >= Len(bytes) THEN <<>>
        ELSE <<[type |-> next.values[1], range |-> <<next.values[2], next.values[3]>>]>> \o ReadTokens(bytes, next.pos)

deserialize_or_nil(bytes) ==
    IF bytes = <<>> THEN Ruby!RNil
    ELSE Deserializer!Deserialize(bytes, IF request.entry = "type_params" THEN "list" ELSE "node")

AnswerWasm ==
    /\ stage = "replied"
    /\ Answer(CASE reply.status = "PARSE_ERROR" -> raise_parsing_error(reply.bytes)
                [] reply.status = "OK" /\ request.entry = "lex" -> Value(ReadTokens(reply.bytes, 0))
                [] OTHER -> Returned(deserialize_or_nil(reply.bytes)))
    /\ UNCHANGED request

\* nothing is left to do
Rest == stage = "answered" /\ UNCHANGED vars

Next ==
    \/ RejectRange
    \/ LoseEncoding
    \/ RejectStart
    \/ NewLexer
    \/ NextToken
    \/ Parse
    \/ AnswerNative
    \/ AnswerTokens
    \/ Reply
    \/ AnswerWasm
    \/ Rest

Spec == Init /\ [][Next]_vars
=============================================================================
