-------------------------- MODULE FrontEndProperties --------------------------
(***************************************************************************)
(* What a caller of RBS::Parser relies on, whichever implementation        *)
(* answers.  What is expected is stated from the bytes of the buffer, from *)
(* all of its tokens at once or from the tree as a whole, never from the   *)
(* state the code keeps on the way.                                        *)
(***************************************************************************)
EXTENDS FrontEnd, FiniteSets

(***************************************************************************)
(* Trees.                                                                  *)
(***************************************************************************)
Trees ==
    CASE stage # "parsed" \/ parsed.is # "value" -> <<>>
      [] stage = "parsed" /\ parsed.is = "value" /\ request.entry = "type_params" -> parsed.value
      [] OTHER -> <<parsed.value>>

Fields(node) == DOMAIN Tree!Struct[node.tag]
ChildrenOf(node, fields) == UNION {Tree!ChildrenIn(node[f], Tree!Struct[node.tag][f]) : f \in fields}

RECURSIVE NodesOf(_)
NodesOf(node) == {node} \cup UNION {NodesOf(child) : child \in ChildrenOf(node, Fields(node))}
Nodes == UNION {NodesOf(Trees[i]) : i \in DOMAIN Trees}

(***************************************************************************)
(* The type invariant.  A tree has what its structs declare, but for the   *)
(* namespace of `use *`, which has no range.                               *)
(***************************************************************************)
NamesNoNamespace(node) == node.tag = "AST::Directives::Use::WildcardClause" /\ Tree!IsNullRange(node.namespace_range)

TypeOK ==
    /\ runner \in Runners
    /\ stage \in Stages
    /\ DOMAIN outcomes = Runners
    /\ stage = "parsed" => parsed.is \in {"value", "nil", "error"} /\ (parsed.is = "error" <=> parsed.error.set)
    /\ \/ \A i \in DOMAIN Trees : Tree!WellFormed(Trees[i])
       \/ Tree!NULL \notin ToSet(Trees) /\ \E node \in Nodes : NamesNoNamespace(node)

(***************************************************************************)
(* Characters, from the bytes alone.  The well formed sequences of UTF-8   *)
(* are those of table 3-7 of the Unicode standard.                         *)
(***************************************************************************)
Utf8Sequences ==
    {<<0..127>>, <<194..223, 128..191>>, <<224..224, 160..191, 128..191>>, <<225..236, 128..191, 128..191>>,
     <<237..237, 128..159, 128..191>>, <<238..239, 128..191, 128..191>>,
     <<240..240, 144..191, 128..191, 128..191>>, <<241..243, 128..191, 128..191, 128..191>>,
     <<244..244, 128..143, 128..191, 128..191>>}
StartsWith(bytes, sequence) ==
    Len(bytes) >= Len(sequence) /\ \A i \in DOMAIN sequence : bytes[i] \in sequence[i]
Utf8Width(bytes) ==
    LET fitting == {sequence \in Utf8Sequences : StartsWith(bytes, sequence)}
    IN  IF fitting = {} THEN 0 ELSE Len(CHOOSE sequence \in fitting : TRUE)

Utf8Names == {"UTF-8", "UTF8-MAC", "UTF8-DoCoMo", "UTF8-KDDI", "UTF8-SoftBank"}
WidthOf(bytes, encoding) == IF encoding \in Utf8Names THEN Utf8Width(bytes) ELSE char_width(encoding, bytes)

\* the bytes at which the characters up to the end of the range start, each with its width, and where the last one ends
RECURSIVE CharactersFrom(_, _)
Then(byte, width, encoding) ==
    <<[byte |-> byte, width |-> width]>> \o CharactersFrom(byte + (IF width = 0 THEN 1 ELSE width), encoding)
CharactersFrom(byte, encoding) ==
    IF byte >= request.end_pos \/ ByteAt(request.content, byte) = 0 THEN <<[byte |-> byte, width |-> 0]>>
    ELSE Then(byte, WidthOf(SubSeq(request.content, byte + 1, Len(request.content)), encoding), encoding)

CodeOf(byte, width) ==
    CASE width = 0 -> Invalid
      [] width = 1 -> request.content[byte + 1]
      [] OTHER -> Multibyte

\* the characters of the range; what follows reads as the end of the input
ScannedAs(chars) ==
    [boundaries |-> [i \in DOMAIN chars |-> chars[i].byte],
     codes |-> [i \in DOMAIN chars |-> IF i = Len(chars) THEN Eof ELSE CodeOf(chars[i].byte, chars[i].width)]]
Scanned == ScannedAs(CharactersFrom(0, EncodingOf(request)))

PositionOf(scanned, char) ==
    LET newlines == {i \in 1..char : scanned.codes[i] = Newline}
    IN  [byte   |-> scanned.boundaries[char + 1],
         char   |-> char,
         line   |-> Cardinality(newlines) + 1,
         column |-> IF newlines = {} THEN char ELSE char - Max(newlines)]

(***************************************************************************)
(* The byte, character, line and column of every token are what a scan of  *)
(* the whole buffer gives: the characters before it are counted from the   *)
(* start of the buffer, also when a range in its middle is parsed, also    *)
(* after invalid bytes, after a carriage return a comment gave back, and   *)
(* past the backtracking of the automaton.  The tokens tile the range, and *)
(* the last one, of no length, is where the range ends.                    *)
(***************************************************************************)
TokensTile(scanned) ==
    LET last == lexed[Len(lexed)]
    IN  /\ \A i \in DOMAIN lexed :
              /\ lexed[i].start = PositionOf(scanned, lexed[i].start.char)
              /\ i > 1 => lexed[i].start = lexed[i - 1].end
              /\ lexed[i].text = SubSeq(request.content, lexed[i].start.byte + 1, lexed[i].end.byte)
        /\ lexed[1].start.byte = request.start_pos
        /\ last.end = PositionOf(scanned, Len(scanned.boundaries) - 1)
        /\ last.start = last.end

PositionsAreAFullScan == stage = "lexed" => TokensTile(Scanned)

(***************************************************************************)
(* Every token is the longest match of the rules of lexer.re and, of the   *)
(* rules that match as far, of the first one: the automaton generated from *)
(* them goes back to the right place when what it hoped for does not come, *)
(* with its position and its lookahead.  A comment leaves out the carriage *)
(* return of its line end, and is a line comment exactly when nothing but  *)
(* blanks precede it on its line, as far as the line is in the range.      *)
(***************************************************************************)
LineStart(scanned, token) ==
    Max({i \in 0..token.start.char : i = 0 \/ scanned.codes[i] = Newline \/ scanned.boundaries[i + 1] = request.start_pos})
IsAlone(scanned, token) ==
    \A i \in LineStart(scanned, token) + 1 .. token.start.char : scanned.codes[i] \in Blank \cup {Return}

AsToken(match, text, alone) ==
    LET gives_back == match.length > 0 /\ text[match.length] = Return /\ text[match.length + 1] = Newline
    IN  CASE match.type = "pEOF" -> [type |-> "pEOF", length |-> 0]
          [] match.type = "tCOMMENT" ->
                [type   |-> IF alone THEN "tLINECOMMENT" ELSE "tCOMMENT",
                 length |-> IF gives_back THEN match.length - 1 ELSE match.length]
          [] OTHER -> match
Expected(scanned, token) ==
    LET text == SubSeq(scanned.codes, token.start.char + 1, Len(scanned.codes))
    IN  AsToken(Rules!LongestMatch(text), text, IsAlone(scanned, token))

LexerIsLongestMatch ==
    stage = "lexed" =>
        LET scanned == Scanned
        IN  \A token \in ToSet(lexed) :
                Expected(scanned, token) = [type |-> token.type, length |-> token.end.char - token.start.char]

(***************************************************************************)
(* The comment of a declaration or a member is the block of line comments  *)
(* on the lines right above it, or above its annotations, from the first   *)
(* line of the block to the last one, and null where there is none: no     *)
(* line of a block is lost or taken for that of another, however far the   *)
(* parser had read ahead when the comment was asked for.                   *)
(***************************************************************************)
LineOf(scanned, char) == PositionOf(scanned, char).line
Subject(node) ==
    IF "annotations" \in Fields(node) /\ node.annotations # <<>> THEN node.annotations[1] ELSE node

LineComments == SelectSeq(lexed, LAMBDA t : t.type = "tLINECOMMENT")
BlockAbove(line) ==
    SelectSeq(LineComments, LAMBDA t :
        /\ t.start.line < line
        /\ \A l \in t.start.line .. line - 1 : \E i \in DOMAIN LineComments : LineComments[i].start.line = l)

Body(text) == SubSeq(text, IF Len(text) > 1 /\ text[2] = Space THEN 3 ELSE 2, Len(text)) \o <<Newline>>
CommentAbove(line) ==
    LET block == BlockAbove(line)
    IN  IF block = <<>> THEN Tree!NULL
        ELSE [tag |-> "AST::Comment", location |-> <<block[1].start.char, block[Len(block)].end.char>>,
              string |-> FlattenSeq([i \in DOMAIN block |-> Body(block[i].text)])]

CommentIsTheBlockAbove ==
    stage = "parsed" =>
        LET scanned == Scanned
        IN  \A node \in Nodes :
                "comment" \in Fields(node) =>
                    node.comment = CommentAbove(LineOf(scanned, Subject(node).location[1]))

(***************************************************************************)
(* A range lies in the location of its node, and the location of a node in *)
(* that of its parent.  Annotations and comments stand before what they    *)
(* belong to.  Four places of parser.c do otherwise, and are named here: a *)
(* function starts with the token before it, an inline overload has the    *)
(* location of its last token, `use *` has none, and of a method called    *)
(* `self` the end of the range of the kind precedes its start; the range   *)
(* of a quoted method name is not written at all.                          *)
(***************************************************************************)
Inside(inner, outer) == outer[1] <= inner[1] /\ inner[1] <= inner[2] /\ inner[2] <= outer[2]

IsFunction(node) == node.tag \in {"Types::Function", "Types::UntypedFunction"}
IsInlineOverload(node) == node.tag = "AST::Members::MethodDefinition::Overload" /\ request.entry = "leading"
HasNoKind(node) == node.tag = "AST::Members::MethodDefinition" /\ node.kind = Parser!INSTANCE_KIND
IsQuoted(node) == node.tag = "AST::Members::MethodDefinition" /\ Tick \in ToSet(request.content)
Misplaced(node) ==
    {"annotations", "comment"} \cup (IF HasNoKind(node) THEN {"kind_range"} ELSE {})
                              \cup (IF IsQuoted(node) THEN {"name_range"} ELSE {})

RangesOf(node, fields) ==
    LET Of(value, field) ==
            CASE field.is = "range" -> {value} [] field.is = "ranges" -> ToSet(value) [] OTHER -> {}
    IN  UNION {Of(node[f], Tree!Struct[node.tag][f]) : f \in fields}
PartsOf(node) ==
    LET fields == Fields(node) \ Misplaced(node)
    IN  RangesOf(node, fields)
        \cup {child.location : child \in {c \in ChildrenOf(node, fields) : ~IsFunction(c)}}

RangesNest ==
    \A node \in Nodes :
        ~Tree!IsNullRange(node.location) /\ ~IsInlineOverload(node) =>
            \A part \in PartsOf(node) : Tree!IsNullRange(part) \/ Inside(part, node.location)

(***************************************************************************)
(* Type variables are lexically scoped: a name is a variable exactly where *)
(* a parameter of that name is visible in the tree.  The parameters of a   *)
(* declaration reach its members but not what is nested in it nor its      *)
(* singleton methods, those of a method its type, and the bounds of a      *)
(* parameter see itself and the ones before it.                            *)
(***************************************************************************)
Declarations == {"AST::Declarations::" \o name :
                    name \in {"Class", "Module", "Interface", "TypeAlias", "Constant", "Global"}}
Singletons == {"AST::Members::" \o name : name \in {"ClassVariable", "ClassInstanceVariable", "Extend"}}
Kinded == {"AST::Members::" \o name : name \in {"MethodDefinition", "AttrReader", "AttrWriter", "AttrAccessor"}}

ParamsOf(node) == IF "type_params" \in Fields(node) THEN node.type_params ELSE <<>>
Names(params) == {params[i].name.constant_id : i \in DOMAIN params}
Visible(node, bound) ==
    IF node.tag \in Declarations \cup Singletons \/ (node.tag \in Kinded /\ node.kind # Parser!INSTANCE_KIND)
    THEN {} ELSE bound

IsSimpleName(node) == node.name.rbs_namespace.path = <<>> /\ ~node.name.rbs_namespace.absolute
RECURSIVE Lexical(_, _)
LexicalParams(params, bound) ==
    \A i \in DOMAIN params : Lexical(params[i], bound \cup Names(SubSeq(params, 1, i)))
Lexical(node, bound) ==
    LET outer == Visible(node, bound)
        inner == outer \cup Names(ParamsOf(node))
    IN  /\ node.tag = "Types::Variable" => node.name.constant_id \in bound
        /\ node.tag = "Types::ClassInstance" /\ node.args = <<>> /\ IsSimpleName(node) =>
                node.name.name.constant_id \notin bound
        /\ LexicalParams(ParamsOf(node), outer)
        /\ \A child \in ChildrenOf(node, Fields(node) \ {"type_params"}) : Lexical(child, inner)

DeclaredVariables ==
    IF request.variables.given /\ request.entry \in {"type", "method_type", "leading", "trailing"}
    THEN ToSet(request.variables.names) ELSE {}
VariablesAreLexical ==
    IF request.entry = "type_params" THEN LexicalParams(Trees, {})
    ELSE \A i \in DOMAIN Trees : Lexical(Trees[i], DeclaredVariables)

(***************************************************************************)
(* The two implementations answer alike: the same objects with the same    *)
(* locations, nil for the same inputs, the same error at the same token.   *)
(* Left aside is what the C extension does not define: an encoding it does *)
(* not know, and the range of a quoted method name, which it never writes; *)
(* a negative end of the input of _lex, which only it refuses; and `use *`,*)
(* which AnswersAgree is about.                                            *)
(***************************************************************************)
IsDefined ==
    /\ outcomes["native"] # Undefined
    /\ Tick \notin ToSet(request.content)
    /\ request.entry = "lex" => request.end_pos >= 0
UsesEverything ==
    LET use == Ascii("use *")
    IN  \E i \in DOMAIN request.content : SubSeq(request.content, i, Min({i + 4, Len(request.content)})) = use

Comparable(outcome) ==
    IF request.entry = "lex" /\ outcome.is = "value"
    THEN [outcome EXCEPT !.value = SpelledTokens(@)] ELSE Spelled(outcome)

WasmAgreesWithNative ==
    stage = "answered" /\ IsDefined /\ ~UsesEverything => Comparable(outcomes["native"]) = outcomes["wasm"]

(***************************************************************************)
(* "RBS::Location behaves identically without the native extension" (the   *)
(* comment of lib/rbs/wasm/location.rb): of no input does one              *)
(* implementation make objects and the other an error.  (The clause of     *)
(* `use *` has no location: ast_translation.c raises TypeError for it, and *)
(* deserializer.rb gives it a nil location.)                               *)
(***************************************************************************)
AnswersAgree ==
    stage = "answered" /\ IsDefined => outcomes["native"].is = outcomes["wasm"].is

(***************************************************************************)
(* What an encoding says of a character agrees: a letter is alphanumeric   *)
(* and as wide as the character, a capital is a letter (but for EUC-JP,    *)
(* which knows capitals of two bytes and only letters of one), and below   *)
(* 0x80 all encodings say what ASCII does.                                 *)
(***************************************************************************)
AsciiLetter == Upper \cup Lower
EucJpNames == {"EUC-JP", "eucJP-ms", "EUC-JIS-2004", "CP51932"}
ClassesAgree(encoding, byte, width, alpha, alnum, upper) ==
    /\ alpha \in {0, alnum}
    /\ alnum \in {0, width}
    /\ upper /\ encoding \notin EucJpNames => alpha # 0
    /\ byte < 128 => /\ width = 1
                     /\ alpha = 1 <=> byte \in AsciiLetter
                     /\ alnum = 1 <=> byte \in AsciiLetter \cup Digit
                     /\ upper <=> byte \in Upper

\* of every suffix of the buffer
AllClassesAgree(encoding) ==
    \A i \in DOMAIN request.content :
        LET bytes == SubSeq(request.content, i, Len(request.content))
        IN  ClassesAgree(encoding, bytes[1], char_width(encoding, bytes), alpha_char(encoding, bytes),
                         alnum_char(encoding, bytes), isupper_char(encoding, bytes))

CharacterClassesAgree ==
    stage = "called" /\ runner = "native" /\ EncodingOf(request) # NoEncoding => AllClassesAgree(EncodingOf(request))
=============================================================================
