------------------------------ MODULE LexerRules ------------------------------
(***************************************************************************)
(* What the lexer promises: the rules of src/lexer.re, from which re2c     *)
(* generates the automaton that Lexer models.  A rule is a regular         *)
(* expression and a type of token.  The token that starts at a place is    *)
(* the longest match of any rule there, and of the first rule among those  *)
(* that match as far.                                                      *)
(***************************************************************************)
EXTENDS Integers, Sequences, SequencesExt, FiniteSetsExt, Encodings

Invalid == 65533                          \* what is read for a byte that starts no character
Multibyte == 12523                        \* what is read for a character of several bytes
Characters == 0..255 \cup {Multibyte, Invalid}

(***************************************************************************)
(* Regular expressions, and the places where a match that starts at one of *)
(* some places may end.  A place is the number of characters before it.    *)
(***************************************************************************)
One(characters) == [is |-> "one", of |-> characters]
Then(expressions) == [is |-> "then", of |-> expressions]
Either(expressions) == [is |-> "either", of |-> expressions]
Many(expression) == [is |-> "many", of |-> expression]
Some(expression) == Then(<<expression, Many(expression)>>)
Maybe(expression) == Either(<<Then(<<>>), expression>>)
Upto(n, expression) == Then([i \in 1..n |-> Maybe(expression)])

InClass(string) == {Code(SubSeq(string, i, i)) : i \in 1..Len(string)}
AnyOf(string) == One(InClass(string))
Word(string) == Then([i \in 1..Len(string) |-> AnyOf(SubSeq(string, i, i))])
Words(strings) == Either([i \in 1..Len(strings) |-> Word(strings[i])])

RECURSIVE Ends(_, _, _), Repeat(_, _, _, _)
Ends(expression, text, starts) ==
    CASE expression.is = "one" -> {i + 1 : i \in {j \in starts : j < Len(text) /\ text[j + 1] \in expression.of}}
      [] expression.is = "then" ->
            FoldLeft(LAMBDA places, e : IF places = {} THEN {} ELSE Ends(e, text, places), starts, expression.of)
      [] expression.is = "either" ->
            UNION {Ends(expression.of[i], text, starts) : i \in DOMAIN expression.of}
      [] expression.is = "many" -> Repeat(expression.of, text, starts, starts)
Repeat(expression, text, reached, latest) ==
    LET more == Ends(expression, text, latest) \ reached
    IN  IF more = {} THEN reached ELSE Repeat(expression, text, reached \cup more, more)

(***************************************************************************)
(* The definitions of lexer.re.                                            *)
(***************************************************************************)
Digits == 48..57
Small == 97..122
Capital == 65..90
Hexadecimal == Digits \cup 65..70 \cup 97..102
WordCharacters == Digits \cup Small \cup Capital \cup InClass("_")
Ascii7 == 0..127
Backtick == One({Tick})
Anything == Many(One(Characters \ {0}))
Except(characters) == One(Characters \ (characters \cup {0}))
UntilOneOf(characters) == Many(Except(characters))

ident_char == One((Characters \ (Ascii7 \ WordCharacters)) \ {Invalid})
ident_start == One(ident_char.of \ Digits)
identifier == Then(<<ident_start, Many(ident_char)>>)

operator ==
    Words(<<"/", "~", "[]=", "!", "!=", "!~", "-", "-@", "+", "+@", "==", "===", "=~", "<<", "<=", "<=>",
            ">", ">=", ">>", "%">>)
number == Then(<<One(Digits), Many(One(Digits \cup InClass("_")))>>)
signed_number == Then(<<Maybe(AnyOf("-+")), number>>)

quoted == Then(<<Backtick, Except(InClass(" :")), UntilOneOf({Tick}), Backtick>>)
annotation(open, close) == Then(<<Word("%a"), AnyOf(open), UntilOneOf(InClass(close)), AnyOf(close)>>)

unicode_char == Then(<<Word("\\u"), One(Hexadecimal), One(Hexadecimal), One(Hexadecimal), One(Hexadecimal)>>)
oct_char == Then(<<Word("\\x"), One(Hexadecimal), Maybe(One(Hexadecimal))>>)
hex_char == Then(<<AnyOf("\\"), AnyOf("01234567"), Upto(2, AnyOf("01234567"))>>)
escaped == Then(<<AnyOf("\\"), One(Characters \ InClass("xu"))>>)
dqstring ==
    Then(<<AnyOf("\""), Many(Either(<<unicode_char, oct_char, hex_char, escaped, Except(InClass("\\\""))>>)), AnyOf("\"")>>)
sqstring ==
    Then(<<AnyOf("'"), Many(Either(<<Then(<<AnyOf("\\"), AnyOf("'\\")>>), Except(InClass("'"))>>)), AnyOf("'")>>)

symbol_opr ==
    Then(<<AnyOf(":"),
           Either(<<Backtick,
                    Words(<<"|", "&", "/", "%", "~", "^", "==", "=~", "===", "!", "!=", "!~", "<", "<=", "<<", "<=>",
                            ">", ">=", ">>", "-", "-@", "+", "+@", "*", "**", "[]", "[]=">>)>>)>>)
global_ident ==
    Either(<<Some(One(Digits)),
             Then(<<AnyOf("-"), One(WordCharacters)>>),
             One(InClass("~*$?!@\\/;,.=:<>\"&'+") \cup {Tick}),
             Some(Except({9, 10, 13} \cup InClass(" :;=.,!\"$%&()*+~|\\'[]{}/<>^")))>>)

(***************************************************************************)
(* The rules, in their order.                                              *)
(***************************************************************************)
Rule(expression, type) == [expression |-> expression, type |-> type]
WordRules(words, types) == [i \in 1..Len(words) |-> Rule(Word(words[i]), types[i])]

Punctuation ==
    WordRules(<<"(", ")", "[", "]", "{", "}", ",", "|", "^", "&", "?", "*", "**", ".", "...">>,
              <<"pLPAREN", "pRPAREN", "pLBRACKET", "pRBRACKET", "pLBRACE", "pRBRACE", "pCOMMA", "pBAR", "pHAT",
                "pAMP", "pQUESTION", "pSTAR", "pSTAR2", "pDOT", "pDOT3">>) \o
    <<Rule(Backtick, "tOPERATOR"), Rule(quoted, "tQIDENT")>> \o
    WordRules(<<"->", "=>", "=", ":", "::", "<", ">", "[]">>,
              <<"pARROW", "pFATARROW", "pEQ", "pCOLON", "pCOLON2", "pLT", "pGT", "pAREF_OPR">>) \o
    <<Rule(operator, "tOPERATOR"), Rule(Then(<<Word("--"), Anything>>), "tINLINECOMMENT"),
      Rule(signed_number, "tINTEGER")>>

Annotations ==
    <<Rule(annotation("{", "}"), "tANNOTATION"), Rule(annotation("(", ")"), "tANNOTATION"),
      Rule(annotation("[", "]"), "tANNOTATION"), Rule(annotation("|", "|"), "tANNOTATION"),
      Rule(annotation("<", ">"), "tANNOTATION"),
      Rule(Then(<<AnyOf("#"), UntilOneOf({10, Invalid})>>), "tCOMMENT")>>

Keywords ==
    WordRules(<<"alias", "attr_accessor", "attr_reader", "attr_writer", "bool", "bot", "class", "class-alias",
                "def", "end", "extend", "false", "in", "include", "instance", "interface", "module",
                "module-alias", "module-self", "nil", "out", "prepend", "private", "public", "self",
                "singleton", "top", "true", "type", "unchecked", "untyped", "void", "use", "as", "__todo__",
                "@rbs", "skip", "return">>,
              <<"kALIAS", "kATTRACCESSOR", "kATTRREADER", "kATTRWRITER", "kBOOL", "kBOT", "kCLASS",
                "kCLASSALIAS", "kDEF", "kEND", "kEXTEND", "kFALSE", "kIN", "kINCLUDE", "kINSTANCE",
                "kINTERFACE", "kMODULE", "kMODULEALIAS", "kMODULESELF", "kNIL", "kOUT", "kPREPEND",
                "kPRIVATE", "kPUBLIC", "kSELF", "kSINGLETON", "kTOP", "kTRUE", "kTYPE", "kUNCHECKED",
                "kUNTYPED", "kVOID", "kUSE", "kAS", "k__TODO__", "kATRBS", "kSKIP", "kRETURN">>)

Strings ==
    <<Rule(dqstring, "tDQSTRING"), Rule(sqstring, "tSQSTRING"),
      Rule(Then(<<AnyOf(":"), dqstring>>), "tDQSYMBOL"), Rule(Then(<<AnyOf(":"), sqstring>>), "tSQSYMBOL"),
      Rule(Then(<<AnyOf(":"), Upto(2, AnyOf("@")), identifier, Maybe(AnyOf("!?="))>>), "tSYMBOL"),
      Rule(Then(<<Word(":$"), global_ident>>), "tSYMBOL"), Rule(symbol_opr, "tSYMBOL")>>

Identifiers ==
    <<Rule(Then(<<One(Small), Many(ident_char)>>), "tLIDENT"),
      Rule(Then(<<One(Capital), Many(ident_char)>>), "tUIDENT"),
      Rule(Then(<<AnyOf("_"), One(Small \cup Digits \cup InClass("_")), Many(ident_char)>>), "tULLIDENT"),
      Rule(Then(<<AnyOf("_"), One(Capital), Many(ident_char)>>), "tULIDENT"),
      Rule(AnyOf("_"), "tULLIDENT"),
      Rule(identifier, "tNONASCIIIDENT"),
      Rule(Then(<<identifier, AnyOf("!")>>), "tBANGIDENT"),
      Rule(Then(<<identifier, AnyOf("=")>>), "tEQIDENT"),
      Rule(Then(<<AnyOf("@"), identifier>>), "tAIDENT"),
      Rule(Then(<<Word("@@"), identifier>>), "tA2IDENT"),
      Rule(Then(<<AnyOf("$"), global_ident>>), "tGIDENT")>>

Others ==
    <<Rule(Either(<<Some(One({9, 32})), One({10, 13})>>), "tTRIVIA"),
      Rule(One({0}), "pEOF"),
      Rule(One(Characters), "ErrorToken")>>

Rules == Punctuation \o Annotations \o Keywords \o Strings \o Identifiers \o Others

(***************************************************************************)
(* The token at the start of a text that ends with a NUL, and how many     *)
(* characters it has.                                                      *)
(***************************************************************************)
LongestOf(rules, text) ==
    LET furthest == [i \in DOMAIN rules |-> Max({0} \cup Ends(rules[i].expression, text, {0}))]
        length == Max({furthest[i] : i \in DOMAIN rules})
    IN  [type |-> rules[Min({i \in DOMAIN rules : furthest[i] = length})].type, length |-> length]
LongestMatch(text) == LongestOf(Rules, text)
=============================================================================
