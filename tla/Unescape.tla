------------------------------ MODULE Unescape ------------------------------
(***************************************************************************)
(* src/util/rbs_unescape.c and the functions of src/string.c: what the     *)
(* text of a string, a symbol or a name in quotes stands for.  A text is   *)
(* the sequence of its bytes.                                              *)
(***************************************************************************)
EXTENDS Integers, Sequences, SequencesExt, FiniteSetsExt

DoubleQuote == 34
SingleQuote == 39
Backquote == 96
Backslash == 92
Lower_x == 120
Lower_u == 117

isdigit(b) == b \in 48 .. 57
isxdigit(b) == b \in 48 .. 57 \cup 65 .. 70 \cup 97 .. 102
isspace(b) == b \in 9 .. 13 \cup {32}
tolower(b) == IF b \in 65 .. 90 THEN b + 32 ELSE b

\* what is not a digit is taken for one all the same
hex_to_int(digits) ==
    FoldLeft(LAMBDA n, b : 16 * n + (IF isdigit(b) THEN b - 48 ELSE tolower(b) - 87), 0, digits)
octal_to_int(digits) == FoldLeft(LAMBDA n, b : 8 * n + b - 48, 0, digits)
AsChar(n) == n % 256

\* \a \b \e \f \n \r \s \t \v \" \' \\ ; the last entry of the table, a lone backslash, stands for a null byte
Escapes == <<<<97, 7>>, <<98, 8>>, <<101, 27>>, <<102, 12>>, <<110, 10>>, <<114, 13>>, <<115, 32>>, <<116, 9>>,
             <<118, 11>>, <<34, 34>>, <<39, 39>>, <<92, 92>>>>
Escape(b) == SelectInSeq(Escapes, LAMBDA e : e[1] = b)

\* the bytes to write at "start" of a buffer of "end" bytes
rbs_utf8_fill_codepoint(start, end, cp) ==
    LET Continuation(k) == 128 + ((cp \div (64 ^ k)) % 64) IN
    CASE start + 4 > end \/ cp < 0 \/ cp > 1114111 -> <<>>
      [] start + 4 <= end /\ cp \in 0 .. 127 -> <<cp>>
      [] start + 4 <= end /\ cp \in 128 .. 2047 -> <<192 + (cp \div 64), Continuation(0)>>
      [] start + 4 <= end /\ cp \in 2048 .. 65535 -> <<224 + (cp \div 4096), Continuation(1), Continuation(0)>>
      [] start + 4 <= end /\ cp \in 65536 .. 1114111 ->
           <<240 + (cp \div 262144), Continuation(2), Continuation(1), Continuation(0)>>

(***************************************************************************)
(* One escape, at the backslash at i (counted from 0) of the input: what   *)
(* it takes and what it writes at j of an output of one byte more than the *)
(* input.                                                                  *)
(***************************************************************************)
Took(n, bytes) == [takes |-> n, writes |-> bytes]

OctalEscape(input, i) ==
    LET n == Max({k \in 1 .. 3 : i + 1 + k <= Len(input) /\ \A d \in 1 .. k : isdigit(input[i + 1 + d])})
    IN  Took(n + 1, <<AsChar(octal_to_int(SubSeq(input, i + 2, i + 1 + n)))>>)

HexEscape(input, i) ==
    LET n == IF isxdigit(input[i + 4]) THEN 2 ELSE 1 IN
    Took(n + 2, <<AsChar(hex_to_int(SubSeq(input, i + 3, i + 2 + n)))>>)

UnicodeEscape(input, i, j, is_unicode) ==
    Took(6, IF is_unicode
            THEN rbs_utf8_fill_codepoint(j, Len(input) + 1, hex_to_int(SubSeq(input, i + 3, i + 6)))
            ELSE SubSeq(input, i + 1, i + 6))

DoubleQuoted(input, i, j, is_unicode) ==
    LET b == input[i + 2]
        k == Escape(b)
    IN  CASE isdigit(b) -> OctalEscape(input, i)
          [] b = Lower_x /\ i + 3 < Len(input) -> HexEscape(input, i)
          [] b = Lower_u /\ i + 5 < Len(input) -> UnicodeEscape(input, i, j, is_unicode)
          [] OTHER -> IF k # 0 THEN Took(2, <<Escapes[k][2]>>) ELSE Took(1, <<0>>)

SingleQuoted(input, i) ==
    LET b == input[i + 2] IN
    IF b \in {SingleQuote, Backslash} THEN Took(2, <<b>>) ELSE Took(1, <<Backslash>>)

RECURSIVE UnescapeFrom(_, _, _, _, _)
UnescapeFrom(input, i, output, is_double_quote, is_unicode) ==
    LET step == CASE input[i + 1] # Backslash \/ i + 1 = Len(input) -> Took(1, <<input[i + 1]>>)
                  [] input[i + 1] = Backslash /\ i + 1 < Len(input) ->
                       IF is_double_quote THEN DoubleQuoted(input, i, Len(output), is_unicode)
                       ELSE SingleQuoted(input, i)
    IN  IF i >= Len(input) THEN output
        ELSE UnescapeFrom(input, i + step.takes, output \o step.writes, is_double_quote, is_unicode)

unescape_string(string, is_double_quote, is_unicode) == UnescapeFrom(string, 0, <<>>, is_double_quote, is_unicode)

rbs_unquote_string(input, is_unicode) ==
    LET quoted == input[1] \in {DoubleQuote, SingleQuote, Backquote} IN
    unescape_string(IF quoted THEN SubSeq(input, 2, Len(input) - 1) ELSE input, input[1] = DoubleQuote, is_unicode)

rbs_string_strip_whitespace(text) ==
    LET kept == {i \in DOMAIN text : ~isspace(text[i])} IN
    IF kept = {} THEN <<>> ELSE SubSeq(text, Min(kept), Max(kept))

=============================================================================
