----------------------------- MODULE RubyValues -----------------------------
(***************************************************************************)
(* The Ruby values a tree becomes, for the two translators that build      *)
(* them.  The Ruby interpreter is not part of the repository: these are    *)
(* the operations of it that the translators call.                         *)
(***************************************************************************)
EXTENDS Integers, Sequences, SequencesExt

RNil == [is |-> "nil"]
RBool(b) == [is |-> "bool", value |-> b]
RString(text, encoding) == [is |-> "string", text |-> text, encoding |-> encoding]
RSymbol(text, encoding) == [is |-> "symbol", text |-> text, encoding |-> encoding]
\* a symbol the translators name themselves, such as :public
RName(name) == [is |-> "symbol", name |-> name]

\* an exception, which is what comes of everything it is raised in the middle of
RError(error) == [is |-> "error", error |-> error]
IsError(value) == "is" \in DOMAIN value /\ value.is = "error"
Unless(parts, whole) ==
    LET raising == {i \in DOMAIN parts : IsError(parts[i])}
    IN  IF raising = {} THEN whole ELSE parts[CHOOSE i \in raising : TRUE]

RArray(values) == Unless(values, [is |-> "array", values |-> values])
RObject(class, kwargs) == Unless(kwargs, [is |-> "object", class |-> class, kwargs |-> kwargs])
RFlyweight(class, key) == [is |-> "flyweight", class |-> class, key |-> key]

\* String#to_i of the bytes of an integer literal
Minus == 45
IsDigit(byte) == byte \in 48 .. 57
ToI(text) ==
    LET abs == FoldLeft(LAMBDA n, d : 10 * n + d - 48, 0, SelectSeq(text, IsDigit)) IN
    [is |-> "integer", value |-> IF text[1] = Minus THEN -abs ELSE abs]

\* Hash#[]=: a key that is set again keeps its place
RHash(pairs) == [is |-> "hash", pairs |-> pairs]
RubyAset(pairs, key, value) ==
    LET i == SelectInSeq(pairs, LAMBDA pair : pair[1] = key) IN
    IF i = 0 THEN Append(pairs, <<key, value>>) ELSE [pairs EXCEPT ![i][2] = value]

\* RBS::AST::TypeParam.resolve_variables replaces the parameters in place
ResolveVariables(value) ==
    IF value.is = "array" THEN [value EXCEPT !.values = [i \in DOMAIN @ |-> [resolved |-> @[i]]]] ELSE value

=============================================================================
