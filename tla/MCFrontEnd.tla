------------------------------ MODULE MCFrontEnd ------------------------------
(***************************************************************************)
(* Calls for FrontEndProperties: programs that use every production of the *)
(* grammar, all their beginnings and ends, small arrangements of lines and *)
(* of characters, the encodings, and the ranges and options a caller may   *)
(* pass.                                                                   *)
(***************************************************************************)
EXTENDS FrontEndProperties

Call(entry, content) ==
    [entry |-> entry, content |-> content, encoding |-> Ascii("UTF-8"), start_pos |-> 0, end_pos |-> Len(content),
     variables |-> [given |-> FALSE, names |-> <<>>], require_eof |-> FALSE,
     allowed |-> {"void", "self", "classish"}, module_type_params |-> TRUE]
Calling(entry, texts) == {Call(entry, text) : text \in texts}
Beginnings(calls) == UNION {{[c EXCEPT !.end_pos = n] : n \in 0..Len(c.content)} : c \in calls}
Endings(calls) == UNION {{[c EXCEPT !.start_pos = n] : n \in 0..Len(c.content)} : c \in calls}
Without(text, i) == SubSeq(text, 1, i - 1) \o SubSeq(text, i + 1, Len(text))
Damaged(calls) ==
    UNION {{[c EXCEPT !.content = Without(@, i), !.end_pos = @ - 1] : i \in DOMAIN c.content} : c \in calls}
Given(calls, names) ==
    {[c EXCEPT !.variables = [given |-> TRUE, names |-> names]] : c \in calls}
In(calls, encodings) == {[c EXCEPT !.encoding = Ascii(e)] : c \in calls, e \in encodings}

(***************************************************************************)
(* Signatures.                                                             *)
(***************************************************************************)
Uses == Ascii("use Foo::Bar, A::*, ::X as Y, x as y\nuse A::_I as _J")
Classes ==
    Ascii("# hi\nclass ::Foo[unchecked out T < Bar, in U = T?] < ::A::B[T] # hi\n  # line\n  # l2\n  ") \o
    Ascii("def self?.foo=: (?Integer a, *untyped) -> \"a\\n\\x41\\u3042\" | %a{x} [X < T] (X) { (self) -> void } -> T | ...\n")
    \o Ascii(" attr_reader self.x (@y): T\n attr_writer z (): U\n private attr_accessor w: T\nend")
Modules ==
    Ascii("module M[T > U] : _A, B[T]\n  %a{ foo } %a(b)\n include X[T]\n extend Y\n prepend P[T]\n alias self.a self.b\n") \o
    Ascii(" alias c d\n @x: T\n @@y: T\n self.@z: T\n private\n public\n public def foo: (Integer, ?String, *T, A, a: B, ?c: D, **E) ") \o
    Ascii("?{ (?) [self: X] -> void } -> instance\nend")
Nested ==
    Ascii("class A[T]\n class B\n  def x: () -> T\n end\n def y: () -> T\n interface _F[S]\n  # c\n  def z: [T] (T, S) -> void\n end\n") \o
    Ascii(" type t[U] = T | U\n X: T\n module M = B\n class C = ::D\n $g: T\n include _I[T]\n class T\n end\nend")
MethodNames ==
    Ascii("class A\n def self?: () -> void\n def foo?: -> bool\n def +: (?) -> self\n def class: () -> class\n def []=: () -> void\n def x!: () -> nil") \o
    Ascii("\n def self.**: () -> void\n def nil?: () -> void\n alias == eql?\nend")
Quoted == Ascii("class A\n def ") \o <<Tick>> \o Ascii("a b") \o <<Tick>> \o Ascii(": () -> void\nend")
Duplicates == Ascii("class A\n def f: (a: A, ?a: A) -> void\n def g: (A a, A a) -> void\nend")
Interfaces == Ascii("%a{x}\ninterface _A[out T]\n  # d\n  %a[y]\n  def a: () { (T) -> void } -> T | (String) ?{ () -> bool } -> untyped\n alias b a\n include _B\nend")
Constants == Ascii("# a\nFoo::Bar: singleton(::A)[B]\n$x: Integer\n# b\n%a|z|\ntype t[T = String] = T\n# c\n\nA: A\n")

Signatures == {Uses, Ascii("use *"), Classes, Modules, Nested, MethodNames, Quoted, Duplicates, Interfaces, Constants}
Cut == {Ascii("# a\nclass A[T] < B\n %a{x} def self.f: (T t) -> T?\nend"), Ascii("type t[T] = T | [A]")}

(***************************************************************************)
(* Types, method types, type parameters and inline annotations.            *)
(***************************************************************************)
Types ==
    {Ascii(s) : s \in
       {"", "T", "::T", "A::T", "T[T]", "Integer?", "(A)", "void", "self", "instance", "class", "nil", "top?", "bot", "bool",
        "untyped", "__todo__", "true | false", "A | B & C?", "[A, B]", "[ ]", "{ a: T, ?b: T, 1 => T, \"c\" => T, :d => T }",
        "{ }", "{ a!: T, if?: T, A: T }", "^() -> void", "^(T) { (A) -> B } -> T", "^(?) -> void", "^() [self: T] -> void",
        "^(a, ?b c, *d, e) -> void", "^(a: A, ?b: B, **C) -> void", "^(A a, a: B) -> void", "(A", "A |", "^(a: A, a: B) -> T",
        ":foo", ":\"a b\"", ":'c'", "\"a\\n\\0\\u3042\"", "'a\\''", "-12", "+1_000", "singleton(::A)", "singleton(A)[T]", "t", "t[T]",
        "_I[T]", "a::t", "A ::B", "A:: B", "T T", "%a{x}", "@a", "$", "[A,", "{ a: A, a: B }", "{ a: ", "A::t[A::_I]"}}
MethodTypes ==
    {Ascii(s) : s \in
       {"", "() -> void", "[T] (T) -> T", "[T < A, U > T] (T, U) { (T) -> U } -> [T, U]", "(?) -> T", "-> A", "[] () -> void",
        "(A) { -> void } -> void", "{ () [self: A] -> B } -> C", "(*A, **B) -> void", "(a: A, b: B) ?{ (?) -> A } -> void",
        "() -> void extra", "(...) -> void", "[T, T] (T) -> void", "(A) -> ", "%a{x} () -> void", "(T, ?A, B c, *D e, F) -> G"}}
TypeParams ==
    {Ascii(s) : s \in
       {"", "[T]", "[unchecked in T < T, out S = T]", "[T > A < B, U < T]", "[T < singleton(A)]", "[A = B, C]", "[in T] x", "[",
        "[]", "T", "[unchecked T, T]"}}
Leading ==
    {Ascii(s) : s \in
       {": () -> T", ": %a{x} [S] (S) -> T", "@rbs () -> void | %a{y} (T) -> T", "@rbs ...", "@rbs () -> void | ...", "@rbs skip -- x",
        "@rbs return: T -- r", "@rbs @a: T -- i", "@rbs a: T", "@rbs skip: T", "@rbs *: T", "@rbs *a: T -- s", "@rbs **b: T",
        "@rbs &: () -> T", "@rbs &b: ? (T) -> void -- b", "@rbs module-self: A[T, void] -- m", "@rbs module-self: _A", "@rbs", "@rbs class: T",
        "@rbs (", "x", "@rbs return T", "@rbs a: T extra", ""}}
Trailing ==
    {Ascii(s) : s \in
       {": T", ": class-alias", ": class-alias ::A::B", ": module-alias A", "[T]", "[A, self, T]", "[]", "[A", ": A B", ": ", "x", ""}}

Parts ==
    Given(Calling("type", Types), <<Ascii("T")>>) \cup Given(Calling("method_type", MethodTypes), <<Ascii("T"), Ascii("A")>>)
    \cup Calling("method_type", MethodTypes) \cup Given(Calling("leading", Leading), <<Ascii("T")>>)
    \cup Given(Calling("trailing", Trailing), <<>>)
    \cup {[c EXCEPT !.module_type_params = b] : c \in Calling("type_params", TypeParams), b \in BOOLEAN}
    \cup {[c EXCEPT !.require_eof = TRUE, !.allowed = a] :
            c \in Calling("type", Types), a \in {{}, {"void"}, {"self"}, {"classish"}}}
    \cup {[c EXCEPT !.require_eof = TRUE] : c \in Calling("method_type", MethodTypes)}

(***************************************************************************)
(* Lines, and single characters.                                           *)
(***************************************************************************)
Lines == {<<>>, Ascii("# a"), Ascii(" #"), Ascii("A: A # b"), Ascii("%a{x}"), Ascii("type t =")}
Arranged ==
    {w \o <<Newline>> \o x \o <<Newline>> \o y \o <<Newline>> \o z : w, x, y, z \in Lines}

Characters == ToSet(Ascii("aA_0@:$\"'\\%{}#-=![]>. \n")) \cup {Tick, Return, 195, 128}
Strings(n) == [1..n -> Characters]
Short == Strings(2)
Mixtures ==
    {Ascii("a --b\nc"),
     Ascii("\"b\\x1\" $~ :[]= %a{\n} ") \o <<Tick>> \o Ascii("a\n") \o <<Tick>> \o Ascii("x # c") \o <<Return, Return, Newline>>
     \o Ascii("# d") \o <<195, Return, Newline, 195, 168, 195, 33, 0, 65>>}

(***************************************************************************)
(* Encodings, and ranges.                                                  *)
(***************************************************************************)
Bytes == [i \in 1..256 |-> IF i = 256 THEN 0 ELSE i]
Above == <<194, 162, 226, 130, 172, 240, 144, 141, 136, 237, 160, 129, 237, 176, 128, 142, 161, 161, 161, 163, 193, 130, 96, 143, 161, 161,
           156, 240, 160, 160, 157, 245, 160, 160, 145, 160, 160, 154, 224, 160, 129, 48, 129, 48, 129, 65, 161, 64, 252, 64, 196, 128>>
Named == {"utf-8-hfs", "Utf-8", "ISO-2022-JP", "sjis", "646", "cp65001"} \cup DOMAIN rbs_encodings
Encoded ==
    In({[Call("type", b) EXCEPT !.start_pos = 0, !.end_pos = 0] : b \in {Bytes, Above}}, Named)
    \cup In({Call("lex", Above)}, {e \in DOMAIN rbs_encodings : rbs_encodings[e].char_width # "single"} \cup {"ISO-8859-1"})
    \cup In({[Call("type", Above) EXCEPT !.start_pos = s] : s \in 1..Len(Above)}, {"UTF-8", "CESU-8", "EUC-TW", "GB18030"})
    \cup In(Calling("type", {Ascii(":\"") \o <<193, 194, 162>> \o Ascii("\""), Ascii("\"") \o <<161, 92, 110>> \o Ascii("\"")}),
            {"UTF-8", "Shift_JIS", "EUC-JP", "US-ASCII"})

Ranges ==
    {[Call(e, Ascii("# a\n # b\nT")) EXCEPT !.start_pos = s, !.end_pos = t] : e \in {"type", "signature"}, s \in -1..11, t \in -1..12}
    \cup {[Call("lex", Ascii("T")) EXCEPT !.end_pos = t] : t \in -1..2}

MCCalls ==
    Calling("signature", Signatures \cup Arranged) \cup Beginnings(Calling("signature", Cut)) \cup Endings(Calling("signature", Cut))
    \cup Damaged(Calling("signature", Cut)) \cup Parts \cup Calling("lex", Short \cup Mixtures) \cup Encoded \cup Ranges

\* the calls of AnswersAgree
WildcardCalls == Beginnings(Calling("signature", {Ascii("use A::*, *")}))

MCGarbage == {<<0, 0>>, <<7, 3>>}

\* the first ranges of each list
alpha_codepoints == <<256, 705, 710, 721, 736, 740, 748, 748>>
alnum_codepoints == <<256, 705, 710, 721, 736, 740, 748, 748>>
isupper_codepoints == <<256, 256, 258, 258, 260, 260, 262, 262>>
=============================================================================
