------------------------------ MODULE MCHierarchy ------------------------------
(* Environments with the core classes and a few others, that go wrong in    *)
(* every way, and what is asked of them one after the other.                *)
EXTENDS TypeAliases, TLC

Ref(name, args) == [name |-> name, args |-> args]
Plain(name) == Ref(<<name>>, <<>>)
Param(name) == [name |-> name, default |-> <<>>]
Optional(name, default) == [name |-> name, default |-> <<default>>]

Mixin(kind, name, args) == [kind |-> kind, name |-> <<name>>, args |-> args]
Include(name) == Mixin("include", name, <<>>)
Prepend(name) == Mixin("prepend", name, <<>>)
Extend(name) == Mixin("extend", name, <<>>)

\* A declaration, in RBS or in Ruby.
Decl(params, super, self_types, mixins) ==
  [language |-> "rbs", params |-> params, super |-> super, self_types |-> self_types, mixins |-> mixins]
InRuby(decl) == [decl EXCEPT !.language = "ruby"]

Opened(kind, decls) == [kind |-> kind, decls |-> decls]
ClassOf(super, mixins) == Opened("class", <<Decl(<<>>, super, <<>>, mixins)>>)
ModuleOf(self_types, mixins) == Opened("module", <<Decl(<<>>, <<>>, self_types, mixins)>>)
Empty == ModuleOf(<<>>, <<>>)

\* class BasicObject; class Object < BasicObject (with Kernel); module Kernel : BasicObject;
\* class Module < Object; class Class < Module
Core ==
  BasicObject :> ClassOf(<<>>, <<>>) @@ Object :> ClassOf(<<Plain("BasicObject")>>, <<Include("Kernel")>>)
    @@ <<"Kernel">> :> ModuleOf(<<Plain("BasicObject")>>, <<>>)
    @@ Module :> ClassOf(<<>>, <<>>) @@ Class :> ClassOf(<<Plain("Module")>>, <<>>)

Environment(classes, aliases, interfaces, constants) ==
  [class_decls |-> classes @@ Core, class_alias_decls |-> aliases, interface_decls |-> interfaces,
   constant_decls |-> constants, type_alias_decls |-> <<>>]
Case(environment, calls) == [program |-> environment, requests |-> calls]

Ask(op, name) == [op |-> op, name |-> <<name>>]
Instance(name) == Ask("instance_ancestors", name)
Singleton(name) == Ask("singleton_ancestors", name)
Interface(name) == Ask("interface_ancestors", name)

-----------------------------------------------------------------------------
(* Who is above whom.  class C = A, module P = M                            *)

Aliasing == <<"C">> :> <<"A">> @@ <<"P">> :> <<"M">>
NoParams(mixins) == [params |-> <<>>, mixins |-> mixins]
Interfaces == <<"_I">> :> NoParams(<<>>)

Shape(a, b, m, n) ==
  Environment(<<"A">> :> a @@ <<"B">> :> b @@ <<"M">> :> m @@ <<"N">> :> n, Aliasing, Interfaces, {})

Supers == {<<>>, <<Plain("BasicObject")>>, <<Plain("B")>>, <<Plain("C")>>, <<Plain("M")>>, <<Plain("Missing")>>}
OfInterfaces == {<<Include("_I"), Extend("N")>>, <<Include("_J")>>, <<Prepend("_I")>>}
MixinsOfA ==
  {<<>>, <<Include("M")>>, <<Prepend("M"), Prepend("N")>>, <<Extend("M"), Extend("N")>>,
   <<Include("N"), Prepend("M"), Extend("N"), Include("P")>>, <<Include("B")>>, <<Prepend("Missing")>>,
   <<Include("C")>>, <<Extend("C")>>} \cup OfInterfaces
ShapesOfA ==
  {Shape(a, b, m, Empty) :
     a \in {ClassOf(s, x) : s \in Supers, x \in MixinsOfA}
             \cup {Opened("class", <<InRuby(Decl(<<>>, s, <<>>, x))>>) : s \in Supers, x \in MixinsOfA \ OfInterfaces},
     b \in {ClassOf(<<>>, <<>>), ClassOf(<<Plain("A")>>, <<Include("M")>>)},
     m \in {Empty, ModuleOf(<<>>, <<Include("N")>>)}}
ShapesOfM ==
  {Shape(ClassOf(s, x), ClassOf(<<Plain("A")>>, <<>>), m, n) :
     s \in {<<>>, <<Plain("B")>>}, x \in {<<>>, <<Include("M")>>, <<Prepend("N"), Extend("M")>>},
     m \in {ModuleOf(<<>>, <<Prepend("N")>>)}
             \cup {ModuleOf(<<Plain(t)>>, <<Include("N")>>) : t \in {"A", "C", "N", "_I", "_J", "Missing"}},
     n \in {Empty, ModuleOf(<<>>, <<Include("M")>>), ModuleOf(<<Plain("P"), Plain("A")>>, <<>>)}}
\* class BasicObject, opened again with super classes that are or are not the same
ShapesOfBasicObject ==
  {Environment(BasicObject :> Opened("class", <<Decl(<<>>, s, <<>>, <<>>), Decl(<<>>, t, <<>>, <<>>)>>),
               <<>>, Interfaces, {}) : s, t \in {<<>>, <<Plain("Object")>>, <<Plain("Missing")>>}}
WhoIsAbove ==
  {Case(e, <<Instance("Object"), Singleton("BasicObject"), Instance("BasicObject")>>) : e \in ShapesOfBasicObject} \cup
  {Case(e, r) : e \in ShapesOfA \cup ShapesOfM,
     r \in {<<Instance("A"), Singleton("B"), Instance("M"), Instance("B")>>,
            <<Singleton("A"), Instance("B"), Singleton("M"), Singleton("B")>>,
            <<Instance("N"), Instance("M"), Instance("B"), Instance("A")>>}}

-----------------------------------------------------------------------------
(* Arguments.  class A[T] is opened again as A[S].                           *)

Generic(a, b, m, i) ==
  Environment(<<"A">> :> a @@ <<"B">> :> b @@ <<"M">> :> m, <<>>, i, {})
Twice(super1, mixins1, super2, mixins2) ==
  Opened("class", <<Decl(<<Param("T"), Param("U")>>, super1, <<>>, mixins1),
                    Decl(<<Param("U"), Param("T")>>, super2, <<>>, mixins2)>>)
SuperB(args) == <<Ref(<<"B">>, args)>>
ParamsOfB == {<<Param("T")>>, <<Param("X"), Optional("T", "X")>>, <<Optional("T", "String"), Optional("X", "T")>>}
Arguments ==
  {Case(Generic(Twice(s1, x, s2, y),
                Opened("class", <<Decl(p, <<>>, <<>>, <<Mixin("include", "M", <<"T">>)>>)>>),
                Opened("module", <<Decl(<<Param("U"), Optional("X", "U")>>, <<>>, <<Ref(<<"_I">>, z)>>, <<>>)>>),
                <<"_I">> :> [params |-> <<Param("T")>>, mixins |-> <<Mixin("include", "_J", z)>>]
                  @@ <<"_J">> :> [params |-> <<Param("S"), Optional("T", "S")>>,
                                  mixins |-> IF Len(z) = 2 THEN <<Mixin("include", "_I", <<"S">>)>> ELSE <<>>]),
        <<Instance("A"), Instance("M"), Singleton("A"), Interface("_J"), Interface("_I"), Instance("A")>>) :
     s1 \in {<<>>, SuperB(<<>>), SuperB(<<"T">>), SuperB(<<"U", "T">>)},
     s2 \in {<<>>, SuperB(<<"U">>)},
     x \in {<<>>, <<Mixin("prepend", "M", <<"U">>)>>},
     y \in {<<>>, <<Mixin("include", "M", <<"T", "U">>), Mixin("extend", "M", <<>>)>>},
     p \in ParamsOfB,
     z \in {<<"T">>, <<"T", "Int">>}}
MoreInterfaces ==
  {Case(Environment(<<"M">> :> Empty, <<>>, <<"_I">> :> NoParams(<<Mixin("include", n, <<>>)>>), {}),
        <<Interface("_I"), Interface("_J"), Instance("Missing")>>) : n \in {"_I", "_J", "M"}}

-----------------------------------------------------------------------------
(* Constants.                                                               *)

Nested(a, b, ab, constants) ==
  Environment(<<"A">> :> a @@ <<"B">> :> b @@ <<"M">> :> Empty @@ <<"N">> :> ModuleOf(<<>>, <<Include("M")>>)
                @@ <<"A", "B">> :> ab,
              <<"C">> :> <<"A">> @@ <<"C", "D">> :> <<"A", "B">> @@ <<"M", "A">> :> <<"N">>,
              <<>>, {<<"X">>, <<"Y">>} \cup constants)
\* class Object, with a module that is prepended and has constants, and a module inside
WithinObject ==
  [Nested(ClassOf(<<>>, <<>>), ClassOf(<<Plain("BasicObject")>>, <<>>), Empty,
          {<<"Object", "X">>, <<"M", "X">>, <<"Object", "B">>}) EXCEPT
     !.class_decls = Object :> ClassOf(<<Plain("BasicObject")>>, <<Prepend("N")>>)
                       @@ <<"N">> :> ModuleOf(<<Plain("BasicObject")>>, <<Include("M")>>)
                       @@ <<"M">> :> ModuleOf(<<Plain("BasicObject")>>, <<>>) @@ <<"Object", "A">> :> Empty @@ @]
ABelowB == <<Include("M"), Prepend("N")>>
Environments ==
  {Nested(a, ClassOf(s, <<>>), ab, k) :
     a \in {ClassOf(<<Plain("B")>>, ABelowB), Opened("class", <<InRuby(Decl(<<>>, <<Plain("B")>>, <<>>, ABelowB))>>)},
     s \in {<<>>, <<Plain("BasicObject")>>},
     ab \in {Empty, ClassOf(<<>>, <<Include("M")>>)},
     k \in {{<<"Object", "X">>, <<"M", "X">>, <<"N", "Y">>},
            {<<"B", "X">>, <<"Object", "Z">>, <<"A", "B", "X">>, <<"A", "X">>, <<"M", "Z">>}}}
    \cup {Nested(ClassOf(<<Plain("C")>>, <<>>), ClassOf(<<>>, <<>>), Empty, {})}
    \cup {WithinObject}

A0 == <<"A">>
AB == <<"A", "B">>
Contexts ==
  {<<>>, <<A0>>, <<A0, AB>>, <<NoModule, AB>>, <<A0, NoModule>>, <<<<"C">>, AB>>, <<Object>>, <<Object, <<"M">>>>,
   <<<<"M">>, <<"B">>>>, <<Object, <<"B">>>>, <<<<"C", "D">>>>,
   <<<<"Object", "A">>>>, <<<<"B">>, <<"Object", "A">>>>, <<<<"C">>>>, <<<<"Missing">>>>, <<<<"Missing">>, A0>>}
Questions ==
  {[op |-> "constants", context |-> c] : c \in Contexts}
    \cup {[op |-> "children", name |-> n] : n \in {A0, AB, <<"C">>, Object, <<"N">>, <<"X">>}}
    \cup {Instance("A")}
Again == [op |-> "constants", context |-> <<A0>>]
Under(name) == [op |-> "children", name |-> name]
WhatIsSeen == {Case(e, <<q, r, Under(Object)>>) : e \in Environments, q \in Questions, r \in {Again, Under(A0)}}
                \cup {Case(e, <<Under(Object), Again, q>>) : e \in Environments, q \in Questions}

-----------------------------------------------------------------------------
(* Type aliases a[T], b[S] and c.                                           *)

VarOf(name) == Variable(name)
AliasA(arg) == Alias("a", <<arg>>)
AliasB(arg) == Alias("b", <<arg>>)
AliasC == Alias("c", <<>>)
Union(types) == Type("union", "", types)
Tuple(types) == Type("other", "", types)
Integer == Type("other", "Integer", <<>>)

TypesOf(v) ==
  {Integer, v, AliasC, AliasB(Integer), Union(<<AliasA(v), AliasB(v)>>), Tuple(<<AliasB(v), AliasC>>),
   Union(<<Tuple(<<AliasB(Tuple(<<v>>))>>), AliasC>>), Tuple(<<AliasA(UntypedType), AliasA(Integer)>>),
   Tuple(<<AliasB(AliasA(v))>>), Union(<<v, Tuple(<<AliasA(v), AliasB(v)>>)>>)}
Recursions ==
  {Case([Environment(<<>>, <<>>, <<>>, {}) EXCEPT
           !.type_alias_decls = "a" :> [params |-> <<"T">>, type |-> x] @@ "b" :> [params |-> <<"S">>, type |-> y]
                                  @@ "c" :> [params |-> <<>>, type |-> z]],
        <<[op |-> "circular"], [op |-> "regular"]>>) :
     x \in TypesOf(VarOf("T")), y \in TypesOf(VarOf("S")),
     z \in {Integer, AliasC, AliasB(Integer), Tuple(<<AliasC, AliasA(Integer)>>), Union(<<AliasA(Integer), Integer>>)}}

AllCases == WhoIsAbove \cup Arguments \cup MoreInterfaces \cup WhatIsSeen \cup Recursions
=============================================================================
