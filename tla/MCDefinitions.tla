----------------------------- MODULE MCDefinitions -----------------------------
(* Classes A < B, modules M and N and interfaces _I and _J, whose members   *)
(* are taken from small pools, and what is built from them, one after the   *)
(* other.                                                                   *)
EXTENDS Definitions

Ref(name, args) == [name |-> <<name>>, args |-> args]
Plain(name) == Ref(name, <<>>)
Param(name) == [name |-> name, default |-> <<>>]
Params(names) == [i \in DOMAIN names |-> Param(names[i])]
Mixin(kind, name, args) == [kind |-> kind, name |-> <<name>>, args |-> args]
Include(name) == Mixin("include", name, <<>>)
Prepend(name) == Mixin("prepend", name, <<>>)
Extend(name) == Mixin("extend", name, <<>>)

-----------------------------------------------------------------------------
(* Members.                                                                 *)

MT(params, arg, return) == [params |-> params, arg |-> arg, return |-> return]
To(return) == MT(<<>>, "none", return)
Member(is, language, kind, name, types, overloading, visibility) ==
  [is |-> is, language |-> language, kind |-> kind, name |-> name, overloads |-> types,
   overloading |-> overloading, visibility |-> visibility, annotated |-> TRUE]
Def(name, type) == Member("def", "rbs", "instance", name, <<type>>, FALSE, "nil")
More(name, type) == Member("def", "rbs", "instance", name, <<type>>, TRUE, "nil")
InClass(member) == [member EXCEPT !.kind = "singleton"]
Both(member) == [member EXCEPT !.kind = "singleton_instance"]
Hidden(member) == [member EXCEPT !.visibility = "private"]
InRuby(member) == [member EXCEPT !.language = "ruby"]
\* def foo = ... without a type
Bare(name) == [InRuby(Def(name, To("untyped"))) EXCEPT !.annotated = FALSE]
Alias(new, old) == [is |-> "alias", language |-> "rbs", kind |-> "instance", new_name |-> new, old_name |-> old]
Attr(is, name, type, ivar_name) ==
  [is |-> is, language |-> "rbs", kind |-> "instance", names |-> <<name>>, type |-> type, ivar_name |-> ivar_name,
   visibility |-> "nil"]
Variable(is, name, type) == [is |-> is, language |-> "rbs", name |-> name, type |-> type]
Mark(is) == [is |-> is]

-----------------------------------------------------------------------------
(* Declarations.                                                            *)

Decl(params, super, self_types, mixins, members) ==
  [language |-> "rbs", params |-> params, super |-> super, self_types |-> self_types, mixins |-> mixins, members |-> members]
OfRuby(decl) == [decl EXCEPT !.language = "ruby"]
Opened(kind, decls) == [kind |-> kind, decls |-> decls]
ClassOf(super, mixins, members) == Opened("class", <<Decl(<<>>, super, <<>>, mixins, members)>>)
ModuleOf(self_types, mixins, members) == Opened("module", <<Decl(<<>>, <<>>, self_types, mixins, members)>>)
InterfaceOf(params, mixins, members) == [params |-> params, mixins |-> mixins, members |-> members]

\* class BasicObject (with initialize); class Object < BasicObject; class Module < Object;
\* class Class < Module (with new)
Core ==
  BasicObject :> ClassOf(<<>>, <<>>, <<Def("initialize", To("void"))>>)
    @@ Object :> ClassOf(<<Plain("BasicObject")>>, <<>>, <<>>)
    @@ Module :> ClassOf(<<>>, <<>>, <<>>)
    @@ Class :> ClassOf(<<Plain("Module")>>, <<>>, <<Def("new", MT(<<>>, "untyped", "untyped"))>>)

NoMembers == InterfaceOf(<<>>, <<>>, <<>>)
Environment(a, b, m, n, i, j) ==
  [class_decls |-> <<"A">> :> a @@ <<"B">> :> b @@ <<"M">> :> m @@ <<"N">> :> n @@ Core,
   class_alias_decls |-> <<"C">> :> <<"A">>,
   interface_decls |-> <<"_I">> :> i @@ <<"_J">> :> j]
EmptyModule == ModuleOf(<<>>, <<>>, <<>>)
EmptyClass == ClassOf(<<>>, <<>>, <<>>)

Ask(op, name) == [op |-> op, name |-> <<name>>]
Instance(name) == Ask("instance", name)
Singleton(name) == Ask("singleton", name)
Interface(name) == Ask("interface", name)
Changed(name, environment) == [op |-> "update", name |-> <<name>>, program |-> environment]
Case(environment, asked) == [program |-> environment, calls |-> asked]

-----------------------------------------------------------------------------
(* foo and bar, along the ancestors of A.                                   *)

Foo(type) == Def("foo", To(type))
SomeMembers(type) ==
  {<<>>, <<Foo(type)>>, <<More("foo", To(type))>>, <<Alias("foo", "bar")>>,
   <<Alias("foo", "bar"), Def("bar", To(type)), More("foo", To(type))>>,
   <<Mark("private"), Attr("attr_reader", "foo", type, "nil")>>, <<Alias("foo", "foo")>>}
InterfaceMembers == {<<>>, <<Hidden(Foo("I")), Alias("bar", "foo")>>, <<More("foo", To("I"))>>}
MixinsOfA ==
  {<<>>, <<Include("M"), Include("N")>>, <<Prepend("M"), Include("N")>>, <<Include("_I"), Prepend("M")>>,
   <<Include("_I"), Include("_J")>>, <<Extend("M"), Extend("_I")>>}
AlongAncestors ==
  {Case(Environment(ClassOf(<<Plain("B")>>, x, a), ClassOf(<<>>, <<Include("M")>>, <<Def("bar", To("B")), Foo("B")>>),
                    ModuleOf(<<>>, <<>>, m), ModuleOf(<<>>, <<Include("_J")>>, <<>>),
                    InterfaceOf(<<>>, <<>>, i), InterfaceOf(<<>>, <<>>, <<Foo("J")>>)), <<Instance("A")>>) :
     a \in SomeMembers("A") \cup {<<Bare("foo")>>, <<Both(Foo("A"))>>},
     m \in {<<>>, <<Foo("M")>>, <<More("foo", To("M"))>>, <<Alias("foo", "bar")>>}, x \in MixinsOfA, i \in InterfaceMembers}

-----------------------------------------------------------------------------
(* `new`, and its aliases, of classes with parameters.                      *)

Typed(params, arg) == Def("initialize", MT(params, arg, "void"))
Initializers == {<<>>, <<Typed(<<"T">>, "T")>>, <<Typed(<<"X">>, "self"), More("initialize", MT(<<>>, "T", "void"))>>}
Makers(type) ==
  {<<>>, <<InClass(Alias("make", "new"))>>, <<InClass(Alias("made", "make")), InClass(Alias("make", "new"))>>,
   <<InClass(Def("new", To(type)))>>, <<InClass(More("new", To(type))), InClass(Alias("make", "new"))>>,
   <<InClass(More("make", To(type)))>>, <<InClass(Def("make", To(type)))>>}
GenericClass(params, super, mixins, members) == Opened("class", <<Decl(Params(params), super, <<>>, mixins, members)>>)
NewCases ==
  {Case(Environment(GenericClass(p, <<Ref("B", <<"Int">>)>>, x, i \o y), GenericClass(<<"T">>, <<>>, <<>>, j \o z),
                    ModuleOf(<<>>, <<>>, <<Def("new", To("M")), Alias("make", "new")>>), EmptyModule, NoMembers, NoMembers),
        <<Singleton("A"), Singleton("B")>>) :
     p \in {<<>>, <<"T">>}, i \in Initializers, j \in Initializers \ {<<>>},
     x \in {<<>>, <<Extend("M")>>}, y \in Makers("A"),
     z \in {<<>>, <<InClass(Alias("make", "new"))>>, <<InClass(More("new", To("B"))), InClass(Alias("make", "new"))>>}}

-----------------------------------------------------------------------------
(* Arguments.  A[T, U] is opened again as A[U, T].                          *)

Bar(arg, return) == Def("bar", MT(<<"X">>, arg, return))
Twice(super, mixins1, members1, mixins2, members2) ==
  Opened("class", <<Decl(Params(<<"T", "U">>), super, <<>>, mixins1, members1),
                    Decl(Params(<<"U", "T">>), <<>>, <<>>, mixins2, members2)>>)
GenericModule(params, self_types, mixins, members) == Opened("module", <<Decl(params, <<>>, self_types, mixins, members)>>)
Optional(name, default) == [name |-> name, default |-> <<default>>]
OfN(args) == <<Mixin("include", "N", args)>>
ArgumentCases ==
  {Case(Environment(Twice(<<Ref("B", <<s>>)>>, <<Mixin("prepend", "M", <<"U">>)>>, <<Foo("T"), Variable("ivar", "@a", "U")>>,
                          x, <<More("bar", MT(<<"X">>, "T", "U")), Attr("attr_accessor", "baz", "T", "@a")>>),
                    GenericClass(<<"S">>, <<>>, <<Mixin("include", "_I", <<"S">>)>>, <<Foo("S"), Variable("ivar", "@a", "S")>>),
                    GenericModule(Params(<<"T">>), t, OfN(y), <<More("foo", To("T")), Variable("ivar", "@m", "T")>>),
                    GenericModule(<<Param(v), Optional("W", v)>>, <<>>, <<>>,
                                  <<Def("baz", MT(<<>>, v, "W")), Attr("attr_reader", "n", "W", "@n")>>),
                    InterfaceOf(Params(<<"S">>), <<>>, <<Bar("X", "S"), Alias("qux", "bar")>>), NoMembers),
        <<Instance("A"), Singleton("M"), Instance("M"), Interface("_I")>>) :
     s \in {"T", "Int"}, v \in {"T", "V"}, y \in {<<"T">>, <<"Int">>, <<"T", "Int">>},
     x \in {<<>>, OfN(<<"U", "T">>), <<Mixin("extend", "N", <<"Int">>), Mixin("include", "_I", <<"U">>)>>},
     t \in {<<>>, <<Ref("B", <<"Int">>)>>, <<Ref("_I", <<"Int">>), Ref("B", <<"T">>)>>}}

-----------------------------------------------------------------------------
(* What is wrong, or looks like it.                                         *)

AttrFoo == Attr("attr_accessor", "foo", "A", "false")
IVar(type) == Variable("ivar", "@a", type)
Suspicious ==
  {<<Foo("A"), Foo("B")>>, <<Foo("A"), AttrFoo>>, <<Foo("A"), Def("foo=", To("A")), Attr("attr_writer", "foo", "A", "nil")>>,
   <<Alias("foo", "bar"), Alias("bar", "foo")>>, <<Alias("foo", "bar"), Alias("bar", "baz"), Alias("baz", "foo")>>,
   <<Alias("foo", "qux")>>, <<Alias("qux", "qux")>>, <<More("qux", To("A"))>>, <<Alias("bar", "qux"), Def("qux", To("A"))>>,
   <<IVar("A"), IVar("B")>>, <<Attr("attr_reader", "a", "A", "nil"), IVar("A"), IVar("A")>>, <<IVar("A")>>,
   <<Attr("attr_reader", "a", "A", "nil"), IVar("A"), Attr("attr_reader", "b", "A", "@a")>>,
   <<Variable("civar", "@a", "A"), InClass(Attr("attr_reader", "a", "A", "nil")), Variable("civar", "@a", "A")>>,
   <<Variable("cvar", "@@a", "A"), Variable("cvar", "@@a", "B")>>,
   <<InClass(Foo("A")), InClass(Alias("foo", "bar"))>>}
InRubyCode ==
  {<<Bare("foo"), InClass(Bare("foo")), InRuby(Attr("attr_accessor", "a", "A", "nil")), InRuby(IVar("B"))>>,
   <<InRuby(IVar("A")), InRuby(IVar("A"))>>, <<Bare("foo"), InRuby(Attr("attr_reader", "foo", "A", "nil"))>>}
MixinsInFault ==
  {<<>>, <<Include("M")>>, <<Extend("M"), Include("_I")>>, <<Include("_I"), Include("_J")>>,
   <<Mixin("include", "N", <<"Missing">>)>>, <<Include("P")>>}
DeclsOfA ==
  {Decl(<<>>, <<Plain("B")>>, <<>>, x, a) : a \in Suspicious, x \in MixinsInFault}
    \cup {OfRuby(Decl(<<>>, <<Plain("B")>>, <<>>, <<Include("M")>>, a)) : a \in InRubyCode}
FaultCases ==
  {Case(Environment(Opened("class", <<d>>), ClassOf(<<>>, x, b),
                    ModuleOf(<<>>, <<>>, <<Foo("M"), IVar("M")>>), GenericModule(Params(<<"T">>), <<>>, <<>>, <<>>),
                    InterfaceOf(<<>>, <<>>, <<Def("bar", To("I"))>>),
                    InterfaceOf(<<>>, <<Include("_I")>>, <<Def("bar", To("J"))>>)), asked) :
     d \in DeclsOfA, <<b, x>> \in {<<<<>>, <<>>>>, <<<<>>, <<Include("M")>>>>, <<<<IVar("B")>>, <<Include("M")>>>>},
     asked \in {<<Instance("A"), Singleton("A")>>, <<Interface("_J"), Singleton("C"), Instance("N")>>}}

\* @a, in a class and its super class.
TwiceBelow ==
  {Case(Environment(ClassOf(<<Plain("B")>>, <<>>, a), ClassOf(<<>>, <<>>, b), EmptyModule, EmptyModule, NoMembers, NoMembers),
        <<Instance("A")>>) :
     a \in {<<IVar("A")>>, <<IVar("A"), IVar("B")>>}, b \in {<<>>, <<IVar("B")>>}}

-----------------------------------------------------------------------------
(* Declarations change, and what is built is asked for again.               *)

Version(a, b, m, n) == Environment(a, b, m, n, InterfaceOf(<<>>, <<>>, <<Foo("I")>>), NoMembers)
Before == Version(ClassOf(<<Plain("B")>>, <<Include("M"), Extend("_I")>>, <<More("foo", To("A"))>>), EmptyClass,
                  ModuleOf(<<>>, <<Include("N")>>, <<Foo("M")>>), EmptyModule)
Changes ==
  {Changed("N", Version(Before.class_decls[<<"A">>], EmptyClass, Before.class_decls[<<"M">>],
                        ModuleOf(<<Plain("_I")>>, <<>>, <<Foo("N")>>)))}
    \cup {Changed("M", Version(Before.class_decls[<<"A">>], EmptyClass, m, EmptyModule)) :
            m \in {EmptyModule, ModuleOf(<<Plain("A")>>, <<>>, <<Foo("N")>>), ModuleOf(<<>>, <<Include("_I")>>, <<>>)}}
    \cup {Changed("B", Version(Before.class_decls[<<"A">>], b, Before.class_decls[<<"M">>], EmptyModule)) :
            b \in {ClassOf(<<>>, <<Extend("M")>>, <<InClass(Alias("make", "new")), Typed(<<>>, "B")>>),
                   ClassOf(<<Plain("Missing")>>, <<>>, <<>>), ClassOf(<<>>, <<>>, <<Foo("B"), Foo("B")>>)}}
    \cup {Changed("_I", [Before EXCEPT !.interface_decls[<<"_I">>] = NoMembers])}
UpdateCases ==
  {Case(Before, asked \o <<change>> \o again) :
     change \in Changes,
     asked \in {<<Singleton("A")>>, <<Instance("A"), Interface("_I"), Singleton("N")>>},
     again \in {<<Singleton("A"), Instance("A")>>, <<Instance("M"), Interface("_I"), Instance("A")>>}}

AllCases == AlongAncestors \cup NewCases \cup ArgumentCases \cup FaultCases \cup UpdateCases
=============================================================================
