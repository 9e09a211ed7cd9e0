------------------------------ MODULE Definitions ------------------------------
(***************************************************************************)
(* The calls of a definition builder, and updates of its environment, one  *)
(* after the other; and what the definitions ought to be.                  *)
(*                                                                         *)
(* The reference does not build: it looks a method up.  The levels of a    *)
(* definition are the modules and interfaces its methods are from, the one *)
(* that is asked first in front.  A level has the arguments for its        *)
(* parameters, what implements its methods, and the number of interfaces   *)
(* behind it that are mixed in there.                                      *)
(***************************************************************************)
EXTENDS DefinitionBuilder

LOCAL INSTANCE SequencesExt
LOCAL INSTANCE FiniteSetsExt

CONSTANT Cases   \* environments, with the calls that are made: `program` and `calls`

vars == <<program, builderVars, definitionVars>>

Init ==
    /\ \E case \in Cases : program = case.program /\ calls = case.calls
    /\ DefinitionInit

\* Nothing more is called.
Rest == calls = <<>> /\ UNCHANGED vars

Next == DefinitionNext \/ Rest

Spec == Init /\ [][Next]_vars

-----------------------------------------------------------------------------
(* The levels.                                                             *)

RefLevel(side, name, args, implemented_in, mixed) ==
    [side |-> side, name |-> name, args |-> args, implemented_in |-> implemented_in, mixed |-> mixed]

With(ref, name, args) == [name |-> ref.name, args |-> Substituted(ref.args, NamesOf(ParamsOf(name)), args)]

RECURSIVE Including(_)
\* An interface, and those it includes, the last one first.
Including(ref) ==
    LET Along(all, r) == all \o Including(With(r, ref.name, ref.args))
    IN  FoldLeft(Along, <<ref>>, Reverse(InterfacesOf("interface", ref.name)))

\* A level, with the interfaces that are mixed in there behind it.
Behind(level, interfaces) ==
    LET Mixed(ref) == RefLevel("interface", ref.name, ref.args, Some(level.name), 0)
    IN  <<[level EXCEPT !.mixed = Len(interfaces)]>> \o [i \in DOMAIN interfaces |-> Mixed(interfaces[i])]

\* A module, with its interfaces, the last one first.
WithInterfaces(side, name, args) ==
    LET Along(all, ref) == all \o Including(With(ref, name, args))
    IN  Behind(RefLevel(side, name, args, Some(name), 0),
               Reverse(Uniq(FoldLeft(Along, <<>>, InterfacesOf(side, name)))))

\* An interface as a self type, or on its own, is no implementation.
InterfaceLevels(ref) == Behind(RefLevel("interface", ref.name, ref.args, None, 0), Tail(Including(ref)))

Mixing == {"include", "prepend", "extend"}

PartsOf(side, name) == IF side = "instance" THEN OneInstanceAncestors(name) ELSE OneSingletonAncestors(name)

RECURSIVE Levels(_, _, _, _)
AndPart(levels, p, side, ref, kinds) ==
    CASE p.kind = "itself" -> WithInterfaces(side, ref.name, ref.args) \o levels
      [] p.kind \in kinds ->
             Levels(IF p.method = "instance_ancestors" THEN "instance" ELSE "singleton", p.name,
                    With(p, ref.name, ref.args).args, Mixing \cup {"super"}) \o levels
      [] OTHER -> levels
\* The levels of a module along parts of some kinds.
Levels(side, name, args, kinds) ==
    FoldLeft(LAMBDA levels, p : AndPart(levels, p, side, [name |-> name, args |-> args], kinds), <<>>, PartsOf(side, name))

OwnArgs(name) == NamesOf(ParamsOf(name))

LevelsOfRef(side, ref, kinds) == IF IsInterface(ref.name) THEN InterfaceLevels(ref) ELSE Levels(side, ref.name, ref.args, kinds)

\* The self types of a module come last, without their super classes.
LevelsOf(side, name, args) ==
    LET From(s, ref, kinds) == [side |-> s, ref |-> ref, kinds |-> kinds]
        self == From(side, [name |-> name, args |-> args], Mixing \cup {"super"})
        self_types == IF side = "instance" THEN Reverse(SelfTypesOf(name)) ELSE <<>>
    IN  FoldLeft(LAMBDA levels, from : levels \o LevelsOfRef(from.side, from.ref, from.kinds), <<>>,
                 <<self>> \o [i \in DOMAIN self_types |-> From("instance", With(self_types[i], name, args), Mixing)])

-----------------------------------------------------------------------------
(* Looking up a method: the types it has and who can see it, and the same  *)
(* of what `super` is in there, and so on.                                 *)

DefnsOf(level) == Values(BuiltMethods(level.side, level.name))
NamesAt(level) == {d.name : d \in DefnsOf(level)}
DefnAt(level, name) == CHOOSE d \in DefnsOf(level) : d.name = name

\* A method is in one of the interfaces that are mixed in where the first level is.
IsMixedIn(levels, name) == \E i \in 2..(1 + levels[1].mixed) : name \in NamesAt(levels[i])

In(level, type) == TypeDef(type, Some(level.name), level.implemented_in)
Implemented(level, defs) == [i \in DOMAIN defs |-> [defs[i] EXCEPT !.implemented_in = level.implemented_in]]
\* Types that are written there, with the arguments.
Types(level, method_types) ==
    LET arguments == IF level.side = "singleton" THEN NoSubst ELSE Build(OwnArgs(level.name), level.args)
    IN  [i \in DOMAIN method_types |-> In(level, SubMethodType(method_types[i], arguments))]
\* Those of the `| ...` members, the last one first.
Added(level, overloads) == FoldLeft(LAMBDA defs, member : Types(level, member.overloads) \o defs, <<>>, overloads)

\* A method that has a definition here, where below is what is found below the level, and
\* named what an alias is of.
MethodAt(level, defn, original, below, named, is_mixed_in) ==
    LET name == defn.name
        Method_(defs, accessibility) == <<[defs |-> Added(level, defn.overloads) \o defs, accessibility |-> accessibility]>>
        is_written == original.is # "none" /\ (original.language = "ruby" /\ original.is = "def" => original.annotated \/ below = <<>>)
        written == IF original.is = "def" THEN Types(level, original.overloads)
                   ELSE Types(level, <<AttributeType(original, name, NoSubst)>>)
    IN  CASE original.is = "alias" ->
               Method_([i \in DOMAIN named[1].defs |-> In(level, named[1].defs[i].type)],
                       AccessibilityIn(original, name, named[1].accessibility)) \o below
          [] original.is = "none" ->
               Method_(Implemented(level, below[1].defs), below[1].accessibility)
                 \o (IF is_mixed_in THEN Tail(below) ELSE below)
          [] original.is \notin {"alias", "none"} /\ ~is_written ->
               Method_(Implemented(level, below[1].defs), "public") \o below
          [] OTHER ->
               Method_(written, IF original.language = "ruby" THEN "public"
                                ELSE AccessibilityIn(original, name, defn.accessibilities[1]))
                 \o (IF level.implemented_in = None THEN <<>> ELSE below)

RECURSIVE Lookup(_, _)
\* The first self type that has it.
LookupInSelfTypes(level, name) ==
    FoldLeft(LAMBDA found, t : IF found # <<>> THEN found
                               ELSE Lookup(LevelsOf(SideOf(t.name), t.name, With(t, level.name, level.args).args), name),
             <<>>, IF level.side = "instance" THEN Reverse(SelfTypesOf(level.name)) ELSE <<>>)
OrElse(found, otherwise) == IF found = <<>> THEN otherwise ELSE found
\* What an alias is of.
AliasedBy(levels, below, defn) ==
    LET old_name == Original(defn).old_name
    IN  OrElse(IF old_name = defn.name THEN below ELSE Lookup(levels, old_name), LookupInSelfTypes(levels[1], old_name))
FoundAt(levels, defn, below) ==
    MethodAt(levels[1], defn, Original(defn), below, AliasedBy(levels, below, defn), IsMixedIn(levels, defn.name))
Lookup(levels, name) ==
    CASE levels = <<>> -> <<>>
      [] levels # <<>> /\ name \notin NamesAt(levels[1]) -> Lookup(Tail(levels), name)
      [] OTHER -> FoundAt(levels, DefnAt(levels[1], name), Lookup(Tail(levels), name))

RECURSIVE ChainOf(_)
\* The same of a method that was built.
ChainOf(method) ==
    <<[defs |-> method.defs, accessibility |-> method.accessibility]>>
      \o (IF method.super_method = None THEN <<>> ELSE ChainOf(method.super_method[1]))

NamesIn(levels) == UNION {NamesAt(l) : l \in Values(levels)}

\* What a method is written as on the first level that does not only add types to it.
OriginalsAt(level, name) == {Original(d) : d \in {e \in DefnsOf(level) : e.name = name /\ e.originals # <<>>}}
RECURSIVE IsNewByName(_, _)
AliasesNew(levels, name, originals) ==
    IF originals = {} THEN IsNewByName(Tail(levels), name)
    ELSE \E original \in originals :
            /\ original.is = "alias"
            /\ \/ original.old_name = New /\ name # New
               \/ IsNewByName(IF original.old_name = name THEN Tail(levels) ELSE levels, original.old_name)
\* A method is an alias of `new`, or of one that is.
IsNewByName(levels, name) == levels # <<>> /\ AliasesNew(levels, name, OriginalsAt(levels[1], name))

-----------------------------------------------------------------------------
(* Faults.                                                                 *)

\* The variables of a definition, in the order in which they are declared from the top of
\* the hierarchy down; here what is prepended is above.
RECURSIVE DeclaredAlong(_, _, _, _)
DeclaredBy(declared, decl, side, name, args) ==
    LET arguments == IF side = "singleton" THEN NoSubst ELSE Build(NamesOf(decl.params), args)
    IN  FoldLeft(LAMBDA ds, m : ds \o VariableEntries(name, m, side, arguments), declared, decl.members)
DeclaredAbove(declared, p, ref, kinds) ==
    IF p.kind \notin kinds THEN declared
    ELSE declared \o DeclaredAlong(IF p.method = "instance_ancestors" THEN "instance" ELSE "singleton", p.name,
                                   With(p, ref.name, ref.args).args, Mixing \cup {"super"})
DeclaredAlong(side, name, args, kinds) ==
    FoldLeft(LAMBDA declared, decl : DeclaredBy(declared, decl, side, name, args),
             FoldLeft(LAMBDA declared, p : DeclaredAbove(declared, p, [name |-> name, args |-> args], kinds),
                      <<>>, PartsOf(side, name)),
             program.class_decls[name].decls)
Declared(side, name) ==
    IF side = "interface" THEN <<>>
    ELSE LET From(s, ref, kinds) == [side |-> s, ref |-> ref, kinds |-> kinds]
             IsOfModule(t) == ~IsInterface(t.name)
             self == From(side, [name |-> name, args |-> OwnArgs(name)], Mixing \cup {"super"})
             self_types == IF side = "instance" THEN SelectSeq(SelfTypesOf(name), IsOfModule) ELSE <<>>
         IN  FoldLeft(LAMBDA declared, from : declared \o DeclaredAlong(from.side, from.ref.name, from.ref.args, from.kinds),
                      <<>>, [i \in DOMAIN self_types |-> From("instance", self_types[i], Mixing)] \o <<self>>)

\* How often the members of a module write the variable that is declared there.
TimesWritten(declaration) ==
    LET IsIt(m) == /\ m.is = IF declaration.source = "civar" THEN "civar" ELSE "ivar"
                   /\ m.name = declaration.name
    IN  Len(SelectSeq(Members(declaration.declared_in), IsIt))
Duplicates(declared) == {d \in Values(declared) : d.source \notin Attributes /\ TimesWritten(d) > 1}

\* All declarations of a variable are the members of one module, which is met once.
IsOfOnePlace(declared, d) ==
    LET IsOfVariable(e) == e.name = d.name /\ e.source \notin Attributes
    IN  d.source # "cvar" => Len(SelectSeq(declared, IsOfVariable)) = TimesWritten(d)

DuplicationError(d) ==
    IF d.source = "civar" THEN "ClassInstanceVariableDuplicationError" ELSE "InstanceVariableDuplicationError"

\* Modules that write a variable twice; and where a variable is declared in several places of
\* the hierarchy, validate_variable may take the one for the other.
VariableFaults(declared) ==
    {DuplicationError(d) : d \in {e \in Duplicates(declared) : IsOfOnePlace(declared, e)}}
Mistakes(declared) ==
    {DuplicationError(d) : d \in {e \in Values(declared) : e.source \notin Attributes /\ ~IsOfOnePlace(declared, e)}}

\* An alias comes back to itself through others.
HasCycleOfAliases(defns) ==
    LET aliases == {d \in defns : Original(d).is = "alias" /\ Original(d).old_name # d.name}
        Old(names) == {Original(d).old_name : d \in {e \in aliases : e.name \in names}}
        after[n \in 0..Cardinality(defns), name \in {d.name : d \in defns}] ==
            IF n = 0 THEN {name} ELSE Old(after[n - 1, name])
    IN  \E d \in defns : \E n \in 1..Cardinality(defns) : d.name \in after[n, d.name]

WrittenArgs(level) ==
    LET parts == IF level.side = "interface" THEN <<>> ELSE PartsOf(level.side, level.name)
        self_types == IF level.side = "instance" THEN SelfTypesOf(level.name) ELSE <<>>
    IN  UNION {Values(p.args) : p \in Values(parts \o self_types \o InterfacesOf(level.side, level.name))}

SelfTypeNames(level) ==
    IF level.side # "instance" THEN {}
    ELSE UNION {NamesIn(LevelsOf(SideOf(t.name), t.name, OwnArgs(t.name))) : t \in Values(SelfTypesOf(level.name))}

Fault(error, is) == IF is THEN {error} ELSE {}

\* What is wrong with these definitions at a level, over interfaces that are mixed in there
\* and the names that are found below it.
FaultsOf(level, defns, interfaces, below) ==
    LET names == {d.name : d \in defns}
        aliases == {d \in defns : Original(d).is = "alias"}
        IsKnown(d, old) == old \in below \cup (IF old = d.name THEN {} ELSE names)
    IN  Fault("DuplicatedMethodDefinitionError",
              \E d \in defns : Len(d.originals) > 1
                                 \/ (d.originals # <<>> /\ d \notin aliases /\ d.name \in NamesIn(interfaces)))
        \cup Fault("DuplicatedInterfaceMethodDefinitionError",
                   \E i, j \in DOMAIN interfaces : i # j /\ NamesAt(interfaces[i]) \cap NamesAt(interfaces[j]) # {})
        \cup Fault("RecursiveAliasDefinitionError", HasCycleOfAliases(defns))
        \cup Fault("UnknownMethodAliasError", \E d \in aliases : ~IsKnown(d, Original(d).old_name) /\ Original(d).old_name \notin SelfTypeNames(level))
        \cup Fault("InvalidOverloadMethodError", \E d \in defns : d.originals = <<>> /\ d.name \notin below)
        \cup Fault("NoTypeFoundError",
                   WrittenArgs(level) \cap Absent # {} \/ (IsClass(level.name) /\ ~HasNamespace(level.name)))
FaultsAt(levels) ==
    FaultsOf(levels[1], DefnsOf(levels[1]), SubSeq(levels, 2, 1 + levels[1].mixed), NamesIn(Tail(levels)))
FaultsAlong(levels) == UNION {FaultsAt(SubSeq(levels, i, Len(levels))) : i \in DOMAIN levels}

LevelsOfGoal(g) == LevelsOf(g.side, g.name, OwnArgs(g.name))
Faults(g) ==
    FaultsAlong(LevelsOfGoal(g)) \cup VariableFaults(Declared(g.side, g.name))
      \cup Fault("NoTypeFoundError", ~HasNamespace(g.name))

\* The definitions that go into one: of the self types of modules, and of the instances for
\* singletons.
NeedsAlong(levels) ==
    UNION {IF l.side = "instance" THEN {Goal(SideOf(t.name), t.name) : t \in Values(SelfTypesOf(l.name))}
           ELSE IF l.side = "singleton" THEN {Goal("instance", l.name)} ELSE {} : l \in Values(levels)}
RECURSIVE Reached(_, _)
\* Goals, and new ones, with all that they need.
Reached(goals, new) ==
    IF new \subseteq goals THEN goals
    ELSE Reached(goals \cup new, UNION {NeedsAlong(LevelsOfGoal(g)) : g \in new \ goals})

-----------------------------------------------------------------------------
(* Properties.                                                             *)

Answered == answer # None /\ frames = <<>> /\ goal = NoGoal
HasValue == Answered /\ answer.result.is = "value"
Table == answer.result.value.methods
AnsweredGoal == IF answer.call.op = "interface" THEN Goal(answer.call.op, answer.call.name)
                                                ELSE Goal(answer.call.op, Normalized(answer.call.name))
AnsweredLevels == LevelsOfGoal(AnsweredGoal)

\* What modules and interfaces pass on to what they are made of keeps the names of their
\* variables, or has none: Substitution#+ is right for these only.
NamesAreKept ==
    LET Refs(name) ==
            IF IsInterface(name) THEN Values(InterfacesOf("interface", name))
            ELSE {p \in Values(OneInstanceAncestors(name)) : p.kind \in Mixing}
                    \cup Values(SelfTypesOf(name) \o InterfacesOf("instance", name))
        Keeps(name, ref) ==
            \A i \in DOMAIN ref.args :
                ref.args[i] \in Values(OwnArgs(name)) => ~IsInterface(name) /\ OwnArgs(ref.name)[i] \in Values(OwnArgs(name))
        selfs == UNION {{t.name : t \in Values(SelfTypesOf(n))} : n \in ModuleNames}
    IN  \A name \in {n \in ModuleNames : IsModule(n) \/ n \in selfs} \cup InterfaceNames :
            \A ref \in Refs(name) : Keeps(name, ref)

\* `new` is that of Class, and there is an `initialize`.
InstanceLevels == LevelsOfGoal(Goal("instance", AnsweredGoal.name))
IsOfClass(new) == new # <<>> /\ \A i \in DOMAIN new[1].defs : new[1].defs[i].defined_in = Some(Class)
IsNewTyped(levels) ==
    AnsweredGoal.side = "singleton" /\ IsClass(AnsweredGoal.name)
      /\ IsOfClass(Lookup(levels, New)) /\ Initialize \in NamesIn(InstanceLevels)

\* A definition has the methods that Ruby finds, with those that `super` goes to one after
\* the other, whatever was built, was refused or has changed before: what is prepended, the
\* module itself, then the interfaces and modules it includes, the super class, and what a
\* module is mixed into; an alias has the types of what it is of where it is written, and
\* `| ...` adds in front of them (define_instance, import_methods, define_method, update).
MethodsFollow(levels, is_new_typed) ==
    /\ DOMAIN Table = NamesIn(levels)
    /\ \A m \in DOMAIN Table :
          (is_new_typed /\ (m = New \/ IsNewByName(levels, m))) \/ ChainOf(Table[m]) = Lookup(levels, m)
MethodsFollowAlong(levels) == MethodsFollow(levels, IsNewTyped(levels))
MethodsFollowAncestors == HasValue /\ NamesAreKept => MethodsFollowAlong(AnsweredLevels)

\* An instance variable has the type of the declaration that is met last on the way down
\* from the super classes through what is mixed in, with the arguments that are given on
\* this way and the names that the module has for its parameters where it is opened again
\* (insert_variable, merge! and Variable#sub; align_params).
VariablesFollow(variables, declared) ==
    LET Latest(v) == declared[Max({i \in DOMAIN declared : declared[i].name = v})]
    IN  /\ DOMAIN variables = {d.name : d \in Values(declared)}
        /\ \A v \in DOMAIN variables :
              variables[v].type = Latest(v).type /\ variables[v].declared_in = Latest(v).declared_in
VariablesFollowAncestors ==
    HasValue /\ NamesAreKept =>
        VariablesFollow(answer.result.value.instance_variables, Declared(AnsweredGoal.side, AnsweredGoal.name))

\* The type of `new` that `initialize` gives: the parameters of the class and of the method,
\* none of them twice, what is given there, and an instance.
IsTypedBy(type, initialize, name) ==
    LET own == OwnArgs(name)
        At_(i) == type.params[Len(own) + i]
        arg == CASE initialize.arg = SelfType -> {InstanceType(name)}
                 [] initialize.arg \in Values(initialize.params) ->
                        {At_(i) : i \in {j \in DOMAIN initialize.params : initialize.params[j] = initialize.arg}}
                 [] OTHER -> {initialize.arg}
    IN  /\ Len(type.params) = Len(own) + Len(initialize.params)
        /\ SubSeq(type.params, 1, Len(own)) = own
        /\ Cardinality(Values(type.params)) = Len(type.params)
        /\ type.arg \in arg /\ type.return = InstanceType(name)

\* A class has the `new` that its own `initialize` gives, and so have the aliases of `new`
\* nothing is added to, also where they or the `initialize` are from above; one that is
\* written is left alone (build_singleton).
AreTypedBy(defs, initialize, name) ==
    /\ Len(defs) = Len(initialize)
    /\ \A i \in DOMAIN defs : /\ IsTypedBy(defs[i].type, initialize[i].type, name)
                              /\ defs[i].defined_in = initialize[i].defined_in
NewFollows(levels, initialize, new) ==
    LET IsTyped(m) == AreTypedBy(Table[m].defs, initialize, AnsweredGoal.name)
        AliasFollows(m, found) ==
            Len(found[1].defs) = Len(new[1].defs) => IsTyped(m) /\ Tail(ChainOf(Table[m])) = Tail(found)
    IN  /\ Tail(ChainOf(Table[New])) = new /\ Table[New].accessibility = "public" /\ IsTyped(New)
        /\ \A m \in {n \in DOMAIN Table : IsNewByName(levels, n)} : AliasFollows(m, Lookup(levels, m))
NewFollowsAlong(levels) ==
    IsNewTyped(levels) => NewFollows(levels, Lookup(InstanceLevels, Initialize)[1].defs, Lookup(levels, New))
NewFollowsInitialize == HasValue /\ NamesAreKept => NewFollowsAlong(AnsweredLevels)

\* Every declaration has direct ancestors.
AreSound == \A method \in Methods : \A n \in ModuleNames \cup InterfaceNames :
                IsDeclared(Node(method, n)) => OneErrors(Node(method, n)) = <<>>
FromAncestors == {"RecursiveAncestorError", "SystemStackError", "InvalidTypeApplicationError", "RuntimeError"}

\* There is no definition where there are faults, and what is raised is one of them, or a
\* mistake.
RaisesOneOf(faults, mistakes) ==
    IF HasValue THEN faults = {}
    ELSE answer.result.value \in FromAncestors \/ (AreSound => answer.result.value \in faults \cup mistakes)
RaisesFaultsOf(goals) ==
    RaisesOneOf(UNION {Faults(g) : g \in goals}, UNION {Mistakes(Declared(g.side, g.name)) : g \in goals})

\* There is a definition unless something is wrong in what it is made of, and what is raised
\* says what, also when some of that was built before, or has changed since.  A variable that
\* a module writes twice is wrong.  Whether that is raised, and nothing else is taken for it, is
\* asked here of variables that are written at one place only: of others it is not so
\* (DuplicatesAreEliminated, and a module that is mixed in at two places, definition_builder.rb:629).
FaultsAreRaised == Answered => RaisesFaultsOf(Reached({}, {AnsweredGoal}))

\* A definition has no variable that one module declares twice: "Duplicates should be
\* eliminated, so there can't be more than 3" (lib/rbs/definition_builder.rb:621), as
\* test_duplicated_variable asks for (test/rbs/definition_builder_test.rb:3007).
DuplicatesAreEliminated == HasValue => Duplicates(Declared(AnsweredGoal.side, AnsweredGoal.name)) = {}

\* No definition is built while it is being built: the check that ancestors have no loop,
\* self types of modules included, ends these calls too (build_instance, define_instance).
BuildsAreNotNested ==
    \A i, j \in DOMAIN frames : frames[i].goal = frames[j].goal => i = j
=============================================================================
