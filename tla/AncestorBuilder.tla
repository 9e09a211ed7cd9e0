--------------------------- MODULE AncestorBuilder ---------------------------
(***************************************************************************)
(* The ancestors of classes, modules, singletons and interfaces,           *)
(* lib/rbs/definition_builder/ancestor_builder.rb, over an environment     *)
(* whose names have been resolved.                                         *)
(*                                                                         *)
(* The three methods call each other along super classes, self types and   *)
(* mixins.  `stack` is the stack of the running calls; each call has the   *)
(* parts of its answer that are still to do.  `building` is what the code  *)
(* passes along as building_ancestors to find cycles: the list that is in  *)
(* use is the last one, because a singleton gives the singleton of its     *)
(* super class a list of its own.                                          *)
(*                                                                         *)
(* A name is the path of its components.  A type argument is a name of a   *)
(* type variable or of a type without arguments.  The declarations of one  *)
(* class have parameters that agree but for their names, or reading them   *)
(* raises (validate_type_params), and required ones come first.  What an   *)
(* alias means exists.                                                     *)
(***************************************************************************)
EXTENDS Naturals, Sequences, FiniteSets, Subsequences

CONSTANTS InterfaceId,   \* last components of the names of interfaces
          StackLimit     \* bound: the calls the stack of the Ruby VM has room for

ASSUME StackAssumption == StackLimit \in Nat \ {0}

VARIABLES program,   \* the environment: class_decls, class_alias_decls, interface_decls
          caches,    \* the answers of each method
          stack,     \* the running calls, the innermost last
          building,  \* the lists of what is being built
          goal,      \* the method and name somebody has called, or NoGoal
          failure    \* what the call has raised, or "none"

builderVars == <<caches, stack, building, goal, failure>>

Methods == {"instance_ancestors", "singleton_ancestors", "interface_ancestors"}
Node(method, name) == [method |-> method, name |-> name]
NoGoal == Node("none", <<>>)

Object == <<"Object">>
BasicObject == <<"BasicObject">>
Class == <<"Class">>
Module == <<"Module">>

Values(seq) == {seq[i] : i \in DOMAIN seq}

\* Each value once, where it is first.
Uniq(seq) == Subsequence(seq, {i \in DOMAIN seq : \A j \in 1..(i - 1) : seq[j] # seq[i]})

-----------------------------------------------------------------------------
(* The environment.                                                        *)

IsInterface(name) == name[Len(name)] \in InterfaceId
ModuleNames == DOMAIN program.class_decls
AliasNames == DOMAIN program.class_alias_decls
InterfaceNames == DOMAIN program.interface_decls

\* Environment#normalize_module_name, of an environment with resolved names.
Normalized(name) == IF name \in AliasNames THEN program.class_alias_decls[name] ELSE name

IsClass(name) == name \in ModuleNames /\ program.class_decls[name].kind = "class"
IsModule(name) == name \in ModuleNames /\ program.class_decls[name].kind = "module"
IsModuleName(name) == name \in ModuleNames \cup AliasNames

\* ClassEntry#primary_decl and ModuleEntry#primary_decl
PrimaryDecl(entry) ==
    LET with_super == Subsequence(entry.decls, {i \in DOMAIN entry.decls : entry.decls[i].super # <<>>})
    IN  (with_super \o entry.decls)[1]

ParamsOf(name) ==
    IF IsInterface(name) THEN program.interface_decls[name].params
                         ELSE PrimaryDecl(program.class_decls[name]).params
NamesOf(params) == [i \in DOMAIN params |-> params[i].name]

\* Substitution.build(variables, types), applied to types
Substituted(types, variables, args) ==
    [i \in DOMAIN types |->
        IF types[i] \in Values(variables)
        THEN args[CHOOSE j \in DOMAIN variables : variables[j] = types[i]] ELSE types[i]]

\* align_params: the variables of one declaration by the names the primary one has for them
Aligned(types, decl, entry) ==
    Substituted(types, NamesOf(decl.params), NamesOf(PrimaryDecl(entry).params))

Required(params) == Cardinality({i \in DOMAIN params : params[i].default = <<>>})

\* InvalidTypeApplicationError.check!
Applies(params, args) == Required(params) <= Len(args) /\ Len(args) <= Len(params)

Untyped == "untyped"

\* TypeParam.normalize_args and TypeParam.application: defaults, in which the parameters
\* that are required have their arguments and the other ones are untyped.
NormalizeArgs(params, args) ==
    LET given == SubSeq(args, 1, Required(params))
        param_subst == [i \in DOMAIN params |-> IF i \in DOMAIN given THEN given[i] ELSE Untyped]
        Default(i) == Substituted(params[i].default, NamesOf(params), param_subst)
        app == [i \in DOMAIN params |-> IF i \in DOMAIN args THEN args[i] ELSE Default(i)[1]]
    IN  IF ~Applies(params, args) THEN args
        ELSE [i \in DOMAIN params |->
                 IF i \in DOMAIN args THEN args[i]
                 ELSE Substituted(params[i].default, NamesOf(params), app)[1]]

-----------------------------------------------------------------------------
(* The direct ancestors: one_instance_ancestors, one_singleton_ancestors   *)
(* and one_interface_ancestors.  They are the parts of an answer, in the   *)
(* order in which it is put together, and they raise.                      *)

\* A part asks for the ancestors of a name, from which it makes some of the answer.
Part(kind, method, name, args, language) ==
    [kind |-> kind, method |-> method, name |-> name, args |-> args, language |-> language]
Itself == Part("itself", "none", <<>>, <<>>, "rbs")

\* validate_super_class!
SupersAgree(entry) ==
    LET super(i) == entry.decls[i].super[1]
    IN  \A i, j \in {k \in DOMAIN entry.decls : entry.decls[k].super # <<>>} :
            /\ super(i).name = super(j).name
            /\ Aligned(super(i).args, entry.decls[i], entry) = Aligned(super(j).args, entry.decls[j], entry)

\* The super class, Object if none is written.
SuperOf(entry) ==
    LET super == PrimaryDecl(entry).super
    IN  IF super = <<>> THEN [name |-> Object, args |-> <<>>] ELSE super[1]

SuperError(entry, checks_args) ==
    LET super == SuperOf(entry)
        name == Normalized(super.name)
    IN  CASE ~IsModuleName(name) -> "NoSuperclassFoundError"
          [] IsModule(name) -> "InheritModuleError"
          [] checks_args /\ IsClass(name) /\ ~Applies(ParamsOf(name), super.args) ->
                 "InvalidTypeApplicationError"
          [] OTHER -> "none"

\* BasicObject has no super class; that its declarations agree on one is checked.
ClassErrors(name, checks_args) ==
    LET entry == program.class_decls[name]
    IN  <<IF SupersAgree(entry) THEN "none" ELSE "SuperclassMismatchError",
          IF name = BasicObject THEN "none" ELSE SuperError(entry, checks_args)>>

\* ModuleEntry#self_types, each of them once
SelfTypes(entry) ==
    LET OfDecl(i) == [j \in DOMAIN entry.decls[i].self_types |->
                         [name |-> entry.decls[i].self_types[j].name,
                          args |-> Aligned(entry.decls[i].self_types[j].args, entry.decls[i], entry)]]
    IN  Uniq(Concat([i \in DOMAIN entry.decls |-> OfDecl(i)]))

SelfTypeError(self_type) ==
    LET name == Normalized(self_type.name)
    IN  CASE name \notin ModuleNames \cup InterfaceNames -> "NoSelfTypeFoundError"
          [] name \in ModuleNames \cup InterfaceNames /\ ~Applies(ParamsOf(name), self_type.args) ->
                 "InvalidTypeApplicationError"
          [] OTHER -> "none"

\* Those that are no interfaces; those of some kinds.
Modules(seq) == Subsequence(seq, {i \in DOMAIN seq : ~IsInterface(seq[i].name)})
OfKinds(mixins, kinds) == Subsequence(mixins, {i \in DOMAIN mixins : mixins[i].kind \in kinds})

\* mixin_ancestors: the mixins of all declarations that are of these kinds, with their
\* arguments as they are written in Ruby and in `extend`.
Mixins(entry, kinds) ==
    LET AlignedMixin(i, m) ==
            [kind |-> m.kind, name |-> m.name, language |-> entry.decls[i].language,
             args |-> IF entry.decls[i].language = "rbs" /\ m.kind # "extend"
                      THEN Aligned(m.args, entry.decls[i], entry) ELSE m.args]
        OfDecl(i) == [j \in DOMAIN entry.decls[i].mixins |-> AlignedMixin(i, entry.decls[i].mixins[j])]
    IN  OfKinds(Concat([i \in DOMAIN entry.decls |-> OfDecl(i)]), kinds)

\* A class alias, and an interface that is prepended, pass the checks for RBS, and are no
\* modules: `or raise`.
MixinError(mixin) ==
    LET declared == IF IsInterface(mixin.name) THEN mixin.name \in InterfaceNames ELSE IsModuleName(mixin.name)
        module == IF IsInterface(mixin.name) THEN mixin.kind # "prepend" ELSE IsModule(Normalized(mixin.name))
    IN  CASE IsClass(mixin.name) -> "MixinClassError"
          [] ~declared -> "NoMixinFoundError"
          [] declared /\ ~IsClass(mixin.name) /\ ~module ->
                 IF mixin.language = "ruby" THEN "NoMixinFoundError" ELSE "RuntimeError"
          [] OTHER -> "none"

\* Those that are modules, as parts.
AsPart(m, name) == Part(m.kind, "instance_ancestors", name, NormalizeArgs(ParamsOf(name), m.args), m.language)
AsParts(mixins) == [i \in DOMAIN mixins |-> AsPart(mixins[i], Normalized(mixins[i].name))]
MixedIn(entry, kind) == AsParts(Modules(Mixins(entry, {kind})))

Errors(errors) == Subsequence(errors, {i \in DOMAIN errors : errors[i] # "none"})
MixinErrors(entry, kinds) ==
    LET mixins == Mixins(entry, kinds) IN [i \in DOMAIN mixins |-> MixinError(mixins[i])]

OneInstanceErrors(name) ==
    LET entry == program.class_decls[name]
        self_types == SelfTypes(entry)
    IN  Errors((IF entry.kind = "class" THEN ClassErrors(name, TRUE)
                ELSE [i \in DOMAIN self_types |-> SelfTypeError(self_types[i])])
               \o MixinErrors(entry, {"include", "prepend"}))

SuperAsPart(entry) ==
    LET super == SuperOf(entry)
        name == Normalized(super.name)
    IN  Part("super", "instance_ancestors", name, NormalizeArgs(ParamsOf(name), super.args), "rbs")

\* Self types that are interfaces are not followed; a module without any has Object.
FollowedSelfTypes(entry) ==
    LET written == SelfTypes(entry)
    IN  Modules(IF written = <<>> THEN <<[name |-> Object, args |-> <<>>]>> ELSE written)
SelfTypesAsParts(entry) ==
    LET self_types == FollowedSelfTypes(entry)
        AsSelfType(t) == Part("self type", "instance_ancestors", Normalized(t.name), t.args, "rbs")
    IN  [i \in DOMAIN self_types |-> AsSelfType(self_types[i])]

\* A mutant of OneInstanceAncestors: self types are not followed.
OneInstanceAncestorsMixedIn(name) ==
    LET entry == program.class_decls[name]
    IN  (IF name = BasicObject \/ entry.kind = "module" THEN <<>> ELSE <<SuperAsPart(entry)>>)
        \o MixedIn(entry, "include") \o <<Itself>> \o MixedIn(entry, "prepend")

OneInstanceAncestors(name) ==
    LET entry == program.class_decls[name]
    IN  (IF entry.kind = "module" THEN SelfTypesAsParts(entry)
         ELSE IF name = BasicObject THEN <<>> ELSE <<SuperAsPart(entry)>>)
        \o MixedIn(entry, "include") \o <<Itself>> \o MixedIn(entry, "prepend")

OneSingletonErrors(name) ==
    LET entry == program.class_decls[name]
    IN  Errors((IF entry.kind = "class" THEN ClassErrors(name, FALSE) ELSE <<>>)
               \o MixinErrors(entry, {"extend"}))

OneSingletonAncestors(name) ==
    LET entry == program.class_decls[name]
        super == CASE entry.kind = "module" -> Part("super", "instance_ancestors", Module, <<>>, "rbs")
                   [] name = BasicObject -> Part("super", "instance_ancestors", Class, <<>>, "rbs")
                   [] OTHER -> Part("super", "singleton_ancestors", Normalized(SuperOf(entry).name), <<>>, "rbs")
    IN  <<super>> \o MixedIn(entry, "extend") \o <<Itself>>

\* An interface is one declaration, whose mixins are interfaces.
IncludedInterfaces(name) ==
    LET mixins == program.interface_decls[name].mixins
    IN  Subsequence(mixins, {i \in DOMAIN mixins : mixins[i].kind = "include" /\ IsInterface(mixins[i].name)})
OneInterfaceErrors(name) ==
    LET included == IncludedInterfaces(name)
    IN  Errors([i \in DOMAIN included |->
                   IF included[i].name \in InterfaceNames THEN "none" ELSE "NoMixinFoundError"])
OneInterfaceAncestors(name) ==
    LET included == IncludedInterfaces(name)
    IN  [i \in DOMAIN included |->
            Part("include", "interface_ancestors", included[i].name,
                 NormalizeArgs(ParamsOf(included[i].name), included[i].args), "rbs")]
        \o <<Itself>>

OneAncestors(node) ==
    CASE node.method = "instance_ancestors" -> OneInstanceAncestors(node.name)
      [] node.method = "singleton_ancestors" -> OneSingletonAncestors(node.name)
      [] OTHER -> OneInterfaceAncestors(node.name)

\* What a call raises before it calls another: the lookup of the entry,
\* RecursiveAncestorError.check!, and the direct ancestors, in this order.
IsDeclared(node) == node.name \in IF node.method = "interface_ancestors" THEN InterfaceNames ELSE ModuleNames
OneErrors(node) ==
    CASE node.method = "instance_ancestors" -> OneInstanceErrors(node.name)
      [] node.method = "singleton_ancestors" -> OneSingletonErrors(node.name)
      [] OTHER -> OneInterfaceErrors(node.name)

-----------------------------------------------------------------------------
(* The three methods.                                                      *)

IsCached(node) == node.name \in DOMAIN caches[node.method]
Cached(node) == caches[node.method][node.name]

Top == stack[Len(stack)]
Part1 == Head(Top.todo)
Callee(part) == Node(part.method, part.name)

Raise(error) ==
    /\ failure' = error
    /\ stack' = <<>>
    /\ building' = <<>>
    /\ UNCHANGED <<program, caches, goal>>

\* The method of node is called; `inUse` are the lists, of which it gets the last.
\* An answer that is cached has been returned already.
Enter(node, inUse) ==
    LET list == inUse[Len(inUse)]
    IN  IF Len(stack) = StackLimit THEN Raise("SystemStackError") ELSE
        CASE ~IsDeclared(node) -> Raise("RuntimeError")
          [] IsDeclared(node) /\ node \in Values(list) -> Raise("RecursiveAncestorError")
          [] IsDeclared(node) /\ node \notin Values(list) /\ OneErrors(node) # <<>> -> Raise(Head(OneErrors(node)))
          [] OTHER ->
                 /\ stack' = Append(stack, [node |-> node, todo |-> OneAncestors(node), ancestors |-> <<>>])
                 /\ building' = [inUse EXCEPT ![Len(inUse)] = Append(@, node)]
                 /\ UNCHANGED <<program, caches, goal, failure>>

Working == goal # NoGoal /\ failure = "none"

\* The call from outside, with the default `building_ancestors: []`.
EnterGoal ==
    /\ Working /\ stack = <<>> /\ ~IsCached(goal)
    /\ Enter(goal, << <<>> >>)

\* A mutant of Passed: every call gets a list of its own.
PassedAfresh == Append(building, <<>>)

\* The list that is passed on: a new one to the singleton of a super class.
Passed == IF Part1.method = "singleton_ancestors" THEN Append(building, <<>>) ELSE building

\* The call for the next part.
EnterPart ==
    /\ Working /\ stack # <<>> /\ Top.todo # <<>>
    /\ Part1.kind # "itself" /\ ~IsCached(Callee(Part1))
    /\ Enter(Callee(Part1), Passed)

\* An ancestor, with what made it one: a part, or nothing for the class itself.
Ancestor(node, args, source) ==
    [node |-> node, args |-> args, source |-> source]
NoSource == [kind |-> "none", language |-> "rbs"]
SourceOf(part) == [kind |-> part.kind, language |-> part.language]

\* fill_ancestor_source
FillSource(ancestor, part) ==
    IF ancestor.node = Callee(part) /\ ancestor.source = NoSource
    THEN [ancestor EXCEPT !.source = SourceOf(part)] ELSE ancestor

\* InstanceAncestors#apply, and the sources filled in.  The ancestors of the singleton of
\* the super class are taken as they are.
Applied(part) ==
    LET params == NamesOf(ParamsOf(part.name))
        ancestors == Cached(Callee(part))
        Apply(a) == FillSource([a EXCEPT !.args = Substituted(@, params, part.args)], part)
    IN  IF part.method = "singleton_ancestors" THEN ancestors
        ELSE [i \in DOMAIN ancestors |-> Apply(ancestors[i])]

SelfAncestor(node) ==
    Ancestor(node, IF node.method = "singleton_ancestors" THEN <<>> ELSE NamesOf(ParamsOf(node.name)), NoSource)

\* What the next part puts in front of the answer.
Prefix ==
    CASE Part1.kind = "itself" -> <<SelfAncestor(Top.node)>>
      [] Part1.kind = "self type" -> <<>>
      [] OTHER -> Applied(Part1)

IsApplied == Part1.kind \notin {"itself", "self type"} /\ Part1.method # "singleton_ancestors"

\* A mutant of TakePart: the part is put behind what there is.
TakePartAtTheEnd ==
    /\ Working /\ stack # <<>> /\ Top.todo # <<>>
    /\ Part1.kind # "itself" => IsCached(Callee(Part1))
    /\ IF IsApplied /\ ~Applies(ParamsOf(Part1.name), Part1.args)
       THEN Raise("InvalidTypeApplicationError")
       ELSE /\ LET later == [Top EXCEPT !.ancestors = @ \o Prefix, !.todo = Tail(@)]
               IN  stack' = [stack EXCEPT ![Len(stack)] = later]
            /\ UNCHANGED <<program, caches, building, goal, failure>>

\* The answer to the next part is there, and is put in front.
TakePart ==
    /\ Working /\ stack # <<>> /\ Top.todo # <<>>
    /\ Part1.kind # "itself" => IsCached(Callee(Part1))
    /\ IF IsApplied /\ ~Applies(ParamsOf(Part1.name), Part1.args)
       THEN Raise("InvalidTypeApplicationError")
       ELSE /\ LET later == [Top EXCEPT !.ancestors = Prefix \o @, !.todo = Tail(@)]
               IN  stack' = [stack EXCEPT ![Len(stack)] = later]
            /\ UNCHANGED <<program, caches, building, goal, failure>>

Shorter(seq) == SubSeq(seq, 1, Len(seq) - 1)

\* A mutant of Popped: nothing is popped.
NotPopped == building

\* building_ancestors.pop; a list of its own is forgotten with the call that made it.
Popped ==
    IF Len(building[Len(building)]) = 1 THEN Shorter(building)
                         ELSE [building EXCEPT ![Len(building)] = Shorter(@)]

\* The call returns, and its answer is kept.
Return ==
    /\ Working /\ stack # <<>> /\ Top.todo = <<>>
    /\ caches' = [caches EXCEPT ![Top.node.method] =
                     [n \in DOMAIN @ \cup {Top.node.name} |-> IF n = Top.node.name THEN Top.ancestors ELSE @[n]]]
    /\ building' = Popped
    /\ stack' = Shorter(stack)
    /\ UNCHANGED <<program, goal, failure>>

BuilderInit ==
    /\ caches = [m \in Methods |-> <<>>]
    /\ stack = <<>> /\ building = <<>>
    /\ goal = NoGoal /\ failure = "none"

BuilderNext == EnterGoal \/ EnterPart \/ TakePart \/ Return

\* The call from outside has returned, or has raised.
HasReturned == goal # NoGoal /\ stack = <<>> /\ failure = "none" /\ IsCached(goal)
HasRaised == failure # "none"
=============================================================================
