------------------------------- MODULE Hierarchy -------------------------------
(***************************************************************************)
(* What is computed from an environment, by the calls one after the other  *)
(* of an ancestor builder, of a constant resolver that uses the builder,   *)
(* and of the two validators of type aliases; and what the answers ought   *)
(* to be.                                                                  *)
(***************************************************************************)
EXTENDS ConstantResolver, FiniteSetsExt

CONSTANTS
    Cases,                \* environments, with the calls that are made: `program` and `requests`
    CircularAliases(_),   \* what the validators of TypeAliases answer of type aliases
    RegularityAnswers(_)

\* What the parser and Environment make: sequences; and a class has no self types.
IsDecls(decls, kind) ==
    /\ IsSeq(decls)
    /\ \A decl \in Values(decls) :
          /\ IsSeq(decl.mixins) /\ IsSeq(decl.self_types)
          /\ kind = "class" => decl.self_types = <<>>
IsEnvironment(environment) ==
    /\ IsFiniteSet(DOMAIN environment.class_decls) /\ IsFiniteSet(DOMAIN environment.interface_decls)
    /\ \A entry \in Range(environment.class_decls) :
          entry.kind \in {"class", "module"} /\ IsDecls(entry.decls, entry.kind)
    /\ \A decl \in Range(environment.interface_decls) : IsSeq(decl.mixins)

\* The stack has room for a call of every method for every name that is declared.
Calls(environment) == 2 * Cardinality(DOMAIN environment.class_decls) + Cardinality(DOMAIN environment.interface_decls)

ASSUME CasesAssumption ==
    \A case \in Cases : IsEnvironment(case.program) /\ Calls(case.program) < StackLimit

\* Names are paths of their components, which the Table of a resolver makes its tables of.  Object
\* is a class, an alias has a name of its own, and no module has two constants of one name,
\* as it could have one through an alias of itself.
IsNaming(environment) ==
    LET modules == DOMAIN environment.class_decls
        aliases == environment.class_alias_decls
        names == modules \cup DOMAIN aliases \cup environment.constant_decls
        Meant(name) == IF name \in DOMAIN aliases THEN aliases[name] ELSE name
    IN  /\ \A n \in names : IsSeq(n) /\ n # <<>>
        /\ modules \cap DOMAIN aliases = {}
        /\ Object \in modules /\ environment.class_decls[Object].kind = "class"
        /\ \A m, n \in names :
              Len(m) > 1 /\ Len(n) > 1 /\ Simple(m) = Simple(n) /\ Meant(Namespace(m)) = Meant(Namespace(n)) => m = n
        /\ \A entry \in Range(environment.class_decls) :
              \A decl \in Values(entry.decls) : decl.language \in {"rbs", "ruby"}

ASSUME NamesAssumption ==
    \A case \in Cases :
        /\ IsNaming(case.program)
        /\ IsSeq(case.requests)
        /\ \A request \in Values(case.requests) : request.op = "constants" => IsSeq(request.context)

vars == <<program, builderVars, resolverVars, requests, answer>>

Aliases == program.type_alias_decls

\* TypeAliasDependency#circular_definition? of all aliases
AnswerCircular ==
    /\ IsAsked("circular")
    /\ Finish(Answer(CircularAliases(Aliases)))
    /\ UNCHANGED resolverVars

\* TypeAliasRegularity#validate
AnswerRegular ==
    /\ IsAsked("regular")
    /\ \E given \in RegularityAnswers(Aliases) : Finish(Answer(given))
    /\ UNCHANGED resolverVars

Init ==
    /\ \E case \in Cases : program = case.program /\ requests = case.requests
    /\ ResolverInit

\* Nothing more is asked.
Rest == requests = <<>> /\ UNCHANGED vars

Next == ResolverNext \/ AnswerCircular \/ AnswerRegular \/ Rest

Spec == Init /\ [][Next]_vars

Asked(op) == answer # None /\ answer.request.op = op
HasValue == answer.result.is = "value"

-----------------------------------------------------------------------------
(* The reference for ancestors: paths along super classes and mixins.      *)

\* A node is sound when the parts of its answer are modules and classes that exist.
IsSound(node) == IsDeclared(node) /\ OneErrors(node) = <<>>
PartsOf(node) == {p \in Values(OneAncestors(node)) : p.kind # "itself"}
SelfModules(name) ==
    LET written == UNION {Values(d.self_types) : d \in Values(program.class_decls[name].decls)}
    IN  {Normalized(t.name) : t \in {u \in written : ~IsInterface(u.name)}}
\* What a node is made of, and the self types of a module, which have nothing in its answer.
Parents(node) ==
    IF ~IsSound(node) THEN {}
    ELSE {Callee(p) : p \in PartsOf(node)}
           \cup (IF node.method = "instance_ancestors" THEN {InstanceOf(m) : m \in SelfModules(node.name)} ELSE {})

\* One step up, from the nodes that are new.
Further(below) ==
    LET found == (UNION {Parents(m) : m \in below.new}) \ below.all
    IN  [all |-> below.all \cup found, new |-> found]

\* Nodes, with all that are reached from them: a path that meets no node twice is shorter
\* than the stack is high.
Above(nodes) ==
    LET up[n \in 0..StackLimit] ==
            IF n = 0 THEN [all |-> nodes, new |-> nodes] ELSE Further(up[n - 1])
    IN  up[StackLimit].all

\* The nodes that are above themselves.
Cyclic(nodes) == {m \in nodes : m \in Above(Parents(m))}
HasCycle(nodes) == Cyclic(nodes) # {}

\* An argument list that does not fit the parameters of what it is for.
IsMisapplied(node) ==
    IsSound(node) /\ \E p \in PartsOf(node) :
        /\ p.kind # "self type" /\ p.method # "singleton_ancestors"
        /\ ~Applies(ParamsOf(p.name), p.args)

\* Whether the result fits what there is above the node that was asked for: its nodes.
Singletons(nodes) == {m \in nodes : m.method = "singleton_ancestors"}
HasFault(nodes) == \E m \in nodes : ~IsSound(m) \/ IsMisapplied(m)
IsRightFor(has_fault, cyclic, result) ==
    CASE result.is = "value" -> ~has_fault /\ cyclic = {}
      [] result = Raised("RecursiveAncestorError") -> cyclic # Singletons(cyclic)
      [] result = Raised("SystemStackError") -> Singletons(cyclic) # {}
      [] OTHER -> has_fault
IsRight(nodes, result) == IsRightFor(HasFault(nodes), Cyclic(nodes), result)

\* The place of a part: prepended modules come before the class, the last one first, then
\* the included ones, the last one first, then the super class.
Place(parts, i) ==
    CASE parts[i].kind = "prepend" -> -i
      [] parts[i].kind \in {"include", "extend"} -> 2 * Len(parts) - i
      [] OTHER -> 2 * Len(parts) + i

\* A path has the places it takes, and the ancestor it leads to.
SelfPath(node) == [places |-> <<>>, ancestor |-> SelfAncestor(node)]
Through(part, a, isLast) ==
    IF part.method = "singleton_ancestors" THEN a
    ELSE [a EXCEPT !.args = Substituted(@, NamesOf(ParamsOf(part.name)), part.args),
                   !.source = IF isLast THEN SourceOf(part) ELSE @]
Along(part, place, path) ==
    [places |-> <<place>> \o path.places, ancestor |-> Through(part, path.ancestor, path.places = <<>>)]

\* What the three methods have an answer for, or raise from the declarations of.
Declared ==
    {Node(m, n) : m \in {"instance_ancestors", "singleton_ancestors"}, n \in ModuleNames}
        \cup {Node("interface_ancestors", n) : n \in InterfaceNames}

\* The parts whose answers are in the answer; and the paths that begin with one of them.
TakenOf(parts) == {i \in DOMAIN parts : parts[i].kind \notin {"itself", "self type"}}
BegunWith(parts, i, further) == {Along(parts[i], Place(parts, i), p) : p \in further[Callee(parts[i])]}
Taken(node) == TakenOf(OneAncestors(node))
PathsVia(node, i, further) == BegunWith(OneAncestors(node), i, further)

LongerPaths(further) ==
    [m \in Declared |-> {SelfPath(m)} \cup UNION {PathsVia(m, i, further) : i \in Taken(m)}]

\* The paths up, of nodes above which is no cycle.
AllPaths ==
    LET upTo[n \in 0..StackLimit] ==
            IF n = 0 THEN [m \in Declared |-> {SelfPath(m)}] ELSE LongerPaths(upTo[n - 1])
    IN  upTo[StackLimit]
Paths(node) == AllPaths[node]

\* The order of two paths: that of the places where they part, and the end of a path is
\* between what is prepended and the rest.
Before(p, q) ==
    LET At(r, i) == IF i \in DOMAIN r.places THEN r.places[i] ELSE 0
        i == Min({j \in 1..Len(p.places) + Len(q.places) : At(p, j) # At(q, j)})
    IN  At(p, i) < At(q, i)

Sorted(paths) ==
    LET Rank(p) == Cardinality({q \in paths : q # p /\ Before(q, p)}) + 1
    IN  [k \in 1..Cardinality(paths) |-> (CHOOSE p \in paths : Rank(p) = k).ancestor]
Linearization(node) == Sorted(Paths(node))

Node0 == Node(answer.request.op, answer.request.name)
IsAncestors == answer # None /\ answer.request.op \in Methods /\ stack = <<>> /\ goal = NoGoal

-----------------------------------------------------------------------------
(* The reference for constants: a sequence of sets of names, in the first  *)
(* of which that has the name it is found.                                 *)

ToplevelNames == {n \in ConstantNames : Len(n) = 1}
NamesIn(module) == {n \in ConstantNames : Len(n) > 1 /\ ParentOf(n) = module}

\* In the first of the sets
FoundIn(sets) ==
    LET all == UNION Values(sets)
        First(x) == Min({i \in DOMAIN sets : \E n \in sets[i] : Simple(n) = x})
    IN  [x \in {Simple(n) : n \in all} |-> CHOOSE n \in sets[First(x)] : Simple(n) = x]

\* The modules whose constants a module has: those it is a descendant of by super classes
\* and `include` in RBS.  (A module that is prepended does not count; one that is included
\* there does, and one that is included in Ruby code does not.)
NamesOfAncestors(ancestors) == [i \in DOMAIN ancestors |-> ancestors[i].node.name]
InheritedOf(all) ==
    LET IsInherited(a) == a.source.kind # "prepend" /\ a.source.language # "ruby"
    IN  NamesOfAncestors(Subsequence(all, {i \in DOMAIN all : IsInherited(all[i])}))
Inherited(module) == InheritedOf(Linearization(InstanceOf(module)))

\* The constants of Object are those of the top level and its own.
SetsOf(module) == IF module = Object THEN <<ToplevelNames, NamesIn(Object)>> ELSE <<NamesIn(module)>>
SetsOfAll(modules) == Concat([i \in DOMAIN modules |-> SetsOf(modules[i])])

\* The sets for a context: the name of the module itself, the modules around from the inside
\* out, the ancestors of the innermost, the top level, and Object.  What is written in Object
\* is what the top level has of that name, if it has one.
SetsOfLast(name) ==
    (IF Namespace(name) = Object THEN <<{n \in ToplevelNames : Simple(n) = Simple(name)}>> ELSE <<>>)
        \o <<{name}>>
SetsOfContext(context) ==
    LET last == LastModule(context)
    IN  (IF last = NoModule THEN <<>> ELSE SetsOfLast(last))
        \o SetsOfAll(Around(context)) \o SetsOfAll(Inherited(ScopeOf(context))) \o SetsOf(Object)

\* The sets for a module itself: its own names, and those of its ancestors but Object.
SetsUnder(name, ancestors, setsOfObject) ==
    LET looked == Subsequence(ancestors, {i \in DOMAIN ancestors : ancestors[i] = Object => name = Object})
    IN  Concat([i \in DOMAIN looked |-> IF looked[i] = Object THEN setsOfObject ELSE <<NamesIn(looked[i])>>])

\* Whether the constants of Object are those of the top level too depends on the order of the
\* calls, but where it is an ancestor.  Nothing is under what is no module.
FoundUnder(name) ==
    IF name \notin ModuleNames THEN {<<>>}
    ELSE {FoundIn(SetsUnder(name, Inherited(name), sets)) : sets \in {SetsOf(Object), <<NamesIn(Object)>>}}
IsWithinObject(context) ==
    /\ \/ \E i \in DOMAIN context : context[i] # NoModule /\ Normalized(context[i]) = Object
       \/ LastModule(context) # NoModule /\ Namespace(LastModule(context)) = Object
    /\ Object \notin Values(Inherited(ScopeOf(context)))

-----------------------------------------------------------------------------
(* Properties.                                                             *)

\* The lists of what is being built are, one after the other, the running calls, and none
\* is twice in a list: nothing is left behind by a call that has returned, and nothing is
\* lost to one that has not (building_ancestors).  Answers are kept for what is declared.
TypeOK ==
    /\ Len(stack) <= StackLimit
    /\ Concat(building) = [i \in DOMAIN stack |-> stack[i].node]
    /\ \A i \in DOMAIN building :
          /\ building[i] # <<>>
          /\ \A j, k \in DOMAIN building[i] : j # k => building[i][j] # building[i][k]
    /\ \A m \in Methods : \A n \in DOMAIN caches[m] : IsSound(Node(m, n))
    /\ DOMAIN children = ModuleNames

\* Ancestors are ordered as in Ruby: what is prepended, itself, what is included, what the
\* super class has, the last mixin first, with the arguments of every step put in, whatever
\* the cache has from earlier calls and from calls that raised (instance_ancestors,
\* singleton_ancestors, interface_ancestors).
AncestorsAreOrdered ==
    IsAncestors /\ HasValue /\ ~HasCycle(Above({Node0})) => answer.result.value = Linearization(Node0)

\* There are ancestors unless there is a cycle, or a fault, in what they are made of, self
\* types of modules included, which "Ensure there is no loop in ancestors chain"
\* (ancestor_builder.rb:533); and what is raised says which.  A cycle of super classes
\* that is met by their singletons is found by the end of the stack: each of them gets a
\* list of its own (ancestor_builder.rb:605).
CyclesAreRefused == IsAncestors => IsRight(Above({Node0}), answer.result)

\* A constant is the first that is found going out from where it is written, then up the
\* ancestors, then at the top level; the constants under a module are its own, then those
\* of its ancestors but Object: whatever was asked before, although a call for a class puts
\* the top level into the table of Object (constant_resolver.rb:193).  What that is
\* seen by is left open: the children of Object, and what is written in Object but does not
\* inherit from it.
ConstantsAreFound ==
    /\ Asked("constants") /\ HasValue /\ ~IsWithinObject(answer.request.context) =>
           answer.result.value = FoundIn(SetsOfContext(answer.request.context))
    /\ Asked("children") /\ HasValue => answer.result.value \in FoundUnder(Normalized(answer.request.name))
=============================================================================
