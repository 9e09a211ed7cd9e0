------------------------------ MODULE TypeAliases ------------------------------
(***************************************************************************)
(* What is checked of recursive type aliases:                              *)
(* lib/rbs/type_alias_dependency.rb finds those that never pass a type     *)
(* constructor, and lib/rbs/type_alias_regularity.rb those that meet       *)
(* themselves with other arguments.                                        *)
(*                                                                         *)
(* Aliases are a function from names to their parameters and their type.   *)
(* A type is a record: a variable, untyped, an alias with its arguments, a *)
(* union (or an intersection, or an optional), or any other type with its  *)
(* parts (a class with arguments, a tuple, a record, a proc).              *)
(***************************************************************************)
EXTENDS Hierarchy

LOCAL INSTANCE SequencesExt

Type(is, name, types) == [is |-> is, name |-> name, types |-> types]
Variable(name) == Type("variable", name, <<>>)
UntypedType == Type("untyped", "", <<>>)
Alias(name, args) == Type("alias", name, args)

-----------------------------------------------------------------------------
(* TypeAliasDependency                                                     *)

RECURSIVE direct_dependency(_)
\* direct_dependency: the aliases that are reached without a constructor.
direct_dependency(type) ==
    CASE type.is = "union" -> UNION {direct_dependency(type.types[i]) : i \in DOMAIN type.types}
      [] type.is = "alias" -> {type.name}
      [] OTHER -> {}

RECURSIVE dependency(_, _, _, _, _)
\* A mutant of dependency: the alias it starts from is a dependency only where it is a
\* direct one.
dependency_if_direct(direct, start, vertex, nested, found) ==
    LET here == IF start # vertex \/ start \in direct[start] THEN found \cup {vertex} ELSE found
        Visit(f, name) == IF name \in f THEN f ELSE dependency(direct, start, name, start = name, f)
    IN  FoldLeft(Visit, here, SetToSeq(direct[vertex]))

\* dependency: depth first; `found` is dependencies[start].
dependency(direct, start, vertex, nested, found) ==
    LET here == IF start # vertex \/ start \in direct[start] \/ nested THEN found \cup {vertex} ELSE found
        Visit(f, name) == IF name \in f THEN f ELSE dependency(direct, start, name, start = name, f)
    IN  FoldLeft(Visit, here, SetToSeq(direct[vertex]))

\* transitive_closure, and circular_definition? of every alias
Circular(aliases) ==
    LET direct == [a \in DOMAIN aliases |-> direct_dependency(aliases[a].type)]
    IN  {a \in DOMAIN aliases : a \in dependency(direct, a, a, FALSE, {})}

-----------------------------------------------------------------------------
(* TypeAliasRegularity                                                     *)

RECURSIVE each_alias_type(_)
\* each_alias_type: the aliases in a type, also those in arguments of others.
each_alias_type(type) ==
    LET parts == FlattenSeq([i \in DOMAIN type.types |-> each_alias_type(type.types[i])])
    IN  IF type.is = "alias" THEN <<type>> \o parts ELSE parts

RECURSIVE Instantiated(_, _, _)
Instantiated(type, params, args) ==
    IF type.is = "variable"
    THEN IF type.name \in ToSet(params) THEN args[CHOOSE i \in DOMAIN params : params[i] = type.name] ELSE type
    ELSE [type EXCEPT !.types = [i \in DOMAIN @ |-> Instantiated(@[i], params, args)]]

\* DefinitionBuilder#expand_alias2, of as many arguments as there are parameters
expand_alias2(aliases, name, args) == Instantiated(aliases[name].type, aliases[name].params, args)

\* The aliases in the definition of one: the children of each_mutual_alias_defs.
Mentions(aliases, name) ==
    {t.name : t \in ToSet(each_alias_type(expand_alias2(aliases, name, [i \in DOMAIN aliases[name].params |-> UntypedType])))}

RECURSIVE Closed(_, _)
\* names, with all aliases that they mention, and so on.
Closed(aliases, names) ==
    LET more == names \cup UNION {Mentions(aliases, a) : a \in names}
    IN  IF more = names THEN names ELSE Closed(aliases, more)

\* TSort.each_strongly_connected_component
MutualAliases(aliases) ==
    LET reached == [a \in DOMAIN aliases |-> Closed(aliases, {a})]
    IN  {{b \in reached[a] : a \in reached[b]} : a \in DOMAIN aliases}

compatible_args(args1, args2) ==
    \A i \in DOMAIN args1 : args1[i] = UntypedType \/ args2[i] = UntypedType \/ args1[i] = args2[i]

RECURSIVE validate_alias_type(_, _, _, _)
\* validate_alias_type.  `seen` has `types`, the type each alias was first met as, and the
\* aliases of `diagnostics`.
validate_alias_type(aliases, type, names, seen) ==
    LET name == type.name
        Visit(s, t) == validate_alias_type(aliases, t, names, s)
        met == [seen EXCEPT !.types = [a \in DOMAIN @ \cup {name} |-> IF a = name THEN type ELSE @[a]]]
    IN  CASE name \notin names -> seen
          [] name \in DOMAIN seen.types ->
                 IF compatible_args(seen.types[name].types, type.types) THEN seen
                 ELSE [seen EXCEPT !.diagnostics = @ \cup {name}]
          [] OTHER -> FoldLeft(Visit, met, each_alias_type(expand_alias2(aliases, name, type.types)))

\* build_alias_type: an alias with its own parameters
AliasType(aliases, name) == Alias(name, [i \in DOMAIN aliases[name].params |-> Variable(aliases[name].params[i])])

IsGeneric(aliases, name) == aliases[name].params # <<>>

\* validate, of aliases that refer to each other: it starts from the one that comes first,
\* of those that have parameters.
Diagnosed(aliases, names, first) ==
    validate_alias_type(aliases, AliasType(aliases, first), names, [types |-> <<>>, diagnostics |-> {}]).diagnostics

\* Which of the aliases that refer to each other is met first is up to the order of the
\* declarations.
Regularity(aliases) ==
    UNION {{[names |-> names, first |-> first, diagnostics |-> Diagnosed(aliases, names, first)] :
               first \in {a \in names : IsGeneric(aliases, a)}} : names \in MutualAliases(aliases)}

-----------------------------------------------------------------------------
(* The reference for type aliases: unfolding them.                         *)

RECURSIVE Unfolded(_, _)
\* The aliases that are met outside of all constructors, when those in names are unfolded
\* n times.
Unfolded(names, n) ==
    IF n = 0 THEN names
    ELSE Unfolded(UNION {direct_dependency(Aliases[a].type) : a \in names}, n - 1)

RECURSIVE Instances(_, _, _)
\* The instances of aliases in names that are met when one is unfolded n times.
Instances(types, names, n) ==
    LET Within(t) == {u \in Values(each_alias_type(expand_alias2(Aliases, t.name, t.types))) : u.name \in names}
    IN  IF n = 0 THEN types ELSE Instances(types \cup UNION {Within(t) : t \in types}, names, n - 1)

RECURSIVE HasUntyped(_)
HasUntyped(type) == type = UntypedType \/ \E i \in DOMAIN type.types : HasUntyped(type.types[i])

-----------------------------------------------------------------------------
(* Properties.                                                             *)

\* An alias is circular exactly if unfolding it comes back to it without passing a
\* constructor (TypeAliasDependency).  The instances met by unfolding a generic alias, of
\* those that refer to each other, are one for each alias if nothing is diagnosed, and are
\* not if something is (TypeAliasRegularity); `untyped` is compatible with everything,
\* so what is first met with it is not told from others.
AliasesAreJudged ==
    /\ Asked("circular") =>
           answer.result.value =
               {a \in DOMAIN Aliases : \E n \in 1..Cardinality(DOMAIN Aliases) : a \in Unfolded({a}, n)}
    /\ Asked("regular") =>
           LET given == answer.result.value
               names == given.names
               met == Instances({AliasType(Aliases, given.first)}, names, Cardinality(names))
               isRegular == \A t, u \in met : t.name = u.name => t = u
           IN  /\ isRegular => given.diagnostics = {}
               /\ given.diagnostics = {} => isRegular \/ \E a \in names : HasUntyped(Aliases[a].type)
=============================================================================
