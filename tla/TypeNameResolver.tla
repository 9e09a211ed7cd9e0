--------------------------- MODULE TypeNameResolver ---------------------------
(***************************************************************************)
(* How a type name written in a signature becomes an absolute one,         *)
(* lib/rbs/resolver/type_name_resolver.rb, for class, module and alias     *)
(* names and for type aliases and interfaces.  A name is looked for in the *)
(* modules it is written in, innermost first; a class or module alias on   *)
(* its path is replaced by what it stands for, resolved where the alias    *)
(* was declared.  Answers are kept in a cache.                             *)
(*                                                                         *)
(* The resolution itself is a recursive operator; the specification calls  *)
(* the two public methods one after the other on one resolver.             *)
(***************************************************************************)
EXTENDS Naturals, Sequences

CONSTANTS ClassId,      \* names that start with an upper case letter
          Program,      \* what may be declared: records of names and aliases
          Query,        \* the type names that are asked for
          Contexts,     \* the module nestings they are asked in, outermost first
          MaxCalls      \* bound: calls of one resolver

VARIABLES program,   \* all_names and aliases, as TypeNameResolver.build left them
          cache,     \* context and type name -> the answer
          last,      \* the last call and its answer
          calls

vars == <<program, cache, last, calls>>

\* Answers: an absolute name, `nil`, or the `false` of a cyclic alias.
Found(path) == [is |-> "name", path |-> path]
Nil == [is |-> "nil", path |-> <<>>]
Cyclic == [is |-> "false", path |-> <<>>]

IsName(answer) == answer.is = "name"

\* A context whose innermost module is `false`, not a name.
NoModule == <<>>

IsClass(name) == name.path[Len(name.path)] \in ClassId

\* has_type_name?, and has_type_name? or aliased_name?
Declared(path) == path \in program.names
KnownPaths == program.names \cup DOMAIN program.aliases

Greatest(S) == CHOOSE n \in S : \A m \in S : m <= n

-----------------------------------------------------------------------------

\* The name in the innermost module of the context that makes it one of the paths, or
\* else at the top level.
Innermost(id, context, paths) ==
  LET Scopes == {i \in DOMAIN context : context[i] # NoModule /\ Append(context[i], id) \in paths}
  IN  IF Scopes # {} THEN Found(Append(context[Greatest(Scopes)], id))
      ELSE IF <<id>> \in paths THEN Found(<<id>>) ELSE Nil

\* resolve_head_namespace, or its counterpart for an absolute name.
ResolveHeadNamespace(id, absolute, context) ==
  Innermost(id, IF absolute THEN <<>> ELSE context, KnownPaths)

\* resolve_type_name: a type alias or an interface, without a namespace.
ResolveTypeName(id, context) == Innermost(id, context, program.names)

RECURSIVE ResolveNamespace0(_, _, _), WalkTail(_, _, _)

\* A mutant of NormalizeNamespace: the alias is read where it is used.
NormalizeAtTop(path, visited) ==
  IF path \in visited THEN Cyclic
  ELSE ResolveNamespace0(program.aliases[path].old, <<>>, visited \cup {path})

\* normalize_namespace: the alias is resolved where it was declared; an alias that
\* is being resolved already is cyclic.
NormalizeNamespace(path, visited) ==
  IF path \in visited THEN Cyclic
  ELSE ResolveNamespace0(program.aliases[path].old, program.aliases[path].context,
                         visited \cup {path})

\* `tail.inject(head)` of resolve_namespace0.
WalkTail(namespace, tail, visited) ==
  IF tail = <<>> THEN Found(namespace)
  ELSE LET path == Append(namespace, Head(tail))
           m == NormalizeNamespace(path, visited)
       IN  CASE Declared(path) -> WalkTail(path, Tail(tail), visited)
             [] path \notin KnownPaths -> Nil
             [] OTHER -> IF IsName(m) THEN WalkTail(m.path, Tail(tail), visited) ELSE m

ResolveNamespace0(name, context, visited) ==
  LET head == ResolveHeadNamespace(Head(name.path), name.absolute, context)
      m == NormalizeNamespace(head.path, visited)
  IN  CASE head = Nil -> Nil
        [] head # Nil /\ head.path \notin DOMAIN program.aliases ->
             WalkTail(head.path, Tail(name.path), visited)
        [] OTHER -> IF IsName(m) THEN WalkTail(m.path, Tail(name.path), visited) ELSE m

Front(path) == SubSeq(path, 1, Len(path) - 1)

\* What `resolve` computes when the cache has no answer.
ResolveUncached(name, context) ==
  LET id == name.path[Len(name.path)]
      namespace == ResolveNamespace0([name EXCEPT !.path = Front(name.path)], context, {})
      path == Append(namespace.path, id)
      class == ResolveNamespace0(name, context, {})
  IN  CASE IsClass(name) -> IF IsName(class) THEN class ELSE Nil
        [] ~IsClass(name) /\ Front(name.path) = <<>> -> ResolveTypeName(id, context)
        [] OTHER -> IF IsName(namespace) /\ Declared(path) THEN Found(path) ELSE Nil

-----------------------------------------------------------------------------

Init ==
  /\ program \in Program
  /\ cache = <<>>
  /\ last = [method |-> "none"]
  /\ calls = 0

Answer(method, name, context, answer) ==
  /\ last' = [method |-> method, name |-> name, context |-> context, answer |-> answer]
  /\ calls' = calls + 1
  /\ UNCHANGED program

\* An absolute name that is declared is its own answer, and is not cached.
ResolveAbsolute(method, name, context) ==
  /\ name.absolute /\ Declared(name.path)
  /\ Answer(method, name, context, Found(name.path))
  /\ UNCHANGED cache

\* try_cache, found.
Recall(method, name, context) ==
  /\ ~(name.absolute /\ Declared(name.path))
  /\ <<context, name>> \in DOMAIN cache
  /\ Answer(method, name, context, cache[<<context, name>>])
  /\ UNCHANGED cache

\* try_cache, not found: what `resolve` computed is kept, nil too.
Resolve(name, context) ==
  /\ ~(name.absolute /\ Declared(name.path))
  /\ <<context, name>> \notin DOMAIN cache
  /\ LET answer == ResolveUncached(name, context)
     IN  /\ Answer("resolve", name, context, answer)
         /\ cache' = [k \in DOMAIN cache \cup {<<context, name>>} |->
                        IF k \in DOMAIN cache THEN cache[k] ELSE answer]

\* resolve_namespace returns nil and false past the cache.
ResolveNamespace(name, context) ==
  /\ ~(name.absolute /\ Declared(name.path))
  /\ <<context, name>> \notin DOMAIN cache
  /\ LET answer == ResolveNamespace0(name, context, {})
     IN  /\ Answer("resolve_namespace", name, context, answer)
         /\ cache' = IF ~IsName(answer) THEN cache
                     ELSE [k \in DOMAIN cache \cup {<<context, name>>} |->
                             IF k \in DOMAIN cache THEN cache[k] ELSE answer]

\* The module nestings a program has: their modules are declared.
Nestings ==
  {c \in Contexts : \A i \in DOMAIN c : c[i] = NoModule \/ Declared(c[i])}

Next ==
  /\ calls < MaxCalls
  /\ \E name \in Query, context \in Nestings :
       \/ ResolveAbsolute("resolve", name, context)
       \/ Recall("resolve", name, context)
       \/ Resolve(name, context)
       \/ /\ IsClass(name)
          /\ \/ ResolveAbsolute("resolve_namespace", name, context)
             \/ Recall("resolve_namespace", name, context)
             \/ ResolveNamespace(name, context)

Spec == Init /\ [][Next]_vars

-----------------------------------------------------------------------------
(* The reference: names are rewritten, one alias or one step of the path   *)
(* at a time.  A name is cyclic when that never ends, here: not in a       *)
(* number of steps no terminating rewriting of the checked programs needs. *)

Steps == 24

Start(name, context) ==
  [at |-> ResolveHeadNamespace(Head(name.path), name.absolute, context),
   rest |-> Tail(name.path)]

IsNormal(goal) ==
  goal.at = Nil \/ (Declared(goal.at.path) /\ goal.rest = <<>>)

\* One rewriting of a goal that is not normal.
Rewrite(goal) ==
  LET here == goal.at.path
      next == Append(here, Head(goal.rest))
      new == Start(program.aliases[here].old, program.aliases[here].context)
  IN  IF Declared(here)
      THEN [at |-> IF next \in KnownPaths THEN Found(next) ELSE Nil, rest |-> Tail(goal.rest)]
      ELSE [at |-> new.at, rest |-> new.rest \o goal.rest]

RECURSIVE Rewritten(_, _)
Rewritten(goal, steps) ==
  IF steps = 0 \/ IsNormal(goal) THEN goal ELSE Rewritten(Rewrite(goal), steps - 1)

Meaning(name, context) ==
  LET goal == Rewritten(Start(name, context), Steps)
  IN  IF IsNormal(goal) THEN goal.at ELSE Cyclic

\* What a name of any kind means: a type alias is a name of a module, or it is
\* looked for as a module would be if it has no namespace.
TypeMeaning(name, context) ==
  LET id == name.path[Len(name.path)]
      namespace == Meaning([name EXCEPT !.path = Front(name.path)], context)
      path == Append(namespace.path, id)
  IN  CASE IsClass(name) -> Meaning(name, context)
        [] ~IsClass(name) /\ Front(name.path) = <<>> ->
             Innermost(id, IF name.absolute THEN <<>> ELSE context, program.names)
        [] OTHER -> IF IsName(namespace) /\ Declared(path) THEN Found(path) ELSE Nil

\* A declared absolute name means itself, whatever its namespace is.
MeansItself(name) == name.absolute /\ Declared(name.path)

-----------------------------------------------------------------------------

\* Both methods answer with what the name means, whatever the resolver was asked before:
\* an alias is expanded where it was declared, and the set of aliases being expanded
\* finds exactly the cycles.  For a name that means nothing, or is cyclic, `resolve` has
\* nil, and `resolve_namespace` nil or false.  (The absolute names of type aliases are
\* AbsoluteNamesAreNotSearched's.)
ResolveIsRewriting ==
  /\ last.method = "resolve" /\ (IsClass(last.name) \/ ~last.name.absolute) =>
       LET m == TypeMeaning(last.name, last.context)
       IN  last.answer = IF MeansItself(last.name) THEN Found(last.name.path)
                         ELSE IF IsName(m) THEN m ELSE Nil
  /\ last.method = "resolve_namespace" =>
       LET m == Meaning(last.name, last.context)
       IN  IF MeansItself(last.name) THEN last.answer = Found(last.name.path)
           ELSE IF IsName(m) THEN last.answer = m ELSE ~IsName(last.answer)

\* sig/resolver/type_name_resolver.rbs:15 of resolve: "Returns `nil` if cannot find
\* associated type name": `::t` is the t of the top level or nothing.
AbsoluteNamesAreNotSearched ==
  last.method = "resolve" /\ last.name.absolute /\ ~IsClass(last.name) =>
    last.answer = TypeMeaning(last.name, last.context)
=============================================================================
