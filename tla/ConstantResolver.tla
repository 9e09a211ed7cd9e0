--------------------------- MODULE ConstantResolver ---------------------------
(***************************************************************************)
(* What a constant is in a context, or under a module,                     *)
(* lib/rbs/resolver/constant_resolver.rb.  The resolver has a table with   *)
(* the constants of every module, which it changes when it reads it, and a *)
(* cache for each of its two questions; it asks the ancestor builder, and  *)
(* is what makes the builder work here.                                    *)
(*                                                                         *)
(* A context is the sequence of the modules a constant is written in, the  *)
(* outermost first; NoModule is one that could not be named (`false`).     *)
(***************************************************************************)
EXTENDS AncestorBuilder

VARIABLES children,                \* Table#children_table
          context_constants_cache,
          child_constants_cache,
          requests,                \* history: what will be asked, and has been
          answer                   \* the last request and its answer

resolverVars == <<children, context_constants_cache, child_constants_cache>>

NoModule == <<>>
None == [is |-> "none"]
Nil == [is |-> "nil"]
Raised(error) == [is |-> "raised", error |-> error]
Answer(value) == [is |-> "value", value |-> value]

Simple(name) == name[Len(name)]
Namespace(name) == SubSeq(name, 1, Len(name) - 1)

\* A constant is its name: that of a class or module, of an alias, or of a constant.
ConstantNames == ModuleNames \cup AliasNames \cup program.constant_decls
ConstantsIn(names) ==
    [x \in {Simple(n) : n \in names} |-> CHOOSE n \in names : Simple(n) = x]

\* Table#toplevel
toplevel == ConstantsIn({n \in ConstantNames : Len(n) = 1})

\* Table#initialize.  A class, a module and a constant are in the module of their
\* namespace, and an alias is in the module that the namespace of its name means.
ParentOf(name) == IF name \in AliasNames THEN Normalized(Namespace(name)) ELSE Namespace(name)
NewChildren ==
    [m \in ModuleNames |-> ConstantsIn({n \in ConstantNames : Len(n) > 1 /\ ParentOf(n) = m})]

\* Environment#module_class_entry of a name, normalized
HasEntry(name) == name # NoModule /\ Normalized(name) \in ModuleNames

\* Hash#merge!
Merged(constants, others) ==
    [x \in DOMAIN constants \cup DOMAIN others |-> IF x \in DOMAIN others THEN others[x] ELSE constants[x]]

\* A Hash with one more key
With(cache, key, value) == [k \in DOMAIN cache \cup {key} |-> IF k = key THEN value ELSE cache[k]]

-----------------------------------------------------------------------------
(* The ancestors that count.                                               *)

\* `when AST::Members::Include, :super, nil`: `include` in Ruby code is another class.
Counts(ancestor) ==
    /\ ancestor.node.method = "instance_ancestors"
    /\ \/ ancestor.source.kind \in {"none", "super"}
       \/ ancestor.source.kind = "include" /\ ancestor.source.language = "rbs"

InstanceOf(name) == Node("instance_ancestors", name)
CountedAncestors(name) ==
    LET ancestors == Cached(InstanceOf(name))
        counted == Subsequence(ancestors, {i \in DOMAIN ancestors : Counts(ancestors[i])})
    IN  [i \in DOMAIN counted |-> counted[i].node.name]

\* The constants of modules, those of the first one in front of those of the others:
\* `reverse_each` and `merge!`.
Layered(modules, table) ==
    LET n == Len(modules)
        merged[k \in 0..n] == IF k = 0 THEN <<>> ELSE Merged(merged[k - 1], table[modules[n + 1 - k]])
    IN  merged[n]

-----------------------------------------------------------------------------
(* constants(context).                                                     *)

LastModule(context) == IF context = <<>> THEN NoModule ELSE context[Len(context)]

\* The module whose ancestors are looked at.
ScopeOf(context) == IF LastModule(context) = NoModule THEN Object ELSE Normalized(LastModule(context))

\* A mutant of WithToplevel: Object's own constants stay in front.
WithToplevelBehind(module) ==
    IF IsClass(module) /\ Object \in Values(CountedAncestors(module))
    THEN [children EXCEPT ![Object] = Merged(toplevel, @)] ELSE children

\* constants_from_ancestors puts the top level constants into the table of Object, when it
\* comes upon Object among the ancestors of a class.
WithToplevel(module) ==
    IF IsClass(module) /\ Object \in Values(CountedAncestors(module))
    THEN [children EXCEPT ![Object] = Merged(@, toplevel)] ELSE children

\* constants_from_ancestors
FromAncestors(module) ==
    Merged(Merged(children[Object], toplevel), Layered(CountedAncestors(module), WithToplevel(module)))

\* constants_from_context: the modules of the context, the last of them in front.
Around(context) ==
    LET modules == Subsequence(context, {i \in DOMAIN context : context[i] # NoModule})
        n == Len(modules)
    IN  [i \in 1..n |-> Normalized(modules[n + 1 - i])]
FromContext(context, table) == Layered(Around(context), table)

IsBroken(context) == \E i \in DOMAIN context : context[i] # NoModule /\ ~HasEntry(context[i])

\* constants_itself: the name of the last module, as the context has it; its namespace has to
\* be that of a module, and not of an alias.
IsUnplaced(context) ==
    LET last == LastModule(context)
    IN  last # NoModule /\ Len(last) > 1 /\ Namespace(last) \notin ModuleNames
ItselfIn(context, table) ==
    LET last == LastModule(context)
    IN  IF last = NoModule THEN <<>>
        ELSE [x \in {Simple(last)} |-> IF Len(last) = 1 THEN toplevel[x] ELSE table[Namespace(last)][x]]

ContextConstants(context) ==
    LET module == ScopeOf(context)
        table == WithToplevel(module)
    IN  Merged(Merged(FromAncestors(module), FromContext(context, table)), ItselfIn(context, table))

-----------------------------------------------------------------------------
(* children(module_name).                                                  *)

\* Object counts among its own ancestors only.
ChildConstants(name) ==
    LET ancestors == CountedAncestors(name)
    IN  Layered(Subsequence(ancestors, {i \in DOMAIN ancestors : ancestors[i] = Object => name = Object}), children)

-----------------------------------------------------------------------------
(* The calls.  One that needs ancestors waits until the builder has        *)
(* returned them; what the builder raises goes through.                    *)

Request == Head(requests)
IsAsked(op) == requests # <<>> /\ Request.op = op

Finish(result) ==
    /\ answer' = [request |-> Request, result |-> result]
    /\ requests' = Tail(requests)
    /\ goal' = NoGoal /\ failure' = "none"
    /\ UNCHANGED <<program, caches, stack, building>>

\* The builder is called, unless it has been.
AskBuilder(node) ==
    /\ goal = NoGoal
    /\ goal' = node
    /\ UNCHANGED <<program, caches, stack, building, failure, requests, answer>>

\* The calls of the builder's methods; a name is normalized by their callers.
AskAncestors ==
    /\ requests # <<>> /\ Request.op \in Methods
    /\ AskBuilder(Node(Request.op, Request.name))
    /\ UNCHANGED resolverVars
AnswerAncestors ==
    /\ requests # <<>> /\ Request.op \in Methods
    /\ HasReturned
    /\ Finish(Answer(Cached(goal)))
    /\ UNCHANGED resolverVars

Reraise ==
    /\ requests # <<>> /\ HasRaised
    /\ Finish(Raised(failure))
    /\ UNCHANGED resolverVars

RecallConstants ==
    /\ IsAsked("constants") /\ Request.context \in DOMAIN context_constants_cache
    /\ Finish(Answer(context_constants_cache[Request.context]))
    /\ UNCHANGED resolverVars
\* `or raise`, when the last module of the context is none.
RaiseConstants ==
    /\ IsAsked("constants") /\ Request.context \notin DOMAIN context_constants_cache
    /\ LastModule(Request.context) # NoModule /\ ~HasEntry(LastModule(Request.context))
    /\ Finish(Raised("RuntimeError"))
    /\ UNCHANGED resolverVars
AskConstants ==
    /\ IsAsked("constants") /\ Request.context \notin DOMAIN context_constants_cache
    /\ LastModule(Request.context) # NoModule => HasEntry(LastModule(Request.context))
    /\ AskBuilder(InstanceOf(ScopeOf(Request.context)))
    /\ UNCHANGED resolverVars
\* load_context_constants; nothing is kept for a context that is broken further out, or that
\* raises.
LoadContextConstants ==
    /\ IsAsked("constants") /\ Request.context \notin DOMAIN context_constants_cache
    /\ HasReturned
    /\ children' = WithToplevel(ScopeOf(Request.context))
    /\ \/ IsBroken(Request.context) /\ Finish(Nil) /\ UNCHANGED context_constants_cache
       \/ /\ ~IsBroken(Request.context) /\ IsUnplaced(Request.context)
          /\ Finish(Raised("RuntimeError")) /\ UNCHANGED context_constants_cache
       \/ /\ ~IsBroken(Request.context) /\ ~IsUnplaced(Request.context)
          /\ LET constants == ContextConstants(Request.context)
             IN  /\ Finish(Answer(constants))
                 /\ context_constants_cache' = With(context_constants_cache, Request.context, constants)
    /\ UNCHANGED child_constants_cache

RecallChildren ==
    /\ IsAsked("children") /\ Normalized(Request.name) \in DOMAIN child_constants_cache
    /\ Finish(Answer(child_constants_cache[Normalized(Request.name)]))
    /\ UNCHANGED resolverVars
AskChildren ==
    /\ IsAsked("children") /\ Normalized(Request.name) \notin DOMAIN child_constants_cache
    /\ HasEntry(Request.name)
    /\ AskBuilder(InstanceOf(Normalized(Request.name)))
    /\ UNCHANGED resolverVars
\* load_child_constants; there are none under what is no module.
LoadChildConstants ==
    /\ IsAsked("children") /\ Normalized(Request.name) \notin DOMAIN child_constants_cache
    /\ HasReturned \/ ~HasEntry(Request.name)
    /\ LET name == Normalized(Request.name)
           constants == IF HasEntry(Request.name) THEN ChildConstants(name) ELSE <<>>
       IN  /\ child_constants_cache' = With(child_constants_cache, name, constants)
           /\ Finish(Answer(constants))
    /\ UNCHANGED <<children, context_constants_cache>>

ResolverInit ==
    /\ BuilderInit
    /\ children = NewChildren
    /\ context_constants_cache = <<>> /\ child_constants_cache = <<>>
    /\ answer = None

ResolverNext ==
    \/ BuilderNext /\ UNCHANGED <<resolverVars, requests, answer>>
    \/ AskAncestors \/ AnswerAncestors \/ Reraise
    \/ RecallConstants \/ RaiseConstants \/ AskConstants \/ LoadContextConstants
    \/ RecallChildren \/ AskChildren \/ LoadChildConstants
=============================================================================
