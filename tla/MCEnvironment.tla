---------------------------- MODULE MCEnvironment ----------------------------
(* Environments, and resolvers that are built from them.  Six sources open  *)
(* a class in two languages, declare things of one name twice, and alias    *)
(* modules, an alias, and each other in a cycle; and one source is a whole  *)
(* program of A, B, A::B and a type alias t, at the top or in A, where each *)
(* of the three is undeclared, a module, or an alias of another name,       *)
(* itself included.                                                         *)
EXTENDS Environment

VARIABLES program, cache, last, calls   \* of the resolver

resolverVars == <<program, cache, last, calls>>

Name(absolute, path) == [absolute |-> absolute, path |-> path]
Relative(path) == Name(FALSE, path)

Top == <<>>
InA == <<<<"A">>>>

Queries == {Relative(<<"A">>), Relative(<<"B">>), Relative(<<"A", "B">>), Relative(<<"M">>), Absolute(<<"A", "B">>),
            Relative(<<"t">>), Absolute(<<"t">>), Relative(<<"B", "t">>)}

\* A resolver of some program, without calls, and the one that is asked.
Resolver(p) == INSTANCE TypeNameResolver WITH
  program <- p, cache <- <<>>, last <- <<>>, calls <- 0,
  ClassId <- {"A", "B", "M"}, Program <- {}, Query <- {}, Contexts <- {}, MaxCalls <- 0
Asked == INSTANCE TypeNameResolver WITH
  ClassId <- {"A", "B", "M"}, Program <- {}, Query <- Queries, Contexts <- {Top, InA, Append(InA, <<>>)}, MaxCalls <- 2

ResolvedIn(p, name, context) ==
  IF name.absolute /\ name.path \in p.names THEN Found(name.path)
                                            ELSE Resolver(p)!ResolveUncached(name, context)

ResolvedNamespaceIn(p, name, context) ==
  IF name.absolute /\ name.path \in p.names THEN Found(name.path)
                                            ELSE Resolver(p)!ResolveNamespace0(name, context, {})

-----------------------------------------------------------------------------
(* Sources.                                                                 *)

Declare(kind, name, context) ==
  [kind |-> kind, name |-> name, context |-> context, old |-> Relative(name)]
Alias(name, context, old) ==
  [kind |-> "module alias", name |-> name, context |-> context, old |-> old]

SourceOf(path, language, resolve, decls) ==
  [path |-> path, language |-> language, resolve |-> resolve, decls |-> decls]

\* module B; class A; module A::B; type alias A::t
Opening == SourceOf("a.rbs", "rbs", TRUE,
  <<Declare("module", <<"B">>, <<>>), Declare("class", <<"A">>, <<>>),
    Declare("module", <<"A", "B">>, InA), Declare("type alias", <<"A", "t">>, InA)>>)

\* class A and, in it, module M = B, in Ruby; B is found in A or at the top level
Aliasing == SourceOf("a.rb", "ruby", TRUE,
  <<Declare("class", <<"A">>, <<>>), Alias(<<"A", "M">>, InA, Relative(<<"B">>))>>)

\* interface _I; module B; module M = ::A::M
Outer == SourceOf("b.rbs", "rbs", TRUE,
  <<Declare("interface", <<"_I">>, <<>>), Declare("module", <<"B">>, <<>>),
    Alias(<<"M">>, <<>>, Absolute(<<"A", "M">>))>>)

\* a constant that has the name of the module A::B
Constants == SourceOf("c.rb", "ruby", TRUE,
  <<Declare("constant", <<"A", "B">>, <<>>)>>)

\* module B = M; module M = ::B; and the type A::t once more, as it is in Opening
CyclicAliases == SourceOf("d.rbs", "rbs", TRUE,
  <<Alias(<<"B">>, <<>>, Relative(<<"M">>)), Alias(<<"M">>, <<>>, Absolute(<<"B">>)),
    Declare("type alias", <<"A", "t">>, <<>>)>>)

\* module B = M, with `# resolve-type-names: false`
Unresolved == SourceOf("e.rbs", "rbs", FALSE, <<Alias(<<"B">>, <<>>, Relative(<<"M">>))>>)

Sources == {Opening, Aliasing, Outer, Constants, CyclicAliases, Unresolved}

Names == {<<"M">>, <<"A", "M">>, <<"A", "B">>}

\* What a name may be declared as, if at all.
Targets == {Relative(<<"A">>), Relative(<<"B">>), Relative(<<"A", "B">>), Absolute(<<"B">>), Absolute(<<"A", "B">>)}
Declarations(name, contexts) ==
  {<<>>, <<Declare("module", name, Top)>>} \cup {<<Alias(name, c, t)>> : c \in contexts, t \in Targets}

\* A nested alias is declared inside `module A`, or as A::B at the top level.
ContextsOfNested(a) == IF a # <<>> /\ a[1].kind = "module" THEN {Top, InA} ELSE {Top}
WholePrograms ==
  UNION {{SourceOf("program.rbs", "rbs", TRUE, a \o b \o n \o t) :
            n \in Declarations(<<"A", "B">>, ContextsOfNested(a)),
            t \in {<<>>} \cup {<<Declare("type alias", name, Top)>> : name \in {<<"t">>, <<"A", "t">>}}} :
         a \in Declarations(<<"A">>, {Top}), b \in Declarations(<<"B">>, {Top})}

-----------------------------------------------------------------------------
(* The two together.                                                        *)

IsBuilt == last.method # "not built"

\* A whole program is being added to the environment.
AddingProgram(source) ==
  /\ envs = <<[NewEnvironment(1) EXCEPT !.sources = <<source>>]>>
  /\ entries = <<>> /\ caches = << <<>> >> /\ raised = {} /\ failed = {}
  /\ adding = [Nothing EXCEPT !.env = 1, !.decls = source.decls]

NamingInit ==
  /\ Init \/ \E source \in WholePrograms : AddingProgram(source)
  /\ program = [names |-> {}, aliases |-> <<>>] /\ cache = <<>> /\ last = [method |-> "not built"] /\ calls = 0

\* Nothing more is done with a whole program than to resolve names in it.
ChangeEnvironments ==
  /\ ~IsBuilt
  /\ envs[1].sources # <<>> /\ envs[1].sources[1].path = "program.rbs" => ~Idle
  /\ Next
  /\ UNCHANGED resolverVars

\* TypeNameResolver.build, of the only environment there is, before it was asked anything.
BuildResolver ==
  /\ ~IsBuilt /\ Idle
  /\ Len(envs) = 1 /\ raised = {} /\ caches = << <<>> >>
  /\ program' = ProgramOf(1) /\ last' = [method |-> "none"]
  /\ UNCHANGED <<cache, calls, vars>>

AskResolver == IsBuilt /\ Asked!Next /\ UNCHANGED vars

NamingNext == ChangeEnvironments \/ BuildResolver \/ AskResolver

NamingSpec == NamingInit /\ [][NamingNext]_<<vars, resolverVars>>

\* A resolver that was built from an environment answers with what the name means in it,
\* whatever it was asked before (TypeNameResolver says what that is).
ResolveIsRewriting == Asked!ResolveIsRewriting

\* sig/resolver/type_name_resolver.rbs:15 of resolve: "Returns `nil` if cannot find
\* associated type name": `::t` is the t of the top level or nothing.
AbsoluteNamesAreNotSearched == Asked!AbsoluteNamesAreNotSearched
=============================================================================
