------------------------------ MODULE MCBuilders ------------------------------
(* One ancestor builder that serves a constant resolver, and then a         *)
(* definition builder, of one environment: what is left in it by the        *)
(* questions of the one, and by what they raised, is what the other finds.  *)
(* Most environments are for one of them (MCHierarchy, MCDefinitions).      *)
EXTENDS MCHierarchy

CONSTANT Absent   \* as in DefinitionBuilder

VARIABLES definitions, methods, frames, calls,   \* of the definition builder
          definition                             \* its answer

Defining == INSTANCE MCDefinitions WITH answer <- definition, Cases <- {}

definitionVars == <<definitions, methods, frames, calls, definition>>

\* Environments for definitions have no constants but modules.
WithoutConstants(environment) == environment @@ [constant_decls |-> {}, type_alias_decls |-> <<>>]
Serving(environment, asked, called) == [program |-> environment, requests |-> asked, calls |-> called]

\* Ancestors and constants are asked for before the definitions.
AskedBefore == <<Singleton("A"), [op |-> "constants", context |-> <<A0>>], [op |-> "interface_ancestors", name |-> <<"_J">>]>>

BuilderCases ==
  {Serving(case.program, case.requests, <<>>) : case \in Cases}
    \cup {Serving(WithoutConstants(case.program), <<>>, case.calls) : case \in Defining!AllCases}
    \cup {Serving(WithoutConstants(case.program), AskedBefore, case.calls) :
            case \in Defining!FaultCases \cup Defining!UpdateCases}

BuildersInit ==
  /\ \E case \in BuilderCases : program = case.program /\ requests = case.requests /\ calls = case.calls
  /\ ResolverInit /\ Defining!DefinitionInit

\* The constant resolver is asked, or the builder for ancestors, or a validator.
AskFirst ==
  /\ requests # <<>>
  /\ ResolverNext \/ AnswerCircular \/ AnswerRegular
  /\ UNCHANGED definitionVars

CallThen ==
  /\ requests = <<>>
  /\ Defining!DefinitionNext
  /\ answer' = None
  /\ UNCHANGED <<resolverVars, requests>>

RestThen == requests = <<>> /\ calls = <<>> /\ UNCHANGED <<vars, definitionVars>>

BuildersNext == AskFirst \/ CallThen \/ RestThen

BuildersSpec == BuildersInit /\ [][BuildersNext]_<<vars, definitionVars>>

-----------------------------------------------------------------------------
(* The properties of Definitions, which say what they are, of the answers   *)
(* of this definition builder.                                              *)

\* The methods of a definition are those that Ruby finds, and `super` after them.
MethodsFollowAncestors == Defining!MethodsFollowAncestors

\* An instance variable has the type of the declaration that is met last on the way down.
VariablesFollowAncestors == Defining!VariablesFollowAncestors

\* `new`, and its aliases, take what `initialize` takes.
NewFollowsInitialize == Defining!NewFollowsInitialize

\* There is a definition unless something is wrong in what it is made of, and what is raised
\* says what.
FaultsAreRaised == Defining!FaultsAreRaised

\* No definition is built while it is being built.
BuildsAreNotNested == Defining!BuildsAreNotNested
=============================================================================
