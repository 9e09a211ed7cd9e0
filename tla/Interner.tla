------------------------------ MODULE Interner ------------------------------
(***************************************************************************)
(* What a constant pool promises (include/rbs/util/rbs_constant_pool.h):   *)
(* every text gets one id, ids count up from 1 in the order the texts were *)
(* first inserted, an id keeps its text, and looking a text up never       *)
(* changes the pool.  Id 0, RBS_CONSTANT_ID_UNSET, means "no constant".    *)
(* ConstantPool implements this specification.                             *)
(***************************************************************************)
EXTENDS Naturals, Sequences

CONSTANTS Text

VARIABLES names,    \* names[id] is the text of the constant id
          answer    \* what the last call was asked for, and the id it returned

vars == <<names, answer>>

UNSET == 0

Knows(t) == \E id \in DOMAIN names : names[id] = t

\* id is the right answer for the text t in the pool ns.
Answers(ns, t, id) == id \in DOMAIN ns /\ ns[id] = t

-----------------------------------------------------------------------------

Init == names = <<>> /\ answer = [text |-> {}, id |-> UNSET]

\* An insertion of a text the pool already has.
Reuse(t) ==
  \E id \in DOMAIN names :
     /\ Answers(names, t, id)
     /\ answer' = [text |-> t, id |-> id]
     /\ names' = names

\* An insertion of a text the pool does not have.
Add(t) ==
  /\ ~Knows(t)
  /\ names' = Append(names, t)
  /\ answer' = [text |-> t, id |-> Len(names) + 1]

\* A lookup of a text the pool does not have, or an insertion the pool had no
\* memory for.
Refuse(t) == answer' = [text |-> t, id |-> UNSET] /\ UNCHANGED names

\* The pool is freed; no id means anything from here on.
Close == names' = <<>> /\ UNCHANGED answer

Next == (\E t \in Text : Reuse(t) \/ Add(t) \/ Refuse(t)) \/ Close

Spec == Init /\ [][Next]_vars
=============================================================================
