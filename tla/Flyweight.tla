------------------------------ MODULE Flyweight ------------------------------
(***************************************************************************)
(* What TypeName.[] promises (lib/rbs/type_name.rb): one canonical object  *)
(* for every key, created by the first request that needs it and returned  *)
(* by every request from then on, whichever thread asks.                   *)
(***************************************************************************)
EXTENDS Naturals

CONSTANTS Key,      \* the (path, absolute, name) triples that are asked for
          Object    \* the objects that may be returned

VARIABLES table,    \* the canonical object of a key, or nil
          got       \* the objects returned so far, per key

NIL == 0

Init == table = [k \in Key |-> NIL] /\ got = [k \in Key |-> {}]

\* The first request for k makes its object: a new one.
Create(k) ==
  /\ table[k] = NIL
  /\ table'[k] \in Object \ {NIL}
  /\ \A j \in Key : table'[k] # table[j]
  /\ table' = [table EXCEPT ![k] = table'[k]]
  /\ UNCHANGED got

Return(k) ==
  /\ table[k] # NIL
  /\ got' = [got EXCEPT ![k] = @ \cup {table[k]}]
  /\ UNCHANGED table

Next == \E k \in Key : Create(k) \/ Return(k)

Spec == Init /\ [][Next]_<<table, got>>
=============================================================================
