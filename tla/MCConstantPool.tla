---------------------------- MODULE MCConstantPool ----------------------------
(* Instances of ConstantPool: the hashes make texts collide at every        *)
(* capacity the pool passes through, and wrap around the end of the table.  *)
EXTENDS ConstantPool, TLC

CONSTANTS t1, t2, t3

\* t1 and t2 share the last slot of every capacity up to 8; t3 shares it in
\* a table of 2 and 4 slots and leaves it in a table of 8.
CollidingHash == (t1 :> 7) @@ (t2 :> 15) @@ (t3 :> 3)
=============================================================================
