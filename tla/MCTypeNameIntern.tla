-------------------------- MODULE MCTypeNameIntern --------------------------
(* Requests that share a namespace, share a prefix, and differ in the       *)
(* absolute flag only.                                                      *)
EXTENDS TypeNameIntern

CONSTANTS A, B, n, m

Paths == {<<>>, <<A>>, <<A, B>>}

Keys == {[path |-> <<A, B>>, absolute |-> TRUE, name |-> n],
         [path |-> <<A, B>>, absolute |-> TRUE, name |-> m],
         [path |-> <<A>>, absolute |-> FALSE, name |-> n]}
=============================================================================
