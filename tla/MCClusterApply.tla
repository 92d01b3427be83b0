--------------------------- MODULE MCClusterApply ---------------------------
(* Small instances of ClusterApply for TLC.                                *)
EXTENDS ClusterApply

\* c1 asks for a plugin config, c2 for a policy.
CONSTANTS c1, c2

\* They have one annotation in common; the other is left behind when c1 becomes c2.
CONSTANTS k1, k2
MCWrites == [c \in {c1, c2} |-> IF c = c1 THEN {k1, k2} ELSE {k2}]

=============================================================================
