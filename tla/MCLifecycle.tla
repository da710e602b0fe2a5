----------------------------- MODULE MCLifecycle -----------------------------
(* Instances of SessionLifecycle: s1 is configured for d1, s2 for d2.        *)
EXTENDS SessionLifecycle

CONSTANTS s1, s2, d1, d2, d3

MCHome == [s \in Session |-> IF s = s1 THEN d1 ELSE d2]
==============================================================================
