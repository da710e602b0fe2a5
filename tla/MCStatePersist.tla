--------------------------- MODULE MCStatePersist ---------------------------
(* Instances of StatePersist; every constant is given by the cfg.            *)
EXTENDS StatePersist
==============================================================================
