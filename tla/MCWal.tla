------------------------------- MODULE MCWal -------------------------------
(* Instances of Wal; every constant is given by the cfg.                    *)
EXTENDS Wal
=============================================================================
