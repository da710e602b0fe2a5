------------------------------ MODULE MCArbiter ------------------------------
(* CommandArbiter on small instances: a is typed by an agent before b, and h *)
(* is a console line of priority 100.                                        *)
EXTENDS CommandArbiter

CONSTANTS a, b, h

MCHuman == Cmd \cap {h}
MCPrio == [c \in Cmd |-> IF c = h THEN 100 ELSE 10]

\* a and b meet a limit of one; a and b, and a and h, share a queue of two.
MCLoad == {[cmds |-> {a, b}, pending |-> 1],
           [cmds |-> {a, b}, pending |-> 2],
           [cmds |-> {a, h}, pending |-> 2]}
==============================================================================
