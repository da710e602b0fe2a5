------------------------------ MODULE MCService ------------------------------
(* Service on small instances: command a of an agent and h of a console, the   *)
(* blocking call x, the opens o1 and o2 and the close k of a lease.          *)
EXTENDS Service

CONSTANTS a, h, x, o1, o2, k

MCHuman == Cmd \cap {h}
MCPrio == [c \in Cmd |-> IF c = h THEN 100 ELSE 10]

\* Two handoffs against a console line or a blocking call, one against both;
\* one against an agent's command, two opens, or an open and a close.
MCLoad == {[cmds |-> {h}, pending |-> 1, ops |-> {}, handoffs |-> 2],
           [cmds |-> {}, pending |-> 1, ops |-> {x}, handoffs |-> 2],
           [cmds |-> {h}, pending |-> 1, ops |-> {x}, handoffs |-> 1],
           [cmds |-> {a}, pending |-> 1, ops |-> {}, handoffs |-> 1],
           [cmds |-> {}, pending |-> 1, ops |-> {o1, o2}, handoffs |-> 1],
           [cmds |-> {}, pending |-> 1, ops |-> {o1, k}, handoffs |-> 1]}
==============================================================================
