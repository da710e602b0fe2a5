------------------------------ MODULE MCUartTx ------------------------------
(* UartTx for several crews of writers: an agent's command and a flasher,   *)
(* the holder of an interactive lease, a login probe.  Only the writers of  *)
(* the chosen crew act, and the parts of the gate that concern none of them *)
(* stay as they are.  freeze_tx meets the holder and the probe only, and    *)
(* the holder alone sends MaxSends payloads.                                *)
EXTENDS UartTx

CONSTANTS agent, flasher, lessee, prober, Crews

VARIABLE crew

MCClass == [w \in Writer |-> CASE w = agent -> "agent"
                               [] w = flasher -> "flash"
                               [] w = lessee -> "interactive"
                               [] w = prober -> "system_probe"]

MCInit == Init /\ crew \in Crews

MCNext ==
  /\ Next
  /\ UNCHANGED crew
  /\ \A w \in Writer \ crew : pc'[w] = "idle" /\ ~Revoked(w)'
  /\ lessee \notin crew =>
       /\ gateLease' = None
       /\ ownerGen' # ownerGen => draining' # draining
  /\ prober \notin crew =>
       /\ ~probeQuiet'
       /\ loginFloor' = 0
       /\ ~walBad'
  /\ flasher \notin crew => ~gateQuiet' /\ ~flash'
  /\ flasher \in crew => UNCHANGED <<gateGen, frz>>
  /\ \A w \in crew \ {lessee} : sends'[w] <= 1

MCSpec == MCInit /\ [][MCNext]_<<vars, crew>>
==============================================================================
