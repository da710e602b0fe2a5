----------------------------- MODULE MCConsoles -----------------------------
(* An instance of Consoles with two consoles.  A behaviour starts with one   *)
(* of the loads, so that every pair of actors meets without all of them      *)
(* meeting at once.                                                          *)
EXTENDS Consoles

Load(attach, cmd, open, send, close, detach, input, invalidate, lost) ==
  [attach |-> attach, cmd |-> cmd, open |-> open, send |-> send, close |-> close,
   detach |-> detach, input |-> input, invalidate |-> invalidate, peer |-> lost]

MCLoads ==
  {Load(1, 1, 0, 0, 0, 0, 3, 1, 0),   \* commands while a human types
   Load(1, 2, 0, 0, 0, 0, 1, 0, 0),   \* a command after a replay
   Load(1, 1, 1, 1, 0, 0, 1, 0, 0),   \* a lease, its expiry and a command
   Load(1, 0, 1, 1, 0, 0, 1, 1, 0),   \* a lease across an invalidation
   Load(2, 0, 1, 0, 0, 1, 0, 0, 1),   \* consoles come and go under a lease
   Load(2, 1, 0, 0, 1, 0, 0, 0, 1),   \* consoles come and go under a command
   Load(2, 1, 0, 0, 0, 1, 1, 0, 0)}   \* a typist detaches during a command

\* A console attaches while a command runs.
MCSecond == {Load(2, 1, 0, 0, 0, 0, 0, 0, 0)}
=============================================================================
