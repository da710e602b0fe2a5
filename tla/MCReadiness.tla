---------------------------- MODULE MCReadiness ----------------------------
(* Values for TLC: one session whose reboots start one recovery loop, of a *)
(* plain profile, one that logs in, and one that unlocks its console.      *)
EXTENDS Readiness

OneLoop == {"l1"}

Plain(calls) == [unlock |-> FALSE, login |-> FALSE, calls |-> calls]
LogsIn(calls) == [unlock |-> FALSE, login |-> TRUE, calls |-> calls]
Unlocks(calls) == [unlock |-> TRUE, login |-> TRUE, calls |-> calls]

Mixed == {Plain({"banner", "run", "reboot"}),
          LogsIn({"reboot", "io_error"}),
          LogsIn({"human_reboot", "recover"}),
          LogsIn({"banner", "clear", "attach"}),
          Unlocks({"banner", "release", "selftest"})}
=============================================================================
