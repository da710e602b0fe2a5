--------------------------------- MODULE Wal ---------------------------------
(***************************************************************************)
(* WalWriter (sw_core/wal.py) and the files it works on (sw_core/wal_fs.py)*)
(* An append runs under _lock in several steps, and the file may be taken  *)
(* away or replaced from outside between any two of them.  Every call of   *)
(* the file system may fail, a write may stop half way, and the daemon may *)
(* be killed at any step and started again.                                *)
(*                                                                         *)
(* A file is the sequence of its lines and its unterminated tail.  A line  *)
(* is the number of the record it holds, or Broken when it does not parse. *)
(* Left out: the mirror track, payloads, counters of health(), failures of *)
(* stat, and the directory as a whole being removed.                       *)
(***************************************************************************)
EXTENDS Integers, Sequences, FiniteSets, SequencesExt

CONSTANTS
  RotateLines,   \* rotate_bytes, in lines
  MaxCalls,      \* bound: appends, resets
  MaxFaults,     \* bound: failing file system calls
  MaxOutside,    \* bound: unlinks and replacements from outside
  MaxCrash       \* bound: kills of the daemon

ASSUME WalAssumption ==
  /\ RotateLines \in Nat \ {0}
  /\ {MaxCalls, MaxFaults, MaxOutside, MaxCrash} \subseteq Nat

VARIABLES
  lines, tail,             \* the files: lines, and what follows the last newline
  name, archive,           \* the current name's file (0: no such name), renamed files
  up, closed,              \* the daemon runs, close() was called
  seq,                     \* _seq
  handle, dirty,           \* _wal_fp's file (0: None), _dirty_tail["wal"]
  expected,                \* _wal_path_expected
  first, firstPending,     \* _file_first_seq (0: None), _file_first_seq_pending
  pend, pendFirst,         \* _pending_recreate_reason is set, _pending_file_first_seq
  rotFails,                \* _rotate_pending["wal"].failures (0: no entry)
  waits,                   \* the throttles and backoffs that have not elapsed
  unhealthy,               \* _unhealthy
  pc, role, big,           \* the step under _lock, what it writes, the size it saw
  num, answer,             \* every record: its seq, and what its caller was told
  reported, work,          \* lost records a META covers, the file worked on last
  base,                    \* records created before the last reset
  lastLost,                \* the last record was answered with loss_flag
  early,                   \* METAs tick() wrote while a recreation was pending
  calls, faults, outside, crashes

files     == <<lines, tail, name, archive>>
writer    == <<handle, dirty, expected, first, firstPending>>
recovery  == <<pend, pendFirst>>
control   == <<pc, role, big>>
ledger    == <<num, answer, reported>>
bounds    == <<calls, faults, outside, crashes>>

vars == <<lines, tail, name, archive, up, closed, seq, handle, dirty, expected, first,
          firstPending, pend, pendFirst, rotFails, waits, unhealthy, pc, role, big, num,
          answer, reported, work, base, lastLost, early, calls, faults, outside, crashes>>

Broken  == 0     \* a line that does not parse
Clean   == 0     \* the tail of a file that ends in a newline
Foreign == -1    \* an unterminated tail that is not the beginning of one record

(* Attempts with a backoff before a rotation is deferred: the length of     *)
(* WAL_ROTATE_RETRY_BACKOFF_S.                                              *)
Backoffs == 3

(* At most one META beside every append, and one for each crash or fault.   *)
MaxRecords == 2 * MaxCalls + MaxFaults

Inode == DOMAIN lines
Ids   == DOMAIN num
Size(i) == Len(lines[i]) + (IF tail[i] = Clean THEN 0 ELSE 1)
Big     == name # 0 /\ Size(name) >= RotateLines

Fault == faults < MaxFaults /\ faults' = faults + 1
Fine  == UNCHANGED faults

Init ==
  /\ lines = <<>> /\ tail = <<>> /\ name = 0 /\ archive = {}
  /\ up = TRUE /\ closed = FALSE
  /\ seq = 0 /\ handle = 0 /\ dirty = FALSE /\ expected = FALSE
  /\ first = 0 /\ firstPending = TRUE
  /\ pend = FALSE /\ pendFirst = 0 /\ rotFails = 0 /\ waits = {} /\ unhealthy = FALSE
  /\ pc = "idle" /\ role = "write" /\ big = FALSE
  /\ num = <<>> /\ answer = <<>> /\ reported = {} /\ work = 0 /\ base = 0
  /\ lastLost = FALSE /\ early = {}
  /\ calls = 0 /\ faults = 0 /\ outside = 0 /\ crashes = 0

-----------------------------------------------------------------------------
(* The file under the current name, created by O_CREAT if it is missing.    *)
Opened == IF name = 0 THEN Len(lines) + 1 ELSE name
OpenFiles == IF name = 0 THEN Append(lines, <<>>) ELSE lines
OpenTails == IF name = 0 THEN Append(tail, Clean) ELSE tail

(* What a file holds after record r was written to it whole, after its      *)
(* first bytes, after the rest of them, and after a newline.                *)
WholeLine(t, r) == IF t = Clean THEN r ELSE Broken
HalfTail(t, r)  == IF t = Clean THEN r ELSE Foreign
RestLine(t, r)  == IF t = r THEN r ELSE Broken
Ended(fs, ts, i) == IF ts[i] = Clean THEN fs ELSE [fs EXCEPT ![i] = Append(@, Broken)]

(* A record is answered: the caller learns whether it was written.          *)
NewRecord(a) == /\ seq' = seq + 1
                /\ num' = Append(num, seq + 1)
                /\ answer' = Append(answer, a)

(* append() when close() was called: a loss, whatever the health.           *)
AppendClosed ==
  /\ up /\ closed /\ pc = "idle" /\ calls < MaxCalls
  /\ NewRecord("loss") /\ lastLost' = TRUE /\ calls' = calls + 1
  /\ UNCHANGED <<files, up, closed, writer, recovery, rotFails, waits,
                unhealthy, control, reported, work, base, early, faults, outside,
                crashes>>

(* _begin_recreate_locked: remember which records the lost file held.       *)
BeginRecreate == /\ pend' = TRUE /\ pendFirst' = first
                 /\ handle' = 0 /\ dirty' = FALSE

(* append(): sizes and _check_missing_names_locked.  The identity of the    *)
(* name is compared with the handle's when the throttle has elapsed or the  *)
(* file is due for rotation; if the query fails the rotation is skipped.    *)
AppendBegin ==
  /\ up /\ ~closed /\ pc = "idle" /\ ~pend /\ calls < MaxCalls
  /\ calls' = calls + 1 /\ big' = Big /\ role' = "write"
  /\ LET due     == "identity" \notin waits \/ Big
         missing == name = 0 /\ (expected \/ handle # 0)
         ask     == due /\ handle # 0 /\ ~missing
     IN /\ waits' = IF due THEN waits \cup {"identity"} ELSE waits
        /\ \/ /\ missing \/ (ask /\ name # handle)
              /\ BeginRecreate /\ pc' = "rotate" /\ Fine
           \/ /\ ~missing /\ ~(ask /\ name # handle)
              /\ pc' = "rotate" /\ Fine
              /\ UNCHANGED <<handle, dirty, pend, pendFirst>>
           \/ /\ ask /\ Fault /\ pc' = "write"
              /\ UNCHANGED <<handle, dirty, pend, pendFirst>>
  /\ UNCHANGED <<files, up, closed, seq, expected, first, firstPending,
                rotFails, unhealthy, ledger, work, base, lastLost, early, outside,
                crashes>>

(* append() while a recreation is pending goes straight to the next attempt.*)
AppendPending ==
  /\ up /\ ~closed /\ pc = "idle" /\ pend /\ calls < MaxCalls
  /\ calls' = calls + 1 /\ role' = "write" /\ pc' = "recreate"
  /\ UNCHANGED <<files, up, closed, seq, writer, recovery, rotFails, waits,
                unhealthy, big, ledger, work, base, lastLost, early, faults, outside,
                crashes>>

(* Mutant: tick() serves only rotations that were deferred.                 *)
TickDeferred ==
  /\ up /\ ~closed /\ pc = "idle" /\ rotFails > Backoffs /\ "rotate" \notin waits
  /\ big' = Big /\ role' = "cont" /\ pc' = "rotate"
  /\ UNCHANGED <<files, up, closed, seq, writer, recovery, rotFails, waits,
                unhealthy, ledger, work, base, lastLost, early, bounds>>

(* tick(): the lock is free and a rotation waits; no identity is checked.   *)
Tick ==
  /\ up /\ ~closed /\ pc = "idle" /\ rotFails > 0 /\ "rotate" \notin waits
  /\ big' = Big /\ role' = "cont" /\ pc' = "rotate"
  /\ UNCHANGED <<files, up, closed, seq, writer, recovery, rotFails, waits,
                unhealthy, ledger, work, base, lastLost, early, bounds>>

-----------------------------------------------------------------------------
AfterRotate(rotated) ==
  pc' = IF role = "cont" THEN (IF rotated /\ expected THEN "write" ELSE "idle")
        ELSE IF pend THEN "recreate" ELSE "write"

(* _rotate_if_needed, file below the limit or backoff not elapsed.          *)
RotateSkip ==
  /\ pc = "rotate" /\ (~big \/ "rotate" \in waits)
  /\ rotFails' = (IF big THEN rotFails ELSE 0)
  /\ waits' = (IF big THEN waits ELSE waits \ {"rotate"})
  /\ AfterRotate(FALSE)
  /\ UNCHANGED <<files, up, closed, seq, writer, recovery, unhealthy, role,
                big, ledger, work, base, lastLost, early, bounds>>

(* _schedule_rotate_retry_locked: the first three failures back off, later  *)
(* ones are deferred.                                                       *)
ScheduleRotate(n) == /\ rotFails' = (IF n > Backoffs THEN n ELSE n + 1)
                     /\ waits' = waits \cup {"rotate"}

(* The handle is closed whether or not its sync fails; the rename can be    *)
(* refused for a while (sharing violation) or fail for good, as it does     *)
(* when the name has gone since the size was read.                          *)
RotateFails ==
  /\ pc = "rotate" /\ big /\ "rotate" \notin waits
  /\ handle' = 0
  /\ \/ name # 0 /\ Fault /\ ScheduleRotate(rotFails)
     \/ (IF name = 0 THEN Fine ELSE Fault) /\ rotFails' = 0 /\ waits' = waits \ {"rotate"}
  /\ AfterRotate(FALSE)
  /\ UNCHANGED <<files, up, closed, seq, dirty, expected, first,
                firstPending, recovery, unhealthy, role, big, ledger, work, base,
                lastLost, early, calls, outside, crashes>>

(* The file moves from the current name to the archive's.                   *)
ArchiveName == archive' = archive \cup {name} /\ name' = 0 /\ work' = 0

(* rename_noreplace_or_suffix: the file gets a name no archive has.  A      *)
(* failing sync of the directory comes too late to matter, except that a    *)
(* transient one schedules another rotation.                                *)
RotateDone ==
  /\ pc = "rotate" /\ big /\ "rotate" \notin waits /\ name # 0
  /\ ArchiveName
  /\ handle' = 0 /\ dirty' = FALSE /\ expected' = FALSE
  /\ first' = seq + 1 /\ firstPending' = FALSE
  /\ \/ Fine /\ rotFails' = 0 /\ waits' = waits \ {"rotate"}
     \/ Fault /\ ScheduleRotate(0)
  /\ AfterRotate(TRUE)
  /\ UNCHANGED <<lines, tail, up, closed, seq, recovery, unhealthy, role,
                big, ledger, base, lastLost, early, calls, outside, crashes>>

-----------------------------------------------------------------------------
(* Mutant: the failure does not show in the health.                         *)
ScheduleRecreateSilent(w) == waits' = w \cup {"recreate"} /\ UNCHANGED unhealthy

(* _schedule_recreate_retry_locked.  An append that found the file missing  *)
(* tries again if the backoff elapses meanwhile.                            *)
ScheduleRecreate(w) == waits' = w \cup {"recreate"} /\ unhealthy' = TRUE

(* _attempt_recreate_locked, not yet due: the record is answered as lost.   *)
RecreateRefused ==
  /\ pc = "recreate" /\ "recreate" \in waits
  /\ NewRecord("loss") /\ lastLost' = TRUE /\ pc' = "idle"
  /\ UNCHANGED <<files, up, closed, writer, recovery, rotFails, waits,
                unhealthy, role, big, reported, work, base, early, bounds>>

(* open_append fails.                                                       *)
RecreateOpenFails ==
  /\ pc = "recreate" /\ "recreate" \notin waits
  /\ Fault /\ ScheduleRecreate(waits)
  /\ UNCHANGED <<files, up, closed, seq, writer, recovery, rotFails, control,
                ledger, work, base, lastLost, early, calls, outside, crashes>>

(* The file is opened and an unterminated tail is ended before the META.    *)
RecreateOpen ==
  /\ pc = "recreate" /\ "recreate" \notin waits
  /\ lines' = Ended(OpenFiles, OpenTails, Opened)
  /\ tail' = [OpenTails EXCEPT ![Opened] = Clean]
  /\ name' = Opened /\ handle' = Opened /\ work' = Opened
  /\ expected' = TRUE /\ dirty' = FALSE
  /\ waits' = waits \cup {"identity"}
  /\ role' = "meta" /\ pc' = "write"
  /\ UNCHANGED <<archive, up, closed, seq, first, firstPending, recovery,
                rotFails, unhealthy, big, ledger, base, lastLost, early, bounds>>

(* Reading or ending the tail fails: the handle is closed again.            *)
RecreateTailFails ==
  /\ pc = "recreate" /\ "recreate" \notin waits
  /\ lines' = OpenFiles /\ tail' = OpenTails /\ name' = Opened /\ work' = Opened
  /\ expected' = TRUE /\ dirty' = (OpenTails[Opened] # Clean) /\ handle' = 0
  /\ Fault /\ ScheduleRecreate(waits \cup {"identity"})
  /\ UNCHANGED <<archive, up, closed, seq, first, firstPending, recovery,
                rotFails, control, ledger, base, lastLost, early, calls, outside,
                crashes>>

-----------------------------------------------------------------------------
(* What follows a write, by the record it was for: a caller's, the META of  *)
(* a recreation, or the META of a rotation that tick() completed.           *)
Id == Len(num)

(* The records that parse in a file, and those a file of the log holds.     *)
Readable(i) == {r \in Ids : r \in Range(lines[i])}
Kept == UNION {Readable(i) : i \in archive \cup ({name} \ {0})}

(* potentially_lost_seq_range of the META being written, or everything when *)
(* range_known is false.                                                    *)
Covered == {r \in Ids \ {Id} : pendFirst \in 1 .. num[Id] - 1
                                 => num[r] \in pendFirst .. num[Id] - 1}

Written ==
  /\ answer' = [answer EXCEPT ![Id] = "ok"]
  /\ unhealthy' = FALSE /\ lastLost' = FALSE
  /\ early' = early \cup {r \in {Id} : role = "cont" /\ pend}
  /\ \/ /\ role = "write" /\ pc' = "idle"
        /\ first' = (IF firstPending THEN num[Id] ELSE first) /\ firstPending' = FALSE
        /\ UNCHANGED <<role, pend, pendFirst, reported>>
     \/ /\ role = "meta" /\ pc' = "write" /\ role' = "write"
        /\ first' = num[Id] /\ firstPending' = FALSE
        /\ pend' = FALSE /\ pendFirst' = 0
        /\ reported' = reported \cup (Covered \ Kept)
     \/ /\ role = "cont" /\ pc' = "idle"
        /\ first' = num[Id] /\ firstPending' = FALSE
        /\ UNCHANGED <<role, pend, pendFirst, reported>>

NotWritten ==
  /\ answer' = [answer EXCEPT ![Id] = "loss"]
  /\ unhealthy' = TRUE /\ lastLost' = TRUE
  /\ pc' = (IF role = "meta" THEN "recreate" ELSE "idle")
  /\ role' = (IF role = "meta" THEN "write" ELSE role)
  /\ UNCHANGED <<first, firstPending, pend, pendFirst, reported>>

(* After a failed META the handle is closed and the next attempt scheduled. *)
Closing(h, w) == /\ handle' = (IF role = "meta" THEN 0 ELSE h)
                 /\ waits' = (IF role = "meta" THEN w \cup {"recreate"} ELSE w)

OpenedWaits == IF handle = 0 THEN waits \cup {"identity"} ELSE waits

(* The file a write goes to, and the files as opening it leaves them.       *)
Target  == IF handle = 0 THEN Opened ELSE handle
Files   == IF handle = 0 THEN OpenFiles ELSE lines
Tails   == IF handle = 0 THEN OpenTails ELSE tail
NameNow == IF handle = 0 THEN Opened ELSE name

(* A file that was opened for the write.                                    *)
Using == name' = NameNow /\ work' = Target /\ expected' = (expected \/ handle = 0)

(* _write_one_locked ends a dirty tail before the record.                   *)
Terminated == IF dirty THEN Ended(Files, Tails, Target) ELSE Files
TailNow    == IF dirty THEN Clean ELSE Tails[Target]

(* tick() writes its META only if the name is still free.                   *)
TickFindsFile == role = "cont" /\ name # 0

(* The record is created; the writes follow.  A refused tick or append      *)
(* never gets here.                                                         *)
NewLine ==
  /\ pc = "write" /\ ~TickFindsFile
  /\ NewRecord("open") /\ pc' = "line"
  /\ UNCHANGED <<files, up, closed, writer, recovery, rotFails, waits,
                unhealthy, role, big, reported, work, base, lastLost, early, bounds>>

TickLeaves ==
  /\ pc = "write" /\ TickFindsFile /\ pc' = "idle"
  /\ UNCHANGED <<files, up, closed, seq, writer, recovery, rotFails, waits,
                unhealthy, role, big, ledger, work, base, lastLost, early, bounds>>

(* The first attempt succeeds.                                              *)
LineOk ==
  /\ pc = "line"
  /\ lines' = [Terminated EXCEPT ![Target] = Append(@, WholeLine(TailNow, Id))]
  /\ tail' = [Tails EXCEPT ![Target] = Clean]
  /\ Using /\ handle' = Target /\ waits' = OpenedWaits /\ dirty' = FALSE
  /\ Written
  /\ UNCHANGED <<archive, up, closed, seq, rotFails, big, num, base, bounds>>

(* Some bytes of the line were written and the write failed.                *)
LineHalf ==
  /\ pc = "line" /\ Fault
  /\ lines' = Terminated
  /\ tail' = [Tails EXCEPT ![Target] = HalfTail(TailNow, Id)]
  /\ Using /\ handle' = Target /\ waits' = OpenedWaits /\ dirty' = FALSE
  /\ pc' = "rest"
  /\ UNCHANGED <<archive, up, closed, seq, first, firstPending, recovery,
                rotFails, unhealthy, role, big, ledger, base, lastLost, early, calls,
                outside, crashes>>

(* Nothing of the line was written: the open, the terminating newline or    *)
(* the line itself failed.  The handle is closed before the retry.          *)
LineFails ==
  /\ pc = "line" /\ Fault
  /\ \/ handle = 0 /\ UNCHANGED <<lines, tail, name, work, expected, waits, dirty>>
     \/ /\ lines' = Files /\ tail' = Tails
        /\ Using /\ waits' = OpenedWaits /\ UNCHANGED dirty
     \/ /\ dirty
        /\ lines' = Terminated /\ tail' = [Tails EXCEPT ![Target] = Clean]
        /\ Using /\ waits' = OpenedWaits /\ dirty' = FALSE
  /\ handle' = 0 /\ pc' = "retry"
  /\ UNCHANGED <<archive, up, closed, seq, first, firstPending, recovery,
                rotFails, unhealthy, role, big, ledger, base, lastLost, early, calls,
                outside, crashes>>

(* _retry_write_locked closes the handle, and the close fails.              *)
CloseFails ==
  /\ pc = "retry" /\ Fault /\ NotWritten
  /\ waits' = (IF role = "meta" THEN waits \cup {"recreate"} ELSE waits)
  /\ UNCHANGED <<files, up, closed, seq, handle, dirty, expected, rotFails,
                big, num, work, base, early, calls, outside, crashes>>

(* The rest of a half-written line is written to the same handle.           *)
RestOk ==
  /\ pc = "rest"
  /\ lines' = [lines EXCEPT ![handle] = Append(@, RestLine(tail[handle], Id))]
  /\ tail' = [tail EXCEPT ![handle] = Clean]
  /\ dirty' = FALSE /\ Written
  /\ UNCHANGED <<name, archive, up, closed, seq, handle, expected, rotFails,
                waits, big, num, work, base, bounds>>

(* Mutant: the torn tail is forgotten.                                      *)
RestFailsClean ==
  /\ pc = "rest" /\ Fault
  /\ dirty' = FALSE /\ Closing(handle, waits) /\ NotWritten
  /\ UNCHANGED <<files, up, closed, seq, expected, rotFails, big, num, work,
                base, early, calls, outside, crashes>>

(* The rest cannot be written either: the tail stays torn.                  *)
RestFails ==
  /\ pc = "rest" /\ Fault
  /\ dirty' = TRUE /\ Closing(handle, waits) /\ NotWritten
  /\ UNCHANGED <<files, up, closed, seq, expected, rotFails, big, num, work,
                base, early, calls, outside, crashes>>

(* The name is opened again and the whole line is written to it, after the  *)
(* newline if that is still owed.                                           *)
RetryOk ==
  /\ pc = "retry"
  /\ lines' = [Terminated EXCEPT ![Target] = Append(@, WholeLine(TailNow, Id))]
  /\ tail' = [Tails EXCEPT ![Target] = Clean]
  /\ Using /\ handle' = Target /\ waits' = OpenedWaits /\ dirty' = FALSE
  /\ Written
  /\ UNCHANGED <<archive, up, closed, seq, rotFails, big, num, base, bounds>>

(* The retry fails: at the open, before the first byte, after the newline,  *)
(* or within the line.                                                      *)
RetryFails ==
  /\ pc = "retry" /\ Fault
  /\ \/ /\ Closing(0, waits)
        /\ UNCHANGED <<lines, tail, name, work, expected, dirty>>
     \/ /\ lines' = Files /\ tail' = Tails
        /\ Using /\ Closing(Target, OpenedWaits) /\ UNCHANGED dirty
     \/ /\ dirty
        /\ lines' = Terminated /\ tail' = [Tails EXCEPT ![Target] = Clean]
        /\ Using /\ Closing(Target, OpenedWaits) /\ dirty' = FALSE
     \/ /\ lines' = Terminated /\ tail' = [Tails EXCEPT ![Target] = HalfTail(TailNow, Id)]
        /\ Using /\ Closing(Target, OpenedWaits) /\ dirty' = TRUE
  /\ NotWritten
  /\ UNCHANGED <<archive, up, closed, seq, rotFails, big, num, base, early,
                calls, outside, crashes>>

-----------------------------------------------------------------------------
(* reset(): the file is archived and the numbers start again.  A failing    *)
(* close or rename leaves everything but the handle; a failing sync of the  *)
(* directory leaves the numbers.                                            *)
Reset ==
  /\ up /\ pc = "idle" /\ calls < MaxCalls /\ calls' = calls + 1
  /\ \/ /\ name # 0 /\ Size(name) > 0
        /\ ArchiveName /\ handle' = 0 /\ dirty' = FALSE
     \/ /\ ~(name # 0 /\ Size(name) > 0)
        /\ work' = 0 /\ UNCHANGED <<archive, name, handle, dirty>>
  /\ seq' = 0 /\ base' = Len(num) /\ rotFails' = 0 /\ waits' = waits \ {"rotate"}
  /\ expected' = FALSE /\ first' = 1 /\ firstPending' = FALSE
  /\ UNCHANGED <<lines, tail, up, closed, recovery, unhealthy, control,
                ledger, lastLost, early, faults, outside, crashes>>

ResetFails ==
  /\ up /\ pc = "idle" /\ calls < MaxCalls /\ calls' = calls + 1
  /\ name # 0 /\ Size(name) > 0 /\ Fault
  /\ handle' = 0
  /\ \/ UNCHANGED <<archive, name, work, dirty, expected, first, firstPending>>
     \/ /\ ArchiveName /\ dirty' = FALSE
        /\ expected' = FALSE /\ first' = seq + 1 /\ firstPending' = FALSE
  /\ UNCHANGED <<lines, tail, up, closed, seq, recovery, rotFails, waits,
                unhealthy, control, ledger, base, lastLost, early, outside, crashes>>

(* close().                                                                 *)
Close == /\ up /\ ~closed /\ pc = "idle"
         /\ closed' = TRUE /\ handle' = 0
         /\ UNCHANGED <<files, up, seq, dirty, expected, first, firstPending,
                recovery, rotFails, waits, unhealthy, control, ledger, work, base,
                lastLost, early, bounds>>

(* Time passes: a throttle or a backoff elapses.                            *)
Elapse == /\ up /\ \E w \in waits : waits' = waits \ {w}
          /\ UNCHANGED <<files, up, closed, seq, writer, recovery, rotFails,
                unhealthy, control, ledger, work, base, lastLost, early, bounds>>

-----------------------------------------------------------------------------
(* The file is unlinked, or replaced by another one that may end without a  *)
(* newline.                                                                 *)
Unlink == /\ outside < MaxOutside /\ name # 0
          /\ name' = 0 /\ outside' = outside + 1
          /\ UNCHANGED <<lines, tail, archive, up, closed, seq, writer, recovery,
                rotFails, waits, unhealthy, control, ledger, work, base, lastLost,
                early, calls, faults, crashes>>

Replace == /\ outside < MaxOutside /\ name # 0
           /\ \E t \in {Clean, Foreign} : tail' = Append(tail, t)
           /\ lines' = Append(lines, <<>>) /\ name' = Len(lines) + 1
           /\ outside' = outside + 1
           /\ UNCHANGED <<archive, up, closed, seq, writer, recovery, rotFails, waits,
                unhealthy, control, ledger, work, base, lastLost, early, calls, faults,
                crashes>>

(* The daemon is killed, at any step, or exits after close().               *)
Crash == /\ up /\ crashes < MaxCrash
         /\ up' = FALSE /\ crashes' = crashes + 1
         /\ UNCHANGED <<files, closed, seq, writer, recovery, rotFails, waits,
                unhealthy, control, ledger, work, base, lastLost, early, calls, faults,
                outside>>

(* Mutant: only the last line is parsed.                                    *)
LoadedLastLine ==
  IF name = 0 \/ tail[name] # Clean \/ lines[name] = <<>> \/ Last(lines[name]) = Broken
    THEN 0 ELSE num[Last(lines[name])]

(* The largest number that parses in the current file.                      *)
Loaded == IF name = 0 THEN 0
          ELSE CHOOSE n \in {0} \cup {num[r] : r \in Readable(name)} :
                 \A r \in Readable(name) : num[r] <= n

(* The number in the first line of the current file, None if it is broken.  *)
FirstLoaded == IF name # 0 /\ lines[name] # <<>> /\ lines[name][1] # Broken
                 THEN num[lines[name][1]] ELSE 0

(* __init__ and _load_last_seq: the numbers go on from the largest one that *)
(* parses in the current file.                                              *)
Restart ==
  /\ ~up /\ up' = TRUE /\ closed' = FALSE
  /\ seq' = Loaded
  /\ expected' = (name # 0) /\ work' = name
  /\ dirty' = (name # 0 /\ tail[name] # Clean)
  /\ first' = FirstLoaded
  /\ firstPending' = (name = 0 \/ Size(name) = 0)
  /\ handle' = 0 /\ pend' = FALSE /\ pendFirst' = 0 /\ rotFails' = 0 /\ waits' = {}
  /\ unhealthy' = FALSE /\ lastLost' = FALSE
  /\ pc' = "idle" /\ role' = "write" /\ big' = FALSE
  /\ UNCHANGED <<files, ledger, base, early, bounds>>

-----------------------------------------------------------------------------
Step == RotateSkip \/ RotateFails \/ RotateDone \/ RecreateRefused \/ RecreateOpenFails
          \/ RecreateOpen \/ RecreateTailFails \/ NewLine \/ TickLeaves \/ LineOk \/ LineHalf
          \/ LineFails \/ CloseFails \/ RestOk \/ RestFails \/ RetryOk \/ RetryFails

Next == \/ up /\ Step
        \/ AppendClosed \/ AppendBegin \/ AppendPending \/ Tick \/ Reset \/ ResetFails
        \/ Close \/ Elapse \/ Unlink \/ Replace \/ Crash \/ Restart

(* A step under _lock is finished by its thread, the watcher ticks about    *)
(* once a second, and time passes.                                          *)
Fairness == WF_vars(up /\ Step) /\ WF_vars(Tick) /\ WF_vars(Elapse)

Spec == Init /\ [][Next]_vars /\ Fairness

-----------------------------------------------------------------------------
(* The types of WalWriter's fields and of the files; no more records than    *)
(* the appends, METAs and retries of the bounds can make.                   *)
TypeOK ==
  /\ lines \in Seq(Seq(0 .. Id)) /\ Len(tail) = Len(lines)
  /\ \A i \in Inode : tail[i] \in Foreign .. Id
  /\ name \in 0 .. Len(lines) /\ archive \subseteq Inode \ {name}
  /\ base \in 0 .. Id /\ handle \in 0 .. Len(lines) /\ work \in 0 .. Len(lines)
  /\ num \in Seq(Nat) /\ Id <= MaxRecords /\ Len(answer) = Id /\ Range(answer) \subseteq {"open", "ok", "loss"}
  /\ {reported, early} \subseteq SUBSET Ids
  /\ {seq, first, pendFirst} \subseteq Nat /\ rotFails \in 0 .. Backoffs + 1
  /\ waits \subseteq {"identity", "rotate", "recreate"}
  /\ pc \in {"idle", "rotate", "recreate", "write", "line", "rest", "retry"}
  /\ role \in {"write", "meta", "cont"}
  /\ {up, closed, dirty, expected, firstPending, pend, unhealthy, big, lastLost} \subseteq BOOLEAN

(* In every file of the log the numbers of the records increase, whatever   *)
(* mix of failed writes, rotations, resets and restarts produced it: a      *)
(* reader of one file may order and page by seq (_load_last_seq, reset and  *)
(* _new_record_locked).  And the range a META would announce covers every   *)
(* record of the file it is about: _file_first_seq never runs ahead of what *)
(* the file holds.  Records from before a reset are left aside there: their *)
(* numbers are used again; the METAs of tick() during a recreation are not   *)
(* covered by the range of the META that ends it.                           *)
FileSeqsIncrease ==
  /\ \A i \in archive \cup ({name} \ {0}) : \A j, k \in DOMAIN lines[i] :
       j < k /\ lines[i][j] # Broken /\ lines[i][k] # Broken
         => num[lines[i][j]] < num[lines[i][k]]
  /\ LET f == IF pend THEN pendFirst ELSE first
     IN up /\ work # 0 /\ f \in 1 .. seq =>
          \A r \in Readable(work) \ early : r > base => num[r] \in f .. seq

Healthy == ~unhealthy /\ (name # 0 \/ seq = 0)

(* While the last record was lost, health() does not say "healthy": also    *)
(* when the loss was in a recreation, in its META, or in the META of a tick. *)
(* The one exception: an append is refused because a recreation waits for   *)
(* its retry, and the last record written is the META of a rotation that    *)
(* tick() completed meanwhile, which cleared _unhealthy.                    *)
LossShowsInHealth ==
  up /\ ~closed /\ pc = "idle" /\ lastLost
    /\ ~(\E r \in early : \A q \in r + 1 .. Id : answer[q] = "loss") => ~Healthy

(* A rotation that was put off is done or given up without further appends  *)
(* (tick and the deferred retries).                                         *)
RotationEnds == rotFails > 0 ~> (rotFails = 0 \/ closed \/ ~up)

(* What the callers see.                                                    *)
FateOf(r) ==
  IF r \notin Ids \/ answer[r] = "open" THEN "none"
  ELSE IF answer[r] = "loss" THEN "flagged"
  ELSE IF r \in Kept THEN "kept"
  ELSE IF r \in reported THEN "reported" ELSE "gone"

Exposed == \/ handle # 0 /\ handle # name
           \/ name # 0 /\ tail[name] = Foreign

Audit == INSTANCE AuditLog WITH
  Record <- 1 .. MaxRecords, fate <- [r \in 1 .. MaxRecords |-> FateOf(r)],
  exposed <- Exposed, outside <- outside

(* The files implement the audit log: a record that was answered as written *)
(* stays readable, through torn writes, retries, rotations, resets, kills   *)
(* and restarts, unless somebody outside takes the file away, and only then *)
(* may an append be lost without its caller being told.                     *)
ImplementsAuditLog == Audit!ASpec

=============================================================================
