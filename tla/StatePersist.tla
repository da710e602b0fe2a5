---------------------------- MODULE StatePersist ----------------------------
(***************************************************************************)
(* state.json of the session manager (sw_core/session_manager.py): which   *)
(* devices were handed over (RELEASED) and the other persisted maps, saved *)
(* by RPC and attach threads through a temporary file and a rename, and    *)
(* loaded at the next start.  A snapshot is taken under _lock; the I/O     *)
(* runs under _state_io_lock, in most callers after _lock was given up.    *)
(***************************************************************************)
EXTENDS Naturals, FiniteSets

CONSTANTS
  Session,     \* sessions, each with a device of its own
  Orphan,      \* released entries of the file no session can be made for
  Key,         \* keys of the other maps: aliases, bindings, pins, detected
  Thread,      \* threads of the daemon
  Main,        \* the one that runs __init__
  Locked,      \* threads that save with _lock held (pins, sticky, aliases)
  Teams,       \* the sets of threads to explore
  None,
  MaxOps,      \* bound: operations that save
  MaxFaults    \* bound: crashes, failing I/O, unreadable or damaged files

ASSUME PersistAssumption ==
  /\ IsFiniteSet(Thread)
  /\ Main \in Thread \ Locked /\ Locked \subseteq Thread
  /\ \A q \in Teams : Main \in q /\ q \subseteq Thread
  /\ None \notin Thread \cup Session /\ Session \cap Orphan = {}
  /\ MaxOps \in Nat /\ MaxFaults \in Nat

VARIABLES
  team,     \* the threads of this behaviour, chosen once
  up,       \* the daemon: "down", "booting" (__init__), "up"
  rel,      \* sessions in state RELEASED
  loaded,   \* _loaded_released
  keys,     \* entries of the other maps
  pending,  \* sessions with _release_persist_pending
  owner,    \* owner[s]: thread that made the event in _release_persist_events
  lock,     \* holder of _lock across a save
  iolock,   \* holder of _state_io_lock
  pc,       \* where each thread is
  job,      \* job[t]: <<operation, session>>
  snap,     \* snap[t]: its snapshot
  tmp,      \* tmp[t]: its temporary file: "none", "written", "synced"
  file,     \* state.json as a process sees it
  disk,     \* state.json as a power failure leaves it
  promised, \* history: releases that were answered ok and not taken back
  undone,   \* history: threads whose release was taken back meanwhile
  saves,    \* snapshots taken
  ops,      \* operations begun
  faults,   \* faults so far
  damaged   \* history: the file was damaged from outside

mem    == <<rel, loaded, keys, pending, owner>>
local  == <<pc, job, snap, tmp>>
files  == <<file, disk>>
ghost  == <<promised, undone>>
bounds == <<saves, ops, faults, damaged>>
vars   == <<team, up, mem, lock, iolock, local, files, ghost, bounds>>

NoSnap   == [rel |-> {}, keys |-> {}, seq |-> 0, whole |-> TRUE]
NoJob    == <<"none", None>>
Writing  == {"write", "fsync", "replace", "dirsync"}

Init ==
  /\ team \in Teams
  /\ up = "down" /\ rel = {} /\ loaded = {} /\ keys = {} /\ pending = {}
  /\ owner = [s \in Session |-> None]
  /\ lock = None /\ iolock = None
  /\ pc = [t \in Thread |-> "idle"] /\ job = [t \in Thread |-> NoJob]
  /\ snap = [t \in Thread |-> NoSnap] /\ tmp = [t \in Thread |-> "none"]
  /\ file = [NoSnap EXCEPT !.rel = Orphan] /\ disk = file
  /\ promised = Orphan /\ undone = {}
  /\ saves = 0 /\ ops = 0 /\ faults = 0 /\ damaged = FALSE

Goto(t, l) == pc' = [pc EXCEPT ![t] = l]
LockFree(t) == lock \in {None, t}

---------------------------------------------------------------------------
(* _save_state *)

(* The payload: sessions in RELEASED and the entries that were loaded but  *)
(* could not be restored.                                                  *)
Payload == [rel |-> rel \cup loaded, keys |-> keys, seq |-> saves + 1,
            whole |-> TRUE]

TakeSnapshot(t) ==
  /\ saves' = saves + 1
  /\ snap' = [snap EXCEPT ![t] = Payload]

Snapshot(t) ==
  /\ pc[t] = "snap" /\ LockFree(t)
  /\ TakeSnapshot(t)
  /\ Goto(t, "io")
  /\ UNCHANGED <<up, mem, lock, iolock, job, tmp, files, promised,
                 undone, ops, faults, damaged>>

EnterIO(t) ==
  /\ pc[t] = "io" /\ iolock = None
  /\ iolock' = t
  /\ Goto(t, "write")
  /\ UNCHANGED <<up, mem, lock, job, snap, tmp, files, ghost, bounds>>

WriteTmp(t) ==
  /\ pc[t] = "write"
  /\ tmp' = [tmp EXCEPT ![t] = "written"]
  /\ Goto(t, "fsync")
  /\ UNCHANGED <<up, mem, lock, iolock, job, snap, files, ghost, bounds>>

SyncTmp(t) ==
  /\ pc[t] = "fsync"
  /\ tmp' = [tmp EXCEPT ![t] = "synced"]
  /\ Goto(t, "replace")
  /\ UNCHANGED <<up, mem, lock, iolock, job, snap, files, ghost, bounds>>

(* The rename is visible at once.  What a power failure leaves of it is    *)
(* decided there (PowerLoss); content that was not synced may be torn.     *)
Replace(t) ==
  /\ pc[t] = "replace"
  /\ file' = [snap[t] EXCEPT !.whole = tmp[t] = "synced"]
  /\ tmp' = [tmp EXCEPT ![t] = "none"]
  /\ Goto(t, "dirsync")
  /\ UNCHANGED <<up, mem, lock, iolock, job, snap, disk, ghost, bounds>>

SyncDir(t) ==
  /\ pc[t] = "dirsync"
  /\ disk' = file
  /\ iolock' = None
  /\ Goto(t, "saved")
  /\ UNCHANGED <<up, mem, lock, job, snap, tmp, file, ghost, bounds>>

(* Any of the steps raises: the temporary file is removed, the lock given  *)
(* back, and the exception leaves _save_state.                             *)
SaveFails(t) ==
  /\ pc[t] \in Writing /\ faults < MaxFaults
  /\ faults' = faults + 1
  /\ tmp' = [tmp EXCEPT ![t] = "none"]
  /\ iolock' = None
  /\ Goto(t, "failed")
  /\ UNCHANGED <<up, mem, lock, job, snap, files, ghost, saves, ops,
                 damaged>>

---------------------------------------------------------------------------
(* Operations that save *)

Idle(t) == up = "up" /\ pc[t] = "idle" /\ lock = None
Client(t) == t \in Thread \ Locked
StartJob(t, o, s) ==
  /\ ops < MaxOps /\ ops' = ops + 1
  /\ job' = [job EXCEPT ![t] = <<o, s>>]

(* release_device, once the bridge is closed: the state changes under      *)
(* _lock, the reply waits for _persist_release_state.                      *)
ReleaseNow(t, s) ==
  /\ Client(t) /\ Idle(t) /\ s \notin rel
  /\ rel' = rel \cup {s} /\ pending' = pending \cup {s}
  /\ undone' = undone \ {t}
  /\ StartJob(t, "release", s) /\ Goto(t, "persist")
  /\ UNCHANGED <<up, loaded, keys, owner, lock, iolock, snap, tmp, files,
                 promised, saves, faults, damaged>>

(* release_device of a RELEASED session: persisted again when pending,     *)
(* answered at once otherwise.                                             *)
ReleaseAgain(t, s) ==
  /\ Client(t) /\ Idle(t) /\ s \in rel
  /\ IF s \in pending
     THEN /\ StartJob(t, "release", s) /\ Goto(t, "persist")
          /\ undone' = undone \ {t} /\ UNCHANGED promised
     ELSE promised' = promised \cup {s} /\ UNCHANGED <<job, pc, undone, ops>>
  /\ UNCHANGED <<up, mem, lock, iolock, snap, tmp, files, saves, faults,
                 damaged>>

(* The answer of a release that returned; void if the device was taken     *)
(* back before it.                                                         *)
Answer(t) ==
  promised' = promised \cup
    (IF job[t][1] = "release" /\ t \notin undone THEN {job[t][2]} ELSE {})

(* _persist_release_state, the section under _lock at the top of the loop. *)
PersistEnter(t) ==
  LET s == job[t][2] IN
  /\ pc[t] = "persist" /\ LockFree(t)
  /\ \/ /\ s \notin pending
        /\ Goto(t, "idle") /\ Answer(t) /\ UNCHANGED owner
     \/ /\ s \in pending /\ owner[s] = None
        /\ owner' = [owner EXCEPT ![s] = t] /\ Goto(t, "snap")
        /\ UNCHANGED promised
     \/ /\ s \in pending /\ owner[s] # None
        /\ Goto(t, "wait") /\ UNCHANGED <<owner, promised>>
  /\ UNCHANGED <<up, rel, loaded, keys, pending, lock, iolock, job, snap, tmp,
                 files, undone, bounds>>

(* Mutant: the waiters are not woken. *)
WokenNobody(t, l) == [u \in Thread |-> IF u = t THEN l ELSE pc[u]]

(* event.set(): everyone who waited for this event loops. *)
Woken(t, l) == [u \in Thread |->
                 IF u = t THEN l
                 ELSE IF pc[u] = "wait" /\ job[u][2] = job[t][2]
                 THEN "persist" ELSE pc[u]]

(* attach_device takes a released device back: the entry is dropped in     *)
(* memory (also when the port cannot be opened), saved after _lock.        *)
(* _release_persist_pending is left as it is.                              *)
AttachDevice(t, s) ==
  /\ Client(t) /\ Idle(t) /\ s \in rel
  /\ rel' = rel \ {s} /\ promised' = promised \ {s}
  /\ undone' = undone \cup {u \in Thread : job[u] = <<"release", s>>}
  /\ StartJob(t, "attach", s) /\ Goto(t, "snap")
  /\ UNCHANGED <<up, loaded, keys, pending, owner, lock, iolock, snap, tmp,
                 files, saves, faults, damaged>>

(* assign_alias, unassign_alias, bind_session, clear_session, a borrowed   *)
(* binding in _attach_by_id: another map changes, saved after _lock.       *)
ChangeUnlocked(t, k) ==
  /\ Client(t) /\ Idle(t)
  /\ keys' = (keys \ {k}) \cup ({k} \ keys)
  /\ StartJob(t, "change", None) /\ Goto(t, "snap")
  /\ UNCHANGED <<up, rel, loaded, pending, owner, lock, iolock, snap, tmp,
                 files, ghost, saves, faults, damaged>>

(* pin_session, unpin_session, set_alias_for_session, _maybe_persist_sticky *)
(* and the rematerialised profiles: change, snapshot and I/O under _lock.  *)
ChangeLocked(t, k) ==
  /\ t \in Locked /\ Idle(t)
  /\ keys' = (keys \ {k}) \cup ({k} \ keys)
  /\ lock' = t
  /\ StartJob(t, "change", None) /\ Goto(t, "snap")
  /\ UNCHANGED <<up, rel, loaded, pending, owner, iolock, snap, tmp, files,
                 ghost, saves, faults, damaged>>

(* The save returned.  A release clears the pending mark and wakes those   *)
(* who waited, under _lock; __init__ opens the daemon.                     *)
Saved(t) ==
  LET s == job[t][2] IN
  /\ pc[t] = "saved" /\ LockFree(t)
  /\ IF job[t][1] = "release"
     THEN /\ pending' = pending \ {s} /\ owner' = [owner EXCEPT ![s] = None]
          /\ pc' = Woken(t, "idle")
     ELSE Goto(t, "idle") /\ UNCHANGED <<pending, owner>>
  /\ Answer(t)
  /\ up' = "up" /\ lock' = None
  /\ UNCHANGED <<rel, loaded, keys, iolock, job, snap, tmp, files, undone,
                 bounds>>

(* Mutant: the mark is cleared although the save raised. *)
SaveRaisedForgets(t) ==
  LET s == job[t][2] IN
  /\ pc[t] = "failed" /\ LockFree(t)
  /\ IF job[t][1] = "release"
     THEN /\ pending' = pending \ {s} /\ owner' = [owner EXCEPT ![s] = None]
          /\ pc' = Woken(t, "idle")
     ELSE Goto(t, "idle") /\ UNCHANGED <<pending, owner>>
  /\ up' = IF job[t][1] = "init" THEN "down" ELSE up
  /\ lock' = None
  /\ UNCHANGED <<rel, loaded, keys, iolock, job, snap, tmp, files, ghost,
                 bounds>>

(* The save raised.  A release stays pending, the next caller takes over;  *)
(* an exception in __init__ ends the process.                              *)
SaveRaised(t) ==
  LET s == job[t][2] IN
  /\ pc[t] = "failed" /\ LockFree(t)
  /\ IF job[t][1] = "release"
     THEN /\ pending' = pending \cup {s} /\ owner' = [owner EXCEPT ![s] = None]
          /\ pc' = Woken(t, "idle")
     ELSE Goto(t, "idle") /\ UNCHANGED <<pending, owner>>
  /\ up' = IF job[t][1] = "init" THEN "down" ELSE up
  /\ lock' = None
  /\ UNCHANGED <<rel, loaded, keys, iolock, job, snap, tmp, files, ghost,
                 bounds>>

---------------------------------------------------------------------------
(* Start and failure *)

Boot(r, l, ks) ==
  /\ up = "down" /\ up' = "booting"
  /\ rel' = r /\ loaded' = l /\ keys' = ks
  /\ job' = [job EXCEPT ![Main] = <<"init", None>>] /\ Goto(Main, "snap")
  /\ UNCHANGED <<pending, owner, lock, iolock, snap, tmp, promised, undone,
                 saves, ops>>

(* _load_state and the restore in __init__: an entry with a session makes  *)
(* it RELEASED again, the others stay in _loaded_released.                 *)
Load ==
  /\ file.whole
  /\ Boot(file.rel \cap Session, file.rel \cap Orphan, file.keys)
  /\ UNCHANGED <<files, faults, damaged>>

(* The JSON does not parse: the file is moved aside and the daemon starts  *)
(* with empty maps.                                                        *)
LoadCorrupt ==
  /\ ~file.whole
  /\ Boot({}, {}, {})
  /\ file' = NoSnap /\ disk' = NoSnap
  /\ UNCHANGED <<faults, damaged>>

(* Mutant: an unreadable file is treated as an empty one. *)
LoadRefusedEmpty ==
  /\ faults < MaxFaults
  /\ faults' = faults + 1
  /\ Boot({}, {}, {})
  /\ UNCHANGED <<files, damaged>>

(* The file is there and cannot be read: StateLoadError, no daemon. *)
LoadRefused ==
  /\ up = "down" /\ faults < MaxFaults
  /\ faults' = faults + 1
  /\ UNCHANGED <<up, mem, lock, iolock, local, files, ghost, saves, ops,
                 damaged>>

Stopped ==
  /\ up' = "down" /\ rel' = {} /\ loaded' = {} /\ keys' = {} /\ pending' = {}
  /\ owner' = [s \in Session |-> None] /\ lock' = None /\ iolock' = None
  /\ pc' = [t \in Thread |-> "idle"] /\ job' = [t \in Thread |-> NoJob]
  /\ snap' = [t \in Thread |-> NoSnap] /\ tmp' = [t \in Thread |-> "none"]

(* External: the process is killed; what was renamed stays. *)
Crash ==
  /\ up # "down" /\ faults < MaxFaults
  /\ Stopped
  /\ faults' = faults + 1
  /\ UNCHANGED <<files, promised, undone, saves, ops, damaged>>

(* External: power fails; a rename whose directory was not synced may or   *)
(* may not be there.                                                       *)
PowerLoss ==
  /\ up # "down" /\ faults < MaxFaults
  /\ Stopped
  /\ \E f \in {file, disk} : file' = f /\ disk' = f
  /\ faults' = faults + 1
  /\ UNCHANGED <<promised, undone, saves, ops, damaged>>

(* External: the file is damaged while no daemon runs. *)
Damage ==
  /\ up = "down" /\ faults < MaxFaults
  /\ file' = [file EXCEPT !.whole = FALSE] /\ disk' = file'
  /\ faults' = faults + 1 /\ damaged' = TRUE
  /\ UNCHANGED <<up, mem, lock, iolock, local, ghost, saves, ops>>

SaveStep(t) ==
  \/ Snapshot(t) \/ EnterIO(t) \/ WriteTmp(t) \/ SyncTmp(t) \/ Replace(t)
  \/ SyncDir(t) \/ PersistEnter(t) \/ Saved(t) \/ SaveRaised(t)

Step ==
  \/ \E t \in team : SaveStep(t) \/ SaveFails(t)
  \/ \E t \in team, s \in Session :
       ReleaseNow(t, s) \/ ReleaseAgain(t, s) \/ AttachDevice(t, s)
  \/ \E t \in team, k \in Key : ChangeUnlocked(t, k) \/ ChangeLocked(t, k)
  \/ Load \/ LoadCorrupt \/ LoadRefused \/ Crash \/ PowerLoss \/ Damage

Next == Step /\ UNCHANGED team

Spec == Init /\ [][Next]_vars

(* Threads that entered a save go on: disk calls return, locks are handed  *)
(* on, an event that was set wakes its waiters.                            *)
FairSpec == Spec /\ \A t \in Thread : WF_vars(SaveStep(t) /\ UNCHANGED team)

---------------------------------------------------------------------------
(* One thread that takes and gives back devices.  With two, an older       *)
(* snapshot can be written last and the next two properties fail: see      *)
(* NewestSnapshotWins.                                                     *)
OneClient == Cardinality(team \ Locked) = 1

(* A release that was answered ok, and an entry the daemon found in the    *)
(* file but has no session for, are still there after any crash, power     *)
(* failure, failed save or refused start: the daemon never opens a device  *)
(* again that it gave away (release_device, _save_state, _load_state).     *)
(* For that, whatever instant the power fails at, the file that is left    *)
(* parses: the temporary file is synced before it takes the name.          *)
AckedReleaseSurvives ==
  ~damaged => /\ file.whole /\ disk.whole
              /\ OneClient /\ up = "up" => promised \subseteq rel \cup loaded

(* A session that is RELEASED in memory and not in the file is still       *)
(* marked for the next release call to save, or its save is under way      *)
(* (_persist_release_state).                                               *)
UnsavedIsPending ==
  OneClient /\ up = "up" => \A s \in rel \ file.rel : s \in pending

(* When no save is under way the file holds the newest snapshot that was   *)
(* taken: what the comment in _save_state calls last writer wins.          *)
NewestSnapshotWins ==
  up = "up" /\ faults = 0 /\ (\A t \in team : pc[t] = "idle")
    => file.seq = saves

(* A release that waits for another caller's save is answered, also when   *)
(* that save fails (_persist_release_state), unless the daemon dies.       *)
WaitersAreAnswered ==
  \A t \in Thread : pc[t] = "wait" ~> pc[t] = "idle"
==============================================================================
