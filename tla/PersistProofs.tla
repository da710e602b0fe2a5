---------------------------- MODULE PersistProofs ----------------------------
(***************************************************************************)
(* Why state.json never loses a release that was answered, for any number  *)
(* of sessions, saves, crashes and threads that save under _lock.          *)
(***************************************************************************)
EXTENDS StatePersist, FiniteSetTheorems, TLAPS

Released == SUBSET (Session \cup Orphan)
State == [rel : Released, keys : SUBSET Key, seq : Nat, whole : BOOLEAN]

\* What a thread works on: a release and an attach are of a session.
Jobs == ({"release", "attach"} \X Session) \cup ({"none", "init", "change"} \X {None})

\* A save from its snapshot to its return.
Saving == {"io", "saved"} \cup Writing

\* The shape of the state.
TypeOK ==
  /\ team \in Teams
  /\ up \in {"down", "booting", "up"}
  /\ rel \subseteq Session
  /\ loaded \subseteq Orphan
  /\ keys \subseteq Key
  /\ pending \subseteq Session
  /\ pc \in [Thread -> {"idle", "persist", "wait", "snap", "failed"} \cup Saving]
  /\ job \in [Thread -> Jobs]
  /\ snap \in [Thread -> State]
  /\ tmp \in [Thread -> {"none", "written", "synced"}]
  /\ file \in State
  /\ disk \in State
  /\ promised \in Released
  /\ saves \in Nat

\* The file takes its name only after its content was synced.
WholeHolds ==
  /\ \A t \in Thread : pc[t] = "replace" => tmp[t] = "synced"
  /\ ~damaged => file.whole /\ disk.whole

\* Who may be where: threads that save under _lock hold it until the save
\* returned; nobody but __init__ runs before the daemon is up.
ThreadsHold ==
  /\ \A t \in team \cap Locked :
       /\ pc[t] \notin {"persist", "wait"}
       /\ pc[t] # "idle" => lock = t
       /\ job[t][1] \in {"none", "change"}
  /\ \A t \in team : pc[t] # "idle" =>
       /\ up = "up" \/ (up = "booting" /\ t = Main)
       /\ up = "booting" <=> job[t][1] = "init"

\* With one thread that releases and takes back, no snapshot on its way to the
\* disk is stale, so a save that returned has written what memory says.
SavesHold ==
  /\ \A t \in team :
       /\ pc[t] \in Saving => snap[t].rel = rel \cup loaded
       /\ pc[t] \in {"dirsync", "saved"} => file.rel = rel \cup loaded
       /\ pc[t] = "saved" => disk.rel = rel \cup loaded
       /\ pc[t] # "idle" /\ job[t][1] = "release" => job[t][2] \in rel
  /\ up = "up" => \A s \in rel \ pending : s \in file.rel /\ s \in disk.rel

\* What was promised is in memory and in whatever file a crash leaves.
PromisesHold ==
  /\ up # "down" => promised \subseteq rel \cup loaded
  /\ promised \subseteq file.rel
  /\ promised \subseteq disk.rel

\* The inductive invariant.
Inv ==
  /\ TypeOK
  /\ WholeHolds
  /\ team \ Locked = {Main} =>
       /\ ThreadsHold
       /\ SavesHold
       /\ ~damaged => PromisesHold

USE DEF mem, local, files, ghost, bounds, vars

------------------------------------------------------------------------------
(* Facts about the steps                                                   *)

\* The threads of a behaviour, and the one that runs __init__.
LEMMA TeamFacts ==
  ASSUME NEW q \in Teams
  PROVE  q \subseteq Thread /\ Main \in q /\ Main \in Thread /\ Main \notin Locked
  BY PersistAssumption

\* The parts of a job.
LEMMA JobFacts ==
  ASSUME NEW j \in Jobs
  PROVE  /\ j[1] \in {"none", "init", "release", "attach", "change"}
         /\ j[1] = "release" => j[2] \in Session
  BY DEF Jobs

\* The fields of a saved state.
LEMMA StateFields ==
  ASSUME NEW f \in State
  PROVE  /\ f.rel \subseteq Session \cup Orphan
         /\ f.keys \subseteq Key
         /\ f.seq \in Nat
         /\ f.whole \in BOOLEAN
  BY DEF State, Released

\* Changing the mark of a file that does not parse changes nothing else.
LEMMA MarkWhole ==
  ASSUME NEW f \in State, NEW b \in BOOLEAN
  PROVE  LET g == [f EXCEPT !.whole = b]
         IN g \in State /\ g.rel = f.rel /\ g.whole = b
  BY DEF State

\* The empty state, and the one the first start finds.
LEMMA NoSnapState ==
  /\ NoSnap \in State
  /\ NoSnap.whole = TRUE /\ NoSnap.rel = {}
  /\ [NoSnap EXCEPT !.rel = Orphan] \in State
  /\ [NoSnap EXCEPT !.rel = Orphan].rel = Orphan
  /\ [NoSnap EXCEPT !.rel = Orphan].whole = TRUE
  BY DEF NoSnap, State, Released

\* A snapshot is what memory says.
LEMMA PayloadState ==
  ASSUME TypeOK
  PROVE  Payload \in State /\ Payload.rel = rel \cup loaded
  BY DEF TypeOK, Payload, State, Released

\* Only the waiters are woken.
LEMMA WokenFacts ==
  ASSUME TypeOK, NEW t \in Thread, NEW l
  PROVE  /\ Woken(t, l)[t] = l
         /\ \A u \in Thread \ {t} :
              Woken(t, l)[u] = pc[u] \/ (pc[u] = "wait" /\ Woken(t, l)[u] = "persist")
  BY DEF Woken

------------------------------------------------------------------------------
(* Type correctness                                                        *)

\* The state before the first start is well formed.
LEMMA TypeInit == Init => TypeOK
<1> SUFFICES ASSUME Init PROVE TypeOK
  OBVIOUS
<1>1. NoJob \in Jobs
  BY DEF NoJob, Jobs
<1>2. file \in State /\ disk \in State
  BY NoSnapState DEF Init
<1>3. snap \in [Thread -> State] /\ job \in [Thread -> Jobs]
  BY <1>1, NoSnapState DEF Init
<1> QED
  BY <1>2, <1>3 DEF Init, TypeOK, Released

\* Every step keeps the state well formed.
LEMMA TypeStep ==
  ASSUME TypeOK, [Next]_vars
  PROVE  TypeOK'
<1> DEFINE Pc == {"idle", "persist", "wait", "snap", "failed"} \cup Saving
<1>a. /\ team \subseteq Thread /\ Main \in Thread
      /\ file \in State /\ disk \in State /\ snap \in [Thread -> State]
      /\ pc \in [Thread -> Pc] /\ job \in [Thread -> Jobs]
      /\ rel \subseteq Session /\ promised \subseteq Session \cup Orphan
  BY TeamFacts DEF TypeOK, Released
<1>b. {"write", "fsync", "replace", "dirsync", "saved", "io", "idle", "persist", "wait", "snap", "failed"}
        \subseteq Pc
  BY DEF Saving, Writing
<1>1. ASSUME NEW t \in team, Snapshot(t), UNCHANGED team PROVE TypeOK'
  <2>1. snap' \in [Thread -> State] /\ saves' \in Nat
    BY <1>1, <1>a, PayloadState DEF Snapshot, TakeSnapshot, TypeOK
  <2>2. pc' \in [Thread -> Pc]
    BY <1>1, <1>a, <1>b DEF Snapshot, Goto
  <2> QED
    BY <1>1, <2>1, <2>2 DEF Snapshot, TypeOK
<1>2. ASSUME NEW t \in team, EnterIO(t) \/ WriteTmp(t) \/ SyncTmp(t) \/ SyncDir(t) \/ SaveFails(t),
             UNCHANGED team
      PROVE  TypeOK'
  <2>1. pc' \in [Thread -> Pc]
    BY <1>2, <1>a, <1>b DEF EnterIO, WriteTmp, SyncTmp, SyncDir, SaveFails, Goto
  <2>2. tmp' \in [Thread -> {"none", "written", "synced"}]
    BY <1>2, <1>a DEF EnterIO, WriteTmp, SyncTmp, SyncDir, SaveFails, TypeOK
  <2>3. UNCHANGED <<up, mem, job, snap, file, promised, saves>> /\ disk' \in {disk, file}
    BY <1>2 DEF EnterIO, WriteTmp, SyncTmp, SyncDir, SaveFails
  <2> QED
    BY <1>2, <1>a, <2>1, <2>2, <2>3 DEF TypeOK
<1>3. ASSUME NEW t \in team, Replace(t), UNCHANGED team PROVE TypeOK'
  <2>1. file' = [snap[t] EXCEPT !.whole = tmp[t] = "synced"]
    BY <1>3 DEF Replace
  <2>2. file' \in State
    BY <1>a, <2>1, MarkWhole
  <2>3. pc' \in [Thread -> Pc] /\ tmp' \in [Thread -> {"none", "written", "synced"}]
    BY <1>3, <1>a, <1>b DEF Replace, Goto, TypeOK
  <2>4. UNCHANGED <<up, mem, job, snap, disk, promised, saves>>
    BY <1>3 DEF Replace
  <2> QED
    BY <1>3, <2>2, <2>3, <2>4 DEF TypeOK
<1>4. ASSUME NEW t \in team, Answer(t) PROVE promised' \in Released
  <2>1. job[t][1] = "release" => job[t][2] \in Session
    BY <1>a, JobFacts
  <2> QED
    BY <1>4, <1>a, <2>1 DEF Answer, Released
<1>5. ASSUME NEW t \in team, PersistEnter(t), UNCHANGED team PROVE TypeOK'
  <2>1. pc' \in [Thread -> Pc]
    BY <1>5, <1>a, <1>b DEF PersistEnter, Goto
  <2>2. promised' \in Released
    BY <1>4, <1>5 DEF PersistEnter, TypeOK
  <2>3. UNCHANGED <<up, rel, loaded, keys, pending, job, snap, tmp, files, saves>>
    BY <1>5 DEF PersistEnter
  <2> QED
    BY <1>5, <2>1, <2>2, <2>3 DEF TypeOK
<1>6. ASSUME NEW t \in team, NEW l \in Pc PROVE Woken(t, l) \in [Thread -> Pc]
  BY <1>6, <1>a, <1>b DEF Woken
<1>7. ASSUME NEW t \in team, Saved(t) \/ SaveRaised(t), UNCHANGED team PROVE TypeOK'
  <2>1. Woken(t, "idle") \in [Thread -> Pc] /\ [pc EXCEPT ![t] = "idle"] \in [Thread -> Pc]
    BY <1>6, <1>a, <1>b
  <2>2. pc' \in [Thread -> Pc]
    BY <1>7, <2>1 DEF Saved, SaveRaised, Goto
  <2>3. promised' \in Released
    BY <1>4, <1>7 DEF Saved, SaveRaised, TypeOK
  <2>4. pending' \subseteq Session
    <3>1. job[t][1] = "release" => job[t][2] \in Session
      BY <1>a, JobFacts
    <3> QED
      BY <1>7, <3>1 DEF Saved, SaveRaised, TypeOK
  <2>5. up' \in {"down", "booting", "up"}
    BY <1>7 DEF Saved, SaveRaised, TypeOK
  <2>6. UNCHANGED <<rel, loaded, keys, job, snap, tmp, files, saves>>
    BY <1>7 DEF Saved, SaveRaised
  <2> QED
    BY <1>7, <2>2, <2>3, <2>4, <2>5, <2>6 DEF TypeOK
<1>8. ASSUME NEW t \in team, NEW s \in Session, UNCHANGED team,
             ReleaseNow(t, s) \/ ReleaseAgain(t, s) \/ AttachDevice(t, s)
      PROVE  TypeOK'
  <2>1. <<"release", s>> \in Jobs /\ <<"attach", s>> \in Jobs
    BY DEF Jobs
  <2>2. job' \in [Thread -> Jobs] /\ pc' \in [Thread -> Pc]
    BY <1>8, <1>a, <1>b, <2>1 DEF ReleaseNow, ReleaseAgain, AttachDevice, StartJob, Goto
  <2>3. /\ rel' \subseteq Session /\ promised' \in Released
    BY <1>8, <1>a DEF ReleaseNow, ReleaseAgain, AttachDevice, Released
  <2>4. pending' \subseteq Session
    BY <1>8 DEF ReleaseNow, ReleaseAgain, AttachDevice, TypeOK
  <2>5. UNCHANGED <<up, loaded, keys, snap, tmp, files, saves>>
    BY <1>8 DEF ReleaseNow, ReleaseAgain, AttachDevice
  <2> QED
    BY <1>8, <2>2, <2>3, <2>4, <2>5 DEF TypeOK
<1>9. ASSUME NEW t \in team, NEW k \in Key, UNCHANGED team, ChangeUnlocked(t, k) \/ ChangeLocked(t, k)
      PROVE  TypeOK'
  <2>1. <<"change", None>> \in Jobs
    BY DEF Jobs
  <2>2. job' \in [Thread -> Jobs] /\ pc' \in [Thread -> Pc]
    BY <1>9, <1>a, <1>b, <2>1 DEF ChangeUnlocked, ChangeLocked, StartJob, Goto
  <2>3. keys' \subseteq Key
    BY <1>9 DEF ChangeUnlocked, ChangeLocked, TypeOK
  <2>4. UNCHANGED <<up, rel, loaded, pending, snap, tmp, files, promised, saves>>
    BY <1>9 DEF ChangeUnlocked, ChangeLocked
  <2> QED
    BY <1>9, <2>2, <2>3, <2>4 DEF TypeOK
<1>10. ASSUME Load \/ LoadCorrupt, UNCHANGED team PROVE TypeOK'
  <2>1. <<"init", None>> \in Jobs
    BY DEF Jobs
  <2>2. \E r \in SUBSET Session, l \in SUBSET Orphan, ks \in SUBSET Key : Boot(r, l, ks)
    BY <1>10, <1>a, StateFields DEF Load, LoadCorrupt
  <2>3. /\ rel' \subseteq Session /\ loaded' \subseteq Orphan /\ keys' \subseteq Key
        /\ up' = "booting" /\ UNCHANGED <<pending, snap, tmp, promised, saves>>
    BY <2>2 DEF Boot
  <2>4. job' \in [Thread -> Jobs] /\ pc' \in [Thread -> Pc]
    BY <1>a, <1>b, <2>1, <2>2 DEF Boot, Goto
  <2>5. file' \in State /\ disk' \in State
    BY <1>10, <1>a, NoSnapState DEF Load, LoadCorrupt
  <2> QED
    BY <1>10, <2>3, <2>4, <2>5 DEF TypeOK
<1>11. ASSUME Crash \/ PowerLoss, UNCHANGED team PROVE TypeOK'
  <2>1. Stopped /\ UNCHANGED <<promised, saves>>
    BY <1>11 DEF Crash, PowerLoss
  <2>2. file' \in State /\ disk' \in State
    BY <1>11, <1>a DEF Crash, PowerLoss
  <2>3. NoJob \in Jobs
    BY DEF NoJob, Jobs
  <2>4. /\ up' = "down" /\ rel' = {} /\ loaded' = {} /\ keys' = {} /\ pending' = {}
        /\ pc' \in [Thread -> Pc] /\ job' \in [Thread -> Jobs] /\ snap' \in [Thread -> State]
        /\ tmp' \in [Thread -> {"none", "written", "synced"}]
    BY <1>b, <2>1, <2>3, NoSnapState DEF Stopped
  <2> QED
    BY <1>11, <2>1, <2>2, <2>4 DEF TypeOK
<1>12. ASSUME LoadRefused, UNCHANGED team PROVE TypeOK'
  BY <1>12 DEF LoadRefused, TypeOK
<1>13. ASSUME Damage, UNCHANGED team PROVE TypeOK'
  <2>1. file' \in State /\ disk' \in State
    BY <1>13, <1>a, MarkWhole DEF Damage
  <2>2. UNCHANGED <<up, mem, local, promised, saves>>
    BY <1>13 DEF Damage
  <2> QED
    BY <1>13, <2>1, <2>2 DEF TypeOK
<1>14. CASE UNCHANGED vars
  BY <1>14 DEF TypeOK
<1> QED
  BY <1>1, <1>2, <1>3, <1>5, <1>7, <1>8, <1>9, <1>10, <1>11, <1>12, <1>13, <1>14
     DEF Next, Step, SaveStep

------------------------------------------------------------------------------
(* A file that parses                                                      *)

\* The temporary file is synced before it takes the name: WholeHolds is kept.
LEMMA WholeStep ==
  ASSUME TypeOK, WholeHolds, [Next]_vars
  PROVE  WholeHolds'
<1>a. /\ team \subseteq Thread /\ Main \in Thread
      /\ file \in State /\ disk \in State /\ snap \in [Thread -> State]
      /\ DOMAIN pc = Thread /\ DOMAIN tmp = Thread
      /\ pc = [t \in Thread |-> pc[t]] /\ tmp = [t \in Thread |-> tmp[t]]
  BY TeamFacts DEF TypeOK
\* A step that leaves the files alone and brings no thread to the rename.
<1>0. ASSUME UNCHANGED <<files, damaged>>,
             \A t \in Thread : pc'[t] = "replace" => pc[t] = "replace" /\ tmp'[t] = tmp[t]
      PROVE  WholeHolds'
  BY <1>0 DEF WholeHolds
<1>1. ASSUME NEW t \in team,
             Snapshot(t) \/ EnterIO(t) \/ WriteTmp(t) \/ SaveFails(t) \/ PersistEnter(t)
      PROVE  WholeHolds'
  <2>1. UNCHANGED <<files, damaged>>
    BY <1>1 DEF Snapshot, EnterIO, WriteTmp, SaveFails, PersistEnter
  <2>2. \A u \in Thread : pc'[u] = "replace" => pc[u] = "replace" /\ tmp'[u] = tmp[u]
    BY <1>1, <1>a DEF Snapshot, EnterIO, WriteTmp, SaveFails, PersistEnter, Goto
  <2> QED
    BY <1>0, <2>1, <2>2
<1>2. ASSUME NEW t \in team, SyncTmp(t) PROVE WholeHolds'
  <2>1. /\ tmp' = [tmp EXCEPT ![t] = "synced"] /\ pc' = [pc EXCEPT ![t] = "replace"]
        /\ UNCHANGED <<files, damaged>>
    BY <1>2 DEF SyncTmp, Goto
  <2> QED
    BY <1>a, <2>1 DEF WholeHolds
<1>3. ASSUME NEW t \in team, Replace(t) PROVE WholeHolds'
  <2>1. /\ file' = [snap[t] EXCEPT !.whole = tmp[t] = "synced"]
        /\ pc[t] = "replace" /\ pc' = [pc EXCEPT ![t] = "dirsync"]
        /\ tmp' = [tmp EXCEPT ![t] = "none"] /\ UNCHANGED <<disk, damaged>>
    BY <1>3 DEF Replace, Goto
  <2>2. tmp[t] = "synced"
    BY <1>a, <2>1 DEF WholeHolds
  <2>3. file'.whole = (tmp[t] = "synced")
    BY <1>a, <2>1, MarkWhole
  <2>4. file'.whole
    BY <2>2, <2>3
  <2>5. \A u \in Thread : pc'[u] = "replace" => tmp'[u] = "synced"
    BY <1>a, <2>1 DEF WholeHolds
  <2> QED
    BY <2>1, <2>4, <2>5 DEF WholeHolds
<1>4. ASSUME NEW t \in team, SyncDir(t) PROVE WholeHolds'
  <2>1. /\ disk' = file /\ pc' = [pc EXCEPT ![t] = "saved"] /\ UNCHANGED <<file, damaged, tmp>>
    BY <1>4 DEF SyncDir, Goto
  <2> QED
    BY <1>a, <2>1 DEF WholeHolds
<1>5. ASSUME NEW t \in team, Saved(t) \/ SaveRaised(t) PROVE WholeHolds'
  <2>1. UNCHANGED <<files, damaged, tmp>>
    BY <1>5 DEF Saved, SaveRaised
  <2>2. pc' = Woken(t, "idle") \/ pc' = [pc EXCEPT ![t] = "idle"]
    BY <1>5 DEF Saved, SaveRaised, Goto
  <2>3. \A u \in Thread : pc'[u] = "replace" => pc[u] = "replace"
    BY <1>a, <2>2, WokenFacts
  <2> QED
    BY <1>0, <2>1, <2>3
<1>6. ASSUME NEW t \in team, NEW s \in Session, ReleaseNow(t, s) \/ ReleaseAgain(t, s) \/ AttachDevice(t, s)
      PROVE  WholeHolds'
  <2>1. UNCHANGED <<files, damaged, tmp>>
    BY <1>6 DEF ReleaseNow, ReleaseAgain, AttachDevice
  <2>2. \A u \in Thread : pc'[u] = "replace" => pc[u] = "replace"
    BY <1>6, <1>a DEF ReleaseNow, ReleaseAgain, AttachDevice, Goto
  <2> QED
    BY <1>0, <2>1, <2>2
<1>7. ASSUME NEW t \in team, NEW k \in Key, ChangeUnlocked(t, k) \/ ChangeLocked(t, k)
      PROVE  WholeHolds'
  <2>1. UNCHANGED <<files, damaged, tmp>>
    BY <1>7 DEF ChangeUnlocked, ChangeLocked
  <2>2. \A u \in Thread : pc'[u] = "replace" => pc[u] = "replace"
    BY <1>7, <1>a DEF ChangeUnlocked, ChangeLocked, Goto
  <2> QED
    BY <1>0, <2>1, <2>2
<1>8. ASSUME Load \/ LoadCorrupt PROVE WholeHolds'
  <2>1. /\ pc' = [pc EXCEPT ![Main] = "snap"] /\ UNCHANGED <<tmp, damaged>>
    BY <1>8 DEF Load, LoadCorrupt, Boot, Goto
  <2>2. UNCHANGED files \/ (file' = NoSnap /\ disk' = NoSnap)
    BY <1>8 DEF Load, LoadCorrupt
  <2>3. \A u \in Thread : pc'[u] = "replace" => tmp'[u] = "synced"
    BY <1>a, <2>1 DEF WholeHolds
  <2> QED
    BY <2>1, <2>2, <2>3, NoSnapState DEF WholeHolds
<1>9. ASSUME Crash \/ PowerLoss PROVE WholeHolds'
  <2>1. pc' = [u \in Thread |-> "idle"] /\ UNCHANGED damaged
    BY <1>9 DEF Crash, PowerLoss, Stopped
  <2>2. file' \in {file, disk} /\ disk' \in {file, disk}
    BY <1>9 DEF Crash, PowerLoss
  <2> QED
    BY <2>1, <2>2 DEF WholeHolds
<1>10. ASSUME LoadRefused PROVE WholeHolds'
  BY <1>0, <1>10 DEF LoadRefused
<1>11. ASSUME Damage PROVE WholeHolds'
  BY <1>11 DEF Damage, WholeHolds
<1>12. CASE UNCHANGED vars
  BY <1>0, <1>12
<1> QED
  BY <1>1, <1>2, <1>3, <1>4, <1>5, <1>6, <1>7, <1>8, <1>9, <1>10, <1>11, <1>12
     DEF Next, Step, SaveStep

------------------------------------------------------------------------------
(* Threads                                                                 *)

\* _lock is held from the change to the end of the save, and __init__ runs
\* alone: ThreadsHold is kept.
LEMMA ThreadsStep ==
  ASSUME TypeOK, team \ Locked = {Main}, ThreadsHold, [Next]_vars
  PROVE  ThreadsHold'
<1>a. /\ team \subseteq Thread /\ Main \in team /\ Main \notin Locked
      /\ DOMAIN pc = Thread /\ DOMAIN job = Thread
      /\ pc = [t \in Thread |-> pc[t]] /\ job = [t \in Thread |-> job[t]]
      /\ None \notin Thread /\ team' = team
  BY TeamFacts, PersistAssumption DEF TypeOK, Next
\* A thread in the middle of a save goes on with it.
<1>0. ASSUME NEW t \in team, pc[t] # "idle", UNCHANGED <<up, lock, job>>,
             pc'[t] \in {"persist", "wait"} => t = Main,
             \A u \in Thread \ {t} : pc'[u] = pc[u]
      PROVE  ThreadsHold'
  BY <1>0, <1>a DEF ThreadsHold
<1>1. ASSUME NEW t \in team,
             \/ Snapshot(t) \/ EnterIO(t) \/ WriteTmp(t) \/ SyncTmp(t) \/ Replace(t) \/ SyncDir(t)
             \/ SaveFails(t)
      PROVE  ThreadsHold'
  <2>1. pc[t] # "idle" /\ UNCHANGED <<up, lock, job>>
    BY <1>1 DEF Snapshot, EnterIO, WriteTmp, SyncTmp, Replace, SyncDir, SaveFails, Writing
  <2>2. /\ pc'[t] \notin {"persist", "wait"}
        /\ \A u \in Thread \ {t} : pc'[u] = pc[u]
    BY <1>1, <1>a DEF Snapshot, EnterIO, WriteTmp, SyncTmp, Replace, SyncDir, SaveFails, Goto
  <2> QED
    BY <1>0, <2>1, <2>2
<1>2. ASSUME NEW t \in team, PersistEnter(t) PROVE ThreadsHold'
  <2>1. pc[t] = "persist" /\ UNCHANGED <<up, lock, job>>
    BY <1>2 DEF PersistEnter
  <2>2. t = Main
    BY <1>a, <2>1 DEF ThreadsHold
  <2>3. \A u \in Thread \ {t} : pc'[u] = pc[u]
    BY <1>2, <1>a DEF PersistEnter, Goto
  <2> QED
    BY <1>0, <2>1, <2>2, <2>3
<1>3. ASSUME NEW t \in team, Saved(t) \/ SaveRaised(t) PROVE ThreadsHold'
  <2>1. /\ pc[t] \in {"saved", "failed"} /\ lock \in {None, t} /\ lock' = None /\ job' = job
        /\ up' = "up" \/ (up' = "down" /\ job[t][1] = "init") \/ (up' = up /\ job[t][1] # "init")
    BY <1>3 DEF Saved, SaveRaised, LockFree
  <2>2. pc' = Woken(t, "idle") \/ pc' = [pc EXCEPT ![t] = "idle"]
    BY <1>3 DEF Saved, SaveRaised, Goto
  <2>3. /\ pc'[t] = "idle"
        /\ \A u \in Thread \ {t} : pc'[u] = pc[u] \/ (pc[u] = "wait" /\ pc'[u] = "persist")
    BY <1>a, <2>2, WokenFacts
  <2>4. \A u \in team \cap Locked : u # t => pc[u] = "idle" /\ pc'[u] = "idle"
    BY <1>a, <2>1, <2>3 DEF ThreadsHold
  <2>5. \A u \in team \cap Locked : pc'[u] = "idle"
    BY <2>3, <2>4
  <2>6. ASSUME NEW u \in team, pc'[u] # "idle" PROVE up = "up" /\ up' = "up" /\ job[u][1] # "init"
    <3>1. u = Main /\ u # t /\ pc[u] # "idle"
      BY <1>a, <2>3, <2>5, <2>6
    <3>2. up = "up"
      BY <2>1, <3>1 DEF ThreadsHold
    <3>3. job[t][1] # "init" /\ job[u][1] # "init"
      BY <2>1, <3>1, <3>2 DEF ThreadsHold
    <3> QED
      BY <2>1, <3>2, <3>3
  <2>7. \A u \in team \cap Locked : job'[u][1] \in {"none", "change"}
    BY <2>1 DEF ThreadsHold
  <2> QED
    BY <1>a, <2>1, <2>5, <2>6, <2>7 DEF ThreadsHold
\* An operation begins, with _lock free and the daemon up.
<1>4. ASSUME NEW t \in team, up = "up", lock = None, up' = up,
             \A u \in Thread \ {t} : pc'[u] = pc[u] /\ job'[u] = job[u],
             \/ t \notin Locked /\ job'[t][1] # "init"
             \/ t \in Locked /\ lock' = t /\ pc'[t] = "snap" /\ job'[t][1] = "change"
      PROVE  ThreadsHold'
  <2>1. \A u \in team \cap Locked : pc[u] = "idle"
    BY <1>4, <1>a DEF ThreadsHold
  <2> QED
    BY <1>4, <1>a, <2>1 DEF ThreadsHold
<1>5. ASSUME NEW t \in team, NEW s \in Session, ReleaseNow(t, s) \/ ReleaseAgain(t, s) \/ AttachDevice(t, s)
      PROVE  ThreadsHold'
  <2>1. t \notin Locked /\ up = "up" /\ lock = None /\ up' = up
    BY <1>5 DEF ReleaseNow, ReleaseAgain, AttachDevice, Client, Idle
  <2>2. CASE UNCHANGED <<pc, job, lock>>
    BY <1>a, <2>1, <2>2 DEF ThreadsHold
  <2>3. CASE ~UNCHANGED <<pc, job, lock>>
    <3>1. PICK o \in {"release", "attach"}, l \in {"persist", "snap"} : /\ pc' = [pc EXCEPT ![t] = l]
                                                /\ job' = [job EXCEPT ![t] = <<o, s>>]
      BY <1>5, <2>3 DEF ReleaseNow, ReleaseAgain, AttachDevice, StartJob, Goto
    <3>2. /\ job'[t][1] # "init"
          /\ \A u \in Thread \ {t} : pc'[u] = pc[u] /\ job'[u] = job[u]
      BY <1>a, <3>1
    <3> QED
      BY <1>4, <2>1, <3>2
  <2> QED
    BY <2>2, <2>3
<1>6. ASSUME NEW t \in team, NEW k \in Key, ChangeUnlocked(t, k) \/ ChangeLocked(t, k)
      PROVE  ThreadsHold'
  <2>1. /\ up = "up" /\ lock = None /\ up' = up
        /\ pc' = [pc EXCEPT ![t] = "snap"] /\ job' = [job EXCEPT ![t] = <<"change", None>>]
        /\ t \notin Locked \/ (t \in Locked /\ lock' = t)
    BY <1>6 DEF ChangeUnlocked, ChangeLocked, StartJob, Goto, Client, Idle
  <2>2. /\ pc'[t] = "snap" /\ job'[t][1] = "change"
        /\ \A u \in Thread \ {t} : pc'[u] = pc[u] /\ job'[u] = job[u]
    BY <1>a, <2>1
  <2> QED
    BY <1>4, <2>1, <2>2
<1>7. ASSUME Load \/ LoadCorrupt PROVE ThreadsHold'
  <2>1. /\ up = "down" /\ up' = "booting" /\ lock' = lock
        /\ pc' = [pc EXCEPT ![Main] = "snap"] /\ job' = [job EXCEPT ![Main] = <<"init", None>>]
    BY <1>7 DEF Load, LoadCorrupt, Boot, Goto
  <2>2. \A u \in team : pc[u] = "idle"
    BY <2>1 DEF ThreadsHold
  <2>3. /\ job'[Main][1] = "init"
        /\ \A u \in team \ {Main} : pc'[u] = "idle" /\ job'[u] = job[u]
    BY <1>a, <2>1, <2>2
  <2> QED
    BY <1>a, <2>1, <2>3 DEF ThreadsHold
<1>8. ASSUME Crash \/ PowerLoss PROVE ThreadsHold'
  <2>1. pc' = [u \in Thread |-> "idle"] /\ job' = [u \in Thread |-> NoJob]
    BY <1>8 DEF Crash, PowerLoss, Stopped
  <2>2. \A u \in team : pc'[u] = "idle" /\ job'[u][1] = "none"
    BY <1>a, <2>1 DEF NoJob
  <2> QED
    BY <1>a, <2>2 DEF ThreadsHold
<1>9. ASSUME LoadRefused \/ Damage \/ UNCHANGED vars PROVE ThreadsHold'
  BY <1>9, <1>a DEF LoadRefused, Damage, ThreadsHold
<1> QED
  BY <1>1, <1>2, <1>3, <1>5, <1>6, <1>7, <1>8, <1>9 DEF Next, Step, SaveStep

------------------------------------------------------------------------------
(* Saves                                                                   *)

\* No save is overtaken by a change of what it saves: SavesHold is kept.
LEMMA SavesStep ==
  ASSUME TypeOK, team \ Locked = {Main}, ThreadsHold, SavesHold, [Next]_vars
  PROVE  SavesHold'
<1>a. /\ team \subseteq Thread /\ Main \in team /\ Main \notin Locked
      /\ DOMAIN pc = Thread /\ DOMAIN job = Thread /\ DOMAIN snap = Thread
      /\ pc = [t \in Thread |-> pc[t]] /\ job = [t \in Thread |-> job[t]]
      /\ snap = [t \in Thread |-> snap[t]] /\ \A t \in Thread : snap[t] \in State
      /\ None \notin Thread /\ team' = team
  BY TeamFacts, PersistAssumption DEF TypeOK, Next
<1>b. /\ Saving = {"io", "saved", "write", "fsync", "replace", "dirsync"}
      /\ Writing = {"write", "fsync", "replace", "dirsync"}
  BY DEF Saving, Writing
\* A step that changes no device, no file and no snapshot in use.
<1>0. ASSUME UNCHANGED <<rel, loaded, files>>,
             pending \subseteq pending', up' = "up" => up = "up",
             \A u \in team : \/ pc'[u] = pc[u] /\ snap'[u] = snap[u] /\ job'[u] = job[u]
                             \/ /\ pc'[u] \in Saving => /\ snap'[u].rel = rel \cup loaded
                                                        /\ pc'[u] \notin {"dirsync", "saved"}
                                /\ pc'[u] # "idle" /\ job'[u][1] = "release" => job'[u][2] \in rel
      PROVE  SavesHold'
  <2>1. \A u \in team :
           /\ pc'[u] \in Saving => snap'[u].rel = rel' \cup loaded'
           /\ pc'[u] \in {"dirsync", "saved"} => file'.rel = rel' \cup loaded'
           /\ pc'[u] = "saved" => disk'.rel = rel' \cup loaded'
           /\ pc'[u] # "idle" /\ job'[u][1] = "release" => job'[u][2] \in rel'
    BY <1>0, <1>a, <1>b DEF SavesHold
  <2>2. up' = "up" => \A s \in rel' \ pending' : s \in file'.rel /\ s \in disk'.rel
    BY <1>0 DEF SavesHold
  <2> QED
    BY <1>a, <2>1, <2>2 DEF SavesHold
<1>1. ASSUME NEW t \in team, Snapshot(t) PROVE SavesHold'
  <2>1. /\ pc[t] = "snap" /\ snap' = [snap EXCEPT ![t] = Payload] /\ pc' = [pc EXCEPT ![t] = "io"]
        /\ UNCHANGED <<up, rel, loaded, pending, job, files>>
    BY <1>1 DEF Snapshot, TakeSnapshot, Goto
  <2>2. Payload.rel = rel \cup loaded
    BY PayloadState
  <2>3. \A u \in team \ {t} : pc'[u] = pc[u] /\ snap'[u] = snap[u] /\ job'[u] = job[u]
    BY <1>a, <2>1
  <2>4. pc'[t] = "io" /\ snap'[t].rel = rel \cup loaded
    BY <1>a, <2>1, <2>2
  <2>5. job'[t][1] = "release" => job'[t][2] \in rel
    BY <2>1 DEF SavesHold
  <2> QED
    BY <1>0, <2>1, <2>3, <2>4, <2>5
<1>2. ASSUME NEW t \in team, EnterIO(t) \/ WriteTmp(t) \/ SyncTmp(t) \/ SaveFails(t) PROVE SavesHold'
  <2>1. /\ pc[t] \in Saving /\ UNCHANGED <<up, rel, loaded, pending, job, snap, files>>
        /\ \E l \in {"write", "fsync", "replace", "failed"} : pc' = [pc EXCEPT ![t] = l]
    BY <1>2, <1>b DEF EnterIO, WriteTmp, SyncTmp, SaveFails, Goto
  <2>2. \A u \in team \ {t} : pc'[u] = pc[u] /\ snap'[u] = snap[u] /\ job'[u] = job[u]
    BY <1>a, <2>1
  <2>3. pc'[t] \notin {"dirsync", "saved"}
    BY <1>a, <2>1
  <2>4. snap'[t].rel = rel \cup loaded /\ (job'[t][1] = "release" => job'[t][2] \in rel)
    BY <1>b, <2>1 DEF SavesHold
  <2> QED
    BY <1>0, <2>1, <2>2, <2>3, <2>4
<1>3. ASSUME NEW t \in team, Replace(t) PROVE SavesHold'
  <2>1. /\ pc[t] = "replace" /\ file' = [snap[t] EXCEPT !.whole = tmp[t] = "synced"]
        /\ pc' = [pc EXCEPT ![t] = "dirsync"] /\ UNCHANGED <<up, rel, loaded, pending, job, snap, disk>>
    BY <1>3 DEF Replace, Goto
  <2>2. snap[t].rel = rel \cup loaded
    BY <1>b, <2>1 DEF SavesHold
  <2>3. file'.rel = snap[t].rel
    BY <1>a, <2>1, MarkWhole
  <2>4. /\ pc'[t] = "dirsync" /\ \A u \in team \ {t} : pc'[u] = pc[u]
    BY <1>a, <2>1
  <2>5. \A u \in team :
           /\ pc'[u] \in Saving => snap'[u].rel = rel' \cup loaded'
           /\ pc'[u] \in {"dirsync", "saved"} => file'.rel = rel' \cup loaded'
           /\ pc'[u] = "saved" => disk'.rel = rel' \cup loaded'
           /\ pc'[u] # "idle" /\ job'[u][1] = "release" => job'[u][2] \in rel'
    BY <2>1, <2>2, <2>3, <2>4 DEF SavesHold
  <2>6. up' = "up" => \A s \in rel' \ pending' : s \in file'.rel /\ s \in disk'.rel
    BY <2>1, <2>2, <2>3 DEF SavesHold
  <2> QED
    BY <1>a, <2>5, <2>6 DEF SavesHold
<1>4. ASSUME NEW t \in team, SyncDir(t) PROVE SavesHold'
  <2>1. /\ pc[t] = "dirsync" /\ disk' = file /\ pc' = [pc EXCEPT ![t] = "saved"]
        /\ UNCHANGED <<up, rel, loaded, pending, job, snap, file>>
    BY <1>4 DEF SyncDir, Goto
  <2>2. file.rel = rel \cup loaded /\ snap[t].rel = rel \cup loaded
    BY <1>b, <2>1 DEF SavesHold
  <2>4. /\ pc'[t] = "saved" /\ \A u \in team \ {t} : pc'[u] = pc[u]
    BY <1>a, <2>1
  <2>5. \A u \in team :
           /\ pc'[u] \in Saving => snap'[u].rel = rel' \cup loaded'
           /\ pc'[u] \in {"dirsync", "saved"} => file'.rel = rel' \cup loaded'
           /\ pc'[u] = "saved" => disk'.rel = rel' \cup loaded'
           /\ pc'[u] # "idle" /\ job'[u][1] = "release" => job'[u][2] \in rel'
    BY <2>1, <2>2, <2>4 DEF SavesHold
  <2>6. up' = "up" => \A s \in rel' \ pending' : s \in file'.rel /\ s \in disk'.rel
    BY <2>1, <2>2 DEF SavesHold
  <2> QED
    BY <1>a, <2>5, <2>6 DEF SavesHold
<1>5. ASSUME NEW t \in team, PersistEnter(t) PROVE SavesHold'
  <2>1. /\ pc[t] = "persist" /\ UNCHANGED <<up, rel, loaded, pending, job, snap, files>>
        /\ \E l \in {"idle", "snap", "wait"} : pc' = [pc EXCEPT ![t] = l]
    BY <1>5 DEF PersistEnter, Goto
  <2>2. pc'[t] \in {"idle", "snap", "wait"} /\ \A u \in team \ {t} : pc'[u] = pc[u]
    BY <1>a, <2>1
  <2>3. job'[t][1] = "release" => job'[t][2] \in rel
    BY <2>1 DEF SavesHold
  <2> QED
    BY <1>0, <1>b, <2>1, <2>2, <2>3
<1>6. ASSUME NEW t \in team, pc[t] \in {"saved", "failed"}, UNCHANGED <<rel, loaded, job, snap, files>>,
             pc' = Woken(t, "idle") \/ pc' = [pc EXCEPT ![t] = "idle"],
             up' = "up" => \A s \in rel \ pending' : s \in file.rel /\ s \in disk.rel
      PROVE  SavesHold'
  <2>1. /\ pc'[t] = "idle"
        /\ \A u \in Thread \ {t} : pc'[u] = pc[u] \/ (pc[u] = "wait" /\ pc'[u] = "persist")
    BY <1>a, <1>6, WokenFacts
  <2>2. \A u \in team :
           /\ pc'[u] \in Saving => snap'[u].rel = rel' \cup loaded'
           /\ pc'[u] \in {"dirsync", "saved"} => file'.rel = rel' \cup loaded'
           /\ pc'[u] = "saved" => disk'.rel = rel' \cup loaded'
           /\ pc'[u] # "idle" /\ job'[u][1] = "release" => job'[u][2] \in rel'
    BY <1>a, <1>b, <1>6, <2>1 DEF SavesHold
  <2> QED
    BY <1>a, <1>6, <2>2 DEF SavesHold
<1>7. ASSUME NEW t \in team, Saved(t) PROVE SavesHold'
  <2>1. /\ pc[t] = "saved" /\ UNCHANGED <<rel, loaded, job, snap, files>>
        /\ pc' = Woken(t, "idle") \/ pc' = [pc EXCEPT ![t] = "idle"]
    BY <1>7 DEF Saved, Goto
  <2>2. file.rel = rel \cup loaded /\ disk.rel = rel \cup loaded
    BY <2>1 DEF SavesHold
  <2> QED
    BY <1>6, <2>1, <2>2
<1>8. ASSUME NEW t \in team, SaveRaised(t) PROVE SavesHold'
  <2>1. /\ pc[t] = "failed" /\ UNCHANGED <<rel, loaded, job, snap, files>>
        /\ pc' = Woken(t, "idle") \/ pc' = [pc EXCEPT ![t] = "idle"]
        /\ pending \subseteq pending' /\ (up' = "up" => up = "up")
    BY <1>8 DEF SaveRaised, Goto
  <2>2. up' = "up" => \A s \in rel \ pending' : s \in file.rel /\ s \in disk.rel
    BY <2>1 DEF SavesHold
  <2> QED
    BY <1>6, <2>1, <2>2
<1>9. ASSUME NEW t \in team, NEW s \in Session, ReleaseNow(t, s) \/ AttachDevice(t, s) PROVE SavesHold'
  <2>1. /\ pc[t] = "idle" /\ lock = None /\ t \notin Locked /\ up = "up" /\ UNCHANGED <<up, loaded, snap, files>>
        /\ \/ /\ rel' = rel \cup {s} /\ pending' = pending \cup {s}
              /\ pc' = [pc EXCEPT ![t] = "persist"] /\ job' = [job EXCEPT ![t] = <<"release", s>>]
           \/ /\ rel' = rel \ {s} /\ pending' = pending
              /\ pc' = [pc EXCEPT ![t] = "snap"] /\ job' = [job EXCEPT ![t] = <<"attach", s>>]
    BY <1>9 DEF ReleaseNow, AttachDevice, Client, Idle, StartJob, Goto
  <2>2. \A u \in team : pc[u] = "idle" /\ (u # t => u \in Locked)
    BY <1>a, <2>1 DEF ThreadsHold
  <2>3. \A u \in team \ {t} : pc'[u] = "idle"
    BY <1>a, <2>1, <2>2
  <2>4. /\ pc'[t] \in {"persist", "snap"}
        /\ job'[t][1] = "release" => job'[t][2] \in rel'
    BY <1>a, <2>1
  <2>5. \A u \in team : pc'[u] \notin Saving /\ (pc'[u] # "idle" /\ job'[u][1] = "release" => job'[u][2] \in rel')
    BY <1>b, <2>3, <2>4
  <2>6. \A x \in rel' \ pending' : x \in file.rel /\ x \in disk.rel
    BY <2>1 DEF SavesHold
  <2> QED
    BY <1>a, <1>b, <2>1, <2>5, <2>6 DEF SavesHold
<1>10. ASSUME NEW t \in team, NEW s \in Session, ReleaseAgain(t, s) PROVE SavesHold'
  <2>1. /\ s \in rel /\ UNCHANGED <<up, rel, loaded, pending, snap, files>>
        /\ \/ pc' = pc /\ job' = job
           \/ pc' = [pc EXCEPT ![t] = "persist"] /\ job' = [job EXCEPT ![t] = <<"release", s>>]
    BY <1>10 DEF ReleaseAgain, StartJob, Goto
  <2>2. \A u \in team : (pc'[u] = pc[u] /\ job'[u] = job[u]) \/ (pc'[u] = "persist" /\ job'[u][2] = s)
    BY <1>a, <2>1
  <2> QED
    BY <1>0, <1>b, <2>1, <2>2
<1>11. ASSUME NEW t \in team, NEW k \in Key, ChangeUnlocked(t, k) \/ ChangeLocked(t, k) PROVE SavesHold'
  <2>1. /\ UNCHANGED <<up, rel, loaded, pending, snap, files>>
        /\ pc' = [pc EXCEPT ![t] = "snap"] /\ job' = [job EXCEPT ![t] = <<"change", None>>]
    BY <1>11 DEF ChangeUnlocked, ChangeLocked, StartJob, Goto
  <2>2. \A u \in team : (pc'[u] = pc[u] /\ job'[u] = job[u]) \/ (pc'[u] = "snap" /\ job'[u][1] = "change")
    BY <1>a, <2>1
  <2> QED
    BY <1>0, <1>b, <2>1, <2>2
<1>12. ASSUME Load \/ LoadCorrupt PROVE SavesHold'
  <2>1. /\ up = "down" /\ up' = "booting"
        /\ pc' = [pc EXCEPT ![Main] = "snap"] /\ job' = [job EXCEPT ![Main] = <<"init", None>>]
    BY <1>12 DEF Load, LoadCorrupt, Boot, Goto
  <2>2. \A u \in team : pc[u] = "idle"
    BY <2>1 DEF ThreadsHold
  <2>3. \A u \in team : pc'[u] = "idle" \/ (pc'[u] = "snap" /\ job'[u][1] = "init")
    BY <1>a, <2>1, <2>2
  <2> QED
    BY <1>a, <1>b, <2>1, <2>3 DEF SavesHold
<1>13. ASSUME \/ Crash \/ PowerLoss PROVE SavesHold'
  <2>1. pc' = [u \in Thread |-> "idle"] /\ up' = "down"
    BY <1>13 DEF Crash, PowerLoss, Stopped
  <2>2. \A u \in team : pc'[u] = "idle"
    BY <1>a, <2>1
  <2> QED
    BY <1>a, <1>b, <2>1, <2>2 DEF SavesHold
<1>14. ASSUME Damage PROVE SavesHold'
  <2>1. up' = "down" /\ up = "down" /\ pc' = pc
    BY <1>14 DEF Damage
  <2>2. \A u \in team : pc'[u] = "idle"
    BY <2>1 DEF ThreadsHold
  <2> QED
    BY <1>a, <1>b, <2>1, <2>2 DEF SavesHold
<1>15. ASSUME LoadRefused \/ UNCHANGED vars PROVE SavesHold'
  BY <1>15, <1>a DEF LoadRefused, SavesHold
<1> QED
  BY <1>1, <1>2, <1>3, <1>4, <1>5, <1>7, <1>8, <1>9, <1>10, <1>11, <1>12, <1>13, <1>14, <1>15
     DEF Next, Step, SaveStep

------------------------------------------------------------------------------
(* Promises                                                                *)

\* A release is answered only when both the file and the disk have it, and
\* what either has is loaded again: PromisesHold is kept.
LEMMA PromisesStep ==
  ASSUME TypeOK, WholeHolds, team \ Locked = {Main}, ThreadsHold, SavesHold,
         ~damaged => PromisesHold, [Next]_vars
  PROVE  ~damaged' => PromisesHold'
<1> SUFFICES ASSUME ~damaged' PROVE PromisesHold'
  OBVIOUS
<1>a. /\ team \subseteq Thread /\ Main \in team /\ Main \notin Locked
      /\ \A t \in Thread : snap[t] \in State /\ job[t] \in Jobs
      /\ file \in State /\ disk \in State
  BY TeamFacts DEF TypeOK
<1>b. Saving = {"io", "saved", "write", "fsync", "replace", "dirsync"}
  BY DEF Saving, Writing
<1>c. CASE ~damaged
  <2> USE <1>c
  <2>a. PromisesHold
    OBVIOUS
  \* A step that promises nothing, and leaves devices and files alone.
  <2>0. ASSUME UNCHANGED <<rel, loaded, files>>, up' # "down" => up # "down", promised' = promised
        PROVE  PromisesHold'
    BY <2>0, <2>a DEF PromisesHold
  \* A promise of a session that is in memory, in the file and on the disk.
  <2>1. ASSUME UNCHANGED <<rel, loaded, files>>, up # "down",
               \A s \in promised' \ promised : s \in rel \cup loaded /\ s \in file.rel /\ s \in disk.rel
        PROVE  PromisesHold'
    BY <2>1, <2>a DEF PromisesHold
  <2>2. ASSUME NEW t \in team, Snapshot(t) \/ EnterIO(t) \/ WriteTmp(t) \/ SyncTmp(t) \/ SaveFails(t)
        PROVE  PromisesHold'
    BY <2>0, <2>2 DEF Snapshot, EnterIO, WriteTmp, SyncTmp, SaveFails
  <2>3. ASSUME NEW t \in team, pc[t] # "idle" PROVE up # "down" /\ promised \subseteq rel \cup loaded
    BY <2>3, <2>a DEF ThreadsHold, PromisesHold
  <2>4. ASSUME NEW t \in team, Replace(t) PROVE PromisesHold'
    <3>1. /\ pc[t] = "replace" /\ file' = [snap[t] EXCEPT !.whole = tmp[t] = "synced"]
          /\ UNCHANGED <<up, rel, loaded, disk, promised>>
      BY <2>4 DEF Replace
    <3>2. file'.rel = snap[t].rel /\ snap[t].rel = rel \cup loaded
      BY <1>a, <1>b, <3>1, MarkWhole DEF SavesHold
    <3> QED
      BY <2>3, <2>a, <3>1, <3>2 DEF PromisesHold
  <2>5. ASSUME NEW t \in team, SyncDir(t) PROVE PromisesHold'
    <3>1. disk' = file /\ UNCHANGED <<up, rel, loaded, file, promised>>
      BY <2>5 DEF SyncDir
    <3> QED
      BY <2>a, <3>1 DEF PromisesHold
  <2>6. ASSUME NEW t \in team, PersistEnter(t) PROVE PromisesHold'
    <3>1. /\ pc[t] = "persist" /\ UNCHANGED <<up, rel, loaded, files>>
          /\ promised' = promised \/ (job[t][2] \notin pending /\ Answer(t))
      BY <2>6 DEF PersistEnter
    <3>2. CASE promised' = promised
      BY <2>0, <3>1, <3>2
    <3>3. CASE promised' # promised
      <4>1. job[t][1] = "release" /\ job[t][2] \notin pending /\ promised' = promised \cup {job[t][2]}
        BY <3>1, <3>3 DEF Answer
      <4>2. job[t][2] \in rel
        BY <3>1, <4>1 DEF SavesHold
      <4>3. up = "up"
        BY <3>1, <4>1 DEF ThreadsHold
      <4>4. job[t][2] \in file.rel /\ job[t][2] \in disk.rel
        BY <4>1, <4>2, <4>3 DEF SavesHold
      <4> QED
        BY <2>1, <3>1, <4>1, <4>2, <4>3, <4>4
    <3> QED
      BY <3>2, <3>3
  <2>7. ASSUME NEW t \in team, Saved(t) PROVE PromisesHold'
    <3>1. pc[t] = "saved" /\ Answer(t) /\ UNCHANGED <<rel, loaded, files>>
      BY <2>7 DEF Saved
    <3>2. file.rel = rel \cup loaded /\ disk.rel = rel \cup loaded
      BY <3>1 DEF SavesHold
    <3>3. job[t][1] = "release" => job[t][2] \in rel
      BY <3>1 DEF SavesHold
    <3>4. promised' = promised \/ (job[t][1] = "release" /\ promised' = promised \cup {job[t][2]})
      BY <3>1 DEF Answer
    <3> QED
      BY <2>1, <2>3, <3>1, <3>2, <3>3, <3>4
  <2>8. ASSUME NEW t \in team, SaveRaised(t) PROVE PromisesHold'
    <3>1. /\ up' # "down" => up' = up
          /\ UNCHANGED <<rel, loaded, files, promised>>
      BY <2>8 DEF SaveRaised
    <3> QED
      BY <2>0, <3>1
  <2>9. ASSUME NEW t \in team, NEW s \in Session, ReleaseNow(t, s) PROVE PromisesHold'
    <3>1. rel' = rel \cup {s} /\ UNCHANGED <<up, loaded, files, promised>>
      BY <2>9 DEF ReleaseNow
    <3> QED
      BY <2>a, <3>1 DEF PromisesHold
  <2>10. ASSUME NEW t \in team, NEW s \in Session, AttachDevice(t, s) PROVE PromisesHold'
    <3>1. rel' = rel \ {s} /\ promised' = promised \ {s} /\ UNCHANGED <<up, loaded, files>>
      BY <2>10 DEF AttachDevice
    <3> QED
      BY <2>a, <3>1 DEF PromisesHold
  <2>11. ASSUME NEW t \in team, NEW s \in Session, ReleaseAgain(t, s) PROVE PromisesHold'
    <3>1. /\ up = "up" /\ s \in rel /\ UNCHANGED <<up, rel, loaded, files>>
          /\ promised' = promised \/ (s \notin pending /\ promised' = promised \cup {s})
      BY <2>11 DEF ReleaseAgain, Idle
    <3>2. s \notin pending => s \in file.rel /\ s \in disk.rel
      BY <3>1 DEF SavesHold
    <3> QED
      BY <2>1, <3>1, <3>2
  <2>12. ASSUME NEW t \in team, NEW k \in Key, ChangeUnlocked(t, k) \/ ChangeLocked(t, k)
         PROVE  PromisesHold'
    BY <2>0, <2>12 DEF ChangeUnlocked, ChangeLocked
  <2>13. ASSUME Load \/ LoadCorrupt PROVE PromisesHold'
    <3>1. file.whole
      BY DEF WholeHolds
    <3>2. /\ rel' = file.rel \cap Session /\ loaded' = file.rel \cap Orphan
          /\ UNCHANGED <<files, promised>>
      BY <2>13, <3>1 DEF Load, LoadCorrupt, Boot
    <3>3. file.rel \subseteq Session \cup Orphan
      BY <1>a, StateFields
    <3>4. rel' \cup loaded' = file.rel
      BY <3>2, <3>3
    <3> QED
      BY <2>a, <3>2, <3>4 DEF PromisesHold
  <2>14. ASSUME Crash \/ PowerLoss PROVE PromisesHold'
    <3>1. /\ up' = "down" /\ promised' = promised
          /\ file' \in {file, disk} /\ disk' \in {file, disk}
      BY <2>14 DEF Crash, PowerLoss, Stopped
    <3> QED
      BY <2>a, <3>1 DEF PromisesHold
  <2>15. ASSUME Damage PROVE FALSE
    BY <2>15 DEF Damage
  <2>16. ASSUME LoadRefused \/ UNCHANGED vars PROVE PromisesHold'
    BY <2>0, <2>16 DEF LoadRefused
  <2> QED
    BY <2>2, <2>4, <2>5, <2>6, <2>7, <2>8, <2>9, <2>10, <2>11, <2>12, <2>13, <2>14, <2>15, <2>16
       DEF Next, Step, SaveStep
\* Damage is not undone.
<1>d. damaged => damaged'
  <2> SUFFICES ASSUME damaged PROVE damaged'
    OBVIOUS
  <2>1. ASSUME NEW t \in team, SaveStep(t) \/ SaveFails(t) PROVE damaged'
    BY <2>1 DEF SaveStep, SaveFails, Snapshot, EnterIO, WriteTmp, SyncTmp, Replace, SyncDir,
                PersistEnter, Saved, SaveRaised
  <2>2. ASSUME NEW t \in team, NEW s \in Session, ReleaseNow(t, s) \/ ReleaseAgain(t, s) \/ AttachDevice(t, s)
        PROVE  damaged'
    BY <2>2 DEF ReleaseNow, ReleaseAgain, AttachDevice
  <2>3. ASSUME NEW t \in team, NEW k \in Key, ChangeUnlocked(t, k) \/ ChangeLocked(t, k) PROVE damaged'
    BY <2>3 DEF ChangeUnlocked, ChangeLocked
  <2>4. ASSUME Load \/ LoadCorrupt \/ LoadRefused \/ Crash \/ PowerLoss \/ Damage PROVE damaged'
    BY <2>4 DEF Load, LoadCorrupt, LoadRefused, Crash, PowerLoss, Damage
  <2> QED
    BY <2>1, <2>2, <2>3, <2>4 DEF Next, Step
<1> QED
  BY <1>c, <1>d

------------------------------------------------------------------------------
(* The theorems                                                            *)

\* The invariant holds before the first start.
LEMMA InvInit == Init => Inv
<1> SUFFICES ASSUME Init PROVE Inv
  OBVIOUS
<1>1. TypeOK
  BY TypeInit
<1>2. team \subseteq Thread
  BY <1>1, TeamFacts DEF TypeOK
<1>3. file.whole /\ disk.whole /\ file.rel = Orphan /\ disk.rel = Orphan
  BY NoSnapState DEF Init
<1>4. WholeHolds
  BY <1>3 DEF WholeHolds, Init
<1>5. \A t \in team : pc[t] = "idle" /\ job[t][1] = "none"
  BY <1>2 DEF Init, NoJob
<1>6. ThreadsHold
  BY <1>5 DEF ThreadsHold
<1>7. SavesHold
  BY <1>5 DEF SavesHold, Saving, Writing, Init
<1>8. PromisesHold
  BY <1>3 DEF PromisesHold, Init
<1> QED
  BY <1>1, <1>4, <1>6, <1>7, <1>8 DEF Inv

\* Every step keeps the invariant.
LEMMA InvStep == Inv /\ [Next]_vars => Inv'
<1> SUFFICES ASSUME Inv, [Next]_vars PROVE Inv'
  OBVIOUS
<1>1. TypeOK' /\ WholeHolds'
  BY TypeStep, WholeStep DEF Inv
<1>2. team' = team
  BY DEF Next
<1>3. ASSUME team \ Locked = {Main} PROVE ThreadsHold' /\ SavesHold' /\ (~damaged' => PromisesHold')
  BY <1>3, ThreadsStep, SavesStep, PromisesStep DEF Inv
<1> QED
  BY <1>1, <1>2, <1>3 DEF Inv

\* The only thread that releases and takes back is the one that ran __init__.
LEMMA OneClientIsMain ==
  ASSUME TypeOK, OneClient
  PROVE  team \ Locked = {Main}
<1>1. team \subseteq Thread /\ Main \in team \ Locked
  BY TeamFacts DEF TypeOK
<1>2. IsFiniteSet(team \ Locked)
  BY <1>1, FS_Subset, PersistAssumption
<1>3. PICK x : team \ Locked = {x}
  BY <1>2, FS_Singleton DEF OneClient
<1> QED
  BY <1>1, <1>3

\* The inductive invariant holds in every reachable state: in particular every
\* saved file parses, and with one client no snapshot on its way to the disk
\* is stale (_save_state).
THEOREM PersistInvariant == Spec => []Inv
<1> QED
  BY InvInit, InvStep, PTL DEF Spec

\* A release that was answered is in memory whenever the daemon runs, after any
\* crash, power failure, failed save or refused start, and the file always
\* parses (release_device, _save_state, _load_state).
THEOREM ReleaseSurvives == Spec => []AckedReleaseSurvives
<1>1. Inv => AckedReleaseSurvives
  <2> SUFFICES ASSUME Inv PROVE AckedReleaseSurvives
    OBVIOUS
  <2>1. ~damaged => file.whole /\ disk.whole
    BY DEF Inv, WholeHolds
  <2>2. ASSUME ~damaged, OneClient, up = "up" PROVE promised \subseteq rel \cup loaded
    <3>1. team \ Locked = {Main}
      BY <2>2, OneClientIsMain DEF Inv
    <3> QED
      BY <2>2, <3>1 DEF Inv, PromisesHold
  <2> QED
    BY <2>1, <2>2 DEF AckedReleaseSurvives
<1> QED
  BY <1>1, PersistInvariant, PTL

\* A released session that the file does not have is marked pending, so the
\* next release call saves it (_persist_release_state).
THEOREM UnsavedMarked == Spec => []UnsavedIsPending
<1>1. Inv => UnsavedIsPending
  <2> SUFFICES ASSUME Inv, OneClient, up = "up" PROVE \A s \in rel \ file.rel : s \in pending
    BY DEF UnsavedIsPending
  <2>1. team \ Locked = {Main}
    BY OneClientIsMain DEF Inv
  <2> QED
    BY <2>1 DEF Inv, SavesHold
<1> QED
  BY <1>1, PersistInvariant, PTL
==============================================================================
