------------------------------ MODULE WalProofs ------------------------------
(***************************************************************************)
(* Why the write-ahead log's files stay ordered, why a loss shows in the   *)
(* health, and why the files implement the audit log, for any number of    *)
(* appends, failures, disturbances from outside and kills.                 *)
(***************************************************************************)
EXTENDS Wal, TLAPS, WellFoundedInduction

\* The records of a file's lines.
Records(s) == {s[j] : j \in DOMAIN s} \ {Broken}

\* The numbers v of the records rise from line to line.
Rising(s, v) == \A j, k \in DOMAIN s :
  j < k /\ s[j] # Broken /\ s[k] # Broken => v[s[j]] < v[s[k]]

\* gs holds the records of fs in the same files, and may have more files.
Calm(fs, gs, v) ==
  /\ Len(fs) <= Len(gs)
  /\ \A i \in 1 .. Len(fs) : /\ Records(gs[i]) = Records(fs[i])
                             /\ Rising(fs[i], v) => Rising(gs[i], v)
  /\ \A i \in 1 .. Len(gs) : i > Len(fs) => Records(gs[i]) = {}

------------------------------------------------------------------------------
(* Files                                                                   *)

\* A broken line adds no record.
LEMMA BrokenLine ==
  ASSUME NEW s \in Seq(Nat), NEW v, Rising(s, v)
  PROVE  Rising(Append(s, Broken), v)
BY DEF Rising, Broken

LEMMA BrokenRecords ==
  ASSUME NEW s \in Seq(Nat)
  PROVE  Records(Append(s, Broken)) = Records(s)
<1>1. Records(Append(s, Broken)) \subseteq Records(s)
  BY DEF Records, Broken
<1>2. ASSUME NEW r \in Records(s)
      PROVE  r \in Records(Append(s, Broken))
  <2>1. PICK j \in DOMAIN s : s[j] = r /\ r # Broken
    BY <1>2 DEF Records
  <2>2. j \in DOMAIN Append(s, Broken) /\ Append(s, Broken)[j] = r
    BY <2>1
  <2> QED BY <2>1, <2>2 DEF Records
<1> QED BY <1>1, <1>2

\* A record whose number is larger than all others keeps the numbers rising.
LEMMA NewRecordLine ==
  ASSUME NEW s \in Seq(Nat), NEW r \in Nat \ {Broken}, NEW v,
         Rising(s, v), \A q \in Records(s) : v[q] < v[r]
  PROVE  Rising(Append(s, r), v)
<1> SUFFICES ASSUME NEW j \in 1 .. Len(s) + 1, NEW k \in 1 .. Len(s) + 1, j < k,
                    Append(s, r)[j] # Broken, Append(s, r)[k] # Broken
             PROVE  v[Append(s, r)[j]] < v[Append(s, r)[k]]
  BY DEF Rising
<1>1. j \in DOMAIN s /\ Append(s, r)[j] = s[j]
  OBVIOUS
<1>2. CASE k \in DOMAIN s
  BY <1>1, <1>2 DEF Rising
<1>3. CASE k = Len(s) + 1
  <2>1. s[j] \in Records(s)
    BY <1>1 DEF Records
  <2> QED BY <2>1, <1>1, <1>3
<1> QED BY <1>2, <1>3

LEMMA NewRecordRecords ==
  ASSUME NEW s \in Seq(Nat), NEW r \in Nat \ {Broken}
  PROVE  Records(Append(s, r)) = Records(s) \cup {r}
<1>1. Records(Append(s, r)) \subseteq Records(s) \cup {r}
  BY DEF Records, Broken
<1>2. ASSUME NEW q \in Records(s)
      PROVE  q \in Records(Append(s, r))
  <2>1. PICK j \in DOMAIN s : s[j] = q /\ q # Broken
    BY <1>2 DEF Records
  <2>2. j \in DOMAIN Append(s, r) /\ Append(s, r)[j] = q
    BY <2>1
  <2> QED BY <2>1, <2>2 DEF Records
<1>3. r \in Records(Append(s, r))
  <2>1. Len(s) + 1 \in DOMAIN Append(s, r) /\ Append(s, r)[Len(s) + 1] = r
    OBVIOUS
  <2> QED BY <2>1 DEF Records
<1> QED BY <1>1, <1>2, <1>3

\* Ending a tail adds at most a broken line.
LEMMA EndedIsCalm ==
  ASSUME NEW n \in Nat, NEW fs \in Seq(Seq(0 .. n)), NEW ts, NEW i \in 1 .. Len(fs), NEW v
  PROVE  /\ Ended(fs, ts, i) \in Seq(Seq(0 .. n))
         /\ Len(Ended(fs, ts, i)) = Len(fs)
         /\ Calm(fs, Ended(fs, ts, i), v)
<1> DEFINE gs == [fs EXCEPT ![i] = Append(@, Broken)]
<1>0. fs[i] \in Seq(0 .. n) /\ \A k \in 1 .. Len(fs) : fs[k] \in Seq(Nat)
  OBVIOUS
<1>1. gs \in Seq(Seq(0 .. n)) /\ Len(gs) = Len(fs)
  <2>1. Append(fs[i], Broken) \in Seq(0 .. n)
    BY <1>0 DEF Broken
  <2> QED BY <2>1
<1>2. \A k \in 1 .. Len(fs) : gs[k] = (IF k = i THEN Append(fs[k], Broken) ELSE fs[k])
  OBVIOUS
<1> HIDE DEF gs
<1>3. Calm(fs, gs, v)
  <2>1. ASSUME NEW k \in 1 .. Len(fs)
        PROVE  Records(gs[k]) = Records(fs[k]) /\ (Rising(fs[k], v) => Rising(gs[k], v))
    BY <1>0, <1>2, BrokenLine, BrokenRecords
  <2> QED BY <2>1, <1>1 DEF Calm
<1>4. Calm(fs, fs, v)
  BY DEF Calm
<1> QED BY <1>1, <1>3, <1>4 DEF Ended, gs

LEMMA CalmTwice ==
  ASSUME NEW n \in Nat, NEW fs \in Seq(Seq(0 .. n)), NEW gs \in Seq(Seq(0 .. n)), NEW hs \in Seq(Seq(0 .. n)),
         NEW v, Calm(fs, gs, v), Calm(gs, hs, v)
  PROVE  Calm(fs, hs, v)
<1>1. Len(fs) \in Nat /\ Len(gs) \in Nat /\ Len(hs) \in Nat
  OBVIOUS
<1>2. Len(fs) <= Len(hs)
  BY <1>1 DEF Calm
<1>3. ASSUME NEW i \in 1 .. Len(fs)
      PROVE  Records(hs[i]) = Records(fs[i]) /\ (Rising(fs[i], v) => Rising(hs[i], v))
  BY <1>1, i \in 1 .. Len(gs) DEF Calm
<1>4. ASSUME NEW i \in 1 .. Len(hs), i > Len(fs)
      PROVE  Records(hs[i]) = {}
  <2>1. CASE i > Len(gs)
    BY <2>1 DEF Calm
  <2>2. CASE i <= Len(gs)
    BY <1>1, <1>4, <2>2, i \in 1 .. Len(gs) DEF Calm
  <2> QED BY <1>1, <2>1, <2>2
<1> QED BY <1>2, <1>3, <1>4 DEF Calm

\* The shape of the files and of the numbers.
Shape ==
  /\ lines \in Seq(Seq(0 .. Id)) /\ tail \in Seq(Foreign .. Id) /\ Len(tail) = Len(lines)
  /\ name \in 0 .. Len(lines) /\ handle \in 0 .. Len(lines) /\ work \in 0 .. Len(lines)
  /\ num \in Seq(Nat)

\* Opening the name changes no record.
LEMMA OpenIsCalm ==
  ASSUME Shape
  PROVE  /\ OpenFiles \in Seq(Seq(0 .. Id)) /\ OpenTails \in Seq(Foreign .. Id)
         /\ Len(OpenFiles) = Len(OpenTails)
         /\ Opened \in 1 .. Len(OpenFiles)
         /\ Calm(lines, OpenFiles, num)
<1>0. Id \in Nat /\ <<>> \in Seq(0 .. Id)
  BY DEF Shape, Id
<1>1. CASE name # 0
  BY <1>1 DEF Shape, OpenFiles, OpenTails, Opened, Calm
<1>2. CASE name = 0
  <2> DEFINE fs == Append(lines, <<>>)
  <2>1. fs \in Seq(Seq(0 .. Id)) /\ Len(fs) = Len(lines) + 1
    BY <1>0 DEF Shape
  <2>2. \A i \in 1 .. Len(lines) : fs[i] = lines[i]
    BY DEF Shape
  <2>3. fs[Len(lines) + 1] = <<>>
    BY DEF Shape
  <2>4. Records(<<>>) = {}
    BY DEF Records
  <2> HIDE DEF fs
  <2>5. Calm(lines, fs, num)
    <3>1. Len(lines) \in Nat
      BY DEF Shape
    <3>2. ASSUME NEW i \in 1 .. Len(fs), i > Len(lines)
          PROVE  Records(fs[i]) = {}
      <4>1. i = Len(lines) + 1
        BY <2>1, <3>1, <3>2
      <4> QED BY <4>1, <2>3, <2>4
    <3> QED BY <2>1, <2>2, <3>1, <3>2 DEF Calm
  <2>6. OpenFiles = fs /\ Opened = Len(lines) + 1
    BY <1>2 DEF OpenFiles, Opened, fs
  <2>7. OpenTails = Append(tail, Clean)
    BY <1>2 DEF OpenTails
  <2>8. OpenTails \in Seq(Foreign .. Id) /\ Len(OpenTails) = Len(lines) + 1
    BY <1>0, <2>7 DEF Shape, Clean, Foreign
  <2>9. Len(lines) \in Nat
    BY DEF Shape
  <2> QED BY <2>1, <2>5, <2>6, <2>8, <2>9
<1> QED BY <1>1, <1>2

\* What a write finds when it has opened the name, and when it has ended a
\* torn tail.
LEMMA TargetIsThere ==
  ASSUME Shape
  PROVE  /\ Files \in Seq(Seq(0 .. Id)) /\ Tails \in Seq(Foreign .. Id) /\ Len(Tails) = Len(Files)
         /\ Terminated \in Seq(Seq(0 .. Id)) /\ Len(Terminated) = Len(Files)
         /\ Target \in 1 .. Len(Files) /\ NameNow \in 0 .. Len(Files)
         /\ Calm(lines, Files, num) /\ Calm(lines, Terminated, num)
         /\ NameNow # name => name = 0 /\ NameNow = Len(lines) + 1
         /\ handle # 0 => Target = handle /\ NameNow = name /\ Files = lines /\ Tails = tail
         /\ handle = 0 => Target = NameNow
<1>0. Id \in Nat /\ Len(lines) \in Nat
  BY DEF Shape, Id
<1>1. /\ Files \in Seq(Seq(0 .. Id)) /\ Tails \in Seq(Foreign .. Id) /\ Len(Tails) = Len(Files)
      /\ Target \in 1 .. Len(Files) /\ Calm(lines, Files, num)
  <2>1. CASE handle = 0
    BY <2>1, OpenIsCalm DEF Files, Tails, Target
  <2>2. CASE handle # 0
    <3>1. Calm(lines, lines, num)
      BY DEF Calm, Shape
    <3> QED BY <2>2, <3>1 DEF Files, Tails, Target, Shape
  <2> QED BY <2>1, <2>2
<1>2. Terminated \in Seq(Seq(0 .. Id)) /\ Len(Terminated) = Len(Files) /\ Calm(Files, Terminated, num)
  <2>1. CASE dirty
    BY <2>1, <1>0, <1>1, EndedIsCalm DEF Terminated
  <2>2. CASE ~dirty
    BY <2>2, <1>1 DEF Terminated, Calm
  <2> QED BY <2>1, <2>2
<1>3. Calm(lines, Terminated, num)
  BY <1>0, <1>1, <1>2, CalmTwice DEF Shape
<1>4. NameNow \in 0 .. Len(Files)
  <2>1. CASE handle = 0
    BY <2>1, OpenIsCalm DEF Files, NameNow
  <2>2. CASE handle # 0
    BY <2>2 DEF Files, NameNow, Shape
  <2> QED BY <2>1, <2>2
<1>5. NameNow # name => name = 0 /\ NameNow = Len(lines) + 1
  BY DEF NameNow, Opened
<1>6. handle # 0 => Target = handle /\ NameNow = name /\ Files = lines /\ Tails = tail
  BY DEF Target, NameNow, Files, Tails
<1>7. handle = 0 => Target = NameNow
  BY DEF Target, NameNow
<1> QED BY <1>1, <1>2, <1>3, <1>4, <1>5, <1>6, <1>7

\* The records a file of fs holds; none in a file that is not there.
Held(fs, i) == IF i \in 1 .. Len(fs) THEN Records(fs[i]) ELSE {}

\* A step adds the record x to the file t, or none when x is Broken.
Grows(t, x) ==
  /\ lines' \in Seq(Seq(0 .. Id)) /\ Len(lines) <= Len(lines')
  /\ \A i \in 1 .. Len(lines') :
       Records(lines'[i]) = Held(lines, i) \cup (IF i = t THEN {x} \ {Broken} ELSE {})
  /\ \A i \in 1 .. Len(lines') :
       /\ i <= Len(lines) => Rising(lines[i], num)
       /\ i = t /\ x # Broken => \A q \in Held(lines, i) : num[q] < num[x]
       => Rising(lines'[i], num)

LEMMA NothingRises ==
  ASSUME NEW s \in Seq(Nat), NEW v, Records(s) = {}
  PROVE  Rising(s, v)
BY DEF Records, Rising

LEMMA CalmHolds ==
  ASSUME Shape, NEW gs \in Seq(Seq(0 .. Id)), NEW v, Calm(lines, gs, v), NEW i \in 1 .. Len(gs)
  PROVE  Records(gs[i]) = Held(lines, i)
<1>1. Len(lines) \in Nat /\ Len(gs) \in Nat
  BY DEF Shape
<1>2. CASE i <= Len(lines)
  <2>1. i \in 1 .. Len(lines)
    BY <1>1, <1>2
  <2> QED BY <2>1 DEF Calm, Held
<1>3. CASE i > Len(lines)
  <2>1. i \notin 1 .. Len(lines)
    BY <1>1, <1>3
  <2> QED BY <2>1, <1>3 DEF Calm, Held
<1> QED BY <1>1, <1>2, <1>3

LEMMA CalmGrows ==
  ASSUME Shape, NEW t, lines' \in Seq(Seq(0 .. Id)), Calm(lines, lines', num)
  PROVE  Grows(t, Broken)
<1>0. Len(lines) \in Nat /\ Len(lines') \in Nat /\ Len(lines) <= Len(lines')
  BY DEF Shape, Calm
<1>1. ASSUME NEW i \in 1 .. Len(lines')
      PROVE  Records(lines'[i]) = Held(lines, i)
  BY CalmHolds
<1>2. ASSUME NEW i \in 1 .. Len(lines'), i <= Len(lines) => Rising(lines[i], num)
      PROVE  Rising(lines'[i], num)
  <2>1. lines'[i] \in Seq(Nat)
    <3>1. lines'[i] \in Seq(0 .. Id)
      OBVIOUS
    <3> QED BY SMTT(20), <3>1 DEF Shape, Id
  <2>2. CASE i <= Len(lines)
    BY <1>0, <1>2, <2>2, i \in 1 .. Len(lines) DEF Calm
  <2>3. CASE i > Len(lines)
    BY <2>1, <2>3, NothingRises DEF Calm
  <2> QED BY <1>0, <2>2, <2>3
<1> QED BY <1>0, <1>1, <1>2 DEF Grows

LEMMA AppendGrows ==
  ASSUME Shape, NEW gs \in Seq(Seq(0 .. Id)), Calm(lines, gs, num), NEW t \in 1 .. Len(gs),
         NEW x \in {Broken, Id}, Id # 0, lines' = [gs EXCEPT ![t] = Append(@, x)]
  PROVE  Grows(t, x) /\ Len(lines') = Len(gs)
<1>0. /\ Len(lines) \in Nat /\ Len(gs) \in Nat /\ Len(lines) <= Len(gs) /\ Id \in Nat
      /\ x \in 0 .. Id /\ x \in Nat /\ (x # Broken => x = Id)
  BY SMTT(20) DEF Shape, Calm, Id, Broken
<1>1. gs[t] \in Seq(0 .. Id) /\ Append(gs[t], x) \in Seq(0 .. Id)
  BY <1>0
<1>2. lines' \in Seq(Seq(0 .. Id)) /\ Len(lines') = Len(gs)
  BY <1>1
<1>3. ASSUME NEW i \in 1 .. Len(gs)
      PROVE  lines'[i] = IF i = t THEN Append(gs[i], x) ELSE gs[i]
  OBVIOUS
<1>4. ASSUME NEW i \in 1 .. Len(gs)
      PROVE  gs[i] \in Seq(Nat) /\ Records(gs[i]) = Held(lines, i)
  <2>1. gs[i] \in Seq(0 .. Id)
    OBVIOUS
  <2> QED BY <2>1, <1>0, CalmHolds
<1>5. ASSUME NEW i \in 1 .. Len(gs), i <= Len(lines) => Rising(lines[i], num)
      PROVE  Rising(gs[i], num)
  <2>1. CASE i <= Len(lines)
    BY <1>0, <1>5, <2>1, i \in 1 .. Len(lines) DEF Calm
  <2>2. CASE i > Len(lines)
    BY <1>4, <2>2, NothingRises DEF Calm
  <2> QED BY <1>0, <2>1, <2>2
<1>6. ASSUME NEW i \in 1 .. Len(gs)
      PROVE  Records(lines'[i]) = Held(lines, i) \cup (IF i = t THEN {x} \ {Broken} ELSE {})
  <2>1. CASE x = Broken
    BY <1>3, <1>4, <2>1, BrokenRecords
  <2>2. CASE x # Broken
    BY <1>0, <1>3, <1>4, <2>2, NewRecordRecords
  <2> QED BY <2>1, <2>2
<1>7. ASSUME NEW i \in 1 .. Len(gs), i <= Len(lines) => Rising(lines[i], num),
             i = t /\ x # Broken => \A q \in Held(lines, i) : num[q] < num[x]
      PROVE  Rising(lines'[i], num)
  <2>1. CASE i # t
    BY <1>3, <1>5, <1>7, <2>1
  <2>2. CASE i = t /\ x = Broken
    BY <1>3, <1>4, <1>5, <1>7, <2>2, BrokenLine
  <2>3. CASE i = t /\ x # Broken
    BY <1>0, <1>3, <1>4, <1>5, <1>7, <2>3, NewRecordLine
  <2> QED BY <2>1, <2>2, <2>3
<1> QED BY <1>0, <1>2, <1>6, <1>7 DEF Grows

LEMMA TailSet ==
  ASSUME NEW n \in Nat, NEW ts \in Seq(Foreign .. n), NEW i, NEW c \in Foreign .. n
  PROVE  [ts EXCEPT ![i] = c] \in Seq(Foreign .. n) /\ Len([ts EXCEPT ![i] = c]) = Len(ts)
<1> DEFINE S == Foreign .. n
<1> HIDE DEF S
<1>1. ASSUME NEW us \in Seq(S), NEW d \in S
      PROVE  [us EXCEPT ![i] = d] \in Seq(S) /\ Len([us EXCEPT ![i] = d]) = Len(us)
  <2> DEFINE vs == [us EXCEPT ![i] = d]
  <2>1. DOMAIN vs = 1 .. Len(us) /\ Len(us) \in Nat
    OBVIOUS
  <2>2. \A k \in 1 .. Len(us) : vs[k] \in S
    OBVIOUS
  <2>3. vs \in [1 .. Len(us) -> S]
    BY <2>1, <2>2
  <2> QED BY <2>1, <2>3
<1> QED BY <1>1 DEF S

\* The name is gone, the same or a new file; handles follow it.
Moves ==
  /\ name' \in {0, name} \/ name' \in Len(lines) + 1 .. Len(lines')
  /\ handle' \in {0, handle, name'}
  /\ work' \in {0, work, handle, name'}

\* The tails of the files after a step.
Ends == tail' \in Seq(Foreign .. Id) /\ Len(tail') = Len(lines')

LEMMA UsingMoves ==
  ASSUME Shape, Using, handle' \in {0, handle, Target}, Len(lines') = Len(Files)
  PROVE  Moves
<1>0. Len(lines) \in Nat /\ Len(Files) \in Nat /\ NameNow \in 0 .. Len(Files) /\ Target \in {handle, NameNow}
  BY TargetIsThere DEF Shape
<1>1. name' = NameNow /\ work' = Target
  BY DEF Using
<1>2. NameNow \in {0, name} \/ NameNow \in Len(lines) + 1 .. Len(lines')
  BY <1>0, TargetIsThere DEF Shape
<1> QED BY <1>0, <1>1, <1>2 DEF Moves

\* A record written whole: one line more in the target.
LEMMA WholeEffect ==
  ASSUME Shape, Id # 0, Using, handle' = Target,
         lines' = [Terminated EXCEPT ![Target] = Append(@, WholeLine(TailNow, Id))],
         tail' = [Tails EXCEPT ![Target] = Clean]
  PROVE  /\ Grows(Target, WholeLine(TailNow, Id)) /\ Moves /\ Ends
         /\ Len(lines') = Len(Files) /\ WholeLine(TailNow, Id) \in {Broken, Id}
<1>1. WholeLine(TailNow, Id) \in {Broken, Id}
  BY DEF WholeLine
<1>2. Grows(Target, WholeLine(TailNow, Id)) /\ Len(lines') = Len(Files)
  <2>1. /\ Terminated \in Seq(Seq(0 .. Id)) /\ Calm(lines, Terminated, num)
        /\ Target \in 1 .. Len(Terminated) /\ Len(Terminated) = Len(Files)
    BY TargetIsThere
  <2> QED BY <2>1, <1>1, AppendGrows
<1>3. Ends
  <2>1. Clean \in Foreign .. Id /\ Tails \in Seq(Foreign .. Id) /\ Len(Tails) = Len(Files)
    BY TargetIsThere DEF Clean, Foreign, Shape, Id
  <2>2. Id \in Nat
    BY DEF Shape, Id
  <2> QED BY <2>1, <2>2, <1>2, TailSet DEF Ends
<1>4. Moves
  BY <1>2, UsingMoves
<1> QED BY <1>1, <1>2, <1>3, <1>4

\* A write that ends within the line: no record is added.
LEMMA TornEffect ==
  ASSUME Shape, Using, handle' \in {0, handle, Target}, lines' \in {Files, Terminated},
         NEW c \in Foreign .. Id, tail' \in {Tails, [Tails EXCEPT ![Target] = c]}
  PROVE  Grows(0, Broken) /\ Moves /\ Ends /\ Len(lines') = Len(Files)
<1>1. /\ lines' \in Seq(Seq(0 .. Id)) /\ Calm(lines, lines', num) /\ Len(lines') = Len(Files)
  BY TargetIsThere
<1>2. Ends
  <2>1. Tails \in Seq(Foreign .. Id) /\ Len(Tails) = Len(Files)
    BY TargetIsThere
  <2>2. Id \in Nat
    BY DEF Shape, Id
  <2>3. CASE tail' = Tails
    BY <2>1, <2>3, <1>1 DEF Ends
  <2>4. CASE tail' = [Tails EXCEPT ![Target] = c]
    <3>1. tail' \in Seq(Foreign .. Id) /\ Len(tail') = Len(Tails)
      BY <2>1, <2>2, <2>4, TailSet
    <3> QED BY <3>1, <2>1, <1>1 DEF Ends
  <2> QED BY <2>3, <2>4
<1>3. Moves
  BY <1>1, UsingMoves
<1> QED BY <1>1, <1>2, <1>3, CalmGrows

\* The rest of a line, written to the same handle.
LEMMA RestEffect ==
  ASSUME Shape, Id # 0, handle # 0,
         lines' = [lines EXCEPT ![handle] = Append(@, RestLine(tail[handle], Id))],
         tail' = [tail EXCEPT ![handle] = Clean], UNCHANGED <<name, handle, work>>
  PROVE  /\ Grows(handle, RestLine(tail[handle], Id)) /\ Moves /\ Ends
         /\ Len(lines') = Len(lines) /\ RestLine(tail[handle], Id) \in {Broken, Id}
<1>1. RestLine(tail[handle], Id) \in {Broken, Id}
  BY DEF RestLine
<1>2. Grows(handle, RestLine(tail[handle], Id)) /\ Len(lines') = Len(lines)
  <2>1. Calm(lines, lines, num) /\ handle \in 1 .. Len(lines)
    BY DEF Calm, Shape
  <2> QED BY <2>1, <1>1, AppendGrows DEF Shape
<1>3. Ends
  <2>1. Clean \in Foreign .. Id /\ tail \in Seq(Foreign .. Id) /\ Len(tail) = Len(lines)
    BY DEF Clean, Foreign, Shape, Id
  <2>2. Id \in Nat
    BY DEF Shape, Id
  <2> QED BY <2>1, <2>2, <1>2, TailSet DEF Ends
<1> QED BY <1>1, <1>2, <1>3 DEF Moves

\* Nothing is written.
LEMMA NoEffect ==
  ASSUME Shape, UNCHANGED <<lines, tail>>
  PROVE  Grows(0, Broken) /\ Ends
<1>1. Calm(lines, lines', num) /\ lines' \in Seq(Seq(0 .. Id))
  BY DEF Calm, Shape
<1> QED BY <1>1, CalmGrows DEF Ends, Shape

\* The file is opened for a recreation.
LEMMA OpenEffect ==
  ASSUME Shape, name' = Opened, work' = Opened, handle' \in {0, Opened},
         \/ lines' = OpenFiles /\ tail' = OpenTails
         \/ /\ lines' = Ended(OpenFiles, OpenTails, Opened)
            /\ tail' = [OpenTails EXCEPT ![Opened] = Clean]
  PROVE  Grows(0, Broken) /\ Moves /\ Ends /\ Len(lines') = Len(OpenFiles)
<1>0. Id \in Nat /\ Len(lines) \in Nat /\ Len(OpenFiles) \in Nat /\ Clean \in Foreign .. Id
  BY OpenIsCalm DEF Shape, Id, Clean, Foreign
<1>1. /\ lines' \in Seq(Seq(0 .. Id)) /\ Len(lines') = Len(OpenFiles) /\ Calm(lines, lines', num)
  <2>1. CASE lines' = OpenFiles
    BY <2>1, OpenIsCalm
  <2>2. CASE lines' = Ended(OpenFiles, OpenTails, Opened)
    <3>1. /\ OpenFiles \in Seq(Seq(0 .. Id)) /\ Opened \in 1 .. Len(OpenFiles) /\ Calm(lines, OpenFiles, num)
      BY OpenIsCalm
    <3>2. /\ lines' \in Seq(Seq(0 .. Id)) /\ Len(lines') = Len(OpenFiles) /\ Calm(OpenFiles, lines', num)
      BY <1>0, <2>2, <3>1, EndedIsCalm
    <3> QED BY <1>0, <3>1, <3>2, CalmTwice DEF Shape
  <2> QED BY <2>1, <2>2
<1>2. Ends
  <2>1. OpenTails \in Seq(Foreign .. Id) /\ Len(OpenTails) = Len(OpenFiles)
    BY OpenIsCalm
  <2>2. CASE tail' = OpenTails
    BY <2>1, <2>2, <1>1 DEF Ends
  <2>3. CASE tail' = [OpenTails EXCEPT ![Opened] = Clean]
    <3>1. tail' \in Seq(Foreign .. Id) /\ Len(tail') = Len(OpenTails)
      BY <1>0, <2>1, <2>3, TailSet
    <3> QED BY <3>1, <2>1, <1>1 DEF Ends
  <2> QED BY <2>2, <2>3
<1>3. Moves
  <2>1. Opened \in {0, name} \/ Opened \in Len(lines) + 1 .. Len(lines')
    BY <1>0, <1>1, OpenIsCalm DEF Opened
  <2> QED BY <2>1 DEF Moves
<1> QED BY <1>1, <1>2, <1>3, CalmGrows

\* Another file takes the name.
LEMMA ReplaceEffect ==
  ASSUME Shape, Replace
  PROVE  Grows(0, Broken) /\ Moves /\ Ends
<1>0. Id \in Nat /\ Len(lines) \in Nat /\ <<>> \in Seq(0 .. Id) /\ {Clean, Foreign} \subseteq Foreign .. Id
  BY DEF Shape, Id, Clean, Foreign
<1>1. PICK t \in {Clean, Foreign} : tail' = Append(tail, t)
  BY DEF Replace
<1>2. lines' = Append(lines, <<>>) /\ name' = Len(lines) + 1 /\ handle' = handle /\ work' = work
  BY DEF Replace, writer
<1>3. lines' \in Seq(Seq(0 .. Id)) /\ Len(lines') = Len(lines) + 1
  BY <1>0, <1>2 DEF Shape
<1>4. Calm(lines, lines', num)
  <2>1. \A i \in 1 .. Len(lines) : lines'[i] = lines[i]
    BY <1>2 DEF Shape
  <2>2. lines'[Len(lines) + 1] = <<>>
    BY <1>2 DEF Shape
  <2>3. Records(<<>>) = {}
    BY DEF Records
  <2>4. ASSUME NEW i \in 1 .. Len(lines'), i > Len(lines)
        PROVE  Records(lines'[i]) = {}
    <3>1. i = Len(lines) + 1
      BY <1>0, <1>3, <2>4
    <3> QED BY <3>1, <2>2, <2>3
  <2> QED BY <1>0, <1>3, <2>1, <2>4 DEF Calm
<1>5. Ends
  <2>1. t \in Foreign .. Id
    BY <1>0
  <2>2. tail' \in Seq(Foreign .. Id) /\ Len(tail') = Len(tail) + 1
    BY <2>1, <1>1 DEF Shape
  <2> QED BY <2>2, <1>3 DEF Ends, Shape
<1>6. Moves
  BY <1>0, <1>2, <1>3 DEF Moves
<1> QED BY <1>3, <1>4, <1>5, <1>6, CalmGrows

------------------------------------------------------------------------------
(* What the steps do to the files                                          *)

\* Steps that neither create nor write a record.
QuietStep ==
  \/ RotateSkip \/ RotateFails \/ RotateDone \/ RecreateOpenFails \/ RecreateOpen
  \/ RecreateTailFails \/ TickLeaves \/ LineHalf \/ LineFails \/ CloseFails \/ RestFails
  \/ RetryFails \/ AppendBegin \/ AppendPending \/ Tick \/ Reset \/ ResetFails \/ Close
  \/ Elapse \/ Unlink \/ Replace \/ Crash \/ Restart

\* Steps that create a record, and steps that write it.
RecordStep == AppendClosed \/ RecreateRefused \/ NewLine
WriteStep  == LineOk \/ RestOk \/ RetryOk

LEMMA NextCases ==
  ASSUME Next
  PROVE  QuietStep \/ RecordStep \/ WriteStep
BY DEF Next, Step, QuietStep, RecordStep, WriteStep

LEMMA QuietEffect ==
  ASSUME Shape, QuietStep
  PROVE  Grows(0, Broken) /\ Moves /\ Ends /\ num' = num
<1> USE DEF files, writer, recovery, control, ledger, bounds
<1>0. /\ \A c : HalfTail(TailNow, Id) = c => c \in Foreign .. Id
      /\ Clean \in Foreign .. Id
  BY DEF HalfTail, Foreign, Clean, Shape, Id
<1>1. CASE UNCHANGED <<lines, tail, num>> /\ Moves
  BY <1>1, NoEffect
<1>2. CASE RotateSkip \/ RotateFails \/ RecreateOpenFails \/ TickLeaves \/ CloseFails
  BY <1>1, <1>2 DEF RotateSkip, RotateFails, RecreateOpenFails, TickLeaves, CloseFails,
     NotWritten, Moves
<1>3. CASE RotateDone \/ Reset \/ ResetFails
  BY <1>1, <1>3 DEF RotateDone, Reset, ResetFails, ArchiveName, Moves
<1>4. CASE AppendBegin \/ AppendPending \/ Tick \/ Close \/ Elapse \/ Unlink \/ Crash
  BY <1>1, <1>4 DEF AppendBegin, BeginRecreate, AppendPending, Tick, Close, Elapse, Unlink,
     Crash, Moves
<1>5. CASE Restart
  BY <1>1, <1>5 DEF Restart, Moves
<1>6. CASE RestFails
  BY <1>1, <1>6 DEF RestFails, Closing, NotWritten, Moves
<1>7. CASE RecreateOpen \/ RecreateTailFails
  BY <1>7, OpenEffect DEF RecreateOpen, RecreateTailFails
<1>8. CASE LineHalf
  BY <1>0, <1>8, TornEffect DEF LineHalf
<1>9. ASSUME Using, num' = num, handle' \in {0, Target}, NEW c \in Foreign .. Id,
             \/ lines' = Files /\ tail' = Tails
             \/ lines' = Terminated /\ tail' = [Tails EXCEPT ![Target] = c]
      PROVE  Grows(0, Broken) /\ Moves /\ Ends /\ num' = num
  BY <1>9, TornEffect
<1>10. CASE LineFails
  <2>1. /\ num' = num /\ handle' = 0
        /\ \/ UNCHANGED <<lines, tail, name, work>>
           \/ /\ Using
              /\ \/ lines' = Files /\ tail' = Tails
                 \/ lines' = Terminated /\ tail' = [Tails EXCEPT ![Target] = Clean]
    BY <1>10 DEF LineFails
  <2>2. CASE UNCHANGED <<lines, tail, name, work>>
    BY <1>1, <2>1, <2>2 DEF Moves
  <2> QED BY <1>0, <1>9, <2>1, <2>2
<1>11. CASE RetryFails
  <2>1. /\ num' = num
        /\ \/ UNCHANGED <<lines, tail, name, work>> /\ handle' = 0
           \/ /\ Using /\ handle' \in {0, Target}
              /\ \/ lines' = Files /\ tail' = Tails
                 \/ lines' = Terminated /\ tail' = [Tails EXCEPT ![Target] = Clean]
                 \/ lines' = Terminated /\ tail' = [Tails EXCEPT ![Target] = HalfTail(TailNow, Id)]
    BY <1>11 DEF RetryFails, Closing, NotWritten
  <2>2. CASE UNCHANGED <<lines, tail, name, work>> /\ handle' = 0
    BY <1>1, <2>1, <2>2 DEF Moves
  <2> QED BY <1>0, <1>9, <2>1, <2>2
<1>12. CASE Replace
  BY <1>12, ReplaceEffect DEF Replace
<1> QED BY <1>2, <1>3, <1>4, <1>5, <1>6, <1>7, <1>8, <1>10, <1>11, <1>12 DEF QuietStep

LEMMA RecordEffect ==
  ASSUME RecordStep
  PROVE  /\ UNCHANGED <<lines, tail, name, handle, work, archive>>
         /\ seq' = seq + 1 /\ num' = Append(num, seq + 1)
BY DEF RecordStep, AppendClosed, RecreateRefused, NewLine, NewRecord, files, writer, recovery,
       control, ledger, bounds

\* A written record adds a line to the file of the handle.
LEMMA WriteEffect ==
  ASSUME Shape, Id # 0, pc = "rest" => handle # 0, WriteStep
  PROVE  /\ Written /\ Moves /\ Ends /\ num' = num /\ handle' # 0
         /\ \E x \in {Broken, Id} : Grows(handle', x)
         /\ handle' = handle \/ (handle = 0 /\ handle' = name')
<1> USE DEF files, writer, recovery, control, ledger, bounds
<1>1. CASE LineOk \/ RetryOk
  <2>1. /\ Using /\ handle' = Target /\ num' = num /\ Written
        /\ lines' = [Terminated EXCEPT ![Target] = Append(@, WholeLine(TailNow, Id))]
        /\ tail' = [Tails EXCEPT ![Target] = Clean]
    BY <1>1 DEF LineOk, RetryOk, Written
  <2>2. Target # 0
    BY TargetIsThere
  <2>3. Target = handle \/ (handle = 0 /\ Target = name')
    BY <2>1, TargetIsThere DEF Using
  <2> QED BY <2>1, <2>2, <2>3, WholeEffect
<1>2. CASE RestOk
  <2>1. /\ handle # 0 /\ num' = num /\ Written /\ UNCHANGED <<name, handle, work>>
        /\ lines' = [lines EXCEPT ![handle] = Append(@, RestLine(tail[handle], Id))]
        /\ tail' = [tail EXCEPT ![handle] = Clean]
    BY <1>2 DEF RestOk, Written
  <2> QED BY <2>1, RestEffect
<1> QED BY <1>1, <1>2 DEF WriteStep

LEMMA ShapeKept ==
  ASSUME Shape, seq \in Nat, Id # 0 \/ ~WriteStep, pc = "rest" => handle # 0, Next
  PROVE  Shape'
<1>0. Len(lines) \in Nat /\ Id \in Nat
  BY DEF Shape, Id
<1>1. ASSUME NEW t, NEW x, Grows(t, x), Moves, Ends, num' = num
      PROVE  Shape'
  <2>1. Len(lines') \in Nat /\ Len(lines) <= Len(lines')
    BY <1>1 DEF Grows
  <2>2. name' \in 0 .. Len(lines') /\ handle' \in 0 .. Len(lines') /\ work' \in 0 .. Len(lines')
    BY SMTT(20), <1>0, <1>1, <2>1 DEF Moves, Shape
  <2> QED BY <1>1, <2>2 DEF Grows, Ends, Shape, Id
<1>2. CASE RecordStep
  <2>1. num' \in Seq(Nat) /\ Len(num') = Id + 1
    <3>1. num \in Seq(Nat) /\ num' = Append(num, seq + 1) /\ seq + 1 \in Nat
      BY <1>2, RecordEffect DEF Shape
    <3> QED BY <3>1 DEF Id
  <2>2. lines \in Seq(Seq(0 .. Id + 1)) /\ tail \in Seq(Foreign .. Id + 1)
    <3>1. Seq(0 .. Id) \subseteq Seq(0 .. Id + 1)
      BY <1>0
    <3>2. Seq(Foreign .. Id) \subseteq Seq(Foreign .. Id + 1)
      BY <1>0 DEF Foreign
    <3>3. lines \in Seq(Seq(0 .. Id + 1))
      BY <3>1 DEF Shape
    <3> QED BY <3>2, <3>3 DEF Shape
  <2> QED BY <1>2, <2>1, <2>2, RecordEffect DEF Shape, Id
<1>3. CASE QuietStep
  BY <1>1, <1>3, QuietEffect
<1>4. CASE WriteStep
  <2>1. PICK x \in {Broken, Id} : Grows(handle', x)
    BY <1>4, WriteEffect
  <2> QED BY <1>1, <1>4, <2>1, WriteEffect
<1> QED BY <1>2, <1>3, <1>4, NextCases

------------------------------------------------------------------------------
(* The numbers of the records that parse in the current file have a        *)
(* largest one                                                             *)

\* No record of the current file has a number beyond the last one given.
NameBelow == \A r \in Held(lines, name) : num[r] <= seq

LEMMA RecordsAreIds ==
  ASSUME Shape, NEW i \in Inode
  PROVE  /\ Records(lines[i]) \subseteq Ids
         /\ Records(lines[i]) = Readable(i)
         /\ \A r \in Records(lines[i]) : num[r] \in Nat
<1>1. lines[i] \in Seq(0 .. Id) /\ Id \in Nat /\ Ids = 1 .. Id
  BY DEF Shape, Id, Ids, Inode
<1>2. Records(lines[i]) \subseteq Ids
  BY <1>1 DEF Records, Broken
<1>3. \A r \in Ids : r \in Records(lines[i]) <=> r \in Range(lines[i])
  BY <1>1 DEF Records, Broken, Range
<1>4. \A r \in Ids : num[r] \in Nat
  BY DEF Shape, Ids
<1> QED BY <1>2, <1>3, <1>4 DEF Readable

LEMMA LargestOfBounded ==
  ASSUME NEW S, NEW b \in Nat, S \subseteq 0 .. b, 0 \in S
  PROVE  \E m \in S : \A n \in S : n <= m
<1> DEFINE T == {n \in Nat : \A k \in S : k <= n}
<1>1. T \subseteq Nat /\ T # {}
  <2>1. b \in T
    OBVIOUS
  <2> QED BY <2>1
<1>2. PICK m \in T : \A y \in T : ~ (<<y, m>> \in OpToRel(<, Nat))
  <2> HIDE DEF T
  <2> QED BY <1>1, NatLessThanWellFounded, WFMin
<1>3. \A y \in T : ~(y < m)
  BY <1>2 DEF OpToRel
<1>4. m \in S
  <2>1. SUFFICES ASSUME m \notin S PROVE FALSE
    OBVIOUS
  <2>2. m # 0 /\ m - 1 \in Nat
    BY <2>1
  <2>3. \A k \in S : k <= m - 1
    BY <2>1
  <2>4. m - 1 \in T
    BY <2>2, <2>3
  <2> QED BY <1>3, <2>4
<1> QED BY <1>4

LEMMA LoadedIsLargest ==
  ASSUME Shape, seq \in Nat, NameBelow
  PROVE  /\ Loaded \in 0 .. seq
         /\ \A r \in Held(lines, name) : num[r] <= Loaded
<1>1. CASE name = 0
  BY <1>1 DEF Loaded, Held
<1>2. CASE name # 0
  <2> DEFINE S == {0} \cup {num[r] : r \in Readable(name)}
  <2>1. name \in Inode
    BY <1>2 DEF Shape, Inode
  <2>0. Held(lines, name) = Readable(name)
    BY <2>1, RecordsAreIds DEF Held, Inode, Shape
  <2>2. \A r \in Readable(name) : num[r] \in 0 .. seq
    BY <2>0, <2>1, RecordsAreIds DEF NameBelow
  <2>3. \E m \in S : \A n \in S : n <= m
    <3>1. S \subseteq 0 .. seq /\ 0 \in S
      BY <2>2
    <3> HIDE DEF S
    <3> QED BY <3>1, LargestOfBounded
  <2>4. Loaded = CHOOSE n \in S : \A r \in Readable(name) : num[r] <= n
    BY <1>2 DEF Loaded
  <2>5. \E m \in S : \A r \in Readable(name) : num[r] <= m
    BY <2>3
  <2>6. Loaded \in S /\ \A r \in Readable(name) : num[r] <= Loaded
    <3> HIDE DEF S
    <3> QED BY <2>4, <2>5
  <2> QED BY <2>0, <2>2, <2>6
<1> QED BY <1>1, <1>2

LEMMA FirstLoadedIsNumber ==
  ASSUME Shape
  PROVE  FirstLoaded \in Nat
<1>1. CASE name # 0 /\ lines[name] # <<>> /\ lines[name][1] # Broken
  <2>1. lines[name] \in Seq(0 .. Id)
    BY <1>1 DEF Shape
  <2>2. lines[name][1] \in 0 .. Id
    <3>1. ASSUME NEW S, NEW s \in Seq(S), s # <<>>
          PROVE  s[1] \in S
      <4>1. Len(s) # 0 /\ Len(s) \in Nat
        BY <3>1
      <4> QED BY <4>1
    <3> QED BY <1>1, <2>1, <3>1
  <2>3. num[lines[name][1]] \in Nat
    BY SMTT(20), <1>1, <2>2 DEF Shape, Id, Broken
  <2> QED BY <1>1, <2>3 DEF FirstLoaded
<1>2. CASE ~(name # 0 /\ lines[name] # <<>> /\ lines[name][1] # Broken)
  BY <1>2 DEF FirstLoaded
<1> QED BY <1>1, <1>2

------------------------------------------------------------------------------
(* The writer's fields                                                     *)

Writing == pc \in {"line", "rest", "retry"}
Writes  == pc \in {"write", "line", "rest", "retry"}

\* The types of everything but the files.
Fields ==
  /\ base \in 0 .. Id
  /\ answer \in Seq({"open", "ok", "loss"}) /\ Len(answer) = Id
  /\ reported \subseteq Ids /\ early \subseteq Ids
  /\ seq \in Nat /\ first \in Nat /\ pendFirst \in Nat
  /\ rotFails \in 0 .. Backoffs + 1
  /\ waits \subseteq {"identity", "rotate", "recreate"}
  /\ pc \in {"idle", "rotate", "recreate", "write", "line", "rest", "retry"}
  /\ role \in {"write", "meta", "cont"}
  /\ up \in BOOLEAN /\ closed \in BOOLEAN /\ dirty \in BOOLEAN /\ expected \in BOOLEAN
  /\ firstPending \in BOOLEAN /\ pend \in BOOLEAN /\ unhealthy \in BOOLEAN
  /\ big \in BOOLEAN /\ lastLost \in BOOLEAN

\* What the step under _lock knows.  A META ends a recreation, an append is
\* written only when none is pending; a retry is pending only with it.
Control ==
  /\ role = "meta" => Writes
  /\ pc = "recreate" => pend /\ role = "write"
  /\ Writes /\ role = "write" => ~pend
  /\ Writes /\ role = "meta" => pend /\ "recreate" \notin waits
  /\ pc = "rotate" /\ role = "cont" => rotFails > 0
  /\ pc = "rest" => handle # 0
  /\ pc = "retry" => handle = 0
  /\ "recreate" \in waits => pend
  /\ Writing => Id # 0

\* The record being written has the last number, and nobody was told of it.
LastRecord ==
  Writing => num[Id] = seq /\ answer[Id] = "open" /\ Id \notin early

\* Each action leaves the control of the writer as Control says.
LEMMA ControlKept ==
  ASSUME Shape, Fields, Control, Next
  PROVE  Control'
<1> USE DEF files, writer, recovery, control, ledger, bounds
<1>0. Id \in Nat
  BY DEF Shape, Id
<1>1. CASE RotateSkip
  BY <1>1 DEF RotateSkip, AfterRotate, Control, Writing, Writes, Fields, Id
<1>2. CASE RotateFails
  BY <1>2 DEF RotateFails, AfterRotate, ScheduleRotate, Fault, Fine, Backoffs, Control, Writing,
     Writes, Fields, Id
<1>3. CASE RotateDone
  BY <1>3 DEF RotateDone, AfterRotate, ScheduleRotate, ArchiveName, Fault, Fine, Backoffs,
     Control, Writing, Writes, Fields, Id
<1>4. CASE RecreateRefused
  BY <1>4 DEF RecreateRefused, NewRecord, Control, Writing, Writes, Fields, Id
<1>5. CASE RecreateOpenFails
  BY <1>5 DEF RecreateOpenFails, ScheduleRecreate, Fault, Control, Writing, Writes, Fields, Id
<1>6. CASE RecreateOpen
  BY <1>6 DEF RecreateOpen, Control, Writing, Writes, Fields, Id
<1>7. CASE RecreateTailFails
  BY <1>7 DEF RecreateTailFails, ScheduleRecreate, Fault, Control, Writing, Writes, Fields, Id
<1>8. CASE NewLine
  BY <1>8 DEF NewLine, NewRecord, Control, Writing, Writes, Fields, Id
<1>9. CASE TickLeaves
  BY <1>9 DEF TickLeaves, TickFindsFile, Control, Writing, Writes, Fields, Id
<1>10. CASE LineOk
  BY <1>10 DEF LineOk, Using, Written, OpenedWaits, Control, Writing, Writes, Fields, Id
<1>11. CASE LineHalf
  BY <1>11, TargetIsThere DEF LineHalf, Using, OpenedWaits, Fault, Control, Writing, Writes, Fields, Id
<1>12. CASE LineFails
  BY <1>12 DEF LineFails, Using, OpenedWaits, Fault, Control, Writing, Writes, Fields, Id
<1>13. CASE CloseFails
  BY <1>13 DEF CloseFails, NotWritten, Fault, Control, Writing, Writes, Fields, Id
<1>14. CASE RestOk
  BY <1>14 DEF RestOk, Written, Control, Writing, Writes, Fields, Id
<1>15. CASE RestFails
  BY <1>15 DEF RestFails, NotWritten, Closing, Fault, Control, Writing, Writes, Fields, Id
<1>16. CASE RetryOk
  BY <1>16 DEF RetryOk, Using, Written, OpenedWaits, Control, Writing, Writes, Fields, Id
<1>17. CASE RetryFails
  BY <1>17 DEF RetryFails, Using, Closing, NotWritten, OpenedWaits, Fault, Control, Writing,
     Writes, Fields, Id
<1>18. CASE AppendClosed
  BY <1>18 DEF AppendClosed, NewRecord, Control, Writing, Writes, Fields, Id
<1>19. CASE AppendBegin
  BY <1>19 DEF AppendBegin, BeginRecreate, Big, Fault, Fine, Control, Writing, Writes, Fields,
     Id
<1>20. CASE AppendPending
  BY <1>20 DEF AppendPending, Control, Writing, Writes, Fields, Id
<1>21. CASE Tick
  BY <1>21 DEF Tick, Big, Control, Writing, Writes, Fields, Id
<1>22. CASE Reset
  BY <1>22 DEF Reset, ArchiveName, Control, Writing, Writes, Fields, Id
<1>23. CASE ResetFails
  BY <1>23 DEF ResetFails, ArchiveName, Fault, Control, Writing, Writes, Fields, Id
<1>24. CASE Close
  BY <1>24 DEF Close, Control, Writing, Writes, Fields, Id
<1>25. CASE Elapse
  BY <1>25 DEF Elapse, Control, Writing, Writes, Fields, Id
<1>26. CASE Unlink
  BY <1>26 DEF Unlink, Control, Writing, Writes, Fields, Id
<1>27. CASE Replace
  BY <1>27 DEF Replace, Control, Writing, Writes, Fields, Id
<1>28. CASE Crash
  BY <1>28 DEF Crash, Control, Writing, Writes, Fields, Id
<1>29. CASE Restart
  BY <1>29 DEF Restart, Control, Writing, Writes, Fields, Id
<1> QED BY <1>1, <1>2, <1>3, <1>4, <1>5, <1>6, <1>7, <1>8, <1>9, <1>10, <1>11, <1>12, <1>13,
   <1>14, <1>15, <1>16, <1>17, <1>18, <1>19, <1>20, <1>21, <1>22, <1>23, <1>24, <1>25, <1>26,
   <1>27, <1>28, <1>29 DEF Next, Step

LEMMA AnswerSet ==
  ASSUME Shape, Fields, NEW a \in {"open", "ok", "loss"}
  PROVE  /\ [answer EXCEPT ![Id] = a] \in Seq({"open", "ok", "loss"})
         /\ Len([answer EXCEPT ![Id] = a]) = Id
         /\ Append(answer, a) \in Seq({"open", "ok", "loss"})
         /\ Len(Append(answer, a)) = Id + 1
         /\ Id # 0 => [answer EXCEPT ![Id] = a][Id] = a
         /\ Append(answer, a)[Id + 1] = a
<1> DEFINE S == {"open", "ok", "loss"}
<1>0. Id \in Nat /\ answer \in Seq(S) /\ Len(answer) = Id
  BY DEF Shape, Id, Fields
<1>1. ASSUME NEW T, NEW us \in Seq(T), NEW d \in T, NEW i \in Nat, Len(us) = i
      PROVE  /\ [us EXCEPT ![i] = d] \in Seq(T) /\ Len([us EXCEPT ![i] = d]) = i
             /\ Append(us, d) \in Seq(T) /\ Len(Append(us, d)) = i + 1
             /\ i # 0 => [us EXCEPT ![i] = d][i] = d
             /\ Append(us, d)[i + 1] = d
  <2> DEFINE vs == [us EXCEPT ![i] = d]
  <2>1. DOMAIN vs = 1 .. i
    BY <1>1
  <2>2. \A k \in 1 .. i : vs[k] \in T
    BY <1>1
  <2>3. vs \in [1 .. i -> T]
    BY <2>1, <2>2
  <2>4. vs \in Seq(T) /\ Len(vs) = i
    BY <1>1, <2>1, <2>3
  <2> QED BY <1>1, <2>4
<1>2. a \in S
  OBVIOUS
<1> HIDE DEF S
<1>3. /\ [answer EXCEPT ![Id] = a] \in Seq(S) /\ Len([answer EXCEPT ![Id] = a]) = Id
      /\ Append(answer, a) \in Seq(S) /\ Len(Append(answer, a)) = Id + 1
      /\ Id # 0 => [answer EXCEPT ![Id] = a][Id] = a
      /\ Append(answer, a)[Id + 1] = a
  BY <1>0, <1>1, <1>2
<1> QED BY <1>3 DEF S

\* The ledger: what callers were told, and what METAs speak of.
LEMMA LedgerKept ==
  ASSUME Shape, Fields, Control, Next
  PROVE  /\ base' \in 0 .. Id'
         /\ answer' \in Seq({"open", "ok", "loss"}) /\ Len(answer') = Id'
         /\ reported' \subseteq Ids' /\ early' \subseteq Ids'
<1> USE DEF files, writer, recovery, control, ledger, bounds
<1>0. Id \in Nat /\ Ids = 1 .. Id
  BY DEF Shape, Id, Ids
<1>1. Shape' /\ Ids' = 1 .. Id' /\ Id' \in Nat
  <2>1. Shape'
    BY ShapeKept DEF WriteStep, LineOk, RestOk, RetryOk, Fields, Control, Writing
  <2> QED BY <2>1 DEF Shape, Id, Ids
<1>2. CASE RecordStep
  <2>1. Id' = Id + 1
    <3>1. num \in Seq(Nat) /\ num' = Append(num, seq + 1) /\ seq + 1 \in Nat
      BY <1>2, RecordEffect DEF Shape, Fields
    <3> QED BY <3>1 DEF Id
  <2>2. /\ answer' \in {Append(answer, a) : a \in {"open", "loss"}}
        /\ UNCHANGED <<base, reported, early>>
    BY <1>2 DEF RecordStep, AppendClosed, RecreateRefused, NewLine, NewRecord
  <2> QED BY <1>0, <1>1, <2>1, <2>2, AnswerSet DEF Fields
<1>3. CASE WriteStep
  <2>1. Id # 0 /\ Id' = Id
    BY <1>3 DEF WriteStep, LineOk, RestOk, RetryOk, Control, Writing, Written, Id
  <2>2. /\ answer' = [answer EXCEPT ![Id] = "ok"] /\ UNCHANGED base
        /\ reported' \in {reported, reported \cup (Covered \ Kept)}
        /\ early' = early \cup {r \in {Id} : role = "cont" /\ pend}
    BY <1>3 DEF WriteStep, LineOk, RestOk, RetryOk, Written
  <2>3. Covered \subseteq Ids
    BY DEF Covered
  <2>4. answer' \in Seq({"open", "ok", "loss"}) /\ Len(answer') = Id
    BY <2>2, AnswerSet
  <2>5. reported \subseteq Ids /\ early \subseteq Ids /\ Id \in Ids
    BY <1>0, <2>1 DEF Fields
  <2>6. reported' \subseteq Ids
    BY <2>2, <2>3, <2>5
  <2>7. early' \subseteq Ids
    BY <2>2, <2>5
  <2>8. Ids' = Ids
    BY <1>0, <1>1, <2>1
  <2> QED BY <1>0, <1>1, <2>1, <2>2, <2>4, <2>6, <2>7, <2>8 DEF Fields
<1>4. CASE QuietStep
  <2>1. Id' = Id
    BY <1>4, QuietEffect DEF Id
  <2>2. /\ answer' \in {answer, [answer EXCEPT ![Id] = "loss"]}
        /\ reported' = reported /\ early' = early
        /\ base' \in {base, Id}
    BY <1>4 DEF QuietStep, RotateSkip, RotateFails, RotateDone, RecreateOpenFails, RecreateOpen,
       RecreateTailFails, TickLeaves, LineHalf, LineFails, CloseFails, RestFails, RetryFails,
       AppendBegin, AppendPending, Tick, Reset, ResetFails, Close, Elapse, Unlink, Replace,
       Crash, Restart, NotWritten, Id
  <2> QED BY <1>0, <1>1, <2>1, <2>2, AnswerSet DEF Fields
<1> QED BY <1>2, <1>3, <1>4, NextCases

\* The types of the other fields.
LEMMA FieldsKept ==
  ASSUME Shape, Fields, Control, NameBelow, Next
  PROVE  Fields'
<1> USE DEF files, writer, recovery, control, ledger, bounds
<1> DEFINE Numbers == /\ seq \in Nat /\ first \in Nat /\ pendFirst \in Nat
                      /\ rotFails \in 0 .. Backoffs + 1
<1> DEFINE Places == /\ waits \subseteq {"identity", "rotate", "recreate"}
                     /\ pc \in {"idle", "rotate", "recreate", "write", "line", "rest", "retry"}
                     /\ role \in {"write", "meta", "cont"}
<1> DEFINE Flags == /\ up \in BOOLEAN /\ closed \in BOOLEAN /\ dirty \in BOOLEAN
                    /\ expected \in BOOLEAN /\ firstPending \in BOOLEAN /\ pend \in BOOLEAN
                    /\ unhealthy \in BOOLEAN /\ big \in BOOLEAN /\ lastLost \in BOOLEAN
<1>1. Numbers /\ Places /\ Flags
  BY DEF Fields
<1>2. Id \in Nat /\ (Writing => num[Id] \in Nat) /\ Loaded \in Nat /\ FirstLoaded \in Nat
  BY SMTT(20), LoadedIsLargest, FirstLoadedIsNumber DEF Shape, Id, Fields, Control
<1>3. Numbers'
  <2>1. CASE RotateSkip
    BY <2>1, <1>1, <1>2 DEF RotateSkip, AfterRotate, Numbers, Writing, Backoffs
  <2>2. CASE RotateFails
    BY <2>2, <1>1, <1>2 DEF RotateFails, AfterRotate, ScheduleRotate, Fault, Fine, Backoffs,
       Numbers, Writing, Backoffs
  <2>3. CASE RotateDone
    BY <2>3, <1>1, <1>2 DEF RotateDone, AfterRotate, ScheduleRotate, ArchiveName, Fault, Fine,
       Backoffs, Numbers, Writing, Backoffs
  <2>4. CASE RecreateRefused
    BY <2>4, <1>1, <1>2 DEF RecreateRefused, NewRecord, Numbers, Writing, Backoffs
  <2>5. CASE RecreateOpenFails
    BY <2>5, <1>1, <1>2 DEF RecreateOpenFails, ScheduleRecreate, Fault, Numbers, Writing,
       Backoffs
  <2>6. CASE RecreateOpen
    BY <2>6, <1>1, <1>2 DEF RecreateOpen, Numbers, Writing, Backoffs
  <2>7. CASE RecreateTailFails
    BY <2>7, <1>1, <1>2 DEF RecreateTailFails, ScheduleRecreate, Fault, Numbers, Writing,
       Backoffs
  <2>8. CASE NewLine
    BY <2>8, <1>1, <1>2 DEF NewLine, NewRecord, Numbers, Writing, Backoffs
  <2>9. CASE TickLeaves
    BY <2>9, <1>1, <1>2 DEF TickLeaves, TickFindsFile, Numbers, Writing, Backoffs
  <2>10. CASE LineOk
    BY <2>10, <1>1, <1>2 DEF LineOk, Using, Written, OpenedWaits, Numbers, Writing, Backoffs
  <2>11. CASE LineHalf
    BY <2>11, <1>1, <1>2 DEF LineHalf, Using, OpenedWaits, Fault, Numbers, Writing, Backoffs
  <2>12. CASE LineFails
    BY <2>12, <1>1, <1>2 DEF LineFails, Using, OpenedWaits, Fault, Numbers, Writing, Backoffs
  <2>13. CASE CloseFails
    BY <2>13, <1>1, <1>2 DEF CloseFails, NotWritten, Fault, Numbers, Writing, Backoffs
  <2>14. CASE RestOk
    BY <2>14, <1>1, <1>2 DEF RestOk, Written, Numbers, Writing, Backoffs
  <2>15. CASE RestFails
    BY <2>15, <1>1, <1>2 DEF RestFails, NotWritten, Closing, Fault, Numbers, Writing, Backoffs
  <2>16. CASE RetryOk
    BY <2>16, <1>1, <1>2 DEF RetryOk, Using, Written, OpenedWaits, Numbers, Writing, Backoffs
  <2>17. CASE RetryFails
    BY <2>17, <1>1, <1>2 DEF RetryFails, Using, Closing, NotWritten, OpenedWaits, Fault,
       Numbers, Writing, Backoffs
  <2>18. CASE AppendClosed
    BY <2>18, <1>1, <1>2 DEF AppendClosed, NewRecord, Numbers, Writing, Backoffs
  <2>19. CASE AppendBegin
    BY <2>19, <1>1, <1>2 DEF AppendBegin, BeginRecreate, Big, Fault, Fine, Numbers, Writing,
       Backoffs
  <2>20. CASE AppendPending
    BY <2>20, <1>1, <1>2 DEF AppendPending, Numbers, Writing, Backoffs
  <2>21. CASE Tick
    BY <2>21, <1>1, <1>2 DEF Tick, Big, Numbers, Writing, Backoffs
  <2>22. CASE Reset
    BY <2>22, <1>1, <1>2 DEF Reset, ArchiveName, Numbers, Writing, Backoffs
  <2>23. CASE ResetFails
    BY <2>23, <1>1, <1>2 DEF ResetFails, ArchiveName, Fault, Numbers, Writing, Backoffs
  <2>24. CASE Close
    BY <2>24, <1>1, <1>2 DEF Close, Numbers, Writing, Backoffs
  <2>25. CASE Elapse
    BY <2>25, <1>1, <1>2 DEF Elapse, Numbers, Writing, Backoffs
  <2>26. CASE Unlink
    BY <2>26, <1>1, <1>2 DEF Unlink, Numbers, Writing, Backoffs
  <2>27. CASE Replace
    BY <2>27, <1>1, <1>2 DEF Replace, Numbers, Writing, Backoffs
  <2>28. CASE Crash
    BY <2>28, <1>1, <1>2 DEF Crash, Numbers, Writing, Backoffs
  <2>29. CASE Restart
    BY <2>29, <1>1, <1>2 DEF Restart, Numbers, Writing, Backoffs
  <2> QED BY <2>1, <2>2, <2>3, <2>4, <2>5, <2>6, <2>7, <2>8, <2>9, <2>10, <2>11, <2>12, <2>13,
     <2>14, <2>15, <2>16, <2>17, <2>18, <2>19, <2>20, <2>21, <2>22, <2>23, <2>24, <2>25, <2>26,
     <2>27, <2>28, <2>29 DEF Next, Step
<1>4. Places'
  <2>1. CASE RotateSkip
    BY <2>1, <1>1 DEF RotateSkip, AfterRotate, Places
  <2>2. CASE RotateFails
    BY <2>2, <1>1 DEF RotateFails, AfterRotate, ScheduleRotate, Fault, Fine, Backoffs, Places
  <2>3. CASE RotateDone
    BY <2>3, <1>1 DEF RotateDone, AfterRotate, ScheduleRotate, ArchiveName, Fault, Fine,
       Backoffs, Places
  <2>4. CASE RecreateRefused
    BY <2>4, <1>1 DEF RecreateRefused, NewRecord, Places
  <2>5. CASE RecreateOpenFails
    BY <2>5, <1>1 DEF RecreateOpenFails, ScheduleRecreate, Fault, Places
  <2>6. CASE RecreateOpen
    BY <2>6, <1>1 DEF RecreateOpen, Places
  <2>7. CASE RecreateTailFails
    BY <2>7, <1>1 DEF RecreateTailFails, ScheduleRecreate, Fault, Places
  <2>8. CASE NewLine
    BY <2>8, <1>1 DEF NewLine, NewRecord, Places
  <2>9. CASE TickLeaves
    BY <2>9, <1>1 DEF TickLeaves, TickFindsFile, Places
  <2>10. CASE LineOk
    BY <2>10, <1>1 DEF LineOk, Using, Written, OpenedWaits, Places
  <2>11. CASE LineHalf
    BY <2>11, <1>1 DEF LineHalf, Using, OpenedWaits, Fault, Places
  <2>12. CASE LineFails
    BY <2>12, <1>1 DEF LineFails, Using, OpenedWaits, Fault, Places
  <2>13. CASE CloseFails
    BY <2>13, <1>1 DEF CloseFails, NotWritten, Fault, Places
  <2>14. CASE RestOk
    BY <2>14, <1>1 DEF RestOk, Written, Places
  <2>15. CASE RestFails
    BY <2>15, <1>1 DEF RestFails, NotWritten, Closing, Fault, Places
  <2>16. CASE RetryOk
    BY <2>16, <1>1 DEF RetryOk, Using, Written, OpenedWaits, Places
  <2>17. CASE RetryFails
    BY <2>17, <1>1 DEF RetryFails, Using, Closing, NotWritten, OpenedWaits, Fault, Places
  <2>18. CASE AppendClosed
    BY <2>18, <1>1 DEF AppendClosed, NewRecord, Places
  <2>19. CASE AppendBegin
    BY <2>19, <1>1 DEF AppendBegin, BeginRecreate, Big, Fault, Fine, Places
  <2>20. CASE AppendPending
    BY <2>20, <1>1 DEF AppendPending, Places
  <2>21. CASE Tick
    BY <2>21, <1>1 DEF Tick, Big, Places
  <2>22. CASE Reset
    BY <2>22, <1>1 DEF Reset, ArchiveName, Places
  <2>23. CASE ResetFails
    BY <2>23, <1>1 DEF ResetFails, ArchiveName, Fault, Places
  <2>24. CASE Close
    BY <2>24, <1>1 DEF Close, Places
  <2>25. CASE Elapse
    BY <2>25, <1>1 DEF Elapse, Places
  <2>26. CASE Unlink
    BY <2>26, <1>1 DEF Unlink, Places
  <2>27. CASE Replace
    BY <2>27, <1>1 DEF Replace, Places
  <2>28. CASE Crash
    BY <2>28, <1>1 DEF Crash, Places
  <2>29. CASE Restart
    BY <2>29, <1>1 DEF Restart, Places
  <2> QED BY <2>1, <2>2, <2>3, <2>4, <2>5, <2>6, <2>7, <2>8, <2>9, <2>10, <2>11, <2>12, <2>13,
     <2>14, <2>15, <2>16, <2>17, <2>18, <2>19, <2>20, <2>21, <2>22, <2>23, <2>24, <2>25, <2>26,
     <2>27, <2>28, <2>29 DEF Next, Step
<1>5. Flags'
  <2>1. CASE RotateSkip
    BY <2>1, <1>1 DEF RotateSkip, AfterRotate, Flags
  <2>2. CASE RotateFails
    BY <2>2, <1>1 DEF RotateFails, AfterRotate, ScheduleRotate, Fault, Fine, Backoffs, Flags
  <2>3. CASE RotateDone
    BY <2>3, <1>1 DEF RotateDone, AfterRotate, ScheduleRotate, ArchiveName, Fault, Fine,
       Backoffs, Flags
  <2>4. CASE RecreateRefused
    BY <2>4, <1>1 DEF RecreateRefused, NewRecord, Flags
  <2>5. CASE RecreateOpenFails
    BY <2>5, <1>1 DEF RecreateOpenFails, ScheduleRecreate, Fault, Flags
  <2>6. CASE RecreateOpen
    BY <2>6, <1>1 DEF RecreateOpen, Flags
  <2>7. CASE RecreateTailFails
    BY <2>7, <1>1 DEF RecreateTailFails, ScheduleRecreate, Fault, Flags
  <2>8. CASE NewLine
    BY <2>8, <1>1 DEF NewLine, NewRecord, Flags
  <2>9. CASE TickLeaves
    BY <2>9, <1>1 DEF TickLeaves, TickFindsFile, Flags
  <2>10. CASE LineOk
    BY <2>10, <1>1 DEF LineOk, Using, Written, OpenedWaits, Flags
  <2>11. CASE LineHalf
    BY <2>11, <1>1 DEF LineHalf, Using, OpenedWaits, Fault, Flags
  <2>12. CASE LineFails
    BY <2>12, <1>1 DEF LineFails, Using, OpenedWaits, Fault, Flags
  <2>13. CASE CloseFails
    BY <2>13, <1>1 DEF CloseFails, NotWritten, Fault, Flags
  <2>14. CASE RestOk
    BY <2>14, <1>1 DEF RestOk, Written, Flags
  <2>15. CASE RestFails
    BY <2>15, <1>1 DEF RestFails, NotWritten, Closing, Fault, Flags
  <2>16. CASE RetryOk
    BY <2>16, <1>1 DEF RetryOk, Using, Written, OpenedWaits, Flags
  <2>17. CASE RetryFails
    BY <2>17, <1>1 DEF RetryFails, Using, Closing, NotWritten, OpenedWaits, Fault, Flags
  <2>18. CASE AppendClosed
    BY <2>18, <1>1 DEF AppendClosed, NewRecord, Flags
  <2>19. CASE AppendBegin
    BY <2>19, <1>1 DEF AppendBegin, BeginRecreate, Big, Fault, Fine, Flags
  <2>20. CASE AppendPending
    BY <2>20, <1>1 DEF AppendPending, Flags
  <2>21. CASE Tick
    BY <2>21, <1>1 DEF Tick, Big, Flags
  <2>22. CASE Reset
    BY <2>22, <1>1 DEF Reset, ArchiveName, Flags
  <2>23. CASE ResetFails
    BY <2>23, <1>1 DEF ResetFails, ArchiveName, Fault, Flags
  <2>24. CASE Close
    BY <2>24, <1>1 DEF Close, Flags
  <2>25. CASE Elapse
    BY <2>25, <1>1 DEF Elapse, Flags
  <2>26. CASE Unlink
    BY <2>26, <1>1 DEF Unlink, Flags
  <2>27. CASE Replace
    BY <2>27, <1>1 DEF Replace, Flags
  <2>28. CASE Crash
    BY <2>28, <1>1 DEF Crash, Flags
  <2>29. CASE Restart
    BY <2>29, <1>1 DEF Restart, Flags
  <2> QED BY <2>1, <2>2, <2>3, <2>4, <2>5, <2>6, <2>7, <2>8, <2>9, <2>10, <2>11, <2>12, <2>13,
     <2>14, <2>15, <2>16, <2>17, <2>18, <2>19, <2>20, <2>21, <2>22, <2>23, <2>24, <2>25, <2>26,
     <2>27, <2>28, <2>29 DEF Next, Step
<1> HIDE DEF Numbers, Places, Flags
<1> QED BY <1>3, <1>4, <1>5, LedgerKept DEF Fields, Numbers, Places, Flags

\* The archived files are neither named nor open.
Archived == archive \subseteq Inode \ {name} /\ handle \notin archive

LEMMA ArchivedKept ==
  ASSUME Shape, Fields, Control, Archived, Next
  PROVE  Archived'
<1> USE DEF files, writer, recovery, control, ledger, bounds
<1>0. Inode = 1 .. Len(lines) /\ Len(lines) \in Nat
  BY DEF Shape, Inode
<1>1. ASSUME NEW t, NEW x, Grows(t, x), Moves,
             archive' \in {archive, archive \cup ({name} \ {0})},
             archive' = archive \/ (name' = 0 /\ handle' = 0)
      PROVE  Archived'
  <2>1. Inode' = 1 .. Len(lines') /\ Len(lines') \in Nat /\ Len(lines) <= Len(lines')
    BY <1>1 DEF Grows, Inode
  <2>2. CASE archive' = archive
    BY <1>0, <1>1, <2>1, <2>2 DEF Archived, Moves
  <2>3. CASE name' = 0 /\ handle' = 0
    BY <1>0, <1>1, <2>1, <2>3 DEF Archived, Shape
  <2> QED BY <1>1, <2>2, <2>3
<1>2. CASE RecordStep
  BY <1>2, RecordEffect DEF Archived, Inode
<1>3. CASE WriteStep
  <2>1. Id # 0
    BY <1>3 DEF WriteStep, LineOk, RestOk, RetryOk, Control, Writing
  <2>2. archive' = archive
    BY <1>3 DEF WriteStep, LineOk, RestOk, RetryOk, Written
  <2>3. PICK x \in {Broken, Id} : Grows(handle', x)
    BY <1>3, <2>1, WriteEffect DEF Control
  <2>4. Moves
    BY <1>3, <2>1, WriteEffect DEF Control
  <2> QED BY <1>1, <2>2, <2>3, <2>4
<1>4. CASE QuietStep
  <2>1. \/ archive' = archive
        \/ archive' = archive \cup {name} /\ name # 0 /\ name' = 0 /\ handle' = 0
    BY <1>4 DEF QuietStep, RotateSkip, RotateFails, RotateDone, RecreateOpenFails, RecreateOpen,
       RecreateTailFails, TickLeaves, LineHalf, LineFails, CloseFails, RestFails, RetryFails,
       AppendBegin, AppendPending, Tick, Reset, ResetFails, Close, Elapse, Unlink, Replace,
          Crash,
       Restart, NotWritten, ArchiveName
  <2>2. Grows(0, Broken) /\ Moves
    BY <1>4, QuietEffect
  <2> QED BY <1>1, <2>1, <2>2
<1> QED BY <1>2, <1>3, <1>4, NextCases

\* The record being written stays the last one until it is answered.
LEMMA LastRecordKept ==
  ASSUME Shape, Fields, Control, LastRecord, Next
  PROVE  LastRecord'
<1> USE DEF files, writer, recovery, control, ledger, bounds
<1>1. CASE RotateSkip
  BY <1>1 DEF RotateSkip, AfterRotate, LastRecord, Writing, Id
<1>2. CASE RotateFails
  BY <1>2 DEF RotateFails, AfterRotate, ScheduleRotate, Fault, Fine, Backoffs, LastRecord,
     Writing, Id
<1>3. CASE RotateDone
  BY <1>3 DEF RotateDone, AfterRotate, ScheduleRotate, ArchiveName, Fault, Fine, Backoffs,
     LastRecord, Writing, Id
<1>4. CASE RecreateRefused
  BY <1>4 DEF RecreateRefused, NewRecord, LastRecord, Writing, Id
<1>5. CASE RecreateOpenFails
  BY <1>5 DEF RecreateOpenFails, ScheduleRecreate, Fault, LastRecord, Writing, Id
<1>6. CASE RecreateOpen
  BY <1>6 DEF RecreateOpen, LastRecord, Writing, Id
<1>7. CASE RecreateTailFails
  BY <1>7 DEF RecreateTailFails, ScheduleRecreate, Fault, LastRecord, Writing, Id
<1>8. CASE NewLine
  <2>1. num \in Seq(Nat) /\ num' = Append(num, seq + 1) /\ seq + 1 \in Nat /\ Id \in Nat
    BY <1>8 DEF NewLine, NewRecord, Shape, Fields, Id
  <2>2. Id' = Id + 1 /\ num'[Id + 1] = seq + 1
    BY <2>1 DEF Id
  <2>3. answer' = Append(answer, "open") /\ seq' = seq + 1 /\ early' = early
    BY <1>8 DEF NewLine, NewRecord
  <2>4. answer'[Id + 1] = "open"
    BY <2>3, AnswerSet
  <2>5. Id + 1 \notin early
    BY <2>1 DEF Fields, Ids, Id
  <2> QED BY <2>2, <2>3, <2>4, <2>5 DEF LastRecord
<1>9. CASE TickLeaves
  BY <1>9 DEF TickLeaves, TickFindsFile, LastRecord, Writing, Id
<1>10. CASE LineOk
  BY <1>10 DEF LineOk, Using, Written, OpenedWaits, LastRecord, Writing, Id
<1>11. CASE LineHalf
  BY <1>11 DEF LineHalf, Using, OpenedWaits, Fault, LastRecord, Writing, Id
<1>12. CASE LineFails
  BY <1>12 DEF LineFails, Using, OpenedWaits, Fault, LastRecord, Writing, Id
<1>13. CASE CloseFails
  BY <1>13 DEF CloseFails, NotWritten, Fault, LastRecord, Writing, Id
<1>14. CASE RestOk
  BY <1>14 DEF RestOk, Written, LastRecord, Writing, Id
<1>15. CASE RestFails
  BY <1>15 DEF RestFails, NotWritten, Closing, Fault, LastRecord, Writing, Id
<1>16. CASE RetryOk
  BY <1>16 DEF RetryOk, Using, Written, OpenedWaits, LastRecord, Writing, Id
<1>17. CASE RetryFails
  BY <1>17 DEF RetryFails, Using, Closing, NotWritten, OpenedWaits, Fault, LastRecord, Writing,
     Id
<1>18. CASE AppendClosed
  BY <1>18 DEF AppendClosed, NewRecord, LastRecord, Writing, Id
<1>19. CASE AppendBegin
  BY <1>19 DEF AppendBegin, BeginRecreate, Big, Fault, Fine, LastRecord, Writing, Id
<1>20. CASE AppendPending
  BY <1>20 DEF AppendPending, LastRecord, Writing, Id
<1>21. CASE Tick
  BY <1>21 DEF Tick, Big, LastRecord, Writing, Id
<1>22. CASE Reset
  BY <1>22 DEF Reset, ArchiveName, LastRecord, Writing, Id
<1>23. CASE ResetFails
  BY <1>23 DEF ResetFails, ArchiveName, Fault, LastRecord, Writing, Id
<1>24. CASE Close
  BY <1>24 DEF Close, LastRecord, Writing, Id
<1>25. CASE Elapse
  BY <1>25 DEF Elapse, LastRecord, Writing, Id
<1>26. CASE Unlink
  BY <1>26 DEF Unlink, LastRecord, Writing, Id
<1>27. CASE Replace
  BY <1>27 DEF Replace, LastRecord, Writing, Id
<1>28. CASE Crash
  BY <1>28 DEF Crash, LastRecord, Writing, Id
<1>29. CASE Restart
  BY <1>29 DEF Restart, LastRecord, Writing, Id
<1> QED BY <1>1, <1>2, <1>3, <1>4, <1>5, <1>6, <1>7, <1>8, <1>9, <1>10, <1>11, <1>12, <1>13,
   <1>14, <1>15, <1>16, <1>17, <1>18, <1>19, <1>20, <1>21, <1>22, <1>23, <1>24, <1>25, <1>26,
   <1>27, <1>28, <1>29 DEF Next, Step

\* The records a step under _lock may still create: its own, and the META of
\* a recreation or of a rotation that tick() completes.
Owed == IF pc = "rotate" THEN (IF role = "write" THEN 2 ELSE 0)
        ELSE IF pc = "recreate" THEN 2
        ELSE IF pc = "write" THEN (IF role = "meta" THEN 2 ELSE 1)
        ELSE IF Writing /\ role = "meta" THEN 1 ELSE 0

\* A rotation that was put off brings one META more.
PutOff == IF rotFails > 0 THEN 1 ELSE 0

\* Two records for every call, one for every fault.
Budget ==
  /\ calls \in 0 .. MaxCalls /\ faults \in 0 .. MaxFaults
  /\ Id + Owed + PutOff <= 2 * calls + faults

LEMMA BudgetKept ==
  ASSUME Shape, Fields, Control, Budget, Next
  PROVE  Budget'
<1> USE DEF files, writer, recovery, control, ledger, bounds
<1>0. Id \in Nat /\ MaxCalls \in Nat /\ MaxFaults \in Nat /\ rotFails \in Nat
      /\ calls \in Nat /\ faults \in Nat
  BY WalAssumption DEF Shape, Id, Fields, Backoffs, Budget
<1>1. RecordStep => Id' = Id + 1
  <2>1. ASSUME RecordStep
        PROVE  num \in Seq(Nat) /\ num' = Append(num, seq + 1) /\ seq + 1 \in Nat
    BY <2>1, RecordEffect DEF Shape, Fields
  <2> QED BY <2>1 DEF Id
<1>2. CASE RotateSkip
  <2>1. Id' = Id
    BY <1>2 DEF RotateSkip, Id
  <2> QED BY <1>2, <1>0, <2>1 DEF RotateSkip, AfterRotate, Budget, Owed, PutOff, Writing,
     Writes, Control, Fields, Backoffs
<1>3. CASE RotateFails
  <2>1. Id' = Id
    BY <1>3 DEF RotateFails, Id
  <2> QED BY <1>3, <1>0, <2>1 DEF RotateFails, AfterRotate, ScheduleRotate, Fault, Fine,
     Backoffs, Budget, Owed, PutOff, Writing, Writes, Control, Fields
<1>4. CASE RotateDone
  <2>1. Id' = Id
    BY <1>4 DEF RotateDone, Id
  <2> QED BY <1>4, <1>0, <2>1 DEF RotateDone, AfterRotate, ScheduleRotate, ArchiveName, Fault,
     Fine, Backoffs, Budget, Owed, PutOff, Writing, Writes, Control, Fields
<1>5. CASE RecreateRefused
  <2>1. Id' = Id + 1
    BY <1>5, <1>1 DEF RecordStep
  <2> QED BY <1>5, <1>0, <2>1 DEF RecreateRefused, NewRecord, Budget, Owed, PutOff, Writing,
     Control, Writes
<1>6. CASE RecreateOpenFails
  <2>1. Id' = Id
    BY <1>6 DEF RecreateOpenFails, Id
  <2> QED BY <1>6, <1>0, <2>1 DEF RecreateOpenFails, ScheduleRecreate, Fault, Budget, Owed,
     PutOff, Writing, Writes, Control, Fields, Backoffs
<1>7. CASE RecreateOpen
  <2>1. Id' = Id
    BY <1>7 DEF RecreateOpen, Id
  <2> QED BY <1>7, <1>0, <2>1 DEF RecreateOpen, Budget, Owed, PutOff, Writing, Writes, Control,
     Fields, Backoffs
<1>8. CASE RecreateTailFails
  <2>1. Id' = Id
    BY <1>8 DEF RecreateTailFails, Id
  <2> QED BY <1>8, <1>0, <2>1 DEF RecreateTailFails, ScheduleRecreate, Fault, Budget, Owed,
     PutOff, Writing, Writes, Control, Fields, Backoffs
<1>9. CASE NewLine
  <2>1. Id' = Id + 1
    BY <1>9, <1>1 DEF RecordStep
  <2> QED BY <1>9, <1>0, <2>1 DEF NewLine, NewRecord, Budget, Owed, PutOff, Writing, Control,
     Writes
<1>10. CASE TickLeaves
  <2>1. Id' = Id
    BY <1>10 DEF TickLeaves, Id
  <2> QED BY <1>10, <1>0, <2>1 DEF TickLeaves, TickFindsFile, Budget, Owed, PutOff, Writing,
     Writes, Control, Fields, Backoffs
<1>11. CASE LineOk
  <2>1. Id' = Id
    BY <1>11 DEF LineOk, Written, Id
  <2> QED BY <1>11, <1>0, <2>1 DEF LineOk, Using, Written, OpenedWaits, Budget, Owed, PutOff,
     Writing, Writes, Control, Fields, Backoffs
<1>12. CASE LineHalf
  <2>1. Id' = Id
    BY <1>12 DEF LineHalf, Id
  <2> QED BY <1>12, <1>0, <2>1 DEF LineHalf, Using, OpenedWaits, Fault, Budget, Owed, PutOff,
     Writing, Writes, Control, Fields, Backoffs
<1>13. CASE LineFails
  <2>1. Id' = Id
    BY <1>13 DEF LineFails, Id
  <2> QED BY <1>13, <1>0, <2>1 DEF LineFails, Using, OpenedWaits, Fault, Budget, Owed, PutOff,
     Writing, Writes, Control, Fields, Backoffs
<1>14. CASE CloseFails
  <2>1. Id' = Id
    BY <1>14 DEF CloseFails, Written, NotWritten, Id
  <2> QED BY <1>14, <1>0, <2>1 DEF CloseFails, NotWritten, Fault, Budget, Owed, PutOff, Writing,
     Writes, Control, Fields, Backoffs
<1>15. CASE RestOk
  <2>1. Id' = Id
    BY <1>15 DEF RestOk, Written, Id
  <2> QED BY <1>15, <1>0, <2>1 DEF RestOk, Written, Budget, Owed, PutOff, Writing, Writes,
     Control, Fields, Backoffs
<1>16. CASE RestFails
  <2>1. Id' = Id
    BY <1>16 DEF RestFails, Written, NotWritten, Id
  <2> QED BY <1>16, <1>0, <2>1 DEF RestFails, NotWritten, Closing, Fault, Budget, Owed, PutOff,
     Writing, Writes, Control, Fields, Backoffs
<1>17. CASE RetryOk
  <2>1. Id' = Id
    BY <1>17 DEF RetryOk, Written, Id
  <2> QED BY <1>17, <1>0, <2>1 DEF RetryOk, Using, Written, OpenedWaits, Budget, Owed, PutOff,
     Writing, Writes, Control, Fields, Backoffs
<1>18. CASE RetryFails
  <2>1. Id' = Id
    BY <1>18 DEF RetryFails, Written, NotWritten, Id
  <2> QED BY <1>18, <1>0, <2>1 DEF RetryFails, Using, Closing, NotWritten, OpenedWaits, Fault,
     Budget, Owed, PutOff, Writing, Writes, Control, Fields, Backoffs
<1>19. CASE AppendClosed
  <2>1. Id' = Id + 1
    BY <1>19, <1>1 DEF RecordStep
  <2> QED BY <1>19, <1>0, <2>1 DEF AppendClosed, NewRecord, Budget, Owed, PutOff, Writing,
     Control, Writes
<1>20. CASE AppendBegin
  <2>1. Id' = Id
    BY <1>20 DEF AppendBegin, Id
  <2> QED BY <1>20, <1>0, <2>1 DEF AppendBegin, BeginRecreate, Big, Fault, Fine, Budget, Owed,
     PutOff, Writing, Writes, Control, Fields, Backoffs
<1>21. CASE AppendPending
  <2>1. Id' = Id
    BY <1>21 DEF AppendPending, Id
  <2> QED BY <1>21, <1>0, <2>1 DEF AppendPending, Budget, Owed, PutOff, Writing, Writes,
     Control, Fields, Backoffs
<1>22. CASE Tick
  <2>1. Id' = Id
    BY <1>22 DEF Tick, Id
  <2> QED BY <1>22, <1>0, <2>1 DEF Tick, Big, Budget, Owed, PutOff, Writing, Writes, Control,
     Fields, Backoffs
<1>23. CASE Reset
  <2>1. Id' = Id
    BY <1>23 DEF Reset, Id
  <2> QED BY <1>23, <1>0, <2>1 DEF Reset, ArchiveName, Budget, Owed, PutOff, Writing, Writes,
     Control, Fields, Backoffs
<1>24. CASE ResetFails
  <2>1. Id' = Id
    BY <1>24 DEF ResetFails, Id
  <2> QED BY <1>24, <1>0, <2>1 DEF ResetFails, ArchiveName, Fault, Budget, Owed, PutOff,
     Writing, Writes, Control, Fields, Backoffs
<1>25. CASE Close
  <2>1. Id' = Id
    BY <1>25 DEF Close, Id
  <2> QED BY <1>25, <1>0, <2>1 DEF Close, Budget, Owed, PutOff, Writing, Writes, Control,
     Fields, Backoffs
<1>26. CASE Elapse
  <2>1. Id' = Id
    BY <1>26 DEF Elapse, Id
  <2> QED BY <1>26, <1>0, <2>1 DEF Elapse, Budget, Owed, PutOff, Writing, Writes, Control,
     Fields, Backoffs
<1>27. CASE Unlink
  <2>1. Id' = Id
    BY <1>27 DEF Unlink, Id
  <2> QED BY <1>27, <1>0, <2>1 DEF Unlink, Budget, Owed, PutOff, Writing, Writes, Control,
     Fields, Backoffs
<1>28. CASE Replace
  <2>1. Id' = Id
    BY <1>28 DEF Replace, Id
  <2> QED BY <1>28, <1>0, <2>1 DEF Replace, Budget, Owed, PutOff, Writing, Writes, Control,
     Fields, Backoffs
<1>29. CASE Crash
  <2>1. Id' = Id
    BY <1>29 DEF Crash, Id
  <2> QED BY <1>29, <1>0, <2>1 DEF Crash, Budget, Owed, PutOff, Writing, Writes, Control,
     Fields, Backoffs
<1>30. CASE Restart
  <2>1. Id' = Id
    BY <1>30 DEF Restart, Id
  <2> QED BY <1>30, <1>0, <2>1 DEF Restart, Budget, Owed, PutOff, Writing, Writes, Control,
     Fields, Backoffs
<1> QED BY <1>2, <1>3, <1>4, <1>5, <1>6, <1>7, <1>8, <1>9, <1>10, <1>11, <1>12, <1>13, <1>14,
   <1>15, <1>16, <1>17, <1>18, <1>19, <1>20, <1>21, <1>22, <1>23, <1>24, <1>25, <1>26, <1>27,
   <1>28, <1>29, <1>30 DEF Next, Step

\* Every record since a META of tick() during a recreation was lost.
EarlyLast == \E r \in early : \A q \in r + 1 .. Id : answer[q] = "loss"

\* A loss is remembered in _unhealthy until something is written; so is a
\* recreation that failed, unless a META of tick() was written since.
LossKnown ==
  /\ lastLost /\ ~Writing => unhealthy \/ closed \/ EarlyLast
  /\ "recreate" \in waits /\ ~Writing => unhealthy \/ EarlyLast

LEMMA LossKnownKept ==
  ASSUME Shape, Fields, Control, LossKnown, Next
  PROVE  LossKnown'
<1> USE DEF files, writer, recovery, control, ledger, bounds
<1>0. Id \in Nat /\ early \subseteq 1 .. Id
  BY DEF Shape, Id, Fields, Ids
<1>1. ASSUME UNCHANGED <<num, answer, early>>
      PROVE  EarlyLast' <=> EarlyLast
  BY <1>1 DEF EarlyLast, Id
<1>2. ASSUME RecordStep, answer' = Append(answer, "loss"), early' = early, EarlyLast
      PROVE  EarlyLast'
  <2>1. PICK r \in early : \A q \in r + 1 .. Id : answer[q] = "loss"
    BY <1>2 DEF EarlyLast
  <2>2. Id' = Id + 1
    <3>1. num \in Seq(Nat) /\ num' = Append(num, seq + 1) /\ seq + 1 \in Nat
      BY <1>2, RecordEffect DEF Shape, Fields
    <3> QED BY <3>1 DEF Id
  <2>3. \A q \in r + 1 .. Id + 1 : answer'[q] = "loss"
    <3>1. answer \in Seq({"open", "ok", "loss"}) /\ Len(answer) = Id
      BY DEF Fields
    <3>2. answer'[Id + 1] = "loss" /\ \A q \in 1 .. Id : answer'[q] = answer[q]
      BY <1>0, <1>2, <3>1
    <3> QED BY <1>0, <2>1, <3>2
  <2> QED BY <1>2, <2>1, <2>2, <2>3 DEF EarlyLast
<1>3. ASSUME UNCHANGED <<num>>, Id \in early'
      PROVE  EarlyLast'
  <2>1. Id' = Id
    BY <1>3 DEF Id
  <2> QED BY <1>0, <1>3, <2>1 DEF EarlyLast
<1>4. CASE RotateSkip
  BY <1>4, <1>1 DEF RotateSkip, AfterRotate, LossKnown, Writing, Writes, Control
<1>5. CASE RotateFails
  BY <1>5, <1>1 DEF RotateFails, AfterRotate, ScheduleRotate, Fault, Fine, Backoffs, LossKnown,
     Writing, Writes, Control
<1>6. CASE RotateDone
  BY <1>6, <1>1 DEF RotateDone, AfterRotate, ScheduleRotate, ArchiveName, Fault, Fine, Backoffs,
     LossKnown, Writing, Writes, Control
<1>7. CASE RecreateRefused
  BY <1>7, <1>2 DEF RecreateRefused, RecordStep, NewRecord, LossKnown, Writing
<1>8. CASE RecreateOpenFails
  BY <1>8, <1>1 DEF RecreateOpenFails, ScheduleRecreate, Fault, LossKnown, Writing, Writes,
     Control
<1>9. CASE RecreateOpen
  BY <1>9, <1>1 DEF RecreateOpen, LossKnown, Writing, Writes, Control
<1>10. CASE RecreateTailFails
  BY <1>10, <1>1 DEF RecreateTailFails, ScheduleRecreate, Fault, LossKnown, Writing, Writes,
     Control
<1>11. CASE NewLine
  BY <1>11 DEF NewLine, LossKnown, Writing
<1>12. CASE TickLeaves
  BY <1>12, <1>1 DEF TickLeaves, TickFindsFile, LossKnown, Writing, Writes, Control
<1>13. CASE LineOk
  BY <1>13, <1>3 DEF LineOk, Using, Written, OpenedWaits, LossKnown, Writing, Writes, Control
<1>14. CASE LineHalf
  BY <1>14, <1>1 DEF LineHalf, Using, OpenedWaits, Fault, LossKnown, Writing, Writes, Control
<1>15. CASE LineFails
  BY <1>15, <1>1 DEF LineFails, Using, OpenedWaits, Fault, LossKnown, Writing, Writes, Control
<1>16. CASE CloseFails
  BY <1>16, <1>1 DEF CloseFails, NotWritten, Fault, LossKnown, Writing, Writes, Control
<1>17. CASE RestOk
  BY <1>17, <1>3 DEF RestOk, Written, LossKnown, Writing, Writes, Control
<1>18. CASE RestFails
  BY <1>18, <1>1 DEF RestFails, NotWritten, Closing, Fault, LossKnown, Writing, Writes, Control
<1>19. CASE RetryOk
  BY <1>19, <1>3 DEF RetryOk, Using, Written, OpenedWaits, LossKnown, Writing, Writes, Control
<1>20. CASE RetryFails
  BY <1>20, <1>1 DEF RetryFails, Using, Closing, NotWritten, OpenedWaits, Fault, LossKnown,
     Writing, Writes, Control
<1>21. CASE AppendClosed
  BY <1>21, <1>2 DEF AppendClosed, RecordStep, NewRecord, LossKnown, Writing
<1>22. CASE AppendBegin
  BY <1>22, <1>1 DEF AppendBegin, BeginRecreate, Big, Fault, Fine, LossKnown, Writing, Writes,
     Control
<1>23. CASE AppendPending
  BY <1>23, <1>1 DEF AppendPending, LossKnown, Writing, Writes, Control
<1>24. CASE Tick
  BY <1>24, <1>1 DEF Tick, Big, LossKnown, Writing, Writes, Control
<1>25. CASE Reset
  BY <1>25, <1>1 DEF Reset, ArchiveName, LossKnown, Writing, Writes, Control
<1>26. CASE ResetFails
  BY <1>26, <1>1 DEF ResetFails, ArchiveName, Fault, LossKnown, Writing, Writes, Control
<1>27. CASE Close
  BY <1>27, <1>1 DEF Close, LossKnown, Writing, Writes, Control
<1>28. CASE Elapse
  BY <1>28, <1>1 DEF Elapse, LossKnown, Writing, Writes, Control
<1>29. CASE Unlink
  BY <1>29, <1>1 DEF Unlink, LossKnown, Writing, Writes, Control
<1>30. CASE Replace
  BY <1>30, <1>1 DEF Replace, LossKnown, Writing, Writes, Control
<1>31. CASE Crash
  BY <1>31, <1>1 DEF Crash, LossKnown, Writing, Writes, Control
<1>32. CASE Restart
  BY <1>32, <1>1 DEF Restart, LossKnown, Writing, Writes, Control
<1> QED BY <1>4, <1>5, <1>6, <1>7, <1>8, <1>9, <1>10, <1>11, <1>12, <1>13, <1>14, <1>15, <1>16,
   <1>17, <1>18, <1>19, <1>20, <1>21, <1>22, <1>23, <1>24, <1>25, <1>26, <1>27, <1>28, <1>29,
   <1>30, <1>31, <1>32 DEF Next, Step

------------------------------------------------------------------------------
(* The numbers in the files                                                *)

\* The files the writer may still write to or announce as lost.
Live == {name, work, handle}

\* In every file of the log the numbers rise, and stay below the one being
\* written.  What is written to an open file that lost its name is lost.
Ordered ==
  /\ \A i \in archive \cup ({name} \ {0}) : Rising(lines[i], num)
  /\ NameBelow
  /\ Writing => \A r \in Held(lines, name) : num[r] < seq
  /\ \A i \in Live : \A r \in Held(lines, i) : r > base => num[r] <= seq
  /\ handle # 0 /\ name \notin {0, handle} => Held(lines, name) = {}

\* Where the range of records that a lost file held begins.
Floor == IF pend THEN pendFirst ELSE first

\* No live file holds a record before Floor, but for those a reset has
\* renumbered and the METAs of tick() during a recreation.
Ranges ==
  /\ firstPending => \A i \in Live : Held(lines, i) = {}
  /\ Floor > 0 => \A i \in Live : \A r \in Held(lines, i) \ early :
                    r > base => Floor <= num[r]
  /\ first <= seq + 1 /\ (Writing => first <= seq)

\* In a recreation nothing but METAs of tick() is written, and every META
\* is the first record of its file but for those.
Fresh ==
  /\ pend => Held(lines, name) \subseteq early
  /\ role \in {"meta", "cont"} /\ Writes => \A i \in Live : Held(lines, i) \subseteq early

\* How a step changes what the files hold.
LEMMA HeldGrows ==
  ASSUME Shape, NEW t, NEW x, Grows(t, x), x = Broken \/ t # 0, NEW i \in 0 .. Len(lines')
  PROVE  Held(lines', i) = Held(lines, i) \cup (IF i = t THEN {x} \ {Broken} ELSE {})
<1>1. Len(lines') \in Nat
  BY DEF Grows
<1>2. CASE i = 0
  BY <1>2 DEF Held
<1>3. CASE i # 0
  <2>1. i \in 1 .. Len(lines')
    BY <1>1, <1>3
  <2> QED BY <2>1 DEF Grows, Held
<1> QED BY <1>2, <1>3

LEMMA HeldIds ==
  ASSUME Shape, NEW i
  PROVE  Held(lines, i) \subseteq 1 .. Id /\ Id \in Nat /\ \A r \in Held(lines, i) : num[r] \in Nat
<1>1. Id \in Nat /\ Ids = 1 .. Id /\ Inode = 1 .. Len(lines)
  BY DEF Shape, Id, Ids, Inode
<1> QED BY <1>1, RecordsAreIds DEF Held

\* A live file was live before, or it is new and empty.
LEMMA LiveBefore ==
  ASSUME Shape, NEW t, NEW x, Grows(t, x), Moves
  PROVE  /\ \A i \in Live' : i \in 0 .. Len(lines') /\ (i \in Live \/ Held(lines, i) = {})
         /\ name' # name => Held(lines, name') = {}
         /\ name' \in 0 .. Len(lines')
<1>1. Len(lines) \in Nat /\ Len(lines') \in Nat /\ Len(lines) <= Len(lines')
  BY DEF Shape, Grows
<1>2. name' # name => Held(lines, name') = {}
  BY <1>1 DEF Moves, Held
<1>3. {name, work, handle, name', 0} \subseteq 0 .. Len(lines')
  BY <1>1 DEF Shape, Moves
<1>4. Held(lines, 0) = {}
  BY DEF Held
<1>5. Live' \subseteq {name, work, handle, name', 0}
  BY DEF Live, Moves
<1> QED BY <1>2, <1>3, <1>4, <1>5 DEF Live

\* Records keep their numbers when another one is created.
LEMMA NumbersStay ==
  ASSUME Shape, seq \in Nat, RecordStep
  PROVE  /\ \A i : \A r \in Held(lines, i) : num'[r] = num[r]
         /\ \A i \in Inode : Rising(lines[i], num) => Rising(lines[i], num')
<1>1. num \in Seq(Nat) /\ num' = Append(num, seq + 1) /\ seq + 1 \in Nat /\ Id = Len(num)
  BY RecordEffect DEF Shape, Id
<1>2. \A r \in 1 .. Id : num'[r] = num[r]
  BY <1>1
<1>3. ASSUME NEW i \in Inode, Rising(lines[i], num)
      PROVE  Rising(lines[i], num')
  <2>1. lines[i] \in Seq(0 .. Id) /\ Id \in Nat
    BY <1>1 DEF Shape, Inode
  <2>2. \A j \in DOMAIN lines[i] : lines[i][j] \in 0 .. Id
    BY <2>1
  <2>3. \A j \in DOMAIN lines[i] : lines[i][j] # Broken => num'[lines[i][j]] = num[lines[i][j]]
    BY <1>2, <2>1, <2>2 DEF Broken
  <2> QED BY <1>3, <2>3 DEF Rising
<1> QED BY <1>2, <1>3, HeldIds

LEMMA OrderedKept ==
  ASSUME Shape, Fields, Control, LastRecord, Archived, Ordered, Next
  PROVE  Ordered'
<1> USE DEF files, writer, recovery, control, ledger, bounds
<1>0. /\ Id \in Nat /\ seq \in Nat /\ base \in 0 .. Id /\ Len(lines) \in Nat
      /\ Inode = 1 .. Len(lines) /\ archive \subseteq 1 .. Len(lines) /\ name \in 0 .. Len(lines)
  BY DEF Shape, Id, Fields, Archived, Inode
\* Steps that write no record.
<1>1. ASSUME Grows(0, Broken), Moves, num' = num, ~Writing' \/ (Writing /\ seq' = seq),
             archive' = archive \/ (archive' = archive \cup {name} /\ name # 0),
             NameBelow', \A i \in Live' : \A r \in Held(lines, i) : r > base' => num[r] <= seq'
      PROVE  Ordered'
  <2>0. Len(lines') \in Nat /\ Len(lines) <= Len(lines')
    BY <1>1 DEF Grows
  <2>1. \A i \in 0 .. Len(lines') : Held(lines', i) = Held(lines, i)
    BY <1>1, HeldGrows
  <2>2. /\ \A i \in Live' : i \in 0 .. Len(lines') /\ (i \in Live \/ Held(lines, i) = {})
        /\ name' # name => Held(lines, name') = {}
        /\ name' \in 0 .. Len(lines')
    BY <1>1, LiveBefore
  <2>3. ASSUME NEW i \in archive' \cup ({name'} \ {0})
        PROVE  Rising(lines'[i], num')
    <3>1. i \in 1 .. Len(lines')
      <4>1. archive' \subseteq 1 .. Len(lines)
        <5>1. name # 0 => name \in 1 .. Len(lines)
          BY <1>0
        <5>2. archive' = archive \/ (archive' = archive \cup {name} /\ name # 0)
          BY <1>1
        <5>3. archive \subseteq 1 .. Len(lines)
          BY <1>0
        <5> QED BY <5>1, <5>2, <5>3
      <4>2. name' # 0 => name' \in 1 .. Len(lines')
        BY <2>0, <2>2
      <4> QED BY <1>0, <2>0, <2>3, <4>1, <4>2
    <3>2. i \in archive \cup ({name} \ {0}) \/ i > Len(lines)
      BY <1>0, <1>1, <2>3 DEF Moves
    <3>3. i <= Len(lines) => Rising(lines[i], num)
      BY <1>0, <3>1, <3>2 DEF Ordered
    <3> QED BY <1>1, <3>1, <3>3 DEF Grows
  <2>4. Writing' => \A r \in Held(lines', name') : num'[r] < seq'
    BY <1>1, <2>1, <2>2 DEF Ordered
  <2>5. \A i \in Live' : \A r \in Held(lines', i) : r > base' => num'[r] <= seq'
    BY <1>1, <2>1, <2>2
  <2>6. handle' # 0 /\ name' \notin {0, handle'} => Held(lines', name') = {}
    <3>1. CASE name' = name
      BY <1>1, <2>1, <2>2, <3>1 DEF Moves, Ordered
    <3>2. CASE name' # name
      BY <2>1, <2>2, <3>2
    <3> QED BY <3>1, <3>2
  <2> QED BY <1>1, <2>3, <2>4, <2>5, <2>6 DEF Ordered
<1>2. CASE QuietStep
  <2>1. Grows(0, Broken) /\ Moves /\ num' = num
    BY <1>2, QuietEffect
  <2>2. \A i \in 0 .. Len(lines') : Held(lines', i) = Held(lines, i)
    BY <2>1, HeldGrows
  <2>3. /\ \A i \in Live' : i \in 0 .. Len(lines') /\ (i \in Live \/ Held(lines, i) = {})
        /\ name' # name => Held(lines, name') = {}
        /\ name' \in 0 .. Len(lines')
    BY <2>1, LiveBefore
  <2>4. \/ archive' = archive
        \/ archive' = archive \cup {name} /\ name # 0
    BY <1>2 DEF QuietStep, RotateSkip, RotateFails, RotateDone, RecreateOpenFails, RecreateOpen,
       RecreateTailFails, TickLeaves, LineHalf, LineFails, CloseFails, RestFails, RetryFails,
       AppendBegin, AppendPending, Tick, Reset, ResetFails, Close, Elapse, Unlink, Replace, Crash,
       Restart, NotWritten, ArchiveName
  <2>5. CASE ~Reset /\ ~Restart
    <3>1. seq' = seq /\ base' = base
      BY <1>2, <2>5 DEF QuietStep, RotateSkip, RotateFails, RotateDone, RecreateOpenFails, RecreateOpen,
         RecreateTailFails, TickLeaves, LineHalf, LineFails, CloseFails, RestFails, RetryFails,
         AppendBegin, AppendPending, Tick, ResetFails, Close, Elapse, Unlink, Replace, Crash,
         NotWritten
    <3>2. Writing' => Writing
      BY <1>2, <2>5 DEF QuietStep, RotateSkip, RotateFails, RotateDone, RecreateOpenFails, RecreateOpen,
         RecreateTailFails, TickLeaves, LineHalf, LineFails, CloseFails, RestFails, RetryFails,
         AppendBegin, AppendPending, Tick, ResetFails, Close, Elapse, Unlink, Replace, Crash,
         NotWritten, Writing, AfterRotate
    <3>3. NameBelow'
      <4>1. \A r \in Held(lines', name') : num[r] <= seq
        BY <2>2, <2>3 DEF Ordered, NameBelow
      <4> QED BY <2>1, <3>1, <4>1 DEF NameBelow
    <3>4. \A i \in Live' : \A r \in Held(lines, i) : r > base' => num[r] <= seq'
      BY <2>3, <3>1 DEF Ordered
    <3> QED BY <1>1, <2>1, <2>4, <3>1, <3>2, <3>3, <3>4
  <2>6. CASE Reset
    <3>1. Held(lines', name') = {}
      <4>1. CASE name' = 0
        BY <4>1 DEF Held
      <4>2. CASE name' # 0
        <5>1. name' = name /\ ~(Size(name) > 0) /\ lines' = lines
          BY <2>6, <4>2 DEF Reset, ArchiveName
        <5>2. lines[name] \in Seq(0 .. Id)
          BY <4>2, <5>1 DEF Shape
        <5>3. Len(lines[name]) \in Nat
          BY <5>2
        <5>4. Len(lines[name]) = 0
          <6>1. ~(Len(lines[name]) + (IF tail[name] = Clean THEN 0 ELSE 1) > 0)
            BY <5>1 DEF Size
          <6>2. \A n \in Nat : ~(n + (IF tail[name] = Clean THEN 0 ELSE 1) > 0) => n = 0
            OBVIOUS
          <6> QED BY <5>3, <6>1, <6>2
        <5>5. lines[name] = <<>>
          BY <5>2, <5>4
        <5> QED BY <5>1, <5>5 DEF Held, Records
      <4> QED BY <4>1, <4>2
    <3>2. seq' = 0 /\ base' = Id /\ ~Writing'
      BY <2>6 DEF Reset, Id, Writing
    <3>3. NameBelow'
      BY <3>1 DEF NameBelow
    <3>4. \A i \in Live' : \A r \in Held(lines, i) : r > base' => num[r] <= seq'
      BY <1>0, <3>2, HeldIds
    <3> QED BY <1>1, <2>1, <2>4, <3>2, <3>3, <3>4
  <2>7. CASE Restart
    <3>1. seq' = Loaded /\ ~Writing' /\ work' = name /\ name' = name /\ handle' = 0 /\ lines' = lines
      BY <2>7 DEF Restart, Writing
    <3>2. \A r \in Held(lines, name) : num[r] <= seq'
      BY <1>0, <3>1, LoadedIsLargest DEF Ordered
    <3>3. NameBelow'
      BY <2>1, <3>1, <3>2 DEF NameBelow
    <3>4. \A i \in Live' : \A r \in Held(lines, i) : r > base' => num[r] <= seq'
      BY <3>1, <3>2 DEF Live, Held
    <3> QED BY <1>1, <2>1, <2>4, <3>1, <3>3, <3>4
  <2> QED BY <2>5, <2>6, <2>7
<1>3. CASE RecordStep
  <2>1. /\ UNCHANGED <<lines, tail, name, handle, work, archive>>
        /\ seq' = seq + 1
    BY <1>3, RecordEffect
  <2>2. base' = base
    BY <1>3 DEF RecordStep, AppendClosed, RecreateRefused, NewLine
  <2>3. /\ \A i : \A r \in Held(lines, i) : num'[r] = num[r] /\ num[r] \in Nat
        /\ \A i \in Inode : Rising(lines[i], num) => Rising(lines[i], num')
    BY <1>0, <1>3, NumbersStay, HeldIds
  <2>4. \A i \in archive' \cup ({name'} \ {0}) : Rising(lines'[i], num')
    <3>1. archive' \cup ({name'} \ {0}) = archive \cup ({name} \ {0})
      BY <2>1
    <3>2. archive \cup ({name} \ {0}) \subseteq Inode
      BY <1>0
    <3> QED BY <2>1, <2>3, <3>1, <3>2 DEF Ordered
  <2>5. \A r \in Held(lines, name) : num'[r] < seq + 1 /\ num'[r] <= seq + 1
    BY <1>0, <2>3 DEF Ordered, NameBelow
  <2>6. \A i \in Live : \A r \in Held(lines, i) : r > base => num'[r] <= seq + 1
    BY <1>0, <2>3 DEF Ordered
  <2>7. handle' # 0 /\ name' \notin {0, handle'} => Held(lines', name') = {}
    BY <2>1 DEF Ordered
  <2> QED BY <2>1, <2>2, <2>4, <2>5, <2>6, <2>7 DEF Ordered, NameBelow, Live
<1>4. CASE WriteStep
  <2>0. Writing /\ ~Writing' /\ UNCHANGED <<seq, base, archive>>
    BY <1>4 DEF WriteStep, LineOk, RestOk, RetryOk, Writing, Written
  <2>1. Id # 0 /\ (pc = "rest" => handle # 0) /\ num[Id] = seq
    BY <2>0 DEF Control, LastRecord
  <2>2. /\ Moves /\ num' = num /\ handle' # 0
        /\ handle' = handle \/ (handle = 0 /\ handle' = name')
    BY <1>4, <2>1, WriteEffect
  <2>3. PICK x \in {Broken, Id} : Grows(handle', x)
    BY <1>4, <2>1, WriteEffect
  <2>4. \A i \in 0 .. Len(lines') :
          Held(lines', i) = Held(lines, i) \cup (IF i = handle' THEN {x} \ {Broken} ELSE {})
    BY <2>2, <2>3, HeldGrows
  <2>5. /\ \A i \in Live' : i \in 0 .. Len(lines') /\ (i \in Live \/ Held(lines, i) = {})
        /\ name' # name => Held(lines, name') = {}
        /\ name' \in 0 .. Len(lines')
    BY <2>2, <2>3, LiveBefore
  <2>6. \A i \in 0 .. Len(lines') : Held(lines', i) \subseteq Held(lines, i) \cup {Id}
    BY <2>4
  <2>7. ASSUME NEW i \in archive' \cup ({name'} \ {0})
        PROVE  Rising(lines'[i], num')
    <3>0. Len(lines') \in Nat /\ Len(lines) <= Len(lines')
      BY <2>3 DEF Grows
    <3>1. i \in 1 .. Len(lines')
      BY <1>0, <2>0, <2>5, <2>7, <3>0
    <3>2. i \in archive \cup ({name} \ {0}) \/ i > Len(lines)
      BY <1>0, <2>0, <2>2, <2>7 DEF Moves
    <3>3. i <= Len(lines) => Rising(lines[i], num)
      BY <1>0, <3>1, <3>2 DEF Ordered
    <3>4. i = handle' => i = name'
      BY <1>0, <2>0, <2>2, <2>7 DEF Archived
    <3>5. i = handle' => \A q \in Held(lines, i) : num[q] < seq
      BY <2>0, <2>5, <3>4 DEF Ordered
    <3> QED BY <2>1, <2>2, <2>3, <3>1, <3>3, <3>5 DEF Grows
  <2>8. NameBelow'
    <3>1. \A r \in Held(lines, name') : num[r] <= seq
      BY <2>5 DEF Ordered, NameBelow
    <3>2. \A r \in Held(lines', name') : num[r] <= seq
      BY <1>0, <2>1, <2>5, <2>6, <3>1
    <3> QED BY <2>0, <2>2, <3>2 DEF NameBelow
  <2>9. \A i \in Live' : \A r \in Held(lines', i) : r > base' => num'[r] <= seq'
    <3>1. \A i \in Live' : \A r \in Held(lines, i) : r > base => num[r] <= seq
      BY <2>5 DEF Ordered
    <3> QED BY <1>0, <2>0, <2>1, <2>2, <2>5, <2>6, <3>1
  <2>10. handle' # 0 /\ name' \notin {0, handle'} => Held(lines', name') = {}
    <3>1. CASE name' = name
      BY <2>2, <2>4, <2>5, <3>1 DEF Ordered
    <3>2. CASE name' # name
      BY <2>4, <2>5, <3>2
    <3> QED BY <3>1, <3>2
  <2> QED BY <2>0, <2>7, <2>8, <2>9, <2>10 DEF Ordered
<1> QED BY <1>2, <1>3, <1>4, NextCases

\* The first line of the current file has the smallest number in it.
LEMMA FirstLoadedIsSmallest ==
  ASSUME Shape, seq \in Nat, Ordered
  PROVE  /\ FirstLoaded > 0 => \A r \in Held(lines, name) : FirstLoaded <= num[r]
         /\ FirstLoaded <= seq
<1>0. FirstLoaded \in Nat
  BY FirstLoadedIsNumber
<1>1. CASE name # 0 /\ lines[name] # <<>> /\ lines[name][1] # Broken
  <2> DEFINE s == lines[name]
  <2>1. /\ s \in Seq(0 .. Id) /\ Id \in Nat /\ name \in 1 .. Len(lines)
        /\ Held(lines, name) = Records(s)
    BY <1>1 DEF Shape, Id, Held
  <2>2. Len(s) \in Nat /\ Len(s) # 0
    <3>1. ASSUME NEW S, NEW q \in Seq(S), q # <<>>
          PROVE  Len(q) \in Nat /\ Len(q) # 0
      BY <3>1
    <3> QED BY <1>1, <2>1, <3>1
  <2>3. DOMAIN s = 1 .. Len(s) /\ 1 \in DOMAIN s
    BY <2>1, <2>2
  <2>4. s[1] \in Records(s)
    BY <1>1, <2>3 DEF Records
  <2>5. Rising(s, num)
    BY <1>1 DEF Ordered
  <2>6. ASSUME NEW r \in Records(s)
        PROVE  num[s[1]] <= num[r]
    <3>1. PICK j \in DOMAIN s : s[j] = r /\ r # Broken
      BY <2>6 DEF Records
    <3>2. num[r] \in Nat /\ num[s[1]] \in Nat
      BY <2>1, <2>4, <2>6, HeldIds
    <3>3. CASE j = 1
      BY <3>1, <3>2, <3>3
    <3>4. CASE j # 1
      <4>1. 1 < j
        BY <2>2, <2>3, <3>1, <3>4
      <4>2. num[s[1]] < num[s[j]]
        BY <1>1, <2>3, <2>5, <3>1, <4>1 DEF Rising
      <4> QED BY <3>1, <3>2, <4>2
    <3> QED BY <3>3, <3>4
  <2>7. FirstLoaded = num[s[1]]
    BY <1>1 DEF FirstLoaded
  <2>8. num[s[1]] <= seq
    BY <2>1, <2>4 DEF Ordered, NameBelow
  <2> QED BY <2>1, <2>6, <2>7, <2>8
<1>2. CASE ~(name # 0 /\ lines[name] # <<>> /\ lines[name][1] # Broken)
  BY <1>2 DEF FirstLoaded
<1> QED BY <1>1, <1>2

LEMMA RangesKept ==
  ASSUME Shape, Fields, Control, LastRecord, Archived, Ordered, Ranges, Fresh, Next
  PROVE  Ranges'
<1> USE DEF files, writer, recovery, control, ledger, bounds
<1>0. /\ Id \in Nat /\ seq \in Nat /\ base \in 0 .. Id /\ first \in Nat /\ pendFirst \in Nat
  BY DEF Shape, Id, Fields
<1>1. CASE QuietStep
  <2>1. Grows(0, Broken) /\ Moves /\ num' = num
    BY <1>1, QuietEffect
  <2>2. \A i \in 0 .. Len(lines') : Held(lines', i) = Held(lines, i)
    BY <2>1, HeldGrows
  <2>3. /\ \A i \in Live' : i \in 0 .. Len(lines') /\ (i \in Live \/ Held(lines, i) = {})
        /\ name' # name => Held(lines, name') = {}
        /\ name' \in 0 .. Len(lines')
    BY <2>1, LiveBefore
  <2>4. \A i \in Live' : Held(lines', i) = Held(lines, i)
    BY <2>2, <2>3
  <2>5. CASE /\ Floor' = Floor /\ UNCHANGED <<first, firstPending, seq, base, early>>
             /\ Writing' => Writing
    BY <2>1, <2>3, <2>4, <2>5 DEF Ranges
  <2>6. CASE /\ \A i \in Live' : \A r \in Held(lines, i) : ~(r > base')
             /\ ~firstPending' /\ ~Writing' /\ first' <= seq' + 1
    BY <2>4, <2>6 DEF Ranges
  <2>7. CASE ~RotateDone /\ ~Reset /\ ~ResetFails /\ ~Restart
    <3>1. UNCHANGED <<first, firstPending, seq, base, early>>
      BY <1>1, <2>7 DEF QuietStep, RotateSkip, RotateFails, RecreateOpenFails, RecreateOpen,
         RecreateTailFails, TickLeaves, LineHalf, LineFails, CloseFails, RestFails, RetryFails,
         AppendBegin, AppendPending, Tick, Close, Elapse, Unlink, Replace, Crash, NotWritten
    <3>2. Writing' => Writing
      BY <1>1, <2>7 DEF QuietStep, RotateSkip, RotateFails, RecreateOpenFails, RecreateOpen,
         RecreateTailFails, TickLeaves, LineHalf, LineFails, CloseFails, RestFails, RetryFails,
         AppendBegin, AppendPending, Tick, Close, Elapse, Unlink, Replace, Crash, NotWritten,
         Writing, AfterRotate
    <3>3. CASE AppendBegin
      <4>1. \/ pend' = pend /\ pendFirst' = pendFirst
            \/ ~pend /\ pend' = TRUE /\ pendFirst' = first
        BY <3>3 DEF AppendBegin, BeginRecreate
      <4>2. Floor' = Floor
        BY <3>1, <4>1 DEF Floor
      <4> QED BY <2>5, <3>1, <3>2, <4>2
    <3>4. CASE ~AppendBegin
      <4>1. UNCHANGED <<pend, pendFirst>>
        BY <1>1, <2>7, <3>4 DEF QuietStep, RotateSkip, RotateFails, RecreateOpenFails, RecreateOpen,
           RecreateTailFails, TickLeaves, LineHalf, LineFails, CloseFails, RestFails, RetryFails,
           AppendPending, Tick, Close, Elapse, Unlink, Replace, Crash, NotWritten
      <4>2. Floor' = Floor
        BY <3>1, <4>1 DEF Floor
      <4> QED BY <2>5, <3>1, <3>2, <4>2
    <3> QED BY <3>3, <3>4
  <2>8. CASE RotateDone \/ (ResetFails /\ ArchiveName) \/ (Reset /\ name' = 0 /\ work' = 0 /\ handle' = 0)
    <3>1. name' = 0 /\ work' = 0 /\ handle' = 0
      BY <2>8 DEF RotateDone, ResetFails, ArchiveName
    <3>2. ~firstPending' /\ ~Writing' /\ first' <= seq' + 1
      BY <1>0, <2>8 DEF RotateDone, AfterRotate, ResetFails, Reset, ArchiveName, Writing
    <3>3. \A i \in Live' : Held(lines, i) = {}
      BY <3>1 DEF Live, Held
    <3> QED BY <2>6, <3>2, <3>3
  <2>9. CASE ResetFails /\ ~ArchiveName
    <3>1. /\ UNCHANGED <<first, firstPending, seq, base, early, pend, pendFirst>>
          /\ Writing' => Writing
      BY <2>9 DEF ResetFails, Writing
    <3> QED BY <2>5, <3>1 DEF Floor
  <2>10. CASE Reset
    <3>1. base' = Id /\ ~firstPending' /\ ~Writing' /\ first' <= seq' + 1
      BY <2>10 DEF Reset, Writing, Id
    <3>2. \A i \in Live' : \A r \in Held(lines, i) : ~(r > base')
      BY <1>0, <3>1, HeldIds
    <3> QED BY <2>6, <3>1, <3>2
  <2>11. CASE Restart
    <3>1. /\ seq' = Loaded /\ first' = FirstLoaded /\ work' = name /\ name' = name /\ handle' = 0
          /\ ~pend' /\ ~Writing' /\ early' = early /\ lines' = lines
          /\ firstPending' = (name = 0 \/ Size(name) = 0)
      BY <2>11 DEF Restart, Writing
    <3>2. \A i \in Live' : Held(lines, i) = {} \/ Held(lines, i) = Held(lines, name)
      BY <3>1 DEF Live, Held
    <3>3. firstPending' => Held(lines, name) = {}
      <4>1. CASE name = 0
        BY <4>1 DEF Held
      <4>2. CASE name # 0
        <5>1. Len(lines[name]) \in Nat /\ lines[name] \in Seq(0 .. Id)
          BY <4>2 DEF Shape
        <5>2. firstPending' => Len(lines[name]) = 0
          <6>1. firstPending' => Len(lines[name]) + (IF tail[name] = Clean THEN 0 ELSE 1) = 0
            BY <3>1, <4>2 DEF Size
          <6>2. \A n \in Nat : n + (IF tail[name] = Clean THEN 0 ELSE 1) = 0 => n = 0
            OBVIOUS
          <6> QED BY <5>1, <6>1, <6>2
        <5>3. firstPending' => lines[name] = <<>>
          BY <5>1, <5>2
        <5> QED BY <5>3 DEF Held, Records
      <4> QED BY <4>1, <4>2
    <3>4. FirstLoaded > 0 => \A r \in Held(lines, name) : FirstLoaded <= num[r]
      BY <1>0, FirstLoadedIsSmallest
    <3>5. FirstLoaded <= Loaded + 1
      <4>1. CASE name # 0 /\ lines[name] # <<>> /\ lines[name][1] # Broken
        <5>1. lines[name][1] \in Held(lines, name)
          <6>1. ASSUME NEW S, NEW q \in Seq(S), q # <<>>
                PROVE  1 \in DOMAIN q
            <7>1. Len(q) \in Nat /\ Len(q) # 0
              BY <6>1
            <7> QED BY <7>1
          <6>2. name \in 1 .. Len(lines) /\ lines[name] \in Seq(0 .. Id)
            BY <4>1 DEF Shape
          <6>3. 1 \in DOMAIN lines[name]
            BY <4>1, <6>1, <6>2
          <6> QED BY <4>1, <6>2, <6>3 DEF Held, Records
        <5>2. num[lines[name][1]] <= Loaded
          BY <1>0, <5>1, LoadedIsLargest DEF Ordered
        <5>3. FirstLoaded = num[lines[name][1]] /\ FirstLoaded \in Nat /\ Loaded \in Nat
          BY <1>0, <4>1, FirstLoadedIsNumber, LoadedIsLargest DEF FirstLoaded, Ordered
        <5> QED BY <5>2, <5>3
      <4>2. CASE ~(name # 0 /\ lines[name] # <<>> /\ lines[name][1] # Broken)
        <5>1. FirstLoaded = 0 /\ Loaded \in Nat
          BY <1>0, <4>2, LoadedIsLargest DEF FirstLoaded, Ordered
        <5> QED BY <5>1
      <4> QED BY <4>1, <4>2
    <3>6. Floor' = FirstLoaded
      BY <3>1 DEF Floor
    <3>7. \A i \in Live' : Held(lines', i) = {} \/ Held(lines', i) = Held(lines, name)
      BY <2>4, <3>2
    <3> QED BY <2>1, <3>1, <3>3, <3>4, <3>5, <3>6, <3>7 DEF Ranges
  <2> QED BY <2>7, <2>8, <2>9, <2>10, <2>11
<1>2. CASE RecordStep
  <2>1. /\ UNCHANGED <<lines, tail, name, handle, work, archive>>
        /\ seq' = seq + 1
    BY <1>2, RecordEffect
  <2>2. /\ UNCHANGED <<base, first, firstPending, pend, pendFirst, early>>
    BY <1>2 DEF RecordStep, AppendClosed, RecreateRefused, NewLine
  <2>3. \A i : \A r \in Held(lines, i) : num'[r] = num[r]
    BY <1>0, <1>2, NumbersStay
  <2>4. Floor' = Floor /\ Live' = Live
    BY <2>1, <2>2 DEF Floor, Live
  <2>5. first <= seq + 1
    BY DEF Ranges
  <2>6. first' <= seq' + 1 /\ first' <= seq'
    BY <1>0, <2>1, <2>2, <2>5
  <2>7. Floor > 0 => \A i \in Live : \A r \in Held(lines, i) \ early : r > base => Floor <= num'[r]
    BY <2>3 DEF Ranges
  <2>8. firstPending => \A i \in Live : Held(lines, i) = {}
    BY DEF Ranges
  <2> QED BY <2>1, <2>2, <2>4, <2>6, <2>7, <2>8 DEF Ranges
<1>3. CASE WriteStep
  <2>0. /\ Writing /\ Writes /\ ~Writing' /\ UNCHANGED <<seq, base, archive>> /\ Written
    BY <1>3 DEF WriteStep, LineOk, RestOk, RetryOk, Writing, Writes, Written
  <2>1. Id # 0 /\ (pc = "rest" => handle # 0) /\ num[Id] = seq /\ first <= seq
    BY <2>0 DEF Control, LastRecord, Ranges
  <2>2. /\ Moves /\ num' = num /\ handle' # 0
    BY <1>3, <2>1, WriteEffect
  <2>3. PICK x \in {Broken, Id} : Grows(handle', x)
    BY <1>3, <2>1, WriteEffect
  <2>4. \A i \in 0 .. Len(lines') :
          Held(lines', i) = Held(lines, i) \cup (IF i = handle' THEN {x} \ {Broken} ELSE {})
    BY <2>2, <2>3, HeldGrows
  <2>5. \A i \in Live' : i \in 0 .. Len(lines') /\ (i \in Live \/ Held(lines, i) = {})
    BY <2>2, <2>3, LiveBefore
  <2>6. \A i \in Live' : Held(lines', i) \subseteq Held(lines, i) \cup {Id}
    BY <2>4, <2>5
  <2>7. ~firstPending' /\ first' <= seq' + 1
    <3>1. ~firstPending' /\ (first' = num[Id] \/ first' = first)
      BY <2>0 DEF Written
    <3> QED BY <1>0, <2>0, <2>1, <3>1
  <2>8. ASSUME Floor' = seq \/ (Floor' <= seq /\ Floor' = Floor),
               Floor' = Floor \/ \A i \in Live : Held(lines, i) \subseteq early,
               early \subseteq early'
        PROVE  Ranges'
    <3>1. ASSUME NEW i \in Live', NEW r \in Held(lines', i) \ early', r > base, Floor' > 0
          PROVE  Floor' <= num[r]
      <4>1. CASE r = Id
        BY <1>0, <2>1, <2>8, <4>1
      <4>2. CASE r # Id
        <5>1. r \in Held(lines, i) \ early /\ i \in Live
          BY <2>5, <2>6, <2>8, <3>1, <4>2
        <5> QED BY <2>8, <3>1, <5>1 DEF Ranges
      <4> QED BY <4>1, <4>2
    <3> QED BY <2>0, <2>2, <2>7, <3>1 DEF Ranges
  <2>9. CASE role = "write"
    <3>1. ~pend /\ pend' = pend /\ early \subseteq early'
      BY <2>0, <2>9 DEF Control, Written
    <3>2. first' = (IF firstPending THEN num[Id] ELSE first)
      BY <2>0, <2>9 DEF Written
    <3>3. Floor = first /\ Floor' = first'
      BY <3>1 DEF Floor
    <3>4. firstPending => \A i \in Live : Held(lines, i) \subseteq early
      BY DEF Ranges
    <3> QED BY <2>1, <2>8, <3>1, <3>2, <3>3, <3>4
  <2>10. CASE role = "meta"
    <3>1. pend' = FALSE /\ first' = num[Id] /\ early \subseteq early'
      BY <2>0, <2>10 DEF Written
    <3>2. \A i \in Live : Held(lines, i) \subseteq early
      BY <2>0, <2>10 DEF Fresh
    <3> QED BY <2>1, <2>8, <3>1, <3>2 DEF Floor
  <2>11. CASE role = "cont" /\ ~pend
    <3>1. pend' = pend /\ first' = num[Id] /\ early \subseteq early'
      BY <2>0, <2>11 DEF Written
    <3>2. \A i \in Live : Held(lines, i) \subseteq early
      BY <2>0, <2>11 DEF Fresh
    <3> QED BY <2>1, <2>8, <2>11, <3>1, <3>2 DEF Floor
  <2>12. CASE role = "cont" /\ pend
    <3>1. pend' = pend /\ pendFirst' = pendFirst /\ early' = early \cup {Id}
      BY <2>0, <2>12 DEF Written
    <3>2. Floor' = Floor
      BY <2>12, <3>1 DEF Floor
    <3>3. ASSUME NEW i \in Live', NEW r \in Held(lines', i) \ early', r > base, Floor' > 0
          PROVE  Floor' <= num[r]
      <4>1. r \in Held(lines, i) \ early /\ i \in Live
        BY <2>5, <2>6, <3>1, <3>3
      <4> QED BY <3>2, <3>3, <4>1 DEF Ranges
    <3> QED BY <2>0, <2>2, <2>7, <3>3 DEF Ranges
  <2> QED BY <2>9, <2>10, <2>11, <2>12 DEF Fields
<1> QED BY <1>1, <1>2, <1>3, NextCases

LEMMA FreshKept ==
  ASSUME Shape, Fields, Control, LastRecord, Archived, Ordered, Ranges, Fresh, Next
  PROVE  Fresh'
<1> USE DEF files, writer, recovery, control, ledger, bounds
<1>1. CASE QuietStep
  <2>1. Grows(0, Broken) /\ Moves /\ num' = num
    BY <1>1, QuietEffect
  <2>2. \A i \in 0 .. Len(lines') : Held(lines', i) = Held(lines, i)
    BY <2>1, HeldGrows
  <2>3. /\ \A i \in Live' : i \in 0 .. Len(lines') /\ (i \in Live \/ Held(lines, i) = {})
        /\ name' # name => Held(lines, name') = {}
        /\ name' \in 0 .. Len(lines')
    BY <2>1, LiveBefore
  <2>4. \A i \in Live' : Held(lines', i) = Held(lines, i)
    BY <2>2, <2>3
  <2>5. early' = early
    BY <1>1 DEF QuietStep, RotateSkip, RotateFails, RotateDone, RecreateOpenFails, RecreateOpen,
       RecreateTailFails, TickLeaves, LineHalf, LineFails, CloseFails, RestFails, RetryFails,
       AppendBegin, AppendPending, Tick, Reset, ResetFails, Close, Elapse, Unlink, Replace, Crash,
       Restart
  <2>6. ASSUME pend'
        PROVE  Held(lines', name') \subseteq early'
    <3>1. CASE AppendBegin /\ ~pend
      <4>1. name' = name /\ (name = 0 \/ (handle # 0 /\ name # handle))
        BY <2>6, <3>1 DEF AppendBegin, BeginRecreate
      <4>2. Held(lines, name) = {}
        BY <4>1 DEF Held, Ordered
      <4> QED BY <2>2, <2>3, <4>1, <4>2
    <3>2. CASE ~(AppendBegin /\ ~pend)
      <4>1. pend
        BY <1>1, <2>6, <3>2 DEF QuietStep, RotateSkip, RotateFails, RotateDone, RecreateOpenFails,
           RecreateOpen, RecreateTailFails, TickLeaves, LineHalf, LineFails, CloseFails, RestFails,
           RetryFails, AppendBegin, AppendPending, Tick, Reset, ResetFails, Close, Elapse, Unlink,
           Replace, Crash, Restart, NotWritten
      <4>2. Held(lines, name') \subseteq early
        BY <2>3, <4>1 DEF Fresh
      <4> QED BY <2>2, <2>3, <2>5, <4>2
    <3> QED BY <3>1, <3>2
  <2>7. ASSUME role' \in {"meta", "cont"}, Writes'
        PROVE  \A i \in Live' : Held(lines', i) \subseteq early'
    <3>1. CASE RecreateOpen
      <4>1. pend /\ name' = Opened /\ work' = Opened /\ handle' = Opened
        BY <3>1 DEF RecreateOpen, Control
      <4>2. Held(lines, name') \subseteq early
        BY <2>3, <4>1 DEF Fresh
      <4> QED BY <2>4, <2>5, <4>1, <4>2 DEF Live
    <3>2. CASE RotateDone
      <4>1. name' = 0 /\ work' = 0 /\ handle' = 0
        BY <3>2 DEF RotateDone, ArchiveName
      <4> QED BY <2>4, <4>1 DEF Live, Held
    <3>3. CASE ~RecreateOpen /\ ~RotateDone
      <4>1. role = "meta" => Writes
        BY DEF Control
      <4>2. ASSUME RotateSkip \/ RotateFails
            PROVE  role \in {"meta", "cont"} /\ Writes
        BY <2>7, <4>1, <4>2 DEF RotateSkip, RotateFails, AfterRotate, Writes
      <4>3. ASSUME ~RotateSkip /\ ~RotateFails
            PROVE  role \in {"meta", "cont"} /\ Writes
        BY <1>1, <2>7, <3>3, <4>3 DEF QuietStep, RecreateOpenFails, RecreateTailFails, TickLeaves,
           LineHalf, LineFails, CloseFails, RestFails, RetryFails, AppendBegin, AppendPending, Tick,
           Reset, ResetFails, Close, Elapse, Unlink, Replace, Crash, Restart, NotWritten, Writes
      <4>4. role \in {"meta", "cont"} /\ Writes
        BY <4>2, <4>3
      <4> QED BY <2>3, <2>4, <2>5, <4>4 DEF Fresh
    <3> QED BY <3>1, <3>2, <3>3
  <2> QED BY <2>6, <2>7 DEF Fresh
<1>2. CASE RecordStep
  <2>1. UNCHANGED <<lines, tail, name, handle, work, archive>>
    BY <1>2, RecordEffect
  <2>2. UNCHANGED <<pend, early>> /\ role' = role
    BY <1>2 DEF RecordStep, AppendClosed, RecreateRefused, NewLine
  <2>3. Writes' => Writes
    BY <1>2 DEF RecordStep, AppendClosed, RecreateRefused, NewLine, Writes
  <2> QED BY <2>1, <2>2, <2>3 DEF Fresh, Live
<1>3. CASE WriteStep
  <2>0. Writing /\ Writes /\ Written
    BY <1>3 DEF WriteStep, LineOk, RestOk, RetryOk, Writing, Writes, Written
  <2>1. Id # 0 /\ (pc = "rest" => handle # 0)
    BY <2>0 DEF Control
  <2>2. /\ Moves /\ num' = num /\ handle' # 0
    BY <1>3, <2>1, WriteEffect
  <2>3. PICK x \in {Broken, Id} : Grows(handle', x)
    BY <1>3, <2>1, WriteEffect
  <2>4. \A i \in 0 .. Len(lines') :
          Held(lines', i) = Held(lines, i) \cup (IF i = handle' THEN {x} \ {Broken} ELSE {})
    BY <2>2, <2>3, HeldGrows
  <2>5. /\ name' # name => Held(lines, name') = {}
        /\ name' \in 0 .. Len(lines')
    BY <2>2, <2>3, LiveBefore
  <2>6. Held(lines', name') \subseteq Held(lines, name') \cup {Id}
    BY <2>4, <2>5
  <2>7. ~(role' \in {"meta", "cont"} /\ Writes')
    BY <2>0 DEF Written, Writes
  <2>8. ASSUME pend'
        PROVE  Held(lines', name') \subseteq early'
    <3>1. pend /\ role = "cont"
      BY <2>0, <2>8 DEF Written, Control, Fields
    <3>2. early' = early \cup {Id}
      BY <2>0, <3>1 DEF Written
    <3>3. Held(lines, name') \subseteq early
      BY <2>5, <3>1 DEF Fresh
    <3> QED BY <2>6, <3>2, <3>3
  <2> QED BY <2>7, <2>8 DEF Fresh
<1> QED BY <1>1, <1>2, <1>3, NextCases

------------------------------------------------------------------------------
(* The invariant of the writer                                             *)

\* What every step keeps; the parts are stated where they are proved.
Inv == /\ Shape /\ Fields /\ Control /\ LastRecord /\ Archived /\ Budget
       /\ LossKnown /\ Ordered /\ Ranges /\ Fresh

LEMMA InvAtStart ==
  ASSUME Init
  PROVE  Inv
<1>1. /\ lines = <<>> /\ tail = <<>> /\ num = <<>> /\ answer = <<>> /\ Len(lines) = 0 /\ Id = 0
      /\ name = 0 /\ handle = 0 /\ work = 0 /\ archive = {} /\ early = {} /\ reported = {}
  BY DEF Init, Id
<1>2. Shape
  <2>1. \A S : <<>> \in Seq(S)
    OBVIOUS
  <2>2. lines \in Seq(Seq(0 .. Id)) /\ tail \in Seq(Foreign .. Id) /\ num \in Seq(Nat)
    BY <1>1, <2>1
  <2>3. Len(tail) = Len(lines)
    BY <1>1
  <2>4. name \in 0 .. Len(lines) /\ handle \in 0 .. Len(lines) /\ work \in 0 .. Len(lines)
    <3>1. 0 \in 0 .. 0
      OBVIOUS
    <3> QED BY <1>1, <3>1
  <2> QED BY <2>2, <2>3, <2>4 DEF Shape
<1>3. Fields
  <2>1. answer \in Seq({"open", "ok", "loss"}) /\ Len(answer) = Id
    <3>1. \A S : <<>> \in Seq(S)
      OBVIOUS
    <3> QED BY <1>1, <3>1
  <2>2. base \in 0 .. Id /\ rotFails \in 0 .. Backoffs + 1
    BY <1>1 DEF Init, Backoffs
  <2>3. seq \in Nat /\ first \in Nat /\ pendFirst \in Nat
    BY DEF Init
  <2> QED BY <1>1, <2>1, <2>2, <2>3 DEF Init, Fields
<1>4. Control
  BY <1>1 DEF Init, Control, Writes, Writing
<1>5. LastRecord /\ ~Writing
  BY <1>1 DEF Init, LastRecord, Writing
<1>6. Archived
  BY <1>1 DEF Archived
<1>7. Budget
  <2>1. Owed = 0 /\ PutOff = 0 /\ calls = 0 /\ faults = 0
    BY <1>5 DEF Init, Owed, PutOff, Writing
  <2>2. MaxCalls \in Nat /\ MaxFaults \in Nat
    BY WalAssumption
  <2> QED BY <1>1, <2>1, <2>2 DEF Budget
<1>8. LossKnown
  BY DEF Init, LossKnown
<1>9. Live = {0} /\ Held(lines, 0) = {}
  BY <1>1 DEF Live, Held
<1>10. Ordered
  BY <1>1, <1>5, <1>9 DEF Ordered, NameBelow
<1>11. Ranges
  BY <1>5, <1>9 DEF Init, Ranges
<1>12. Fresh
  BY <1>1, <1>9 DEF Init, Fresh
<1> QED BY <1>2, <1>3, <1>4, <1>5, <1>6, <1>7, <1>8, <1>10, <1>11, <1>12 DEF Inv

LEMMA InvKept ==
  ASSUME Inv, [Next]_vars
  PROVE  Inv'
<1>1. CASE Next
  <2>0. /\ Shape /\ Fields /\ Control /\ LastRecord /\ Archived /\ Budget
        /\ LossKnown /\ Ordered /\ Ranges /\ Fresh
    BY DEF Inv
  <2>1. Shape'
    BY <1>1, <2>0, ShapeKept DEF WriteStep, LineOk, RestOk, RetryOk, Fields, Control, Writing
  <2>2. Fields'
    BY <1>1, <2>0, FieldsKept DEF Ordered
  <2>3. Control' /\ LastRecord' /\ Archived'
    BY <1>1, <2>0, ControlKept, LastRecordKept, ArchivedKept
  <2>4. Budget' /\ LossKnown'
    BY <1>1, <2>0, BudgetKept, LossKnownKept
  <2>5. Ordered' /\ Ranges' /\ Fresh'
    BY <1>1, <2>0, OrderedKept, RangesKept, FreshKept
  <2> QED BY <2>1, <2>2, <2>3, <2>4, <2>5 DEF Inv
<1>2. CASE UNCHANGED vars
  <2> USE DEF vars
  <2>1. Shape' /\ Fields' /\ Archived'
    BY <1>2 DEF Inv, Shape, Fields, Archived, Id, Ids, Inode
  <2>2. Control' /\ LastRecord'
    BY <1>2 DEF Inv, Control, LastRecord, Id, Writing, Writes
  <2>3. Budget' /\ LossKnown'
    BY <1>2 DEF Inv, Budget, LossKnown, Id, Writing, Owed, PutOff, EarlyLast
  <2>4. \A i : Held(lines', i) = Held(lines, i)
    BY <1>2
  <2>5. Live' = Live /\ Floor' = Floor /\ (Writing' <=> Writing) /\ (Writes' <=> Writes)
    BY <1>2 DEF Live, Floor, Writing, Writes
  <2>6. Ordered'
    BY <1>2, <2>4, <2>5 DEF Inv, Ordered, NameBelow
  <2>7. Ranges' /\ Fresh'
    BY <1>2, <2>4, <2>5 DEF Inv, Ranges, Fresh
  <2> QED BY <2>1, <2>2, <2>3, <2>6, <2>7 DEF Inv
<1> QED BY <1>1, <1>2

\* Whatever is appended, rotated, reset, torn, taken away from outside or
\* killed, the writer's fields and the files stay as Inv describes them.
THEOREM WalInvariant == Spec => []Inv
<1>1. Init => Inv
  BY InvAtStart
<1>2. Inv /\ [Next]_vars => Inv'
  BY InvKept
<1> QED
  BY <1>1, <1>2, PTL DEF Spec

\* The types TLC checks follow from what every step keeps.
LEMMA InvTypes ==
  ASSUME Inv
  PROVE  TypeOK
<1>1. /\ lines \in Seq(Seq(0 .. Id)) /\ Len(tail) = Len(lines)
      /\ name \in 0 .. Len(lines) /\ handle \in 0 .. Len(lines) /\ work \in 0 .. Len(lines)
      /\ num \in Seq(Nat)
  BY DEF Inv, Shape
<1>2. \A i \in Inode : tail[i] \in Foreign .. Id
  <2>1. ASSUME NEW S, NEW s \in Seq(S), NEW i \in 1 .. Len(s)
        PROVE  s[i] \in S
    BY <2>1
  <2>2. tail \in Seq(Foreign .. Id) /\ Inode = 1 .. Len(tail)
    BY DEF Inv, Shape, Inode
  <2> QED BY <2>1, <2>2
<1>3. archive \subseteq Inode \ {name}
  BY DEF Inv, Archived
<1>4. Id <= MaxRecords
  <2>1. /\ Id \in Nat /\ calls \in 0 .. MaxCalls /\ faults \in 0 .. MaxFaults
        /\ MaxCalls \in Nat /\ MaxFaults \in Nat /\ Id + Owed + PutOff <= 2 * calls + faults
    BY WalAssumption DEF Inv, Budget, Shape, Id
  <2>2. Owed \in Nat /\ PutOff \in Nat
    BY DEF Owed, PutOff
  <2> QED BY <2>1, <2>2 DEF MaxRecords
<1>5. Len(answer) = Id /\ Range(answer) \subseteq {"open", "ok", "loss"}
  <2>1. answer \in Seq({"open", "ok", "loss"}) /\ Len(answer) = Id
    BY DEF Inv, Fields
  <2>2. ASSUME NEW S, NEW s \in Seq(S)
        PROVE  Range(s) \subseteq S
    BY <2>2 DEF Range
  <2> QED BY <2>1, <2>2
<1>6. base \in 0 .. Id /\ {reported, early} \subseteq SUBSET Ids
  BY DEF Inv, Fields
<1>7. {seq, first, pendFirst} \subseteq Nat /\ rotFails \in 0 .. Backoffs + 1
  BY DEF Inv, Fields
<1>8. /\ waits \subseteq {"identity", "rotate", "recreate"}
      /\ pc \in {"idle", "rotate", "recreate", "write", "line", "rest", "retry"}
      /\ role \in {"write", "meta", "cont"}
      /\ {up, closed, dirty, expected, firstPending, pend, unhealthy, big, lastLost} \subseteq BOOLEAN
  BY DEF Inv, Fields
<1> QED BY <1>1, <1>2, <1>3, <1>4, <1>5, <1>6, <1>7, <1>8 DEF TypeOK

\* WalWriter's fields and the files keep their types, and no more records are
\* created than the appends, the METAs and the retries of failed ones can make.
THEOREM TypesHold == Spec => []TypeOK
BY WalInvariant, InvTypes, PTL

\* In every file of the log the seqs rise from line to line, and the range a
\* META would announce as potentially lost covers the file it is about: what
\* _load_last_seq, _new_record_locked, reset and _file_first_seq keep between
\* them, whatever fails.
THEOREM SeqsRise == Spec => []FileSeqsIncrease
<1>1. ASSUME Inv PROVE FileSeqsIncrease
  <2>1. \A i \in archive \cup ({name} \ {0}) : \A j, k \in DOMAIN lines[i] :
          j < k /\ lines[i][j] # Broken /\ lines[i][k] # Broken
            => num[lines[i][j]] < num[lines[i][k]]
    BY <1>1 DEF Inv, Ordered, Rising
  <2>2. ASSUME work # 0, Floor \in 1 .. seq, NEW r \in Readable(work) \ early, r > base
        PROVE  num[r] \in Floor .. seq
    <3>1. work \in Inode /\ work \in 1 .. Len(lines) /\ work \in Live
      BY <1>1, <2>2 DEF Inv, Shape, Inode, Live
    <3>2. r \in Held(lines, work) /\ num[r] \in Nat
      BY <1>1, <2>2, <3>1, RecordsAreIds DEF Inv, Held
    <3>3. num[r] <= seq
      BY <1>1, <2>2, <3>1, <3>2 DEF Inv, Ordered
    <3>4. Floor <= num[r]
      BY <1>1, <2>2, <3>1, <3>2 DEF Inv, Ranges
    <3> QED BY <1>1, <2>2, <3>2, <3>3, <3>4 DEF Inv, Fields
  <2> QED BY <2>1, <2>2 DEF FileSeqsIncrease, Floor
<1> QED
  BY <1>1, WalInvariant, PTL

\* health() does not say "healthy" while the last record was answered with
\* loss_flag, but for a loss that only METAs of tick() were written before.
THEOREM LossShows == Spec => []LossShowsInHealth
<1>1. ASSUME Inv PROVE LossShowsInHealth
  BY <1>1 DEF Inv, LossKnown, LossShowsInHealth, Healthy, EarlyLast, Writing
<1> QED
  BY <1>1, WalInvariant, PTL

------------------------------------------------------------------------------
(* Why the files implement the audit log: a record answered as written     *)
(* stays readable unless somebody outside takes the file away, and only    *)
(* then may a record be lost untold.  The tail of the current file first.  *)

End == IF name = 0 THEN Clean ELSE tail[name]

\* A record torn by a failed write is owed a newline: _dirty_tail, or the rest
\* of the record comes next.  A file that took the name from an open one was
\* never written to.
Torn ==
  /\ up => End \in {Clean, Foreign} \/ dirty \/ (pc = "rest" /\ handle = name)
  /\ handle \notin {0, name} => End \in {Clean, Foreign}
  /\ pc = "rest" => tail[handle] \in {Id, Foreign}

\* What Exposed says.
Naked == handle \notin {0, name} \/ End = Foreign

LEMMA ExposedIsNaked == (Exposed <=> Naked) /\ (Exposed' <=> Naked')
BY DEF Exposed, Naked, End, Clean, Foreign

\* The tails after the target of a write was opened and given the tail v.
LEMMA TargetEnd ==
  ASSUME Shape, Using, NEW v, tail' = [Tails EXCEPT ![Target] = v]
  PROVE  /\ End' = IF handle \in {0, name} THEN v ELSE End
         /\ tail'[Target] = v
         /\ IF handle = 0 THEN name' = Target /\ Target # 0 ELSE name' = name /\ Target = handle
<1>1. /\ Tails \in Seq(Foreign .. Id) /\ Target \in 1 .. Len(Tails) /\ name' = NameNow
  BY TargetIsThere DEF Using
<1>2. tail'[Target] = v /\ \A i \in 1 .. Len(Tails) : i # Target => tail'[i] = Tails[i]
  BY <1>1
<1>3. CASE handle = 0
  BY <1>1, <1>2, <1>3, TargetIsThere DEF End
<1>4. CASE handle # 0
  <2>1. Tails = tail /\ name' = name /\ Target = handle /\ name \in 0 .. Len(tail)
    BY <1>1, <1>4, TargetIsThere DEF Shape
  <2> QED BY <1>1, <1>2, <1>4, <2>1 DEF End
<1> QED BY <1>3, <1>4

LEMMA AppendedIsLast ==
  ASSUME NEW S, NEW s \in Seq(S), NEW d \in S
  PROVE  /\ Append(s, d)[Len(s) + 1] = d
         /\ \A i \in 1 .. Len(s) : Append(s, d)[i] = s[i]
OBVIOUS

LEMMA TailsEnd ==
  ASSUME Shape
  PROVE  /\ Tails[Target] = IF handle = 0 THEN End ELSE tail[handle]
         /\ OpenTails[Opened] = End
         /\ Using /\ tail' = Tails => End' = End
         /\ name' = Opened /\ tail' = OpenTails => End' = End
<1>1. OpenTails[Opened] = End /\ Opened # 0
  <2>1. Len(tail) = Len(lines) /\ Len(tail) \in Nat /\ tail \in Seq(Foreign .. Id)
        /\ Clean \in Foreign .. Id
    BY DEF Shape, Id, Clean, Foreign
  <2>2. Append(tail, Clean)[Len(tail) + 1] = Clean
    BY <2>1, AppendedIsLast
  <2> QED BY <2>1, <2>2 DEF OpenTails, Opened, End
<1>2. Tails[Target] = IF handle = 0 THEN End ELSE tail[handle]
  BY <1>1 DEF Tails, Target
<1>3. Using /\ tail' = Tails => End' = End
  BY <1>1 DEF Using, NameNow, Tails, End
<1> QED BY <1>1, <1>2, <1>3 DEF End

\* A file is torn only where _dirty_tail remembers it, and only somebody from
\* outside exposes the log.
LEMMA TornKept ==
  ASSUME Shape, Fields, Control, Torn, Next
  PROVE  Torn' /\ (Naked' => Naked \/ Unlink \/ Replace)
<1> USE DEF files, writer, recovery, control, ledger, bounds
<1>0. Id \in Nat /\ Clean = 0 /\ Foreign = -1
  BY DEF Shape, Id, Clean, Foreign
<1>1. /\ tail' = tail /\ name' = name => End' = End
      /\ name' = 0 => End' = Clean
      /\ num' = num => Id' = Id
  BY DEF End, Id
<1>2. CASE up /\ RotateSkip
  BY <1>2, <1>0, <1>1 DEF RotateSkip, AfterRotate, Torn, Naked, Control, Fields
<1>3. CASE up /\ RotateFails
  BY <1>3, <1>0, <1>1 DEF RotateFails, AfterRotate, ScheduleRotate, Fault, Fine, Backoffs, Torn,
     Naked, Control, Fields
<1>4. CASE up /\ RotateDone
  BY <1>4, <1>0, <1>1 DEF RotateDone, AfterRotate, ScheduleRotate, ArchiveName, Fault, Fine,
     Backoffs, Torn, Naked, Control, Fields
<1>5. CASE up /\ RecreateRefused
  BY <1>5, <1>0, <1>1 DEF RecreateRefused, NewRecord, Torn, Naked, Control, Fields
<1>6. CASE up /\ RecreateOpenFails
  BY <1>6, <1>0, <1>1 DEF RecreateOpenFails, ScheduleRecreate, Fault, Torn, Naked, Control,
     Fields
<1>7. CASE up /\ RecreateOpen
  <2>1. End' = Clean
    <3>1. OpenTails \in Seq(Foreign .. Id) /\ Opened \in 1 .. Len(OpenTails)
      BY OpenIsCalm
    <3> QED BY <1>7, <3>1 DEF RecreateOpen, End
  <2> QED BY <1>7, <1>0, <1>1, <2>1 DEF RecreateOpen, Torn, Naked
<1>8. CASE up /\ RecreateTailFails
  <2>1. End' = End /\ OpenTails[Opened] = End
    BY <1>8, TailsEnd DEF RecreateTailFails
  <2> QED BY <1>8, <1>0, <1>1, <2>1 DEF RecreateTailFails, ScheduleRecreate, Fault, Torn, Naked,
     Control
<1>9. CASE up /\ NewLine
  BY <1>9, <1>0, <1>1 DEF NewLine, NewRecord, Torn, Naked, Control, Fields
<1>10. CASE up /\ TickLeaves
  BY <1>10, <1>0, <1>1 DEF TickLeaves, TickFindsFile, Torn, Naked, Control, Fields
<1>11. CASE up /\ LineOk
  <2>1. /\ Using /\ tail' = [Tails EXCEPT ![Target] = Clean] /\ handle' = Target /\ ~(pc' = "rest")
    BY <1>11 DEF LineOk, RetryOk, Written
  <2>2. /\ End' = IF handle \in {0, name} THEN Clean ELSE End
        /\ IF handle = 0 THEN name' = Target ELSE name' = name /\ Target = handle
    BY <2>1, TargetEnd
  <2> QED BY <1>0, <2>1, <2>2 DEF Torn, Naked
<1>12. CASE up /\ LineHalf
  <2>1. /\ Using /\ tail' = [Tails EXCEPT ![Target] = HalfTail(TailNow, Id)] /\ handle' = Target
        /\ pc' = "rest" /\ Id' = Id
    BY <1>12, <1>1 DEF LineHalf
  <2>2. /\ End' = IF handle \in {0, name} THEN HalfTail(TailNow, Id) ELSE End
        /\ tail'[Target] = HalfTail(TailNow, Id)
        /\ IF handle = 0 THEN name' = Target ELSE name' = name /\ Target = handle
    BY <2>1, TargetEnd
  <2>3. /\ HalfTail(TailNow, Id) \in {Id, Foreign}
        /\ handle \in {0, name} /\ HalfTail(TailNow, Id) = Foreign => End = Foreign
    <3>1. handle \in {0, name} => Tails[Target] = End
      BY TailsEnd DEF End
    <3>2. up /\ pc # "rest"
      BY <1>12 DEF LineHalf, RetryFails
    <3> QED BY <1>0, <3>1, <3>2 DEF HalfTail, TailNow, Torn
  <2> QED BY <1>0, <2>1, <2>2, <2>3 DEF Torn, Naked
<1>13. CASE up /\ LineFails
  <2>0. up /\ pc # "rest"
    BY <1>13 DEF LineFails
  <2>1. ASSUME Using, tail' = Tails, handle' \in {0, Target}, UNCHANGED dirty, pc' # "rest"
        PROVE  Torn' /\ (Naked' => Naked)
    <3>1. End' = End
      BY <2>1, TailsEnd
    <3>2. IF handle = 0 THEN name' = Target ELSE name' = name /\ Target = handle
      BY <2>1, TargetIsThere DEF Using
    <3> QED BY <1>0, <2>1, <2>0, <3>1, <3>2 DEF Torn, Naked
  <2>2. ASSUME Using, tail' = [Tails EXCEPT ![Target] = Clean], handle' \in {0, Target}, pc' #
     "rest"
        PROVE  Torn' /\ (Naked' => Naked)
    <3>1. /\ End' = IF handle \in {0, name} THEN Clean ELSE End
          /\ IF handle = 0 THEN name' = Target ELSE name' = name /\ Target = handle
      BY <2>2, TargetEnd
    <3> QED BY <1>0, <2>2, <3>1 DEF Torn, Naked
  <2>3. CASE UNCHANGED <<tail, name, dirty>> /\ handle' = 0 /\ pc' # "rest"
    BY <1>0, <1>1, <2>0, <2>3 DEF Torn, Naked
  <2> QED BY <1>13, <2>1, <2>2, <2>3 DEF LineFails
<1>14. CASE up /\ CloseFails
  BY <1>14, <1>0, <1>1 DEF CloseFails, NotWritten, Fault, Torn, Naked, Control, Fields
<1>15. CASE up /\ RestOk
  <2>1. /\ tail' = [tail EXCEPT ![handle] = Clean] /\ UNCHANGED <<name, handle>> /\ handle # 0
        /\ ~(pc' = "rest")
    BY <1>15 DEF RestOk, Written, Control
  <2>2. End' = IF handle = name THEN Clean ELSE End
    BY <2>1 DEF End, Shape
  <2> QED BY <1>0, <2>1, <2>2 DEF Torn, Naked
<1>16. CASE up /\ RestFails
  BY <1>16, <1>0, <1>1 DEF RestFails, NotWritten, Closing, Fault, Torn, Naked, Control, Fields
<1>17. CASE up /\ RetryOk
  <2>1. /\ Using /\ tail' = [Tails EXCEPT ![Target] = Clean] /\ handle' = Target /\ ~(pc' = "rest")
    BY <1>17 DEF LineOk, RetryOk, Written
  <2>2. /\ End' = IF handle \in {0, name} THEN Clean ELSE End
        /\ IF handle = 0 THEN name' = Target ELSE name' = name /\ Target = handle
    BY <2>1, TargetEnd
  <2> QED BY <1>0, <2>1, <2>2 DEF Torn, Naked
<1>18. CASE up /\ RetryFails
  <2>0. up /\ pc # "rest" /\ pc' # "rest"
    BY <1>18 DEF RetryFails, NotWritten
  <2>1. ASSUME Using, tail' = Tails, handle' \in {0, Target}, UNCHANGED dirty, pc' # "rest"
        PROVE  Torn' /\ (Naked' => Naked)
    <3>1. End' = End
      BY <2>1, TailsEnd
    <3>2. IF handle = 0 THEN name' = Target ELSE name' = name /\ Target = handle
      BY <2>1, TargetIsThere DEF Using
    <3> QED BY <1>0, <2>1, <2>0, <3>1, <3>2 DEF Torn, Naked
  <2>2. ASSUME Using, tail' = [Tails EXCEPT ![Target] = Clean], handle' \in {0, Target}, pc' #
     "rest"
        PROVE  Torn' /\ (Naked' => Naked)
    <3>1. /\ End' = IF handle \in {0, name} THEN Clean ELSE End
          /\ IF handle = 0 THEN name' = Target ELSE name' = name /\ Target = handle
      BY <2>2, TargetEnd
    <3> QED BY <1>0, <2>2, <3>1 DEF Torn, Naked
  <2>3. CASE UNCHANGED <<tail, name, dirty>> /\ handle' = 0
    BY <1>0, <1>1, <2>0, <2>3 DEF Torn, Naked
  <2>4. ASSUME Using, tail' = [Tails EXCEPT ![Target] = HalfTail(TailNow, Id)], dirty',
               handle' \in {0, Target}
        PROVE  Torn' /\ (Naked' => Naked)
    <3>1. /\ End' = IF handle \in {0, name} THEN HalfTail(TailNow, Id) ELSE End
          /\ IF handle = 0 THEN name' = Target ELSE name' = name /\ Target = handle
      BY <2>4, TargetEnd
    <3>2. handle \in {0, name} => Tails[Target] = End
      BY TailsEnd DEF End
    <3>3. handle \in {0, name} /\ HalfTail(TailNow, Id) = Foreign => End = Foreign
      BY <1>0, <2>0, <3>2 DEF HalfTail, TailNow, Torn
    <3> QED BY <1>0, <2>0, <2>4, <3>1, <3>3 DEF Torn, Naked
  <2>5. \/ UNCHANGED <<tail, name, dirty>> /\ handle' = 0
        \/ /\ Using /\ handle' \in {0, Target}
           /\ \/ tail' = Tails /\ UNCHANGED dirty
              \/ tail' = [Tails EXCEPT ![Target] = Clean]
              \/ tail' = [Tails EXCEPT ![Target] = HalfTail(TailNow, Id)] /\ dirty' = TRUE
    BY <1>18 DEF RetryFails, Closing
  <2> QED BY <2>0, <2>1, <2>2, <2>3, <2>4, <2>5
<1>19. CASE AppendClosed
  BY <1>19, <1>0, <1>1 DEF AppendClosed, NewRecord, Torn, Naked, Control, Fields
<1>20. CASE AppendBegin
  BY <1>20, <1>0, <1>1 DEF AppendBegin, BeginRecreate, Big, Fault, Fine, Torn, Naked, Control,
     Fields
<1>21. CASE AppendPending
  BY <1>21, <1>0, <1>1 DEF AppendPending, Torn, Naked, Control, Fields
<1>22. CASE Tick
  BY <1>22, <1>0, <1>1 DEF Tick, Big, Torn, Naked, Control, Fields
<1>23. CASE Reset
  BY <1>23, <1>0, <1>1 DEF Reset, ArchiveName, Torn, Naked, Control, Fields
<1>24. CASE ResetFails
  BY <1>24, <1>0, <1>1 DEF ResetFails, ArchiveName, Fault, Torn, Naked, Control, Fields
<1>25. CASE Close
  BY <1>25, <1>0, <1>1 DEF Close, Torn, Naked, Control, Fields
<1>26. CASE Elapse
  BY <1>26, <1>0, <1>1 DEF Elapse, Torn, Naked, Control, Fields
<1>27. CASE Unlink
  BY <1>27, <1>0, <1>1 DEF Unlink, Torn, Naked, Control, Fields
<1>28. CASE Replace
  <2>1. End' \in {Clean, Foreign}
    <3>1. PICK t \in {Clean, Foreign} : tail' = Append(tail, t)
      BY <1>28 DEF Replace
    <3>2. tail \in Seq(Foreign .. Id) /\ t \in Foreign .. Id /\ Len(tail) \in Nat
          /\ name' = Len(tail) + 1
      BY SMTT(20), <1>0, <1>28 DEF Replace, Shape
    <3>3. tail'[Len(tail) + 1] = t
      BY <3>1, <3>2, AppendedIsLast
    <3> QED BY <3>2, <3>3 DEF End
  <2>2. pc' = "rest" => tail'[handle'] = tail[handle] /\ Id' = Id
    <3>1. pc' = "rest" => pc = "rest" /\ handle' = handle /\ handle # 0 /\ Id' = Id
      BY <1>28, <1>1 DEF Replace, Control
    <3>2. \A t : handle # 0 => Append(tail, t)[handle] = tail[handle]
      BY DEF Shape
    <3> QED BY <1>28, <3>1, <3>2 DEF Replace
  <2> QED BY <1>28, <1>0, <2>1, <2>2 DEF Replace, Torn
<1>29. CASE Crash
  BY <1>29, <1>0, <1>1 DEF Crash, Torn, Naked, Control, Fields
<1>30. CASE Restart
  <2>1. End' = End /\ handle' = 0 /\ ~(pc' = "rest") /\ (dirty' <=> End # Clean)
    BY <1>1, <1>30 DEF Restart, End
  <2> QED BY <2>1 DEF Torn, Naked
<1> QED BY <1>2, <1>3, <1>4, <1>5, <1>6, <1>7, <1>8, <1>9, <1>10, <1>11, <1>12, <1>13, <1>14,
   <1>15, <1>16, <1>17, <1>18, <1>19, <1>20, <1>21, <1>22, <1>23, <1>24, <1>25, <1>26, <1>27,
   <1>28, <1>29, <1>30 DEF Next, Step

------------------------------------------------------------------------------
(* The records that stay readable                                          *)

\* The files of the log.
Log == archive \cup ({name} \ {0})

LEMMA ReadableIsHeld ==
  ASSUME NEW n \in Nat, NEW fs \in Seq(Seq(0 .. n)), NEW L \in SUBSET (1 .. Len(fs))
  PROVE  UNION {{r \in 1 .. n : r \in Range(fs[i])} : i \in L} = UNION {Held(fs, i) : i \in L}
<1>1. ASSUME NEW i \in L
      PROVE  {r \in 1 .. n : r \in Range(fs[i])} = Held(fs, i)
  <2>1. fs[i] \in Seq(0 .. n)
    OBVIOUS
  <2>2. \A j \in DOMAIN fs[i] : fs[i][j] \in 0 .. n
    BY <2>1
  <2> QED BY <2>2 DEF Held, Records, Range, Broken
<1> QED BY <1>1

LEMMA KeptIs ==
  ASSUME Shape, Archived, Shape', Archived'
  PROVE  /\ Kept = UNION {Held(lines, i) : i \in Log}
         /\ Kept' = UNION {Held(lines', i) : i \in Log'}
         /\ Log \subseteq 1 .. Len(lines) /\ Log' \subseteq 1 .. Len(lines')
         /\ Len(lines) \in Nat /\ Len(lines') \in Nat
<1>1. /\ Log \subseteq 1 .. Len(lines) /\ Id \in Nat /\ Ids = 1 .. Id /\ lines \in Seq(Seq(0 .. Id))
      /\ Len(lines) \in Nat
  BY SMTT(20) DEF Shape, Archived, Log, Id, Ids, Inode
<1>2. /\ Log' \subseteq 1 .. Len(lines') /\ Id' \in Nat /\ Ids' = 1 .. Id'
      /\ lines' \in Seq(Seq(0 .. Id')) /\ Len(lines') \in Nat
  BY DEF Shape, Archived, Log, Id, Ids, Inode
<1>3. Kept = UNION {{r \in 1 .. Id : r \in Range(lines[i])} : i \in Log}
  BY <1>1 DEF Kept, Readable, Log
<1>4. Kept' = UNION {{r \in 1 .. Id' : r \in Range(lines'[i])} : i \in Log'}
  BY <1>2 DEF Kept, Readable, Log
<1>5. Kept = UNION {Held(lines, i) : i \in Log}
  BY <1>1, <1>3, ReadableIsHeld
<1>6. Kept' = UNION {Held(lines', i) : i \in Log'}
  <2> DEFINE gs == lines'
             m == Id'
             K == Log'
  <2>1. m \in Nat /\ gs \in Seq(Seq(0 .. m)) /\ K \in SUBSET (1 .. Len(gs))
    BY <1>2
  <2> HIDE DEF gs, m, K
  <2>2. UNION {{r \in 1 .. m : r \in Range(gs[i])} : i \in K} = UNION {Held(gs, i) : i \in K}
    BY <2>1, ReadableIsHeld
  <2> QED BY <1>4, <2>2 DEF gs, m, K
<1> QED BY <1>1, <1>2, <1>5, <1>6

\* A step that writes no record loses none, but for one from outside.
LEMMA QuietKept ==
  ASSUME Shape, Archived, Shape', Archived', QuietStep
  PROVE  /\ Kept' \subseteq Kept
         /\ Unlink \/ Replace \/ Kept' = Kept
<1> USE DEF files, writer, recovery, control, ledger, bounds
<1>1. Grows(0, Broken) /\ Moves
  BY QuietEffect
<1>2. \A i \in 0 .. Len(lines') : Held(lines', i) = Held(lines, i)
  BY <1>1, HeldGrows
<1>3. \/ archive' = archive
      \/ archive' = archive \cup {name} /\ name # 0
  BY DEF QuietStep, RotateSkip, RotateFails, RotateDone, RecreateOpenFails, RecreateOpen,
     RecreateTailFails, TickLeaves, LineHalf, LineFails, CloseFails, RestFails, RetryFails,
     AppendBegin, AppendPending, Tick, Reset, ResetFails, Close, Elapse, Unlink, Replace, Crash,
     Restart, NotWritten, ArchiveName
<1>4. Len(lines) \in Nat /\ Len(lines') \in Nat /\ Len(lines) <= Len(lines')
  BY <1>1, KeptIs DEF Grows
<1>5. \A i \in Log' : i \in Log \/ Held(lines, i) = {}
  <2>1. \A i : i > Len(lines) => Held(lines, i) = {}
    BY <1>4 DEF Held
  <2>2. name' \in {0, name} \/ (name' > Len(lines))
    BY <1>1, <1>4 DEF Moves
  <2> QED BY <1>3, <2>1, <2>2 DEF Log
<1>6. ASSUME ~Unlink, ~Replace
      PROVE  Log \subseteq Log'
  <2>1. name = 0 \/ name' = name \/ name \in archive'
    BY <1>6 DEF QuietStep, RotateSkip, RotateFails, RotateDone, RecreateOpenFails, RecreateOpen,
       RecreateTailFails, TickLeaves, LineHalf, LineFails, CloseFails, RestFails, RetryFails,
       AppendBegin, AppendPending, Tick, Reset, ResetFails, Close, Elapse, Crash,
       Restart, NotWritten, ArchiveName, Using, NameNow, Opened
  <2> QED BY <1>3, <2>1 DEF Log
<1>7. /\ Kept = UNION {Held(lines, i) : i \in Log} /\ Kept' = UNION {Held(lines', i) : i \in Log'}
      /\ Log \subseteq 1 .. Len(lines) /\ Log' \subseteq 1 .. Len(lines')
  BY KeptIs
<1>8. \A i \in Log' : Held(lines', i) = Held(lines, i)
  BY <1>2, <1>4, <1>7
<1>9. Kept' \subseteq Kept
  BY <1>5, <1>7, <1>8
<1>10. ASSUME ~Unlink, ~Replace
       PROVE  Kept \subseteq Kept'
  BY <1>6, <1>7, <1>8, <1>10
<1> QED BY <1>9, <1>10

\* Creating a record changes no file.
LEMMA RecordKept ==
  ASSUME Shape, Archived, Shape', Archived', RecordStep
  PROVE  Kept' = Kept
<1>1. UNCHANGED <<lines, name, archive>>
  BY RecordEffect
<1>2. Log' = Log /\ \A i : Held(lines', i) = Held(lines, i)
  BY <1>1 DEF Log
<1>3. Kept = UNION {Held(lines, i) : i \in Log} /\ Kept' = UNION {Held(lines', i) : i \in Log'}
  BY KeptIs
<1> QED BY <1>2, <1>3

\* What a record added to a file does to the files of the log.
LEMMA AddedKept ==
  ASSUME Shape, Archived, Shape', Archived', NEW t, NEW x \in {Broken, Id}, Grows(t, x), t # 0,
         archive' = archive, name' = name \/ (name = 0 /\ name' > Len(lines))
  PROVE  /\ Kept \subseteq Kept' /\ Kept' \subseteq Kept \cup {Id}
         /\ x = Id /\ Id # 0 /\ t = name' => Id \in Kept'
<1>1. /\ Kept = UNION {Held(lines, i) : i \in Log} /\ Kept' = UNION {Held(lines', i) : i \in Log'}
      /\ Log \subseteq 1 .. Len(lines) /\ Log' \subseteq 1 .. Len(lines')
      /\ Len(lines) \in Nat /\ Len(lines') \in Nat
  BY KeptIs
<1>2. \A i \in 0 .. Len(lines') :
        Held(lines', i) = Held(lines, i) \cup (IF i = t THEN {x} \ {Broken} ELSE {})
  BY HeldGrows
<1>3. \A i \in Log' : Held(lines', i) = Held(lines, i) \cup (IF i = t THEN {x} \ {Broken} ELSE {})
  BY <1>1, <1>2
<1>4. Log \subseteq Log' /\ \A i \in Log' : i \in Log \/ Held(lines, i) = {}
  BY <1>1 DEF Log, Held
<1>5. Kept \subseteq Kept'
  BY <1>1, <1>3, <1>4
<1>6. Kept' \subseteq Kept \cup {Id}
  BY <1>1, <1>3, <1>4
<1>7. x = Id /\ Id # 0 /\ t = name' => Id \in Held(lines', t) /\ t \in Log'
  BY <1>1, <1>3 DEF Log, Broken
<1>8. x = Id /\ Id # 0 /\ t = name' => Id \in Kept'
  BY <1>1, <1>7
<1> QED BY <1>5, <1>6, <1>8

\* Writing a record loses no other.
LEMMA WriteAdds ==
  ASSUME Shape, Archived, Shape', Archived', Id # 0, pc = "rest" => handle # 0, WriteStep
  PROVE  /\ Kept \subseteq Kept' /\ Kept' \subseteq Kept \cup {Id}
<1>1. handle' # 0 /\ \E x \in {Broken, Id} : Grows(handle', x)
  BY WriteEffect
<1>2. archive' = archive /\ (name' = name \/ (name = 0 /\ name' > Len(lines)))
  BY DEF WriteStep, LineOk, RestOk, RetryOk, Using, NameNow, Opened, files, Shape
<1> QED BY <1>1, <1>2, AddedKept

\* A record that is written can be read afterwards, unless the log is exposed.
LEMMA WriteKept ==
  ASSUME Shape, Fields, Control, Archived, Shape', Archived', Torn, up, WriteStep
  PROVE  /\ Kept \subseteq Kept' /\ Kept' \subseteq Kept \cup {Id}
         /\ Id \in Kept' \/ Naked
<1> USE DEF files, writer, recovery, control, ledger, bounds
<1>1. Id # 0 /\ Id \in Nat /\ (pc = "rest" => handle # 0)
  <2>1. Writing
    BY DEF WriteStep, LineOk, RestOk, RetryOk, Writing
  <2> QED BY <2>1 DEF Control, Shape, Id
<1>2. Len(lines) \in Nat /\ Kept \subseteq Kept' /\ Kept' \subseteq Kept \cup {Id}
  BY <1>1, WriteAdds DEF Shape
<1>3. CASE LineOk \/ RetryOk
  <2>1. /\ Using /\ handle' = Target /\ archive' = archive /\ pc # "rest"
        /\ lines' = [Terminated EXCEPT ![Target] = Append(@, WholeLine(TailNow, Id))]
        /\ tail' = [Tails EXCEPT ![Target] = Clean]
    BY <1>3 DEF LineOk, RetryOk
  <2>2. Grows(Target, WholeLine(TailNow, Id)) /\ WholeLine(TailNow, Id) \in {Broken, Id}
    BY <1>1, <2>1, WholeEffect
  <2>3. IF handle = 0 THEN name' = Target /\ Target # 0 ELSE name' = name /\ Target = handle
    BY <2>1, TargetEnd
  <2>4. name' = name \/ (name = 0 /\ name' > Len(lines))
    BY <1>2, <2>1 DEF Using, NameNow, Opened
  <2>5. ASSUME ~Naked
        PROVE  Target = name' /\ WholeLine(TailNow, Id) = Id
    <3>1. handle \in {0, name} /\ Tails[Target] = End /\ End # Foreign
      BY <2>5, TailsEnd DEF Naked, End
    <3>2. TailNow = Clean
      BY <2>1, <3>1 DEF TailNow, Torn
    <3> QED BY <2>3, <3>1, <3>2 DEF WholeLine
  <2> QED BY <1>1, <1>2, <2>1, <2>2, <2>3, <2>4, <2>5, AddedKept
<1>4. CASE RestOk
  <2>1. /\ handle # 0 /\ UNCHANGED <<name, handle, work, archive>> /\ pc = "rest"
        /\ lines' = [lines EXCEPT ![handle] = Append(@, RestLine(tail[handle], Id))]
        /\ tail' = [tail EXCEPT ![handle] = Clean]
    BY <1>1, <1>4 DEF RestOk
  <2>2. Grows(handle, RestLine(tail[handle], Id)) /\ RestLine(tail[handle], Id) \in {Broken, Id}
    BY <1>1, <2>1, RestEffect
  <2>3. ~Naked => handle = name' /\ RestLine(tail[handle], Id) = Id
    BY <2>1 DEF Naked, Torn, End, RestLine
  <2> QED BY <1>1, <1>2, <2>1, <2>2, <2>3, AddedKept
<1> QED BY <1>3, <1>4 DEF WriteStep

------------------------------------------------------------------------------
(* What the METAs of a recreation announced                                *)

\* A META announces only records that are gone, and they stay gone.
Announced ==
  /\ reported \cap Kept = {}
  /\ Writing => Id \notin reported

LEMMA AnnouncedKept ==
  ASSUME Inv, Inv', Torn, Announced, Next
  PROVE  Announced'
<1> USE DEF files, writer, recovery, control, ledger, bounds
<1>0. /\ Shape /\ Fields /\ Control /\ Archived /\ Shape' /\ Archived'
      /\ reported \subseteq Ids /\ Id \in Nat /\ Ids = 1 .. Id
  <2>1. Shape /\ Fields /\ Control /\ Archived /\ Shape' /\ Archived'
    BY DEF Inv
  <2>2. Id \in Nat /\ Ids = 1 .. Id
    BY <2>1 DEF Shape, Id, Ids
  <2> QED BY <2>1, <2>2 DEF Fields
<1>1. CASE QuietStep
  <2>1. Kept' \subseteq Kept /\ Id' = Id
    BY <1>0, <1>1, QuietKept, QuietEffect DEF Id
  <2>2. reported' = reported
    BY <1>1 DEF QuietStep, RotateSkip, RotateFails, RotateDone, RecreateOpenFails, RecreateOpen,
       RecreateTailFails, TickLeaves, LineHalf, LineFails, CloseFails, RestFails, RetryFails,
       AppendBegin, AppendPending, Tick, Reset, ResetFails, Close, Elapse, Unlink, Replace, Crash,
       Restart, NotWritten
  <2>3. Writing' => Writing
    BY <1>1 DEF QuietStep, RotateSkip, RotateFails, RotateDone, RecreateOpenFails, RecreateOpen,
       RecreateTailFails, TickLeaves, LineHalf, LineFails, CloseFails, RestFails, RetryFails,
       AppendBegin, AppendPending, Tick, Reset, ResetFails, Close, Elapse, Unlink, Replace, Crash,
       Restart, NotWritten, AfterRotate, Writing
  <2> QED BY <2>1, <2>2, <2>3 DEF Announced
<1>2. CASE RecordStep
  <2>1. Kept' = Kept
    BY <1>0, <1>2, RecordKept
  <2>2. reported' = reported
    BY <1>2 DEF RecordStep, AppendClosed, RecreateRefused, NewLine
  <2>3. Id' = Id + 1
    <3>1. num \in Seq(Nat) /\ num' = Append(num, seq + 1) /\ seq + 1 \in Nat
      BY <1>0, <1>2, RecordEffect DEF Shape, Fields
    <3> QED BY <3>1 DEF Id
  <2> QED BY <1>0, <2>1, <2>2, <2>3 DEF Announced
<1>3. CASE WriteStep
  <2>1. Writing /\ ~Writing' /\ Written
    BY <1>3 DEF WriteStep, LineOk, RestOk, RetryOk, Writing, Written
  <2>2. Id # 0 /\ (pc = "rest" => handle # 0) /\ Id \notin reported
    BY <1>0, <2>1 DEF Control, Announced
  <2>3. Kept' \subseteq Kept \cup {Id}
    BY <1>0, <1>3, <2>2, WriteAdds
  <2>4. reported' \subseteq reported \cup (Covered \ Kept)
    BY <2>1 DEF Written
  <2>5. Id \notin Covered
    BY DEF Covered
  <2> QED BY <2>1, <2>2, <2>3, <2>4, <2>5 DEF Announced
<1> QED BY <1>1, <1>2, <1>3, NextCases

LEMMA TornAtStart ==
  ASSUME Init
  PROVE  Torn /\ Announced
<1>1. name = 0 /\ handle = 0 /\ pc = "idle" /\ reported = {}
  BY DEF Init
<1> QED BY <1>1 DEF Torn, Announced, End, Writing

\* Whatever happens to the files, no torn line is forgotten and no META
\* announces a record that can be read.
THEOREM AuditInvariant == Spec => [](Inv /\ Torn /\ Announced)
<1> DEFINE Audited == Inv /\ Torn /\ Announced
<1>1. Init => Audited
  BY InvAtStart, TornAtStart
<1>2. ASSUME Audited, [Next]_vars PROVE Audited'
  <2>1. Inv'
    BY <1>2, InvKept
  <2>2. CASE Next
    BY <1>2, <2>1, <2>2, TornKept, AnnouncedKept DEF Inv
  <2>3. CASE UNCHANGED vars
    <3>1. Torn'
      BY <1>2, <2>3 DEF vars, Torn, End, Id
    <3>2. Announced'
      BY <1>2, <2>3 DEF vars, Announced, Kept, Readable, Ids, Id, Writing
    <3> QED BY <2>1, <3>1, <3>2
  <2> QED BY <1>2, <2>2, <2>3
<1> QED
  BY <1>1, <1>2, PTL DEF Spec

------------------------------------------------------------------------------
(* Steps of the audit log                                                  *)

Fate == [r \in 1 .. MaxRecords |-> FateOf(r)]

\* A step that changes no fate: the log works on the named file, or nothing
\* shows.
LEMMA Notices ==
  ASSUME Fate' = Fate, Exposed' => Exposed, outside' = outside
  PROVE  [Audit!ANext]_(Audit!avars)
<1>1. Exposed' = Exposed \/ Exposed' = FALSE
  BY DEF Exposed
<1>2. CASE Exposed' = Exposed
  BY <1>2 DEF Audit!avars, Fate
<1>3. CASE Exposed' = FALSE
  BY <1>3 DEF Audit!ANext, Audit!ANotice, Fate
<1> QED BY <1>1, <1>2, <1>3

\* A record is answered.
LEMMA Answers ==
  ASSUME NEW n \in 1 .. MaxRecords, NEW v, Fate[n] = "none", Fate' = [Fate EXCEPT ![n] = v],
         v \in {"kept", "flagged"} \/ (Exposed /\ v = "gone"),
         Exposed' => Exposed, outside' = outside
  PROVE  [Audit!ANext]_(Audit!avars)
<1>1. Exposed' = Exposed \/ Exposed' = FALSE
  BY DEF Exposed
<1>2. Audit!AAnswer(n)
  BY <1>1 DEF Audit!AAnswer, Fate
<1> QED BY <1>2 DEF Audit!ANext

\* A META is answered.
LEMMA Reports ==
  ASSUME NEW n \in 1 .. MaxRecords, NEW v \in {"kept", "gone"}, Fate[n] = "none",
         v = "kept" \/ Exposed,
         NEW S \in SUBSET {r \in 1 .. MaxRecords : Fate[r] = "gone"},
         Fate' = [r \in 1 .. MaxRecords |-> IF r = n THEN v
                                           ELSE IF r \in S THEN "reported" ELSE Fate[r]],
         Exposed' => Exposed, outside' = outside
  PROVE  [Audit!ANext]_(Audit!avars)
<1>1. Exposed' = Exposed \/ Exposed' = FALSE
  BY DEF Exposed
<1>2. v \in {"kept"} \cup IF Exposed THEN {"gone"} ELSE {}
  OBVIOUS
<1>3. Audit!AReport(n)
  BY <1>1, <1>2 DEF Audit!AReport, Fate
<1> QED BY <1>3 DEF Audit!ANext

\* Somebody from outside takes the file away.
LEMMA Disturbs ==
  ASSUME NEW S \in SUBSET {r \in 1 .. MaxRecords : Fate[r] = "kept"},
         Fate' = [r \in 1 .. MaxRecords |-> IF r \in S THEN "gone" ELSE Fate[r]],
         outside' = outside + 1
  PROVE  [Audit!ANext]_(Audit!avars)
<1>1. Exposed' \in BOOLEAN
  BY DEF Exposed
<1>2. Audit!ADisturb
  BY <1>1 DEF Audit!ADisturb, Fate
<1> QED BY <1>2 DEF Audit!ANext

------------------------------------------------------------------------------
(* Every step of the log is a step of the audit log                        *)

\* Failures of the write whose record the caller then hears is lost.
Refused == CloseFails \/ RestFails \/ RetryFails

LEMMA AuditCases ==
  ASSUME Next
  PROVE  \/ Unlink \/ Replace
         \/ Refused
         \/ QuietStep /\ ~Refused /\ ~Unlink /\ ~Replace
         \/ NewLine
         \/ AppendClosed \/ RecreateRefused
         \/ up /\ WriteStep
BY DEF Next, Step, QuietStep, WriteStep, Refused

LEMMA RecordsBounded ==
  ASSUME Inv, Inv'
  PROVE  /\ Id \in 0 .. MaxRecords /\ Ids = 1 .. Id
         /\ Id' \in 0 .. MaxRecords /\ Ids' = 1 .. Id'
         /\ answer \in Seq({"open", "ok", "loss"}) /\ Len(answer) = Id
         /\ reported \cap Kept = {} => \A r \in Kept : r \notin reported
<1>1. Id \in Nat /\ Ids = 1 .. Id /\ Id' \in Nat /\ Ids' = 1 .. Id'
  BY DEF Inv, Shape, Id, Ids
<1>2. Owed \in Nat /\ PutOff \in Nat /\ Owed' \in Nat /\ PutOff' \in Nat
  BY DEF Owed, PutOff
<1>3. Budget /\ Budget' /\ MaxCalls \in Nat /\ MaxFaults \in Nat
  BY WalAssumption DEF Inv
<1>4. Id <= MaxRecords
  BY <1>1, <1>2, <1>3 DEF Budget, MaxRecords
<1>5. Id' <= MaxRecords
  <2>1. /\ calls' \in 0 .. MaxCalls /\ faults' \in 0 .. MaxFaults
        /\ Id' + Owed' + PutOff' <= 2 * calls' + faults'
    BY <1>3 DEF Budget
  <2>2. \A i, o, d \in Nat : \A c \in 0 .. MaxCalls, f \in 0 .. MaxFaults :
          i + o + d <= 2 * c + f => i <= 2 * MaxCalls + MaxFaults
    BY <1>3
  <2> QED BY <1>1, <1>2, <2>1, <2>2 DEF MaxRecords
<1>6. MaxRecords \in Nat
  BY <1>3 DEF MaxRecords
<1> QED BY <1>1, <1>4, <1>5, <1>6 DEF Inv, Fields

LEMMA StepImplements ==
  ASSUME Inv, Inv', Torn, Announced, Next
  PROVE  [Audit!ANext]_(Audit!avars)
<1> USE DEF files, writer, recovery, control, ledger, bounds
<1>0. /\ Shape /\ Fields /\ Control /\ LastRecord /\ Archived /\ Shape' /\ Archived'
      /\ Exposed' => Exposed \/ Unlink \/ Replace
  BY TornKept, ExposedIsNaked DEF Inv
<1>1. /\ Id \in 0 .. MaxRecords /\ Ids = 1 .. Id /\ MaxRecords \in Nat
      /\ Id' \in 0 .. MaxRecords /\ Ids' = 1 .. Id'
      /\ answer \in Seq({"open", "ok", "loss"}) /\ Len(answer) = Id
      /\ \A r \in Kept : r \notin reported
  BY RecordsBounded, WalAssumption DEF Announced, MaxRecords
<1>2. Fate' = [r \in 1 .. MaxRecords |-> FateOf(r)']
  BY DEF Fate
<1>3. ASSUME Ids' = Ids, answer' = answer, Kept' = Kept, reported' = reported
      PROVE  Fate' = Fate
  BY <1>3 DEF Fate, FateOf
<1>4. CASE Unlink \/ Replace
  <2>1. QuietStep /\ outside' = outside + 1 /\ UNCHANGED <<num, answer, reported>>
    BY <1>4 DEF Unlink, Replace, QuietStep
  <2>2. Kept' \subseteq Kept /\ Ids' = Ids
    BY <1>0, <2>1, QuietKept DEF Ids
  <2> DEFINE S == {r \in 1 .. MaxRecords : Fate[r] = "kept" /\ r \notin Kept'}
  <2>3. \A r \in 1 .. MaxRecords : FateOf(r)' = IF r \in S THEN "gone" ELSE Fate[r]
    BY <1>1, <2>1, <2>2 DEF Fate, FateOf
  <2>4. Fate' = [r \in 1 .. MaxRecords |-> IF r \in S THEN "gone" ELSE Fate[r]]
    BY <1>2, <2>3
  <2>5. S \in SUBSET {r \in 1 .. MaxRecords : Fate[r] = "kept"}
    OBVIOUS
  <2> HIDE DEF S
  <2> QED BY <2>1, <2>4, <2>5, Disturbs
<1>5. CASE Refused
  <2>1. Writing /\ answer[Id] = "open" /\ Id # 0 /\ Id \in 1 .. MaxRecords
    <3>1. Writing
      BY <1>5 DEF Refused, CloseFails, RestFails, RetryFails, Writing
    <3> QED BY <1>0, <1>1, <3>1 DEF Control, LastRecord
  <2>2. QuietStep /\ UNCHANGED <<num, reported, outside>> /\ answer' = [answer EXCEPT ![Id] = "loss"]
    BY <1>5 DEF Refused, CloseFails, RestFails, RetryFails, NotWritten, QuietStep
  <2>3. ~Unlink /\ ~Replace
    BY <1>1, <2>1, <2>2 DEF Unlink, Replace
  <2>4. Kept' = Kept /\ Ids' = Ids
    BY <1>0, <2>2, <2>3, QuietKept DEF Ids
  <2>5. answer'[Id] = "loss" /\ \A r \in Ids : r # Id => answer'[r] = answer[r]
    BY <1>1, <2>1, <2>2
  <2>6. \A r \in 1 .. MaxRecords : FateOf(r)' = IF r = Id THEN "flagged" ELSE FateOf(r)
    BY <1>1, <2>1, <2>2, <2>4, <2>5 DEF FateOf
  <2>7. Fate' = [Fate EXCEPT ![Id] = "flagged"]
    BY <1>2, <2>6 DEF Fate
  <2>8. Fate[Id] = "none"
    BY <2>1 DEF Fate, FateOf
  <2> QED BY <1>0, <2>1, <2>2, <2>3, <2>7, <2>8, Answers
<1>6. CASE QuietStep /\ ~Refused /\ ~Unlink /\ ~Replace
  <2>1. UNCHANGED <<answer, reported, outside>>
    BY <1>6 DEF QuietStep, Refused, RotateSkip, RotateFails, RotateDone, RecreateOpenFails,
       RecreateOpen, RecreateTailFails, TickLeaves, LineHalf, LineFails, AppendBegin,
       AppendPending, Tick, Reset, ResetFails, Close, Elapse, Crash, Restart
  <2>2. num' = num /\ Kept' = Kept
    BY <1>0, <1>6, QuietEffect, QuietKept
  <2>3. Ids' = Ids
    BY <2>2 DEF Ids
  <2> QED BY <1>0, <1>3, <1>6, <2>1, <2>2, <2>3, Notices
<1>7. CASE NewLine \/ AppendClosed \/ RecreateRefused
  <2>1. RecordStep /\ UNCHANGED <<reported, outside>>
    BY <1>7 DEF RecordStep, NewLine, AppendClosed, RecreateRefused
  <2>2. Kept' = Kept
    BY <1>0, <2>1, RecordKept
  <2>3. Id' = Id + 1
    <3>1. num \in Seq(Nat) /\ num' = Append(num, seq + 1) /\ seq + 1 \in Nat
      BY <1>0, <2>1, RecordEffect DEF Shape, Fields
    <3> QED BY <3>1 DEF Id
  <2>4. ~Unlink /\ ~Replace
    BY <2>3, <1>1 DEF Unlink, Replace, Id
  <2>5. ASSUME NEW a \in {"open", "loss"}, answer' = Append(answer, a)
        PROVE  answer'[Id + 1] = a /\ \A r \in Ids : answer'[r] = answer[r]
    <3>1. a \in {"open", "ok", "loss"}
      OBVIOUS
    <3> QED BY <1>1, <2>5, <3>1, AppendedIsLast
  <2>6. CASE NewLine
    <3>1. answer'[Id + 1] = "open" /\ \A r \in Ids : answer'[r] = answer[r]
      BY <2>5, <2>6 DEF NewLine, NewRecord
    <3>2. \A r \in 1 .. MaxRecords : FateOf(r)' = FateOf(r)
      BY <1>1, <2>1, <2>2, <2>3, <3>1 DEF FateOf
    <3>3. Fate' = Fate
      BY <1>2, <3>2 DEF Fate
    <3> QED BY <1>0, <2>1, <2>4, <3>3, Notices
  <2>7. CASE AppendClosed \/ RecreateRefused
    <3>1. answer'[Id + 1] = "loss" /\ \A r \in Ids : answer'[r] = answer[r]
      BY <2>5, <2>7 DEF AppendClosed, RecreateRefused, NewRecord
    <3>2. \A r \in 1 .. MaxRecords : FateOf(r)' = IF r = Id + 1 THEN "flagged" ELSE FateOf(r)
      BY <1>1, <2>1, <2>2, <2>3, <3>1 DEF FateOf
    <3>3. Fate' = [Fate EXCEPT ![Id + 1] = "flagged"]
      BY <1>2, <3>2 DEF Fate
    <3>4. Id + 1 \in 1 .. MaxRecords /\ Fate[Id + 1] = "none"
      BY <1>1, <2>3 DEF Fate, FateOf
    <3> QED BY <1>0, <2>1, <2>4, <3>3, <3>4, Answers
  <2> QED BY <1>7, <2>6, <2>7
<1>8. CASE up /\ WriteStep
  <2>1. Writing /\ Written /\ num' = num /\ outside' = outside
    BY <1>8 DEF WriteStep, LineOk, RestOk, RetryOk, Writing, Written
  <2>2. answer[Id] = "open" /\ Id # 0 /\ Id \in 1 .. MaxRecords /\ Id \notin reported
    BY <1>0, <1>1, <2>1 DEF Control, LastRecord, Announced
  <2>3. ~Unlink /\ ~Replace
    BY <1>1, <2>1, <2>2 DEF Unlink, Replace, Written
  <2>4. /\ Kept \subseteq Kept' /\ Kept' \subseteq Kept \cup {Id} /\ Ids' = Ids
        /\ Id \in Kept' \/ Exposed
    BY <1>0, <1>8, <2>1, WriteKept, ExposedIsNaked DEF Ids
  <2>5. answer'[Id] = "ok" /\ \A r \in Ids : r # Id => answer'[r] = answer[r]
    BY <1>1, <2>1, <2>2 DEF Written
  <2>6. Fate[Id] = "none"
    BY <2>2 DEF Fate, FateOf
  <2> DEFINE v == IF Id \in Kept' THEN "kept" ELSE "gone"
  <2>7. CASE role # "meta"
    <3>1. reported' = reported
      BY <2>1, <2>7 DEF Written
    <3>2. \A r \in 1 .. MaxRecords : FateOf(r)' = IF r = Id THEN v ELSE FateOf(r)
      BY <1>1, <2>2, <2>4, <2>5, <3>1 DEF FateOf
    <3>3. Fate' = [Fate EXCEPT ![Id] = v]
      BY <1>2, <3>2 DEF Fate
    <3>4. v \in {"kept", "flagged"} \/ (Exposed /\ v = "gone")
      BY <2>4
    <3> HIDE DEF v
    <3> QED BY <1>0, <2>1, <2>2, <2>3, <2>6, <3>3, <3>4, Answers
  <2>8. CASE role = "meta"
    <3>1. reported' = reported \cup (Covered \ Kept)
      BY <2>1, <2>8 DEF Written
    <3> DEFINE S == {r \in 1 .. MaxRecords : Fate[r] = "gone" /\ r \in Covered}
    <3>2. Id \notin Covered
      BY DEF Covered
    <3>3. \A r \in 1 .. MaxRecords :
            FateOf(r)' = IF r = Id THEN v ELSE IF r \in S THEN "reported" ELSE Fate[r]
      BY <1>1, <2>2, <2>4, <2>5, <3>1, <3>2 DEF Fate, FateOf
    <3>4. Fate' = [r \in 1 .. MaxRecords |-> IF r = Id THEN v
                                             ELSE IF r \in S THEN "reported" ELSE Fate[r]]
      BY <1>2, <3>3
    <3>5. v \in {"kept", "gone"} /\ (v = "kept" \/ Exposed)
      BY <2>4
    <3>6. S \in SUBSET {r \in 1 .. MaxRecords : Fate[r] = "gone"}
      OBVIOUS
    <3> HIDE DEF S, v
    <3> QED BY <1>0, <2>1, <2>2, <2>3, <2>6, <3>4, <3>5, <3>6, Reports
  <2> QED BY <2>7, <2>8
<1> QED BY <1>4, <1>5, <1>6, <1>7, <1>8, AuditCases

\* The files implement the audit log: a record answered as written stays
\* readable through failed writes, retries, rotations, resets, kills and
\* restarts, unless somebody outside takes the file away; only then may an
\* append be lost without its caller being told, and a META of a recreation
\* announces only what is gone.
THEOREM FilesImplementAuditLog == Spec => ImplementsAuditLog
<1>1. Init => Audit!AInit
  <2>1. SUFFICES ASSUME Init PROVE Audit!AInit
    OBVIOUS
  <2>2. num = <<>> /\ handle = 0 /\ name = 0 /\ outside = 0
    BY <2>1 DEF Init
  <2>3. Ids = {}
    BY <2>2 DEF Ids
  <2>4. \A r \in 1 .. MaxRecords : FateOf(r) = "none"
    BY <2>3 DEF FateOf
  <2>5. Exposed = FALSE
    BY <2>2 DEF Exposed
  <2> QED BY <2>2, <2>4, <2>5 DEF Audit!AInit
<1>2. Inv /\ Inv' /\ Torn /\ Announced /\ [Next]_vars => [Audit!ANext]_(Audit!avars)
  <2>1. SUFFICES ASSUME Inv, Inv', Torn, Announced, [Next]_vars
                 PROVE  [Audit!ANext]_(Audit!avars)
    OBVIOUS
  <2>2. CASE Next
    BY <2>1, <2>2, StepImplements
  <2>3. CASE UNCHANGED vars
    <3>1. Fate' = Fate
      BY <2>3 DEF vars, Fate, FateOf, Ids, Kept, Readable
    <3>2. (Exposed' => Exposed) /\ outside' = outside
      BY <2>3 DEF vars, Exposed
    <3> QED BY <3>1, <3>2, Notices
  <2> QED BY <2>1, <2>2, <2>3
<1> QED
  BY <1>1, <1>2, AuditInvariant, PTL DEF Spec, ImplementsAuditLog, Audit!ASpec

==============================================================================
