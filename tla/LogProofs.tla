----------------------------- MODULE LogProofs ------------------------------
(***************************************************************************)
(* Proofs about Log: log_write never finds the log full, and the log with  *)
(* its crashes implements Transactions, for any number of processes and    *)
(* blocks and any size of the log.                                         *)
(***************************************************************************)
EXTENDS Log, FiniteSetTheorems, TLAPS

Active == {p \in Procs : pc[p] = "op"}

\* What begin_op has reserved and the system calls have not used yet: the k-th
\* block of p, for every k above the number of blocks that p has written.
Unused == {u \in Procs \X (1..MAXOPBLOCKS) : pc[u[1]] = "op" /\ Cardinality(wrote[u[1]]) < u[2]}

\* The counters of struct log agree with the processes: outstanding counts the
\* system calls, and a commit has one process and happens outside of them.
CountInv ==
  /\ ~panic
  /\ outstanding = Cardinality(Active)
  /\ committing => Active = {}
  /\ \A p \in Procs : pc[p] \in Committers => committing
  /\ \A p, q \in Procs : pc[p] \in Committers /\ pc[q] \in Committers => p = q
  /\ ~up => ~committing /\ \A p \in Procs : pc[p] = "out"

\* The blocks of the system calls are in the log, and the log has room for all
\* that they may still write.
SpaceInv ==
  /\ \A p \in Procs : /\ IsFiniteSet(wrote[p]) /\ Cardinality(wrote[p]) <= OpBlocks
                      /\ wrote[p] \subseteq Range(lh)
                      /\ pc[p] # "op" => wrote[p] = {}
  /\ Len(lh) + Cardinality(Unused) <= LOGBLOCKS

Distinct(s) == \A i, j \in 1..Len(s) : s[i] = s[j] => i = j

\* Between two commits the blocks of the header are pinned.
Pinned == head = <<>> /\ DOMAIN buf = Range(lh)

\* How far the process that commits has come when it is at label l: which blocks
\* are in the log area, which are home, which are still pinned.
CommitAt(l) ==
  CASE l = "writelog"  -> Pinned /\ tail \in 1..Len(lh) /\ \A i \in 1..Len(lh) : i < tail => area[i] = buf[lh[i]]
    [] l = "writehead" -> Pinned /\ tail = 1 /\ lh # <<>> /\ \A i \in 1..Len(lh) : area[i] = buf[lh[i]]
    [] l = "install"   -> /\ head = lh /\ tail \in 1..Len(lh)
                          /\ DOMAIN buf = {lh[i] : i \in tail..Len(lh)}
                          /\ \A i \in 1..Len(lh) : IF i < tail THEN home[lh[i]] = area[i]
                                                     ELSE area[i] = buf[lh[i]]
    [] l = "clear"     -> head = lh /\ DOMAIN buf = {} /\ \A i \in 1..Len(lh) : home[lh[i]] = area[i]
    [] l = "done"      -> Pinned /\ lh = <<>>

\* The same of recovery.
RecoverAt ==
  /\ head = lh /\ DOMAIN buf = {} /\ tail \in 1..(Len(lh) + 1)
  /\ \A i \in 1..Len(lh) : i < tail => home[lh[i]] = area[i]

CommitInv ==
  /\ Distinct(lh)
  /\ up /\ ~committing => Pinned
  /\ up /\ committing => \E p \in Procs : pc[p] \in Committers /\ CommitAt(pc[p])
  /\ ~up => RecoverAt

LogInv == TypeOK /\ CountInv /\ SpaceInv /\ CommitInv

-----------------------------------------------------------------------------
(* Sequences without repetition, and the unused reservations.              *)

\* log_write adds a block at the end of the header.
LEMMA AppendFacts ==
  ASSUME NEW S, NEW s \in Seq(S), NEW b \in S
  PROVE  /\ Append(s, b) \in Seq(S) /\ Len(Append(s, b)) = Len(s) + 1
         /\ \A i \in 1..Len(s) : Append(s, b)[i] = s[i]
         /\ Append(s, b)[Len(s) + 1] = b
         /\ Range(Append(s, b)) = Range(s) \cup {b}
<1>1. /\ Append(s, b) \in Seq(S) /\ Len(Append(s, b)) = Len(s) + 1
      /\ \A i \in 1..Len(s) : Append(s, b)[i] = s[i]
      /\ Append(s, b)[Len(s) + 1] = b
      /\ DOMAIN Append(s, b) = 1..(Len(s) + 1) /\ DOMAIN s = 1..Len(s) /\ Len(s) \in Nat
  OBVIOUS
<1>2. 1..(Len(s) + 1) = (1..Len(s)) \cup {Len(s) + 1}
  BY <1>1
<1>. QED BY <1>1, <1>2 DEF Range

\* The members of a sequence are its entries.
LEMMA RangeFacts ==
  ASSUME NEW S, NEW s \in Seq(S)
  PROVE  /\ DOMAIN s = 1..Len(s) /\ Len(s) \in Nat
         /\ \A b : b \in Range(s) <=> \E i \in 1..Len(s) : s[i] = b
         /\ \A i \in 1..Len(s) : s[i] \in Range(s) /\ s[i] \in S
         /\ s = <<>> <=> Len(s) = 0
BY DEF Range

\* A block that is not in a header without repetition can be added to it.
LEMMA AppendDistinct ==
  ASSUME NEW S, NEW s \in Seq(S), NEW b \in S, b \notin Range(s), Distinct(s)
  PROVE  Distinct(Append(s, b))
<1>. SUFFICES ASSUME NEW i \in 1..(Len(s) + 1), NEW j \in 1..(Len(s) + 1),
                     Append(s, b)[i] = Append(s, b)[j]
              PROVE  i = j
  BY AppendFacts DEF Distinct
<1>1. Len(s) \in Nat /\ (i \in 1..Len(s) \/ i = Len(s) + 1) /\ (j \in 1..Len(s) \/ j = Len(s) + 1)
  BY RangeFacts
<1>. QED BY <1>1, AppendFacts, RangeFacts DEF Distinct

\* Finitely many system calls have finitely many reservations, and begin_op
\* counts every system call with all that it may reserve.
LEMMA ReservationBound ==
  ASSUME LogAssumption, NEW A \in SUBSET Procs, NEW U \in SUBSET (A \X (1..MAXOPBLOCKS))
  PROVE  /\ IsFiniteSet(A) /\ Cardinality(A) \in Nat
         /\ IsFiniteSet(U) /\ Cardinality(U) \in Nat
         /\ Cardinality(U) <= Cardinality(A) * MAXOPBLOCKS
<1>1. IsFiniteSet(A) /\ Cardinality(A) \in Nat
  BY FS_Subset, FS_CardinalityType DEF LogAssumption
<1>2. IsFiniteSet(1..MAXOPBLOCKS) /\ Cardinality(1..MAXOPBLOCKS) = MAXOPBLOCKS
  BY FS_Interval DEF LogAssumption
<1>3. IsFiniteSet(A \X (1..MAXOPBLOCKS))
      /\ Cardinality(A \X (1..MAXOPBLOCKS)) = Cardinality(A) * MAXOPBLOCKS
  BY Zenon, <1>1, <1>2, FS_Product
<1>. QED BY <1>1, <1>3, FS_Subset, FS_CardinalityType

\* The same of the system calls and the reservations of a state.
LEMMA UnusedFacts ==
  ASSUME LogAssumption
  PROVE  /\ Active \in SUBSET Procs /\ Unused \in SUBSET (Active \X (1..MAXOPBLOCKS))
         /\ IsFiniteSet(Active) /\ Cardinality(Active) \in Nat
         /\ IsFiniteSet(Unused) /\ Cardinality(Unused) \in Nat
<1>1. Active \in SUBSET Procs /\ Unused \in SUBSET (Active \X (1..MAXOPBLOCKS))
  BY DEF Unused, Active
<1>. QED BY <1>1, ReservationBound

\* Inside a system call log_write finds room and end_op finds no commit: the
\* reservation of the last of the MAXOPBLOCKS blocks is never used.
LEMMA SystemCallHasRoom ==
  ASSUME LogAssumption, LogInv, NEW p \in Procs, pc[p] = "op"
  PROVE  Len(lh) < LOGBLOCKS /\ outstanding >= 1 /\ ~committing /\ up
<1>1. p \in Active BY DEF Active
<1>2. outstanding >= 1 /\ ~committing /\ up
  BY <1>1, UnusedFacts, FS_EmptySet DEF LogInv, CountInv
<1>3. Cardinality(wrote[p]) \in Nat /\ Cardinality(wrote[p]) < MAXOPBLOCKS
  BY FS_CardinalityType DEF LogInv, SpaceInv, LogAssumption
<1>4. <<p, MAXOPBLOCKS>> \in Unused
  BY <1>3 DEF Unused, LogAssumption
<1>5. Cardinality(Unused) \in Nat /\ Cardinality(Unused) # 0
  BY <1>4, UnusedFacts, FS_EmptySet
<1>6. Len(lh) + Cardinality(Unused) <= LOGBLOCKS /\ Len(lh) \in Nat
  BY RangeFacts DEF LogInv, SpaceInv, TypeOK
<1>. QED BY <1>2, <1>5, <1>6 DEF LogAssumption

\* The process that commits is at the label the invariant speaks of.
LEMMA Committing ==
  ASSUME LogInv, NEW p \in Procs, pc[p] \in Committers, up
  PROVE  committing /\ CommitAt(pc[p])
BY DEF LogInv, CountInv, CommitInv

-----------------------------------------------------------------------------
(* The types.                                                              *)

LEMMA InitType ==
  ASSUME LogAssumption, Init
  PROVE  TypeOK
<1>1. DOMAIN buf = {} /\ head \in Seq(Blocks) /\ lh \in Seq(Blocks) /\ Len(head) = 0 /\ Len(lh) = 0
  BY DEF Init
<1>2. home \in [Blocks -> Data] /\ area \in [1..LOGBLOCKS -> Data]
  BY DEF Init
<1>3. /\ pc \in [Procs -> {"out", "asleep", "begin", "op"} \cup Committers]
      /\ wrote \in [Procs -> SUBSET Blocks] /\ tail \in 1..(LOGBLOCKS + 1) /\ outstanding \in Nat
  BY DEF Init, LogAssumption
<1>4. committing \in BOOLEAN /\ up \in BOOLEAN /\ panic \in BOOLEAN
  BY Zenon DEF Init
<1>. QED BY <1>1, <1>2, <1>3, <1>4 DEF TypeOK, LogAssumption

\* The types are kept by every step of begin_op, log_write, end_op, commit, a
\* crash and recovery.
LEMMA StepType ==
  ASSUME LogAssumption, LogInv, [Next]_vars
  PROVE  TypeOK'
<1>. USE DEF LogInv, TypeOK, Committers, disk
<1>1. ASSUME NEW p \in Procs, BeginOp(p) PROVE TypeOK'
  BY <1>1 DEF BeginOp, At, Goto, LogAssumption
<1>2. ASSUME NEW p \in Procs, EndOp(p) PROVE TypeOK'
  <2>1. outstanding' \in Nat
    <3>1. Active # {} BY <1>2 DEF EndOp, At, Active
    <3>. QED BY <1>2, <3>1, UnusedFacts, FS_EmptySet DEF EndOp, CountInv
  <2>2. pc' \in [Procs -> {"out", "asleep", "begin", "op"} \cup Committers]
    BY <1>2 DEF EndOp, At, Goto, WakeupAnd
  <2>3. tail' \in 1..(LOGBLOCKS + 1) /\ wrote' \in [Procs -> SUBSET Blocks]
    BY <1>2 DEF EndOp, LogAssumption
  <2>4. committing' \in BOOLEAN /\ panic' \in BOOLEAN
    BY Zenon, <1>2 DEF EndOp
  <2>. QED BY <1>2, <2>1, <2>2, <2>3, <2>4 DEF EndOp
<1>3. ASSUME NEW p \in Procs, NEW b \in Blocks, NEW v \in Data, LogWrite(p, b, v) PROVE TypeOK'
  <2>1. lh' \in Seq(Blocks) /\ Len(lh') <= LOGBLOCKS
    <3>1. CASE lh' = lh BY <3>1
    <3>2. CASE lh' = Append(lh, b) /\ ~(Len(lh) >= LOGBLOCKS)
      BY <3>2, AppendFacts DEF LogAssumption
    <3>. QED BY <1>3, <3>1, <3>2 DEF LogWrite
  <2>2. DOMAIN buf' \subseteq Blocks /\ \A c \in DOMAIN buf' : buf'[c] \in Data
    BY <1>3 DEF LogWrite
  <2>. QED BY Zenon, <1>3, <2>1, <2>2 DEF LogWrite, At
<1>4. ASSUME NEW p \in Procs, WriteLog(p) PROVE TypeOK'
  <2>1. tail \in 1..Len(lh) /\ DOMAIN buf = Range(lh)
    BY Zenon, <1>4, Committing DEF WriteLog, At, CommitAt, Pinned
  <2>2. lh[tail] \in Blocks /\ View(lh[tail]) \in Data
    BY <2>1, RangeFacts DEF View
  <2>3. area' \in [1..LOGBLOCKS -> Data]
    BY Zenon, <1>4, <2>2 DEF WriteLog
  <2>4. tail' \in 1..(LOGBLOCKS + 1) /\ pc' \in [Procs -> {"out", "asleep", "begin", "op"} \cup Committers]
    <3>1. Len(lh) \in Nat BY RangeFacts
    <3>2. tail' = 1 \/ (tail' = tail + 1 /\ tail # Len(lh)) BY <1>4 DEF WriteLog
    <3>3. tail' \in 1..(LOGBLOCKS + 1) BY <2>1, <3>1, <3>2 DEF LogAssumption
    <3>. QED BY Zenon, <1>4, <3>3 DEF WriteLog, Goto
  <2>. QED BY <1>4, <2>3, <2>4 DEF WriteLog
<1>5. ASSUME NEW p \in Procs, WriteHead(p) PROVE TypeOK'
  BY <1>5 DEF WriteHead, At, Goto
<1>6. ASSUME NEW p \in Procs, InstallTrans(p) PROVE TypeOK'
  <2>1. tail \in 1..Len(lh) BY Zenon, <1>6, Committing DEF InstallTrans, At, CommitAt
  <2>2. area[tail] \in Data BY <2>1 DEF LogAssumption
  <2>. QED BY <1>6, <2>1, <2>2 DEF InstallTrans, At, Goto, LogAssumption
<1>7. ASSUME NEW p \in Procs, ClearHead(p) PROVE TypeOK'
  BY <1>7 DEF ClearHead, At, Goto, LogAssumption
<1>8. ASSUME NEW p \in Procs, CommitDone(p) PROVE TypeOK'
  BY Zenon, <1>8 DEF CommitDone, At, WakeupAnd
<1>9. CASE Crash
  <2>1. DOMAIN buf' = {} BY <1>9 DEF Crash
  <2>2. tail' \in 1..(LOGBLOCKS + 1) /\ outstanding' \in Nat /\ lh' \in Seq(Blocks) /\ Len(lh') <= LOGBLOCKS
    BY <1>9 DEF Crash, LogAssumption
  <2>3. committing' \in BOOLEAN /\ up' \in BOOLEAN /\ panic' \in BOOLEAN
    BY Zenon, <1>9 DEF Crash
  <2>. QED BY <1>9, <2>1, <2>2, <2>3 DEF Crash
<1>10. CASE RecoverInstall
  <2>1. tail \in 1..Len(lh) BY <1>10 DEF RecoverInstall
  <2>2. area[tail] \in Data BY <2>1 DEF LogAssumption
  <2>. QED BY <1>10, <2>1, <2>2 DEF RecoverInstall, LogAssumption
<1>11. CASE RecoverClear
  BY <1>11 DEF RecoverClear, LogAssumption
<1>12. CASE UNCHANGED vars
  BY <1>12 DEF vars
<1>. QED BY <1>1, <1>2, <1>3, <1>4, <1>5, <1>6, <1>7, <1>8, <1>9, <1>10, <1>11, <1>12
         DEF Next, Commit, Recover

-----------------------------------------------------------------------------
(* The counters.                                                           *)

LEMMA InitCount ==
  ASSUME LogAssumption, Init
  PROVE  CountInv
<1>1. Active = {} BY DEF Active, Init
<1>. QED BY <1>1, FS_EmptySet DEF CountInv, Init, Committers

\* outstanding counts the system calls, committing tells of the one process
\* that commits, and no step of a process panics.
LEMMA StepCount ==
  ASSUME LogAssumption, LogInv, [Next]_vars
  PROVE  CountInv'
<1>. USE DEF LogInv, CountInv, Committers
<1>. pc \in [Procs -> {"out", "asleep", "begin", "op"} \cup Committers]
  BY DEF TypeOK
<1>1. ASSUME NEW p \in Procs, BeginOp(p) PROVE CountInv'
  <2>. USE <1>1 DEF BeginOp, At, Goto
  <2>1. CASE committing \/ Len(lh) + (outstanding + 1) * MAXOPBLOCKS > LOGBLOCKS
    <3>1. Active' = Active BY <2>1 DEF Active
    <3>. QED BY <2>1, <3>1
  <2>2. CASE ~(committing \/ Len(lh) + (outstanding + 1) * MAXOPBLOCKS > LOGBLOCKS)
    <3>1. Active' = Active \cup {p} /\ p \notin Active BY <2>2 DEF Active
    <3>2. outstanding' = Cardinality(Active')
      BY Zenon, <2>2, <3>1, UnusedFacts, FS_AddElement
    <3>. QED BY <2>2, <3>1, <3>2
  <2>. QED BY <2>1, <2>2
<1>2. ASSUME NEW p \in Procs, EndOp(p) PROVE CountInv'
  <2>. USE <1>2 DEF EndOp, At, Goto
  <2>1. ~committing BY SystemCallHasRoom
  <2>2. Active' = Active \ {p} /\ p \in Active BY <2>1 DEF Active, WakeupAnd
  <2>3. outstanding' = Cardinality(Active')
    BY Zenon, <2>2, UnusedFacts, FS_RemoveElement
  <2>4. CASE outstanding = 1
    <3>1. Active' = {}
      BY <2>2, <2>3, <2>4, UnusedFacts, FS_RemoveElement, FS_EmptySet
    <3>. QED BY <2>1, <2>3, <2>4, <3>1
  <2>5. CASE outstanding # 1
    BY <2>1, <2>3, <2>5 DEF WakeupAnd
  <2>. QED BY <2>4, <2>5
<1>3. ASSUME NEW p \in Procs, NEW b \in Blocks, NEW v \in Data, LogWrite(p, b, v) PROVE CountInv'
  <2>1. ~(Len(lh) >= LOGBLOCKS \/ outstanding < 1)
    BY <1>3, SystemCallHasRoom, RangeFacts DEF LogWrite, At, TypeOK, LogAssumption
  <2>2. Active' = Active BY <1>3 DEF Active, LogWrite
  <2>. QED BY <1>3, <2>1, <2>2 DEF LogWrite
<1>4. ASSUME NEW p \in Procs, WriteLog(p) PROVE CountInv'
  <2>1. Active' = Active BY <1>4 DEF Active, WriteLog, At, Goto
  <2>. QED BY <1>4, <2>1 DEF WriteLog, At, Goto
<1>5. ASSUME NEW p \in Procs, WriteHead(p) PROVE CountInv'
  <2>1. Active' = Active BY <1>5 DEF Active, WriteHead, At, Goto
  <2>. QED BY <1>5, <2>1 DEF WriteHead, At, Goto
<1>6. ASSUME NEW p \in Procs, InstallTrans(p) PROVE CountInv'
  <2>1. Active' = Active BY <1>6 DEF Active, InstallTrans, At, Goto
  <2>. QED BY <1>6, <2>1 DEF InstallTrans, At, Goto
<1>7. ASSUME NEW p \in Procs, ClearHead(p) PROVE CountInv'
  <2>1. Active' = Active BY <1>7 DEF Active, ClearHead, At, Goto
  <2>. QED BY <1>7, <2>1 DEF ClearHead, At, Goto
<1>8. ASSUME NEW p \in Procs, CommitDone(p) PROVE CountInv'
  <2>1. Active' = Active BY <1>8 DEF Active, CommitDone, At, WakeupAnd
  <2>. QED BY <1>8, <2>1 DEF CommitDone, At, WakeupAnd
<1>9. CASE Crash
  <2>1. Active' = {} BY <1>9 DEF Active, Crash
  <2>. QED BY <1>9, <2>1, FS_EmptySet DEF Crash
<1>10. CASE RecoverInstall
  <2>1. Active' = Active BY <1>10 DEF Active, RecoverInstall
  <2>. QED BY <1>10, <2>1 DEF RecoverInstall
<1>11. CASE RecoverClear
  <2>1. Active' = Active BY <1>11 DEF Active, RecoverClear
  <2>. QED BY <1>11, <2>1 DEF RecoverClear
<1>12. CASE UNCHANGED vars
  <2>1. Active' = Active BY <1>12 DEF Active, vars
  <2>. QED BY <1>12, <2>1 DEF vars
<1>. QED BY <1>1, <1>2, <1>3, <1>4, <1>5, <1>6, <1>7, <1>8, <1>9, <1>10, <1>11, <1>12
         DEF Next, Commit, Recover

-----------------------------------------------------------------------------
(* The space in the log.                                                   *)

LEMMA InitSpace ==
  ASSUME LogAssumption, Init
  PROVE  SpaceInv
<1>1. Unused = {} BY DEF Unused, Init
<1>2. Len(lh) = 0 BY DEF Init
<1>3. \A p \in Procs : wrote[p] = {} BY DEF Init
<1>4. \A p \in Procs : IsFiniteSet(wrote[p]) /\ Cardinality(wrote[p]) <= OpBlocks
  BY <1>3, FS_EmptySet DEF LogAssumption
<1>5. Len(lh) + Cardinality(Unused) <= LOGBLOCKS
  BY <1>1, <1>2, FS_EmptySet DEF LogAssumption
<1>. QED BY <1>3, <1>4, <1>5 DEF SpaceInv

\* begin_op reserves MAXOPBLOCKS blocks only where they fit, log_write takes
\* a block of the reservation for every block it adds to the header, and
\* end_op gives the rest back.
LEMMA StepSpace ==
  ASSUME LogAssumption, LogInv, [Next]_vars
  PROVE  SpaceInv'
<1>. USE DEF LogInv
<1>. /\ pc \in [Procs -> {"out", "asleep", "begin", "op"} \cup Committers]
     /\ wrote \in [Procs -> SUBSET Blocks] /\ lh \in Seq(Blocks) /\ Len(lh) \in Nat /\ outstanding \in Nat
     /\ MAXOPBLOCKS \in Nat /\ LOGBLOCKS \in Nat /\ OpBlocks \in Nat
  BY RangeFacts DEF TypeOK, LogAssumption
\* A step that reserves nothing and leaves the header and the writes alone.
<1>0. ASSUME UNCHANGED <<lh, wrote>>, \A q \in Procs : pc'[q] = "op" <=> pc[q] = "op" PROVE SpaceInv'
  <2>1. Unused' = Unused BY <1>0 DEF Unused
  <2>. QED BY <1>0, <2>1 DEF SpaceInv
<1>1. ASSUME NEW p \in Procs, BeginOp(p) PROVE SpaceInv'
  <2>1. CASE committing \/ Len(lh) + (outstanding + 1) * MAXOPBLOCKS > LOGBLOCKS
    BY <1>0, <1>1, <2>1 DEF BeginOp, At, Goto
  <2>2. CASE ~(committing \/ Len(lh) + (outstanding + 1) * MAXOPBLOCKS > LOGBLOCKS)
    <3>1. pc' = [pc EXCEPT ![p] = "op"] /\ lh' = lh /\ wrote' = wrote /\ outstanding' = outstanding + 1
      BY <1>1, <2>2 DEF BeginOp, Goto
    <3>2. Active' \in SUBSET Procs /\ Unused' \in SUBSET (Active' \X (1..MAXOPBLOCKS))
      BY DEF Unused, Active
    <3>3. Cardinality(Active') = outstanding + 1
      BY <3>1, StepCount DEF CountInv
    <3>4. Cardinality(Unused') \in Nat /\ Cardinality(Unused') <= (outstanding + 1) * MAXOPBLOCKS
      BY <3>2, <3>3, ReservationBound
    <3>5. (outstanding + 1) * MAXOPBLOCKS \in Nat OBVIOUS
    <3>6. Len(lh') + Cardinality(Unused') <= LOGBLOCKS
      BY <2>2, <3>1, <3>4, <3>5
    <3>7. \A q \in Procs : pc'[q] # "op" => pc[q] # "op"
      BY <3>1
    <3>. QED BY <3>1, <3>6, <3>7 DEF SpaceInv
  <2>. QED BY <2>1, <2>2
<1>2. ASSUME NEW p \in Procs, EndOp(p) PROVE SpaceInv'
  <2>1. ~committing BY <1>2, SystemCallHasRoom DEF EndOp, At
  <2>2. /\ \A q \in Procs : pc'[q] = "op" <=> pc[q] = "op" /\ q # p
        /\ wrote' = [wrote EXCEPT ![p] = {}] /\ lh' = lh
    BY <1>2, <2>1 DEF EndOp, At, Goto, WakeupAnd
  <2>3. Unused' \in SUBSET Unused BY <2>2 DEF Unused
  <2>4. Cardinality(Unused') \in Nat /\ Cardinality(Unused') <= Cardinality(Unused)
    BY <2>3, UnusedFacts, FS_Subset, FS_CardinalityType
  <2>5. Len(lh') + Cardinality(Unused') <= LOGBLOCKS
    BY <2>2, <2>4, UnusedFacts DEF SpaceInv
  <2>6. \A q \in Procs : wrote'[q] = IF q = p THEN {} ELSE wrote[q]
    BY <2>2
  <2>. QED BY <2>2, <2>5, <2>6, FS_EmptySet DEF SpaceInv
<1>3. ASSUME NEW p \in Procs, NEW b \in Blocks, NEW v \in Data, LogWrite(p, b, v) PROVE SpaceInv'
  <2>1. Len(lh) < LOGBLOCKS /\ outstanding >= 1
    BY <1>3, SystemCallHasRoom DEF LogWrite, At
  <2>2. /\ lh' = IF b \in Range(lh) THEN lh ELSE Append(lh, b)
        /\ wrote' = [wrote EXCEPT ![p] = @ \cup {b}]
        /\ pc' = pc /\ pc[p] = "op"
        /\ Cardinality(wrote[p] \cup {b}) <= OpBlocks
    BY <1>3, <2>1 DEF LogWrite, At
  <2>3. Range(lh') = Range(lh) \cup {b} /\ Len(lh') \in Nat /\ Len(lh') <= Len(lh) + 1
    BY <2>2, AppendFacts
  <2>4. /\ IsFiniteSet(wrote[p]) /\ Cardinality(wrote[p]) \in Nat
        /\ IsFiniteSet(wrote[p] \cup {b})
        /\ b \notin wrote[p] => Cardinality(wrote[p] \cup {b}) = Cardinality(wrote[p]) + 1
    BY FS_AddElement, FS_CardinalityType DEF SpaceInv
  <2>5. \A q \in Procs : wrote'[q] = IF q = p THEN wrote[p] \cup {b} ELSE wrote[q]
    BY <2>2
  <2>6. \A q \in Procs : /\ IsFiniteSet(wrote'[q]) /\ Cardinality(wrote'[q]) <= OpBlocks
                         /\ wrote'[q] \subseteq Range(lh')
                         /\ pc'[q] # "op" => wrote'[q] = {}
    BY <2>2, <2>3, <2>4, <2>5 DEF SpaceInv
  <2>7. CASE b \in wrote[p]
    <3>1. wrote' = wrote /\ lh' = lh BY <2>2, <2>7 DEF SpaceInv
    <3>. QED BY <1>0, <2>2, <3>1
  <2>8. CASE b \notin wrote[p]
    <3>. DEFINE u == <<p, Cardinality(wrote[p]) + 1>>
    <3>1. u \in Unused BY <2>2, <2>4, <2>8 DEF Unused, LogAssumption
    <3>2. Unused' \in SUBSET (Unused \ {u})
      BY <2>2, <2>4, <2>5, <2>8 DEF Unused
    <3>. HIDE DEF u
    <3>3. /\ IsFiniteSet(Unused \ {u}) /\ Cardinality(Unused) \in Nat
          /\ Cardinality(Unused \ {u}) = Cardinality(Unused) - 1
      BY <3>1, UnusedFacts, FS_RemoveElement
    <3>4. Cardinality(Unused') \in Nat /\ Cardinality(Unused') <= Cardinality(Unused) - 1
      BY <3>2, <3>3, FS_Subset, FS_CardinalityType
    <3>5. Len(lh) + Cardinality(Unused) <= LOGBLOCKS BY DEF SpaceInv
    <3>6. Len(lh') + Cardinality(Unused') <= LOGBLOCKS
      BY <2>3, <3>3, <3>4, <3>5
    <3>. QED BY <2>6, <3>6 DEF SpaceInv
  <2>. QED BY <2>7, <2>8
<1>4. ASSUME NEW p \in Procs, WriteLog(p) \/ WriteHead(p) \/ InstallTrans(p) \/ CommitDone(p) PROVE SpaceInv'
  BY <1>0, <1>4 DEF WriteLog, WriteHead, InstallTrans, CommitDone, At, Goto, WakeupAnd
\* A step after which there is no system call.
<1>5. ASSUME \A q \in Procs : pc'[q] # "op" /\ wrote'[q] = {}, Len(lh') \in Nat, Len(lh') <= LOGBLOCKS
      PROVE  SpaceInv'
  <2>1. Unused' = {} BY <1>5 DEF Unused
  <2>2. \A q \in Procs : IsFiniteSet(wrote'[q]) /\ Cardinality(wrote'[q]) <= OpBlocks
    <3>1. IsFiniteSet({}) /\ Cardinality({}) <= OpBlocks BY FS_EmptySet
    <3>. QED BY <1>5, <3>1, Zenon
  <2>3. Len(lh') + Cardinality(Unused') <= LOGBLOCKS
    BY <1>5, <2>1, FS_EmptySet
  <2>. QED BY <1>5, <2>2, <2>3 DEF SpaceInv
<1>6. ASSUME NEW p \in Procs, ClearHead(p) PROVE SpaceInv'
  <2>1. Active = {} BY <1>6 DEF ClearHead, At, CountInv, Committers
  <2>2. \A q \in Procs : pc[q] # "op" /\ pc'[q] # "op" /\ wrote'[q] = {}
    BY <1>6, <2>1 DEF ClearHead, At, Goto, Active, SpaceInv
  <2>3. Len(lh') = 0 BY <1>6 DEF ClearHead
  <2>. QED BY <1>5, <2>2, <2>3
<1>7. CASE Crash
  <2>1. \A q \in Procs : pc'[q] # "op" /\ wrote'[q] = {}
    BY <1>7 DEF Crash
  <2>2. Len(lh') \in Nat /\ Len(lh') <= LOGBLOCKS
    BY <1>7, RangeFacts DEF Crash, TypeOK
  <2>. QED BY <1>5, <2>1, <2>2
<1>8. CASE RecoverInstall
  BY <1>0, <1>8 DEF RecoverInstall
<1>9. CASE RecoverClear
  <2>1. \A q \in Procs : pc[q] # "op" /\ pc'[q] # "op" /\ wrote'[q] = {}
    BY <1>9 DEF RecoverClear, CountInv, SpaceInv
  <2>2. Len(lh') = 0 BY <1>9 DEF RecoverClear
  <2>. QED BY <1>5, <2>1, <2>2
<1>10. CASE UNCHANGED vars
  BY <1>0, <1>10 DEF vars
<1>. QED BY <1>1, <1>2, <1>3, <1>4, <1>6, <1>7, <1>8, <1>9, <1>10 DEF Next, Commit, Recover

-----------------------------------------------------------------------------
(* The progress of commit and recovery.                                    *)

LEMMA InitCommit ==
  ASSUME LogAssumption, Init
  PROVE  CommitInv
<1>1. lh = <<>> /\ head = <<>> /\ Len(lh) = 0 /\ Range(lh) = {} /\ DOMAIN buf = {} /\ up /\ ~committing
  BY DEF Init, Range
<1>. QED BY <1>1 DEF CommitInv, Distinct, Pinned

\* What commit and recovery have copied stays where it is until the header is
\* cleared: while a process commits, no other one changes the header, the
\* buffers or the log area.
LEMMA StepCommit ==
  ASSUME LogAssumption, LogInv, [Next]_vars
  PROVE  CommitInv'
<1>. USE DEF LogInv
<1>. /\ pc \in [Procs -> {"out", "asleep", "begin", "op"} \cup Committers]
     /\ lh \in Seq(Blocks) /\ Len(lh) \in Nat /\ LOGBLOCKS \in Nat /\ Len(lh) <= LOGBLOCKS
     /\ area \in [1..LOGBLOCKS -> Data] /\ home \in [Blocks -> Data]
     /\ \A i \in 1..Len(lh) : lh[i] \in Blocks /\ lh[i] \in Range(lh)
     /\ \A b : b \in Range(lh) <=> \E i \in 1..Len(lh) : lh[i] = b
     /\ Distinct(lh)
  BY RangeFacts DEF TypeOK, LogAssumption, CommitInv
\* A step outside of commit and recovery.
<1>0. ASSUME UNCHANGED <<home, area, head, lh, buf, tail, up, committing>>,
             \A q \in Procs : pc[q] \in Committers => pc'[q] = pc[q]
      PROVE  CommitInv'
  <2>1. Pinned' <=> Pinned BY <1>0 DEF Pinned
  <2>2. \A l \in Committers : CommitAt(l)' <=> CommitAt(l) BY <1>0, <2>1 DEF CommitAt, Committers
  <2>3. RecoverAt' <=> RecoverAt BY <1>0 DEF RecoverAt
  <2>. QED BY <1>0, <2>1, <2>2, <2>3 DEF CommitInv, Distinct
<1>1. ASSUME NEW p \in Procs, BeginOp(p) PROVE CommitInv'
  BY <1>0, <1>1 DEF BeginOp, At, Goto, disk, Committers
<1>2. ASSUME NEW p \in Procs, EndOp(p) PROVE CommitInv'
  <2>1. ~committing /\ up BY <1>2, SystemCallHasRoom DEF EndOp, At
  <2>2. Pinned BY <2>1 DEF CommitInv
  <2>3. UNCHANGED <<home, area, head, lh, buf, up>> /\ tail' = 1
    BY <1>2, <2>1 DEF EndOp, disk
  <2>4. Pinned' /\ Distinct(lh') BY <2>2, <2>3 DEF Pinned, Distinct
  <2>5. CASE outstanding = 1
    <3>1. pc'[p] = (IF lh = <<>> THEN "done" ELSE "writelog") /\ committing'
      BY <1>2, <2>1, <2>5 DEF EndOp, Goto
    <3>2. lh # <<>> => 1 \in 1..Len(lh) BY RangeFacts
    <3>3. CASE lh = <<>>
      <4>1. CommitAt("done")' BY <2>3, <2>4, <3>3 DEF CommitAt
      <4>. QED BY <2>1, <2>3, <2>4, <3>1, <3>3, <4>1 DEF CommitInv, Committers
    <3>4. CASE lh # <<>>
      <4>1. CommitAt("writelog")' BY <2>3, <2>4, <3>2, <3>4 DEF CommitAt
      <4>. QED BY <2>1, <2>3, <2>4, <3>1, <3>4, <4>1 DEF CommitInv, Committers
    <3>. QED BY <3>3, <3>4
  <2>6. CASE outstanding # 1
    <3>1. ~committing' BY <1>2, <2>1, <2>6 DEF EndOp
    <3>. QED BY <2>1, <2>3, <2>4, <3>1 DEF CommitInv
  <2>. QED BY <2>5, <2>6
<1>3. ASSUME NEW p \in Procs, NEW b \in Blocks, NEW v \in Data, LogWrite(p, b, v) PROVE CommitInv'
  <2>1. Len(lh) < LOGBLOCKS /\ outstanding >= 1 /\ outstanding \in Nat /\ ~committing /\ up
    BY <1>3, SystemCallHasRoom DEF LogWrite, At, TypeOK
  <2>2. /\ lh' = IF b \in Range(lh) THEN lh ELSE Append(lh, b)
        /\ DOMAIN buf' = DOMAIN buf \cup {b}
        /\ UNCHANGED <<head, up, committing>>
    BY <1>3, <2>1 DEF LogWrite, disk
  <2>3. Pinned BY <2>1 DEF CommitInv
  <2>4. Range(lh') = Range(lh) \cup {b} /\ Distinct(lh')
    BY <2>2, AppendFacts, AppendDistinct
  <2>. QED BY <2>1, <2>2, <2>3, <2>4 DEF CommitInv, Pinned
<1>4. ASSUME NEW p \in Procs, WriteLog(p) PROVE CommitInv'
  <2>. USE <1>4 DEF WriteLog, At, Goto
  <2>1. Pinned /\ tail \in 1..Len(lh) /\ (\A i \in 1..Len(lh) : i < tail => area[i] = buf[lh[i]]) /\ committing
    BY Zenon, Committing DEF CommitAt, Committers
  <2>2. Pinned' /\ Distinct(lh') BY <2>1 DEF Pinned, Distinct
  <2>3. area' = [area EXCEPT ![tail] = buf[lh[tail]]]
    BY Zenon, <2>1 DEF View, Pinned
  <2>4. \A i \in 1..Len(lh) : i <= tail => area'[i] = buf[lh[i]]
    <3>. TAKE i \in 1..Len(lh)
    <3>. HAVE i <= tail
    <3>1. i \in DOMAIN area /\ tail \in Int BY <2>1
    <3>2. i # tail => i < tail BY ONLY <3>1, i \in 1..Len(lh), i <= tail
    <3>. QED BY ONLY <2>1, <2>3, <3>1, <3>2
  <2>5. CASE tail = Len(lh)
    <3>1. CommitAt("writehead")' BY <2>1, <2>2, <2>4, <2>5, RangeFacts DEF CommitAt
    <3>. QED BY <2>1, <2>2, <2>5, <3>1 DEF CommitInv, Committers
  <2>6. CASE tail # Len(lh)
    <3>1. CommitAt("writelog")' BY <2>1, <2>2, <2>4, <2>6 DEF CommitAt
    <3>. QED BY <2>1, <2>2, <2>6, <3>1 DEF CommitInv, Committers
  <2>. QED BY <2>5, <2>6
<1>5. ASSUME NEW p \in Procs, WriteHead(p) PROVE CommitInv'
  <2>. USE <1>5 DEF WriteHead, At, Goto
  <2>1. Pinned /\ tail = 1 /\ lh # <<>> /\ (\A i \in 1..Len(lh) : area[i] = buf[lh[i]]) /\ committing
    BY Zenon, Committing DEF CommitAt, Committers
  <2>2. 1 \in 1..Len(lh) /\ DOMAIN buf = {lh[i] : i \in 1..Len(lh)}
    BY <2>1, RangeFacts DEF Pinned, Range
  <2>3. CommitAt("install")' BY <2>1, <2>2 DEF CommitAt
  <2>. QED BY <2>1, <2>3 DEF CommitInv, Committers, Distinct
<1>6. ASSUME NEW p \in Procs, InstallTrans(p) PROVE CommitInv'
  <2>. USE <1>6 DEF InstallTrans, At, Goto
  <2>1. /\ head = lh /\ tail \in 1..Len(lh)
        /\ DOMAIN buf = {lh[i] : i \in tail..Len(lh)}
        /\ \A i \in 1..Len(lh) : IF i < tail THEN home[lh[i]] = area[i] ELSE area[i] = buf[lh[i]]
        /\ committing
    BY Zenon, Committing DEF CommitAt, Committers
  <2>2. \A i \in 1..Len(lh) : i <= tail => home'[lh[i]] = area[i]
    BY <2>1 DEF Distinct
  <2>3. DOMAIN buf' = {lh[i] : i \in (tail + 1)..Len(lh)}
    BY <2>1 DEF Distinct
  <2>4. \A i \in 1..Len(lh) : i > tail => area[i] = buf'[lh[i]]
    BY <2>1, <2>3 DEF Distinct
  <2>5. CASE tail = Len(lh)
    <3>1. DOMAIN buf' = {} BY <2>1, <2>3, <2>5
    <3>2. CommitAt("clear")' BY <2>1, <2>2, <2>5, <3>1 DEF CommitAt
    <3>. QED BY <2>1, <2>5, <3>2 DEF CommitInv, Committers, Distinct
  <2>6. CASE tail # Len(lh)
    <3>1. tail' = tail + 1 /\ tail' \in 1..Len(lh) BY <2>1, <2>6
    <3>2. \A i \in 1..Len(lh) : (i < tail' <=> i <= tail) /\ (~(i < tail') <=> i > tail)
      BY <2>1, <3>1
    <3>3. \A i \in 1..Len(lh) : IF i < tail' THEN home'[lh[i]] = area[i] ELSE area[i] = buf'[lh[i]]
      BY Zenon, <2>2, <2>4, <3>2
    <3>4. CommitAt("install")'
      <4>1. lh' = lh /\ head' = lh /\ area' = area BY <2>1
      <4>2. DOMAIN buf' = {lh'[i] : i \in tail'..Len(lh')} BY ONLY <2>3, <3>1, <4>1
      <4>. QED BY ONLY <3>1, <3>3, <4>1, <4>2 DEF CommitAt
    <3>. QED BY <2>1, <2>6, <3>4 DEF CommitInv, Committers, Distinct
  <2>. QED BY <2>5, <2>6
<1>7. ASSUME NEW p \in Procs, ClearHead(p) PROVE CommitInv'
  <2>. USE <1>7 DEF ClearHead, At, Goto
  <2>1. DOMAIN buf = {} /\ committing BY Zenon, Committing DEF CommitAt, Committers
  <2>2. Len(lh') = 0 /\ Range(lh') = {} BY DEF Range
  <2>3. CommitAt("done")' BY <2>1, <2>2 DEF CommitAt, Pinned
  <2>. QED BY <2>1, <2>2, <2>3 DEF CommitInv, Committers, Distinct
<1>8. ASSUME NEW p \in Procs, CommitDone(p) PROVE CommitInv'
  <2>. USE <1>8 DEF CommitDone, At, disk
  <2>1. Pinned BY Zenon, Committing DEF CommitAt, Committers
  <2>. QED BY <2>1 DEF CommitInv, Pinned, Distinct
<1>9. CASE Crash
  <2>. USE <1>9 DEF Crash, disk
  <2>1. Distinct(head) /\ head \in Seq(Blocks)
    <3>1. head = lh \/ head = <<>> BY Zenon DEF CommitInv, CommitAt, RecoverAt, Pinned, Committers
    <3>2. Len(<<>>) = 0 OBVIOUS
    <3>. QED BY <3>1, <3>2 DEF Distinct, TypeOK
  <2>2. RecoverAt' BY <2>1, RangeFacts DEF RecoverAt
  <2>. QED BY <2>1, <2>2 DEF CommitInv, Distinct
<1>10. CASE RecoverInstall
  <2>. USE <1>10 DEF RecoverInstall
  <2>1. RecoverAt /\ tail \in 1..Len(lh) BY DEF CommitInv, RecoverAt
  <2>2. \A i \in 1..Len(lh) : i <= tail => home'[lh[i]] = area[i]
    BY <2>1 DEF Distinct, RecoverAt
  <2>3. RecoverAt' BY <2>1, <2>2 DEF RecoverAt
  <2>. QED BY <2>3 DEF CommitInv, Distinct
<1>11. CASE RecoverClear
  <2>. USE <1>11 DEF RecoverClear
  <2>1. DOMAIN buf = {} /\ Len(lh') = 0 /\ Range(lh') = {} BY DEF CommitInv, RecoverAt, Range
  <2>2. ~committing
    BY DEF CountInv, CommitInv, Committers
  <2>. QED BY <2>1, <2>2 DEF CommitInv, Pinned, Distinct
<1>12. CASE UNCHANGED vars
  BY <1>0, <1>12 DEF vars
<1>. QED BY <1>1, <1>2, <1>3, <1>4, <1>5, <1>6, <1>7, <1>8, <1>9, <1>10, <1>11, <1>12
         DEF Next, Commit, Recover

-----------------------------------------------------------------------------
(* The invariant, and what it gives.                                       *)

LEMMA Inductive ==
  ASSUME LogAssumption
  PROVE  Spec => []LogInv
<1>1. Init => LogInv
  BY InitType, InitCount, InitSpace, InitCommit DEF LogInv
<1>2. LogInv /\ [Next]_vars => LogInv'
  BY StepType, StepCount, StepSpace, StepCommit DEF LogInv
<1>. QED BY <1>1, <1>2, PTL DEF Spec

\* The variables of log.c and of the disk keep their types; in particular the
\* header never gets longer than the log.
THEOREM LogTyped ==
  ASSUME LogAssumption
  PROVE  Spec => []TypeOK
<1>1. LogInv => TypeOK BY DEF LogInv
<1>. QED BY <1>1, Inductive, PTL

\* What begin_op reserves is enough, whatever the number of processes and the
\* size of the log: neither log_write nor end_op panics.
THEOREM LogHasRoom ==
  ASSUME LogAssumption
  PROVE  Spec => []LogNeverFull
<1>1. LogInv => LogNeverFull BY DEF LogInv, CountInv, LogNeverFull
<1>. QED BY <1>1, Inductive, PTL

-----------------------------------------------------------------------------
(* The log implements Transactions.                                        *)

\* What recovery would leave, block by block.
LEMMA DurableValue ==
  ASSUME head \in Seq(Blocks), Distinct(head)
  PROVE  /\ \A i \in 1..Len(head) : Durable[head[i]] = area[i]
         /\ \A b \in Blocks : b \notin Range(head) => Durable[b] = home[b]
<1>1. ASSUME NEW i \in 1..Len(head) PROVE Durable[head[i]] = area[i]
  <2>1. head[i] \in Blocks /\ head[i] \in Range(head) BY RangeFacts
  <2>2. (CHOOSE j \in 1..Len(head) : head[j] = head[i]) = i BY DEF Distinct
  <2>. QED BY Zenon, <2>1, <2>2 DEF Durable
<1>. QED BY Zenon, <1>1 DEF Durable

\* With an empty header it is what the blocks have at home.
LEMMA DurableHome ==
  ASSUME head = <<>>, home \in [Blocks -> Data]
  PROVE  Durable = home
<1>1. Range(head) = {} BY DEF Range
<1>. QED BY <1>1 DEF Durable

LEMMA InitRefines ==
  ASSUME LogAssumption, Init
  PROVE  T!Init
<1>1. Durable = home /\ home \in [Blocks -> Data] /\ up /\ DOMAIN buf = {}
  BY DurableHome DEF Init
<1>2. Current = home BY <1>1 DEF Current, View
<1>3. {p \in Procs : pc[p] = "op"} = {} BY DEF Init
<1>. QED BY <1>1, <1>2, <1>3 DEF T!Init

\* The header of the disk is the one of a commit or of recovery, or empty.
LEMMA HeadFacts ==
  ASSUME LogInv
  PROVE  head \in Seq(Blocks) /\ Distinct(head)
<1>1. head = lh \/ head = <<>>
  BY Zenon DEF LogInv, CommitInv, CommitAt, RecoverAt, Pinned, Committers
<1>2. Len(<<>>) = 0 OBVIOUS
<1>. QED BY <1>1, <1>2 DEF LogInv, TypeOK, CommitInv, Distinct

\* Every step of the log is a step of Transactions or none: writing the header
\* is the commit, and copying blocks to the log and home changes nothing that
\* a reader or a recovery could see.
LEMMA StepRefines ==
  ASSUME LogAssumption, LogInv, [Next]_vars
  PROVE  [T!Next]_(T!vars)
<1>. USE DEF LogInv
<1>. /\ pc \in [Procs -> {"out", "asleep", "begin", "op"} \cup Committers]
     /\ lh \in Seq(Blocks) /\ Len(lh) \in Nat /\ head \in Seq(Blocks) /\ Distinct(head) /\ Distinct(lh)
     /\ area \in [1..LOGBLOCKS -> Data] /\ home \in [Blocks -> Data]
     /\ \A i \in 1..Len(lh) : lh[i] \in Blocks /\ lh[i] \in Range(lh)
     /\ \A b : b \in Range(lh) <=> \E i \in 1..Len(lh) : lh[i] = b
  BY RangeFacts, HeadFacts DEF TypeOK, CommitInv
<1>0. ASSUME Durable' = Durable, Current' = Current, Active' = Active PROVE [T!Next]_(T!vars)
  BY <1>0 DEF T!vars, Active
<1>1. ASSUME NEW p \in Procs, BeginOp(p) PROVE [T!Next]_(T!vars)
  <2>. USE <1>1 DEF BeginOp, At, Goto, disk
  <2>1. Durable' = Durable /\ Current' = Current BY DEF Durable, Current, View
  <2>2. CASE committing \/ Len(lh) + (outstanding + 1) * MAXOPBLOCKS > LOGBLOCKS
    <3>1. Active' = Active BY ONLY <1>1, <2>2, pc \in [Procs -> {"out", "asleep", "begin", "op"} \cup Committers] DEF Active, BeginOp, At, Goto
    <3>. QED BY ONLY <1>0, <2>1, <3>1
  <2>3. CASE ~(committing \/ Len(lh) + (outstanding + 1) * MAXOPBLOCKS > LOGBLOCKS)
    <3>1. p \notin Active /\ Active' = Active \cup {p} BY <2>3 DEF Active
    <3>2. T!Begin(p) BY <2>1, <3>1 DEF T!Begin, Active
    <3>. QED BY <3>2 DEF T!Next
  <2>. QED BY <2>2, <2>3
<1>2. ASSUME NEW p \in Procs, EndOp(p) PROVE [T!Next]_(T!vars)
  <2>. USE <1>2 DEF EndOp, At, Goto, disk
  <2>1. ~committing /\ up BY SystemCallHasRoom
  <2>2. Durable' = Durable /\ Current' = Current BY DEF Durable, Current, View
  <2>3. p \in Active /\ Active' = Active \ {p} BY <2>1 DEF Active, WakeupAnd
  <2>4. T!End(p) BY <2>2, <2>3 DEF T!End, Active
  <2>. QED BY <2>4 DEF T!Next
<1>3. ASSUME NEW p \in Procs, NEW b \in Blocks, NEW v \in Data, LogWrite(p, b, v) PROVE [T!Next]_(T!vars)
  <2>. USE <1>3 DEF LogWrite, At, disk
  <2>1. ~(Len(lh) >= LOGBLOCKS \/ outstanding < 1) /\ up
    BY SystemCallHasRoom DEF TypeOK, LogAssumption
  <2>2. Durable' = Durable BY DEF Durable
  <2>3. buf' = [c \in DOMAIN buf \cup {b} |-> IF c = b THEN v ELSE buf[c]] /\ home' = home /\ up' = up
    BY <2>1
  <2>4. \A c \in Blocks : View(c)' = IF c = b THEN v ELSE View(c)
    BY <2>3 DEF View
  <2>5. Current' = [Current EXCEPT ![b] = v]
    <3>1. Current = [c \in Blocks |-> View(c)] BY <2>1 DEF Current
    <3>2. Current' = [c \in Blocks |-> View(c)'] BY <2>1, <2>3 DEF Current
    <3>. QED BY ONLY <2>4, <3>1, <3>2
  <2>6. p \in Active /\ Active' = Active BY DEF Active
  <2>7. T!Write(p, b, v) BY <2>2, <2>5, <2>6 DEF T!Write, Active
  <2>. QED BY <2>7 DEF T!Next
<1>4. ASSUME NEW p \in Procs, WriteLog(p) PROVE [T!Next]_(T!vars)
  <2>. USE <1>4 DEF WriteLog, At, Goto
  <2>1. head = <<>> BY Zenon, Committing DEF CommitAt, Committers, Pinned
  <2>2. Durable = home BY <2>1, DurableHome
  <2>3. Range(head') = {} BY <2>1 DEF Range
  <2>4. Durable' = home BY <2>3 DEF Durable
  <2>5. Current' = Current BY DEF Current, View
  <2>6. Active' = Active BY DEF Active
  <2>. QED BY ONLY <1>0, <2>2, <2>4, <2>5, <2>6
<1>5. ASSUME NEW p \in Procs, WriteHead(p) PROVE [T!Next]_(T!vars)
  <2>. USE <1>5 DEF WriteHead, At, Goto
  <2>1. Pinned /\ (\A i \in 1..Len(lh) : area[i] = buf[lh[i]]) /\ committing
    BY Zenon, Committing DEF CommitAt, Committers
  <2>2. Current' = Current BY DEF Current, View
  <2>3. \A i \in 1..Len(lh) : (CHOOSE j \in 1..Len(lh) : lh[j] = lh[i]) = i
    BY DEF Distinct
  <2>4. \A b \in Blocks : b \in Range(lh) => area[CHOOSE j \in 1..Len(lh) : lh[j] = b] = buf[b]
    BY <2>1, <2>3
  <2>5. \A b \in Blocks : Durable'[b] = View(b)
    BY <2>1, <2>4 DEF Durable, View, Pinned
  <2>6. Durable' = Current
    <3>1. Current = [b \in Blocks |-> View(b)] BY DEF Current
    <3>2. Durable' = [b \in Blocks |-> Durable'[b]] BY DEF Durable
    <3>. QED BY ONLY <2>5, <3>1, <3>2
  <2>7. Active = {} /\ Active' = {} BY <2>1 DEF Active, CountInv
  <2>8. T!Commit BY <2>2, <2>6, <2>7 DEF T!Commit, Active
  <2>. QED BY <2>8 DEF T!Next
<1>6. ASSUME NEW p \in Procs, InstallTrans(p) PROVE [T!Next]_(T!vars)
  <2>. USE <1>6 DEF InstallTrans, At, Goto
  <2>1. /\ head = lh /\ tail \in 1..Len(lh)
        /\ DOMAIN buf = {lh[i] : i \in tail..Len(lh)}
        /\ area[tail] = buf[lh[tail]]
    <3>1. CommitAt("install") BY Committing DEF Committers
    <3>. QED BY <3>1 DEF CommitAt
  <2>2. \A b \in Blocks : b \notin Range(head) => home'[b] = home[b] BY <2>1
  <2>3. Durable' = Durable BY <2>2 DEF Durable
  <2>4. lh[tail] \in DOMAIN buf /\ lh[tail] \in Blocks BY <2>1
  <2>5. \A b \in Blocks : View(b)' = View(b) BY <2>1, <2>4 DEF View
  <2>6. Current' = Current BY <2>5 DEF Current
  <2>7. Active' = Active BY DEF Active
  <2>. QED BY ONLY <1>0, <2>3, <2>6, <2>7
<1>7. ASSUME NEW p \in Procs, ClearHead(p) PROVE [T!Next]_(T!vars)
  <2>. USE <1>7 DEF ClearHead, At, Goto
  <2>1. head = lh /\ \A i \in 1..Len(lh) : home[lh[i]] = area[i]
    BY Zenon, Committing DEF CommitAt, Committers
  <2>2. \A b \in Blocks : Durable[b] = home[b] BY <2>1, DurableValue
  <2>3. Durable = home BY Zenon, <2>2 DEF Durable
  <2>4. Range(head') = {} BY DEF Range
  <2>5. Durable' = home BY <2>4 DEF Durable
  <2>6. Current' = Current BY DEF Current, View
  <2>7. Active' = Active BY DEF Active
  <2>. QED BY ONLY <1>0, <2>3, <2>5, <2>6, <2>7
<1>8. ASSUME NEW p \in Procs, CommitDone(p) PROVE [T!Next]_(T!vars)
  <2>. USE <1>8 DEF CommitDone, At, WakeupAnd, disk
  <2>1. Durable' = Durable /\ Current' = Current BY DEF Durable, Current, View
  <2>2. Active' = Active BY DEF Active
  <2>. QED BY ONLY <1>0, <2>1, <2>2
<1>9. CASE Crash
  <2>. USE <1>9 DEF Crash, disk
  <2>1. Durable' = Durable BY DEF Durable
  <2>2. Current' = Durable BY <2>1 DEF Current
  <2>3. Active' = {} BY DEF Active
  <2>4. T!Crash BY <2>1, <2>2, <2>3 DEF T!Crash, Active
  <2>. QED BY <2>4 DEF T!Next
<1>10. CASE RecoverInstall
  <2>. USE <1>10 DEF RecoverInstall
  <2>1. head = lh /\ tail \in 1..Len(lh) BY DEF CommitInv, RecoverAt
  <2>2. \A b \in Blocks : b \notin Range(head) => home'[b] = home[b] BY <2>1
  <2>3. Durable' = Durable BY <2>2 DEF Durable
  <2>4. Current' = Current BY <2>3 DEF Current
  <2>5. Active' = Active BY DEF Active
  <2>. QED BY ONLY <1>0, <2>3, <2>4, <2>5
<1>11. CASE RecoverClear
  <2>. USE <1>11 DEF RecoverClear
  <2>1. head = lh /\ DOMAIN buf = {} /\ \A i \in 1..Len(lh) : home[lh[i]] = area[i]
    BY DEF CommitInv, RecoverAt
  <2>2. \A b \in Blocks : Durable[b] = home[b] BY <2>1, DurableValue
  <2>3. Durable = home BY Zenon, <2>2 DEF Durable
  <2>4. Range(head') = {} BY DEF Range
  <2>5. Durable' = home BY <2>4 DEF Durable
  <2>6. Current' = home BY <2>1 DEF Current, View
  <2>7. Current = home BY <2>3 DEF Current
  <2>8. Active' = Active BY DEF Active
  <2>. QED BY ONLY <1>0, <2>3, <2>5, <2>6, <2>7, <2>8
<1>12. CASE UNCHANGED vars
  <2>1. Durable' = Durable /\ Current' = Current /\ Active' = Active
    BY <1>12 DEF vars, Durable, Current, View, Active
  <2>. QED BY ONLY Zenon, <1>0, <2>1
<1>. QED BY <1>1, <1>2, <1>3, <1>4, <1>5, <1>6, <1>7, <1>8, <1>9, <1>10, <1>11, <1>12
         DEF Next, Commit, Recover

\* commit, install_trans and recover_from_log make system calls atomic: with
\* crashes at any moment, also during recovery, the log behaves as Transactions
\* says, for any number of processes and blocks and any size of the log.
THEOREM LogIsAtomic ==
  ASSUME LogAssumption
  PROVE  Spec => LogAtomic
<1>1. Init => T!Init BY InitRefines
<1>2. LogInv /\ [Next]_vars => [T!Next]_(T!vars) BY StepRefines
<1>. QED BY <1>1, <1>2, Inductive, PTL DEF Spec, LogAtomic, T!Spec
=============================================================================
