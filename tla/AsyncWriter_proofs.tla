-------------------------- MODULE AsyncWriter_proofs --------------------------
(***************************************************************************)
(* Proofs about AsyncWriter: the inductive invariant AsyncInv and the      *)
(* safety properties that follow from it, for any number of application    *)
(* threads and of changes.                                                 *)
(***************************************************************************)
EXTENDS AsyncWriter, TLAPS

WritePlaces == {"adding", "pushing", "notifying"}

-----------------------------------------------------------------------------
(* Frames: what keeps each part of the invariant when it is not at stake.  *)

LEMMA ThreadFacts ==
  /\ Worker \in Threads /\ Destroyer \in Threads /\ Worker # Destroyer
  /\ \A c \in Callers : c \in Threads /\ c # Worker /\ c # Destroyer /\ c # Free
BY CallersAssumption DEF Threads, Worker, Destroyer, Free

LEMMA Moves ==
  ASSUME TypeOK, NEW t \in Threads, NEW place, Goto(t, place)
  PROVE  /\ pc'[t] = place
         /\ \A u \in Threads : u # t => pc'[u] = pc[u]
BY DEF TypeOK, Goto

LEMMA MovesType ==
  ASSUME TypeOK, NEW t \in Threads, Goto(t, pc'[t]),
         pc'[t] \in CallerPlaces \cup WorkerPlaces \cup DestroyerPlaces
  PROVE  pc' \in [Threads -> CallerPlaces \cup WorkerPlaces \cup DestroyerPlaces]
BY DEF TypeOK, Goto

LEMMA WriteFrame ==
  ASSUME WriteInv, UNCHANGED <<write_mutex, change, submitted, written>>,
         \A c \in Callers :
           \/ pc'[c] = pc[c]
           \/ /\ pc'[c] \in CallerPlaces \ WritePlaces
              /\ pc[c] \notin WritePlaces
  PROVE  WriteInv'
BY DEF WriteInv, WritePlaces

LEMMA QueueFrame ==
  ASSUME QueueInv, UNCHANGED <<submitted, completed, pending, queued>>,
         pc'[Worker] \in WorkerPlaces, Busy' <=> Busy
  PROVE  QueueInv'
<1>1. CountsAgree' /\ SubmissionOrder'
  BY DEF QueueInv, CountsAgree, SubmissionOrder
<1> QED BY <1>1 DEF QueueInv

LEMMA FateFrame ==
  ASSUME FateInv, UNCHANGED <<completed, failed, observed, fate, reported>>
  PROVE  FateInv'
BY DEF FateInv

LEMMA KeptFrame ==
  ASSUME FailureIsKept, UNCHANGED <<failed, observed, fate, reported>>,
         last_error' # "" \/ last_error' = last_error \/ failed = observed
  PROVE  FailureIsKept'
BY DEF FailureIsKept

LEMMA DestroyFrame ==
  ASSUME DestroyInv, UNCHANGED stopping, pc'[Destroyer] = pc[Destroyer],
         stopping => \A c \in Callers : pc'[c] = pc[c]
  PROVE  DestroyInv'
BY DEF DestroyInv

(* A thread moves and leaves alone what the places of its kind say.        *)

LEMMA Counters ==
  ASSUME TypeOK
  PROVE  /\ submitted \in Nat /\ completed \in Nat /\ failed \in Nat
         /\ observed \in Nat /\ MaxChanges \in Nat
<1>1. MaxChanges \in Nat
  BY ChangesAssumption
<1>2. /\ submitted \in 0..MaxChanges /\ completed \in 0..MaxChanges
      /\ failed \in 0..MaxChanges /\ observed \in 0..MaxChanges
  BY DEF TypeOK
<1> QED BY <1>1, <1>2

LEMMA TargetCleared ==
  ASSUME TypeOK, NEW c \in Callers, target' = [target EXCEPT ![c] = 0]
  PROVE  target' \in [Callers -> 0..MaxChanges]
BY ChangesAssumption DEF TypeOK

LEMMA CallerMoves ==
  ASSUME AsyncInv, NEW c \in Callers, NEW place \in CallerPlaces \ WritePlaces,
         Goto(c, place), pc[c] \notin WritePlaces, ~stopping,
         UNCHANGED <<write_mutex, change, submitted, written, completed,
                     pending, queued, stopping>>
  PROVE  /\ pc' \in [Threads -> CallerPlaces \cup WorkerPlaces \cup DestroyerPlaces]
         /\ WriteInv' /\ QueueInv' /\ DestroyInv'
<1> USE DEF AsyncInv
<1>1. c \in Threads /\ c # Worker /\ c # Destroyer
  BY ThreadFacts
<1>2. pc'[c] = place /\ \A u \in Threads : u # c => pc'[u] = pc[u]
  BY <1>1, Moves
<1>3. pc' \in [Threads -> CallerPlaces \cup WorkerPlaces \cup DestroyerPlaces]
  BY <1>1, <1>2, MovesType
<1>4. WriteInv'
  BY <1>1, <1>2, WriteFrame, ThreadFacts
<1>5. QueueInv'
  BY <1>1, <1>2, QueueFrame, ThreadFacts DEF QueueInv, Busy
<1>6. DestroyInv'
  BY <1>1, <1>2, DestroyFrame, ThreadFacts
<1> QED BY <1>3, <1>4, <1>5, <1>6

LEMMA WorkerMoves ==
  ASSUME AsyncInv, NEW place \in WorkerPlaces, Goto(Worker, place),
         UNCHANGED <<write_mutex, change, submitted, written, stopping>>
  PROVE  /\ pc' \in [Threads -> CallerPlaces \cup WorkerPlaces \cup DestroyerPlaces]
         /\ pc'[Worker] = place
         /\ WriteInv' /\ DestroyInv'
<1> USE DEF AsyncInv
<1>1. pc'[Worker] = place /\ \A u \in Threads : u # Worker => pc'[u] = pc[u]
  BY ThreadFacts, Moves
<1>2. pc' \in [Threads -> CallerPlaces \cup WorkerPlaces \cup DestroyerPlaces]
  BY <1>1, ThreadFacts, MovesType
<1>3. WriteInv'
  BY <1>1, WriteFrame, ThreadFacts
<1>4. DestroyInv'
  BY <1>1, DestroyFrame, ThreadFacts
<1> QED BY <1>1, <1>2, <1>3, <1>4

LEMMA DestroyerMoves ==
  ASSUME AsyncInv, NEW place \in DestroyerPlaces, Goto(Destroyer, place),
         UNCHANGED <<write_mutex, change, submitted, written, completed,
                     pending, queued>>
  PROVE  /\ pc' \in [Threads -> CallerPlaces \cup WorkerPlaces \cup DestroyerPlaces]
         /\ pc'[Destroyer] = place
         /\ \A c \in Callers : pc'[c] = pc[c]
         /\ WriteInv' /\ QueueInv'
<1> USE DEF AsyncInv
<1>1. pc'[Destroyer] = place /\ \A u \in Threads : u # Destroyer => pc'[u] = pc[u]
  BY ThreadFacts, Moves
<1>2. pc' \in [Threads -> CallerPlaces \cup WorkerPlaces \cup DestroyerPlaces]
  BY <1>1, ThreadFacts, MovesType
<1>3. WriteInv'
  BY <1>1, WriteFrame, ThreadFacts
<1>4. QueueInv'
  BY <1>1, QueueFrame, ThreadFacts DEF QueueInv, Busy
<1> QED BY <1>1, <1>2, <1>3, <1>4, ThreadFacts

-----------------------------------------------------------------------------
(* The steps of a writing thread.                                          *)

LEMMA WriteCheckStep ==
  ASSUME AsyncInv, NEW c \in Callers, WriteCheck(c) PROVE AsyncInv'
<1> USE DEF AsyncInv
<1>1. c \in Threads /\ c # Worker /\ c # Destroyer /\ c # Free
  BY ThreadFacts
<1>2. /\ UNCHANGED <<matched, stopping, pending, countVars, written, state_mutex,
                     sleepers, change, target, workerVars, ghostVars>>
      /\ pc[c] = "idle" /\ pc[Destroyer] = "alive" /\ write_mutex = Free
      /\ written < MaxChanges
  BY DEF WriteCheck, MayCall
<1>3. \/ /\ last_error' \in Errors \ {""}
         /\ UNCHANGED <<write_mutex, pc>>
      \/ /\ last_error' = IF failed = observed THEN "" ELSE last_error
         /\ write_mutex' = c
         /\ Goto(c, "adding")
  BY DEF WriteCheck, Errors
<1>4. CASE UNCHANGED <<write_mutex, pc>> /\ last_error' \in Errors \ {""}
  <2>1. TypeOK'
    BY <1>2, <1>4 DEF TypeOK, countVars, workerVars, ghostVars
  <2>2. WriteInv'
    BY <1>2, <1>4, WriteFrame DEF countVars
  <2>3. QueueInv'
    BY <1>2, <1>4, QueueFrame DEF countVars, workerVars, QueueInv, Busy
  <2>4. FateInv' /\ FailureIsKept'
    BY <1>2, <1>4, FateFrame, KeptFrame DEF countVars, ghostVars
  <2>5. DestroyInv'
    BY <1>2, <1>4, DestroyFrame
  <2> QED BY <2>1, <2>2, <2>3, <2>4, <2>5
<1>5. CASE /\ last_error' = IF failed = observed THEN "" ELSE last_error
           /\ write_mutex' = c
           /\ Goto(c, "adding")
  <2>1. pc'[c] = "adding" /\ \A u \in Threads : u # c => pc'[u] = pc[u]
    BY <1>1, <1>5, Moves
  <2>2. TypeOK'
    <3>1. last_error' \in Errors
      BY <1>5 DEF TypeOK, Errors
    <3>2. pc' \in [Threads -> CallerPlaces \cup WorkerPlaces \cup DestroyerPlaces]
      BY <1>1, <1>5, <2>1, MovesType DEF CallerPlaces
    <3> QED BY <1>2, <1>5, <3>1, <3>2
            DEF TypeOK, countVars, workerVars, ghostVars
  <2>3. WriteInv'
    BY <1>1, <1>2, <1>5, <2>1, ThreadFacts DEF WriteInv, CallerPlaces, countVars
  <2>4. QueueInv'
    BY <1>1, <1>2, <2>1, QueueFrame, ThreadFacts
       DEF countVars, workerVars, QueueInv, Busy
  <2>5. FateInv' /\ FailureIsKept'
    BY <1>2, <1>5, FateFrame, KeptFrame DEF countVars, ghostVars
  <2>6. DestroyInv'
    BY <1>1, <1>2, <2>1, ThreadFacts, DestroyFrame DEF DestroyInv
  <2> QED BY <2>2, <2>3, <2>4, <2>5, <2>6
<1> QED BY <1>3, <1>4, <1>5

LEMMA WriteAddStep ==
  ASSUME AsyncInv, NEW c \in Callers, WriteAdd(c) PROVE AsyncInv'
<1> USE DEF AsyncInv
<1>1. c \in Threads /\ c # Worker /\ c # Destroyer /\ c # Free
  BY ThreadFacts
<1>2. /\ UNCHANGED <<matched, stopping, pending, countVars, last_error, mutexVars,
                     sleepers, target, workerVars, ghostVars>>
      /\ pc[c] = "adding" /\ Goto(c, "pushing")
      /\ written' = written + 1 /\ change' = [change EXCEPT ![c] = written']
  BY DEF WriteAdd
<1>3. pc'[c] = "pushing" /\ \A u \in Threads : u # c => pc'[u] = pc[u]
  BY <1>1, <1>2, Moves
<1>4. written < MaxChanges /\ written = submitted /\ write_mutex = c
  BY <1>2 DEF WriteInv
<1>5. TypeOK'
  <2>1. pc' \in [Threads -> CallerPlaces \cup WorkerPlaces \cup DestroyerPlaces]
    BY <1>1, <1>2, <1>3, MovesType DEF CallerPlaces
  <2>2. written' \in 0..MaxChanges
    BY <1>2, <1>4, ChangesAssumption DEF TypeOK
  <2> QED BY <1>2, <2>1, <2>2
          DEF TypeOK, countVars, workerVars, ghostVars, mutexVars
<1>6. WriteInv'
  <2>1. change'[c] = submitted + 1
    BY <1>2, <1>4 DEF TypeOK
  <2> QED BY <1>1, <1>2, <1>3, <1>4, <2>1, ThreadFacts
          DEF WriteInv, CallerPlaces, countVars, mutexVars, TypeOK
<1>7. QueueInv'
  BY <1>1, <1>2, <1>3, QueueFrame, ThreadFacts
     DEF countVars, workerVars, QueueInv, Busy
<1>8. FateInv' /\ FailureIsKept'
  BY <1>2, FateFrame, KeptFrame DEF countVars, ghostVars
<1>9. DestroyInv'
  BY <1>1, <1>2, <1>3, ThreadFacts, DestroyFrame DEF DestroyInv
<1> QED BY <1>5, <1>6, <1>7, <1>8, <1>9

LEMMA WritePushStep ==
  ASSUME AsyncInv, NEW c \in Callers, WritePush(c) PROVE AsyncInv'
<1> USE DEF AsyncInv
<1>1. c \in Threads /\ c # Worker /\ c # Destroyer /\ c # Free
  BY ThreadFacts
<1> DEFINE entry == [sn |-> change[c], id |-> submitted + 1]
<1>2. /\ UNCHANGED <<matched, stopping, completed, failed, observed, last_error,
                     written, mutexVars, sleepers, change, target, workerVars,
                     fate, reported>>
      /\ pc[c] = "pushing" /\ Goto(c, "notifying")
      /\ submitted' = submitted + 1 /\ pending' = Append(pending, entry)
      /\ owes' = [owes EXCEPT ![c] = @ \cup {change[c]}]
  BY DEF WritePush
<1>3. pc'[c] = "notifying" /\ \A u \in Threads : u # c => pc'[u] = pc[u]
  BY <1>1, <1>2, Moves
<1>4. /\ change[c] = submitted + 1 /\ written = submitted + 1 /\ write_mutex = c
      /\ submitted + 1 \in Changes
  BY <1>2, ChangesAssumption DEF WriteInv, TypeOK, Changes
<1>5. entry \in QueuedChange /\ entry.sn = entry.id /\ entry.id = submitted + 1
  BY <1>4 DEF QueuedChange
<1> HIDE DEF entry
<1>6. /\ pending' \in Seq(QueuedChange)
      /\ Len(pending') = Len(pending) + 1
      /\ \A i \in 1..Len(pending) : pending'[i] = pending[i]
      /\ pending'[Len(pending) + 1] = entry
  BY <1>2, <1>5 DEF TypeOK
<1>7. TypeOK'
  <2>1. pc' \in [Threads -> CallerPlaces \cup WorkerPlaces \cup DestroyerPlaces]
    BY <1>1, <1>2, <1>3, MovesType DEF CallerPlaces
  <2>2. submitted' \in 0..MaxChanges /\ owes' \in [Callers -> SUBSET Changes]
    BY <1>2, <1>4 DEF TypeOK, Changes
  <2> QED BY <1>2, <1>6, <2>1, <2>2 DEF TypeOK, workerVars, mutexVars
<1>8. WriteInv'
  BY <1>1, <1>2, <1>3, <1>4, ThreadFacts
     DEF WriteInv, CallerPlaces, mutexVars, TypeOK
<1>9. QueueInv'
  <2>1. UNCHANGED <<completed, queued>> /\ pc'[Worker] = pc[Worker] /\ (Busy' <=> Busy)
    BY <1>1, <1>2, <1>3, ThreadFacts DEF Busy, workerVars
  <2>2. CountsAgree'
    BY <1>2, <1>6, <2>1 DEF QueueInv, CountsAgree, TypeOK
  <2>3. entry.id = completed + (Len(pending) + 1) + (IF Busy THEN 1 ELSE 0)
    BY <1>5 DEF QueueInv, CountsAgree, TypeOK
  <2>4. \A i \in 1..Len(pending') : i \in 1..Len(pending) \/ i = Len(pending) + 1
    BY <1>6 DEF TypeOK
  <2>5. SubmissionOrder'
    BY <1>5, <1>6, <2>1, <2>4 DEF QueueInv, SubmissionOrder
  <2>6. \A i \in 1..Len(pending') :
          pending'[i].id = completed' + i + (IF Busy' THEN 1 ELSE 0)
    BY <1>6, <2>1, <2>3, <2>4 DEF QueueInv
  <2> QED BY <2>1, <2>2, <2>5, <2>6 DEF QueueInv
<1>10. FateInv' /\ FailureIsKept'
  BY <1>2, FateFrame, KeptFrame
<1>11. DestroyInv'
  BY <1>1, <1>2, <1>3, ThreadFacts, DestroyFrame DEF DestroyInv
<1> QED BY <1>7, <1>8, <1>9, <1>10, <1>11

LEMMA WriteNotifyStep ==
  ASSUME AsyncInv, NEW c \in Callers, WriteNotify(c) PROVE AsyncInv'
<1> USE DEF AsyncInv
<1>1. c \in Threads /\ c # Worker /\ c # Destroyer /\ c # Free
  BY ThreadFacts
<1>2. /\ UNCHANGED <<matched, stopping, pending, countVars, last_error, written,
                     state_mutex, target, workerVars, ghostVars>>
      /\ pc[c] = "notifying" /\ Goto(c, "idle") /\ sleepers' = {}
      /\ write_mutex' = Free /\ change' = [change EXCEPT ![c] = 0]
  BY DEF WriteNotify, NotifyAll
<1>3. pc'[c] = "idle" /\ \A u \in Threads : u # c => pc'[u] = pc[u]
  BY <1>1, <1>2, Moves
<1>4. write_mutex = c
  BY <1>2 DEF WriteInv
<1>5. TypeOK'
  <2>1. pc' \in [Threads -> CallerPlaces \cup WorkerPlaces \cup DestroyerPlaces]
    BY <1>1, <1>2, <1>3, MovesType DEF CallerPlaces
  <2>2. change' \in [Callers -> 0..MaxChanges]
    BY <1>2, ChangesAssumption DEF TypeOK
  <2> QED BY <1>2, <2>1, <2>2 DEF TypeOK, countVars, workerVars, ghostVars
<1>6. WriteInv'
  BY <1>1, <1>2, <1>3, <1>4, ThreadFacts
     DEF WriteInv, CallerPlaces, countVars, TypeOK
<1>7. QueueInv'
  BY <1>1, <1>2, <1>3, QueueFrame, ThreadFacts
     DEF countVars, workerVars, QueueInv, Busy
<1>8. FateInv' /\ FailureIsKept'
  BY <1>2, FateFrame, KeptFrame DEF countVars, ghostVars
<1>9. DestroyInv'
  BY <1>1, <1>2, <1>3, ThreadFacts, DestroyFrame DEF DestroyInv
<1> QED BY <1>5, <1>6, <1>7, <1>8, <1>9

LEMMA SetReadersStep ==
  ASSUME AsyncInv, SetReaders PROVE AsyncInv'
<1> USE DEF AsyncInv
<1>1. /\ matched' \in BOOLEAN
      /\ UNCHANGED <<stopping, pending, countVars, last_error, written, mutexVars,
                     sleepers, pc, change, target, workerVars, ghostVars>>
  BY DEF SetReaders, TypeOK
<1>2. TypeOK'
  BY <1>1 DEF TypeOK, countVars, mutexVars, workerVars, ghostVars
<1>3. WriteInv'
  BY <1>1, WriteFrame DEF countVars, mutexVars
<1>4. QueueInv'
  BY <1>1, QueueFrame DEF countVars, workerVars, QueueInv, Busy
<1>5. FateInv' /\ FailureIsKept'
  BY <1>1, FateFrame, KeptFrame DEF countVars, ghostVars
<1>6. DestroyInv'
  BY <1>1, DestroyFrame
<1> QED BY <1>2, <1>3, <1>4, <1>5, <1>6

-----------------------------------------------------------------------------
(* The steps of a waiting thread.                                          *)

LEMMA WaitEnterStep ==
  ASSUME AsyncInv, NEW c \in Callers, WaitEnter(c) PROVE AsyncInv'
<1> USE DEF AsyncInv
<1>1. c \in Threads
  BY ThreadFacts
<1>2. /\ UNCHANGED <<matched, stopping, pending, countVars, last_error, written,
                     write_mutex, sleepers, change, workerVars, ghostVars>>
      /\ pc[c] = "idle" /\ pc[Destroyer] = "alive" /\ Goto(c, "testing")
      /\ state_mutex' = c /\ target' = [target EXCEPT ![c] = submitted]
  BY DEF WaitEnter, MayCall
<1>3. ~stopping
  BY <1>2 DEF DestroyInv
<1>4. /\ pc' \in [Threads -> CallerPlaces \cup WorkerPlaces \cup DestroyerPlaces]
      /\ WriteInv' /\ QueueInv' /\ DestroyInv'
  BY <1>2, <1>3, CallerMoves DEF CallerPlaces, WritePlaces, countVars, workerVars
<1>5. TypeOK'
  <2>1. target' \in [Callers -> 0..MaxChanges]
    BY <1>2 DEF TypeOK
  <2> QED BY <1>1, <1>2, <1>4, <2>1
          DEF TypeOK, countVars, workerVars, ghostVars
<1>6. FateInv' /\ FailureIsKept'
  BY <1>2, FateFrame, KeptFrame DEF countVars, ghostVars
<1> QED BY <1>4, <1>5, <1>6

LEMMA WaitReturnStep ==
  ASSUME AsyncInv, NEW c \in Callers, pc[c] \in {"testing", "expired"},
         WaitReturn(c)
  PROVE  AsyncInv'
<1> USE DEF AsyncInv
<1>1. ~stopping
  BY DEF DestroyInv
<1>2. /\ UNCHANGED <<matched, stopping, pending, submitted, completed, failed,
                     written, write_mutex, sleepers, change, workerVars, fate>>
      /\ Goto(c, "idle") /\ state_mutex' = Free
      /\ target' = [target EXCEPT ![c] = 0] /\ owes' = [owes EXCEPT ![c] = {}]
      /\ observed' = failed
      /\ last_error' = IF failed # observed THEN last_error ELSE ""
      /\ reported' = IF failed # observed
                     THEN reported \cup {n \in Changes : fate[n] = "failed"}
                     ELSE reported
  BY <1>1 DEF WaitReturn, Failing
<1>3. /\ pc' \in [Threads -> CallerPlaces \cup WorkerPlaces \cup DestroyerPlaces]
      /\ WriteInv' /\ QueueInv' /\ DestroyInv'
  BY <1>1, <1>2, CallerMoves DEF CallerPlaces, WritePlaces, workerVars
<1>4. TypeOK'
  <2>1. target' \in [Callers -> 0..MaxChanges]
    BY <1>2, TargetCleared
  <2>4. owes' \in [Callers -> SUBSET Changes]
    BY <1>2 DEF TypeOK
  <2>2. last_error' \in Errors /\ reported' \in SUBSET Changes
    BY <1>2 DEF TypeOK, Errors
  <2>3. UNCHANGED <<queued, delivered>>
    BY <1>2 DEF workerVars
  <2> QED BY <1>2, <1>3, <2>1, <2>2, <2>3, <2>4 DEF TypeOK
<1>5. FateInv'
  <2>1. \A n \in Changes : fate'[n] = "open" <=> n > completed'
    BY <1>2 DEF FateInv
  <2>2. observed' <= failed' /\ failed' <= completed'
    <3>1. UNCHANGED <<failed, completed>> /\ observed' = failed
      BY <1>2
    <3>2. failed \in Nat /\ completed \in Nat
      BY Counters
    <3>3. failed <= completed
      BY DEF FateInv
    <3> QED BY <3>1, <3>2, <3>3
  <2>3. reported' \subseteq {n \in Changes : fate'[n] = "failed"}
    BY <1>2 DEF FateInv
  <2> QED BY <2>1, <2>2, <2>3 DEF FateInv
<1>6. FailureIsKept'
  <2>1. CASE failed # observed
    BY <1>2, <2>1 DEF FailureIsKept
  <2>2. CASE failed = observed
    BY <1>2, <2>2 DEF FailureIsKept
  <2> QED BY <2>1, <2>2
<1> QED BY <1>3, <1>4, <1>5, <1>6

LEMMA WaitTestStep ==
  ASSUME AsyncInv, NEW c \in Callers, WaitTest(c) PROVE AsyncInv'
<1> USE DEF AsyncInv
<1>1. CASE WaitReturn(c)
  BY <1>1, WaitReturnStep DEF WaitTest
<1>2. CASE ~WaitReturn(c)
  <2>1. /\ UNCHANGED <<matched, stopping, pending, countVars, last_error,
                       written, write_mutex, sleepers, change, target,
                       workerVars, ghostVars>>
        /\ pc[c] = "testing" /\ Goto(c, "blocking") /\ state_mutex' = c
    BY <1>2 DEF WaitTest
  <2>2. ~stopping /\ c \in Threads
    BY <2>1, ThreadFacts DEF DestroyInv
  <2>3. /\ pc' \in [Threads -> CallerPlaces \cup WorkerPlaces \cup DestroyerPlaces]
        /\ WriteInv' /\ QueueInv' /\ DestroyInv'
    BY <2>1, <2>2, CallerMoves DEF CallerPlaces, WritePlaces, countVars, workerVars
  <2>4. TypeOK'
    BY <2>1, <2>2, <2>3 DEF TypeOK, countVars, workerVars, ghostVars
  <2>5. FateInv' /\ FailureIsKept'
    BY <2>1, FateFrame, KeptFrame DEF countVars, ghostVars
  <2> QED BY <2>3, <2>4, <2>5
<1> QED BY <1>1, <1>2

LEMMA WaitTimedOutStep ==
  ASSUME AsyncInv, NEW c \in Callers, WaitTimedOut(c) PROVE AsyncInv'
<1> USE DEF AsyncInv
<1>1. CASE WaitReturn(c)
  BY <1>1, WaitReturnStep DEF WaitTimedOut
<1>2. CASE ~WaitReturn(c)
  <2>1. /\ UNCHANGED <<matched, stopping, pending, countVars, written, mutexVars,
                       sleepers, change, workerVars, ghostVars>>
        /\ pc[c] = "expired" /\ Goto(c, "idle") /\ last_error' = "expired"
        /\ target' = [target EXCEPT ![c] = 0]
    BY <1>2 DEF WaitTimedOut
  <2>2. ~stopping
    BY <2>1 DEF DestroyInv
  <2>3. /\ pc' \in [Threads -> CallerPlaces \cup WorkerPlaces \cup DestroyerPlaces]
        /\ WriteInv' /\ QueueInv' /\ DestroyInv'
    BY <2>1, <2>2, CallerMoves
       DEF CallerPlaces, WritePlaces, countVars, mutexVars, workerVars
  <2>4. TypeOK'
    <3>1. target' \in [Callers -> 0..MaxChanges]
      BY <2>1, TargetCleared
    <3>2. last_error' \in Errors
      BY <2>1 DEF Errors
    <3> QED BY <2>1, <2>3, <3>1, <3>2
            DEF TypeOK, countVars, mutexVars, workerVars, ghostVars
  <2>5. FateInv' /\ FailureIsKept'
    BY <2>1, FateFrame, KeptFrame DEF countVars, ghostVars
  <2> QED BY <2>3, <2>4, <2>5
<1> QED BY <1>1, <1>2

LEMMA WaitExpireStep ==
  ASSUME AsyncInv, NEW c \in Callers, WaitExpire(c) PROVE AsyncInv'
<1> USE DEF AsyncInv
<1>1. /\ UNCHANGED <<matched, stopping, pending, countVars, last_error, written,
                     mutexVars, change, target, workerVars, ghostVars>>
      /\ pc[c] = "testing" /\ Goto(c, "expired") /\ sleepers' = sleepers \ {c}
  BY DEF WaitExpire
<1>2. ~stopping
  BY <1>1 DEF DestroyInv
<1>3. /\ pc' \in [Threads -> CallerPlaces \cup WorkerPlaces \cup DestroyerPlaces]
      /\ WriteInv' /\ QueueInv' /\ DestroyInv'
  BY <1>1, <1>2, CallerMoves
     DEF CallerPlaces, WritePlaces, countVars, mutexVars, workerVars
<1>4. TypeOK'
  BY <1>1, <1>3 DEF TypeOK, countVars, mutexVars, workerVars, ghostVars
<1>5. FateInv' /\ FailureIsKept'
  BY <1>1, FateFrame, KeptFrame DEF countVars, ghostVars
<1> QED BY <1>3, <1>4, <1>5

LEMMA BlockCallerStep ==
  ASSUME AsyncInv, NEW c \in Callers, Block(c) PROVE AsyncInv'
<1> USE DEF AsyncInv
<1>1. /\ UNCHANGED <<matched, stopping, pending, countVars, last_error, written,
                     write_mutex, change, target, workerVars, ghostVars>>
      /\ pc[c] = "blocking" /\ Goto(c, "testing")
      /\ state_mutex' = Free /\ sleepers' = sleepers \cup {c}
  BY DEF Block
<1>2. ~stopping
  BY <1>1 DEF DestroyInv
<1>3. /\ pc' \in [Threads -> CallerPlaces \cup WorkerPlaces \cup DestroyerPlaces]
      /\ WriteInv' /\ QueueInv' /\ DestroyInv'
  BY <1>1, <1>2, CallerMoves DEF CallerPlaces, WritePlaces, countVars, workerVars
<1>4. TypeOK'
  BY <1>1, <1>3 DEF TypeOK, countVars, workerVars, ghostVars
<1>5. FateInv' /\ FailureIsKept'
  BY <1>1, FateFrame, KeptFrame DEF countVars, ghostVars
<1> QED BY <1>3, <1>4, <1>5

-----------------------------------------------------------------------------
(* The steps of the worker.                                                *)

LEMMA BlockWorkerStep ==
  ASSUME AsyncInv, Block(Worker) PROVE AsyncInv'
<1> USE DEF AsyncInv
<1>1. /\ UNCHANGED <<matched, stopping, pending, countVars, last_error, written,
                     write_mutex, change, target, workerVars, ghostVars>>
      /\ pc[Worker] = "blocking" /\ Goto(Worker, "testing")
      /\ state_mutex' = Free /\ sleepers' = sleepers \cup {Worker}
  BY DEF Block
<1>2. /\ pc' \in [Threads -> CallerPlaces \cup WorkerPlaces \cup DestroyerPlaces]
      /\ pc'[Worker] = "testing" /\ WriteInv' /\ DestroyInv'
  BY <1>1, WorkerMoves DEF WorkerPlaces, countVars
<1>3. QueueInv'
  BY <1>1, <1>2, QueueFrame DEF countVars, workerVars, Busy, WorkerPlaces
<1>4. TypeOK'
  BY <1>1, <1>2 DEF TypeOK, countVars, workerVars, ghostVars
<1>5. FateInv' /\ FailureIsKept'
  BY <1>1, FateFrame, KeptFrame DEF countVars, ghostVars
<1> QED BY <1>2, <1>3, <1>4, <1>5

LEMMA WorkerLoopStep ==
  ASSUME AsyncInv, WorkerLoop PROVE AsyncInv'
<1> USE DEF AsyncInv
<1> DEFINE place == IF stopping THEN "done" ELSE "testing"
<1>1. /\ UNCHANGED <<matched, stopping, pending, countVars, last_error, written,
                     mutexVars, sleepers, change, target, workerVars, ghostVars>>
      /\ pc[Worker] = "loop" /\ Goto(Worker, place)
  BY DEF WorkerLoop
<1>2. place \in WorkerPlaces /\ place \notin {"delivering", "recording"}
  BY DEF WorkerPlaces
<1> HIDE DEF place
<1>3. /\ pc' \in [Threads -> CallerPlaces \cup WorkerPlaces \cup DestroyerPlaces]
      /\ pc'[Worker] = place /\ WriteInv' /\ DestroyInv'
  BY <1>1, <1>2, WorkerMoves DEF countVars, mutexVars
<1>4. QueueInv'
  BY <1>1, <1>2, <1>3, QueueFrame DEF countVars, workerVars, Busy
<1>5. TypeOK'
  BY <1>1, <1>3 DEF TypeOK, countVars, mutexVars, workerVars, ghostVars
<1>6. FateInv' /\ FailureIsKept'
  BY <1>1, FateFrame, KeptFrame DEF countVars, ghostVars
<1> QED BY <1>3, <1>4, <1>5, <1>6

LEMMA WorkerTestStep ==
  ASSUME AsyncInv, WorkerTest PROVE AsyncInv'
<1> USE DEF AsyncInv
<1>1. /\ UNCHANGED <<matched, stopping, countVars, last_error, written, write_mutex,
                     sleepers, change, target, delivered, ghostVars>>
      /\ pc[Worker] = "testing"
  BY DEF WorkerTest
<1>2. FateInv' /\ FailureIsKept'
  BY <1>1, FateFrame, KeptFrame DEF countVars, ghostVars
<1>3. CASE /\ pending # <<>> /\ queued' = Head(pending) /\ pending' = Tail(pending)
           /\ Goto(Worker, "delivering") /\ UNCHANGED state_mutex
  <2>1. /\ pc' \in [Threads -> CallerPlaces \cup WorkerPlaces \cup DestroyerPlaces]
        /\ pc'[Worker] = "delivering" /\ WriteInv' /\ DestroyInv'
    BY <1>1, <1>3, WorkerMoves DEF WorkerPlaces, countVars
  <2>2. /\ pending \in Seq(QueuedChange) /\ Len(pending) \in Nat \ {0}
        /\ queued' = pending[1] /\ queued' \in QueuedChange
        /\ pending' \in Seq(QueuedChange) /\ Len(pending') = Len(pending) - 1
        /\ \A i \in 1..Len(pending') :
             i + 1 \in 1..Len(pending) /\ pending'[i] = pending[i + 1]
    BY <1>3 DEF TypeOK
  <2>3. ~Busy /\ Busy'
    BY <1>1, <2>1 DEF Busy
  <2>4. TypeOK'
    BY <1>1, <1>3, <2>1, <2>2 DEF TypeOK, countVars, ghostVars
  <2>5. QueueInv'
    <3>1. UNCHANGED <<submitted, completed>> /\ completed \in Nat /\ submitted \in Nat
      BY <1>1, ChangesAssumption DEF countVars, TypeOK
    <3>2. CountsAgree'
      BY <2>2, <2>3, <3>1 DEF QueueInv, CountsAgree
    <3>3. pending[1].id = completed + 1 /\ pending[1].sn = pending[1].id
      BY <2>2, <2>3, <3>1 DEF QueueInv, SubmissionOrder
    <3>4. SubmissionOrder'
      BY <2>2, <2>3, <3>1, <3>3 DEF QueueInv, SubmissionOrder
    <3>5. \A i \in 1..Len(pending') :
            pending'[i].id = completed' + i + (IF Busy' THEN 1 ELSE 0)
      <4>1. SUFFICES ASSUME NEW i \in 1..Len(pending')
                     PROVE  pending'[i].id = completed + i + 1
        BY <2>3, <3>1
      <4>2. i \in Nat /\ i + 1 \in 1..Len(pending) /\ pending'[i] = pending[i + 1]
        BY <2>2
      <4>3. pending[i + 1].id = completed + (i + 1) + 0
        BY <2>3, <4>2 DEF QueueInv
      <4> QED BY <3>1, <4>2, <4>3
    <3> QED BY <2>1, <3>2, <3>4, <3>5 DEF QueueInv, WorkerPlaces
  <2> QED BY <1>2, <2>1, <2>4, <2>5
<1>4. CASE /\ UNCHANGED <<pending, queued>>
           /\ \/ Goto(Worker, "done") /\ UNCHANGED state_mutex
              \/ Goto(Worker, "blocking") /\ state_mutex' = Worker
  <2>1. PICK place \in {"done", "blocking"} : Goto(Worker, place)
    BY <1>4
  <2>2. /\ pc' \in [Threads -> CallerPlaces \cup WorkerPlaces \cup DestroyerPlaces]
        /\ pc'[Worker] = place /\ WriteInv' /\ DestroyInv'
    BY <1>1, <2>1, WorkerMoves DEF WorkerPlaces, countVars
  <2>3. QueueInv'
    BY <1>1, <1>4, <2>2, QueueFrame DEF countVars, Busy, WorkerPlaces
  <2>4. TypeOK'
    <3>1. state_mutex' \in Threads \cup {Free}
      BY <1>4, ThreadFacts DEF TypeOK
    <3> QED BY <1>1, <1>4, <2>2, <3>1 DEF TypeOK, countVars, ghostVars
  <2> QED BY <1>2, <2>2, <2>3, <2>4
<1> QED BY <1>3, <1>4 DEF WorkerTest

LEMMA WorkerDeliverStep ==
  ASSUME AsyncInv, WorkerDeliver PROVE AsyncInv'
<1> USE DEF AsyncInv
<1>1. /\ UNCHANGED <<matched, stopping, pending, countVars, last_error, written,
                     mutexVars, sleepers, change, target, queued, ghostVars>>
      /\ pc[Worker] = "delivering" /\ Goto(Worker, "recording")
      /\ delivered' \in BOOLEAN
  BY DEF WorkerDeliver
<1>2. /\ pc' \in [Threads -> CallerPlaces \cup WorkerPlaces \cup DestroyerPlaces]
      /\ pc'[Worker] = "recording" /\ WriteInv' /\ DestroyInv'
  BY <1>1, WorkerMoves DEF WorkerPlaces, countVars, mutexVars
<1>3. QueueInv'
  BY <1>1, <1>2, QueueFrame DEF countVars, Busy, WorkerPlaces
<1>4. TypeOK'
  BY <1>1, <1>2 DEF TypeOK, countVars, mutexVars, ghostVars
<1>5. FateInv' /\ FailureIsKept'
  BY <1>1, FateFrame, KeptFrame DEF countVars, ghostVars
<1> QED BY <1>2, <1>3, <1>4, <1>5

LEMMA WorkerRecordStep ==
  ASSUME AsyncInv, WorkerRecord PROVE AsyncInv'
<1> USE DEF AsyncInv
<1>1. /\ UNCHANGED <<matched, stopping, pending, submitted, observed, written,
                     mutexVars, sleepers, change, target, workerVars, reported,
                     owes>>
      /\ pc[Worker] = "recording" /\ Goto(Worker, "notifying")
      /\ completed' = queued.id
      /\ \/ /\ failed' = failed + 1 /\ last_error' = "undelivered"
            /\ fate' = [fate EXCEPT ![queued.sn] = "failed"]
         \/ /\ UNCHANGED <<failed, last_error>>
            /\ \E f \in {"delivered", "abandoned"} :
                 fate' = [fate EXCEPT ![queued.sn] = f]
  BY DEF WorkerRecord
<1>2. /\ pc' \in [Threads -> CallerPlaces \cup WorkerPlaces \cup DestroyerPlaces]
      /\ pc'[Worker] = "notifying" /\ WriteInv' /\ DestroyInv'
  BY <1>1, WorkerMoves DEF WorkerPlaces, mutexVars
<1>3. Busy /\ ~Busy'
  BY <1>1, <1>2 DEF Busy
<1>4. /\ completed \in 0..MaxChanges /\ failed \in 0..MaxChanges
      /\ observed \in 0..MaxChanges /\ MaxChanges \in Nat
  BY ChangesAssumption DEF TypeOK
<1>5. /\ queued.id = completed + 1 /\ queued.sn = completed + 1
      /\ completed + 1 \in Changes
  <2>1. queued.sn = queued.id /\ queued.id = completed + 1
    BY <1>3 DEF QueueInv, SubmissionOrder
  <2>2. queued # None
    BY <1>4, <2>1 DEF None
  <2> QED BY <2>1, <2>2 DEF TypeOK, QueuedChange
<1>6. failed <= completed /\ observed <= failed
  BY DEF FateInv
<1>7. completed' = completed + 1 /\ completed' \in 0..MaxChanges
      /\ failed' \in 0..MaxChanges /\ failed' <= completed' /\ observed' <= failed'
  <2>1. completed' = completed + 1 /\ completed' \in 0..MaxChanges
    BY <1>1, <1>4, <1>5 DEF Changes
  <2>2. observed' = observed /\ (failed' = failed \/ failed' = failed + 1)
    BY <1>1
  <2> QED BY <1>4, <1>6, <2>1, <2>2
<1>8. TypeOK'
  <2>1. fate' \in [Changes -> {"open", "delivered", "failed", "abandoned"}]
    BY <1>1, <1>5 DEF TypeOK
  <2>2. last_error' \in Errors
    BY <1>1 DEF TypeOK, Errors
  <2> QED BY <1>1, <1>2, <1>7, <2>1, <2>2 DEF TypeOK, mutexVars, workerVars
<1>9. QueueInv'
  <2>1. UNCHANGED <<pending, submitted>>
    BY <1>1
  <2>5. Len(pending) \in Nat /\ submitted \in Nat
    BY <1>4 DEF TypeOK
  <2>2. CountsAgree'
    BY <1>3, <1>4, <1>7, <2>1, <2>5 DEF QueueInv, CountsAgree
  <2>3. SubmissionOrder'
    BY <1>3, <2>1 DEF QueueInv, SubmissionOrder
  <2>4. \A i \in 1..Len(pending') :
          pending'[i].id = completed' + i + (IF Busy' THEN 1 ELSE 0)
    BY <1>3, <1>4, <1>7, <2>1 DEF QueueInv
  <2> QED BY <1>2, <2>2, <2>3, <2>4 DEF QueueInv, WorkerPlaces
<1>10. /\ fate[completed + 1] = "open" /\ completed + 1 \notin reported
       /\ fate'[completed + 1] # "open"
       /\ \A n \in Changes : n # completed + 1 => fate'[n] = fate[n]
  <2>1. fate[completed + 1] = "open" /\ completed + 1 \notin reported
    BY <1>4, <1>5 DEF FateInv
  <2> QED BY <1>1, <1>5, <2>1 DEF TypeOK
<1>11. FateInv'
  <2>1. \A n \in Changes : fate'[n] = "open" <=> n > completed'
    BY <1>4, <1>7, <1>10 DEF FateInv, Changes
  <2>2. reported' \subseteq {n \in Changes : fate'[n] = "failed"}
    BY <1>1, <1>10 DEF FateInv
  <2> QED BY <1>7, <2>1, <2>2 DEF FateInv
<1>12. FailureIsKept'
  <2>1. CASE failed' = failed + 1 /\ last_error' = "undelivered"
    <3>1. failed' # observed'
      BY <1>1, <1>4, <1>6, <2>1
    <3> QED BY <2>1, <3>1 DEF FailureIsKept
  <2>2. CASE /\ UNCHANGED <<failed, last_error>>
             /\ \E f \in {"delivered", "abandoned"} :
                  fate' = [fate EXCEPT ![queued.sn] = f]
    <3>1. \A n \in Changes : fate'[n] = "failed" => fate[n] = "failed"
      BY <1>5, <1>10, <2>2 DEF TypeOK
    <3> QED BY <1>1, <2>2, <3>1 DEF FailureIsKept
  <2> QED BY <1>1, <2>1, <2>2
<1> QED BY <1>2, <1>8, <1>9, <1>11, <1>12

LEMMA WorkerNotifyStep ==
  ASSUME AsyncInv, WorkerNotify PROVE AsyncInv'
<1> USE DEF AsyncInv
<1>1. /\ UNCHANGED <<matched, stopping, pending, countVars, last_error, written,
                     mutexVars, change, target, ghostVars>>
      /\ pc[Worker] = "notifying" /\ Goto(Worker, "loop")
      /\ sleepers' = {} /\ queued' = None /\ delivered' = FALSE
  BY DEF WorkerNotify, NotifyAll
<1>2. /\ pc' \in [Threads -> CallerPlaces \cup WorkerPlaces \cup DestroyerPlaces]
      /\ pc'[Worker] = "loop" /\ WriteInv' /\ DestroyInv'
  BY <1>1, WorkerMoves DEF WorkerPlaces, countVars, mutexVars
<1>3. ~Busy /\ ~Busy'
  BY <1>1, <1>2 DEF Busy
<1>4. QueueInv'
  <2>1. CountsAgree' /\ SubmissionOrder'
    BY <1>1, <1>3 DEF QueueInv, CountsAgree, SubmissionOrder, countVars
  <2> QED BY <1>1, <1>2, <1>3, <2>1 DEF QueueInv, WorkerPlaces, countVars
<1>5. TypeOK'
  BY <1>1, <1>2 DEF TypeOK, countVars, mutexVars, ghostVars
<1>6. FateInv' /\ FailureIsKept'
  BY <1>1, FateFrame, KeptFrame DEF countVars, ghostVars
<1> QED BY <1>2, <1>4, <1>5, <1>6

-----------------------------------------------------------------------------
(* The steps of the destructor, and the whole.                             *)

LEMMA DestroySteps ==
  ASSUME AsyncInv, DestroyStop \/ DestroyNotify \/ DestroyJoin PROVE AsyncInv'
<1> USE DEF AsyncInv
<1>1. PICK place \in DestroyerPlaces :
        /\ Goto(Destroyer, place) /\ place # "alive" /\ stopping' = TRUE
        /\ \A c \in Callers : pc[c] = "idle"
        /\ sleepers' \in {sleepers, {}}
        /\ UNCHANGED <<matched, pending, countVars, last_error, written,
                       mutexVars, change, target, workerVars, ghostVars>>
  <2>1. CASE DestroyStop
    BY <2>1 DEF DestroyStop, DestroyerPlaces
  <2>2. CASE DestroyNotify
    BY <2>2 DEF DestroyNotify, DestroyerPlaces, NotifyAll, DestroyInv, TypeOK
  <2>3. CASE DestroyJoin
    BY <2>3 DEF DestroyJoin, DestroyerPlaces, DestroyInv, TypeOK
  <2> QED BY <2>1, <2>2, <2>3
<1>2. /\ pc' \in [Threads -> CallerPlaces \cup WorkerPlaces \cup DestroyerPlaces]
      /\ pc'[Destroyer] = place /\ \A c \in Callers : pc'[c] = pc[c]
      /\ WriteInv' /\ QueueInv'
  BY <1>1, DestroyerMoves DEF countVars, mutexVars, workerVars
<1>3. TypeOK'
  <2>1. sleepers' \in SUBSET (Callers \cup {Worker})
    BY <1>1 DEF TypeOK
  <2> QED BY <1>1, <1>2, <2>1
          DEF TypeOK, countVars, mutexVars, workerVars, ghostVars
<1>4. FateInv' /\ FailureIsKept'
  BY <1>1, FateFrame, KeptFrame DEF countVars, ghostVars
<1>5. DestroyInv'
  BY <1>1, <1>2 DEF DestroyInv
<1> QED BY <1>2, <1>3, <1>4, <1>5

LEMMA StutterStep ==
  ASSUME AsyncInv, UNCHANGED vars PROVE AsyncInv'
BY DEF AsyncInv, vars, countVars, mutexVars, workerVars, ghostVars, TypeOK,
       WriteInv, QueueInv, CountsAgree, SubmissionOrder, Busy, FateInv,
       FailureIsKept, DestroyInv

LEMMA InitInv ==
  ASSUME Init PROVE AsyncInv
<1>1. MaxChanges \in Nat
  BY ChangesAssumption
<1>2. /\ pc \in [Threads -> CallerPlaces \cup WorkerPlaces \cup DestroyerPlaces]
      /\ pc[Worker] = "loop" /\ pc[Destroyer] = "alive"
      /\ \A c \in Callers : pc[c] = "idle"
  BY ThreadFacts DEF Init, CallerPlaces, WorkerPlaces, DestroyerPlaces
<1>3. /\ matched = TRUE /\ stopping = FALSE /\ pending = <<>> /\ written = 0
      /\ submitted = 0 /\ completed = 0 /\ failed = 0 /\ observed = 0
      /\ write_mutex = Free /\ state_mutex = Free /\ sleepers = {}
      /\ queued = None /\ delivered = FALSE /\ reported = {}
  BY DEF Init
<1>4. /\ last_error \in Errors
      /\ change = [c \in Callers |-> 0] /\ target = [c \in Callers |-> 0]
      /\ fate = [n \in Changes |-> "open"] /\ owes = [c \in Callers |-> {}]
  BY DEF Init, Errors
<1>5. Len(pending) = 0 /\ ~Busy
  BY <1>2, <1>3 DEF Busy
<1>6. TypeOK
  <2>1. pending \in Seq(QueuedChange) /\ 0 \in 0..MaxChanges
    BY <1>1, <1>3
  <2>2. /\ change \in [Callers -> 0..MaxChanges] /\ target \in [Callers -> 0..MaxChanges]
        /\ fate \in [Changes -> {"open", "delivered", "failed", "abandoned"}]
        /\ owes \in [Callers -> SUBSET Changes]
    BY <1>4, <2>1
  <2> QED BY <1>2, <1>3, <1>4, <2>1, <2>2 DEF TypeOK
<1>7. WriteInv
  BY <1>2, <1>3, ThreadFacts DEF WriteInv, CallerPlaces
<1>8. QueueInv
  <2>1. CountsAgree
    BY <1>3, <1>5 DEF CountsAgree
  <2>2. \A i \in 1..Len(pending) : FALSE
    BY <1>5
  <2>3. SubmissionOrder
    BY <1>5, <2>2 DEF SubmissionOrder
  <2> QED BY <1>2, <2>1, <2>2, <2>3 DEF QueueInv, WorkerPlaces
<1>9. FateInv /\ FailureIsKept
  <2>1. \A n \in Changes : fate[n] = "open" /\ n > completed
    BY <1>1, <1>3, <1>4 DEF Changes
  <2>2. \A n \in Changes : fate[n] # "failed"
    BY <2>1
  <2>3. FailureIsKept
    BY <2>2 DEF FailureIsKept
  <2>4. observed <= failed /\ failed <= completed
    BY <1>3
  <2> QED BY <1>3, <2>1, <2>3, <2>4 DEF FateInv
<1>10. DestroyInv
  BY <1>2, <1>3 DEF DestroyInv, DestroyerPlaces
<1> QED BY <1>6, <1>7, <1>8, <1>9, <1>10 DEF AsyncInv

LEMMA NextStep ==
  ASSUME AsyncInv, [Next]_vars PROVE AsyncInv'
<1>1. CASE SetReaders
  BY <1>1, SetReadersStep
<1>2. CASE \E c \in Callers : WriteCheck(c) \/ WaitEnter(c) \/ WaitExpire(c)
  BY <1>2, WriteCheckStep, WaitEnterStep, WaitExpireStep
<1>3. CASE \E c \in Callers : CallStep(c)
  BY <1>3, WriteAddStep, WritePushStep, WriteNotifyStep, WaitTestStep,
     BlockCallerStep, WaitTimedOutStep DEF CallStep
<1>4. CASE WorkerStep
  BY <1>4, WorkerLoopStep, WorkerTestStep, BlockWorkerStep, WorkerDeliverStep,
     WorkerRecordStep, WorkerNotifyStep DEF WorkerStep
<1>5. CASE DestroyStop \/ DestroyStep
  BY <1>5, DestroySteps DEF DestroyStep
<1>6. CASE UNCHANGED vars
  BY <1>6, StutterStep
<1> QED BY <1>1, <1>2, <1>3, <1>4, <1>5, <1>6 DEF Next

(* AsyncInv is inductive: an invariant for any number of threads.          *)
THEOREM AsyncInvariant == Spec => []AsyncInv
<1>1. Init => AsyncInv
  BY InitInv
<1>2. AsyncInv /\ [Next]_vars => AsyncInv'
  BY NextStep
<1> QED BY <1>1, <1>2, PTL DEF Spec

(* Type correctness of the thread model.                                   *)
THEOREM AsyncTypeCorrect == Spec => []TypeOK
<1>1. AsyncInv => TypeOK
  BY DEF AsyncInv
<1> QED BY <1>1, AsyncInvariant, PTL

(* pending_change_count() is the number of changes queued or in delivery.  *)
THEOREM CountsNeverDrift == Spec => []CountsAgree
<1>1. AsyncInv => CountsAgree
  BY DEF AsyncInv, QueueInv
<1> QED BY <1>1, AsyncInvariant, PTL

(* However many threads write at once, the queue is in sequence order.     *)
THEOREM SubmittedInOrder == Spec => []SubmissionOrder
<1>1. AsyncInv => SubmissionOrder
  BY DEF AsyncInv, QueueInv
<1> QED BY <1>1, AsyncInvariant, PTL

(* A failure stays in the counters and in last_error_ until it is returned. *)
THEOREM FailuresKept == Spec => []FailureIsKept
<1>1. AsyncInv => FailureIsKept
  BY DEF AsyncInv
<1> QED BY <1>1, AsyncInvariant, PTL

-----------------------------------------------------------------------------
(* The barrier: which steps end a wait of c, and what they find.           *)

LEMMA OnlyWaitsAnswer ==
  ASSUME AsyncInv, NEW c \in Callers, pc[c] \in {"testing", "expired"},
         pc'[c] = "idle", [Next]_vars
  PROVE  WaitTest(c) \/ WaitTimedOut(c)
<1> USE DEF AsyncInv
<1>1. c \in Threads /\ c # Worker /\ c # Destroyer
  BY ThreadFacts
<1>2. ASSUME NEW t \in Threads, NEW place, Goto(t, place), t # c PROVE FALSE
  BY <1>1, <1>2, Moves
<1>3. CASE SetReaders \/ UNCHANGED vars
  BY <1>3 DEF SetReaders, vars
<1>4. CASE DestroyStop \/ DestroyStep \/ WorkerStep
  <2>1. PICK t \in {Worker, Destroyer} : \E place : Goto(t, place)
    BY <1>4 DEF DestroyStop, DestroyStep, DestroyNotify, DestroyJoin, WorkerStep,
         WorkerLoop, WorkerTest, Block, WorkerDeliver, WorkerRecord, WorkerNotify
  <2> QED BY <1>1, <1>2, <2>1, ThreadFacts
<1>5. CASE \E d \in Callers :
             WriteCheck(d) \/ WaitEnter(d) \/ CallStep(d) \/ WaitExpire(d)
  <2>1. PICK d \in Callers :
          WriteCheck(d) \/ WaitEnter(d) \/ CallStep(d) \/ WaitExpire(d)
    BY <1>5
  <2>2. d \in Threads
    BY ThreadFacts
  <2>3. UNCHANGED pc \/ \E place : Goto(d, place)
    BY <2>1 DEF WriteCheck, WaitEnter, CallStep, WaitExpire, WriteAdd, WritePush,
         WriteNotify, WaitTest, WaitReturn, Block, WaitTimedOut
  <2>4. d = c
    BY <1>2, <2>2, <2>3
  <2>5. CASE WriteCheck(c) \/ WaitEnter(c) \/ WriteAdd(c) \/ WritePush(c)
               \/ WriteNotify(c) \/ Block(c)
    BY <2>5 DEF WriteCheck, WaitEnter, MayCall, WriteAdd, WritePush, WriteNotify, Block
  <2>6. CASE WaitExpire(c)
    BY <1>1, <2>6, Moves DEF WaitExpire
  <2> QED BY <2>1, <2>4, <2>5, <2>6 DEF CallStep
<1> QED BY <1>3, <1>4, <1>5 DEF Next

LEMMA AnswerStep ==
  ASSUME AsyncInv, NEW c \in Callers, [Next]_vars,
         Answers(c) \/ AnswersTrue(c)
  PROVE  \A n \in 1..target[c] : fate[n] # "open"
<1> USE DEF AsyncInv
<1>1. pc[c] \in {"testing", "expired"} /\ pc'[c] = "idle" /\ c \in Threads
  BY ThreadFacts DEF Answers, AnswersTrue
<1>2. WaitTest(c) \/ WaitTimedOut(c)
  BY <1>1, OnlyWaitsAnswer
<1>3. Reached(c)
  <2>1. CASE WaitTest(c)
    <3>1. ~Goto(c, "blocking")
      BY <1>1, Moves
    <3> QED BY <2>1, <3>1 DEF WaitTest
  <2>2. CASE WaitTimedOut(c)
    <3>1. ~(last_error' = "expired")
      BY <1>1, <2>2 DEF Answers, AnswersTrue, WaitTimedOut
    <3> QED BY <2>2, <3>1 DEF WaitTimedOut
  <2> QED BY <1>2, <2>1, <2>2
<1>4. completed >= target[c]
  BY <1>1, <1>3 DEF Reached, DestroyInv
<1>5. target[c] \in 0..MaxChanges /\ completed \in Nat /\ MaxChanges \in Nat
  BY Counters DEF TypeOK
<1> QED BY <1>4, <1>5 DEF FateInv, Changes

(* No wait_for_acknowledgments returns before all that was submitted when  *)
(* it was called has been dealt with.                                      *)
THEOREM BarrierCorrect == Spec => BarrierHolds
<1>1. AsyncInv /\ [Next]_vars =>
        [\A c \in Callers : Answers(c) \/ AnswersTrue(c)
           => \A n \in 1..target[c] : fate[n] # "open"]_vars
  BY AnswerStep
<1> QED BY <1>1, AsyncInvariant, PTL DEF Spec, BarrierHolds

-----------------------------------------------------------------------------
(* No wakeup is lost while the writer lives.  This is the safety side of   *)
(* ChangesComplete and CallsReturn: no thread that could go on is asleep.  *)

(* state_mutex_ is held from the test of a predicate to the sleep.         *)
BlockInv ==
  /\ \A c \in Callers :
       pc[c] = "blocking" => state_mutex = c /\ completed < target[c]
  /\ pc[Worker] = "blocking" => state_mutex = Worker /\ pending = <<>>

(* What a sleeper waits for has not come, or its notification is due.      *)
SleepInv ==
  /\ \A c \in Callers :
       /\ target[c] <= submitted
       /\ c \in sleepers =>
            /\ pc[c] = "testing"
            /\ completed < target[c] \/ pc[Worker] = "notifying"
  /\ Worker \in sleepers =>
       /\ pc[Worker] = "testing"
       /\ pending = <<>> \/ \E c \in Callers : pc[c] = "notifying"
  /\ pc[Worker] = "done" => stopping

WakeInv == AsyncInv /\ BlockInv /\ SleepInv

(* A caller never sleeps in wait_for_acknowledgments while the worker      *)
(* sleeps or has ended, but for a moment: some write() is about to notify. *)
NobodyIsStuck ==
  \A c \in Callers \cap sleepers :
    \/ Worker \notin sleepers /\ pc[Worker] # "done"
    \/ \E d \in Callers : pc[d] = "notifying"

(* A step that moves nobody into or out of the places that matter.         *)
LEMMA WakeFrame ==
  ASSUME WakeInv, AsyncInv',
         UNCHANGED <<pending, submitted, completed, state_mutex, target, sleepers>>,
         UNCHANGED stopping \/ stopping' = TRUE,
         \A c \in Callers :
           \/ pc'[c] = pc[c]
           \/ /\ pc'[c] # "blocking" /\ c \notin sleepers
              /\ pc[c] # "notifying",
         \/ pc'[Worker] = pc[Worker]
         \/ /\ pc'[Worker] # "blocking" /\ Worker \notin sleepers
            /\ pc[Worker] # "notifying"
            /\ pc'[Worker] = "done" => stopping'
  PROVE  BlockInv' /\ SleepInv'
<1>1. BlockInv'
  BY DEF WakeInv, BlockInv
<1>2. ASSUME NEW c \in Callers, c \in sleepers
      PROVE  /\ pc'[c] = "testing"
             /\ completed < target[c] \/ pc'[Worker] = "notifying"
  BY <1>2 DEF WakeInv, SleepInv
<1>3. ASSUME Worker \in sleepers
      PROVE  /\ pc'[Worker] = "testing"
             /\ pending = <<>> \/ \E c \in Callers : pc'[c] = "notifying"
  BY <1>3 DEF WakeInv, SleepInv
<1>4. pc'[Worker] = "done" => stopping'
  BY DEF WakeInv, SleepInv
<1> QED BY <1>1, <1>2, <1>3, <1>4 DEF WakeInv, SleepInv

(* A step that notifies wakes all up.                                      *)
LEMMA NotifyFrame ==
  ASSUME WakeInv, AsyncInv', sleepers' = {},
         UNCHANGED <<pending, submitted, completed, state_mutex, target, stopping>>,
         NEW t \in Threads, NEW place \in {"idle", "loop", "joining"}, Goto(t, place)
  PROVE  BlockInv' /\ SleepInv'
<1>1. pc'[t] = place /\ \A u \in Threads : u # t => pc'[u] = pc[u]
  BY Moves DEF WakeInv, AsyncInv
<1> QED BY <1>1, ThreadFacts DEF WakeInv, BlockInv, SleepInv

LEMMA WriteWakes ==
  ASSUME WakeInv, AsyncInv', NEW c \in Callers,
         WriteCheck(c) \/ WriteAdd(c) \/ WritePush(c) \/ WriteNotify(c)
  PROVE  BlockInv' /\ SleepInv'
<1>1. c \in Threads /\ c # Worker /\ TypeOK
  BY ThreadFacts DEF WakeInv, AsyncInv
<1>2. CASE WriteCheck(c) \/ WriteAdd(c)
  <2>1. UNCHANGED pc \/ Goto(c, "adding") \/ Goto(c, "pushing")
    BY <1>2 DEF WriteCheck, WriteAdd
  <2>2. c \notin sleepers /\ pc[c] # "notifying"
    BY <1>2 DEF WakeInv, SleepInv, WriteCheck, WriteAdd, MayCall
  <2>3. \A d \in Callers : pc'[d] = pc[d] \/ (d = c /\ pc'[d] # "blocking")
    BY <1>1, <2>1, Moves, ThreadFacts
  <2>4. pc'[Worker] = pc[Worker]
    BY <1>1, <2>1, Moves, ThreadFacts
  <2>5. /\ UNCHANGED <<pending, submitted, completed, state_mutex, target, sleepers>>
        /\ UNCHANGED stopping \/ stopping' = TRUE
    BY <1>2 DEF WriteCheck, WriteAdd, countVars, mutexVars
  <2> QED BY <2>2, <2>3, <2>4, <2>5, WakeFrame
<1>3. CASE WritePush(c)
  <2>1. /\ pc[c] = "pushing" /\ state_mutex = Free /\ Goto(c, "notifying")
        /\ submitted' = submitted + 1
        /\ UNCHANGED <<completed, sleepers, target, stopping>>
    BY <1>3 DEF WritePush
  <2>2. pc'[c] = "notifying" /\ \A u \in Threads : u # c => pc'[u] = pc[u]
    BY <1>1, <2>1, Moves
  <2>3. \A d \in Callers : pc'[d] # "blocking"
    BY <2>1, <2>2, ThreadFacts DEF WakeInv, BlockInv
  <2>4. pc'[Worker] # "blocking"
    BY <1>1, <2>1, <2>2, ThreadFacts DEF WakeInv, BlockInv, Worker, Free
  <2>5. \A d \in Callers : target[d] \in Int /\ target[d] <= submitted
    BY <1>1 DEF TypeOK, WakeInv, SleepInv
  <2>6. submitted \in Nat
    BY <1>1, Counters
  <2>7. SleepInv'
    BY <1>1, <2>1, <2>2, <2>5, <2>6, ThreadFacts DEF WakeInv, SleepInv
  <2> QED BY <2>3, <2>4, <2>7 DEF BlockInv
<1>4. CASE WriteNotify(c)
  BY <1>1, <1>4, NotifyFrame DEF WriteNotify, NotifyAll, countVars
<1> QED BY <1>2, <1>3, <1>4

LEMMA BlockWakes ==
  ASSUME WakeInv, AsyncInv', NEW t \in Callers \cup {Worker}, Block(t)
  PROVE  BlockInv' /\ SleepInv'
<1>1. t \in Threads /\ TypeOK
  BY ThreadFacts DEF WakeInv, AsyncInv
<1>2. /\ pc[t] = "blocking" /\ state_mutex = t /\ Goto(t, "testing")
      /\ sleepers' = sleepers \cup {t}
      /\ UNCHANGED <<pending, submitted, completed, target, stopping>>
  BY DEF Block, countVars
<1>3. pc'[t] = "testing" /\ \A u \in Threads : u # t => pc'[u] = pc[u]
  BY <1>1, <1>2, Moves
<1>4. BlockInv'
  BY <1>2, <1>3, ThreadFacts DEF WakeInv, BlockInv
<1>5. SleepInv'
  <2>1. CASE t = Worker
    BY <1>2, <1>3, <2>1, ThreadFacts DEF WakeInv, BlockInv, SleepInv
  <2>2. CASE t \in Callers
    BY <1>2, <1>3, <2>2, ThreadFacts DEF WakeInv, BlockInv, SleepInv
  <2> QED BY <2>1, <2>2
<1> QED BY <1>4, <1>5

LEMMA WaitWakes ==
  ASSUME WakeInv, AsyncInv', NEW c \in Callers,
         WaitEnter(c) \/ WaitTest(c) \/ WaitExpire(c) \/ WaitTimedOut(c)
  PROVE  BlockInv' /\ SleepInv'
<1>1. c \in Threads /\ c # Worker /\ c # Free /\ TypeOK
  BY ThreadFacts DEF WakeInv, AsyncInv
<1>2. /\ submitted \in Nat /\ completed \in Nat
      /\ \A d \in Callers : target[d] \in Nat
  BY <1>1, Counters DEF TypeOK
<1>3. PICK place \in {"testing", "blocking", "expired", "idle"} : Goto(c, place)
  BY DEF WaitEnter, WaitTest, WaitExpire, WaitTimedOut, WaitReturn
<1>4. pc'[c] = place /\ \A u \in Threads : u # c => pc'[u] = pc[u]
  BY <1>1, <1>3, Moves
<1>5. UNCHANGED <<pending, submitted, completed, stopping>>
  BY DEF WaitEnter, WaitTest, WaitExpire, WaitTimedOut, WaitReturn, countVars
<1>6. /\ \A d \in Callers : d # c => target'[d] = target[d]
      /\ target'[c] \in {target[c], 0, submitted}
  BY <1>1 DEF WaitEnter, WaitTest, WaitExpire, WaitTimedOut, WaitReturn, TypeOK
<1>7. sleepers' \subseteq sleepers /\ c \notin sleepers'
  BY DEF WaitEnter, WaitTest, WaitExpire, WaitTimedOut, WaitReturn, MayCall,
         WakeInv, SleepInv
<1>8. pc[c] # "notifying"
  BY DEF WaitEnter, WaitTest, WaitExpire, WaitTimedOut, MayCall
<1>9. pc[c] # "blocking" /\ (state_mutex \in {Free, c} \/ UNCHANGED state_mutex)
  BY DEF WaitEnter, WaitTest, WaitExpire, WaitTimedOut, MayCall, mutexVars
<1>10. \A d \in Callers \cup {Worker} :
         d # c /\ pc'[d] = "blocking" => state_mutex' = d
  BY <1>1, <1>4, <1>9, ThreadFacts DEF WakeInv, BlockInv, Free, Worker
<1>11. place = "blocking" => state_mutex' = c /\ completed < target[c] /\ target' = target
  <2>1. ASSUME place = "blocking" PROVE WaitTest(c) /\ ~WaitReturn(c)
    <3>1. pc'[c] = "blocking"
      BY <1>4, <2>1
    <3>2. ~Goto(c, "testing") /\ ~Goto(c, "idle") /\ ~Goto(c, "expired")
      BY <1>1, <3>1, Moves
    <3> QED BY <3>2 DEF WaitEnter, WaitTest, WaitExpire, WaitTimedOut, WaitReturn
  <2> QED BY <1>2, <2>1 DEF WaitTest, Reached
<1>12. BlockInv'
  BY <1>1, <1>4, <1>5, <1>6, <1>10, <1>11, ThreadFacts DEF WakeInv, BlockInv
<1>13. SleepInv'
  BY <1>1, <1>2, <1>4, <1>5, <1>6, <1>7, <1>8, ThreadFacts DEF WakeInv, SleepInv
<1> QED BY <1>12, <1>13

LEMMA WorkerWakes ==
  ASSUME WakeInv, AsyncInv',
         WorkerLoop \/ WorkerTest \/ WorkerDeliver \/ WorkerRecord \/ WorkerNotify
  PROVE  BlockInv' /\ SleepInv'
<1>1. Worker \in Threads /\ TypeOK /\ \A c \in Callers : c \in Threads /\ c # Worker
  BY ThreadFacts DEF WakeInv, AsyncInv
<1>2. CASE WorkerLoop
  <2>1. PICK place \in {"done", "testing"} : Goto(Worker, place)
    BY <1>2 DEF WorkerLoop
  <2>2. pc'[Worker] = place /\ \A u \in Threads : u # Worker => pc'[u] = pc[u]
    BY <1>1, <2>1, Moves
  <2>3. place = "done" => stopping
    BY <1>1, <1>2, <2>2, Moves DEF WorkerLoop
  <2>4. Worker \notin sleepers
    BY <1>2 DEF WorkerLoop, WakeInv, SleepInv
  <2> QED BY <1>1, <1>2, <2>2, <2>3, <2>4, WakeFrame
          DEF WorkerLoop, countVars, mutexVars
<1>3. CASE WorkerTest
  <2>1. /\ pc[Worker] = "testing" /\ Worker \notin sleepers /\ state_mutex = Free
        /\ UNCHANGED <<stopping, submitted, completed, sleepers, target>>
    BY <1>3 DEF WorkerTest, countVars
  <2>2. PICK place \in {"done", "delivering", "blocking"} :
          /\ Goto(Worker, place)
          /\ place = "done" => stopping
          /\ place = "blocking" => state_mutex' = Worker /\ pending' = <<>>
    BY <1>3 DEF WorkerTest
  <2>3. pc'[Worker] = place /\ \A u \in Threads : u # Worker => pc'[u] = pc[u]
    BY <1>1, <2>2, Moves
  <2>4. \A c \in Callers : pc'[c] # "blocking"
    BY <1>1, <2>1, <2>3, ThreadFacts DEF WakeInv, BlockInv
  <2>5. BlockInv'
    BY <2>2, <2>3, <2>4 DEF BlockInv
  <2>6. SleepInv'
    BY <1>1, <2>1, <2>2, <2>3 DEF WakeInv, SleepInv
  <2> QED BY <2>5, <2>6
<1>4. CASE WorkerDeliver
  <2>1. pc[Worker] = "delivering" /\ Goto(Worker, "recording")
    BY <1>4 DEF WorkerDeliver
  <2>2. pc'[Worker] = "recording" /\ \A u \in Threads : u # Worker => pc'[u] = pc[u]
    BY <1>1, <2>1, Moves
  <2>3. Worker \notin sleepers
    BY <2>1 DEF WakeInv, SleepInv
  <2> QED BY <1>1, <1>4, <2>1, <2>2, <2>3, WakeFrame
          DEF WorkerDeliver, countVars, mutexVars
<1>5. CASE WorkerRecord
  <2>1. /\ pc[Worker] = "recording" /\ state_mutex = Free /\ Goto(Worker, "notifying")
        /\ UNCHANGED <<stopping, pending, submitted, state_mutex, sleepers, target>>
    BY <1>5 DEF WorkerRecord, mutexVars
  <2>2. pc'[Worker] = "notifying" /\ \A u \in Threads : u # Worker => pc'[u] = pc[u]
    BY <1>1, <2>1, Moves
  <2>3. \A c \in Callers : pc'[c] # "blocking"
    BY <1>1, <2>1, <2>2, ThreadFacts DEF WakeInv, BlockInv
  <2>4. Worker \notin sleepers
    BY <2>1 DEF WakeInv, SleepInv
  <2>5. BlockInv'
    BY <2>2, <2>3 DEF BlockInv
  <2>6. SleepInv'
    BY <1>1, <2>1, <2>2, <2>4 DEF WakeInv, SleepInv
  <2> QED BY <2>5, <2>6
<1>6. CASE WorkerNotify
  BY <1>1, <1>6, NotifyFrame DEF WorkerNotify, NotifyAll, countVars, mutexVars
<1> QED BY <1>2, <1>3, <1>4, <1>5, <1>6

LEMMA DestroyWakes ==
  ASSUME WakeInv, AsyncInv', DestroyStop \/ DestroyStep
  PROVE  BlockInv' /\ SleepInv'
<1>1. Destroyer \in Threads /\ Destroyer # Worker /\ TypeOK
      /\ \A c \in Callers : c # Destroyer
  BY ThreadFacts DEF WakeInv, AsyncInv
<1>2. CASE DestroyNotify
  BY <1>1, <1>2, NotifyFrame DEF DestroyNotify, NotifyAll, countVars, mutexVars
<1>3. CASE DestroyStop \/ DestroyJoin
  <2>1. PICK place : Goto(Destroyer, place)
    BY <1>3 DEF DestroyStop, DestroyJoin
  <2>2. \A u \in Threads : u # Destroyer => pc'[u] = pc[u]
    BY <1>1, <2>1, Moves
  <2>3. UNCHANGED stopping \/ stopping' = TRUE
    BY <1>3 DEF DestroyStop, DestroyJoin
  <2> QED BY <1>1, <1>3, <2>2, <2>3, ThreadFacts, WakeFrame
          DEF DestroyStop, DestroyJoin, countVars, mutexVars
<1> QED BY <1>2, <1>3 DEF DestroyStep

LEMMA WakeStep ==
  ASSUME WakeInv, [Next]_vars PROVE WakeInv'
<1>1. AsyncInv'
  BY NextStep DEF WakeInv
<1>2. CASE SetReaders \/ UNCHANGED vars
  BY <1>1, <1>2, WakeFrame DEF SetReaders, vars, countVars, mutexVars, WakeInv
<1>3. CASE \E c \in Callers : WriteCheck(c) \/ WaitEnter(c) \/ CallStep(c) \/ WaitExpire(c)
  BY <1>1, <1>3, WriteWakes, WaitWakes, BlockWakes DEF CallStep, WakeInv
<1>4. CASE WorkerStep
  BY <1>1, <1>4, WorkerWakes, BlockWakes DEF WorkerStep, WakeInv
<1>5. CASE DestroyStop \/ DestroyStep
  BY <1>1, <1>5, DestroyWakes DEF WakeInv
<1> QED BY <1>2, <1>3, <1>4, <1>5 DEF Next

(* The invariant of the waits, for any number of threads.                  *)
THEOREM WakeInvariant == Spec => []WakeInv
<1>1. Init => WakeInv
  <2> SUFFICES ASSUME Init PROVE WakeInv
    OBVIOUS
  <2>1. /\ pc[Worker] = "loop" /\ \A c \in Callers : pc[c] = "idle" /\ target[c] = 0
        /\ sleepers = {} /\ submitted = 0
    BY ThreadFacts DEF Init
  <2> QED BY <2>1, InitInv DEF WakeInv, BlockInv, SleepInv
<1>2. WakeInv /\ [Next]_vars => WakeInv'
  BY WakeStep
<1> QED BY <1>1, <1>2, PTL DEF Spec

(* Whoever waits for the worker has a worker that runs, or one that is     *)
(* about to be woken up: callers and worker never wait for each other.     *)
THEOREM NoStandstill == Spec => []NobodyIsStuck
<1>1. WakeInv => NobodyIsStuck
  <2> SUFFICES ASSUME WakeInv, NEW c \in Callers, c \in sleepers
               PROVE  \/ Worker \notin sleepers /\ pc[Worker] # "done"
                      \/ \E d \in Callers : pc[d] = "notifying"
    BY DEF NobodyIsStuck
  <2>1. pc[c] = "testing" /\ (completed < target[c] \/ pc[Worker] = "notifying")
    BY DEF WakeInv, SleepInv
  <2>2. pc[Worker] # "done"
    BY <2>1 DEF WakeInv, AsyncInv, SleepInv, DestroyInv
  <2>3. ASSUME Worker \in sleepers PROVE \E d \in Callers : pc[d] = "notifying"
    <3>1. pc[Worker] = "testing" /\ completed < target[c] /\ ~Busy
      BY <2>1, <2>3 DEF WakeInv, SleepInv, Busy
    <3>2. target[c] <= submitted /\ submitted = completed + Len(pending)
      BY <3>1 DEF WakeInv, AsyncInv, SleepInv, QueueInv, CountsAgree, TypeOK
    <3>3. target[c] \in Nat /\ submitted \in Nat /\ completed \in Nat
      BY Counters DEF WakeInv, AsyncInv, TypeOK
    <3>4. pending # <<>>
      BY <3>1, <3>2, <3>3
    <3> QED BY <2>3, <3>4 DEF WakeInv, SleepInv
  <2> QED BY <2>2, <2>3
<1> QED BY <1>1, WakeInvariant, PTL
=============================================================================
