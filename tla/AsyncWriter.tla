----------------------------- MODULE AsyncWriter -----------------------------
(***************************************************************************)
(* The threads of an asynchronous ReliableWriter: application threads that *)
(* call write() and wait_for_acknowledgments(), the worker that delivers   *)
(* the queued changes, and the thread that destroys the writer.            *)
(*                                                                         *)
(* A critical section of state_mutex_ is one action.  It is taken apart    *)
(* where the code lets another thread in: between the two sections of      *)
(* write(), between a section and the notify_all after it, and between the *)
(* test of a condition-variable predicate, made under the mutex, and the   *)
(* wait that releases the mutex: the destructor sets stopping_ and         *)
(* notifies without the mutex, so it can come in between.                  *)
(*                                                                         *)
(* deliver_change is one step here that returns true or false; what it     *)
(* does is the subject of ReliableProtocol.  The application destroys the  *)
(* writer when none of its threads is inside a call, as C++ demands.       *)
(***************************************************************************)
EXTENDS Integers, Sequences

CONSTANTS Callers,    \* the application threads
          MaxChanges  \* bound: the number of changes written

ASSUME ChangesAssumption == MaxChanges \in Nat \ {0}

VARIABLES
  matched,    \* readers_ is not empty
  stopping,   \* stopping_
  pending,    \* pending_changes_: a queue of records [sn, id]
  submitted,  \* submitted_count_
  completed,  \* completed_count_
  failed,     \* failed_count_
  observed,   \* observed_failure_count_
  last_error, \* last_error_
  written,    \* WriterHistory: the last sequence number given out
  write_mutex, state_mutex,   \* holders of the mutexes, or Free
  sleepers,   \* the threads that wait on state_changed_
  pc,         \* where each thread is
  change,     \* change[c]: the sequence number of the change c is writing
  target,     \* target[c]: the local of c's wait_for_acknowledgments
  queued,     \* the worker's local: the change it has dequeued
  delivered,  \* the worker's local: what deliver_change returned
  fate,       \* history: what became of each change
  reported,   \* history: the changes whose failure some wait returned
  owes        \* history: what each caller wrote and has no answer for

countVars  == <<submitted, completed, failed, observed>>
mutexVars  == <<write_mutex, state_mutex>>
workerVars == <<queued, delivered>>
ghostVars  == <<fate, reported, owes>>
vars == <<matched, stopping, pending, countVars, last_error, written, mutexVars,
          sleepers, pc, change, target, workerVars, ghostVars>>

Worker == "worker"
Destroyer == "destroyer"
Free == "free"
Threads == Callers \cup {Worker, Destroyer}

ASSUME CallersAssumption == Callers \cap {Worker, Destroyer, Free} = {}

Changes == 1..MaxChanges
QueuedChange == [sn : Changes, id : Changes]
None == [sn |-> 0, id |-> 0]

Errors == {"", "unmatched", "stopping", "expired", "undelivered",
           "stopped"}
CallerPlaces == {"idle", "adding", "pushing", "notifying",
                 "testing", "blocking", "expired"}
WorkerPlaces == {"loop", "testing", "blocking", "delivering", "recording",
                 "notifying", "done"}
DestroyerPlaces == {"alive", "notifying", "joining", "destroyed"}

TypeOK ==
  /\ matched \in BOOLEAN /\ stopping \in BOOLEAN
  /\ pending \in Seq(QueuedChange)
  /\ submitted \in 0..MaxChanges /\ completed \in 0..MaxChanges
  /\ failed \in 0..MaxChanges /\ observed \in 0..MaxChanges
  /\ last_error \in Errors
  /\ written \in 0..MaxChanges
  /\ write_mutex \in Callers \cup {Free}
  /\ state_mutex \in Threads \cup {Free}
  /\ sleepers \in SUBSET (Callers \cup {Worker})
  /\ pc \in [Threads -> CallerPlaces \cup WorkerPlaces \cup DestroyerPlaces]
  /\ change \in [Callers -> 0..MaxChanges]
  /\ target \in [Callers -> 0..MaxChanges]
  /\ queued \in QueuedChange \cup {None}
  /\ delivered \in BOOLEAN
  /\ fate \in [Changes -> {"open", "delivered", "failed", "abandoned"}]
  /\ reported \in SUBSET Changes
  /\ owes \in [Callers -> SUBSET Changes]

Init ==
  /\ matched = TRUE /\ stopping = FALSE
  /\ pending = <<>>
  /\ submitted = 0 /\ completed = 0 /\ failed = 0 /\ observed = 0
  /\ last_error = ""
  /\ written = 0
  /\ write_mutex = Free /\ state_mutex = Free
  /\ sleepers = {}
  /\ pc = [t \in Threads |-> IF t = Worker THEN "loop"
                             ELSE IF t = Destroyer THEN "alive" ELSE "idle"]
  /\ change = [c \in Callers |-> 0]
  /\ target = [c \in Callers |-> 0]
  /\ queued = None
  /\ delivered = FALSE
  /\ fate = [n \in Changes |-> "open"]
  /\ reported = {}
  /\ owes = [c \in Callers |-> {}]

-----------------------------------------------------------------------------
Goto(t, place) == pc' = [pc EXCEPT ![t] = place]

(* Calls are made on a writer that nobody has begun to destroy.            *)
MayCall(c) == pc[c] = "idle" /\ pc[Destroyer] = "alive"

(* notify_all: every sleeper will test its predicate again.                *)
NotifyAll == sleepers' = {}

(* condition_variable::wait, its second half: release and go to sleep.     *)
Block(t) ==
  /\ pc[t] = "blocking"
  /\ state_mutex = t
  /\ state_mutex' = Free
  /\ sleepers' = sleepers \cup {t}
  /\ Goto(t, "testing")
  /\ UNCHANGED <<matched, stopping, pending, countVars, last_error, written,
                 write_mutex, change, target, workerVars, ghostVars>>

-----------------------------------------------------------------------------
(* ReliableWriter::set_readers                                             *)
SetReaders ==
  /\ pc[Destroyer] = "alive"
  /\ state_mutex = Free
  /\ matched' = ~matched
  /\ UNCHANGED <<stopping, pending, countVars, last_error, written, mutexVars,
                 sleepers, pc, change, target, workerVars, ghostVars>>

(* Bugs (definitions named Bug... are mistakes one could make in the one   *)
(* that follows): write_mutex_ is not held on; a failure nobody has seen   *)
(* yet is cleared.                                                         *)
BugWriteUnlocked(c) ==
  /\ MayCall(c)
  /\ written < MaxChanges
  /\ write_mutex = Free /\ state_mutex = Free
  /\ matched /\ ~stopping
  /\ Goto(c, "adding")
  /\ UNCHANGED <<matched, stopping, pending, countVars, last_error, written,
                 mutexVars, sleepers, change, target, workerVars, ghostVars>>

BugWriteClears(c) ==
  /\ MayCall(c)
  /\ written < MaxChanges
  /\ write_mutex = Free /\ state_mutex = Free
  /\ matched /\ ~stopping
  /\ last_error' = ""
  /\ write_mutex' = c
  /\ Goto(c, "adding")
  /\ UNCHANGED <<matched, stopping, pending, countVars, written, state_mutex,
                 sleepers, change, target, workerVars, ghostVars>>

(* ReliableWriter::write: the first critical section.  It returns with an  *)
(* error, or goes on with write_mutex_ held.                               *)
WriteCheck(c) ==
  /\ MayCall(c)
  /\ written < MaxChanges
  /\ write_mutex = Free /\ state_mutex = Free
  /\ IF ~matched \/ stopping
     THEN /\ last_error' = IF ~matched THEN "unmatched" ELSE "stopping"
          /\ UNCHANGED <<write_mutex, pc>>
     ELSE /\ last_error' = IF failed = observed THEN "" ELSE last_error
          /\ write_mutex' = c
          /\ Goto(c, "adding")
  /\ UNCHANGED <<matched, stopping, pending, countVars, written, state_mutex,
                 sleepers, change, target, workerVars, ghostVars>>

(* WriterHistory::add                                                      *)
WriteAdd(c) ==
  /\ pc[c] = "adding"
  /\ written' = written + 1
  /\ change' = [change EXCEPT ![c] = written']
  /\ Goto(c, "pushing")
  /\ UNCHANGED <<matched, stopping, pending, countVars, last_error, mutexVars,
                 sleepers, target, workerVars, ghostVars>>

(* Bug: the newest change is delivered first.                              *)
BugPushFront(c) ==
  /\ pc[c] = "pushing"
  /\ state_mutex = Free
  /\ submitted' = submitted + 1
  /\ pending' = <<[sn |-> change[c], id |-> submitted']>> \o pending
  /\ owes' = [owes EXCEPT ![c] = @ \cup {change[c]}]
  /\ Goto(c, "notifying")
  /\ UNCHANGED <<matched, stopping, completed, failed, observed, last_error,
                 written, mutexVars, sleepers, change, target, workerVars,
                 fate, reported>>

(* The second critical section; write_mutex_ is held until the end.        *)
WritePush(c) ==
  /\ pc[c] = "pushing"
  /\ state_mutex = Free
  /\ submitted' = submitted + 1
  /\ pending' = Append(pending, [sn |-> change[c], id |-> submitted'])
  /\ owes' = [owes EXCEPT ![c] = @ \cup {change[c]}]
  /\ Goto(c, "notifying")
  /\ UNCHANGED <<matched, stopping, completed, failed, observed, last_error,
                 written, mutexVars, sleepers, change, target, workerVars,
                 fate, reported>>

(* Bug: the worker is not woken up.                                        *)
BugWriteQuietly(c) ==
  /\ pc[c] = "notifying"
  /\ write_mutex' = Free
  /\ change' = [change EXCEPT ![c] = 0]
  /\ Goto(c, "idle")
  /\ UNCHANGED <<matched, stopping, pending, countVars, last_error, written,
                 state_mutex, sleepers, target, workerVars, ghostVars>>

WriteNotify(c) ==
  /\ pc[c] = "notifying"
  /\ NotifyAll
  /\ write_mutex' = Free
  /\ change' = [change EXCEPT ![c] = 0]
  /\ Goto(c, "idle")
  /\ UNCHANGED <<matched, stopping, pending, countVars, last_error, written,
                 state_mutex, target, workerVars, ghostVars>>

-----------------------------------------------------------------------------
(* ReliableWriter::wait_for_acknowledgments                                *)

WaitEnter(c) ==
  /\ MayCall(c)
  /\ state_mutex = Free
  /\ state_mutex' = c
  /\ target' = [target EXCEPT ![c] = submitted]
  /\ Goto(c, "testing")
  /\ UNCHANGED <<matched, stopping, pending, countVars, last_error, written,
                 write_mutex, sleepers, change, workerVars, ghostVars>>

(* Bug: the change in delivery is taken for completed.                     *)
BugReachedEarly(c) == stopping \/ completed + 1 >= target[c]

Reached(c) == stopping \/ completed >= target[c]

(* The call returns, in the critical section of its last test.             *)
Failing == stopping \/ failed # observed

WaitReturn(c) ==
  /\ Goto(c, "idle")
  /\ state_mutex' = Free
  /\ observed' = IF stopping THEN observed ELSE failed
  /\ last_error' = IF stopping THEN "stopped"
                   ELSE IF failed # observed THEN last_error ELSE ""
  /\ reported' = IF Failing /\ ~stopping
                 THEN reported \cup {n \in Changes : fate[n] = "failed"}
                 ELSE reported
  /\ owes' = [owes EXCEPT ![c] = {}]
  /\ target' = [target EXCEPT ![c] = 0]
  /\ UNCHANGED <<matched, stopping, pending, submitted, completed, failed,
                 written, write_mutex, sleepers, change, workerVars, fate>>

(* condition_variable::wait, its first half: the predicate is tested with  *)
(* the mutex held, on the way in or after waking up.                       *)
WaitTest(c) ==
  /\ pc[c] = "testing"
  /\ c \notin sleepers
  /\ state_mutex \in {Free, c}
  /\ \/ Reached(c) /\ WaitReturn(c)
     \/ /\ ~Reached(c)
        /\ state_mutex' = c
        /\ Goto(c, "blocking")
        /\ UNCHANGED <<matched, stopping, pending, countVars, last_error,
                       written, write_mutex, sleepers, change, target,
                       workerVars, ghostVars>>

(* wait_for: the time is up while c sleeps, and it wakes by itself.        *)
WaitExpire(c) ==
  /\ pc[c] = "testing"
  /\ c \in sleepers
  /\ sleepers' = sleepers \ {c}
  /\ Goto(c, "expired")
  /\ UNCHANGED <<matched, stopping, pending, countVars, last_error, written,
                 mutexVars, change, target, workerVars, ghostVars>>

(* ... tests the predicate once more, and returns false if it fails.       *)
WaitTimedOut(c) ==
  /\ pc[c] = "expired"
  /\ state_mutex = Free
  /\ \/ Reached(c) /\ WaitReturn(c)
     \/ /\ ~Reached(c)
        /\ last_error' = "expired"
        /\ target' = [target EXCEPT ![c] = 0]
        /\ Goto(c, "idle")
        /\ UNCHANGED <<matched, stopping, pending, countVars, written, mutexVars,
                       sleepers, change, workerVars, ghostVars>>

-----------------------------------------------------------------------------
(* ReliableWriter::worker_loop                                             *)

WorkerLoop ==
  /\ pc[Worker] = "loop"
  /\ Goto(Worker, IF stopping THEN "done" ELSE "testing")
  /\ UNCHANGED <<matched, stopping, pending, countVars, last_error, written,
                 mutexVars, sleepers, change, target, workerVars, ghostVars>>

WorkerTest ==
  /\ pc[Worker] = "testing"
  /\ Worker \notin sleepers
  /\ state_mutex = Free
  /\ \/ /\ stopping
        /\ Goto(Worker, "done")
        /\ UNCHANGED <<pending, queued, state_mutex>>
     \/ /\ ~stopping /\ pending # <<>>
        /\ queued' = Head(pending)
        /\ pending' = Tail(pending)
        /\ Goto(Worker, "delivering")
        /\ UNCHANGED state_mutex
     \/ /\ ~stopping /\ pending = <<>>
        /\ state_mutex' = Worker
        /\ Goto(Worker, "blocking")
        /\ UNCHANGED <<pending, queued>>
  /\ UNCHANGED <<matched, stopping, countVars, last_error, written, write_mutex,
                 sleepers, change, target, delivered, ghostVars>>

(* deliver_change returns; it ends early when the writer is stopping.      *)
WorkerDeliver ==
  /\ pc[Worker] = "delivering"
  /\ delivered' \in BOOLEAN
  /\ Goto(Worker, "recording")
  /\ UNCHANGED <<matched, stopping, pending, countVars, last_error, written,
                 mutexVars, sleepers, change, target, queued, ghostVars>>

(* Bug: only a delivered change counts as completed.                       *)
BugRecordDelivered ==
  /\ pc[Worker] = "recording"
  /\ state_mutex = Free
  /\ completed' = IF delivered THEN queued.id ELSE completed
  /\ failed' = IF delivered THEN failed ELSE failed + 1
  /\ last_error' = IF delivered THEN last_error ELSE "undelivered"
  /\ fate' = [fate EXCEPT ![queued.sn] = IF delivered THEN "delivered" ELSE "failed"]
  /\ Goto(Worker, "notifying")
  /\ UNCHANGED <<matched, stopping, pending, submitted, observed, written,
                 mutexVars, sleepers, change, target, workerVars, reported, owes>>

WorkerRecord ==
  /\ pc[Worker] = "recording"
  /\ state_mutex = Free
  /\ completed' = queued.id
  /\ IF ~delivered /\ ~stopping
     THEN failed' = failed + 1 /\ last_error' = "undelivered"
     ELSE UNCHANGED <<failed, last_error>>
  /\ fate' = [fate EXCEPT ![queued.sn] = IF delivered THEN "delivered"
                                         ELSE IF stopping THEN "abandoned"
                                         ELSE "failed"]
  /\ Goto(Worker, "notifying")
  /\ UNCHANGED <<matched, stopping, pending, submitted, observed, written,
                 mutexVars, sleepers, change, target, workerVars, reported, owes>>

(* Bug: nobody is woken up.                                                *)
BugWorkerQuietly ==
  /\ pc[Worker] = "notifying"
  /\ queued' = None
  /\ delivered' = FALSE
  /\ Goto(Worker, "loop")
  /\ UNCHANGED <<matched, stopping, pending, countVars, last_error, written,
                 mutexVars, sleepers, change, target, ghostVars>>

WorkerNotify ==
  /\ pc[Worker] = "notifying"
  /\ NotifyAll
  /\ queued' = None
  /\ delivered' = FALSE
  /\ Goto(Worker, "loop")
  /\ UNCHANGED <<matched, stopping, pending, countVars, last_error, written,
                 mutexVars, change, target, ghostVars>>

-----------------------------------------------------------------------------
(* ReliableWriter::~ReliableWriter: no mutex is taken.                     *)

DestroyStop ==
  /\ pc[Destroyer] = "alive"
  /\ \A c \in Callers : pc[c] = "idle"
  /\ stopping' = TRUE
  /\ Goto(Destroyer, "notifying")
  /\ UNCHANGED <<matched, pending, countVars, last_error, written, mutexVars,
                 sleepers, change, target, workerVars, ghostVars>>

DestroyNotify ==
  /\ pc[Destroyer] = "notifying"
  /\ NotifyAll
  /\ Goto(Destroyer, "joining")
  /\ UNCHANGED <<matched, stopping, pending, countVars, last_error, written,
                 mutexVars, change, target, workerVars, ghostVars>>

DestroyJoin ==
  /\ pc[Destroyer] = "joining"
  /\ pc[Worker] = "done"
  /\ Goto(Destroyer, "destroyed")
  /\ UNCHANGED <<matched, stopping, pending, countVars, last_error, written,
                 mutexVars, sleepers, change, target, workerVars, ghostVars>>

-----------------------------------------------------------------------------
WorkerStep == WorkerLoop \/ WorkerTest \/ Block(Worker) \/ WorkerDeliver
                \/ WorkerRecord \/ WorkerNotify

DestroyStep == DestroyNotify \/ DestroyJoin

(* The steps of a call that is under way.                                  *)
CallStep(c) == WriteAdd(c) \/ WritePush(c) \/ WriteNotify(c)
                 \/ WaitTest(c) \/ Block(c) \/ WaitTimedOut(c)

Next ==
  \/ SetReaders
  \/ \E c \in Callers : \/ WriteCheck(c)
                        \/ WaitEnter(c)
                        \/ CallStep(c)
                        \/ WaitExpire(c)
  \/ WorkerStep
  \/ DestroyStop
  \/ DestroyStep

Spec == Init /\ [][Next]_vars

(* Every thread inside the writer is scheduled; a thread that contends for *)
(* state_mutex_ gets it in the end.  Whether the application calls, lets a *)
(* wait time out or destroys the writer is left open.                      *)
FairSpec ==
  /\ Spec
  /\ SF_vars(WorkerStep)
  /\ WF_vars(DestroyStep)
  /\ \A c \in Callers : SF_vars(CallStep(c))

-----------------------------------------------------------------------------
Busy == pc[Worker] \in {"delivering", "recording"}

(* pending_change_count() is the number of changes queued or in delivery:  *)
(* the two counters never drift from the queue they describe.              *)
CountsAgree ==
  submitted = completed + Len(pending) + (IF Busy THEN 1 ELSE 0)

(* Threads that write at the same time queue their changes in the order of *)
(* their sequence numbers, and the worker delivers in that order: sample   *)
(* n is the n-th submission.                                               *)
SubmissionOrder ==
  /\ \A i \in 1..Len(pending) : pending[i].sn = pending[i].id
  /\ Busy => queued.sn = queued.id /\ queued.id = completed + 1

(* A failed delivery is remembered, together with an error text, until a   *)
(* wait has returned it: neither a later write, nor a later success, nor a *)
(* wait that timed out makes it disappear.                                 *)
FailureIsKept ==
  \A n \in Changes :
    fate[n] = "failed" /\ n \notin reported =>
      failed # observed /\ last_error # ""

(* A wait of c that returns before its time is up, and one that returns    *)
(* true: only the latter leaves last_error_ empty.                         *)
Answers(c) == pc[c] = "testing" /\ pc'[c] = "idle"
AnswersTrue(c) ==
  pc[c] \in {"testing", "expired"} /\ pc'[c] = "idle" /\ last_error' = ""

(* When wait_for_acknowledgments returns, every change submitted before    *)
(* the call has been dealt with, by whichever thread it was written.       *)
BarrierHolds ==
  [][\A c \in Callers :
       Answers(c) \/ AnswersTrue(c)
       => \A n \in 1..target[c] : fate[n] # "open"]_vars

(* A caller that writes, and then gets true from                           *)
(* wait_for_acknowledgments, knows that its samples were delivered.        *)
TrueMeansDelivered ==
  [][\A c \in Callers :
       AnswersTrue(c) => \A n \in owes[c] : fate[n] = "delivered"]_vars

(* While the writer lives, the worker serves every queued change and no    *)
(* call hangs: no wakeup of the condition variable is lost.                *)
ChangesComplete ==
  \A n \in Changes :
    submitted >= n ~> (completed >= n \/ pc[Destroyer] # "alive")

CallsReturn ==
  \A c \in Callers : pc[c] # "idle" ~> (pc[c] = "idle" \/ pc[Destroyer] # "alive")

(* The destructor ends.                                                    *)
DestructorReturns == pc[Destroyer] # "alive" ~> pc[Destroyer] = "destroyed"

-----------------------------------------------------------------------------
(***************************************************************************)
(* The inductive invariant behind the safety properties, in parts.         *)
(***************************************************************************)
(* write_mutex_ is held from the first critical section of write() to the  *)
(* end, so that at most one sequence number is given out and not queued.   *)
WriteInv ==
  /\ \A c \in Callers :
       /\ pc[c] \in CallerPlaces
       /\ pc[c] \in {"adding", "pushing", "notifying"} <=> write_mutex = c
       /\ pc[c] = "adding" => written < MaxChanges
       /\ pc[c] = "pushing" => change[c] = submitted + 1 /\ written = submitted + 1
  /\ written = submitted \/
       \E c \in Callers : pc[c] = "pushing"

(* The queue holds the submissions after the one in delivery, in order.    *)
QueueInv ==
  /\ CountsAgree
  /\ SubmissionOrder
  /\ \A i \in 1..Len(pending) :
       pending[i].id = completed + i + (IF Busy THEN 1 ELSE 0)
  /\ pc[Worker] \in WorkerPlaces

(* What has been completed has a fate; a fate is known of nothing else.    *)
FateInv ==
  /\ \A n \in Changes : fate[n] = "open" <=> n > completed
  /\ observed <= failed /\ failed <= completed
  /\ reported \subseteq {n \in Changes : fate[n] = "failed"}

(* Nobody is inside a call once the destructor has begun.                  *)
DestroyInv ==
  /\ pc[Destroyer] \in DestroyerPlaces
  /\ stopping <=> pc[Destroyer] # "alive"
  /\ stopping => \A c \in Callers : pc[c] = "idle"

AsyncInv ==
  /\ TypeOK
  /\ WriteInv
  /\ QueueInv
  /\ FateInv
  /\ FailureIsKept
  /\ DestroyInv
=============================================================================
