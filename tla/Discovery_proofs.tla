--------------------------- MODULE Discovery_proofs ---------------------------
(***************************************************************************)
(* Proofs about Discovery: no request to announce an endpoint is swallowed *)
(* and no application thread sleeps on a match, for any participants and   *)
(* endpoints and however the datagrams are lost, doubled and delayed.      *)
(* Nothing is assumed of fairness.                                         *)
(***************************************************************************)
EXTENDS Discovery, TLAPS

-----------------------------------------------------------------------------
(* The invariant, which is inductive, by participant.                      *)

Told(p) ==
  \A e \in local[p], q \in participants[p] :
    LET a == [to |-> q, endpoint |-> e]
    IN  \/ a \in announced[p] \cup to_send[p]
        \/ requested[p]
        \/ worker[p] = "snapshot"

Attentive(p) == waiter[p] = "asleep" => Matches(p) = {}

DiscoveryInv == TypeOK /\ NothingUnannounced /\ NobodySleepsOnAMatch

LEMMA ByParticipant ==
  /\ NothingUnannounced <=> \A p \in Participants : Told(p)
  /\ NobodySleepsOnAMatch <=> \A p \in Participants : Attentive(p)
BY DEF NothingUnannounced, NobodySleepsOnAMatch, Told, Attentive

LEMMA ByParticipantNext ==
  /\ NothingUnannounced' <=> \A p \in Participants : Told(p)'
  /\ NobodySleepsOnAMatch' <=> \A p \in Participants : Attentive(p)'
BY DEF NothingUnannounced, NobodySleepsOnAMatch, Told, Attentive

(* A step leaves the state of every participant but p alone.               *)
OnlyOf(p) ==
  \A q \in Participants \ {p} :
    /\ worker'[q] = worker[q] /\ requested'[q] = requested[q]
    /\ local'[q] = local[q] /\ participants'[q] = participants[q]
    /\ endpoints'[q] = endpoints[q] /\ to_send'[q] = to_send[q]
    /\ waiter'[q] = waiter[q] /\ announced'[q] = announced[q]

LEMMA OthersKeep ==
  ASSUME DiscoveryInv, NEW p \in Participants, OnlyOf(p),
         TypeOK', Told(p)', Attentive(p)'
  PROVE  DiscoveryInv'
<1>1. \A q \in Participants : Told(q) /\ Attentive(q)
  BY ByParticipant DEF DiscoveryInv
<1>2. ASSUME NEW q \in Participants PROVE Told(q)' /\ Attentive(q)'
  <2>1. CASE q = p
    BY <2>1
  <2>2. CASE q # p
    BY <1>1, <2>2 DEF OnlyOf, Told, Attentive, Matches
  <2> QED BY <2>1, <2>2
<1> QED BY <1>2, ByParticipantNext DEF DiscoveryInv

LEMMA InitInv == Init => DiscoveryInv
<1> SUFFICES ASSUME Init PROVE DiscoveryInv
  OBVIOUS
<1>1. TypeOK
  BY DEF Init, TypeOK, Places
<1>2. NothingUnannounced /\ NobodySleepsOnAMatch
  BY DEF Init, NothingUnannounced, NobodySleepsOnAMatch
<1> QED BY <1>1, <1>2 DEF DiscoveryInv

-----------------------------------------------------------------------------
(* The steps of the application and of the process.                        *)

LEMMA StartStep ==
  ASSUME DiscoveryInv, NEW p \in Participants, StartService(p)
  PROVE  DiscoveryInv'
<1>1. TypeOK'
  BY DEF DiscoveryInv, StartService, TypeOK, tables, At, Up
<1>2. NothingUnannounced' /\ NobodySleepsOnAMatch'
  BY DEF DiscoveryInv, StartService, tables, NothingUnannounced, NobodySleepsOnAMatch, Matches
<1> QED BY <1>1, <1>2 DEF DiscoveryInv

LEMMA TerminateStep ==
  ASSUME DiscoveryInv, NEW p \in Participants, Terminate(p)
  PROVE  DiscoveryInv'
<1>1. TypeOK'
  BY DEF DiscoveryInv, Terminate, TypeOK, At, Up, Places
<1>2. OnlyOf(p)
  BY DEF DiscoveryInv, TypeOK, Terminate, OnlyOf
<1>3. Told(p)' /\ Attentive(p)'
  BY DEF DiscoveryInv, TypeOK, Terminate, Told, Attentive
<1> QED BY <1>1, <1>2, <1>3, OthersKeep

(* An endpoint that is new, or announced before, makes a request.          *)
LEMMA AddStep ==
  ASSUME DiscoveryInv, NEW e \in Endpoints, AddEndpoint(e)
  PROVE  DiscoveryInv'
<1> DEFINE p == Owner[e]
<1>0. p \in Participants
  BY OwnerAssumption
<1> HIDE DEF p
<1>1. TypeOK'
  BY <1>0 DEF DiscoveryInv, AddEndpoint, TypeOK, At, Up, p
<1>2. OnlyOf(p)
  BY <1>0 DEF DiscoveryInv, TypeOK, AddEndpoint, OnlyOf, p
<1>3. Told(p)' /\ Attentive(p)'
  BY <1>0, ByParticipant DEF DiscoveryInv, TypeOK, AddEndpoint, Told, Attentive, Matches, p
<1> QED BY <1>0, <1>1, <1>2, <1>3, OthersKeep

LEMMA RemoveStep ==
  ASSUME DiscoveryInv, NEW e \in Endpoints, RemoveEndpoint(e)
  PROVE  DiscoveryInv'
<1> DEFINE p == Owner[e]
<1>0. p \in Participants
  BY OwnerAssumption
<1> HIDE DEF p
<1>1. TypeOK'
  BY <1>0 DEF DiscoveryInv, RemoveEndpoint, TypeOK, At, Up, p
<1>2. OnlyOf(p)
  BY <1>0 DEF DiscoveryInv, TypeOK, RemoveEndpoint, OnlyOf, p
<1>3. Told(p)' /\ Attentive(p)'
  <2>1. Told(p) /\ Attentive(p)
    BY <1>0, ByParticipant DEF DiscoveryInv
  <2>2. /\ local'[p] = local[p] \ {e}
        /\ announced'[p] = {a \in announced[p] : a.endpoint # e}
        /\ UNCHANGED <<worker, requested, participants, endpoints, to_send, waiter>>
    BY <1>0 DEF DiscoveryInv, TypeOK, RemoveEndpoint, p
  <2> QED BY <2>1, <2>2 DEF Told, Attentive, Matches
<1> QED BY <1>0, <1>1, <1>2, <1>3, OthersKeep

(* A thread falls asleep only on the test, and wakes up on its own only    *)
(* with the time up.                                                       *)
LEMMA WaitStep ==
  ASSUME DiscoveryInv, NEW p \in Participants,
         WaitCall(p) \/ WaitTest(p) \/ WaitExpire(p)
  PROVE  DiscoveryInv'
<1>1. TypeOK'
  BY DEF DiscoveryInv, WaitCall, WaitTest, WaitExpire, TypeOK, At, Up, tables
<1>2. OnlyOf(p)
  BY DEF DiscoveryInv, TypeOK, WaitCall, WaitTest, WaitExpire, OnlyOf, tables
<1>3. Told(p)'
  BY ByParticipant DEF DiscoveryInv, Told, WaitCall, WaitTest, WaitExpire, tables
<1>4. Attentive(p)'
  BY ByParticipant
     DEF DiscoveryInv, TypeOK, Attentive, Matches, WaitCall, WaitTest, WaitExpire, tables
<1> QED BY <1>1, <1>2, <1>3, <1>4, OthersKeep

-----------------------------------------------------------------------------
(* The steps of the worker.                                                *)

LEMMA AnnounceStep ==
  ASSUME DiscoveryInv, NEW p \in Participants, NEW others \in SUBSET Others(p),
         Announce(p, others)
  PROVE  DiscoveryInv'
<1>1. TypeOK'
  <2>1. [from : {p}, to : others] \subseteq [from : Participants, to : Participants]
    BY DEF Others
  <2> QED
    BY <2>1 DEF DiscoveryInv, Announce, TypeOK, At, Up, Goto, Places, tables
<1>2. OnlyOf(p)
  BY DEF DiscoveryInv, TypeOK, Announce, Goto, OnlyOf, tables
<1>3. Told(p)' /\ Attentive(p)'
  BY ByParticipant
     DEF DiscoveryInv, TypeOK, Announce, Told, Attentive, Matches, tables
<1> QED BY <1>1, <1>2, <1>3, OthersKeep

(* A poll without effect, or no announcement due.                          *)
LEMMA IdleStep ==
  ASSUME DiscoveryInv, NEW p \in Participants, NotDue(p) \/ PollSpdp(p) \/ PollSedp(p)
  PROVE  DiscoveryInv'
<1>1. TypeOK'
  BY DEF DiscoveryInv, NotDue, PollSpdp, PollSedp, TypeOK, At, Up, Goto, Places, tables
<1>2. OnlyOf(p)
  BY DEF DiscoveryInv, TypeOK, NotDue, PollSpdp, PollSedp, Goto, OnlyOf, tables
<1>3. Told(p)' /\ Attentive(p)'
  BY ByParticipant
     DEF DiscoveryInv, TypeOK, NotDue, PollSpdp, PollSedp, At, Told, Attentive, Matches, tables
<1> QED BY <1>1, <1>2, <1>3, OthersKeep

LEMMA SpdpStep ==
  ASSUME DiscoveryInv, NEW p \in Participants, NEW m \in spdp, ReceiveSpdp(p, m)
  PROVE  DiscoveryInv'
<1>0. m.from \in Participants /\ spdp' \subseteq spdp
  BY DEF DiscoveryInv, TypeOK, ReceiveSpdp, Received
<1>1. TypeOK'
  BY <1>0 DEF DiscoveryInv, ReceiveSpdp, NotifyAll, TypeOK, At, Up, Goto, Places
<1>2. OnlyOf(p)
  BY DEF DiscoveryInv, TypeOK, ReceiveSpdp, NotifyAll, Goto, OnlyOf
<1>3. Told(p)' /\ Attentive(p)'
  <2>1. Told(p) /\ worker[p] # "snapshot"
    BY ByParticipant DEF DiscoveryInv, ReceiveSpdp, At
  <2>2. /\ participants'[p] = participants[p] \cup {m.from}
        /\ requested'[p] = (requested[p] \/ m.from \notin participants[p])
        /\ waiter'[p] # "asleep"
        /\ UNCHANGED <<local, to_send, announced>>
    BY DEF DiscoveryInv, TypeOK, ReceiveSpdp, NotifyAll
  <2> QED BY <2>1, <2>2 DEF Told, Attentive
<1> QED BY <1>1, <1>2, <1>3, OthersKeep

LEMMA SedpStep ==
  ASSUME DiscoveryInv, NEW p \in Participants, NEW m \in sedp, ReceiveSedp(p, m)
  PROVE  DiscoveryInv'
<1>0. m.endpoint \in Endpoints /\ sedp' \subseteq sedp
  BY DEF DiscoveryInv, TypeOK, ReceiveSedp, Received, Announcement
<1>1. TypeOK'
  BY <1>0 DEF DiscoveryInv, ReceiveSedp, NotifyAll, TypeOK, At, Up, Goto, Places
<1>2. OnlyOf(p)
  BY DEF DiscoveryInv, TypeOK, ReceiveSedp, NotifyAll, Goto, OnlyOf
<1>3. Told(p)' /\ Attentive(p)'
  <2>1. Told(p) /\ worker[p] # "snapshot"
    BY ByParticipant DEF DiscoveryInv, ReceiveSedp, At
  <2>2. /\ waiter'[p] # "asleep"
        /\ UNCHANGED <<requested, local, participants, to_send, announced>>
    BY DEF DiscoveryInv, TypeOK, ReceiveSedp, NotifyAll
  <2> QED BY <2>1, <2>2 DEF Told, Attentive
<1> QED BY <1>1, <1>2, <1>3, OthersKeep

(* The request is cleared, but the worker is about to take the snapshot;   *)
(* without a request there is nothing to announce.                         *)
LEMMA ExchangeStep ==
  ASSUME DiscoveryInv, NEW p \in Participants, Exchange(p)
  PROVE  DiscoveryInv'
<1>1. TypeOK'
  BY DEF DiscoveryInv, Exchange, TypeOK, At, Up, Goto, Places, tables
<1>2. OnlyOf(p)
  BY DEF DiscoveryInv, TypeOK, Exchange, Goto, OnlyOf, tables
<1>3. Told(p)' /\ Attentive(p)'
  <2>1. Told(p) /\ Attentive(p) /\ worker[p] = "exchange"
    BY ByParticipant DEF DiscoveryInv, Exchange, At
  <2>2. /\ worker'[p] = IF requested[p] THEN "snapshot" ELSE "purge"
        /\ UNCHANGED <<local, participants, endpoints, to_send, waiter, announced>>
    BY DEF DiscoveryInv, TypeOK, Exchange, Goto, tables
  <2> QED BY <2>1, <2>2 DEF Told, Attentive, Matches
<1> QED BY <1>1, <1>2, <1>3, OthersKeep

(* The snapshot holds every local endpoint for every known participant.    *)
LEMMA SnapshotStep ==
  ASSUME DiscoveryInv, NEW p \in Participants, Snapshot(p)
  PROVE  DiscoveryInv'
<1>1. TypeOK'
  <2>1. [to : participants[p], endpoint : local[p]] \subseteq Announcement
    BY DEF DiscoveryInv, TypeOK, Announcement
  <2> QED
    BY <2>1 DEF DiscoveryInv, Snapshot, TypeOK, At, Up, Goto, Places, tables
<1>2. OnlyOf(p)
  BY DEF DiscoveryInv, TypeOK, Snapshot, Goto, OnlyOf, tables
<1>3. Told(p)' /\ Attentive(p)'
  <2>1. Attentive(p)
    BY ByParticipant DEF DiscoveryInv
  <2>2. /\ to_send'[p] = [to : participants[p], endpoint : local[p]]
        /\ UNCHANGED <<local, participants, endpoints, waiter>>
    BY DEF DiscoveryInv, TypeOK, Snapshot, tables
  <2> QED BY <2>1, <2>2 DEF Told, Attentive, Matches
<1> QED BY <1>1, <1>2, <1>3, OthersKeep

(* What has been sent is announced, unless it was removed meanwhile.       *)
LEMMA SendStep ==
  ASSUME DiscoveryInv, NEW p \in Participants, NEW a \in to_send[p],
         NEW arrives \in BOOLEAN, Send(p, a, arrives)
  PROVE  DiscoveryInv'
<1>0. a \in Announcement
  BY DEF DiscoveryInv, TypeOK
<1>1. TypeOK'
  BY <1>0 DEF DiscoveryInv, Send, TypeOK, At, Up, tables
<1>2. OnlyOf(p)
  BY DEF DiscoveryInv, TypeOK, Send, OnlyOf, tables
<1>3. Told(p)' /\ Attentive(p)'
  <2>1. Told(p) /\ Attentive(p)
    BY ByParticipant DEF DiscoveryInv
  <2>2. /\ to_send'[p] = to_send[p] \ {a}
        /\ announced'[p] = IF a.endpoint \in local[p] THEN announced[p] \cup {a}
                           ELSE announced[p]
        /\ UNCHANGED <<worker, requested, local, participants, endpoints, waiter>>
    BY DEF DiscoveryInv, TypeOK, Send, tables
  <2> QED BY <2>1, <2>2 DEF Told, Attentive, Matches
<1> QED BY <1>1, <1>2, <1>3, OthersKeep

LEMMA AllSentStep ==
  ASSUME DiscoveryInv, NEW p \in Participants, AllSent(p)
  PROVE  DiscoveryInv'
<1>1. TypeOK'
  BY DEF DiscoveryInv, AllSent, TypeOK, At, Up, Goto, Places, tables
<1>2. OnlyOf(p)
  BY DEF DiscoveryInv, TypeOK, AllSent, Goto, OnlyOf, tables
<1>3. Told(p)' /\ Attentive(p)'
  BY ByParticipant
     DEF DiscoveryInv, TypeOK, AllSent, At, Told, Attentive, Matches, tables
<1> QED BY <1>1, <1>2, <1>3, OthersKeep

(* A participant is forgotten with the record of what it has been told.    *)
LEMMA PurgeStep ==
  ASSUME DiscoveryInv, NEW p \in Participants, NEW expired \in SUBSET participants[p],
         Purge(p, expired)
  PROVE  DiscoveryInv'
<1>1. TypeOK'
  BY DEF DiscoveryInv, Purge, NotifyAll, TypeOK, At, Up, Goto, Places
<1>2. OnlyOf(p)
  BY DEF DiscoveryInv, TypeOK, Purge, NotifyAll, Goto, OnlyOf
<1>3. Told(p)' /\ Attentive(p)'
  <2>1. Told(p) /\ Attentive(p) /\ worker[p] # "snapshot"
    BY ByParticipant DEF DiscoveryInv, Purge, At
  <2>2. /\ participants'[p] = participants[p] \ expired
        /\ announced'[p] = {a \in announced[p] : a.to \notin expired}
        /\ endpoints'[p] \subseteq endpoints[p]
        /\ waiter'[p] = waiter[p] \/ waiter'[p] # "asleep"
        /\ UNCHANGED <<requested, local, to_send>>
    BY DEF DiscoveryInv, TypeOK, Purge, NotifyAll
  <2> QED BY <2>1, <2>2 DEF Told, Attentive, Matches
<1> QED BY <1>1, <1>2, <1>3, OthersKeep

LEMMA InvStep == DiscoveryInv /\ [Next]_vars => DiscoveryInv'
<1> SUFFICES ASSUME DiscoveryInv, [Next]_vars PROVE DiscoveryInv'
  OBVIOUS
<1>1. CASE UNCHANGED vars
  BY <1>1 DEF DiscoveryInv, TypeOK, NothingUnannounced, NobodySleepsOnAMatch,
     Matches, At, Up, vars, tables
<1>2. ASSUME NEW p \in Participants, WorkerStep(p) PROVE DiscoveryInv'
  BY <1>2, IdleStep, AnnounceStep, SpdpStep, SedpStep, ExchangeStep, SnapshotStep,
     SendStep, AllSentStep, PurgeStep DEF WorkerStep
<1> QED
  BY <1>1, <1>2, StartStep, TerminateStep, WaitStep, AddStep, RemoveStep DEF Next

(* The invariant holds of every reachable state, with or without fairness. *)
THEOREM DiscoveryInvariant == Spec => []DiscoveryInv
BY InitInv, InvStep, PTL DEF Spec

(* The tables and queues keep their types, and the worker holds            *)
(* announcements to send only inside send_all_endpoint_announcements.      *)
THEOREM DiscoveryTypeCorrect == Spec => []TypeOK
<1>1. DiscoveryInv => TypeOK
  BY DEF DiscoveryInv
<1> QED BY <1>1, DiscoveryInvariant, PTL

(* announce_requested.exchange(false) before the snapshot loses no request *)
(* made while the worker is sending.                                       *)
THEOREM NothingSwallowed == Spec => []NothingUnannounced
<1>1. DiscoveryInv => NothingUnannounced
  BY DEF DiscoveryInv
<1> QED BY <1>1, DiscoveryInvariant, PTL

(* Every change of remote_endpoints that wait_for_readers may wait for is  *)
(* followed by a notification.                                             *)
THEOREM NoMissedWakeup == Spec => []NobodySleepsOnAMatch
<1>1. DiscoveryInv => NobodySleepsOnAMatch
  BY DEF DiscoveryInv
<1> QED BY <1>1, DiscoveryInvariant, PTL
=============================================================================
