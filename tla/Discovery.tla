------------------------------ MODULE Discovery ------------------------------
(***************************************************************************)
(* The DiscoveryServices of several participants.  Each has one worker     *)
(* thread that, turn after turn, announces its participant (SPDP, by       *)
(* multicast), polls the two discovery sockets, announces its endpoints to *)
(* every participant it knows (SEDP, by unicast) and purges participants   *)
(* whose lease has expired.  The threads of the application add and remove *)
(* local endpoints and wait for a matching remote reader.                  *)
(*                                                                         *)
(* Time is abstracted: an announcement may be due at any turn, and a lease *)
(* may have expired at any purge, since announcements may have been lost,  *)
(* and threads and processes delayed, for as long as that takes.           *)
(*                                                                         *)
(* A datagram is lost when it is sent, or waits in the socket until it is  *)
(* received, even when its sender is gone; it may be received twice.       *)
(* A participant that is gone, by a crash or by its destructor, says no    *)
(* word about it; one that starts again has a new GuidPrefix and is        *)
(* another participant.  Undecodable and foreign datagrams are those that  *)
(* make a poll return without effect, as a timeout does.  So are the       *)
(* participant's own announcements, which multicast loopback returns.      *)
(*                                                                         *)
(* The condition variable of the service is waited on by application       *)
(* threads only, and what they wait for changes under its mutex, so that a *)
(* critical section and the notification after it are one action.          *)
(***************************************************************************)
EXTENDS Naturals

CONSTANTS Participants,  \* the GuidPrefixes
          Endpoints,     \* the endpoints that may be created
          Owner,         \* Owner[e]: the participant e belongs to
          Waiting,       \* the participants with a DataWriter that waits
          Wanted         \* those these DataWriters can match: readers of
                         \* their topic, type and reliability

ASSUME OwnerAssumption == Owner \in [Endpoints -> Participants]
ASSUME WaitingAssumption == Waiting \subseteq Participants
ASSUME WantedAssumption == Wanted \subseteq Endpoints

VARIABLES
  status,       \* status[p]: whether participant p exists
  worker,       \* worker[p]: where its worker thread is in run()
  requested,    \* announce_requested
  local,        \* local_endpoints
  participants, \* remote_participants
  endpoints,    \* remote_endpoints
  to_send,      \* the announcements the worker has still to send
  waiter,       \* the thread in wait_for_readers
  spdp, sedp,   \* the datagrams waiting in the two sockets
  announced     \* history: announced[p], the endpoints of p that have been
                \* announced to each participant since p has known it

tables == <<local, participants, endpoints>>
vars == <<status, worker, requested, tables, to_send, waiter, spdp, sedp, announced>>

Places == {"announce", "poll_spdp", "poll_sedp", "exchange", "snapshot",
           "sending", "purge"}

Announcement == [to : Participants, endpoint : Endpoints]

Up(p) == status[p] = "up"

At(p, place) == Up(p) /\ worker[p] = place

(* The worker keeps announcements to send only while it is sending.        *)
TypeOK ==
  /\ status \in [Participants -> {"new", "up", "gone"}]
  /\ worker \in [Participants -> Places]
  /\ requested \in [Participants -> BOOLEAN]
  /\ local \in [Participants -> SUBSET Endpoints]
  /\ participants \in [Participants -> SUBSET Participants]
  /\ endpoints \in [Participants -> SUBSET Endpoints]
  /\ to_send \in [Participants -> SUBSET Announcement]
  /\ waiter \in [Participants -> {"idle", "testing", "asleep"}]
  /\ spdp \in SUBSET [from : Participants, to : Participants]
  /\ sedp \in SUBSET Announcement
  /\ announced \in [Participants -> SUBSET Announcement]
  /\ \A p \in Participants : to_send[p] # {} => At(p, "sending")

Init ==
  /\ status = [p \in Participants |-> "new"]
  /\ worker = [p \in Participants |-> "announce"]
  /\ requested = [p \in Participants |-> FALSE]
  /\ local = [p \in Participants |-> {}]
  /\ participants = [p \in Participants |-> {}]
  /\ endpoints = [p \in Participants |-> {}]
  /\ to_send = [p \in Participants |-> {}]
  /\ waiter = [p \in Participants |-> "idle"]
  /\ spdp = {}
  /\ sedp = {}
  /\ announced = [p \in Participants |-> {}]

-----------------------------------------------------------------------------
Goto(p, place) == worker' = [worker EXCEPT ![p] = place]

(* find_readers, for the writers that wait in p.                           *)
Matches(p) == endpoints[p] \cap Wanted

NotifyAll(p) ==
  waiter' = [waiter EXCEPT ![p] = IF @ = "asleep" THEN "testing" ELSE @]

(* The oldest copy of a datagram is received; another may follow.          *)
Received(socket, m) == {socket, socket \ {m}}

(* initialize succeeds.                                                    *)
StartService(p) ==
  /\ status[p] = "new"
  /\ status' = [status EXCEPT ![p] = "up"]
  /\ UNCHANGED <<worker, requested, tables, to_send, waiter, spdp, sedp, announced>>

(* The process ends, or the participant and all that belongs to it are     *)
(* destroyed.                                                              *)
Terminate(p) ==
  /\ Up(p)
  /\ status' = [status EXCEPT ![p] = "gone"]
  /\ worker' = [worker EXCEPT ![p] = "announce"]
  /\ requested' = [requested EXCEPT ![p] = FALSE]
  /\ local' = [local EXCEPT ![p] = {}]
  /\ participants' = [participants EXCEPT ![p] = {}]
  /\ endpoints' = [endpoints EXCEPT ![p] = {}]
  /\ to_send' = [to_send EXCEPT ![p] = {}]
  /\ waiter' = [waiter EXCEPT ![p] = "idle"]
  /\ spdp' = {m \in spdp : m.to # p}
  /\ sedp' = {m \in sedp : m.to # p}
  /\ announced' = [announced EXCEPT ![p] = {}]

-----------------------------------------------------------------------------
(* The application.                                                        *)

(* add_local_endpoint; it may be called again for the same endpoint.       *)
AddEndpoint(e) ==
  LET p == Owner[e]
  IN  /\ Up(p)
      /\ local' = [local EXCEPT ![p] = @ \cup {e}]
      /\ requested' = [requested EXCEPT ![p] = TRUE]
      /\ UNCHANGED <<status, worker, participants, endpoints, to_send, waiter,
                     spdp, sedp, announced>>

(* remove_local: nobody is told.                                           *)
RemoveEndpoint(e) ==
  LET p == Owner[e]
  IN  /\ Up(p)
      /\ e \in local[p]
      /\ local' = [local EXCEPT ![p] = @ \ {e}]
      /\ announced' = [announced EXCEPT ![p] = {a \in @ : a.endpoint # e}]
      /\ UNCHANGED <<status, worker, requested, participants, endpoints, to_send,
                     waiter, spdp, sedp>>

(* wait_for_readers                                                        *)
WaitCall(p) ==
  /\ p \in Waiting /\ Up(p) /\ waiter[p] = "idle"
  /\ waiter' = [waiter EXCEPT ![p] = "testing"]
  /\ UNCHANGED <<status, worker, requested, tables, to_send, spdp, sedp, announced>>

(* The predicate is tested under the mutex: it returns, or it sleeps.      *)
WaitTest(p) ==
  /\ Up(p) /\ waiter[p] = "testing"
  /\ waiter' = [waiter EXCEPT ![p] = IF Matches(p) # {} THEN "idle" ELSE "asleep"]
  /\ UNCHANGED <<status, worker, requested, tables, to_send, spdp, sedp, announced>>

(* The time is up, and the predicate still false.                          *)
WaitExpire(p) ==
  /\ Up(p) /\ waiter[p] = "asleep" /\ Matches(p) = {}
  /\ waiter' = [waiter EXCEPT ![p] = "idle"]
  /\ UNCHANGED <<status, worker, requested, tables, to_send, spdp, sedp, announced>>

-----------------------------------------------------------------------------
(* The worker: run.                                                        *)

(* No announcement is due.                                                 *)
NotDue(p) ==
  /\ At(p, "announce")
  /\ Goto(p, "poll_spdp")
  /\ UNCHANGED <<status, requested, tables, to_send, waiter, spdp, sedp, announced>>

(* Mutant: only a change makes the worker announce its endpoints again.    *)
BugAnnounce(p, others) ==
  /\ At(p, "announce")
  /\ spdp' = spdp \cup [from : {p}, to : others]
  /\ Goto(p, "poll_spdp")
  /\ UNCHANGED <<status, requested, tables, to_send, waiter, sedp, announced>>

(* send_participant_announcement: it reaches the participants of `others'. *)
Announce(p, others) ==
  /\ At(p, "announce")
  /\ spdp' = spdp \cup [from : {p}, to : others]
  /\ requested' = [requested EXCEPT ![p] = TRUE]
  /\ Goto(p, "poll_spdp")
  /\ UNCHANGED <<status, tables, to_send, waiter, sedp, announced>>

(* poll_spdp and poll_metatraffic return without effect.                   *)
PollSpdp(p) ==
  /\ At(p, "poll_spdp")
  /\ Goto(p, "poll_sedp")
  /\ UNCHANGED <<status, requested, tables, to_send, waiter, spdp, sedp, announced>>

PollSedp(p) ==
  /\ At(p, "poll_sedp")
  /\ Goto(p, "exchange")
  /\ UNCHANGED <<status, requested, tables, to_send, waiter, spdp, sedp, announced>>

(* poll_spdp receives an announcement.  Only the worker clears requested,  *)
(* so that setting it after the critical section makes no difference.      *)
ReceiveSpdp(p, m) ==
  /\ At(p, "poll_spdp")
  /\ m \in spdp /\ m.to = p
  /\ spdp' \in Received(spdp, m)
  /\ participants' = [participants EXCEPT ![p] = @ \cup {m.from}]
  /\ requested' = [requested EXCEPT ![p] = @ \/ m.from \notin participants[p]]
  /\ NotifyAll(p)
  /\ Goto(p, "poll_sedp")
  /\ UNCHANGED <<status, local, endpoints, to_send, sedp, announced>>

(* Mutant: nobody is notified of a new endpoint.                           *)
BugReceiveSedp(p, m) ==
  /\ At(p, "poll_sedp")
  /\ m \in sedp /\ m.to = p
  /\ sedp' \in Received(sedp, m)
  /\ endpoints' = [endpoints EXCEPT ![p] = @ \cup {m.endpoint}]
  /\ Goto(p, "exchange")
  /\ UNCHANGED <<status, requested, local, participants, to_send, waiter, spdp, announced>>

(* poll_metatraffic receives one: whether the participant it comes from    *)
(* is known is not asked.                                                  *)
ReceiveSedp(p, m) ==
  /\ At(p, "poll_sedp")
  /\ m \in sedp /\ m.to = p
  /\ sedp' \in Received(sedp, m)
  /\ endpoints' = [endpoints EXCEPT ![p] = @ \cup {m.endpoint}]
  /\ NotifyAll(p)
  /\ Goto(p, "exchange")
  /\ UNCHANGED <<status, requested, local, participants, to_send, spdp, announced>>

(* announce_requested.exchange(false)                                      *)
Exchange(p) ==
  /\ At(p, "exchange")
  /\ requested' = [requested EXCEPT ![p] = FALSE]
  /\ Goto(p, IF requested[p] THEN "snapshot" ELSE "purge")
  /\ UNCHANGED <<status, tables, to_send, waiter, spdp, sedp, announced>>

(* send_all_endpoint_announcements: the snapshot, then one after another.  *)
Snapshot(p) ==
  /\ At(p, "snapshot")
  /\ to_send' = [to_send EXCEPT ![p] = [to : participants[p], endpoint : local[p]]]
  /\ Goto(p, "sending")
  /\ UNCHANGED <<status, requested, tables, waiter, spdp, sedp, announced>>

(* send_endpoint_announcement: an error changes the error text only.  The  *)
(* destination need not exist any more.                                    *)
Send(p, a, arrives) ==
  /\ At(p, "sending")
  /\ a \in to_send[p]
  /\ to_send' = [to_send EXCEPT ![p] = @ \ {a}]
  /\ sedp' = IF arrives THEN sedp \cup {a} ELSE sedp
  /\ announced' = [announced EXCEPT ![p] =
                     IF a.endpoint \in local[p] THEN @ \cup {a} ELSE @]
  /\ UNCHANGED <<status, worker, requested, tables, waiter, spdp>>

(* Mutants: the request is cleared once the announcements have been sent;  *)
(* the loop is left before its end.                                        *)
BugAllSentClears(p) ==
  /\ At(p, "sending") /\ to_send[p] = {}
  /\ requested' = [requested EXCEPT ![p] = FALSE]
  /\ Goto(p, "purge")
  /\ UNCHANGED <<status, tables, to_send, waiter, spdp, sedp, announced>>

BugAllSentEarly(p) ==
  /\ At(p, "sending")
  /\ Goto(p, "purge")
  /\ UNCHANGED <<status, requested, tables, to_send, waiter, spdp, sedp, announced>>

AllSent(p) ==
  /\ At(p, "sending") /\ to_send[p] = {}
  /\ Goto(p, "purge")
  /\ UNCHANGED <<status, requested, tables, to_send, waiter, spdp, sedp, announced>>

(* purge_expired_entries: the leases of `expired' have run out.            *)
Purge(p, expired) ==
  /\ At(p, "purge")
  /\ participants' = [participants EXCEPT ![p] = @ \ expired]
  /\ endpoints' = [endpoints EXCEPT ![p] = {e \in @ : Owner[e] \notin expired}]
  /\ announced' = [announced EXCEPT ![p] = {a \in @ : a.to \notin expired}]
  /\ IF expired # {} THEN NotifyAll(p) ELSE UNCHANGED waiter
  /\ Goto(p, "announce")
  /\ UNCHANGED <<status, requested, local, to_send, spdp, sedp>>

Others(p) == {q \in Participants \ {p} : Up(q)}

WorkerStep(p) ==
  \/ NotDue(p)
  \/ \E others \in SUBSET Others(p) : Announce(p, others)
  \/ PollSpdp(p)
  \/ PollSedp(p)
  \/ \E m \in spdp : ReceiveSpdp(p, m)
  \/ \E m \in sedp : ReceiveSedp(p, m)
  \/ Exchange(p)
  \/ Snapshot(p)
  \/ \E a \in to_send[p] : Send(p, a, FALSE) \/ (Up(a.to) /\ Send(p, a, TRUE))
  \/ AllSent(p)
  \/ \E expired \in SUBSET participants[p] : Purge(p, expired)

Next ==
  \/ \E p \in Participants :
       \/ StartService(p)
       \/ Terminate(p)
       \/ WaitCall(p)
       \/ WaitTest(p)
       \/ WaitExpire(p)
       \/ WorkerStep(p)
  \/ \E e \in Endpoints : AddEndpoint(e) \/ RemoveEndpoint(e)

Spec == Init /\ [][Next]_vars

(* The threads of a participant run and announcements come due.  Of the    *)
(* network it is assumed that what is sent again and again arrives, and    *)
(* that what has arrived is received and not duplicated without end.       *)
FairSpec ==
  /\ Spec
  /\ \A p \in Participants : WF_vars(WorkerStep(p))
  /\ \A p \in Participants : \A q \in Participants \ {p} :
       /\ SF_vars(\E others \in SUBSET Others(p) : q \in others /\ Announce(p, others))
       /\ SF_vars(\E m \in spdp : m.from = q /\ ReceiveSpdp(p, m) /\ m \notin spdp')
  /\ \A e \in Endpoints : \A q \in Participants \ {Owner[e]} :
       /\ SF_vars(\E a \in to_send[Owner[e]] :
                    a = [to |-> q, endpoint |-> e] /\ Up(q) /\ Send(Owner[e], a, TRUE))
       /\ SF_vars(\E m \in sedp : m.endpoint = e /\ ReceiveSedp(q, m) /\ m \notin sedp')

(* ... and a lease ends once its participant is gone.                      *)
LeaseSpec ==
  /\ FairSpec
  /\ \A p \in Participants : \A q \in Participants \ {p} :
       SF_vars(\E expired \in SUBSET participants[p] :
                 q \in expired /\ status[q] = "gone" /\ Purge(p, expired))

-----------------------------------------------------------------------------
(* No request for an announcement is swallowed: a local endpoint that a    *)
(* known participant has not been told of is about to be announced, though *)
(* endpoints are added, and participants found and purged, while the       *)
(* worker is sending.                                                      *)
NothingUnannounced ==
  \A p \in Participants : \A e \in local[p], q \in participants[p] :
    LET a == [to |-> q, endpoint |-> e]
    IN  \/ a \in announced[p] \cup to_send[p]
        \/ requested[p]
        \/ worker[p] = "snapshot"

(* No writer sleeps while there is a reader it could match.                *)
NobodySleepsOnAMatch ==
  \A p \in Participants : waiter[p] = "asleep" => Matches(p) = {}

(* Participants that stay find each other's endpoints, in whatever order   *)
(* they start, whichever datagrams are lost, and though leases run out.    *)
Discovered ==
  \A e \in Endpoints : \A p \in Participants \ {Owner[e]} :
    e \in local[Owner[e]] /\ Up(p) ~>
      e \in endpoints[p] \/ e \notin local[Owner[e]] \/ ~Up(p)

(* What is known of a participant that is gone disappears with its lease.  *)
RecordsFollowLease ==
  \A e \in Endpoints, p \in Participants :
    status[Owner[e]] = "gone" /\ Up(p) ~> e \notin endpoints[p] \/ ~Up(p)
=============================================================================
