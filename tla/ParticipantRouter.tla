--------------------------- MODULE ParticipantRouter ---------------------------
(***************************************************************************)
(* The ParticipantMessageRouter: one receiver thread reads the socket of a *)
(* participant and hands each datagram to the channels of the local        *)
(* endpoints it is meant for; each endpoint receives from its own channel  *)
(* in a thread of its own, and sends through the router.                   *)
(*                                                                         *)
(* A critical section is one action, together with the notification that   *)
(* follows it: nothing happens between the two that could be missed, since *)
(* every predicate of a wait changes under the mutex of the wait.  What    *)
(* runs across several critical sections is taken apart: routing (a        *)
(* snapshot of the channels, then one channel after the other), fail,      *)
(* stop and remove_channel.                                                *)
(*                                                                         *)
(* add_channel reads Channel::active without the channel's mutex, while    *)
(* remove_channel may be clearing it.  A stale value can only make it      *)
(* refuse an endpoint, and a refusal is no step of the model.              *)
(***************************************************************************)
EXTENDS Integers, Sequences, FiniteSets

CONSTANTS Channels,     \* the Channel objects that may be created
          Readers,      \* EntityIds of readers
          Writers,      \* EntityIds of writers
          MaxDatagrams  \* bound: the number of datagrams received

ASSUME DatagramsAssumption == MaxDatagrams \in Nat \ {0}

Unknown == "unknown"  \* the EntityId that addresses every reader
NoKey == [kind |-> "none", id |-> Unknown]

(* RoutedEndpointKind and EntityId: what an endpoint is registered under.  *)
Keys == [kind : {"reader"}, id : Readers] \cup [kind : {"writer"}, id : Writers]

(* RouteTarget; the router makes no difference between unknown reader ids  *)
(* and unknown writer ids.                                                 *)
Targets == Keys \cup [kind : {"reader", "writer"}, id : {Unknown}]

VARIABLES
  stopping, failed,  \* the two flags of the router
  registered,        \* Impl::channels
  key, active, queue, error,  \* the fields of each Channel
  asleep,            \* asleep[c]: the receive of c waits on Channel::ready
  calling,           \* calling[c]: a receive of c is in progress
  removal,           \* removal[c]: how far remove_channel has come
  receiver,          \* where the receiver thread is
  target,            \* the RouteTargets of the datagrams received so far
  left,              \* the channels the receiver thread has still to visit
  stopper,           \* where the thread in stop() is
  to_close,          \* the channels stop() has still to close
  due,               \* history: due[c], the datagrams addressed to c
  got                \* history: got[c], what the receives of c returned

flagVars == <<stopping, failed>>
channelVars == <<registered, key, active, queue, error, removal>>
callVars == <<asleep, calling, got>>
receiverVars == <<receiver, target, left, due>>
stopVars == <<stopper, to_close>>
vars == <<flagVars, channelVars, callVars, receiverVars, stopVars>>

Datagrams == 1..MaxDatagrams

TypeOK ==
  /\ stopping \in BOOLEAN /\ failed \in BOOLEAN
  /\ registered \in SUBSET Channels
  /\ key \in [Channels -> Keys \cup {NoKey}]
  /\ active \in [Channels -> BOOLEAN]
  /\ queue \in [Channels -> Seq(Datagrams)]
  /\ error \in [Channels -> BOOLEAN]
  /\ asleep \in [Channels -> BOOLEAN]
  /\ calling \in [Channels -> BOOLEAN]
  /\ removal \in [Channels -> {"none", "begun", "done"}]
  /\ receiver \in {"polling", "routing", "delivering", "failing", "spreading", "done"}
  /\ target \in Seq(Targets) /\ Len(target) <= MaxDatagrams
  /\ left \in SUBSET Channels
  /\ receiver \notin {"delivering", "spreading"} => left = {}
  /\ stopper \in {"none", "joining", "closing", "stopped"}
  /\ to_close \in SUBSET Channels
  /\ due \in [Channels -> SUBSET Datagrams]
  /\ got \in [Channels -> Seq(Datagrams)]

Init ==
  /\ stopping = FALSE /\ failed = FALSE
  /\ registered = {}
  /\ key = [c \in Channels |-> NoKey]
  /\ active = [c \in Channels |-> FALSE]
  /\ queue = [c \in Channels |-> <<>>]
  /\ error = [c \in Channels |-> FALSE]
  /\ asleep = [c \in Channels |-> FALSE]
  /\ calling = [c \in Channels |-> FALSE]
  /\ removal = [c \in Channels |-> "none"]
  /\ receiver = "polling"
  /\ target = <<>>
  /\ left = {}
  /\ stopper = "none"
  /\ to_close = {}
  /\ due = [c \in Channels |-> {}]
  /\ got = [c \in Channels |-> <<>>]

Wake(c) == asleep' = [asleep EXCEPT ![c] = FALSE]

-----------------------------------------------------------------------------
(* Registration.                                                           *)

(* Definitions named Bug... are not part of the model: each is a mistake    *)
(* one could make in the definition that follows it.  Here, failed is not  *)
(* looked at under channels_mutex.                                         *)
BugAddFailed(c, k) ==
  /\ key[c] = NoKey
  /\ ~stopping
  /\ \A d \in registered : active[d] => key[d] # k
  /\ registered' = registered \cup {c}
  /\ key' = [key EXCEPT ![c] = k]
  /\ active' = [active EXCEPT ![c] = TRUE]
  /\ UNCHANGED <<flagVars, queue, error, removal, callVars, receiverVars, stopVars>>

(* create_endpoint, add_channel: under channels_mutex.  A refusal changes  *)
(* the error text only.                                                    *)
AddChannel(c, k) ==
  /\ key[c] = NoKey
  /\ ~stopping /\ ~failed
  /\ \A d \in registered : active[d] => key[d] # k
  /\ registered' = registered \cup {c}
  /\ key' = [key EXCEPT ![c] = k]
  /\ active' = [active EXCEPT ![c] = TRUE]
  /\ UNCHANGED <<flagVars, queue, error, removal, callVars, receiverVars, stopVars>>

(* Bug: the channel is erased before it is closed.                         *)
BugEraseFirst(c) ==
  /\ key[c] # NoKey /\ removal[c] = "none" /\ ~calling[c]
  /\ removal' = [removal EXCEPT ![c] = "begun"]
  /\ registered' = registered \ {c}
  /\ UNCHANGED <<flagVars, key, active, queue, error, callVars, receiverVars, stopVars>>

(* ~RoutedTransport, remove_channel: its two critical sections.  Nobody    *)
(* destroys a transport that is receiving.                                 *)
CloseChannel(c) ==
  /\ key[c] # NoKey /\ removal[c] = "none" /\ ~calling[c]
  /\ removal' = [removal EXCEPT ![c] = "begun"]
  /\ active' = [active EXCEPT ![c] = FALSE]
  /\ queue' = [queue EXCEPT ![c] = <<>>]
  /\ Wake(c)
  /\ UNCHANGED <<flagVars, registered, key, error, calling, got, receiverVars, stopVars>>

EraseChannel(c) ==
  /\ removal[c] = "begun"
  /\ removal' = [removal EXCEPT ![c] = "done"]
  /\ registered' = registered \ {c}
  /\ UNCHANGED <<flagVars, key, active, queue, error, callVars, receiverVars, stopVars>>

-----------------------------------------------------------------------------
(* RoutedTransport::receive                                                *)

CallReceive(c) ==
  /\ key[c] # NoKey /\ removal[c] = "none" /\ ~calling[c]
  /\ calling' = [calling EXCEPT ![c] = TRUE]
  /\ UNCHANGED <<flagVars, channelVars, asleep, got, receiverVars, stopVars>>

Available(c) == queue[c] # <<>> \/ error[c] \/ ~active[c]

(* The predicate is false: release the mutex and sleep.                    *)
Sleep(c) ==
  /\ calling[c] /\ ~asleep[c] /\ ~Available(c)
  /\ asleep' = [asleep EXCEPT ![c] = TRUE]
  /\ UNCHANGED <<flagVars, channelVars, calling, got, receiverVars, stopVars>>

(* It is true: the oldest datagram comes before any error.                 *)
Return(c) ==
  /\ calling[c] /\ ~asleep[c] /\ Available(c)
  /\ calling' = [calling EXCEPT ![c] = FALSE]
  /\ IF queue[c] # <<>>
     THEN /\ got' = [got EXCEPT ![c] = Append(@, Head(queue[c]))]
          /\ queue' = [queue EXCEPT ![c] = Tail(@)]
     ELSE UNCHANGED <<got, queue>>
  /\ UNCHANGED <<flagVars, registered, key, active, error, removal, asleep,
                 receiverVars, stopVars>>

(* The timeout of wait_for passes, and the predicate is still false.       *)
Expire(c) ==
  /\ calling[c] /\ asleep[c] /\ ~Available(c)
  /\ calling' = [calling EXCEPT ![c] = FALSE]
  /\ asleep' = [asleep EXCEPT ![c] = FALSE]
  /\ UNCHANGED <<flagVars, channelVars, got, receiverVars, stopVars>>

-----------------------------------------------------------------------------
(* The receiver thread: receive_loop, fail.                                *)

(* Bug: the loop does not look at stopping.                                *)
BugPollForever ==
  /\ receiver = "polling"
  /\ Len(target) < MaxDatagrams
  /\ \E t \in Targets : target' = Append(target, t)
  /\ receiver' = "routing"
  /\ UNCHANGED <<flagVars, channelVars, callVars, left, due, stopVars>>

(* One turn of the loop: it ends, or transport.receive times out (nothing  *)
(* changes), fails, or returns a datagram that has a target.               *)
Poll ==
  /\ receiver = "polling"
  /\ \/ /\ stopping
        /\ receiver' = "done"
        /\ UNCHANGED target
     \/ /\ Len(target) < MaxDatagrams
        /\ \E t \in Targets : target' = Append(target, t)
        /\ receiver' = "routing"
  /\ UNCHANGED <<flagVars, channelVars, callVars, left, due, stopVars>>

(* The transport fails.  stopping is read again; then failed is set.       *)
PollFails ==
  /\ receiver = "polling"
  /\ receiver' = IF stopping THEN "done" ELSE "failing"
  /\ failed' = (failed \/ ~stopping)
  /\ UNCHANGED <<stopping, channelVars, callVars, target, left, due, stopVars>>

Addressed(t) ==
  {c \in registered : key[c].kind = t.kind /\ (t.id = Unknown \/ key[c].id = t.id)}

(* The snapshot of the channels a datagram is meant for.                   *)
Route ==
  /\ receiver = "routing"
  /\ receiver' = "delivering"
  /\ left' = Addressed(target[Len(target)])
  /\ due' = [c \in Channels |->
       IF c \in left' /\ active[c] THEN due[c] \cup {Len(target)} ELSE due[c]]
  /\ UNCHANGED <<flagVars, channelVars, callVars, target, stopVars>>

(* Bugs: only the first channel is served; active is not looked at.        *)
BugDeliverFirst(c) ==
  /\ receiver = "delivering" /\ c \in left
  /\ left' = {}
  /\ queue' = [queue EXCEPT ![c] = Append(@, Len(target))]
  /\ Wake(c)
  /\ UNCHANGED <<flagVars, registered, key, active, error, removal, calling, got,
                 receiver, target, due, stopVars>>

BugDeliverClosed(c) ==
  /\ receiver = "delivering" /\ c \in left
  /\ left' = left \ {c}
  /\ queue' = [queue EXCEPT ![c] = Append(@, Len(target))]
  /\ Wake(c)
  /\ UNCHANGED <<flagVars, registered, key, active, error, removal, calling, got,
                 receiver, target, due, stopVars>>

(* One of them gets it, unless it has been closed in the meantime.         *)
Deliver(c) ==
  /\ receiver = "delivering" /\ c \in left
  /\ left' = left \ {c}
  /\ IF active[c]
     THEN queue' = [queue EXCEPT ![c] = Append(@, Len(target))] /\ Wake(c)
     ELSE UNCHANGED <<queue, asleep>>
  /\ UNCHANGED <<flagVars, registered, key, active, error, removal, calling, got,
                 receiver, target, due, stopVars>>

(* Bug: the loop over the targets is left early.                           *)
BugDeliveredEarly ==
  /\ receiver = "delivering"
  /\ receiver' = "polling"
  /\ UNCHANGED <<flagVars, channelVars, callVars, target, left, due, stopVars>>

Delivered ==
  /\ receiver = "delivering" /\ left = {}
  /\ receiver' = "polling"
  /\ UNCHANGED <<flagVars, channelVars, callVars, target, left, due, stopVars>>

(* fail: failed is set already; a snapshot, then channel after channel.    *)
FailSnapshot ==
  /\ receiver = "failing"
  /\ receiver' = "spreading"
  /\ left' = registered
  /\ UNCHANGED <<flagVars, channelVars, callVars, target, due, stopVars>>

(* Bug: the waiting receive is not notified.                               *)
BugFailQuietly(c) ==
  /\ receiver = "spreading" /\ c \in left
  /\ left' = left \ {c}
  /\ error' = [error EXCEPT ![c] = TRUE]
  /\ UNCHANGED <<flagVars, registered, key, active, queue, removal, callVars,
                 receiver, target, due, stopVars>>

FailChannel(c) ==
  /\ receiver = "spreading" /\ c \in left
  /\ left' = left \ {c}
  /\ error' = [error EXCEPT ![c] = TRUE]
  /\ Wake(c)
  /\ UNCHANGED <<flagVars, registered, key, active, queue, removal, calling, got,
                 receiver, target, due, stopVars>>

FailEnds ==
  /\ receiver = "spreading" /\ left = {}
  /\ receiver' = "done"
  /\ UNCHANGED <<flagVars, channelVars, callVars, target, left, due, stopVars>>

-----------------------------------------------------------------------------
(* ~ParticipantMessageRouter: stop.                                        *)

StopBegins ==
  /\ stopper = "none"
  /\ stopper' = "joining"
  /\ stopping' = TRUE
  /\ UNCHANGED <<failed, channelVars, callVars, receiverVars, to_close>>

StopClears ==
  /\ stopper = "joining" /\ receiver = "done"
  /\ stopper' = "closing"
  /\ to_close' = registered
  /\ registered' = {}
  /\ UNCHANGED <<flagVars, key, active, queue, error, removal, callVars, receiverVars>>

StopCloses(c) ==
  /\ stopper = "closing" /\ c \in to_close
  /\ to_close' = to_close \ {c}
  /\ active' = [active EXCEPT ![c] = FALSE]
  /\ Wake(c)
  /\ UNCHANGED <<flagVars, registered, key, queue, error, removal, calling, got,
                 receiverVars, stopper>>

StopEnds ==
  /\ stopper = "closing" /\ to_close = {}
  /\ stopper' = "stopped"
  /\ UNCHANGED <<flagVars, channelVars, callVars, receiverVars, to_close>>

-----------------------------------------------------------------------------
ReceiverStep ==
  \/ Poll \/ Route \/ Delivered \/ FailSnapshot \/ FailEnds
  \/ \E c \in Channels : Deliver(c) \/ FailChannel(c)

StopStep == StopClears \/ StopEnds \/ \E c \in Channels : StopCloses(c)

CallStep(c) == Sleep(c) \/ Return(c)

Next ==
  \/ ReceiverStep
  \/ PollFails
  \/ StopBegins
  \/ StopStep
  \/ \E c \in Channels :
       \/ \E k \in Keys : AddChannel(c, k)
       \/ CloseChannel(c)
       \/ EraseChannel(c)
       \/ CallReceive(c)
       \/ CallStep(c)
       \/ Expire(c)

Spec == Init /\ [][Next]_vars

(* The threads run.  The receiver polls every 20 ms, so it notices that    *)
(* the router is stopping, and it finishes what it has begun; that the     *)
(* socket fails, that a datagram arrives and that a wait expires is not    *)
(* assumed.                                                                *)
FairSpec ==
  /\ Spec
  /\ WF_vars(ReceiverStep /\ (stopping \/ receiver # "polling"))
  /\ WF_vars(StopStep)
  /\ \A c \in Channels : WF_vars(CallStep(c))

-----------------------------------------------------------------------------
(* Two endpoints are never open under the same key, though an endpoint may *)
(* be created while its predecessor is being removed.                      *)
OneEndpointPerKey ==
  \A c, d \in Channels : active[c] /\ active[d] /\ key[c] = key[d] => c = d

(* Each endpoint receives the datagrams addressed to it, all of them, once *)
(* and in the order of arrival, whatever happens to the other endpoints    *)
(* between the snapshot and the delivery.                                  *)
ReceivesItsDatagrams ==
  \A c \in Channels :
    LET seen == got[c] \o queue[c]
    IN  /\ \A i, j \in 1..Len(seen) : i < j => seen[i] < seen[j]
        /\ \A i \in 1..Len(seen) : seen[i] \in due[c]
        /\ active[c] => \A n \in due[c] :
             \/ \E i \in 1..Len(seen) : seen[i] = n
             \/ n = Len(target) /\ receiver = "delivering" /\ c \in left

(* An endpoint that has been removed holds no datagram: the receiver, late *)
(* with its snapshot, adds nothing to it.                                  *)
RemovedIsEmpty == \A c \in Channels : removal[c] # "none" => queue[c] = <<>>

(* The failure of the socket reaches every endpoint, those created while   *)
(* it is being spread included.                                            *)
FailureReachesAll ==
  failed /\ receiver = "done" =>
    \A c \in Channels : key[c] # NoKey => error[c] \/ ~active[c]

(* No endpoint waits for ever on a router that has failed or stopped, and  *)
(* stop itself returns.                                                    *)
EndpointsAreReleased ==
  \A c \in Channels : (failed \/ stopping) /\ calling[c] ~> ~calling[c]

StopReturns == stopping ~> stopper = "stopped"
=============================================================================
