----------------------- MODULE ParticipantRouter_proofs -----------------------
(***************************************************************************)
(* Proofs about ParticipantRouter: the inductive invariant RouterInv and   *)
(* the safety properties, for any channels, EntityIds and number of        *)
(* datagrams.                                                              *)
(***************************************************************************)
EXTENDS ParticipantRouter, SequenceTheorems, TLAPS

-----------------------------------------------------------------------------
(* The inductive invariant, in parts.                                      *)

(* Where the receiver and the stopping thread are tells the flags: the     *)
(* receiver has left its loop before stop() takes the channels away.       *)
ThreadInv ==
  /\ receiver \in {"routing", "delivering"} => target # <<>>
  /\ receiver \in {"polling", "routing", "delivering"} => ~failed
  /\ receiver \in {"failing", "spreading"} => failed
  /\ stopper = "none" <=> ~stopping
  /\ stopper \in {"closing", "stopped"} => receiver = "done"
  /\ stopper # "closing" => to_close = {}

(* A channel that is open is in the table, or stop() is about to close it; *)
(* one that has been closed is never opened again.                         *)
ChannelInv ==
  \A c \in Channels :
    /\ active[c] => c \in registered \cup to_close /\ removal[c] = "none"
    /\ c \in registered \cup left => key[c] # NoKey
    /\ key[c] = NoKey => /\ ~active[c] /\ removal[c] = "none"
                         /\ queue[c] = <<>> /\ got[c] = <<>> /\ due[c] = {}

(* While a failure is spread, every open channel has it or is in what is   *)
(* left of the snapshot.                                                   *)
FailInv ==
  receiver \in {"spreading", "done"} /\ failed =>
    \A c \in Channels : active[c] => error[c] \/ c \in left

Seen(c) == got[c] \o queue[c]

Ascending(s) == \A i, j \in 1..Len(s) : i < j => s[i] < s[j]
Elements(s) == {s[i] : i \in 1..Len(s)}

(* What a channel has received or holds is what is due to it, but for the  *)
(* datagram being delivered, which it does not have before its turn.       *)
DeliveryInv ==
  \A c \in Channels :
    /\ Ascending(Seen(c))
    /\ Elements(Seen(c)) \subseteq due[c]
    /\ due[c] \subseteq 1..Len(target)
    /\ receiver = "routing" => Len(target) \notin due[c]
    /\ receiver = "delivering" /\ c \in left /\ active[c] =>
         Len(target) \in due[c] \ Elements(Seen(c))
    /\ active[c] => \A n \in due[c] \ Elements(Seen(c)) :
         n = Len(target) /\ receiver = "delivering" /\ c \in left

RouterInv ==
  /\ TypeOK
  /\ ThreadInv
  /\ ChannelInv
  /\ OneEndpointPerKey
  /\ RemovedIsEmpty
  /\ FailInv
  /\ DeliveryInv

-----------------------------------------------------------------------------
(* Facts about sequences of datagrams.                                     *)

LEMMA Appended ==
  ASSUME NEW s \in Seq(Datagrams), NEW n \in Datagrams
  PROVE  /\ Elements(Append(s, n)) = Elements(s) \cup {n}
         /\ Ascending(s) /\ (\A m \in Elements(s) : m < n)
              => Ascending(Append(s, n))
<1>1. /\ Append(s, n) \in Seq(Datagrams)
      /\ Len(Append(s, n)) = Len(s) + 1
      /\ \A i \in 1..Len(s) : Append(s, n)[i] = s[i]
      /\ Append(s, n)[Len(s) + 1] = n
      /\ Len(s) \in Nat
  OBVIOUS
<1>2. Elements(Append(s, n)) = Elements(s) \cup {n}
  BY <1>1 DEF Elements
<1>3. ASSUME Ascending(s), \A m \in Elements(s) : m < n
      PROVE  Ascending(Append(s, n))
  BY <1>1, <1>3 DEF Ascending, Elements
<1> QED BY <1>2, <1>3

LEMMA Prefix ==
  ASSUME NEW s \in Seq(Datagrams), NEW q \in Seq(Datagrams)
  PROVE  /\ Elements(s) \subseteq Elements(s \o q)
         /\ Ascending(s \o q) => Ascending(s)
<1>1. /\ Len(s \o q) = Len(s) + Len(q)
      /\ \A i \in 1..Len(s) : (s \o q)[i] = s[i]
      /\ Len(s) \in Nat /\ Len(q) \in Nat
  OBVIOUS
<1> QED BY <1>1 DEF Ascending, Elements

LEMMA MoveHead ==
  ASSUME NEW s \in Seq(Datagrams), NEW q \in Seq(Datagrams), q # <<>>
  PROVE  Append(s, Head(q)) \o Tail(q) = s \o q
OBVIOUS

LEMMA AppendRight ==
  ASSUME NEW s \in Seq(Datagrams), NEW q \in Seq(Datagrams), NEW n \in Datagrams
  PROVE  s \o Append(q, n) = Append(s \o q, n)
OBVIOUS

LEMMA RealKey == NoKey \notin Keys
BY DEF NoKey, Keys

-----------------------------------------------------------------------------
(* Every step preserves the invariant, one part after the other.           *)

LEMMA TypeStep ==
  ASSUME TypeOK, ThreadInv, [Next]_vars
  PROVE  TypeOK'
<1> USE DEF TypeOK, flagVars, channelVars, callVars, receiverVars, stopVars, Wake
<1>1. CASE Poll
  <2>1. ASSUME Len(target) < MaxDatagrams, NEW t \in Targets,
               target' = Append(target, t)
        PROVE  target' \in Seq(Targets) /\ Len(target') <= MaxDatagrams
    BY <2>1, DatagramsAssumption
  <2> QED BY <1>1, <2>1 DEF Poll
<1>2. CASE PollFails
  BY <1>2 DEF PollFails
<1>3. CASE Route
  <2>1. Len(target) \in Datagrams
    BY <1>3, DatagramsAssumption DEF Route, ThreadInv, Datagrams
  <2>2. left' \in SUBSET Channels
    BY <1>3 DEF Route, Addressed
  <2>3. due' \in [Channels -> SUBSET Datagrams]
    BY <1>3, <2>1 DEF Route
  <2> QED BY <1>3, <2>2, <2>3 DEF Route
<1>4. CASE Delivered
  BY <1>4 DEF Delivered
<1>5. CASE FailSnapshot
  BY <1>5 DEF FailSnapshot
<1>6. CASE FailEnds
  BY <1>6 DEF FailEnds
<1>7. ASSUME NEW c \in Channels, Deliver(c) PROVE TypeOK'
  <2>1. Len(target) \in Datagrams
    BY <1>7, DatagramsAssumption DEF Deliver, ThreadInv, Datagrams
  <2>2. \A d \in Channels : Append(queue[d], Len(target)) \in Seq(Datagrams)
    BY <2>1
  <2>3. queue' \in [Channels -> Seq(Datagrams)]
    BY <1>7, <2>2 DEF Deliver
  <2> QED BY <1>7, <2>3 DEF Deliver
<1>8. ASSUME NEW c \in Channels, FailChannel(c) PROVE TypeOK'
  BY <1>8 DEF FailChannel
<1>9. CASE StopBegins
  BY <1>9 DEF StopBegins
<1>10. CASE StopClears
  BY <1>10 DEF StopClears
<1>11. CASE StopEnds
  BY <1>11 DEF StopEnds
<1>12. ASSUME NEW c \in Channels, StopCloses(c) PROVE TypeOK'
  BY <1>12 DEF StopCloses
<1>13. ASSUME NEW c \in Channels, NEW k \in Keys, AddChannel(c, k) PROVE TypeOK'
  BY <1>13 DEF AddChannel, Targets
<1>14. ASSUME NEW c \in Channels, CloseChannel(c) PROVE TypeOK'
  BY <1>14 DEF CloseChannel
<1>15. ASSUME NEW c \in Channels, EraseChannel(c) PROVE TypeOK'
  BY <1>15 DEF EraseChannel
<1>16. ASSUME NEW c \in Channels, CallReceive(c) PROVE TypeOK'
  BY <1>16 DEF CallReceive
<1>17. ASSUME NEW c \in Channels, Sleep(c) PROVE TypeOK'
  BY <1>17 DEF Sleep
<1>18. ASSUME NEW c \in Channels, Return(c) PROVE TypeOK'
  <2>1. queue[c] # <<>> =>
          /\ Append(got[c], Head(queue[c])) \in Seq(Datagrams)
          /\ Tail(queue[c]) \in Seq(Datagrams)
    OBVIOUS
  <2>2. queue' \in [Channels -> Seq(Datagrams)] /\ got' \in [Channels -> Seq(Datagrams)]
    BY <1>18, <2>1 DEF Return
  <2> QED BY <1>18, <2>2 DEF Return
<1>19. ASSUME NEW c \in Channels, Expire(c) PROVE TypeOK'
  BY <1>19 DEF Expire
<1>20. CASE UNCHANGED vars
  BY <1>20 DEF vars
<1> QED
  BY <1>1, <1>2, <1>3, <1>4, <1>5, <1>6, <1>7, <1>8, <1>9, <1>10, <1>11,
     <1>12, <1>13, <1>14, <1>15, <1>16, <1>17, <1>18, <1>19, <1>20
     DEF Next, ReceiverStep, StopStep, CallStep

LEMMA ThreadStep ==
  ASSUME TypeOK, ThreadInv, [Next]_vars
  PROVE  ThreadInv'
<1> USE DEF ThreadInv, TypeOK, flagVars, channelVars, callVars, receiverVars, stopVars, Wake
<1>1. CASE Poll
  BY <1>1 DEF Poll
<1>2. CASE PollFails
  BY <1>2 DEF PollFails
<1>3. CASE Route
  BY <1>3 DEF Route
<1>4. CASE Delivered
  BY <1>4 DEF Delivered
<1>5. CASE FailSnapshot
  BY <1>5 DEF FailSnapshot
<1>6. CASE FailEnds
  BY <1>6 DEF FailEnds
<1>7. ASSUME NEW c \in Channels, Deliver(c) PROVE ThreadInv'
  BY <1>7 DEF Deliver
<1>8. ASSUME NEW c \in Channels, FailChannel(c) PROVE ThreadInv'
  BY <1>8 DEF FailChannel
<1>9. CASE StopBegins
  BY <1>9 DEF StopBegins
<1>10. CASE StopClears
  BY <1>10 DEF StopClears
<1>11. CASE StopEnds
  BY <1>11 DEF StopEnds
<1>12. ASSUME NEW c \in Channels, StopCloses(c) PROVE ThreadInv'
  BY <1>12 DEF StopCloses
<1>13. ASSUME NEW c \in Channels, NEW k \in Keys, AddChannel(c, k) PROVE ThreadInv'
  BY <1>13, RealKey DEF AddChannel
<1>14. ASSUME NEW c \in Channels, CloseChannel(c) PROVE ThreadInv'
  BY <1>14 DEF CloseChannel
<1>15. ASSUME NEW c \in Channels, EraseChannel(c) PROVE ThreadInv'
  BY <1>15 DEF EraseChannel
<1>16. ASSUME NEW c \in Channels, CallReceive(c) PROVE ThreadInv'
  BY <1>16 DEF CallReceive
<1>17. ASSUME NEW c \in Channels, Sleep(c) PROVE ThreadInv'
  BY <1>17 DEF Sleep
<1>18. ASSUME NEW c \in Channels, Return(c) PROVE ThreadInv'
  BY <1>18 DEF Return
<1>19. ASSUME NEW c \in Channels, Expire(c) PROVE ThreadInv'
  BY <1>19 DEF Expire
<1>20. CASE UNCHANGED vars
  BY <1>20 DEF vars
<1> QED
  BY <1>1, <1>2, <1>3, <1>4, <1>5, <1>6, <1>7, <1>8, <1>9, <1>10, <1>11,
     <1>12, <1>13, <1>14, <1>15, <1>16, <1>17, <1>18, <1>19, <1>20
     DEF Next, ReceiverStep, StopStep, CallStep

LEMMA ChannelStep ==
  ASSUME TypeOK, ThreadInv, ChannelInv, [Next]_vars
  PROVE  ChannelInv'
<1> USE DEF ChannelInv, ThreadInv, TypeOK, flagVars, channelVars, callVars,
            receiverVars, stopVars, Wake
<1>1. CASE Poll
  BY <1>1 DEF Poll
<1>2. CASE PollFails
  BY <1>2 DEF PollFails
<1>3. CASE Route
  BY <1>3 DEF Route, Addressed
<1>4. CASE Delivered
  BY <1>4 DEF Delivered
<1>5. CASE FailSnapshot
  BY <1>5 DEF FailSnapshot
<1>6. CASE FailEnds
  BY <1>6 DEF FailEnds
<1>7. ASSUME NEW c \in Channels, Deliver(c) PROVE ChannelInv'
  BY <1>7 DEF Deliver
<1>8. ASSUME NEW c \in Channels, FailChannel(c) PROVE ChannelInv'
  BY <1>8 DEF FailChannel
<1>9. CASE StopBegins
  BY <1>9 DEF StopBegins
<1>10. CASE StopClears
  BY <1>10 DEF StopClears
<1>11. CASE StopEnds
  BY <1>11 DEF StopEnds
<1>12. ASSUME NEW c \in Channels, StopCloses(c) PROVE ChannelInv'
  BY <1>12 DEF StopCloses
<1>13. ASSUME NEW c \in Channels, NEW k \in Keys, AddChannel(c, k) PROVE ChannelInv'
  BY <1>13, RealKey DEF AddChannel
<1>14. ASSUME NEW c \in Channels, CloseChannel(c) PROVE ChannelInv'
  BY <1>14 DEF CloseChannel
<1>15. ASSUME NEW c \in Channels, EraseChannel(c) PROVE ChannelInv'
  BY <1>15 DEF EraseChannel
<1>16. ASSUME NEW c \in Channels, CallReceive(c) PROVE ChannelInv'
  BY <1>16 DEF CallReceive
<1>17. ASSUME NEW c \in Channels, Sleep(c) PROVE ChannelInv'
  BY <1>17 DEF Sleep
<1>18. ASSUME NEW c \in Channels, Return(c) PROVE ChannelInv'
  BY <1>18 DEF Return
<1>19. ASSUME NEW c \in Channels, Expire(c) PROVE ChannelInv'
  BY <1>19 DEF Expire
<1>20. CASE UNCHANGED vars
  BY <1>20 DEF vars
<1> QED
  BY <1>1, <1>2, <1>3, <1>4, <1>5, <1>6, <1>7, <1>8, <1>9, <1>10, <1>11,
     <1>12, <1>13, <1>14, <1>15, <1>16, <1>17, <1>18, <1>19, <1>20
     DEF Next, ReceiverStep, StopStep, CallStep

LEMMA KeyStep ==
  ASSUME TypeOK, ThreadInv, ChannelInv, OneEndpointPerKey, [Next]_vars
  PROVE  OneEndpointPerKey'
<1> USE DEF OneEndpointPerKey, ChannelInv, ThreadInv, TypeOK, flagVars, channelVars,
            callVars, receiverVars, stopVars, Wake
<1>1. CASE Poll
  BY <1>1 DEF Poll
<1>2. CASE PollFails
  BY <1>2 DEF PollFails
<1>3. CASE Route
  BY <1>3 DEF Route
<1>4. CASE Delivered
  BY <1>4 DEF Delivered
<1>5. CASE FailSnapshot
  BY <1>5 DEF FailSnapshot
<1>6. CASE FailEnds
  BY <1>6 DEF FailEnds
<1>7. ASSUME NEW c \in Channels, Deliver(c) PROVE OneEndpointPerKey'
  BY <1>7 DEF Deliver
<1>8. ASSUME NEW c \in Channels, FailChannel(c) PROVE OneEndpointPerKey'
  BY <1>8 DEF FailChannel
<1>9. CASE StopBegins
  BY <1>9 DEF StopBegins
<1>10. CASE StopClears
  BY <1>10 DEF StopClears
<1>11. CASE StopEnds
  BY <1>11 DEF StopEnds
<1>12. ASSUME NEW c \in Channels, StopCloses(c) PROVE OneEndpointPerKey'
  BY <1>12 DEF StopCloses
<1>13. ASSUME NEW c \in Channels, NEW k \in Keys, AddChannel(c, k) PROVE OneEndpointPerKey'
  <2>0. stopper = "none"
    BY <1>13 DEF AddChannel
  <2>1. \A d \in Channels : active[d] => d \in registered
    BY <2>0
  <2>4. \A d \in Channels : active[d] => key[d] # k
    BY <1>13, <2>1 DEF AddChannel
  <2>2. \A d \in Channels \ {c} : active'[d] = active[d] /\ key'[d] = key[d]
    BY <1>13 DEF AddChannel
  <2>3. key'[c] = k
    BY <1>13 DEF AddChannel
  <2> QED BY <2>2, <2>3, <2>4
<1>14. ASSUME NEW c \in Channels, CloseChannel(c) PROVE OneEndpointPerKey'
  BY <1>14 DEF CloseChannel
<1>15. ASSUME NEW c \in Channels, EraseChannel(c) PROVE OneEndpointPerKey'
  BY <1>15 DEF EraseChannel
<1>16. ASSUME NEW c \in Channels, CallReceive(c) PROVE OneEndpointPerKey'
  BY <1>16 DEF CallReceive
<1>17. ASSUME NEW c \in Channels, Sleep(c) PROVE OneEndpointPerKey'
  BY <1>17 DEF Sleep
<1>18. ASSUME NEW c \in Channels, Return(c) PROVE OneEndpointPerKey'
  BY <1>18 DEF Return
<1>19. ASSUME NEW c \in Channels, Expire(c) PROVE OneEndpointPerKey'
  BY <1>19 DEF Expire
<1>20. CASE UNCHANGED vars
  BY <1>20 DEF vars
<1> QED
  BY <1>1, <1>2, <1>3, <1>4, <1>5, <1>6, <1>7, <1>8, <1>9, <1>10, <1>11,
     <1>12, <1>13, <1>14, <1>15, <1>16, <1>17, <1>18, <1>19, <1>20
     DEF Next, ReceiverStep, StopStep, CallStep

LEMMA RemovedStep ==
  ASSUME TypeOK, ChannelInv, RemovedIsEmpty, [Next]_vars
  PROVE  RemovedIsEmpty'
<1> USE DEF RemovedIsEmpty, ChannelInv, TypeOK, flagVars, channelVars, callVars,
            receiverVars, stopVars, Wake
<1>1. CASE Poll
  BY <1>1 DEF Poll
<1>2. CASE PollFails
  BY <1>2 DEF PollFails
<1>3. CASE Route
  BY <1>3 DEF Route
<1>4. CASE Delivered
  BY <1>4 DEF Delivered
<1>5. CASE FailSnapshot
  BY <1>5 DEF FailSnapshot
<1>6. CASE FailEnds
  BY <1>6 DEF FailEnds
<1>7. ASSUME NEW c \in Channels, Deliver(c) PROVE RemovedIsEmpty'
  BY <1>7 DEF Deliver
<1>8. ASSUME NEW c \in Channels, FailChannel(c) PROVE RemovedIsEmpty'
  BY <1>8 DEF FailChannel
<1>9. CASE StopBegins
  BY <1>9 DEF StopBegins
<1>10. CASE StopClears
  BY <1>10 DEF StopClears
<1>11. CASE StopEnds
  BY <1>11 DEF StopEnds
<1>12. ASSUME NEW c \in Channels, StopCloses(c) PROVE RemovedIsEmpty'
  BY <1>12 DEF StopCloses
<1>13. ASSUME NEW c \in Channels, NEW k \in Keys, AddChannel(c, k) PROVE RemovedIsEmpty'
  BY <1>13 DEF AddChannel
<1>14. ASSUME NEW c \in Channels, CloseChannel(c) PROVE RemovedIsEmpty'
  BY <1>14 DEF CloseChannel
<1>15. ASSUME NEW c \in Channels, EraseChannel(c) PROVE RemovedIsEmpty'
  BY <1>15 DEF EraseChannel
<1>16. ASSUME NEW c \in Channels, CallReceive(c) PROVE RemovedIsEmpty'
  BY <1>16 DEF CallReceive
<1>17. ASSUME NEW c \in Channels, Sleep(c) PROVE RemovedIsEmpty'
  BY <1>17 DEF Sleep
<1>18. ASSUME NEW c \in Channels, Return(c) PROVE RemovedIsEmpty'
  BY <1>18 DEF Return
<1>19. ASSUME NEW c \in Channels, Expire(c) PROVE RemovedIsEmpty'
  BY <1>19 DEF Expire
<1>20. CASE UNCHANGED vars
  BY <1>20 DEF vars
<1> QED
  BY <1>1, <1>2, <1>3, <1>4, <1>5, <1>6, <1>7, <1>8, <1>9, <1>10, <1>11,
     <1>12, <1>13, <1>14, <1>15, <1>16, <1>17, <1>18, <1>19, <1>20
     DEF Next, ReceiverStep, StopStep, CallStep

LEMMA FailStep ==
  ASSUME TypeOK, ThreadInv, ChannelInv, FailInv, [Next]_vars
  PROVE  FailInv'
<1> USE DEF FailInv, ChannelInv, ThreadInv, TypeOK, flagVars, channelVars, callVars,
            receiverVars, stopVars, Wake
<1>1. CASE Poll
  BY <1>1 DEF Poll
<1>2. CASE PollFails
  BY <1>2 DEF PollFails
<1>3. CASE Route
  BY <1>3 DEF Route
<1>4. CASE Delivered
  BY <1>4 DEF Delivered
<1>5. CASE FailSnapshot
  BY <1>5 DEF FailSnapshot
<1>6. CASE FailEnds
  BY <1>6 DEF FailEnds
<1>7. ASSUME NEW c \in Channels, Deliver(c) PROVE FailInv'
  BY <1>7 DEF Deliver
<1>8. ASSUME NEW c \in Channels, FailChannel(c) PROVE FailInv'
  BY <1>8 DEF FailChannel
<1>9. CASE StopBegins
  BY <1>9 DEF StopBegins
<1>10. CASE StopClears
  BY <1>10 DEF StopClears
<1>11. CASE StopEnds
  BY <1>11 DEF StopEnds
<1>12. ASSUME NEW c \in Channels, StopCloses(c) PROVE FailInv'
  BY <1>12 DEF StopCloses
<1>13. ASSUME NEW c \in Channels, NEW k \in Keys, AddChannel(c, k) PROVE FailInv'
  BY <1>13 DEF AddChannel
<1>14. ASSUME NEW c \in Channels, CloseChannel(c) PROVE FailInv'
  BY <1>14 DEF CloseChannel
<1>15. ASSUME NEW c \in Channels, EraseChannel(c) PROVE FailInv'
  BY <1>15 DEF EraseChannel
<1>16. ASSUME NEW c \in Channels, CallReceive(c) PROVE FailInv'
  BY <1>16 DEF CallReceive
<1>17. ASSUME NEW c \in Channels, Sleep(c) PROVE FailInv'
  BY <1>17 DEF Sleep
<1>18. ASSUME NEW c \in Channels, Return(c) PROVE FailInv'
  BY <1>18 DEF Return
<1>19. ASSUME NEW c \in Channels, Expire(c) PROVE FailInv'
  BY <1>19 DEF Expire
<1>20. CASE UNCHANGED vars
  BY <1>20 DEF vars
<1> QED
  BY <1>1, <1>2, <1>3, <1>4, <1>5, <1>6, <1>7, <1>8, <1>9, <1>10, <1>11,
     <1>12, <1>13, <1>14, <1>15, <1>16, <1>17, <1>18, <1>19, <1>20
     DEF Next, ReceiverStep, StopStep, CallStep

(* A step that hands out no datagram and opens no channel, and in which    *)
(* the receiver does not leave a channel out, keeps what is due in order.  *)
LEMMA DeliveryFrame ==
  ASSUME DeliveryInv,
         UNCHANGED <<got, queue, due, target>>,
         \A c \in Channels : active'[c] => active[c],
         \/ UNCHANGED <<receiver, left>>
         \/ /\ receiver' \notin {"routing", "delivering"}
            /\ receiver = "delivering" => left = {}
  PROVE  DeliveryInv'
<1>1. /\ Len(target)' = Len(target)
      /\ \A c \in Channels :
           /\ due'[c] = due[c]
           /\ Ascending(Seen(c))' <=> Ascending(Seen(c))
           /\ Elements(Seen(c))' = Elements(Seen(c))
  BY DEF Seen, Ascending, Elements
<1> QED BY <1>1 DEF DeliveryInv

LEMMA SeenType ==
  ASSUME TypeOK, NEW c \in Channels
  PROVE  /\ got[c] \in Seq(Datagrams) /\ queue[c] \in Seq(Datagrams)
         /\ Seen(c) \in Seq(Datagrams)
         /\ Elements(Seen(c)) \subseteq Nat
<1>1. got[c] \in Seq(Datagrams) /\ queue[c] \in Seq(Datagrams)
  BY DEF TypeOK
<1>2. Seen(c) \in Seq(Datagrams)
  BY <1>1 DEF Seen
<1>3. Elements(Seen(c)) \subseteq Nat
  BY <1>2, DatagramsAssumption, ElementOfSeq DEF Elements, Datagrams
<1> QED BY <1>1, <1>2, <1>3

LEMMA SeenFrame ==
  ASSUME NEW c, UNCHANGED <<got[c], queue[c]>>
  PROVE  /\ Seen(c)' = Seen(c)
         /\ Ascending(Seen(c))' <=> Ascending(Seen(c))
         /\ Elements(Seen(c))' = Elements(Seen(c))
BY DEF Seen, Ascending, Elements

LEMMA PollDelivery ==
  ASSUME TypeOK, ThreadInv, DeliveryInv, Poll
  PROVE  DeliveryInv'
<1>1. CASE UNCHANGED target
  BY <1>1, DeliveryFrame, SMT DEF Poll, channelVars, callVars
<1>2. ASSUME NEW t \in Targets, target' = Append(target, t), receiver' = "routing"
      PROVE  DeliveryInv'
  <2>1. /\ Len(target) \in Nat /\ Len(target') = Len(target) + 1
    BY <1>2 DEF TypeOK
  <2>2. UNCHANGED <<got, queue, due, active, left>>
    BY DEF Poll, channelVars, callVars
  <2> SUFFICES ASSUME NEW c \in Channels PROVE DeliveryInv!(c)'
    BY DEF DeliveryInv
  <2>3. /\ Elements(Seen(c))' = Elements(Seen(c))
        /\ Ascending(Seen(c))' <=> Ascending(Seen(c))
        /\ due'[c] = due[c]
    BY <2>2, SeenFrame
  <2>4. receiver = "polling"
    BY DEF Poll
  <2> QED BY <1>2, <2>1, <2>2, <2>3, <2>4 DEF DeliveryInv
<1> QED BY <1>1, <1>2 DEF Poll

LEMMA RouteDelivery ==
  ASSUME TypeOK, ThreadInv, ChannelInv, DeliveryInv, Route
  PROVE  DeliveryInv'
<1>1. /\ receiver = "routing" /\ receiver' = "delivering"
      /\ UNCHANGED <<got, queue, active, target>>
      /\ \A c \in Channels : due'[c] =
           IF c \in left' /\ active[c] THEN due[c] \cup {Len(target)} ELSE due[c]
  BY DEF Route, channelVars, callVars, TypeOK
<1>2. Len(target) \in Nat \ {0}
  BY <1>1 DEF TypeOK, ThreadInv
<1> SUFFICES ASSUME NEW c \in Channels PROVE DeliveryInv!(c)'
  BY DEF DeliveryInv
<1>3. /\ Elements(Seen(c))' = Elements(Seen(c))
      /\ Ascending(Seen(c))' <=> Ascending(Seen(c))
  BY <1>1, SeenFrame
<1>4. /\ Ascending(Seen(c)) /\ Elements(Seen(c)) \subseteq due[c]
      /\ due[c] \subseteq 1..Len(target) /\ Len(target) \notin due[c]
      /\ active[c] => due[c] \subseteq Elements(Seen(c))
  BY <1>1 DEF DeliveryInv
<1>5. CASE c \in left' /\ active[c]
  <2>1. due'[c] = due[c] \cup {Len(target)}
    BY <1>1, <1>5
  <2> QED BY <1>1, <1>2, <1>3, <1>4, <1>5, <2>1
<1>6. CASE ~(c \in left' /\ active[c])
  <2>1. due'[c] = due[c]
    BY <1>1, <1>6
  <2> QED BY <1>1, <1>2, <1>3, <1>4, <1>6, <2>1
<1> QED BY <1>5, <1>6

LEMMA DeliverDelivery ==
  ASSUME TypeOK, ThreadInv, DeliveryInv, NEW c \in Channels, Deliver(c)
  PROVE  DeliveryInv'
<1>1. /\ receiver = "delivering" /\ c \in left /\ left' = left \ {c}
      /\ UNCHANGED <<got, active, target, receiver, due>>
      /\ \A d \in Channels \ {c} : queue'[d] = queue[d]
      /\ active[c] => queue'[c] = Append(queue[c], Len(target))
      /\ ~active[c] => queue'[c] = queue[c]
  BY DEF Deliver, callVars, TypeOK
<1>2. Len(target) \in Datagrams
  BY <1>1, DatagramsAssumption DEF TypeOK, ThreadInv, Datagrams
<1> SUFFICES ASSUME NEW d \in Channels PROVE DeliveryInv!(d)'
  BY DEF DeliveryInv
<1>3. CASE d # c \/ ~active[c]
  <2>1. /\ Elements(Seen(d))' = Elements(Seen(d))
        /\ Ascending(Seen(d))' <=> Ascending(Seen(d))
    BY <1>1, <1>3, SeenFrame
  <2> QED BY <1>1, <1>3, <2>1 DEF DeliveryInv
<1>4. CASE d = c /\ active[c]
  <2>1. /\ Ascending(Seen(c)) /\ Elements(Seen(c)) \subseteq due[c]
        /\ due[c] \subseteq 1..Len(target)
        /\ Len(target) \in due[c] \ Elements(Seen(c))
        /\ \A n \in due[c] \ Elements(Seen(c)) : n = Len(target)
    BY <1>1, <1>4 DEF DeliveryInv
  <2>2. \A m \in Elements(Seen(c)) : m < Len(target)
    BY <1>2, <2>1, DatagramsAssumption DEF Datagrams
  <2>3. Seen(c)' = Append(Seen(c), Len(target))
    <3>1. got[c] \o Append(queue[c], Len(target)) =
            Append(got[c] \o queue[c], Len(target))
      BY <1>2, SeenType, AppendRight
    <3> QED BY <1>1, <1>4, <3>1 DEF Seen
  <2>4. /\ Elements(Seen(c))' = Elements(Seen(c)) \cup {Len(target)}
        /\ Ascending(Seen(c))'
    <3>1. /\ Elements(Append(Seen(c), Len(target))) = Elements(Seen(c)) \cup {Len(target)}
          /\ Ascending(Append(Seen(c), Len(target)))
      BY <1>2, <2>1, <2>2, SeenType, Appended
    <3> QED BY <2>3, <3>1 DEF Elements, Ascending
  <2> QED BY <1>1, <1>4, <2>1, <2>4
<1> QED BY <1>3, <1>4

LEMMA AddDelivery ==
  ASSUME TypeOK, ChannelInv, DeliveryInv,
         NEW c \in Channels, NEW k \in Keys, AddChannel(c, k)
  PROVE  DeliveryInv'
<1>1. /\ key[c] = NoKey /\ due[c] = {}
      /\ UNCHANGED <<got, queue, due, target, receiver, left>>
      /\ \A d \in Channels \ {c} : active'[d] = active[d]
      /\ c \notin left
  BY DEF AddChannel, callVars, receiverVars, TypeOK, ChannelInv
<1> SUFFICES ASSUME NEW d \in Channels PROVE DeliveryInv!(d)'
  BY DEF DeliveryInv
<1>2. /\ Elements(Seen(d))' = Elements(Seen(d))
      /\ Ascending(Seen(d))' <=> Ascending(Seen(d))
  BY <1>1, SeenFrame
<1> QED BY <1>1, <1>2 DEF DeliveryInv

LEMMA CloseDelivery ==
  ASSUME TypeOK, DeliveryInv, NEW c \in Channels, CloseChannel(c)
  PROVE  DeliveryInv'
<1>1. /\ UNCHANGED <<got, due, target, receiver, left>>
      /\ \A d \in Channels \ {c} : active'[d] = active[d] /\ queue'[d] = queue[d]
      /\ queue'[c] = <<>> /\ ~active'[c]
  BY DEF CloseChannel, receiverVars, TypeOK
<1> SUFFICES ASSUME NEW d \in Channels PROVE DeliveryInv!(d)'
  BY DEF DeliveryInv
<1>2. CASE d # c
  <2>1. /\ Elements(Seen(d))' = Elements(Seen(d))
        /\ Ascending(Seen(d))' <=> Ascending(Seen(d))
    BY <1>1, <1>2, SeenFrame
  <2> QED BY <1>1, <1>2, <2>1 DEF DeliveryInv
<1>3. CASE d = c
  <2>1. Seen(c)' = got[c]
    BY <1>1, SeenType, ConcatEmptySeq DEF Seen
  <2>2. /\ Elements(got[c]) \subseteq Elements(Seen(c))
        /\ Ascending(Seen(c)) => Ascending(got[c])
    BY SeenType, Prefix DEF Seen
  <2>3. /\ Elements(Seen(c))' \subseteq Elements(Seen(c))
        /\ Ascending(Seen(c)) => Ascending(Seen(c))'
    BY <2>1, <2>2 DEF Elements, Ascending
  <2> QED BY <1>1, <1>3, <2>3 DEF DeliveryInv
<1> QED BY <1>2, <1>3

LEMMA ReturnDelivery ==
  ASSUME TypeOK, DeliveryInv, NEW c \in Channels, Return(c)
  PROVE  DeliveryInv'
<1>1. /\ UNCHANGED <<due, target, receiver, left, active>>
      /\ \A d \in Channels \ {c} : got'[d] = got[d] /\ queue'[d] = queue[d]
      /\ queue[c] = <<>> => got'[c] = got[c] /\ queue'[c] = queue[c]
      /\ queue[c] # <<>> => /\ got'[c] = Append(got[c], Head(queue[c]))
                            /\ queue'[c] = Tail(queue[c])
  BY DEF Return, receiverVars, TypeOK
<1> SUFFICES ASSUME NEW d \in Channels PROVE DeliveryInv!(d)'
  BY DEF DeliveryInv
<1>2. Seen(d)' = Seen(d)
  <2>1. CASE d # c \/ queue[c] = <<>>
    BY <1>1, <2>1, SeenFrame
  <2>2. CASE d = c /\ queue[c] # <<>>
    <3>1. got'[c] = Append(got[c], Head(queue[c])) /\ queue'[c] = Tail(queue[c])
      BY <1>1, <2>2
    <3>2. got[c] \in Seq(Datagrams) /\ queue[c] \in Seq(Datagrams)
      BY SeenType
    <3>3. Append(got[c], Head(queue[c])) \o Tail(queue[c]) = got[c] \o queue[c]
      BY <2>2, <3>2, MoveHead
    <3> QED BY <2>2, <3>1, <3>3, Zenon DEF Seen
  <2> QED BY <2>1, <2>2
<1>3. /\ Elements(Seen(d))' = Elements(Seen(d))
      /\ Ascending(Seen(d))' <=> Ascending(Seen(d))
  BY <1>2 DEF Elements, Ascending
<1> QED BY <1>1, <1>3 DEF DeliveryInv

LEMMA DeliveryStep ==
  ASSUME TypeOK, ThreadInv, ChannelInv, DeliveryInv, [Next]_vars
  PROVE  DeliveryInv'
<1> USE DEF TypeOK, flagVars, channelVars, callVars, receiverVars, stopVars, Wake
<1>1. CASE Poll
  BY <1>1, PollDelivery
<1>2. CASE PollFails
  BY <1>2, DeliveryFrame, SMT DEF PollFails
<1>3. CASE Route
  BY <1>3, RouteDelivery
<1>4. CASE Delivered
  BY <1>4, DeliveryFrame, SMT DEF Delivered
<1>5. CASE FailSnapshot
  BY <1>5, DeliveryFrame, SMT DEF FailSnapshot
<1>6. CASE FailEnds
  BY <1>6, DeliveryFrame, SMT DEF FailEnds
<1>7. ASSUME NEW c \in Channels, Deliver(c) PROVE DeliveryInv'
  BY <1>7, DeliverDelivery
<1>8. ASSUME NEW c \in Channels, FailChannel(c) PROVE DeliveryInv'
  BY <1>8, DeliveryFrame, SMT DEF FailChannel
<1>9. CASE StopBegins
  BY <1>9, DeliveryFrame, SMT DEF StopBegins
<1>10. CASE StopClears
  BY <1>10, DeliveryFrame, SMT DEF StopClears
<1>11. CASE StopEnds
  BY <1>11, DeliveryFrame, SMT DEF StopEnds
<1>12. ASSUME NEW c \in Channels, StopCloses(c) PROVE DeliveryInv'
  BY <1>12, DeliveryFrame, SMT DEF StopCloses
<1>13. ASSUME NEW c \in Channels, NEW k \in Keys, AddChannel(c, k) PROVE DeliveryInv'
  BY <1>13, AddDelivery
<1>14. ASSUME NEW c \in Channels, CloseChannel(c) PROVE DeliveryInv'
  BY <1>14, CloseDelivery
<1>15. ASSUME NEW c \in Channels, EraseChannel(c) PROVE DeliveryInv'
  BY <1>15, DeliveryFrame, SMT DEF EraseChannel
<1>16. ASSUME NEW c \in Channels, CallReceive(c) PROVE DeliveryInv'
  BY <1>16, DeliveryFrame, SMT DEF CallReceive
<1>17. ASSUME NEW c \in Channels, Sleep(c) PROVE DeliveryInv'
  BY <1>17, DeliveryFrame, SMT DEF Sleep
<1>18. ASSUME NEW c \in Channels, Return(c) PROVE DeliveryInv'
  BY <1>18, ReturnDelivery
<1>19. ASSUME NEW c \in Channels, Expire(c) PROVE DeliveryInv'
  BY <1>19, DeliveryFrame, SMT DEF Expire
<1>20. CASE UNCHANGED vars
  BY <1>20, DeliveryFrame, SMT DEF vars
<1> QED
  BY <1>1, <1>2, <1>3, <1>4, <1>5, <1>6, <1>7, <1>8, <1>9, <1>10, <1>11,
     <1>12, <1>13, <1>14, <1>15, <1>16, <1>17, <1>18, <1>19, <1>20
     DEF Next, ReceiverStep, StopStep, CallStep

LEMMA InvStep == RouterInv /\ [Next]_vars => RouterInv'
BY TypeStep, ThreadStep, ChannelStep, KeyStep, RemovedStep, FailStep, DeliveryStep
   DEF RouterInv

LEMMA InitInv == Init => RouterInv
<1> SUFFICES ASSUME Init PROVE RouterInv
  OBVIOUS
<1>1. TypeOK
  <2>1. /\ target \in Seq(Targets) /\ Len(target) <= MaxDatagrams
        /\ queue \in [Channels -> Seq(Datagrams)]
        /\ got \in [Channels -> Seq(Datagrams)]
    BY DatagramsAssumption DEF Init
  <2>2. key \in [Channels -> Keys \cup {NoKey}]
    BY DEF Init
  <2> QED BY <2>1, <2>2 DEF Init, TypeOK
<1>2. ThreadInv /\ ChannelInv /\ OneEndpointPerKey /\ RemovedIsEmpty /\ FailInv
  BY DEF Init, ThreadInv, ChannelInv, OneEndpointPerKey, RemovedIsEmpty, FailInv
<1>3. DeliveryInv
  <2>1. \A c \in Channels : Seen(c) = <<>>
    BY DEF Init, Seen
  <2> QED BY <2>1 DEF Init, DeliveryInv, Elements, Ascending
<1> QED BY <1>1, <1>2, <1>3 DEF RouterInv

-----------------------------------------------------------------------------
(* The theorems.                                                           *)

(* The invariant, for any channels, EntityIds and number of datagrams.     *)
THEOREM RouterInvariant == Spec => []RouterInv
BY InitInv, InvStep, PTL DEF Spec

(* Every variable keeps its type: the queues hold datagrams that have      *)
(* arrived, and the receiver has channels left only while it visits them.  *)
THEOREM RouterTypeCorrect == Spec => []TypeOK
<1>1. RouterInv => TypeOK
  BY DEF RouterInv
<1> QED BY <1>1, RouterInvariant, PTL

(* Two endpoints are never open under one key, while others are created,   *)
(* removed or closed by stop().                                            *)
THEOREM KeysAreExclusive == Spec => []OneEndpointPerKey
<1>1. RouterInv => OneEndpointPerKey
  BY DEF RouterInv
<1> QED BY <1>1, RouterInvariant, PTL

(* Each endpoint receives the datagrams addressed to it, all, once and in  *)
(* the order of arrival.                                                   *)
THEOREM DatagramsReceived == Spec => []ReceivesItsDatagrams
<1>1. RouterInv => ReceivesItsDatagrams
  <2> SUFFICES ASSUME RouterInv, NEW c \in Channels
               PROVE  ReceivesItsDatagrams!(c)
    BY DEF ReceivesItsDatagrams
  <2>1. /\ Ascending(Seen(c))
        /\ Elements(Seen(c)) \subseteq due[c]
        /\ active[c] => \A n \in due[c] \ Elements(Seen(c)) :
             n = Len(target) /\ receiver = "delivering" /\ c \in left
    BY DEF RouterInv, DeliveryInv
  <2> QED BY <2>1 DEF Ascending, Elements, Seen
<1> QED BY <1>1, RouterInvariant, PTL

(* A channel that remove_channel has closed stays empty.                   *)
THEOREM RemovedStaysEmpty == Spec => []RemovedIsEmpty
<1>1. RouterInv => RemovedIsEmpty
  BY DEF RouterInv
<1> QED BY <1>1, RouterInvariant, PTL

(* When fail has returned, every endpoint knows of the failure.            *)
THEOREM FailureSpreads == Spec => []FailureReachesAll
<1>1. RouterInv => FailureReachesAll
  <2> SUFFICES ASSUME RouterInv, failed, receiver = "done",
                      NEW c \in Channels, active[c]
               PROVE  error[c]
    BY DEF FailureReachesAll, TypeOK, RouterInv
  <2>1. left = {}
    BY DEF RouterInv, TypeOK
  <2> QED BY <2>1 DEF RouterInv, FailInv
<1> QED BY <1>1, RouterInvariant, PTL

-----------------------------------------------------------------------------
(* No receive sleeps through what it waits for.                            *)

(* A receive that sleeps has nothing to return yet: every change that      *)
(* makes its predicate true comes with a notification.  Once stop() has    *)
(* taken the channels away, no new one is registered.                      *)
Attentive(c) == asleep[c] => calling[c] /\ ~Available(c)

SleepInv ==
  /\ \A c \in Channels : Attentive(c)
  /\ stopper \in {"closing", "stopped"} => registered = {}

(* After a failure has been spread, and after stop(), all are awake.       *)
AllAwake ==
  (failed /\ receiver = "done") \/ stopper = "stopped" =>
    \A c \in Channels : ~asleep[c]

(* What a step must leave of the state of a channel for a receive that     *)
(* slept before and after it.                                              *)
LEMMA StaysAttentive ==
  ASSUME NEW c \in Channels, Attentive(c),
         \/ ~asleep'[c]
         \/ /\ asleep[c] /\ calling'[c] = calling[c]
            /\ queue'[c] = queue[c] /\ error'[c] = error[c]
            /\ active'[c] = active[c]
  PROVE  Attentive(c)'
BY DEF Attentive, Available

LEMMA SleepStep ==
  ASSUME RouterInv, SleepInv, [Next]_vars
  PROVE  SleepInv'
<1>1. TypeOK /\ ThreadInv /\ ChannelInv
  BY DEF RouterInv
<1>2. stopper' \in {"closing", "stopped"} => registered' = {}
  BY <1>1 DEF SleepInv, ThreadInv, TypeOK, Next, ReceiverStep, StopStep, CallStep,
     Poll, PollFails, Route, Deliver, Delivered, FailSnapshot, FailChannel, FailEnds,
     StopBegins, StopClears, StopCloses, StopEnds, AddChannel, CloseChannel,
     EraseChannel, CallReceive, Sleep, Return, Expire, vars, flagVars, channelVars,
     receiverVars, stopVars
<1>3. ASSUME NEW c \in Channels PROVE Attentive(c)'
  <2>1. Attentive(c)
    BY DEF SleepInv
  <2> USE <1>1, <2>1, StaysAttentive
          DEF TypeOK, flagVars, channelVars, callVars, receiverVars, stopVars, Wake
  <2>2. CASE ReceiverStep
    <3>1. CASE Poll \/ Route \/ Delivered \/ FailSnapshot \/ FailEnds
      BY <3>1 DEF Poll, Route, Delivered, FailSnapshot, FailEnds
    <3>2. ASSUME NEW d \in Channels, Deliver(d) PROVE Attentive(c)'
      <4>1. CASE d = c
        <5>1. CASE active[c]
          <6>1. asleep'[c] = FALSE
            BY <3>2, <4>1, <5>1 DEF Deliver
          <6> QED BY <6>1 DEF Attentive
        <5>2. CASE ~active[c]
          BY <3>2, <4>1, <5>2 DEF Deliver
        <5> QED BY <5>1, <5>2
      <4>2. CASE d # c
        BY <3>2, <4>2 DEF Deliver
      <4> QED BY <4>1, <4>2
    <3>3. ASSUME NEW d \in Channels, FailChannel(d) PROVE Attentive(c)'
      <4>1. CASE d = c
        <5>1. asleep'[c] = FALSE
          BY <3>3, <4>1 DEF FailChannel
        <5> QED BY <5>1 DEF Attentive
      <4>2. CASE d # c
        BY <3>3, <4>2 DEF FailChannel
      <4> QED BY <4>1, <4>2
    <3> QED BY <2>2, <3>1, <3>2, <3>3 DEF ReceiverStep
  <2>3. CASE PollFails \/ StopBegins \/ StopClears \/ StopEnds
    BY <2>3 DEF PollFails, StopBegins, StopClears, StopEnds
  <2>4. ASSUME NEW d \in Channels, StopCloses(d) PROVE Attentive(c)'
    <3>1. CASE d = c
      <4>1. asleep'[c] = FALSE
        BY <2>4, <3>1 DEF StopCloses
      <4> QED BY <4>1 DEF Attentive
    <3>2. CASE d # c
      BY <2>4, <3>2 DEF StopCloses
    <3> QED BY <3>1, <3>2
  <2>5. ASSUME NEW d \in Channels, NEW k \in Keys, AddChannel(d, k) PROVE Attentive(c)'
    <3>1. ~active[d] /\ ~asleep[d]
      BY <2>5 DEF AddChannel, ChannelInv, SleepInv, Attentive, Available
    <3>2. CASE d = c
      <4>1. asleep'[c] = FALSE
        BY <2>5, <3>1, <3>2 DEF AddChannel
      <4> QED BY <4>1 DEF Attentive
    <3>3. CASE d # c
      BY <2>5, <3>3 DEF AddChannel
    <3> QED BY <3>2, <3>3
  <2>6. ASSUME NEW d \in Channels, CloseChannel(d) \/ EraseChannel(d) PROVE Attentive(c)'
    <3>1. CASE d = c
      <4>1. CASE CloseChannel(d)
        <5>1. asleep'[c] = FALSE
          BY <3>1, <4>1 DEF CloseChannel
        <5> QED BY <5>1 DEF Attentive
      <4>2. CASE EraseChannel(d)
        BY <3>1, <4>2 DEF EraseChannel
      <4> QED BY <2>6, <4>1, <4>2
    <3>2. CASE d # c
      BY <2>6, <3>2 DEF CloseChannel, EraseChannel
    <3> QED BY <3>1, <3>2
  <2>7. ASSUME NEW d \in Channels, CallReceive(d) PROVE Attentive(c)'
    BY <2>7 DEF CallReceive, Attentive
  <2>8. ASSUME NEW d \in Channels, Sleep(d) PROVE Attentive(c)'
    BY <2>8 DEF Sleep, Attentive, Available
  <2>9. ASSUME NEW d \in Channels, Return(d) PROVE Attentive(c)'
    <3>1. CASE d = c
      <4>1. asleep'[c] = FALSE
        BY <2>9, <3>1 DEF Return
      <4> QED BY <4>1 DEF Attentive
    <3>2. CASE d # c
      BY <2>9, <3>2 DEF Return
    <3> QED BY <3>1, <3>2
  <2>10. ASSUME NEW d \in Channels, Expire(d) PROVE Attentive(c)'
    BY <2>10 DEF Expire
  <2>11. CASE UNCHANGED vars
    BY <2>11 DEF vars
  <2> QED BY <2>2, <2>3, <2>4, <2>5, <2>6, <2>7, <2>8, <2>9, <2>10, <2>11
          DEF Next, StopStep, CallStep
<1> QED BY <1>2, <1>3 DEF SleepInv

LEMMA SleepInvariant == Spec => [](RouterInv /\ SleepInv)
<1>1. Init => SleepInv
  BY DEF Init, SleepInv, Attentive
<1>2. RouterInv /\ SleepInv /\ [Next]_vars => SleepInv'
  BY SleepStep
<1> QED BY <1>1, <1>2, RouterInvariant, PTL DEF Spec

(* A datagram, the error of a failure or the end of its channel never      *)
(* finds a receive asleep that it would not have woken up.                 *)
THEOREM NobodyOversleeps ==
  Spec => [](\A c \in Channels : Available(c) => ~asleep[c])
<1>1. SleepInv => \A c \in Channels : Available(c) => ~asleep[c]
  BY DEF SleepInv, Attentive
<1> QED BY <1>1, SleepInvariant, PTL

(* When the failure of the socket has been spread, or stop() has ended, no *)
(* receive is asleep: nobody waits on a router that will not answer.       *)
THEOREM EveryoneIsReleased == Spec => []AllAwake
<1>1. RouterInv /\ SleepInv => AllAwake
  <2> SUFFICES ASSUME RouterInv, SleepInv, NEW c \in Channels, asleep[c],
                      (failed /\ receiver = "done") \/ stopper = "stopped"
               PROVE  FALSE
    BY DEF AllAwake, RouterInv, TypeOK
  <2>1. active[c] /\ ~error[c]
    BY DEF SleepInv, Attentive, Available
  <2>2. CASE failed /\ receiver = "done"
    <3>1. left = {}
      BY <2>2 DEF RouterInv, TypeOK
    <3> QED BY <2>1, <2>2, <3>1 DEF RouterInv, FailInv
  <2>3. CASE stopper = "stopped"
    BY <2>1, <2>3 DEF RouterInv, ChannelInv, ThreadInv, SleepInv
  <2> QED BY <2>2, <2>3
<1> QED BY <1>1, SleepInvariant, PTL
=============================================================================
