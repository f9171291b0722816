-------------------------- MODULE StatelessEndpoint --------------------------
(***************************************************************************)
(* Best-Effort delivery: a DataWriter that matches readers through         *)
(* discovery and fans each sample out with a StatelessWriter, a network    *)
(* that loses, duplicates and reorders, and StatelessReaders with a        *)
(* KeepLast ReaderHistory each.                                            *)
(*                                                                         *)
(* The records discovery holds (Records) name readers by the address they  *)
(* are reached at (Address): a participant that crashes and comes back on  *)
(* its port has two records with one address until the lease of the first  *)
(* runs out.  A DataReader receives only when its history is empty         *)
(* (DataReader::take); other users of a StatelessReader receive at will.   *)
(***************************************************************************)
EXTENDS Integers, SequencesExt

CONSTANTS Readers,       \* the readers, by address
          DataReaders,   \* those driven by DataReader::take
          Records,       \* what discovery may know
          Address,       \* Address[d]: the reader record d leads to
          MaxSequence,   \* bound: the number of samples written
          MaxArrivals,   \* bound: what a reader accepts
          HistoryDepth   \* ReaderHistory: depth_

ASSUME ReadersAssumption == DataReaders \subseteq Readers
ASSUME RecordsAssumption == IsFiniteSet(Records)
ASSUME AddressAssumption == Address \in [Records -> Readers]
ASSUME BoundsAssumption ==
  MaxSequence \in Nat /\ MaxArrivals \in Nat /\ HistoryDepth \in Nat \ {0}

SequenceNumbers == 1..MaxSequence
Datagrams == [sn : SequenceNumbers, to : Readers]

VARIABLES
  written,    \* WriterHistory: next_sequence_number_ - 1
  readers,    \* StatelessWriter: readers_
  remaining,  \* the readers the running fan-out has still to send to
  network,    \* datagrams that may still be received
  history,    \* history[r]: changes_ of its ReaderHistory
  answer,     \* what the last write returned, "none" while it runs
  offered,    \* history: offered[r], the samples sent to r, in order
  arrived,    \* history: arrived[r], the samples its history accepted
  latest      \* history: latest[r], the sample the application took last

writer == <<written, readers, remaining, answer, offered>>
vars == <<writer, network, history, arrived, latest>>

TypeOK ==
  /\ written \in 0..MaxSequence
  /\ readers \in Seq(Readers) /\ remaining \in Seq(Readers)
  /\ network \subseteq Datagrams
  /\ answer \in {"none", "true", "false"}
  /\ history \in [Readers -> Seq(SequenceNumbers)]
  /\ \A r \in Readers : Len(history[r]) <= HistoryDepth
  /\ offered \in [Readers -> Seq(SequenceNumbers)]
  /\ arrived \in [Readers -> Seq(SequenceNumbers)]
  /\ latest \in [Readers -> 0..MaxSequence]

Init ==
  /\ written = 0 /\ answer = "none"
  /\ readers = <<>> /\ remaining = <<>> /\ network = {}
  /\ history = [r \in Readers |-> <<>>]
  /\ offered = [r \in Readers |-> <<>>]
  /\ arrived = [r \in Readers |-> <<>>]
  /\ latest = [r \in Readers |-> 0]

-----------------------------------------------------------------------------
(* Definitions named Bug... are not part of the model: each is a mistake    *)
(* one could make in the definition that follows it.                       *)

Busy == remaining # <<>>

(* ... two records with one address count twice.                           *)
BugUniqueReaders(proxies) == {proxies}

(* unique_readers: of equal proxies the first one stays.  The places of    *)
(* those that stay, in ascending order, are the only element of `orders'.  *)
UniqueReaders(proxies) ==
  LET stay   == {i \in 1..Len(proxies) :
                   \A j \in 1..(i - 1) : proxies[j] # proxies[i]}
      kept   == 1..Cardinality(stay)
      orders == {p \in [kept -> stay] : \A i, j \in kept : i < j => p[i] < p[j]}
  IN  {[i \in kept |-> proxies[p[i]]] : p \in orders}

(* Their readers replace those of the last write (set_readers).            *)
Match(records) ==
  readers' \in UniqueReaders([i \in 1..Len(records) |-> Address[records[i]]])

(* DataWriter::write up to the fan-out, when discovery matches `records':  *)
(* the sample gets its number.                                             *)
Write(records) ==
  /\ ~Busy /\ written < MaxSequence
  /\ Match(records)
  /\ written' = written + 1
  /\ remaining' = readers'
  /\ answer' = "none"
  /\ UNCHANGED <<offered, network, history, arrived, latest>>

(* A write that matches nobody uses up no number, and neither does one     *)
(* whose sample cannot be serialized, which has matched its readers.       *)
WriteRefused(records) ==
  /\ ~Busy
  /\ answer' = "false"
  /\ IF records = <<>> THEN UNCHANGED readers ELSE Match(records)
  /\ UNCHANGED <<written, remaining, offered, network, history, arrived, latest>>

(* One turn of the loop over readers_, when the datagram is sent ...       *)
SendNext ==
  /\ Busy
  /\ LET r == Head(remaining) IN
       /\ network' = network \cup {[sn |-> written, to |-> r]}
       /\ offered' = [offered EXCEPT ![r] = Append(@, written)]
  /\ remaining' = Tail(remaining)
  /\ answer' = IF remaining' = <<>> THEN "true" ELSE "none"
  /\ UNCHANGED <<written, readers, history, arrived, latest>>

(* ... the failure of one reader is forgotten with the next.               *)
BugSendFails ==
  /\ Busy
  /\ remaining' = Tail(remaining)
  /\ answer' = IF remaining' = <<>> THEN "true" ELSE "none"
  /\ UNCHANGED <<written, readers, offered, network, history, arrived, latest>>

(* ... and when the message cannot be encoded or sent: the readers after   *)
(* it are not tried, the number is used up.                                *)
SendFails ==
  /\ Busy
  /\ remaining' = <<>>
  /\ answer' = "false"
  /\ UNCHANGED <<written, readers, offered, network, history, arrived, latest>>

-----------------------------------------------------------------------------
Lose ==
  /\ \E m \in network : network' = network \ {m}
  /\ UNCHANGED <<writer, history, arrived, latest>>

(* ... one sample more than depth_ is kept.                                *)
BugKeepOneMore(q) == IF Len(q) > HistoryDepth + 1 THEN Tail(q) ELSE q

KeepLast(q) == IF Len(q) > HistoryDepth THEN Tail(q) ELSE q

(* StatelessReader::receive_once with a datagram for this reader; `again': *)
(* a copy of it is still on the way.  ReaderHistory::add refuses what the  *)
(* queue still holds.                                                      *)
ReceiveOnce(r, m, again) ==
  /\ m.to = r
  /\ r \in DataReaders => history[r] = <<>>
  /\ network' = IF again THEN network ELSE network \ {m}
  /\ IF Contains(history[r], m.sn)
       THEN UNCHANGED <<history, arrived>>
       ELSE /\ Len(arrived[r]) < MaxArrivals
            /\ history' = [history EXCEPT ![r] = KeepLast(Append(@, m.sn))]
            /\ arrived' = [arrived EXCEPT ![r] = Append(@, m.sn)]
  /\ UNCHANGED <<writer, latest>>

(* take; a sample that cannot be deserialized is taken all the same.       *)
Take(r) ==
  /\ history[r] # <<>>
  /\ history' = [history EXCEPT ![r] = Tail(@)]
  /\ latest' = [latest EXCEPT ![r] = Head(history[r])]
  /\ UNCHANGED <<writer, network, arrived>>

Next ==
  \/ \E S \in SUBSET Records : \E records \in SetToSeqs(S) :
       (S # {} /\ Write(records)) \/ WriteRefused(records)
  \/ SendNext \/ SendFails \/ Lose
  \/ \E r \in Readers :
       \/ \E m \in network, again \in BOOLEAN : ReceiveOnce(r, m, again)
       \/ Take(r)

Spec == Init /\ [][Next]_vars

-----------------------------------------------------------------------------
(* write answers true only if the sample has been sent to every reader     *)
(* that was matched when it was written.                                   *)
TrueMeansSentToAll ==
  answer = "true" =>
    \A r \in ToSet(readers) : Contains(offered[r], written)

(* What crosses the network and the bounded histories is what a            *)
(* Best-Effort topic promises: each sample is offered once to a reader     *)
(* though two records lead to it, the application gets the arrivals in     *)
(* order, and loses an untaken one only to HistoryDepth newer ones.        *)
Topic == INSTANCE BestEffortTopic
           WITH Readers  <- Readers,
                Samples  <- SequenceNumbers,
                Depth    <- HistoryDepth,
                offered  <- offered,
                arrived  <- arrived,
                position <- [r \in Readers |-> Len(arrived[r]) - Len(history[r])],
                latest   <- latest
ImplementsBestEffort == Topic!TopicSpec
=============================================================================
