--------------------------- MODULE ReliableProtocol ---------------------------
(***************************************************************************)
(* One ReliableWriter delivering its samples, one at a time, to a set of   *)
(* ReliableReaders over UDP (src/rtps/ReliableEndpoint.cpp), and the       *)
(* DataReaders that take what the readers have put into their histories.   *)
(*                                                                         *)
(* `sent' holds every datagram ever sent.  A datagram in it may be         *)
(* received at any later time, any number of times, or never: the network  *)
(* loses, duplicates, delays and reorders.  Sending a datagram that is     *)
(* already in `sent' changes nothing, so the periodic heartbeat of         *)
(* deliver_change, which repeats a HEARTBEAT of the initial transmission,  *)
(* needs no action of its own, and a retransmission shows in the retry     *)
(* counter only.                                                           *)
(*                                                                         *)
(* A sample is its sequence number.  The changes waiting in the queue of   *)
(* an asynchronous writer are started+1..written; a synchronous writer is  *)
(* the special case in which Write happens only when that range is empty.  *)
(* A ReaderHistory fed by one writer holds its samples in ascending order  *)
(* (AtMostOnce and TakenInOrder would fail otherwise), so it is the set of *)
(* the samples retained.                                                   *)
(***************************************************************************)
EXTENDS WriterState, FiniteSets

CONSTANTS Readers,      \* the remote readers (endpoint and reader id)
          MaxRetries,   \* ReliableWriterConfig::max_retries
          HistoryDepth  \* ReaderHistory: depth_, KeepLast

ASSUME RetriesAssumption == MaxRetries \in Nat
ASSUME DepthAssumption == HistoryDepth \in Nat \ {0}

VARIABLES
  written,      \* WriterHistory: the last sequence number given out
  addressed,    \* addressed[n]: the readers snapshot taken by write()
  outcome,      \* outcome[n]: what became of sample n
  started,      \* the last sample deliver_change was called for
  acknowledged, \* ReaderWriteState::acknowledged of the current call
  retries,      \* ReaderWriteState::retries of the current call
  sent,         \* every datagram ever sent
  reader,       \* reader[r]: the WriterState r keeps of the writer
  delivered,    \* delivered[r]: all that r has added to its ReaderHistory
  history,      \* history[r]: the samples its ReaderHistory retains
  taken         \* taken[r]: the samples the application has taken

writerVars == <<written, addressed, outcome, started, acknowledged, retries>>
readerVars == <<reader, delivered, history, taken>>
vars == <<writerVars, sent, readerVars>>

Data(n, r)      == [type |-> "DATA", reader |-> r, sn |-> n]
Heartbeat(n, r) == [type |-> "HEARTBEAT", reader |-> r, first |-> n, last |-> n]
Reply(r, s)     == [type |-> "ACKNACK", reader |-> r, state |-> AckNack(s)]

Messages ==
       [type : {"DATA"}, reader : Readers, sn : SequenceNumbers]
  \cup [type : {"HEARTBEAT"}, reader : Readers,
        first : SequenceNumbers, last : SequenceNumbers]
  \cup [type : {"ACKNACK"}, reader : Readers, state : AckNacks]

Outcomes == {"unwritten", "pending", "confirmed", "failed"}

TypeOK ==
  /\ written \in 0..MaxSequence
  /\ addressed \in [SequenceNumbers -> SUBSET Readers]
  /\ outcome \in [SequenceNumbers -> Outcomes]
  /\ started \in 0..MaxSequence
  /\ acknowledged \in SUBSET Readers
  /\ retries \in [Readers -> 0..MaxRetries]
  /\ sent \in SUBSET Messages
  /\ reader \in [Readers -> WriterStates]
  /\ delivered \in [Readers -> SUBSET SequenceNumbers]
  /\ history \in [Readers -> SUBSET SequenceNumbers]
  /\ taken \in [Readers -> SUBSET SequenceNumbers]

Init ==
  /\ written = 0
  /\ addressed = [n \in SequenceNumbers |-> {}]
  /\ outcome = [n \in SequenceNumbers |-> "unwritten"]
  /\ started = 0
  /\ acknowledged = {}
  /\ retries = [r \in Readers |-> 0]
  /\ sent = {}
  /\ reader = [r \in Readers |-> NewWriterState]
  /\ delivered = [r \in Readers |-> {}]
  /\ history = [r \in Readers |-> {}]
  /\ taken = [r \in Readers |-> {}]

-----------------------------------------------------------------------------
(* The writer.                                                             *)

Send(M) == sent' = sent \cup M

(* A deliver_change call is in progress, for sample `started'.             *)
Delivering == started \in SequenceNumbers /\ outcome[started] = "pending"

Waiting == addressed[started] \ acknowledged

(***************************************************************************)
(* ReliableWriter::write, called by DataWriter::write right after          *)
(* refresh_discovered_readers: S is the set of readers discovery matched.  *)
(* An empty set makes write() fail before the history is touched.          *)
(***************************************************************************)
Write(S) ==
  /\ S # {}
  /\ written < MaxSequence
  /\ written' = written + 1
  /\ addressed' = [addressed EXCEPT ![written'] = S]
  /\ outcome' = [outcome EXCEPT ![written'] = "pending"]
  /\ UNCHANGED <<started, acknowledged, retries, sent, readerVars>>

(* deliver_change sends DATA and HEARTBEAT to every reader of the snapshot *)
(* and waits.                                                              *)
Start ==
  /\ ~Delivering
  /\ started < written
  /\ started' = started + 1
  /\ acknowledged' = {}
  /\ retries' = [r \in Readers |-> 0]
  /\ Send({Data(started', r) : r \in addressed[started']} \cup
          {Heartbeat(started', r) : r \in addressed[started']})
  /\ UNCHANGED <<written, addressed, outcome, readerVars>>

(* The same, cut short by an error of transport.send: the readers before   *)
(* the one it fails at have got both datagrams, that one at most the DATA. *)
StartFails ==
  /\ ~Delivering
  /\ started < written
  /\ started' = started + 1
  /\ acknowledged' = {}
  /\ retries' = [r \in Readers |-> 0]
  /\ \E reached \in SUBSET addressed[started'] :
     \E at \in addressed[started'] \ reached :
     \E last \in SUBSET {Data(started', at)} :
        Send({Data(started', r) : r \in reached} \cup
             {Heartbeat(started', r) : r \in reached} \cup last)
  /\ outcome' = [outcome EXCEPT ![started'] = "failed"]
  /\ UNCHANGED <<written, addressed, readerVars>>

(* deliver_change returns false.                                           *)
GiveUp ==
  /\ outcome' = [outcome EXCEPT ![started] = "failed"]
  /\ UNCHANGED <<written, addressed, started, acknowledged, retries, sent,
                 readerVars>>

(* One more transmission to r, which counts against its retry limit.       *)
Retransmit(r) ==
  /\ retries' = [retries EXCEPT ![r] = @ + 1]
  /\ Send({Data(started, r), Heartbeat(started, r)})
  /\ UNCHANGED <<written, addressed, outcome, started, acknowledged, readerVars>>

(* Bugs: one retry too many; a reader whose retries are used up is waited  *)
(* for without end.                                                        *)
BugRetryOnceMore(r) ==
  /\ Delivering
  /\ r \in Waiting
  /\ IF retries[r] > MaxRetries THEN GiveUp ELSE Retransmit(r)

BugRetryNeverGivesUp(r) ==
  /\ Delivering
  /\ r \in Waiting
  /\ retries[r] < MaxRetries
  /\ Retransmit(r)

(* The retry deadline of r passes.                                         *)
RetryTimeout(r) ==
  /\ Delivering
  /\ r \in Waiting
  /\ IF retries[r] = MaxRetries THEN GiveUp ELSE Retransmit(r)

(* transport.send or transport.receive fails while the call is waiting.    *)
TransportFails ==
  /\ Delivering
  /\ GiveUp

(* An ACKNACK of r reaches the waiting call.  It confirms the sample, or   *)
(* asks for it again; anything else is ignored.  Its count is not looked   *)
(* at.  The call returns true once every reader has confirmed.             *)
ReceiveAckNack(m) ==
  LET r == m.reader
      confirms == Acknowledges(m.state, started) /\ ~HasRequests(m.state)
  IN  /\ m.type = "ACKNACK"
      /\ Delivering
      /\ r \in Waiting
      /\ \/ /\ confirms
            /\ acknowledged' = acknowledged \cup {r}
            /\ outcome' = IF Waiting \subseteq {r}
                          THEN [outcome EXCEPT ![started] = "confirmed"]
                          ELSE outcome
            /\ UNCHANGED <<written, addressed, started, retries, sent, readerVars>>
         \/ /\ ~confirms
            /\ started \in m.state.requested
            /\ IF retries[r] = MaxRetries THEN GiveUp ELSE Retransmit(r)

-----------------------------------------------------------------------------
(* The readers.                                                            *)

(* ReaderHistory::add for each of the samples of K \ history, in order:     *)
(* only the last HistoryDepth samples stay.                                *)
Latest(K) == {n \in K : Cardinality({m \in K : m > n}) < HistoryDepth}

(* The common end of the receive handlers of r, s being the state after    *)
(* the submessage: commit, then answer.  DataReader::take calls            *)
(* receive_once only when the history has nothing to return.               *)
Settle(r, s) ==
  /\ history[r] = {}
  /\ \E n \in 0..MaxSequence :
       /\ SettlesAt(s, n)
       /\ reader' = [reader EXCEPT ![r] = AfterCommit(s, n)]
       /\ delivered' = [delivered EXCEPT ![r] = @ \cup CommittedBy(s, n)]
       /\ history' = [history EXCEPT ![r] = Latest(@ \cup CommittedBy(s, n))]
       /\ Send({Reply(r, AfterCommit(s, n))})
       /\ UNCHANGED <<writerVars, taken>>

ReceiveData(m) ==
  /\ m.type = "DATA"
  /\ Settle(m.reader, AfterData(reader[m.reader], m.sn))

ReceiveHeartbeat(m) ==
  /\ m.type = "HEARTBEAT"
  /\ Settle(m.reader, AfterHeartbeat(reader[m.reader], m.first, m.last))

(* ReliableReader::take: the application gets the oldest retained sample.  *)
Take(r) ==
  \E n \in history[r] :
    /\ \A m \in history[r] : n <= m
    /\ history' = [history EXCEPT ![r] = @ \ {n}]
    /\ taken' = [taken EXCEPT ![r] = @ \cup {n}]
    /\ UNCHANGED <<writerVars, sent, reader, delivered>>

-----------------------------------------------------------------------------
Next ==
  \/ \E S \in SUBSET Readers : Write(S)
  \/ Start
  \/ StartFails
  \/ \E r \in Readers : RetryTimeout(r)
  \/ TransportFails
  \/ \E m \in sent : \/ ReceiveAckNack(m)
                     \/ ReceiveData(m)
                     \/ ReceiveHeartbeat(m)
  \/ \E r \in Readers : Take(r)

Spec == Init /\ [][Next]_vars

(* The writer is a thread that polls: it takes the next change when it is  *)
(* idle, and its receive waits at most 50 ms, so a deadline that passed is *)
(* acted upon.  Nothing is assumed of the network or of the readers.       *)
FairSpec ==
  /\ Spec
  /\ WF_vars(Start \/ StartFails)
  /\ \A r \in Readers : WF_vars(RetryTimeout(r))

-----------------------------------------------------------------------------
(* A sample is confirmed to the application only when every reader it was  *)
(* addressed to has it ready to be taken, or has given it to its           *)
(* application already: no stale, duplicated or reordered ACKNACK confirms *)
(* a sample the reader lacks, and the KeepLast history never evicts a      *)
(* confirmed sample an application has not seen, however small its depth.  *)
ConfirmedReachesApplication ==
  \A n \in SequenceNumbers :
    outcome[n] = "confirmed" =>
      \A r \in addressed[n] : n \in history[r] \cup taken[r]

(* A reader that has advanced past a sample addressed to it has delivered  *)
(* it, unless the writer had given up on it: a heartbeat of a later sample *)
(* never makes a reader skip one that is still being delivered.            *)
NoSilentSkip ==
  \A r \in Readers : \A n \in 1..reader[r].highest_contiguous :
    r \in addressed[n] => n \in delivered[r] \/ outcome[n] = "failed"

(* A sample already handed over is never buffered again, so late copies of *)
(* its DATA cannot deliver it a second time.                               *)
AtMostOnce ==
  \A r \in Readers : reader[r].pending \cap delivered[r] = {}

(* An application takes the samples in the order they were written, though *)
(* DATA may arrive in any order and a sample given up may still arrive.    *)
TakenInOrder ==
  [][\A r \in Readers : \A n \in taken'[r] \ taken[r] :
       \A m \in taken[r] : m < n]_vars

(* Every delivery ends: the bounded retries leave no change in progress    *)
(* for ever, and the queue behind it is served.                            *)
EverySampleSettles ==
  \A n \in SequenceNumbers :
    outcome[n] = "pending" ~> outcome[n] \in {"confirmed", "failed"}

(* The protocol implements the promise of OrderedTopic.                    *)
Topic == INSTANCE OrderedTopic
           WITH Readers <- Readers, MaxSequence <- MaxSequence,
                addressed <- addressed, outcome <- outcome,
                delivered <- delivered
ImplementsTopic == Topic!TopicSpec

-----------------------------------------------------------------------------
(***************************************************************************)
(* The inductive invariant behind the safety properties, in parts.         *)
(***************************************************************************)
(* The samples before `started' are settled, those after it are not.       *)
WriterInv ==
  /\ started <= written
  /\ \A n \in SequenceNumbers :
       /\ outcome[n] = "unwritten" <=> n > written
       /\ n < started => outcome[n] \in {"confirmed", "failed"}
       /\ n > started => outcome[n] \in {"unwritten", "pending"}

(* DATA and HEARTBEAT exist for started samples and their readers only; an *)
(* ACKNACK claims no more than its sender holds, and one that requests     *)
(* nothing covers nothing: its base alone speaks.                          *)
MessageInv ==
  \A m \in sent :
    /\ m.type = "DATA" =>
         m.sn <= started /\ m.reader \in addressed[m.sn]
    /\ m.type = "HEARTBEAT" =>
         m.first = m.last /\ m.first <= started /\ m.reader \in addressed[m.first]
    /\ m.type = "ACKNACK" =>
         /\ m.state.base <= reader[m.reader].highest_contiguous + 1
         /\ m.state.requested = {} => m.state.covered = {}

(* What holds of a WriterState between any two of its changes.             *)
BufferInv(r, s) ==
  /\ s.highest_contiguous <= started
  /\ s.received = s.pending
  /\ s.irrelevant = {}
  /\ \A n \in s.pending :
       n <= started /\ r \in addressed[n] /\ n \notin delivered[r]
  /\ ~s.range_initialized => s.highest_contiguous = 0 /\ 1 \notin s.pending

(* ... and, after the commit, that nothing more can be committed.          *)
ReaderInv ==
  \A r \in Readers :
    /\ BufferInv(r, reader[r])
    /\ reader[r].highest_contiguous + 1 \notin reader[r].pending
    /\ \A n \in delivered[r] : n <= reader[r].highest_contiguous

(* A sample leaves the history for the application, or because it failed.  *)
HistoryInv ==
  \A r \in Readers :
    /\ history[r] \cup taken[r] \subseteq delivered[r]
    /\ \A n \in taken[r], m \in history[r] : n < m
    /\ \A n \in delivered[r] :
         n \in history[r] \cup taken[r] \/ outcome[n] = "failed"

(* The writer counts only readers that have advanced to its sample.        *)
AcknowledgedInv ==
  /\ Delivering =>
       \A r \in acknowledged : reader[r].highest_contiguous >= started
  /\ \A n \in SequenceNumbers :
       outcome[n] = "confirmed" =>
         \A r \in addressed[n] : reader[r].highest_contiguous >= n

ProtocolInv ==
  /\ TypeOK
  /\ WriterInv
  /\ MessageInv
  /\ ReaderInv
  /\ NoSilentSkip
  /\ HistoryInv
  /\ AcknowledgedInv
=============================================================================
