------------------------ MODULE ReliableProtocol_proofs ------------------------
(***************************************************************************)
(* Proofs about ReliableProtocol: the inductive invariant ProtocolInv, the *)
(* safety properties that follow from it, and the refinement of            *)
(* OrderedTopic, for any readers, retry limit, history depth and bounds.   *)
(***************************************************************************)
EXTENDS ReliableProtocol, FiniteSetTheorems, TLAPS

-----------------------------------------------------------------------------
(* What the reader operators do, field by field.                           *)

LEMMA AfterDataFields ==
  ASSUME NEW s \in WriterStates, NEW sn \in SequenceNumbers
  PROVE  LET t == AfterData(s, sn) IN
         /\ t \in WriterStates
         /\ t.highest_contiguous = s.highest_contiguous
         /\ t.range_initialized = (s.range_initialized \/ sn = 1)
         /\ t.irrelevant = s.irrelevant
         /\ s.received = s.pending => t.received = t.pending
         /\ t.pending \subseteq s.pending \cup {sn}
         /\ \A n \in t.pending \ s.pending : n > s.highest_contiguous
<1> DEFINE new == IF sn > s.highest_contiguous /\ sn \notin s.received
                  THEN {sn} ELSE {}
           t == AfterData(s, sn)
<1>1. Larger(s.last_announced, sn) \in 0..MaxSequence
  BY DEF Larger, WriterStates, SequenceNumbers
<1>2. /\ t.highest_contiguous = s.highest_contiguous
      /\ t.last_announced = Larger(s.last_announced, sn)
      /\ t.range_initialized = (s.range_initialized \/ sn = 1)
      /\ t.irrelevant = s.irrelevant
      /\ t.received = s.received \cup new
      /\ t.pending = s.pending \cup new
  BY DEF AfterData, WriterStates
<1>3. t \in WriterStates
  BY <1>1 DEF AfterData, WriterStates, SequenceNumbers
<1> QED BY <1>2, <1>3

LEMMA AfterHeartbeatFields ==
  ASSUME NEW s \in WriterStates,
         NEW first \in SequenceNumbers, NEW last \in SequenceNumbers
  PROVE  LET t == AfterHeartbeat(s, first, last) IN
         /\ t \in WriterStates
         /\ t.highest_contiguous = s.highest_contiguous \/
              t.highest_contiguous = first - 1
         /\ s.range_initialized =>
              t.highest_contiguous >= s.highest_contiguous
         /\ t.range_initialized
         /\ t.irrelevant = s.irrelevant
         /\ s.received = s.pending => t.received = t.pending
         /\ t.pending \subseteq s.pending
<1> DEFINE t == AfterHeartbeat(s, first, last)
           beyond == first > s.highest_contiguous + 1
           jump == ~s.range_initialized \/ beyond
           purged == IF s.range_initialized /\ beyond
                     THEN {n \in s.pending : n < first} ELSE {}
<1>1. Larger(s.last_announced, last) \in 0..MaxSequence
  BY DEF Larger, WriterStates, SequenceNumbers
<1>2. /\ t.highest_contiguous =
           IF jump THEN first - 1 ELSE s.highest_contiguous
      /\ t.last_announced = Larger(s.last_announced, last)
      /\ t.range_initialized = TRUE
      /\ t.irrelevant = s.irrelevant
      /\ t.received = s.received \ purged
      /\ t.pending = s.pending \ purged
  BY DEF AfterHeartbeat, WriterStates
<1>3. t \in WriterStates
  <2>1. (IF jump THEN first - 1 ELSE s.highest_contiguous) \in 0..MaxSequence
    BY SequenceAssumption DEF WriterStates, SequenceNumbers
  <2>2. s.received \ purged \in SUBSET SequenceNumbers /\
        s.pending \ purged \in SUBSET SequenceNumbers
    BY DEF WriterStates
  <2>3. t = [s EXCEPT !.range_initialized  = TRUE,
                      !.highest_contiguous = t.highest_contiguous,
                      !.received           = t.received,
                      !.pending            = t.pending,
                      !.last_announced     = t.last_announced]
    BY <1>2, Zenon DEF AfterHeartbeat
  <2> HIDE DEF t, jump, purged
  <2> QED BY <1>1, <1>2, <2>1, <2>2, <2>3 DEF WriterStates
<1>4. s.highest_contiguous \in Int /\ first \in Int
  BY DEF WriterStates, SequenceNumbers
<1> QED BY <1>2, <1>3, <1>4

LEMMA AfterCommitFields ==
  ASSUME NEW s \in WriterStates, NEW n \in 0..MaxSequence
  PROVE  LET t == AfterCommit(s, n)
             walked == (s.highest_contiguous + 1)..n IN
         /\ t \in WriterStates
         /\ t.highest_contiguous = n
         /\ t.range_initialized = s.range_initialized
         /\ t.irrelevant = s.irrelevant \ walked
         /\ t.received = s.received \ walked
         /\ t.pending = s.pending \ walked
BY DEF AfterCommit, WriterStates, SequenceNumbers

LEMMA AckNackType ==
  ASSUME NEW s \in WriterStates
  PROVE  /\ AckNack(s) \in AckNacks
         /\ AckNack(s).base = s.highest_contiguous + 1
BY SequenceAssumption, BitsAssumption DEF AckNack, AckNacks, Known, WriterStates, SequenceNumbers

(* A bitmap that covers anything covers its base; if the base is missing   *)
(* at the reader, it is requested.                                         *)
LEMMA AckNackRequests ==
  ASSUME NEW s \in WriterStates,
         s.highest_contiguous + 1 \notin s.received \cup s.irrelevant,
         AckNack(s).requested = {}
  PROVE  AckNack(s).covered = {}
<1> DEFINE a == AckNack(s)
<1>1. ASSUME NEW n \in a.covered PROVE a.base \in a.requested
  <2>1. n \in Known(s) /\ n >= a.base
    BY DEF AckNack, Known, WriterStates, SequenceNumbers
  <2>2. a.base \in Known(s)
    BY <2>1, AckNackType, SequenceAssumption, BitsAssumption DEF Known, WriterStates, SequenceNumbers
  <2> QED BY <2>2, SequenceAssumption, BitsAssumption DEF AckNack, Known, WriterStates, SequenceNumbers
<1> QED BY <1>1

LEMMA LatestSubset ==
  ASSUME NEW K PROVE Latest(K) \subseteq K
BY DEF Latest

-----------------------------------------------------------------------------
(* Type correctness.                                                       *)

LEMMA SettleType ==
  ASSUME TypeOK, NEW r \in Readers, NEW s \in WriterStates, Settle(r, s)
  PROVE  TypeOK'
<1>1. PICK n \in 0..MaxSequence :
        /\ reader' = [reader EXCEPT ![r] = AfterCommit(s, n)]
        /\ delivered' = [delivered EXCEPT ![r] = @ \cup CommittedBy(s, n)]
        /\ history' = [history EXCEPT ![r] = Latest(@ \cup CommittedBy(s, n))]
        /\ sent' = sent \cup {Reply(r, AfterCommit(s, n))}
        /\ UNCHANGED <<writerVars, taken>>
  BY DEF Settle, Send
<1>2. AfterCommit(s, n) \in WriterStates
  BY AfterCommitFields
<1>3. CommittedBy(s, n) \subseteq SequenceNumbers
  BY DEF CommittedBy, WriterStates
<1>4. Reply(r, AfterCommit(s, n)) \in Messages
  BY <1>2, AckNackType DEF Reply, Messages
<1>5. Latest(history[r] \cup CommittedBy(s, n)) \subseteq SequenceNumbers
  BY <1>3, LatestSubset DEF TypeOK
<1> QED BY <1>1, <1>2, <1>3, <1>4, <1>5 DEF TypeOK, writerVars

LEMMA DatagramType ==
  ASSUME NEW n \in SequenceNumbers, NEW r \in Readers
  PROVE  Data(n, r) \in Messages /\ Heartbeat(n, r) \in Messages
BY DEF Data, Heartbeat, Messages

LEMMA GiveUpType ==
  ASSUME TypeOK, Delivering, GiveUp PROVE TypeOK'
BY DEF TypeOK, Delivering, GiveUp, readerVars, Outcomes

LEMMA RetransmitType ==
  ASSUME TypeOK, Delivering, NEW r \in Readers,
         retries[r] # MaxRetries, Retransmit(r)
  PROVE  TypeOK'
<1>1. sent' \in SUBSET Messages
  BY DatagramType DEF TypeOK, Delivering, Retransmit, Send
<1>2. retries' \in [Readers -> 0..MaxRetries]
  BY RetriesAssumption DEF TypeOK, Retransmit
<1> QED BY <1>1, <1>2 DEF TypeOK, Retransmit, readerVars

LEMMA TypeStep == TypeOK /\ [Next]_vars => TypeOK'
<1> SUFFICES ASSUME TypeOK, [Next]_vars PROVE TypeOK'
  OBVIOUS
<1>1. ASSUME NEW S \in SUBSET Readers, Write(S) PROVE TypeOK'
  BY <1>1, SequenceAssumption DEF TypeOK, Write, SequenceNumbers, Outcomes, readerVars
<1>2. CASE Start
  <2>1. started' \in SequenceNumbers
    BY <1>2, SequenceAssumption DEF Start, TypeOK, SequenceNumbers
  <2>2. sent' \in SUBSET Messages
    BY <1>2, <2>1, DatagramType DEF Start, TypeOK, Send
  <2> QED BY <1>2, <2>1, <2>2, RetriesAssumption DEF Start, TypeOK, SequenceNumbers, readerVars
<1>3. CASE StartFails
  <2>1. started' \in SequenceNumbers
    BY <1>3, SequenceAssumption DEF StartFails, TypeOK, SequenceNumbers
  <2>2. sent' \in SUBSET Messages
    BY <1>3, <2>1, DatagramType DEF StartFails, TypeOK, Send
  <2> QED BY <1>3, <2>1, <2>2, RetriesAssumption
          DEF StartFails, TypeOK, SequenceNumbers, Outcomes, readerVars
<1>4. ASSUME NEW r \in Readers, RetryTimeout(r) PROVE TypeOK'
  BY <1>4, GiveUpType, RetransmitType DEF RetryTimeout
<1>5. CASE TransportFails
  BY <1>5, GiveUpType DEF TransportFails
<1>6. ASSUME NEW m \in sent, ReceiveAckNack(m) PROVE TypeOK'
  <2> DEFINE r == m.reader
  <2>1. r \in Readers /\ Delivering
    BY <1>6 DEF ReceiveAckNack, Waiting, TypeOK, Messages
  <2>2. CASE GiveUp
    BY <2>1, <2>2, GiveUpType
  <2>3. CASE retries[r] # MaxRetries /\ Retransmit(r)
    BY <2>1, <2>3, RetransmitType
  <2>4. CASE /\ acknowledged' = acknowledged \cup {r}
             /\ outcome' = IF Waiting \subseteq {r}
                           THEN [outcome EXCEPT ![started] = "confirmed"]
                           ELSE outcome
             /\ UNCHANGED <<written, addressed, started, retries, sent, readerVars>>
    BY <2>1, <2>4 DEF TypeOK, Delivering, Outcomes, readerVars
  <2> QED BY <1>6, <2>2, <2>3, <2>4 DEF ReceiveAckNack
<1>7. ASSUME NEW m \in sent, ReceiveData(m) PROVE TypeOK'
  <2>1. m.reader \in Readers /\ m.sn \in SequenceNumbers
    BY <1>7 DEF ReceiveData, TypeOK, Messages
  <2>2. AfterData(reader[m.reader], m.sn) \in WriterStates
    BY <2>1, AfterDataFields DEF TypeOK
  <2> QED BY <1>7, <2>1, <2>2, SettleType DEF ReceiveData
<1>8. ASSUME NEW m \in sent, ReceiveHeartbeat(m) PROVE TypeOK'
  <2>1. /\ m.reader \in Readers
        /\ m.first \in SequenceNumbers
        /\ m.last \in SequenceNumbers
    BY <1>8 DEF ReceiveHeartbeat, TypeOK, Messages
  <2>2. AfterHeartbeat(reader[m.reader], m.first, m.last) \in WriterStates
    BY <2>1, AfterHeartbeatFields DEF TypeOK
  <2> QED BY <1>8, <2>1, <2>2, SettleType DEF ReceiveHeartbeat
<1>9. ASSUME NEW r \in Readers, Take(r) PROVE TypeOK'
  BY <1>9 DEF TypeOK, Take, writerVars
<1>10. CASE UNCHANGED vars
  BY <1>10 DEF TypeOK, vars, writerVars, readerVars
<1> QED
  BY <1>1, <1>2, <1>3, <1>4, <1>5, <1>6, <1>7, <1>8, <1>9, <1>10 DEF Next

(* Every variable keeps its type: in particular a sample number never      *)
(* leaves the range and no retry counter passes max_retries.               *)
THEOREM TypeCorrect == Spec => []TypeOK
<1>1. Init => TypeOK
  BY SequenceAssumption, RetriesAssumption DEF Init, TypeOK, NewWriterState, WriterStates, Outcomes
<1> QED BY <1>1, TypeStep, PTL DEF Spec

-----------------------------------------------------------------------------
(* The inductive invariant: the steps of the writer.                       *)

LEMMA InitInv == Init => ProtocolInv
<1> SUFFICES ASSUME Init PROVE ProtocolInv
  OBVIOUS
<1>1. TypeOK
  BY SequenceAssumption, RetriesAssumption
     DEF Init, TypeOK, NewWriterState, WriterStates, Outcomes
<1>2. WriterInv
  BY SequenceAssumption DEF Init, WriterInv, SequenceNumbers
<1>3. MessageInv /\ HistoryInv /\ AcknowledgedInv
  BY DEF Init, MessageInv, HistoryInv, AcknowledgedInv, Delivering, SequenceNumbers
<1>4. ReaderInv /\ NoSilentSkip
  <2>1. \A r \in Readers : /\ reader[r] = NewWriterState
                            /\ delivered[r] = {}
    BY DEF Init
  <2>2. /\ NewWriterState.highest_contiguous = 0
        /\ NewWriterState.received = {}
        /\ NewWriterState.irrelevant = {}
        /\ NewWriterState.pending = {}
    BY DEF NewWriterState
  <2>3. started = 0
    BY DEF Init
  <2> QED BY <2>1, <2>2, <2>3 DEF ReaderInv, BufferInv, NoSilentSkip
<1> QED BY <1>1, <1>2, <1>3, <1>4 DEF ProtocolInv

(* Nothing a reader knows of goes beyond `started': what the writer does   *)
(* with later samples, or by giving up, does not disturb the readers.      *)
LEMMA ReadersUndisturbed ==
  ASSUME TypeOK, TypeOK', ReaderInv, NoSilentSkip, HistoryInv,
         UNCHANGED readerVars,
         started <= started',
         \A n \in SequenceNumbers : n <= started =>
           /\ addressed'[n] = addressed[n]
           /\ outcome[n] = "failed" => outcome'[n] = "failed"
  PROVE  ReaderInv' /\ NoSilentSkip' /\ HistoryInv'
<1>1. /\ reader' = reader /\ delivered' = delivered
      /\ history' = history /\ taken' = taken
      /\ started \in Int /\ started' \in Int
  BY DEF readerVars, TypeOK
<1>2. ASSUME NEW r \in Readers
      PROVE  /\ reader[r] \in WriterStates
             /\ reader[r].highest_contiguous \in 0..started
             /\ reader[r].pending \subseteq SequenceNumbers
             /\ delivered[r] \subseteq SequenceNumbers
             /\ \A n \in delivered[r] : n <= started
  <2>1. /\ reader[r] \in WriterStates
        /\ delivered[r] \subseteq SequenceNumbers
        /\ reader[r].highest_contiguous <= started
        /\ \A n \in delivered[r] : n <= reader[r].highest_contiguous
    BY DEF TypeOK, ReaderInv, BufferInv
  <2> QED BY <2>1, <1>1, SequenceAssumption DEF WriterStates, SequenceNumbers
<1>3. ReaderInv'
  <2> SUFFICES ASSUME NEW r \in Readers PROVE ReaderInv!(r)'
    BY DEF ReaderInv
  <2>1. BufferInv(r, reader[r])
    BY DEF ReaderInv
  <2>2. BufferInv(r, reader[r])'
    BY <1>1, <1>2, <2>1, SequenceAssumption DEF BufferInv, SequenceNumbers
  <2> QED BY <1>1, <2>2 DEF ReaderInv
<1>4. NoSilentSkip'
  BY <1>1, <1>2, SequenceAssumption DEF NoSilentSkip, SequenceNumbers, TypeOK
<1>5. HistoryInv'
  BY <1>1, <1>2, SequenceAssumption DEF HistoryInv, SequenceNumbers
<1> QED BY <1>3, <1>4, <1>5

(* ... nor the datagrams under way, as long as it sends only DATA and      *)
(* HEARTBEAT of started samples to the readers they are addressed to.      *)
LEMMA MessagesUndisturbed ==
  ASSUME TypeOK, MessageInv, TypeOK', reader' = reader,
         started <= started',
         \A n \in SequenceNumbers : n <= started => addressed'[n] = addressed[n],
         \A m \in sent' \ sent : \E n \in SequenceNumbers, r \in Readers :
           /\ n <= started' /\ r \in addressed'[n]
           /\ m \in {Data(n, r), Heartbeat(n, r)}
  PROVE  MessageInv'
<1> SUFFICES ASSUME NEW m \in sent' PROVE MessageInv!(m)'
  BY DEF MessageInv
<1>1. started \in Int /\ started' \in Int
  BY DEF TypeOK
<1>2. CASE m \in sent
  <2>1. m \in Messages
    BY <1>2 DEF TypeOK
  <2> QED BY <1>1, <1>2, <2>1, SequenceAssumption
          DEF MessageInv, Messages, SequenceNumbers
<1>3. CASE m \notin sent
  BY <1>3 DEF Data, Heartbeat
<1> QED BY <1>2, <1>3

LEMMA WriteStep ==
  ASSUME ProtocolInv, NEW S \in SUBSET Readers, Write(S), TypeOK'
  PROVE  ProtocolInv'
<1> USE DEF ProtocolInv
<1>1. /\ started \in 0..MaxSequence /\ written \in 0..MaxSequence
      /\ started <= written /\ written' = written + 1
      /\ written + 1 \in SequenceNumbers
      /\ UNCHANGED <<started, acknowledged, sent, readerVars>>
  BY SequenceAssumption DEF Write, TypeOK, WriterInv, SequenceNumbers
<1>2. \A n \in SequenceNumbers \ {written + 1} :
        addressed'[n] = addressed[n] /\ outcome'[n] = outcome[n]
  BY <1>1 DEF Write, TypeOK
<1>3. outcome'[written + 1] = "pending" /\ outcome[written + 1] = "unwritten"
  BY <1>1 DEF Write, TypeOK, WriterInv
<1>4. WriterInv'
  <2> SUFFICES ASSUME NEW n \in SequenceNumbers PROVE WriterInv!2!(n)'
    BY <1>1, SequenceAssumption DEF WriterInv
  <2>1. CASE n = written + 1
    BY <2>1, <1>1, <1>3, SequenceAssumption
  <2>2. CASE n # written + 1
    BY <2>2, <1>1, <1>2, SequenceAssumption DEF WriterInv, SequenceNumbers
  <2> QED BY <2>1, <2>2
<1>5. \A n \in SequenceNumbers : n <= started => n # written + 1
  BY <1>1, SequenceAssumption DEF SequenceNumbers
<1>6. MessageInv'
  BY <1>1, <1>2, <1>5, MessagesUndisturbed DEF readerVars
<1>7. ReaderInv' /\ NoSilentSkip' /\ HistoryInv'
  BY <1>1, <1>2, <1>5, ReadersUndisturbed
<1>8. AcknowledgedInv'
  BY <1>1, <1>2, <1>3, <1>5 DEF AcknowledgedInv, Delivering, readerVars
<1> QED BY <1>4, <1>6, <1>7, <1>8

(* The two ways to begin with the next sample.                             *)
LEMMA BeginStep ==
  ASSUME ProtocolInv, TypeOK', ~Delivering, started < written,
         started' = started + 1, acknowledged' = {},
         UNCHANGED <<written, addressed, readerVars>>,
         outcome' \in {outcome, [outcome EXCEPT ![started'] = "failed"]},
         \A m \in sent' \ sent : \E r \in addressed[started'] :
           m \in {Data(started', r), Heartbeat(started', r)}
  PROVE  ProtocolInv'
<1> USE DEF ProtocolInv
<1>1. /\ started \in 0..MaxSequence /\ written \in 0..MaxSequence
      /\ started' \in SequenceNumbers
      /\ \A n \in SequenceNumbers : n <= started => n # started'
  BY SequenceAssumption DEF TypeOK, SequenceNumbers
<1>2. \A n \in SequenceNumbers : n # started' => outcome'[n] = outcome[n]
  BY <1>1 DEF TypeOK
<1>3. outcome'[started'] \in {outcome[started'], "failed"}
  BY <1>1 DEF TypeOK
<1>4. WriterInv'
  <2>1. started' <= written
    BY <1>1
  <2>2. started \in SequenceNumbers => outcome[started] \in {"confirmed", "failed"}
    BY <1>1, SequenceAssumption
       DEF Delivering, WriterInv, TypeOK, Outcomes, SequenceNumbers
  <2>3. outcome[started'] = "pending"
    BY <1>1, SequenceAssumption DEF WriterInv, TypeOK, Outcomes, SequenceNumbers
  <2> SUFFICES ASSUME NEW n \in SequenceNumbers PROVE WriterInv!2!(n)'
    BY <2>1 DEF WriterInv
  <2>4. CASE n = started'
    BY <2>1, <2>3, <2>4, <1>1, <1>3 DEF SequenceNumbers
  <2>5. CASE n # started'
    BY <2>2, <2>5, <1>1, <1>2, SequenceAssumption DEF WriterInv, SequenceNumbers
  <2> QED BY <2>4, <2>5
<1>5. addressed'[started'] \in SUBSET Readers
  BY <1>1 DEF TypeOK
<1>6. MessageInv'
  <2>1. \A m \in sent' \ sent : \E n \in SequenceNumbers, r \in Readers :
           /\ n <= started' /\ r \in addressed'[n]
           /\ m \in {Data(n, r), Heartbeat(n, r)}
    BY <1>1, <1>5 DEF SequenceNumbers
  <2> QED BY <1>1, <2>1, MessagesUndisturbed DEF readerVars
<1>7. ReaderInv' /\ NoSilentSkip' /\ HistoryInv'
  BY <1>1, <1>2, ReadersUndisturbed
<1>8. AcknowledgedInv'
  <2>1. \A n \in SequenceNumbers :
          outcome'[n] = "confirmed" => outcome[n] = "confirmed"
    BY <1>2, <1>3
  <2> QED BY <2>1 DEF AcknowledgedInv, readerVars
<1> QED BY <1>4, <1>6, <1>7, <1>8

LEMMA StartStep ==
  ASSUME ProtocolInv, TypeOK', Start \/ StartFails PROVE ProtocolInv'
<1>1. CASE Start
  BY <1>1, BeginStep DEF Start, Send
<1>2. CASE StartFails
  <2>1. \A m \in sent' \ sent : \E r \in addressed[started'] :
           m \in {Data(started', r), Heartbeat(started', r)}
    BY <1>2 DEF StartFails, Send
  <2> QED BY <1>2, <2>1, BeginStep DEF StartFails
<1> QED BY <1>1, <1>2

LEMMA GiveUpStep ==
  ASSUME ProtocolInv, TypeOK', Delivering, GiveUp PROVE ProtocolInv'
<1> USE DEF ProtocolInv
<1>1. started \in SequenceNumbers /\ outcome[started] = "pending"
  BY DEF Delivering
<1>2. /\ outcome'[started] = "failed"
      /\ \A n \in SequenceNumbers : n # started => outcome'[n] = outcome[n]
      /\ UNCHANGED <<written, addressed, started, acknowledged, sent, readerVars>>
  BY <1>1 DEF GiveUp, TypeOK
<1>3. WriterInv'
  BY <1>1, <1>2, SequenceAssumption DEF WriterInv, SequenceNumbers, TypeOK
<1>4. MessageInv'
  BY <1>1, <1>2, MessagesUndisturbed DEF readerVars, SequenceNumbers
<1>5. ReaderInv' /\ NoSilentSkip' /\ HistoryInv'
  BY <1>1, <1>2, ReadersUndisturbed DEF SequenceNumbers
<1>6. AcknowledgedInv'
  BY <1>1, <1>2 DEF AcknowledgedInv, Delivering, readerVars
<1> QED BY <1>3, <1>4, <1>5, <1>6

LEMMA RetransmitStep ==
  ASSUME ProtocolInv, TypeOK', Delivering,
         NEW r \in Readers, r \in Waiting, Retransmit(r)
  PROVE  ProtocolInv'
<1> USE DEF ProtocolInv
<1>1. started \in SequenceNumbers /\ r \in addressed[started]
  BY DEF Delivering, Waiting
<1>2. UNCHANGED <<written, addressed, outcome, started, acknowledged, readerVars>>
  BY DEF Retransmit
<1>3. WriterInv'
  BY <1>2 DEF WriterInv
<1>4. MessageInv'
  BY <1>1, <1>2, MessagesUndisturbed
     DEF readerVars, Retransmit, Send, SequenceNumbers
<1>5. ReaderInv' /\ NoSilentSkip' /\ HistoryInv'
  BY <1>1, <1>2, ReadersUndisturbed DEF SequenceNumbers
<1>6. AcknowledgedInv'
  BY <1>1, <1>2 DEF AcknowledgedInv, Delivering, readerVars
<1> QED BY <1>3, <1>4, <1>5, <1>6

(* An ACKNACK that acknowledges the current sample and requests nothing    *)
(* has a base beyond that sample, so its sender has advanced past it.      *)
LEMMA ConfirmStep ==
  ASSUME ProtocolInv, TypeOK', Delivering,
         NEW m \in sent, m.type = "ACKNACK", m.reader \in Waiting,
         Acknowledges(m.state, started), ~HasRequests(m.state),
         acknowledged' = acknowledged \cup {m.reader},
         outcome' = IF Waiting \subseteq {m.reader}
                    THEN [outcome EXCEPT ![started] = "confirmed"]
                    ELSE outcome,
         UNCHANGED <<written, addressed, started, sent, readerVars>>
  PROVE  ProtocolInv'
<1> USE DEF ProtocolInv
<1>1. started \in SequenceNumbers /\ outcome[started] = "pending"
  BY DEF Delivering
<1>2. /\ \A n \in SequenceNumbers : n # started => outcome'[n] = outcome[n]
      /\ outcome'[started] \in {"pending", "confirmed"}
  BY <1>1 DEF TypeOK
<1>3. reader[m.reader].highest_contiguous >= started
  <2>1. m \in Messages /\ m.state \in AckNacks /\ m.reader \in Readers
    BY DEF TypeOK, Messages
  <2>2. reader[m.reader].highest_contiguous \in Int /\ m.state.base \in Int
    BY <2>1, SequenceAssumption DEF TypeOK, WriterStates, AckNacks
  <2>3. /\ m.state.base <= reader[m.reader].highest_contiguous + 1
        /\ m.state.covered = {}
    BY DEF MessageInv, HasRequests
  <2>4. started < m.state.base
    BY <2>3 DEF Acknowledges
  <2> QED BY <1>1, <2>2, <2>3, <2>4 DEF SequenceNumbers
<1>4. \A r \in acknowledged' : reader[r].highest_contiguous >= started
  BY <1>3 DEF AcknowledgedInv
<1>5. WriterInv'
  BY <1>1, <1>2, SequenceAssumption DEF WriterInv, SequenceNumbers, TypeOK
<1>6. MessageInv'
  BY <1>1, MessagesUndisturbed DEF readerVars, SequenceNumbers
<1>7. ReaderInv' /\ NoSilentSkip' /\ HistoryInv'
  BY <1>1, <1>2, ReadersUndisturbed DEF SequenceNumbers
<1>8. AcknowledgedInv'
  <2>1. ASSUME outcome'[started] = "confirmed", NEW r \in addressed[started]
        PROVE  reader[r].highest_contiguous >= started
    <3>1. Waiting \subseteq {m.reader}
      BY <1>1, <2>1
    <3> QED BY <1>4, <3>1 DEF Waiting
  <2> QED BY <1>1, <1>2, <1>4, <2>1 DEF AcknowledgedInv, readerVars
<1> QED BY <1>5, <1>6, <1>7, <1>8

-----------------------------------------------------------------------------
(* The inductive invariant: the steps of the readers.                      *)

(* What a receive handler has established before it commits: the state s   *)
(* after the submessage, and that a number it passed over had failed.      *)
Received(r, s) ==
  /\ BufferInv(r, s)
  /\ s.highest_contiguous >= reader[r].highest_contiguous
  /\ \A n \in (reader[r].highest_contiguous + 1)..s.highest_contiguous :
       r \in addressed[n] => outcome[n] = "failed"

(* The commit walks from there over buffered samples only, and stops at a  *)
(* number that is not buffered.                                            *)
LEMMA SettledState ==
  ASSUME TypeOK, NEW r \in Readers, NEW s \in WriterStates, BufferInv(r, s),
         NEW n \in 0..MaxSequence, SettlesAt(s, n)
  PROVE  /\ s.highest_contiguous \in 0..n
         /\ n <= started
         /\ n + 1 \notin s.pending
         /\ CommittedBy(s, n) = (s.highest_contiguous + 1)..n
         /\ CommittedBy(s, n) \subseteq s.pending
<1>1. s.highest_contiguous \in 0..MaxSequence /\ started \in Int
  BY DEF TypeOK, WriterStates
<1>2. /\ s.highest_contiguous <= n
      /\ (s.highest_contiguous + 1)..n \subseteq s.pending
      /\ n + 1 \notin s.pending
  <2>1. CASE s.range_initialized
    BY <2>1 DEF SettlesAt, CommitsTo, BufferInv
  <2>2. CASE ~s.range_initialized
    BY <1>1, <2>2 DEF SettlesAt, BufferInv
  <2> QED BY <2>1, <2>2
<1>3. CommittedBy(s, n) = (s.highest_contiguous + 1)..n
  BY <1>2 DEF CommittedBy, BufferInv
<1>4. n <= started
  <2>1. CASE n = s.highest_contiguous
    BY <2>1 DEF BufferInv
  <2>2. CASE n > s.highest_contiguous
    <3>1. n \in s.pending
      BY <1>1, <1>2, <2>2
    <3> QED BY <3>1 DEF BufferInv
  <2> QED BY <1>1, <1>2, <2>1, <2>2
<1> QED BY <1>1, <1>2, <1>3, <1>4, SequenceAssumption

(* A sample the history drops has a later one committed with it.           *)
LEMMA Evicted ==
  ASSUME NEW K, NEW n \in K \ Latest(K) PROVE \E m \in K : m > n
<1> SUFFICES ASSUME {m \in K : m > n} = {} PROVE FALSE
  OBVIOUS
<1>1. Cardinality({m \in K : m > n}) = 0
  BY FS_EmptySet
<1> QED BY <1>1, DepthAssumption DEF Latest

LEMMA SettleStep ==
  ASSUME ProtocolInv, TypeOK', NEW r \in Readers, NEW s \in WriterStates,
         Received(r, s), Settle(r, s)
  PROVE  ProtocolInv'
<1> USE DEF ProtocolInv
<1>1. PICK n \in 0..MaxSequence :
        /\ SettlesAt(s, n)
        /\ reader' = [reader EXCEPT ![r] = AfterCommit(s, n)]
        /\ delivered' = [delivered EXCEPT ![r] = @ \cup CommittedBy(s, n)]
        /\ history' = [history EXCEPT ![r] = Latest(@ \cup CommittedBy(s, n))]
        /\ sent' = sent \cup {Reply(r, AfterCommit(s, n))}
        /\ UNCHANGED <<writerVars, taken>>
  BY DEF Settle, Send
<1> DEFINE t == AfterCommit(s, n)
           low == reader[r].highest_contiguous
           D == CommittedBy(s, n)
<1>2. /\ s.highest_contiguous \in 0..n
      /\ n <= started
      /\ n + 1 \notin s.pending
      /\ D = (s.highest_contiguous + 1)..n
      /\ D \subseteq s.pending
  BY <1>1, SettledState DEF Received
<1>3. /\ t \in WriterStates
      /\ t.highest_contiguous = n
      /\ t.range_initialized = s.range_initialized
      /\ t.irrelevant = {}
      /\ t.received = t.pending
      /\ t.pending = s.pending \ D
  <2>1. s.irrelevant = {} /\ s.received = s.pending
    BY DEF Received, BufferInv
  <2>2. /\ t \in WriterStates
        /\ t.highest_contiguous = n
        /\ t.range_initialized = s.range_initialized
        /\ t.irrelevant = s.irrelevant \ ((s.highest_contiguous + 1)..n)
        /\ t.received = s.received \ ((s.highest_contiguous + 1)..n)
        /\ t.pending = s.pending \ ((s.highest_contiguous + 1)..n)
    BY AfterCommitFields
  <2> HIDE DEF D, t
  <2> QED BY <1>2, <2>1, <2>2
<1>4. /\ low \in 0..MaxSequence /\ low <= s.highest_contiguous /\ low <= n
      /\ started \in 0..MaxSequence
  BY <1>2 DEF Received, TypeOK, WriterStates
<1>5. /\ reader'[r] = t
      /\ delivered'[r] = delivered[r] \cup D
      /\ history'[r] = Latest(D)
      /\ \A q \in Readers \ {r} : /\ reader'[q] = reader[q]
                                  /\ delivered'[q] = delivered[q]
                                  /\ history'[q] = history[q]
  BY <1>1 DEF TypeOK, Settle
<1>6. UNCHANGED <<written, addressed, outcome, started, acknowledged, taken>>
  BY <1>1 DEF writerVars
<1>7. \A q \in Readers :
        reader[q].highest_contiguous <= reader'[q].highest_contiguous
  BY <1>3, <1>4, <1>5 DEF TypeOK, WriterStates
<1>8. \A k \in delivered[r] : k \in SequenceNumbers /\ k <= low
  BY DEF ReaderInv, TypeOK
<1>9. WriterInv'
  BY <1>6 DEF WriterInv
<1>10. MessageInv'
  <2> SUFFICES ASSUME NEW m \in sent' PROVE MessageInv!(m)'
    BY DEF MessageInv
  <2>1. CASE m \in sent
    <3>1. m \in Messages
      BY <2>1 DEF TypeOK
    <3>2. m.type = "ACKNACK" =>
            m.reader \in Readers /\ m.state.base \in Int
      BY <3>1 DEF Messages, AckNacks
    <3>3. \A q \in Readers : /\ reader[q].highest_contiguous \in Int
                             /\ reader'[q].highest_contiguous \in Int
      BY DEF TypeOK, WriterStates
    <3> QED BY <1>6, <1>7, <2>1, <3>2, <3>3 DEF MessageInv
  <2>2. CASE m = Reply(r, t)
    <3>1. t.highest_contiguous + 1 \notin t.received \cup t.irrelevant
      BY <1>2, <1>3
    <3>2. /\ AckNack(t).base = n + 1
          /\ AckNack(t).requested = {} => AckNack(t).covered = {}
      BY <1>3, <3>1, AckNackType, AckNackRequests
    <3>3. m.type = "ACKNACK" /\ m.reader = r /\ m.state = AckNack(t)
      BY <2>2 DEF Reply
    <3> QED BY <1>3, <1>5, <3>2, <3>3
  <2> QED BY <1>1, <2>1, <2>2
<1>11. ReaderInv'
  <2> SUFFICES ASSUME NEW q \in Readers PROVE ReaderInv!(q)'
    BY DEF ReaderInv
  <2>1. CASE q # r
    BY <1>5, <1>6, <2>1 DEF ReaderInv, BufferInv
  <2>2. CASE q = r
    <3>1. \A k \in t.pending :
            k <= started /\ r \in addressed[k] /\ k \notin delivered'[r]
      BY <1>3, <1>5 DEF Received, BufferInv
    <3>2. ~t.range_initialized => t.highest_contiguous = 0 /\ 1 \notin t.pending
      <4>1. ~s.range_initialized => n = s.highest_contiguous
        BY <1>1 DEF SettlesAt
      <4> QED BY <1>3, <4>1 DEF Received, BufferInv
    <3>3. BufferInv(r, t)'
      BY <1>2, <1>3, <1>6, <3>1, <3>2 DEF BufferInv
    <3>4. t.highest_contiguous + 1 \notin t.pending
      BY <1>2, <1>3
    <3>5. \A k \in delivered'[r] : k <= t.highest_contiguous
      BY <1>2, <1>3, <1>4, <1>5, <1>8 DEF SequenceNumbers
    <3> QED BY <1>5, <2>2, <3>3, <3>4, <3>5
  <2> QED BY <2>1, <2>2
<1>12. NoSilentSkip'
  <2> SUFFICES ASSUME NEW q \in Readers,
                      NEW k \in 1..reader'[q].highest_contiguous,
                      q \in addressed[k]
               PROVE  k \in delivered'[q] \/ outcome[k] = "failed"
    BY <1>6 DEF NoSilentSkip
  <2>1. CASE q # r
    BY <1>5, <2>1 DEF NoSilentSkip
  <2>2. CASE q = r /\ k <= low
    BY <1>4, <1>5, <2>2 DEF NoSilentSkip
  <2>3. CASE q = r /\ k > low /\ k <= s.highest_contiguous
    BY <1>2, <1>4, <2>3 DEF Received
  <2>4. CASE q = r /\ k > s.highest_contiguous
    BY <1>2, <1>3, <1>5, <2>4
  <2> QED BY <1>2, <1>4, <2>1, <2>2, <2>3, <2>4
<1>13. HistoryInv'
  <2> SUFFICES ASSUME NEW q \in Readers PROVE HistoryInv!(q)'
    BY DEF HistoryInv
  <2>1. CASE q # r
    BY <1>5, <1>6, <2>1 DEF HistoryInv
  <2>2. CASE q = r
    <3>1. history[r] = {} /\ Latest(D) \subseteq D
      BY LatestSubset DEF Settle
    <3>2. \A k \in taken[r] : k \in delivered[r]
      BY DEF HistoryInv
    <3>3. \A k \in taken[r], m \in Latest(D) : k < m
      BY <1>2, <1>4, <1>8, <3>1, <3>2 DEF SequenceNumbers
    <3>4. ASSUME NEW k \in D, k \notin Latest(D)
          PROVE  outcome[k] = "failed"
      <4>1. PICK m \in D : m > k
        BY <3>4, Evicted
      <4>2. k \in s.pending /\ m \in s.pending /\ m <= started
        BY <1>2 DEF Received, BufferInv
      <4>3. k \in SequenceNumbers /\ m \in SequenceNumbers
        BY <4>2 DEF WriterStates
      <4>4. k < started
        BY <1>4, <4>1, <4>2, <4>3 DEF SequenceNumbers
      <4>5. outcome[k] \in {"confirmed", "failed"}
        BY <4>3, <4>4 DEF WriterInv
      <4>6. r \in addressed[k] /\ low < k
        BY <1>2, <1>4, <4>2 DEF Received, BufferInv
      <4>7. outcome[k] # "confirmed"
        BY <1>4, <4>3, <4>6 DEF AcknowledgedInv, SequenceNumbers
      <4> QED BY <4>5, <4>7
    <3>5. \A k \in delivered[r] : k \in taken[r] \/ outcome[k] = "failed"
      BY <3>1 DEF HistoryInv
    <3> QED BY <1>5, <1>6, <2>2, <3>1, <3>2, <3>3, <3>4, <3>5
  <2> QED BY <2>1, <2>2
<1>14. AcknowledgedInv'
  <2>1. \A q \in Readers : /\ reader[q].highest_contiguous \in Int
                           /\ reader'[q].highest_contiguous \in Int
    BY DEF TypeOK, WriterStates
  <2>2. acknowledged \in SUBSET Readers
    BY DEF TypeOK
  <2>3. \A k \in SequenceNumbers : addressed[k] \in SUBSET Readers
    BY DEF TypeOK
  <2>4. \A q \in Readers, k \in Int : reader[q].highest_contiguous >= k
                                     => reader'[q].highest_contiguous >= k
    BY <1>7, <2>1
  <2> QED BY <1>4, <1>6, <2>2, <2>3, <2>4
          DEF AcknowledgedInv, Delivering, SequenceNumbers
<1> QED BY <1>9, <1>10, <1>11, <1>12, <1>13, <1>14

(* A buffered DATA is of a started sample, addressed to the reader, and    *)
(* not yet handed over.                                                    *)
LEMMA DataReceived ==
  ASSUME ProtocolInv, NEW m \in sent, m.type = "DATA"
  PROVE  /\ m.reader \in Readers
         /\ AfterData(reader[m.reader], m.sn) \in WriterStates
         /\ Received(m.reader, AfterData(reader[m.reader], m.sn))
<1> DEFINE r == m.reader
           t == AfterData(reader[r], m.sn)
<1>1. /\ r \in Readers /\ m.sn \in SequenceNumbers
      /\ m.sn <= started /\ r \in addressed[m.sn]
  BY DEF ProtocolInv, TypeOK, Messages, MessageInv
<1>2. /\ reader[r] \in WriterStates
      /\ BufferInv(r, reader[r])
      /\ \A n \in delivered[r] : n <= reader[r].highest_contiguous
  BY <1>1 DEF ProtocolInv, TypeOK, ReaderInv
<1>3. /\ t \in WriterStates
      /\ t.highest_contiguous = reader[r].highest_contiguous
      /\ t.range_initialized = (reader[r].range_initialized \/ m.sn = 1)
      /\ t.irrelevant = {}
      /\ t.received = t.pending
      /\ t.pending \subseteq reader[r].pending \cup {m.sn}
      /\ \A n \in t.pending \ reader[r].pending :
           n > reader[r].highest_contiguous
  BY <1>1, <1>2, AfterDataFields DEF BufferInv
<1>4. Received(r, t)
  <2>1. reader[r].highest_contiguous \in Int
    BY <1>2 DEF WriterStates
  <2>2. \A n \in t.pending :
          n <= started /\ r \in addressed[n] /\ n \notin delivered[r]
    <3> SUFFICES ASSUME NEW n \in t.pending
                 PROVE  n <= started /\ r \in addressed[n] /\ n \notin delivered[r]
      OBVIOUS
    <3>1. CASE n \in reader[r].pending
      BY <1>2, <3>1 DEF BufferInv
    <3>2. CASE n \notin reader[r].pending
      <4>1. n = m.sn /\ n > reader[r].highest_contiguous
        BY <1>3, <3>2
      <4>2. n \notin delivered[r]
        BY <1>1, <1>2, <2>1, <4>1 DEF SequenceNumbers
      <4> QED BY <1>1, <4>1, <4>2
    <3> QED BY <3>1, <3>2
  <2>3. BufferInv(r, t)
    BY <1>2, <1>3, <2>2 DEF BufferInv
  <2> QED BY <1>3, <2>1, <2>3 DEF Received
<1> QED BY <1>1, <1>3, <1>4

(* A number the heartbeat passes over is older than the sample it          *)
(* announces, so it is settled; confirmed it cannot be, since the reader   *)
(* has not advanced to it.                                                 *)
LEMMA HeartbeatReceived ==
  ASSUME ProtocolInv, NEW m \in sent, m.type = "HEARTBEAT"
  PROVE  LET t == AfterHeartbeat(reader[m.reader], m.first, m.last) IN
         /\ m.reader \in Readers
         /\ t \in WriterStates
         /\ Received(m.reader, t)
<1> DEFINE r == m.reader
           low == reader[r].highest_contiguous
           t == AfterHeartbeat(reader[r], m.first, m.last)
<1>1. /\ r \in Readers
      /\ m.first \in SequenceNumbers /\ m.last \in SequenceNumbers
      /\ m.first <= started
  BY DEF ProtocolInv, TypeOK, Messages, MessageInv
<1>2. reader[r] \in WriterStates /\ BufferInv(r, reader[r])
  BY <1>1 DEF ProtocolInv, TypeOK, ReaderInv
<1>3. /\ t \in WriterStates
      /\ t.highest_contiguous = low \/ t.highest_contiguous = m.first - 1
      /\ reader[r].range_initialized => t.highest_contiguous >= low
      /\ t.range_initialized
      /\ t.irrelevant = {}
      /\ t.received = t.pending
      /\ t.pending \subseteq reader[r].pending
  <2>1. /\ reader[r].irrelevant = {}
        /\ reader[r].received = reader[r].pending
    BY <1>2 DEF BufferInv
  <2>2. /\ t \in WriterStates
        /\ t.highest_contiguous = low \/ t.highest_contiguous = m.first - 1
        /\ reader[r].range_initialized => t.highest_contiguous >= low
        /\ t.range_initialized
        /\ t.irrelevant = reader[r].irrelevant
        /\ reader[r].received = reader[r].pending => t.received = t.pending
        /\ t.pending \subseteq reader[r].pending
    <3> HIDE DEF r
    <3> QED BY <1>1, <1>2, AfterHeartbeatFields
  <2> HIDE DEF r, t
  <2> QED BY <2>1, <2>2
<1>4. /\ low \in Int /\ t.highest_contiguous \in 0..MaxSequence
      /\ started \in 0..MaxSequence /\ low <= started
  <2>1. started \in 0..MaxSequence
    BY DEF ProtocolInv, TypeOK
  <2>2. low \in 0..MaxSequence /\ low <= started
    BY <1>2 DEF WriterStates, BufferInv
  <2>3. t.highest_contiguous \in 0..MaxSequence
    BY <1>3 DEF WriterStates
  <2> QED BY <2>1, <2>2, <2>3
<1>5. t.highest_contiguous >= low
  BY <1>2, <1>3, <1>4 DEF BufferInv
<1>6. ASSUME NEW n \in (low + 1)..t.highest_contiguous, r \in addressed[n]
      PROVE  outcome[n] = "failed"
  <2>1. n < started /\ low < n
    BY <1>1, <1>3, <1>4 DEF SequenceNumbers
  <2>2. n \in SequenceNumbers
    BY <1>2, <1>4, <2>1, SequenceAssumption DEF SequenceNumbers, WriterStates
  <2>3. outcome[n] \in {"confirmed", "failed"}
    BY <2>1, <2>2 DEF ProtocolInv, WriterInv
  <2>4. outcome[n] # "confirmed"
    BY <1>4, <1>6, <2>1, <2>2 DEF ProtocolInv, AcknowledgedInv, SequenceNumbers
  <2> QED BY <2>3, <2>4
<1>7. BufferInv(r, t)
  BY <1>1, <1>2, <1>3, <1>4 DEF BufferInv, SequenceNumbers
<1>8. Received(r, t)
  BY <1>5, <1>6, <1>7 DEF Received
<1> QED BY <1>1, <1>3, <1>8

LEMMA TakeStep ==
  ASSUME ProtocolInv, TypeOK', NEW r \in Readers, Take(r) PROVE ProtocolInv'
<1> USE DEF ProtocolInv
<1>1. PICK n \in history[r] :
        /\ \A m \in history[r] : n <= m
        /\ history' = [history EXCEPT ![r] = @ \ {n}]
        /\ taken' = [taken EXCEPT ![r] = @ \cup {n}]
        /\ UNCHANGED <<writerVars, sent, reader, delivered>>
  BY DEF Take
<1>2. UNCHANGED <<written, addressed, outcome, started, acknowledged,
                  sent, reader, delivered>>
  BY <1>1 DEF writerVars
<1>3. WriterInv' /\ MessageInv' /\ ReaderInv' /\ NoSilentSkip' /\ AcknowledgedInv'
  BY <1>2 DEF WriterInv, MessageInv, ReaderInv, BufferInv, NoSilentSkip,
              AcknowledgedInv, Delivering
<1>4. HistoryInv'
  <2>1. history[r] \subseteq SequenceNumbers
    BY DEF TypeOK
  <2>2. /\ history'[r] = history[r] \ {n}
        /\ taken'[r] = taken[r] \cup {n}
        /\ \A q \in Readers \ {r} : history'[q] = history[q] /\ taken'[q] = taken[q]
    BY <1>1 DEF TypeOK
  <2> SUFFICES ASSUME NEW q \in Readers PROVE HistoryInv!(q)'
    BY DEF HistoryInv
  <2>3. CASE q = r
    <3>1. \A k \in taken'[r], m \in history'[r] : k < m
      BY <1>1, <2>1, <2>2 DEF HistoryInv, SequenceNumbers
    <3> QED BY <1>2, <2>2, <2>3, <3>1 DEF HistoryInv
  <2>4. CASE q # r
    BY <1>2, <2>2, <2>4 DEF HistoryInv
  <2> QED BY <2>3, <2>4
<1> QED BY <1>3, <1>4

-----------------------------------------------------------------------------
LEMMA InvStep == ProtocolInv /\ [Next]_vars => ProtocolInv'
<1> SUFFICES ASSUME ProtocolInv, [Next]_vars PROVE ProtocolInv'
  OBVIOUS
<1>1. TypeOK /\ TypeOK'
  BY TypeStep DEF ProtocolInv
<1>2. ASSUME NEW S \in SUBSET Readers, Write(S) PROVE ProtocolInv'
  BY <1>1, <1>2, WriteStep
<1>3. CASE Start \/ StartFails
  BY <1>1, <1>3, StartStep
<1>4. ASSUME NEW r \in Readers, RetryTimeout(r) PROVE ProtocolInv'
  BY <1>1, <1>4, GiveUpStep, RetransmitStep DEF RetryTimeout
<1>5. CASE TransportFails
  BY <1>1, <1>5, GiveUpStep DEF TransportFails
<1>6. ASSUME NEW m \in sent, ReceiveAckNack(m) PROVE ProtocolInv'
  <2>1. /\ m.reader \in Readers /\ m.reader \in Waiting
        /\ Delivering /\ m.type = "ACKNACK"
    BY <1>1, <1>6 DEF ReceiveAckNack, TypeOK, Messages
  <2>2. CASE GiveUp \/ Retransmit(m.reader)
    BY <1>1, <2>1, <2>2, GiveUpStep, RetransmitStep
  <2>3. CASE /\ Acknowledges(m.state, started) /\ ~HasRequests(m.state)
             /\ acknowledged' = acknowledged \cup {m.reader}
             /\ outcome' = IF Waiting \subseteq {m.reader}
                           THEN [outcome EXCEPT ![started] = "confirmed"]
                           ELSE outcome
             /\ UNCHANGED <<written, addressed, started, retries, sent, readerVars>>
    BY <1>1, <2>1, <2>3, ConfirmStep
  <2> QED BY <1>6, <2>2, <2>3 DEF ReceiveAckNack
<1>7. ASSUME NEW m \in sent, ReceiveData(m) PROVE ProtocolInv'
  BY <1>1, <1>7, DataReceived, SettleStep DEF ReceiveData
<1>8. ASSUME NEW m \in sent, ReceiveHeartbeat(m) PROVE ProtocolInv'
  BY <1>1, <1>8, HeartbeatReceived, SettleStep DEF ReceiveHeartbeat
<1>9. ASSUME NEW r \in Readers, Take(r) PROVE ProtocolInv'
  BY <1>1, <1>9, TakeStep
<1>10. CASE UNCHANGED vars
  BY <1>1, <1>10
     DEF ProtocolInv, WriterInv, MessageInv, ReaderInv, BufferInv, NoSilentSkip,
         HistoryInv, AcknowledgedInv, Delivering, vars, writerVars, readerVars
<1> QED
  BY <1>2, <1>3, <1>4, <1>5, <1>6, <1>7, <1>8, <1>9, <1>10 DEF Next

(* The inductive invariant holds of every reachable state.                 *)
THEOREM InvariantHolds == Spec => []ProtocolInv
BY InitInv, InvStep, PTL DEF Spec

(* A confirmed sample has reached, or waits for, the application of every  *)
(* reader it was addressed to, for any history depth.                      *)
THEOREM Confirmed == Spec => []ConfirmedReachesApplication
<1>1. ProtocolInv => ConfirmedReachesApplication
  <2> SUFFICES ASSUME ProtocolInv, NEW n \in SequenceNumbers,
                      outcome[n] = "confirmed", NEW r \in addressed[n]
               PROVE  n \in history[r] \cup taken[r]
    BY DEF ConfirmedReachesApplication
  <2>1. r \in Readers
    BY DEF ProtocolInv, TypeOK
  <2>2. n \in 1..reader[r].highest_contiguous
    BY <2>1 DEF ProtocolInv, AcknowledgedInv, SequenceNumbers, TypeOK, WriterStates
  <2>3. n \in delivered[r]
    BY <2>1, <2>2 DEF ProtocolInv, NoSilentSkip
  <2> QED BY <2>1, <2>3 DEF ProtocolInv, HistoryInv
<1> QED BY <1>1, InvariantHolds, PTL

(* A reader passes over a sample addressed to it only if that one failed.  *)
THEOREM NothingSkipped == Spec => []NoSilentSkip
<1>1. ProtocolInv => NoSilentSkip
  BY DEF ProtocolInv
<1> QED BY <1>1, InvariantHolds, PTL

(* No sample is buffered again once it has been handed over.               *)
THEOREM DeliveredOnce == Spec => []AtMostOnce
<1>1. ProtocolInv => AtMostOnce
  BY DEF ProtocolInv, ReaderInv, BufferInv, AtMostOnce
<1> QED BY <1>1, InvariantHolds, PTL

(* Applications take the samples in the order they were written.           *)
THEOREM TakesInOrder == Spec => TakenInOrder
<1> DEFINE Ordered == \A r \in Readers : \A n \in taken'[r] \ taken[r] :
                        \A m \in taken[r] : m < n
<1>1. ProtocolInv /\ [Next]_vars => [Ordered]_vars
  <2> SUFFICES ASSUME ProtocolInv, Next,
                      NEW r \in Readers, NEW n \in taken'[r] \ taken[r],
                      NEW m \in taken[r]
               PROVE  m < n
    OBVIOUS
  <2>1. ASSUME NEW q \in Readers, Take(q) PROVE m < n
    <3>1. n \in history[r]
      BY <2>1 DEF Take, ProtocolInv, TypeOK
    <3> QED BY <3>1 DEF ProtocolInv, HistoryInv
  <2>2. taken' # taken
    OBVIOUS
  <2> QED
    BY <2>1, <2>2 DEF Next, Write, Start, StartFails, RetryTimeout,
       TransportFails, GiveUp, Retransmit, ReceiveAckNack, ReceiveData,
       ReceiveHeartbeat, Settle, readerVars
<1> QED BY <1>1, InvariantHolds, PTL DEF Spec, TakenInOrder

-----------------------------------------------------------------------------
(* The refinement of OrderedTopic.                                         *)

LEMMA ReaderStepRefines ==
  ASSUME ProtocolInv, NEW r \in Readers, NEW s \in WriterStates,
         Received(r, s), Settle(r, s)
  PROVE  \E D \in SUBSET SequenceNumbers : Topic!HandOver(r, D)
<1> USE DEF ProtocolInv
<1>1. PICK n \in 0..MaxSequence :
        /\ SettlesAt(s, n)
        /\ delivered' = [delivered EXCEPT ![r] = @ \cup CommittedBy(s, n)]
        /\ UNCHANGED writerVars
  BY DEF Settle
<1> DEFINE D == CommittedBy(s, n)
           low == reader[r].highest_contiguous
<1>2. /\ s.highest_contiguous \in 0..n
      /\ n <= started
      /\ D = (s.highest_contiguous + 1)..n
      /\ D \subseteq s.pending
  BY <1>1, SettledState DEF Received
<1>3. /\ low \in 0..MaxSequence /\ low <= s.highest_contiguous
      /\ started \in 0..MaxSequence /\ D \subseteq SequenceNumbers
  BY <1>2 DEF Received, TypeOK, WriterStates
<1>4. ASSUME NEW k \in D
      PROVE  /\ Topic!Due(k)
             /\ r \in addressed[k]
             /\ \A m \in delivered[r] : m < k
             /\ \A m \in 1..(k - 1) :
                  r \notin addressed[m] \/ m \in delivered[r] \cup D
                    \/ outcome[m] = "failed"
  <2>1. k \in SequenceNumbers /\ k > s.highest_contiguous /\ k <= started
    BY <1>2, <1>3 DEF SequenceNumbers
  <2>2. Topic!Due(k)
    <3>1. outcome[k] # "unwritten"
      BY <1>3, <2>1 DEF WriterInv, TypeOK, SequenceNumbers
    <3>2. \A m \in 1..(k - 1) : outcome[m] \in {"confirmed", "failed"}
      BY <1>3, <2>1, SequenceAssumption DEF WriterInv, SequenceNumbers
    <3> QED BY <3>1, <3>2 DEF Topic!Due, Topic!Published, Topic!Settled
  <2>3. r \in addressed[k]
    BY <1>2 DEF Received, BufferInv
  <2>4. \A m \in delivered[r] : m < k
    <3>1. delivered[r] \subseteq SequenceNumbers
      BY DEF TypeOK
    <3>2. \A m \in delivered[r] : m <= low
      BY DEF ReaderInv
    <3> QED BY <1>2, <1>3, <2>1, <3>1, <3>2 DEF SequenceNumbers
  <2>5. ASSUME NEW m \in 1..(k - 1), r \in addressed[m]
        PROVE  m \in delivered[r] \cup D \/ outcome[m] = "failed"
    <3>1. CASE m <= low
      BY <1>3, <2>5, <3>1 DEF NoSilentSkip
    <3>2. CASE m > low /\ m <= s.highest_contiguous
      BY <1>2, <1>3, <2>5, <3>2 DEF Received
    <3>3. CASE m > s.highest_contiguous
      BY <1>2, <2>1, <3>3 DEF SequenceNumbers
    <3> QED BY <1>2, <1>3, <3>1, <3>2, <3>3
  <2> QED BY <2>2, <2>3, <2>4, <2>5
<1>5. Topic!HandOver(r, D)
  BY <1>1, <1>4 DEF Topic!HandOver, writerVars
<1> QED BY <1>3, <1>5

LEMMA BeginRefines ==
  ASSUME ProtocolInv, Start \/ StartFails
  PROVE  UNCHANGED Topic!topicVars \/ \E n \in SequenceNumbers : Topic!Fail(n)
<1>1. CASE Start
  BY <1>1 DEF Start, Topic!topicVars, readerVars
<1>2. CASE StartFails
  <2> DEFINE n == started + 1
  <2>1. /\ ~Delivering /\ n <= written /\ UNCHANGED <<addressed, delivered>>
        /\ outcome' = [outcome EXCEPT ![n] = "failed"]
    BY <1>2 DEF StartFails, ProtocolInv, TypeOK, readerVars
  <2>2. n \in SequenceNumbers /\ started \in 0..MaxSequence
    BY <2>1, SequenceAssumption DEF ProtocolInv, TypeOK, SequenceNumbers
  <2>3. outcome[n] = "pending"
    BY <2>1, <2>2, SequenceAssumption
       DEF ProtocolInv, WriterInv, TypeOK, SequenceNumbers
  <2>4. \A m \in 1..(n - 1) : outcome[m] \in {"confirmed", "failed"}
    <3> SUFFICES ASSUME NEW m \in 1..(n - 1)
                 PROVE  outcome[m] \in {"confirmed", "failed"}
      OBVIOUS
    <3>1. m \in SequenceNumbers /\ m <= started /\ m <= written
      BY <2>1, <2>2, SequenceAssumption
         DEF SequenceNumbers, ProtocolInv, TypeOK, WriterInv
    <3>2. CASE m < started
      BY <3>1, <3>2 DEF ProtocolInv, WriterInv
    <3>3. CASE m = started
      <4>1. outcome[m] # "unwritten"
        BY <3>1 DEF ProtocolInv, TypeOK, WriterInv, SequenceNumbers
      <4> QED BY <2>1, <3>1, <3>3, <4>1 DEF Delivering, ProtocolInv, TypeOK, Outcomes
    <3> QED BY <2>2, <3>1, <3>2, <3>3 DEF SequenceNumbers
  <2>5. Topic!Due(n)
    BY <2>3, <2>4 DEF Topic!Due, Topic!Published, Topic!Settled
  <2> QED BY <2>1, <2>2, <2>3, <2>5 DEF Topic!Fail
<1> QED BY <1>1, <1>2

(* The sample being delivered is the one that is due.                      *)
LEMMA CurrentIsDue ==
  ASSUME ProtocolInv, Delivering
  PROVE  started \in SequenceNumbers /\ Topic!Due(started)
<1>1. started \in SequenceNumbers /\ outcome[started] = "pending"
  BY DEF Delivering
<1>2. \A m \in 1..(started - 1) : outcome[m] \in {"confirmed", "failed"}
  BY <1>1, SequenceAssumption DEF ProtocolInv, WriterInv, SequenceNumbers
<1> QED BY <1>1, <1>2 DEF Topic!Due, Topic!Published, Topic!Settled

LEMMA GiveUpRefines ==
  ASSUME ProtocolInv, Delivering, GiveUp
  PROVE  \E n \in SequenceNumbers : Topic!Fail(n)
BY CurrentIsDue DEF Delivering, GiveUp, Topic!Fail, readerVars

LEMMA WriteRefines ==
  ASSUME ProtocolInv, NEW S \in SUBSET Readers, Write(S)
  PROVE  \E n \in SequenceNumbers : Topic!Publish(n, S)
<1>1. /\ written \in 0..MaxSequence /\ written + 1 \in SequenceNumbers
  BY SequenceAssumption DEF ProtocolInv, TypeOK, Write, SequenceNumbers
<1>2. /\ outcome[written + 1] = "unwritten"
      /\ \A m \in 1..written : outcome[m] # "unwritten"
  BY <1>1, SequenceAssumption DEF ProtocolInv, WriterInv, SequenceNumbers
<1>3. Topic!Publish(written + 1, S)
  BY <1>1, <1>2 DEF Write, Topic!Publish, Topic!Published, readerVars
<1> QED BY <1>1, <1>3

LEMMA ConfirmRefines ==
  ASSUME ProtocolInv, ProtocolInv', Delivering,
         outcome' = [outcome EXCEPT ![started] = "confirmed"],
         UNCHANGED <<addressed, readerVars>>
  PROVE  Topic!Confirm(started)
<1>1. started \in SequenceNumbers /\ Topic!Due(started) /\ outcome[started] = "pending"
  BY CurrentIsDue DEF Delivering
<1>2. outcome'[started] = "confirmed"
  BY <1>1 DEF ProtocolInv, TypeOK
<1>3. ASSUME NEW r \in addressed[started] PROVE started \in delivered[r]
  <2>1. r \in Readers
    BY <1>1 DEF ProtocolInv, TypeOK
  <2>2. started \in 1..reader[r].highest_contiguous
    BY <1>1, <1>2, <2>1
       DEF ProtocolInv, AcknowledgedInv, readerVars, SequenceNumbers, TypeOK,
           WriterStates
  <2> QED BY <1>1, <2>1, <2>2 DEF ProtocolInv, NoSilentSkip
<1> QED BY <1>1, <1>3 DEF Topic!Confirm, readerVars

LEMMA RefinementStep ==
  ProtocolInv /\ ProtocolInv' /\ [Next]_vars => [Topic!TopicNext]_Topic!topicVars
<1> SUFFICES ASSUME ProtocolInv, ProtocolInv', [Next]_vars
             PROVE  Topic!TopicNext \/ UNCHANGED Topic!topicVars
  OBVIOUS
<1>1. /\ \A n \in SequenceNumbers, S \in SUBSET Readers :
           Topic!Publish(n, S) => Topic!TopicNext
      /\ \A n \in SequenceNumbers : Topic!Confirm(n) \/ Topic!Fail(n) => Topic!TopicNext
      /\ \A r \in Readers, D \in SUBSET SequenceNumbers :
           Topic!HandOver(r, D) => Topic!TopicNext
  BY DEF Topic!TopicNext, Topic!Samples, SequenceNumbers
<1>2. ASSUME NEW S \in SUBSET Readers, Write(S) PROVE Topic!TopicNext
  BY <1>1, <1>2, WriteRefines
<1>3. CASE Start \/ StartFails
  BY <1>1, <1>3, BeginRefines
<1>4. ASSUME NEW r \in Readers, Retransmit(r) PROVE UNCHANGED Topic!topicVars
  BY <1>4 DEF Retransmit, Topic!topicVars, readerVars
<1>5. ASSUME Delivering, GiveUp PROVE Topic!TopicNext
  BY <1>1, <1>5, GiveUpRefines
<1>6. ASSUME NEW m \in sent, ReceiveAckNack(m)
      PROVE  Topic!TopicNext \/ UNCHANGED Topic!topicVars
  <2>1. m.reader \in Readers /\ Delivering
    BY <1>6 DEF ReceiveAckNack, ProtocolInv, TypeOK, Messages
  <2>2. CASE GiveUp \/ Retransmit(m.reader)
    BY <1>4, <1>5, <2>1, <2>2
  <2>3. CASE /\ outcome' = IF Waiting \subseteq {m.reader}
                           THEN [outcome EXCEPT ![started] = "confirmed"]
                           ELSE outcome
             /\ UNCHANGED <<addressed, readerVars>>
    <3>1. CASE outcome' = outcome
      BY <2>3, <3>1 DEF Topic!topicVars, readerVars
    <3>2. CASE outcome' = [outcome EXCEPT ![started] = "confirmed"]
      BY <1>1, <2>1, <2>3, <3>2, ConfirmRefines, CurrentIsDue
    <3> QED BY <2>3, <3>1, <3>2
  <2> QED BY <1>6, <2>2, <2>3 DEF ReceiveAckNack
<1>7. ASSUME NEW m \in sent, ReceiveData(m) PROVE Topic!TopicNext
  BY <1>1, <1>7, DataReceived, ReaderStepRefines DEF ReceiveData
<1>8. ASSUME NEW m \in sent, ReceiveHeartbeat(m) PROVE Topic!TopicNext
  BY <1>1, <1>8, HeartbeatReceived, ReaderStepRefines DEF ReceiveHeartbeat
<1>9. ASSUME NEW r \in Readers, Take(r) PROVE UNCHANGED Topic!topicVars
  BY <1>9 DEF Take, Topic!topicVars, writerVars
<1>10. CASE UNCHANGED vars
  BY <1>10 DEF vars, Topic!topicVars, writerVars, readerVars
<1> QED
  BY <1>2, <1>3, <1>4, <1>5, <1>6, <1>7, <1>8, <1>9, <1>10
     DEF Next, RetryTimeout, TransportFails

(* The protocol implements the abstract ordered, at-most-once, confirmed   *)
(* topic.                                                                  *)
THEOREM Refinement == Spec => ImplementsTopic
<1>1. Init => Topic!TopicInit
  BY DEF Init, Topic!TopicInit, Topic!Samples, SequenceNumbers
<1> QED
  BY <1>1, InvariantHolds, RefinementStep, PTL
     DEF Spec, ImplementsTopic, Topic!TopicSpec
=============================================================================
