---------------------------- MODULE ReliableReader ----------------------------
(***************************************************************************)
(* One ReliableReader fed by several remote writers, of this library or of *)
(* another RTPS implementation.  ReliableProtocol composes the reader with *)
(* the stop-and-wait ReliableWriter, which announces one sample at a time  *)
(* and never sends a GAP; here any DATA, HEARTBEAT or GAP that the         *)
(* decoders accept may arrive at any time, from any writer: late, twice,   *)
(* or in contradiction to what the writer has said before.                 *)
(*                                                                         *)
(* The ReaderHistory is the real one: a queue shared by all writers, from  *)
(* which the application takes at any time and which evicts its oldest     *)
(* sample when it is full.  A reply that cannot be sent leaves the state   *)
(* as it is after a reply that is lost, so replies are not recorded; what  *)
(* the reply would say is a function of the WriterState (AckNack).         *)
(***************************************************************************)
EXTENDS WriterState, SequencesExt

CONSTANTS Writers,      \* the Guids of the remote writers
          LastSample,   \* bound: LastSample[w], the last number w uses
          HistoryDepth  \* ReaderHistory: depth_, KeepLast

ASSUME DepthAssumption == HistoryDepth \in Nat \ {0}
ASSUME LastAssumption == LastSample \in [Writers -> SequenceNumbers]

VARIABLES
  reader,     \* reader[w]: the WriterState kept for w (writer_state)
  history,    \* ReaderHistory: changes_, a queue of [writer, sn]
  heard,      \* history: heard[w], the numbers of which DATA has arrived
  excused,    \* history: excused[w], all that w has said is not to come, by
              \* HEARTBEAT or GAP
  remembered, \* history: remembered[w], what a GAP said as far as the reader
              \* takes note of it
  delivered,  \* history: delivered[w], all that was added to the history
  last_taken  \* history: last_taken[w], the last sample of w taken

ghosts == <<heard, excused, remembered, delivered, last_taken>>
vars == <<reader, history, ghosts>>

Sample == [writer : Writers, sn : SequenceNumbers]

TypeOK ==
  /\ reader \in [Writers -> WriterStates]
  /\ history \in Seq(Sample) /\ Len(history) <= HistoryDepth
  /\ heard \in [Writers -> SUBSET SequenceNumbers]
  /\ excused \in [Writers -> SUBSET SequenceNumbers]
  /\ remembered \in [Writers -> SUBSET SequenceNumbers]
  /\ delivered \in [Writers -> SUBSET SequenceNumbers]
  /\ last_taken \in [Writers -> 0..MaxSequence]

Init ==
  /\ reader = [w \in Writers |-> NewWriterState]
  /\ history = <<>>
  /\ heard = [w \in Writers |-> {}]
  /\ excused = [w \in Writers |-> {}]
  /\ remembered = [w \in Writers |-> {}]
  /\ delivered = [w \in Writers |-> {}]
  /\ last_taken = [w \in Writers |-> 0]

-----------------------------------------------------------------------------
(* The walk of commit_contiguous hands samples over in ascending order.    *)
InOrder(S) ==
  CHOOSE s \in [1..Cardinality(S) -> S] :
    \A i, j \in 1..Cardinality(S) : i < j => s[i] < s[j]

(* Bug: one sample more than depth_ is kept.                               *)
BugLastOf(q) == SubSeq(q, Larger(1, Len(q) - HistoryDepth), Len(q))

(* ReaderHistory::add for the samples of w numbered S: a sample the queue  *)
(* still holds is refused, the oldest beyond depth_ are dropped.           *)
LastOf(q) == SubSeq(q, Larger(1, Len(q) - HistoryDepth + 1), Len(q))

Added(q, w, S) ==
  LET fresh == {n \in S : [writer |-> w, sn |-> n] \notin ToSet(q)}
  IN  LastOf(q \o [i \in 1..Cardinality(fresh) |->
                     [writer |-> w, sn |-> InOrder(fresh)[i]]])

(* The common end of the handlers: commit_contiguous and the reply.        *)
Settle(w, s) ==
  \E n \in 0..MaxSequence :
    /\ SettlesAt(s, n)
    /\ reader' = [reader EXCEPT ![w] = AfterCommit(s, n)]
    /\ history' = Added(history, w, CommittedBy(s, n))
    /\ delivered' = [delivered EXCEPT ![w] = @ \cup CommittedBy(s, n)]

ReceiveData(w, sn) ==
  /\ Settle(w, AfterData(reader[w], sn))
  /\ heard' = [heard EXCEPT ![w] = @ \cup {sn}]
  /\ UNCHANGED <<excused, remembered, last_taken>>

(* The decoder lets through 1 <= first <= last.                            *)
ReceiveHeartbeat(w, first, last) ==
  /\ first <= last
  /\ Settle(w, AfterHeartbeat(reader[w], first, last))
  /\ excused' = [excused EXCEPT ![w] = @ \cup 1..(first - 1)]
  /\ UNCHANGED <<heard, remembered, last_taken>>

(* gapStart = start, bitmapBase = base >= start, bits: what is set in it.  *)
(* Of the range the reader takes note up to MaxBits numbers; what it       *)
(* passes needs no note.                                                   *)
ReceiveGap(w, start, base, bits) ==
  LET s == AfterGap(reader[w], start, base - 1, bits) IN
  /\ start <= base
  /\ \A n \in bits : base <= n /\ n < base + MaxBits
  /\ Settle(w, s)
  /\ excused' = [excused EXCEPT ![w] = @ \cup bits \cup start..(base - 1)]
  /\ remembered' = [remembered EXCEPT ![w] = @ \cup bits \cup
       {n \in start..(base - 1) : n < start + MaxBits \/ n <= s.highest_contiguous}]
  /\ UNCHANGED <<heard, last_taken>>

Take ==
  /\ history # <<>>
  /\ last_taken' = [last_taken EXCEPT ![Head(history).writer] = Head(history).sn]
  /\ history' = Tail(history)
  /\ UNCHANGED <<reader, heard, excused, remembered, delivered>>

Next ==
  \/ \E w \in Writers :
       \/ \E sn \in 1..LastSample[w] : ReceiveData(w, sn)
       \/ \E first, last \in 1..LastSample[w] : ReceiveHeartbeat(w, first, last)
       \/ \E start \in 1..LastSample[w], base \in 1..(LastSample[w] + 1),
            bits \in SUBSET (1..LastSample[w]) : ReceiveGap(w, start, base, bits)
  \/ Take

Spec == Init /\ [][Next]_vars

-----------------------------------------------------------------------------
(* The reader advances past a number only with its sample delivered, or on *)
(* the word of the writer that it is not to come.                          *)
SkipsOnlyExcused ==
  \A w \in Writers : \A n \in 1..reader[w].highest_contiguous :
    n \in delivered[w] \cup excused[w]

(* The reader never sits on a sample it could deliver, whatever the order  *)
(* in which DATA, HEARTBEAT and what it remembers of GAPs filled the hole  *)
(* before it.  A number it has not remembered of a long GAP does hold it   *)
(* up: the order matters then, for the same GAP would have been passed at  *)
(* once if it had come when the reader was at its start.                   *)
NothingWithheld ==
  \A w \in Writers :
    reader[w].range_initialized =>
      reader[w].highest_contiguous + 1 \notin heard[w] \cup remembered[w]

(* A reply acknowledges only what has arrived or what the writer excused.  *)
AcksHonestly ==
  \A w \in Writers : \A n \in SequenceNumbers :
    Acknowledges(AckNack(reader[w]), n) => n \in heard[w] \cup excused[w]

(* What a reply has acknowledged, or would have, later ones do too: a      *)
(* writer may rely on any ACKNACK that reaches it, however old, although   *)
(* HEARTBEAT and GAP move the range and throw away what is buffered.       *)
AcksAreKept ==
  [][\A w \in Writers : \A n \in SequenceNumbers :
       Acknowledges(AckNack(reader[w]), n) => Acknowledges(AckNack(reader'[w]), n)]_vars

(* No sample is delivered that a GAP has called irrelevant, even if its    *)
(* DATA is in the buffer already or arrives afterwards; of a range ahead   *)
(* of the reader this holds for the first MaxBits numbers only: a sample   *)
(* further ahead, if it has arrived, is delivered although the GAP named   *)
(* it (ReliableEndpoint.cpp:811).                                          *)
GapIsFinal ==
  [][\A w \in Writers : \A n \in delivered'[w] \ delivered[w] : n \notin remembered'[w]]_vars

(* Each sample the application takes is a later one of its writer than any *)
(* it has taken before, through the shared queue and its evictions: in     *)
(* ascending order and once.                                               *)
TakenInOrder ==
  [][Take => Head(history).sn > last_taken[Head(history).writer]]_vars
=============================================================================
