----------------------------- MODULE WriterState -----------------------------
(***************************************************************************)
(* What a ReliableReader remembers of one remote writer                    *)
(* (ReliableReader::WriterState) and the pure part of its three receive    *)
(* handlers.  The receive path is always the same: change the state for    *)
(* the submessage, commit what has become contiguous to the ReaderHistory, *)
(* answer with an ACKNACK computed from the result.  Here are the three    *)
(* parts; ReliableProtocol and ReliableReader put them together.           *)
(*                                                                         *)
(* Samples are their sequence numbers.  `pending' (a map from sequence     *)
(* number to CacheChange in the code) is therefore the set of its keys.    *)
(***************************************************************************)
EXTENDS Integers

CONSTANTS MaxSequence,  \* bound: the largest sequence number a writer uses
          MaxBits       \* sequence_number_set_max_bits (256 in the code)

ASSUME SequenceAssumption == MaxSequence \in Nat \ {0}
ASSUME BitsAssumption == MaxBits \in Nat \ {0}

SequenceNumbers == 1..MaxSequence

WriterStates ==
  [highest_contiguous : 0..MaxSequence,
   last_announced     : 0..MaxSequence,
   range_initialized  : BOOLEAN,
   received           : SUBSET SequenceNumbers,
   irrelevant         : SUBSET SequenceNumbers,
   pending            : SUBSET SequenceNumbers]

NewWriterState ==
  [highest_contiguous |-> 0,
   last_announced     |-> 0,
   range_initialized  |-> FALSE,
   received           |-> {},
   irrelevant         |-> {},
   pending            |-> {}]

Larger(m, n) == IF m > n THEN m ELSE n

-----------------------------------------------------------------------------
(* Definitions named Bug... are not part of the model: each is a mistake    *)
(* one could make in the definition that follows it.                       *)

(* ... late copies are not told from new samples.                          *)
BugDataAgain(s, sn) ==
  LET new == IF sn \notin s.received THEN {sn} ELSE {}
  IN  [s EXCEPT !.range_initialized = @ \/ sn = 1,
                !.last_announced    = Larger(@, sn),
                !.received          = @ \cup new,
                !.pending           = @ \cup new]

(***************************************************************************)
(* The state after a DATA submessage, before the commit.  Sequence number  *)
(* 1 fixes the range: nothing can precede it.                              *)
(***************************************************************************)
AfterData(s, sn) ==
  LET new == IF sn > s.highest_contiguous /\ sn \notin s.received
             THEN {sn} ELSE {}
  IN  [s EXCEPT !.range_initialized = @ \/ sn = 1,
                !.last_announced    = Larger(@, sn),
                !.received          = @ \cup new,
                !.pending           = @ \cup new]

(* ... highest_contiguous is the first number, not the one before it.      *)
BugHeartbeatPastFirst(s, first, last) ==
  LET jump == ~s.range_initialized \/ first > s.highest_contiguous + 1
  IN  [s EXCEPT !.range_initialized  = TRUE,
                !.highest_contiguous = IF jump THEN first ELSE @,
                !.last_announced     = Larger(@, last)]

(* ... a late heartbeat moves the reader back.                             *)
BugHeartbeatMovesBack(s, first, last) ==
  [s EXCEPT !.range_initialized  = TRUE,
            !.highest_contiguous = first - 1,
            !.last_announced     = Larger(@, last)]

(* ... the first available sample is purged with those before it.          *)
BugHeartbeatPurgesFirst(s, first, last) ==
  LET jump   == ~s.range_initialized \/ first > s.highest_contiguous + 1
      purged == IF jump THEN {n \in s.pending : n <= first} ELSE {}
  IN  [s EXCEPT !.range_initialized  = TRUE,
                !.highest_contiguous = IF jump THEN first - 1 ELSE @,
                !.received           = @ \ purged,
                !.pending            = @ \ purged,
                !.last_announced     = Larger(@, last)]

(***************************************************************************)
(* The state after a HEARTBEAT announcing first..last, before the commit.  *)
(* The first heartbeat sets the range (and purges nothing); a later one    *)
(* whose first lies beyond the next expected number gives up on the        *)
(* numbers in between.                                                     *)
(***************************************************************************)
AfterHeartbeat(s, first, last) ==
  LET jump   == ~s.range_initialized \/ first > s.highest_contiguous + 1
      purged == IF s.range_initialized /\ first > s.highest_contiguous + 1
                THEN {n \in s.pending : n < first} ELSE {}
  IN  [s EXCEPT !.range_initialized  = TRUE,
                !.highest_contiguous = IF jump THEN first - 1 ELSE @,
                !.received           = @ \ purged,
                !.pending            = @ \ purged,
                !.last_announced     = Larger(@, last)]

(* ... bitmapBase is taken for the last number of the range.               *)
BugGapToBase(s, start, end, bits) ==
  LET next == s.highest_contiguous + 1
      closes == start <= next /\ end >= next
  IN  IF closes
      THEN [s EXCEPT !.range_initialized  = TRUE,
                     !.highest_contiguous = end + 1,
                     !.received           = {n \in @ : n > end},
                     !.pending            = {n \in @ : n > end},
                     !.irrelevant         = @ \cup bits]
      ELSE [s EXCEPT !.irrelevant = @ \cup bits]

(* ... a late GAP, all of whose range is behind, moves the reader back.    *)
BugGapMovesBack(s, start, end, bits) ==
  IF start <= s.highest_contiguous + 1
  THEN [s EXCEPT !.range_initialized  = TRUE,
                 !.highest_contiguous = end,
                 !.received           = {n \in @ : n > end},
                 !.pending            = {n \in @ : n > end},
                 !.irrelevant         = @ \cup bits]
  ELSE [s EXCEPT !.irrelevant = @ \cup bits]

(* ... of a range ahead of the reader the last number is not remembered.   *)
BugGapForgetsLast(s, start, end, bits) ==
  LET next   == s.highest_contiguous + 1
      closes == start <= next /\ end >= next
  IN  IF closes
      THEN [s EXCEPT !.range_initialized  = TRUE,
                     !.highest_contiguous = end,
                     !.received           = {n \in @ : n > end},
                     !.pending            = {n \in @ : n > end},
                     !.irrelevant         = @ \cup bits]
      ELSE [s EXCEPT !.irrelevant = @ \cup bits \cup
                       {n \in start..(end - 1) : n <= start + MaxBits - 1}]

(***************************************************************************)
(* The state after a GAP, before the commit: start..end is the range       *)
(* before the bitmap, bits the numbers set in the bitmap.  A range that    *)
(* touches the next expected number is skipped at once, any other one is   *)
(* remembered, at most MaxBits numbers of it.                              *)
(***************************************************************************)
AfterGap(s, start, end, bits) ==
  LET next   == s.highest_contiguous + 1
      closes == start <= next /\ end >= next
      purged == IF closes THEN {n \in s.pending : n <= end} ELSE {}
      kept   == IF closes THEN {}
                ELSE {n \in start..end : n <= start + MaxBits - 1}
  IN  [s EXCEPT !.range_initialized  = @ \/ closes,
                !.highest_contiguous = IF closes THEN end ELSE @,
                !.received           = @ \ purged,
                !.pending            = @ \ purged,
                !.irrelevant         = @ \cup kept \cup bits]

-----------------------------------------------------------------------------
(***************************************************************************)
(* commit_contiguous walks up from highest_contiguous as long as the next  *)
(* number is pending or irrelevant.  CommitsTo(s, n) says that it stops at *)
(* n; the handlers skip it while the range is unknown.                     *)
(***************************************************************************)
CommitsTo(s, n) ==
  /\ n >= s.highest_contiguous
  /\ (s.highest_contiguous + 1)..n \subseteq s.pending \cup s.irrelevant
  /\ n + 1 \notin s.pending \cup s.irrelevant

SettlesAt(s, n) ==
  IF s.range_initialized THEN CommitsTo(s, n) ELSE n = s.highest_contiguous

(* ... pending is looked up before irrelevant.                             *)
BugCommitIrrelevant(s, n) == s.pending \cap ((s.highest_contiguous + 1)..n)

(* The samples the walk hands to the ReaderHistory: irrelevant wins.       *)
CommittedBy(s, n) ==
  (s.pending \ s.irrelevant) \cap ((s.highest_contiguous + 1)..n)

AfterCommit(s, n) ==
  LET walked == (s.highest_contiguous + 1)..n
  IN  [s EXCEPT !.highest_contiguous = n,
                !.received           = @ \ walked,
                !.irrelevant         = @ \ walked,
                !.pending            = @ \ walked]

-----------------------------------------------------------------------------
(***************************************************************************)
(* send_acknack: base is the next expected number; the bitmap covers the   *)
(* numbers from base up to the last known one, at most MaxBits of them,    *)
(* and requests those that are neither received nor irrelevant.  An        *)
(* ACKNACK is the record of its base and of these two sets.                *)
(***************************************************************************)
Known(s) ==
  {n \in SequenceNumbers : n <= s.last_announced \/ \E p \in s.pending : n <= p}

(* ... the loop over the bitmap stops before its last bit.                 *)
BugAckNackLastBit(s) ==
  LET covered == {n \in Known(s) : /\ n > s.highest_contiguous
                                   /\ n <= s.highest_contiguous + MaxBits}
  IN  [base      |-> s.highest_contiguous + 1,
       covered   |-> covered,
       requested |-> {n \in covered \ (s.received \cup s.irrelevant) :
                        n + 1 \in covered}]

AckNack(s) ==
  LET covered == {n \in Known(s) : /\ n > s.highest_contiguous
                                   /\ n <= s.highest_contiguous + MaxBits}
  IN  [base      |-> s.highest_contiguous + 1,
       covered   |-> covered,
       requested |-> covered \ (s.received \cup s.irrelevant)]

AckNacks ==
  [base      : 1..(MaxSequence + 1),
   covered   : SUBSET SequenceNumbers,
   requested : SUBSET SequenceNumbers]

(* ... the base itself counts as acknowledged; requests are not looked at. *)
BugAcknowledgesBase(a, sn) == sn <= a.base \/ sn \in a.covered \ a.requested
BugNoRequests(a) == FALSE

(* acknack_acknowledges, acknack_has_requests: how a writer reads it.      *)
Acknowledges(a, sn) == sn < a.base \/ sn \in a.covered \ a.requested

HasRequests(a) == a.requested # {}
=============================================================================
