------------------------- MODULE ReliableReader_proofs -------------------------
(***************************************************************************)
(* Proofs about ReliableReader: what it keeps of a writer agrees with what *)
(* the writer has said, in whatever order and as often as it said it, and  *)
(* the shared history gives the samples of each writer out in order.  For  *)
(* any writers, bitmap width, history depth and numbers of samples.        *)
(***************************************************************************)
EXTENDS ReliableReader, FiniteSetTheorems, WellFoundedInduction, TLAPS

-----------------------------------------------------------------------------
(* The inductive invariant, in parts.                                      *)

(* What holds of a WriterState s between any two changes of it, when DATA  *)
(* has arrived for the numbers H, the reader has noted T from GAPs, the    *)
(* writer has excused E, and D is delivered: above highest_contiguous what *)
(* arrived is pending and what was noted is irrelevant, below it nothing   *)
(* is missing without a reason.                                            *)
Faithful(s, H, T, E, D) ==
  /\ s.received = s.pending
  /\ s.pending \subseteq H
  /\ \A n \in H : n > s.highest_contiguous => n \in s.pending
  /\ s.irrelevant \subseteq T /\ T \subseteq E
  /\ \A n \in T : n > s.highest_contiguous => n \in s.irrelevant
  /\ ~s.range_initialized => s.highest_contiguous = 0
  /\ 1..s.highest_contiguous \subseteq D \cup E
  /\ D \subseteq H
  /\ \A n \in D : n <= s.highest_contiguous

FaithfulInv ==
  \A w \in Writers :
    Faithful(reader[w], heard[w], remembered[w], excused[w], delivered[w])

(* The history holds samples of a writer in order, none of them taken.     *)
Ordered(q) ==
  \A i, j \in 1..Len(q) :
    i < j /\ q[i].writer = q[j].writer => q[i].sn < q[j].sn

HistoryInv ==
  /\ Ordered(history)
  /\ \A i \in 1..Len(history) :
       LET m == history[i]
       IN  last_taken[m.writer] < m.sn /\ m.sn <= reader[m.writer].highest_contiguous
  /\ \A w \in Writers : last_taken[w] <= reader[w].highest_contiguous

ReaderInv == TypeOK /\ FaithfulInv /\ NothingWithheld /\ HistoryInv

-----------------------------------------------------------------------------
(* What the handlers do to the WriterState.                                *)

LEMMA AfterDataFields ==
  ASSUME NEW s \in WriterStates, NEW sn \in SequenceNumbers
  PROVE  LET t   == AfterData(s, sn)
             new == IF sn > s.highest_contiguous /\ sn \notin s.received
                    THEN {sn} ELSE {}
         IN  /\ t \in WriterStates
             /\ t.highest_contiguous = s.highest_contiguous
             /\ t.range_initialized = (s.range_initialized \/ sn = 1)
             /\ t.irrelevant = s.irrelevant
             /\ t.received = s.received \cup new
             /\ t.pending = s.pending \cup new
<1>1. Larger(s.last_announced, sn) \in 0..MaxSequence
  BY DEF Larger, WriterStates, SequenceNumbers
<1> QED BY <1>1 DEF AfterData, WriterStates, SequenceNumbers

LEMMA AfterHeartbeatFields ==
  ASSUME NEW s \in WriterStates,
         NEW first \in SequenceNumbers, NEW last \in SequenceNumbers
  PROVE  LET t      == AfterHeartbeat(s, first, last)
             beyond == first > s.highest_contiguous + 1
             purged == IF s.range_initialized /\ beyond
                       THEN {n \in s.pending : n < first} ELSE {}
         IN  /\ t \in WriterStates
             /\ t.highest_contiguous = IF ~s.range_initialized \/ beyond
                                       THEN first - 1 ELSE s.highest_contiguous
             /\ t.range_initialized
             /\ t.irrelevant = s.irrelevant
             /\ t.received = s.received \ purged
             /\ t.pending = s.pending \ purged
<1> DEFINE t      == AfterHeartbeat(s, first, last)
           beyond == first > s.highest_contiguous + 1
           purged == IF s.range_initialized /\ beyond
                     THEN {n \in s.pending : n < first} ELSE {}
<1>1. Larger(s.last_announced, last) \in 0..MaxSequence
  BY DEF Larger, WriterStates, SequenceNumbers
<1>2. /\ t.highest_contiguous = IF ~s.range_initialized \/ beyond
                                THEN first - 1 ELSE s.highest_contiguous
      /\ t.last_announced = Larger(s.last_announced, last)
      /\ t.range_initialized
      /\ t.irrelevant = s.irrelevant
      /\ t.received = s.received \ purged
      /\ t.pending = s.pending \ purged
  BY DEF AfterHeartbeat, WriterStates
<1>3. /\ t.highest_contiguous \in 0..MaxSequence
      /\ t.received \in SUBSET SequenceNumbers
      /\ t.pending \in SUBSET SequenceNumbers
  BY <1>2, SequenceAssumption DEF WriterStates, SequenceNumbers
<1>4. t = [s EXCEPT !.range_initialized  = TRUE,
                    !.highest_contiguous = t.highest_contiguous,
                    !.received           = t.received,
                    !.pending            = t.pending,
                    !.last_announced     = t.last_announced]
  BY <1>2, Zenon DEF AfterHeartbeat
<1>5. t \in WriterStates
  <2> HIDE DEF t, purged, beyond
  <2> QED BY <1>1, <1>2, <1>3, <1>4 DEF WriterStates
<1> QED BY <1>2, <1>5

LEMMA AfterGapFields ==
  ASSUME NEW s \in WriterStates, NEW start \in SequenceNumbers,
         NEW end \in 0..MaxSequence, NEW bits \in SUBSET SequenceNumbers
  PROVE  LET t      == AfterGap(s, start, end, bits)
             next   == s.highest_contiguous + 1
             closes == start <= next /\ end >= next
             purged == IF closes THEN {n \in s.pending : n <= end} ELSE {}
             kept   == IF closes THEN {}
                       ELSE {n \in start..end : n <= start + MaxBits - 1}
         IN  /\ t \in WriterStates
             /\ t.highest_contiguous = IF closes THEN end ELSE s.highest_contiguous
             /\ t.range_initialized = (s.range_initialized \/ closes)
             /\ t.irrelevant = s.irrelevant \cup kept \cup bits
             /\ t.received = s.received \ purged
             /\ t.pending = s.pending \ purged
<1> DEFINE t      == AfterGap(s, start, end, bits)
           next   == s.highest_contiguous + 1
           closes == start <= next /\ end >= next
           purged == IF closes THEN {n \in s.pending : n <= end} ELSE {}
           kept   == IF closes THEN {}
                     ELSE {n \in start..end : n <= start + MaxBits - 1}
<1>1. /\ t.highest_contiguous = IF closes THEN end ELSE s.highest_contiguous
      /\ t.range_initialized = (s.range_initialized \/ closes)
      /\ t.irrelevant = s.irrelevant \cup kept \cup bits
      /\ t.received = s.received \ purged
      /\ t.pending = s.pending \ purged
      /\ t.last_announced = s.last_announced
  BY DEF AfterGap, WriterStates
<1>2. kept \in SUBSET SequenceNumbers
  BY SequenceAssumption DEF SequenceNumbers
<1>3. /\ t.highest_contiguous \in 0..MaxSequence
      /\ t.range_initialized \in BOOLEAN
      /\ t.irrelevant \in SUBSET SequenceNumbers
      /\ t.received \in SUBSET SequenceNumbers
      /\ t.pending \in SUBSET SequenceNumbers
  BY <1>1, <1>2, SequenceAssumption DEF WriterStates, SequenceNumbers
<1>4. t = [s EXCEPT !.range_initialized  = t.range_initialized,
                    !.highest_contiguous = t.highest_contiguous,
                    !.received           = t.received,
                    !.pending            = t.pending,
                    !.irrelevant         = t.irrelevant]
  BY <1>1 DEF AfterGap, WriterStates
<1>5. t \in WriterStates
  <2> HIDE DEF t, purged, closes, kept, next
  <2> QED BY <1>3, <1>4 DEF WriterStates
<1> QED BY <1>1, <1>5

LEMMA AfterCommitFields ==
  ASSUME NEW s \in WriterStates, NEW n \in 0..MaxSequence
  PROVE  LET t      == AfterCommit(s, n)
             walked == (s.highest_contiguous + 1)..n
         IN  /\ t \in WriterStates
             /\ t.highest_contiguous = n
             /\ t.range_initialized = s.range_initialized
             /\ t.irrelevant = s.irrelevant \ walked
             /\ t.received = s.received \ walked
             /\ t.pending = s.pending \ walked
BY DEF AfterCommit, WriterStates, SequenceNumbers

-----------------------------------------------------------------------------
(* Each of the three handlers, and the commit after it, keeps the state    *)
(* faithful to what has been said so far.                                  *)

LEMMA DataKeeps ==
  ASSUME NEW s \in WriterStates, NEW sn \in SequenceNumbers,
         NEW H \in SUBSET SequenceNumbers, NEW T \in SUBSET SequenceNumbers,
         NEW E \in SUBSET SequenceNumbers, NEW D \in SUBSET SequenceNumbers,
         Faithful(s, H, T, E, D)
  PROVE  LET t == AfterData(s, sn) IN
         /\ Faithful(t, H \cup {sn}, T, E, D)
         /\ t.highest_contiguous >= s.highest_contiguous
<1> DEFINE t == AfterData(s, sn)
<1>1. /\ s.highest_contiguous \in Nat /\ s.pending \subseteq Nat /\ sn \in Nat
      /\ H \subseteq Nat /\ T \subseteq Nat /\ D \subseteq Nat
  BY DEF WriterStates, SequenceNumbers
<1>2. s.received = s.pending
  BY DEF Faithful
<1>3. /\ t.highest_contiguous = s.highest_contiguous
      /\ t.range_initialized = (s.range_initialized \/ sn = 1)
      /\ t.irrelevant = s.irrelevant
      /\ t.received = t.pending
      /\ t.pending = s.pending \cup
           (IF sn > s.highest_contiguous /\ sn \notin s.pending THEN {sn} ELSE {})
  <2> DEFINE new == IF sn > s.highest_contiguous /\ sn \notin s.received
                    THEN {sn} ELSE {}
  <2>1. /\ t.highest_contiguous = s.highest_contiguous
        /\ t.range_initialized = (s.range_initialized \/ sn = 1)
        /\ t.irrelevant = s.irrelevant
        /\ t.received = s.received \cup new
        /\ t.pending = s.pending \cup new
    BY AfterDataFields
  <2> HIDE DEF t
  <2> QED BY <1>2, <2>1
<1> HIDE DEF t
<1>4. Faithful(t, H \cup {sn}, T, E, D)
  BY <1>1, <1>3 DEF Faithful
<1> QED BY <1>1, <1>3, <1>4 DEF t

LEMMA HeartbeatKeeps ==
  ASSUME NEW s \in WriterStates,
         NEW first \in SequenceNumbers, NEW last \in SequenceNumbers,
         NEW H \in SUBSET SequenceNumbers, NEW T \in SUBSET SequenceNumbers,
         NEW E \in SUBSET SequenceNumbers, NEW D \in SUBSET SequenceNumbers,
         Faithful(s, H, T, E, D)
  PROVE  LET t == AfterHeartbeat(s, first, last) IN
         /\ Faithful(t, H, T, E \cup 1..(first - 1), D)
         /\ t.highest_contiguous >= s.highest_contiguous
<1> DEFINE t == AfterHeartbeat(s, first, last)
           beyond == first > s.highest_contiguous + 1
<1>1. /\ s.highest_contiguous \in Nat /\ first \in Nat \ {0}
      /\ s.pending \subseteq Nat /\ H \subseteq Nat /\ T \subseteq Nat /\ D \subseteq Nat
  BY DEF WriterStates, SequenceNumbers
<1>0. s.received = s.pending
  BY DEF Faithful
<1>2. /\ t.highest_contiguous = IF ~s.range_initialized \/ beyond
                                THEN first - 1 ELSE s.highest_contiguous
      /\ t.range_initialized
      /\ t.irrelevant = s.irrelevant
      /\ t.received = t.pending
      /\ t.pending = s.pending \
           (IF s.range_initialized /\ beyond THEN {n \in s.pending : n < first} ELSE {})
  <2> DEFINE purged == IF s.range_initialized /\ beyond
                       THEN {n \in s.pending : n < first} ELSE {}
  <2>1. /\ t.highest_contiguous = IF ~s.range_initialized \/ beyond
                                  THEN first - 1 ELSE s.highest_contiguous
        /\ t.range_initialized
        /\ t.irrelevant = s.irrelevant
        /\ t.received = s.received \ purged
        /\ t.pending = s.pending \ purged
    BY AfterHeartbeatFields
  <2> HIDE DEF t, beyond
  <2> QED BY <1>0, <2>1
<1>3. t.highest_contiguous >= s.highest_contiguous /\ t.highest_contiguous \in Nat
  BY <1>1, <1>2 DEF Faithful
<1>4. \A n \in H : n > t.highest_contiguous => n \in t.pending
  <2> SUFFICES ASSUME NEW n \in H, n > t.highest_contiguous PROVE n \in t.pending
    OBVIOUS
  <2>1. n > s.highest_contiguous /\ n \in s.pending
    BY <1>1, <1>3 DEF Faithful
  <2> QED BY <1>1, <1>2, <1>3, <2>1
<1> HIDE DEF t, beyond
<1>5. \A n \in T : n > t.highest_contiguous => n \in t.irrelevant
  <2> SUFFICES ASSUME NEW n \in T, n > t.highest_contiguous PROVE n \in t.irrelevant
    OBVIOUS
  <2>1. n > s.highest_contiguous
    BY <1>1, <1>3
  <2> QED BY <1>2, <2>1 DEF Faithful
<1>6. 1..t.highest_contiguous \subseteq D \cup (E \cup 1..(first - 1))
  BY <1>1, <1>2, <1>3 DEF Faithful
<1>7. \A n \in D : n <= t.highest_contiguous
  BY <1>1, <1>2, <1>3 DEF Faithful
<1>8. Faithful(t, H, T, E \cup 1..(first - 1), D)
  BY <1>2, <1>4, <1>5, <1>6, <1>7 DEF Faithful
<1> QED BY <1>3, <1>8 DEF t

LEMMA GapKeeps ==
  ASSUME NEW s \in WriterStates, NEW start \in SequenceNumbers,
         NEW base \in 1..(MaxSequence + 1), start <= base,
         NEW bits \in SUBSET SequenceNumbers,
         NEW H \in SUBSET SequenceNumbers, NEW T \in SUBSET SequenceNumbers,
         NEW E \in SUBSET SequenceNumbers, NEW D \in SUBSET SequenceNumbers,
         Faithful(s, H, T, E, D)
  PROVE  LET t     == AfterGap(s, start, base - 1, bits)
             noted == {n \in start..(base - 1) :
                         n < start + MaxBits \/ n <= t.highest_contiguous}
         IN  /\ Faithful(t, H, T \cup bits \cup noted,
                         E \cup bits \cup start..(base - 1), D)
             /\ t.highest_contiguous >= s.highest_contiguous
<1> DEFINE end    == base - 1
           t      == AfterGap(s, start, end, bits)
           near   == {n \in start..end : n < start + MaxBits}
           next   == s.highest_contiguous + 1
           closes == start <= next /\ end >= next
           noted  == {n \in start..end : n < start + MaxBits \/ n <= t.highest_contiguous}
           TT     == T \cup bits \cup noted
           EE     == E \cup bits \cup start..end
<1>1. /\ s.highest_contiguous \in Nat /\ s.pending \subseteq Nat
      /\ H \subseteq Nat /\ T \subseteq Nat /\ D \subseteq Nat /\ bits \subseteq Nat
      /\ start \in Nat \ {0} /\ end \in 0..MaxSequence /\ end \in Nat
      /\ MaxBits \in Nat
  BY SequenceAssumption, BitsAssumption DEF WriterStates, SequenceNumbers
<1>2. s.received = s.pending
  BY DEF Faithful
<1>3. /\ t.highest_contiguous = IF closes THEN end ELSE s.highest_contiguous
      /\ t.range_initialized = (s.range_initialized \/ closes)
      /\ t.irrelevant = s.irrelevant \cup (IF closes THEN {} ELSE near) \cup bits
      /\ t.received = t.pending
      /\ t.pending = s.pending \ (IF closes THEN {n \in s.pending : n <= end} ELSE {})
  <2> DEFINE purged == IF closes THEN {n \in s.pending : n <= end} ELSE {}
             kept   == IF closes THEN {}
                       ELSE {n \in start..end : n <= start + MaxBits - 1}
  <2>1. /\ t.highest_contiguous = IF closes THEN end ELSE s.highest_contiguous
        /\ t.range_initialized = (s.range_initialized \/ closes)
        /\ t.irrelevant = s.irrelevant \cup kept \cup bits
        /\ t.received = s.received \ purged
        /\ t.pending = s.pending \ purged
    <3> HIDE DEF end
    <3> QED BY <1>1, AfterGapFields
  <2>2. kept = IF closes THEN {} ELSE near
    <3>1. \A n \in start..end : n <= start + MaxBits - 1 <=> n < start + MaxBits
      BY <1>1
    <3> HIDE DEF closes, end
    <3> QED BY <3>1
  <2> HIDE DEF t, closes, near, kept
  <2> QED BY <1>2, <2>1, <2>2
<1>4. t.highest_contiguous >= s.highest_contiguous /\ t.highest_contiguous \in Nat
  BY <1>1, <1>3
<1> HIDE DEF t, end
<1>5. \A n \in H : n > t.highest_contiguous => n \in t.pending
  <2> SUFFICES ASSUME NEW n \in H, n > t.highest_contiguous PROVE n \in t.pending
    OBVIOUS
  <2>1. n > s.highest_contiguous /\ n \in s.pending
    BY <1>1, <1>4 DEF Faithful
  <2> QED BY <1>1, <1>3, <1>4, <2>1
<1>6. \A n \in TT : n > t.highest_contiguous => n \in t.irrelevant
  <2> SUFFICES ASSUME NEW n \in TT, n > t.highest_contiguous PROVE n \in t.irrelevant
    OBVIOUS
  <2>1. CASE n \in T
    <3>1. n \in Nat
      BY <1>1, <2>1
    <3>2. n > s.highest_contiguous
      BY <1>1, <1>4, <3>1
    <3> QED BY <1>3, <2>1, <3>2 DEF Faithful
  <2>2. CASE n \in bits
    BY <1>3, <2>2
  <2>3. CASE n \in noted
    <3>1. n \in near /\ ~closes
      BY <1>1, <1>3, <1>4, <2>3
    <3> QED BY <1>3, <3>1
  <2> QED BY <2>1, <2>2, <2>3
<1>7. 1..t.highest_contiguous \subseteq D \cup EE
  <2> SUFFICES ASSUME NEW n \in 1..t.highest_contiguous PROVE n \in D \cup EE
    OBVIOUS
  <2>1. CASE n <= s.highest_contiguous
    BY <1>1, <1>4, <2>1 DEF Faithful
  <2>2. CASE n > s.highest_contiguous
    BY <1>1, <1>3, <1>4, <2>2
  <2> QED BY <1>1, <1>4, <2>1, <2>2
<1>8. \A n \in D : n <= t.highest_contiguous
  BY <1>1, <1>4 DEF Faithful
<1>9. /\ t.pending \subseteq H /\ t.irrelevant \subseteq TT /\ TT \subseteq EE
      /\ ~t.range_initialized => t.highest_contiguous = 0
      /\ D \subseteq H
  BY <1>3 DEF Faithful
<1>10. Faithful(t, H, TT, EE, D)
  <2> HIDE DEF TT, EE
  <2> QED BY <1>3, <1>5, <1>6, <1>7, <1>8, <1>9 DEF Faithful
<1> QED BY <1>4, <1>10 DEF t, end

(* ... and after it the next number has neither arrived nor been noted     *)
(* from a GAP.                                                             *)
LEMMA CommitKeeps ==
  ASSUME NEW s \in WriterStates, NEW n \in 0..MaxSequence, SettlesAt(s, n),
         NEW H \in SUBSET SequenceNumbers, NEW T \in SUBSET SequenceNumbers,
         NEW E \in SUBSET SequenceNumbers, NEW D \in SUBSET SequenceNumbers,
         Faithful(s, H, T, E, D)
  PROVE  LET t == AfterCommit(s, n) IN
         /\ t \in WriterStates
         /\ Faithful(t, H, T, E, D \cup CommittedBy(s, n))
         /\ t.range_initialized => t.highest_contiguous + 1 \notin H \cup T
         /\ t.highest_contiguous >= s.highest_contiguous
<1> DEFINE t      == AfterCommit(s, n)
           walked == (s.highest_contiguous + 1)..n
           C      == CommittedBy(s, n)
<1>1. /\ s.highest_contiguous \in Nat /\ n \in Nat
      /\ s.pending \subseteq Nat /\ s.irrelevant \subseteq Nat
      /\ H \subseteq Nat /\ T \subseteq Nat /\ D \subseteq Nat
  BY SequenceAssumption DEF WriterStates, SequenceNumbers
<1>2. /\ t \in WriterStates
      /\ t.highest_contiguous = n
      /\ t.range_initialized = s.range_initialized
      /\ t.irrelevant = s.irrelevant \ walked
      /\ t.received = s.received \ walked
      /\ t.pending = s.pending \ walked
  BY AfterCommitFields
<1>3. /\ n >= s.highest_contiguous
      /\ walked \subseteq s.pending \cup s.irrelevant
      /\ s.range_initialized => n + 1 \notin s.pending \cup s.irrelevant
      /\ ~s.range_initialized => n = s.highest_contiguous
  <2>1. CASE s.range_initialized
    BY <2>1 DEF SettlesAt, CommitsTo
  <2>2. CASE ~s.range_initialized
    BY <1>1, <2>2 DEF SettlesAt
  <2> QED BY <2>1, <2>2
<1>4. C = (s.pending \ s.irrelevant) \cap walked
  BY DEF CommittedBy
<1> HIDE DEF t, C
<1>5. \A m \in H : m > n => m \in t.pending
  BY <1>1, <1>2, <1>3 DEF Faithful
<1>6. \A m \in T : m > n => m \in t.irrelevant
  BY <1>1, <1>2, <1>3 DEF Faithful
<1>7. 1..n \subseteq D \cup C \cup E
  <2> SUFFICES ASSUME NEW m \in 1..n PROVE m \in D \cup C \cup E
    OBVIOUS
  <2>1. CASE m <= s.highest_contiguous
    BY <1>1, <2>1 DEF Faithful
  <2>2. CASE m > s.highest_contiguous
    BY <1>1, <1>3, <1>4, <2>2 DEF Faithful
  <2> QED BY <1>1, <2>1, <2>2
<1>8. \A m \in D \cup C : m \in H /\ m <= n
  BY <1>1, <1>3, <1>4 DEF Faithful
<1>9. Faithful(t, H, T, E, D \cup C)
  <2>1. t.received = t.pending
    BY <1>2 DEF Faithful
  <2>2. ~t.range_initialized => n = 0
    BY <1>2, <1>3 DEF Faithful
  <2> QED BY <1>2, <1>5, <1>6, <1>7, <1>8, <2>1, <2>2 DEF Faithful
<1>10. s.range_initialized => n + 1 \notin H \cup T
  BY <1>1, <1>3 DEF Faithful
<1> QED BY <1>2, <1>3, <1>9, <1>10 DEF t, C

-----------------------------------------------------------------------------
(* Sequences: any set of numbers can be put in order, by induction on the  *)
(* largest of them, for which the least number principle stands in.        *)

LEMMA LeastNumber ==
  ASSUME NEW N \in SUBSET Nat, N # {}
  PROVE  \E m \in N : \A n \in N : m <= n
<1> DEFINE R == {p \in Nat \X Nat : p[1] < p[2]}
<1>1. IsWellFoundedOn(R, Nat)
  BY NatLessThanWellFounded, Zenon DEF OpToRel
<1> HIDE DEF R
<1>2. PICK m \in N : \A n \in N : <<n, m>> \notin R
  BY <1>1, WFMin, Zenon
<1> USE DEF R
<1>3. ASSUME NEW n \in N PROVE m <= n
  <2>1. <<n, m>> \in Nat \X Nat /\ <<n, m>>[1] = n /\ <<n, m>>[2] = m
    OBVIOUS
  <2>2. ~(n < m)
    BY <1>2, <2>1, Zenon
  <2> QED BY <2>2
<1> QED BY <1>3

LEMMA FiniteNumbers ==
  ASSUME NEW k \in Nat, NEW S \in SUBSET (1..k)
  PROVE  IsFiniteSet(S)
<1>1. IsFiniteSet(1..k)
  BY FS_Interval
<1> QED BY <1>1, FS_Subset

Enumerates(q, S) ==
  /\ q \in [1..Cardinality(S) -> S]
  /\ \A i, j \in 1..Cardinality(S) : i < j => q[i] < q[j]

LEMMA CanBeOrdered ==
  \A k \in Nat : \A S \in SUBSET (1..k) : \E q : Enumerates(q, S)
<1> DEFINE Bad == {k \in Nat : \E S \in SUBSET (1..k) : \A q : ~Enumerates(q, S)}
<1> SUFFICES ASSUME Bad # {} PROVE FALSE
  OBVIOUS
<1>1. PICK k \in Bad : \A n \in Bad : k <= n
  <2>1. Bad \in SUBSET Nat
    OBVIOUS
  <2> HIDE DEF Bad
  <2> QED BY <2>1, LeastNumber
<1>2. PICK S \in SUBSET (1..k) : \A q : ~Enumerates(q, S)
  BY <1>1
<1>3. k \in Nat
  OBVIOUS
<1>4. CASE k \in S
  <2> DEFINE R == S \ {k}
             c == Cardinality(R)
  <2>1. k \in Nat \ {0}
    BY <1>3, <1>4
  <2>2. k - 1 \notin Bad /\ k - 1 \in Nat
    BY <1>1, <2>1
  <2>3. R \in SUBSET (1..(k - 1))
    BY <2>1
  <2>4. PICK q : Enumerates(q, R)
    BY <2>2, <2>3
  <2>5. IsFiniteSet(S) /\ IsFiniteSet(R)
    BY <1>3, FiniteNumbers, <2>1, <2>2, <2>3
  <2>6. c \in Nat /\ Cardinality(S) = c + 1
    <3>1. Cardinality(S) \in Nat /\ c \in Nat
      BY <2>5, FS_CardinalityType
    <3>2. c = Cardinality(S) - 1
      BY <1>4, <2>5, FS_RemoveElement, Zenon
    <3> QED BY <3>1, <3>2
  <2> DEFINE p == [i \in 1..(c + 1) |-> IF i = c + 1 THEN k ELSE q[i]]
  <2> HIDE DEF c
  <2>7. q \in [1..c -> R] /\ \A i, j \in 1..c : i < j => q[i] < q[j]
    BY <2>4 DEF Enumerates, c
  <2>8. p \in [1..(c + 1) -> S]
    BY <1>4, <2>6, <2>7
  <2>9. ASSUME NEW i \in 1..(c + 1), NEW j \in 1..(c + 1), i < j
        PROVE  p[i] < p[j]
    <3>1. i \in 1..c /\ p[i] = q[i] /\ q[i] \in R
      BY <2>6, <2>7, <2>9
    <3>2. CASE j = c + 1
      <4>1. p[j] = k /\ q[i] \in 1..(k - 1)
        BY <2>3, <2>9, <3>1, <3>2
      <4> QED BY <2>1, <3>1, <4>1
    <3>3. CASE j # c + 1
      BY <2>6, <2>7, <2>9, <3>1, <3>3
    <3> QED BY <3>2, <3>3
  <2>10. Enumerates(p, S)
    BY <2>6, <2>8, <2>9 DEF Enumerates
  <2> QED BY <1>2, <2>10
<1>5. CASE k \notin S
  <2>1. CASE k = 0
    <3>1. S = {}
      BY <2>1
    <3>2. Cardinality(S) = 0
      BY <3>1, FS_EmptySet, Zenon
    <3>3. Enumerates(<<>>, S)
      BY <3>1, <3>2 DEF Enumerates
    <3> QED BY <1>2, <3>3
  <2>2. CASE k # 0
    <3>1. k - 1 \in Nat /\ k - 1 \notin Bad /\ S \in SUBSET (1..(k - 1))
      BY <1>1, <1>3, <1>5, <2>2
    <3> QED BY <1>2, <3>1
  <2> QED BY <2>1, <2>2
<1> QED BY <1>4, <1>5

LEMMA InOrderEffect ==
  ASSUME NEW S \in SUBSET SequenceNumbers
  PROVE  /\ Cardinality(S) \in Nat
         /\ InOrder(S) \in [1..Cardinality(S) -> S]
         /\ \A i, j \in 1..Cardinality(S) : i < j => InOrder(S)[i] < InOrder(S)[j]
<1>1. IsFiniteSet(S)
  BY SequenceAssumption, FiniteNumbers DEF SequenceNumbers
<1>2. \E q : Enumerates(q, S)
  BY SequenceAssumption, CanBeOrdered DEF SequenceNumbers
<1>3. \E q \in [1..Cardinality(S) -> S] :
        \A i, j \in 1..Cardinality(S) : i < j => q[i] < q[j]
  BY <1>2 DEF Enumerates
<1> QED BY <1>1, <1>3, FS_CardinalityType DEF InOrder

LEMMA LastOfEffect ==
  ASSUME NEW q \in Seq(Sample)
  PROVE  /\ LastOf(q) \in Seq(Sample) /\ Len(LastOf(q)) <= HistoryDepth
         /\ \E d \in Nat : /\ Len(q) = Len(LastOf(q)) + d
                           /\ \A i \in 1..Len(LastOf(q)) : LastOf(q)[i] = q[i + d]
<1> DEFINE d == IF Len(q) > HistoryDepth THEN Len(q) - HistoryDepth ELSE 0
<1>1. d \in Nat /\ Larger(1, Len(q) - HistoryDepth + 1) = d + 1 /\ d <= Len(q)
      /\ Len(q) - d <= HistoryDepth /\ Len(q) \in Nat
  BY DepthAssumption DEF Larger
<1>2. LastOf(q) = SubSeq(q, d + 1, Len(q))
  BY <1>1 DEF LastOf
<1> HIDE DEF d
<1>3. /\ LastOf(q) \in Seq(Sample) /\ Len(LastOf(q)) = Len(q) - d
      /\ \A i \in 1..(Len(q) - d) : LastOf(q)[i] = q[i + d]
  BY <1>1, <1>2
<1> QED BY <1>1, <1>3, DepthAssumption

(* New samples of w, all later than those in the queue, go to its end; the *)
(* queue stays in order and bounded.                                       *)
LEMMA AddedEffect ==
  ASSUME NEW q \in Seq(Sample), Ordered(q), NEW w \in Writers,
         NEW S \in SUBSET SequenceNumbers,
         \A i \in 1..Len(q) : q[i].writer = w => \A n \in S : q[i].sn < n
  PROVE  LET a == Added(q, w, S) IN
         /\ a \in Seq(Sample) /\ Len(a) <= HistoryDepth
         /\ Ordered(a)
         /\ \A i \in 1..Len(a) :
              \/ \E j \in 1..Len(q) : a[i] = q[j]
              \/ a[i].writer = w /\ a[i].sn \in S
<1> DEFINE fresh == {n \in S : [writer |-> w, sn |-> n] \notin ToSet(q)}
           c     == Cardinality(fresh)
           new   == [i \in 1..c |-> [writer |-> w, sn |-> InOrder(fresh)[i]]]
           all   == q \o new
<1>1. fresh \in SUBSET SequenceNumbers /\ fresh \subseteq S
  OBVIOUS
<1>2. Added(q, w, S) = LastOf(all)
  BY DEF Added
<1> HIDE DEF fresh
<1>3. /\ c \in Nat /\ InOrder(fresh) \in [1..c -> fresh]
      /\ \A i, j \in 1..c : i < j => InOrder(fresh)[i] < InOrder(fresh)[j]
  BY <1>1, InOrderEffect
<1> HIDE DEF c
<1>4. /\ new \in Seq(Sample) /\ Len(new) = c
      /\ \A i \in 1..c : new[i].writer = w /\ new[i].sn \in S
      /\ \A i, j \in 1..c : i < j => new[i].sn < new[j].sn
  <2>1. \A i \in 1..c : InOrder(fresh)[i] \in S /\ InOrder(fresh)[i] \in SequenceNumbers
    BY <1>1, <1>3
  <2>2. /\ new \in [1..c -> Sample]
        /\ \A i \in 1..c : new[i].writer = w /\ new[i].sn = InOrder(fresh)[i]
    BY <2>1 DEF Sample
  <2> HIDE DEF new
  <2>3. new \in Seq(Sample) /\ Len(new) = c
    BY <1>3, <2>2
  <2> QED BY <1>3, <2>1, <2>2, <2>3
<1> HIDE DEF new
<1>5. /\ all \in Seq(Sample) /\ Len(all) = Len(q) + c /\ Len(q) \in Nat
      /\ \A i \in 1..Len(q) : all[i] = q[i]
      /\ \A i \in 1..Len(all) : i > Len(q) => all[i] = new[i - Len(q)] /\ i - Len(q) \in 1..c
  <2>1. Len(q) \in Nat /\ all \in Seq(Sample) /\ Len(all) = Len(q) + c
    BY <1>4
  <2>2. \A i \in 1..(Len(q) + c) : all[i] = IF i <= Len(q) THEN q[i] ELSE new[i - Len(q)]
    BY <1>4
  <2> HIDE DEF all
  <2> QED BY <1>3, <2>1, <2>2
<1> HIDE DEF all
<1>6. ASSUME NEW i \in 1..Len(all)
      PROVE  \/ \E j \in 1..Len(q) : all[i] = q[j]
             \/ all[i].writer = w /\ all[i].sn \in S
  <2>1. CASE i <= Len(q)
    BY <1>5, <2>1
  <2>2. CASE i > Len(q)
    BY <1>4, <1>5, <2>2
  <2> QED BY <1>3, <1>5, <2>1, <2>2
<1>7. ASSUME NEW i \in 1..Len(all), NEW j \in 1..Len(all),
             i < j, all[i].writer = all[j].writer
      PROVE  all[i].sn < all[j].sn
  <2>1. CASE j <= Len(q)
    <3>1. i \in 1..Len(q) /\ j \in 1..Len(q)
      BY <1>3, <1>5, <1>7, <2>1
    <3>2. all[i] = q[i] /\ all[j] = q[j]
      BY <1>5, <3>1
    <3> QED BY <1>7, <3>1, <3>2 DEF Ordered
  <2>2. CASE i <= Len(q) /\ j > Len(q)
    <3>1. i \in 1..Len(q) /\ all[i] = q[i]
      BY <1>3, <1>5, <2>2
    <3>2. all[j].writer = w /\ all[j].sn \in S
      BY <1>4, <1>5, <2>2
    <3> QED BY <1>7, <3>1, <3>2
  <2>3. CASE i > Len(q)
    <3>1. /\ all[i] = new[i - Len(q)] /\ i - Len(q) \in 1..c
          /\ all[j] = new[j - Len(q)] /\ j - Len(q) \in 1..c
      BY <1>3, <1>5, <1>7, <2>3
    <3>2. i - Len(q) < j - Len(q)
      BY <1>5, <1>7
    <3> QED BY <1>4, <3>1, <3>2
  <2> QED BY <1>3, <1>5, <2>1, <2>2, <2>3
<1> DEFINE a == LastOf(all)
<1>8. /\ a \in Seq(Sample) /\ Len(a) <= HistoryDepth
      /\ \E d \in Nat : Len(all) = Len(a) + d /\ \A i \in 1..Len(a) : a[i] = all[i + d]
  BY <1>5, LastOfEffect
<1> HIDE DEF a
<1>9. PICK d \in Nat : Len(all) = Len(a) + d /\ \A i \in 1..Len(a) : a[i] = all[i + d]
  BY <1>8
<1>10. \A i \in 1..Len(a) : a[i] = all[i + d] /\ i + d \in 1..Len(all)
  BY <1>8, <1>9
<1>11. Ordered(a)
  <2> SUFFICES ASSUME NEW i \in 1..Len(a), NEW j \in 1..Len(a),
                      i < j, a[i].writer = a[j].writer
               PROVE  a[i].sn < a[j].sn
    BY DEF Ordered
  <2>1. i + d < j + d
    BY <1>9
  <2> QED BY <1>7, <1>10, <2>1
<1>12. ASSUME NEW i \in 1..Len(a)
       PROVE  \/ \E j \in 1..Len(q) : a[i] = q[j]
              \/ a[i].writer = w /\ a[i].sn \in S
  <2> DEFINE k == i + d
  <2>1. k \in 1..Len(all) /\ a[i] = all[k]
    BY <1>10
  <2> HIDE DEF k
  <2> QED BY <1>6, <2>1
<1> QED BY <1>2, <1>8, <1>11, <1>12 DEF a

-----------------------------------------------------------------------------
(* The common end of the handlers keeps the invariant, when the state s it *)
(* starts from agrees with what the writer has said by now.                *)
LEMMA SettleStep ==
  ASSUME ReaderInv, NEW w \in Writers, NEW s \in WriterStates,
         NEW H \in SUBSET SequenceNumbers, NEW T \in SUBSET SequenceNumbers,
         NEW E \in SUBSET SequenceNumbers,
         Faithful(s, H, T, E, delivered[w]),
         s.highest_contiguous >= reader[w].highest_contiguous,
         Settle(w, s),
         heard' = [heard EXCEPT ![w] = H],
         remembered' = [remembered EXCEPT ![w] = T],
         excused' = [excused EXCEPT ![w] = E],
         last_taken' = last_taken
  PROVE  ReaderInv'
<1> USE DEF ReaderInv
<1>1. PICK n \in 0..MaxSequence :
        /\ SettlesAt(s, n)
        /\ reader' = [reader EXCEPT ![w] = AfterCommit(s, n)]
        /\ history' = Added(history, w, CommittedBy(s, n))
        /\ delivered' = [delivered EXCEPT ![w] = @ \cup CommittedBy(s, n)]
  BY DEF Settle
<1> DEFINE t == AfterCommit(s, n)
           C == CommittedBy(s, n)
           low == reader[w].highest_contiguous
<1>2. /\ delivered[w] \in SUBSET SequenceNumbers /\ low \in Nat
      /\ s.highest_contiguous \in Nat /\ n \in Nat
      /\ history \in Seq(Sample) /\ last_taken \in [Writers -> 0..MaxSequence]
  BY SequenceAssumption DEF TypeOK, WriterStates
<1>3. /\ t \in WriterStates
      /\ Faithful(t, H, T, E, delivered[w] \cup C)
      /\ t.range_initialized => t.highest_contiguous + 1 \notin H \cup T
      /\ t.highest_contiguous >= s.highest_contiguous
  BY <1>1, <1>2, CommitKeeps
<1>4. C \in SUBSET SequenceNumbers /\ \A m \in C : m > s.highest_contiguous /\ m <= n
  BY <1>2 DEF CommittedBy, WriterStates, SequenceNumbers
<1>5. t.highest_contiguous = n
  BY AfterCommitFields
<1> HIDE DEF t, C
<1>6. \A v \in Writers :
        /\ reader'[v] = IF v = w THEN t ELSE reader[v]
        /\ heard'[v] = IF v = w THEN H ELSE heard[v]
        /\ remembered'[v] = IF v = w THEN T ELSE remembered[v]
        /\ excused'[v] = IF v = w THEN E ELSE excused[v]
        /\ delivered'[v] = IF v = w THEN delivered[w] \cup C ELSE delivered[v]
  BY <1>1 DEF TypeOK, t, C
<1>7. \A i \in 1..Len(history) : history[i] \in Sample
  BY <1>2
<1>8. ASSUME NEW i \in 1..Len(history), history[i].writer = w, NEW m \in C
      PROVE  history[i].sn < m
  <2>1. history[i].sn \in Nat /\ m \in Nat
    BY <1>4, <1>7 DEF Sample, SequenceNumbers
  <2>2. history[i].sn <= low
    BY <1>8 DEF HistoryInv
  <2> QED BY <1>2, <1>4, <2>1, <2>2
<1>9. /\ history' \in Seq(Sample) /\ Len(history') <= HistoryDepth
      /\ Ordered(history')
      /\ \A i \in 1..Len(history') :
           \/ \E j \in 1..Len(history) : history'[i] = history[j]
           \/ history'[i].writer = w /\ history'[i].sn \in C
  <2>1. Ordered(history)
    BY DEF HistoryInv
  <2> QED BY <1>1, <1>2, <1>4, <1>8, <2>1, AddedEffect DEF C
<1>10. TypeOK'
  BY <1>1, <1>2, <1>3, <1>4, <1>9 DEF TypeOK, t, C
<1>11. FaithfulInv'
  BY <1>3, <1>6 DEF FaithfulInv
<1>12. NothingWithheld'
  BY <1>3, <1>6 DEF NothingWithheld
<1>13. \A v \in Writers : /\ last_taken'[v] = last_taken[v]
                          /\ last_taken[v] <= reader'[v].highest_contiguous
                          /\ reader[v].highest_contiguous <= reader'[v].highest_contiguous
                          /\ reader'[v].highest_contiguous \in Nat
                          /\ reader[v].highest_contiguous \in Nat
  <2> SUFFICES ASSUME NEW v \in Writers
               PROVE  /\ last_taken'[v] = last_taken[v]
                      /\ last_taken[v] <= reader'[v].highest_contiguous
                      /\ reader[v].highest_contiguous <= reader'[v].highest_contiguous
                      /\ reader'[v].highest_contiguous \in Nat
                      /\ reader[v].highest_contiguous \in Nat
    OBVIOUS
  <2>1. /\ reader[v].highest_contiguous \in Nat /\ last_taken[v] \in Nat
        /\ last_taken[v] <= reader[v].highest_contiguous
    BY <1>2 DEF TypeOK, WriterStates, HistoryInv
  <2>2. reader'[v].highest_contiguous \in Nat
    BY <1>2, <1>5, <1>6, <2>1
  <2> QED BY <1>2, <1>3, <1>5, <1>6, <2>1, <2>2
<1>14. HistoryInv'
  <2>1. ASSUME NEW i \in 1..Len(history')
        PROVE  LET m == history'[i]
               IN  /\ last_taken'[m.writer] < m.sn
                   /\ m.sn <= reader'[m.writer].highest_contiguous
    <3> DEFINE m == history'[i]
    <3>1. CASE \E j \in 1..Len(history) : m = history[j]
      <4>1. PICK j \in 1..Len(history) : m = history[j]
        BY <3>1
      <4>2. m.writer \in Writers /\ m.sn \in Nat
        BY <1>7, <4>1 DEF Sample, SequenceNumbers
      <4>3. last_taken[m.writer] < m.sn /\ m.sn <= reader[m.writer].highest_contiguous
        BY <4>1 DEF HistoryInv
      <4> HIDE DEF m
      <4>4. last_taken'[m.writer] < m.sn /\ m.sn <= reader'[m.writer].highest_contiguous
        BY <1>13, <4>2, <4>3
      <4> QED BY <4>4 DEF m
    <3>2. CASE m.writer = w /\ m.sn \in C
      <4>1. m.sn \in Nat /\ last_taken[w] \in Nat
        BY <1>2, <1>4, <3>2 DEF SequenceNumbers
      <4>2. last_taken[w] <= low
        BY DEF HistoryInv
      <4> QED BY <1>2, <1>4, <1>5, <1>6, <3>2, <4>1, <4>2
    <3> QED BY <1>9, <3>1, <3>2
  <2> QED BY <1>9, <1>13, <2>1 DEF HistoryInv
<1> QED BY <1>10, <1>11, <1>12, <1>14

LEMMA InitInv == Init => ReaderInv
<1> SUFFICES ASSUME Init PROVE ReaderInv
  OBVIOUS
<1>1. 0 \in 0..MaxSequence
  BY SequenceAssumption
<1>2. NewWriterState \in WriterStates
  BY <1>1 DEF NewWriterState, WriterStates
<1>3. history = <<>> /\ history \in Seq(Sample) /\ Len(history) = 0
  BY DEF Init
<1>4. TypeOK
  BY <1>1, <1>2, <1>3, DepthAssumption DEF Init, TypeOK
<1>5. FaithfulInv
  <2> SUFFICES ASSUME NEW w \in Writers PROVE Faithful(NewWriterState, {}, {}, {}, {})
    BY DEF Init, FaithfulInv
  <2>1. 1..0 = {}
    OBVIOUS
  <2> QED BY <2>1 DEF Faithful, NewWriterState
<1>6. NothingWithheld
  BY DEF Init, NothingWithheld, NewWriterState
<1>7. HistoryInv
  BY <1>3 DEF Init, HistoryInv, Ordered, NewWriterState
<1> QED BY <1>4, <1>5, <1>6, <1>7 DEF ReaderInv

LEMMA DataStep ==
  ASSUME ReaderInv, NEW w \in Writers, NEW sn \in SequenceNumbers,
         ReceiveData(w, sn)
  PROVE  ReaderInv'
<1> DEFINE s == AfterData(reader[w], sn)
           H == heard[w] \cup {sn}
<1>1. /\ reader[w] \in WriterStates
      /\ heard[w] \in SUBSET SequenceNumbers /\ remembered[w] \in SUBSET SequenceNumbers
      /\ excused[w] \in SUBSET SequenceNumbers /\ delivered[w] \in SUBSET SequenceNumbers
      /\ Faithful(reader[w], heard[w], remembered[w], excused[w], delivered[w])
      /\ reader[w].highest_contiguous \in Nat
  BY DEF ReaderInv, TypeOK, FaithfulInv, WriterStates
<1>2. s \in WriterStates /\ s.highest_contiguous = reader[w].highest_contiguous
  BY <1>1, AfterDataFields
<1>3. Faithful(s, H, remembered[w], excused[w], delivered[w])
  BY <1>1, DataKeeps
<1>4. /\ Settle(w, s)
      /\ heard' = [heard EXCEPT ![w] = H]
      /\ remembered' = [remembered EXCEPT ![w] = remembered[w]]
      /\ excused' = [excused EXCEPT ![w] = excused[w]]
      /\ last_taken' = last_taken
  BY DEF ReceiveData, ReaderInv, TypeOK
<1>5. H \in SUBSET SequenceNumbers /\ s.highest_contiguous >= reader[w].highest_contiguous
  BY <1>1, <1>2
<1> HIDE DEF s, H
<1> QED BY <1>1, <1>2, <1>3, <1>4, <1>5, SettleStep

LEMMA HeartbeatStep ==
  ASSUME ReaderInv, NEW w \in Writers,
         NEW first \in SequenceNumbers, NEW last \in SequenceNumbers,
         ReceiveHeartbeat(w, first, last)
  PROVE  ReaderInv'
<1> DEFINE s == AfterHeartbeat(reader[w], first, last)
           E == excused[w] \cup 1..(first - 1)
<1>1. /\ reader[w] \in WriterStates
      /\ heard[w] \in SUBSET SequenceNumbers /\ remembered[w] \in SUBSET SequenceNumbers
      /\ excused[w] \in SUBSET SequenceNumbers /\ delivered[w] \in SUBSET SequenceNumbers
      /\ Faithful(reader[w], heard[w], remembered[w], excused[w], delivered[w])
  BY DEF ReaderInv, TypeOK, FaithfulInv
<1>2. s \in WriterStates
  BY <1>1, AfterHeartbeatFields
<1>3. /\ Faithful(s, heard[w], remembered[w], E, delivered[w])
      /\ s.highest_contiguous >= reader[w].highest_contiguous
  BY <1>1, HeartbeatKeeps
<1>4. /\ Settle(w, s)
      /\ heard' = [heard EXCEPT ![w] = heard[w]]
      /\ remembered' = [remembered EXCEPT ![w] = remembered[w]]
      /\ excused' = [excused EXCEPT ![w] = E]
      /\ last_taken' = last_taken
  BY DEF ReceiveHeartbeat, ReaderInv, TypeOK
<1>5. E \in SUBSET SequenceNumbers
  BY <1>1, SequenceAssumption DEF SequenceNumbers
<1> HIDE DEF s, E
<1> QED BY <1>1, <1>2, <1>3, <1>4, <1>5, SettleStep

LEMMA GapStep ==
  ASSUME ReaderInv, NEW w \in Writers, NEW start \in SequenceNumbers,
         NEW base \in 1..(MaxSequence + 1), NEW bits \in SUBSET SequenceNumbers,
         ReceiveGap(w, start, base, bits)
  PROVE  ReaderInv'
<1> DEFINE s == AfterGap(reader[w], start, base - 1, bits)
           T == remembered[w] \cup bits \cup
                  {n \in start..(base - 1) : n < start + MaxBits \/ n <= s.highest_contiguous}
           E == excused[w] \cup bits \cup start..(base - 1)
<1>1. /\ reader[w] \in WriterStates
      /\ heard[w] \in SUBSET SequenceNumbers /\ remembered[w] \in SUBSET SequenceNumbers
      /\ excused[w] \in SUBSET SequenceNumbers /\ delivered[w] \in SUBSET SequenceNumbers
      /\ Faithful(reader[w], heard[w], remembered[w], excused[w], delivered[w])
  BY DEF ReaderInv, TypeOK, FaithfulInv
<1>2. base - 1 \in 0..MaxSequence /\ start <= base
  BY SequenceAssumption DEF ReceiveGap
<1>3. s \in WriterStates
  BY <1>1, <1>2, AfterGapFields
<1>4. /\ Faithful(s, heard[w], T, E, delivered[w])
      /\ s.highest_contiguous >= reader[w].highest_contiguous
  BY <1>1, <1>2, GapKeeps
<1>5. /\ Settle(w, s)
      /\ heard' = [heard EXCEPT ![w] = heard[w]]
      /\ remembered' = [remembered EXCEPT ![w] = T]
      /\ excused' = [excused EXCEPT ![w] = E]
      /\ last_taken' = last_taken
  BY DEF ReceiveGap, ReaderInv, TypeOK
<1>6. start..(base - 1) \subseteq SequenceNumbers
  BY <1>2, SequenceAssumption DEF SequenceNumbers
<1> HIDE DEF s
<1>7. T \in SUBSET SequenceNumbers /\ E \in SUBSET SequenceNumbers
  BY <1>1, <1>6
<1> HIDE DEF T, E
<1> QED BY <1>1, <1>3, <1>4, <1>5, <1>7, SettleStep

LEMMA TakeStep ==
  ASSUME ReaderInv, Take
  PROVE  ReaderInv'
<1> DEFINE m == history[1]
<1>1. /\ history \in Seq(Sample) /\ history # <<>> /\ Len(history) \in Nat \ {0}
      /\ Len(history) <= HistoryDepth
      /\ history' = Tail(history) /\ Head(history) = m /\ m \in Sample
      /\ last_taken' = [last_taken EXCEPT ![m.writer] = m.sn]
      /\ UNCHANGED <<reader, heard, remembered, excused, delivered>>
  <2>1. history \in Seq(Sample) /\ Len(history) <= HistoryDepth
    BY DEF ReaderInv, TypeOK
  <2>2. /\ history # <<>> /\ history' = Tail(history)
        /\ last_taken' = [last_taken EXCEPT ![Head(history).writer] = Head(history).sn]
        /\ UNCHANGED <<reader, heard, remembered, excused, delivered>>
    BY DEF Take
  <2>3. Len(history) \in Nat \ {0} /\ Head(history) = history[1] /\ history[1] \in Sample
    BY <2>1, <2>2
  <2> QED BY <2>1, <2>2, <2>3
<1>2. /\ history' \in Seq(Sample) /\ Len(history') = Len(history) - 1
      /\ \A i \in 1..Len(history') : history'[i] = history[i + 1] /\ i + 1 \in 1..Len(history)
  BY <1>1
<1>3. /\ last_taken \in [Writers -> 0..MaxSequence]
      /\ m.writer \in Writers /\ m.sn \in SequenceNumbers /\ m.sn \in Nat
      /\ m.sn <= reader[m.writer].highest_contiguous
  BY <1>1 DEF ReaderInv, TypeOK, HistoryInv, Sample, SequenceNumbers
<1>4. /\ \A v \in Writers : last_taken'[v] = IF v = m.writer THEN m.sn ELSE last_taken[v]
      /\ last_taken' \in [Writers -> 0..MaxSequence]
  BY <1>1, <1>3 DEF SequenceNumbers
<1>5. TypeOK'
  BY <1>1, <1>2, <1>4, DepthAssumption DEF ReaderInv, TypeOK
<1>6. FaithfulInv' /\ NothingWithheld'
  BY <1>1 DEF ReaderInv, FaithfulInv, NothingWithheld
<1>7. Ordered(history) /\ Ordered(history')
  <2>1. Ordered(history)
    BY DEF ReaderInv, HistoryInv
  <2> QED BY <1>1, <1>2, <2>1 DEF Ordered
<1>8. ASSUME NEW i \in 1..Len(history')
      PROVE  LET e == history'[i]
             IN  last_taken'[e.writer] < e.sn /\ e.sn <= reader'[e.writer].highest_contiguous
  <2> DEFINE e == history'[i]
             k == i + 1
  <2>1. e = history[k] /\ k \in 1..Len(history) /\ 1 < k /\ 1 \in 1..Len(history)
    BY <1>1, <1>2
  <2> HIDE DEF k
  <2>2. e \in Sample /\ e.writer \in Writers
    <3>1. e \in Sample
      BY <1>1, <2>1
    <3> QED BY <3>1 DEF Sample
  <2>3. last_taken[e.writer] < e.sn /\ e.sn <= reader[e.writer].highest_contiguous
    BY <2>1 DEF ReaderInv, HistoryInv
  <2>4. e.writer = m.writer => m.sn < e.sn
    BY <1>7, <2>1 DEF Ordered
  <2> HIDE DEF e, m
  <2>5. last_taken'[e.writer] < e.sn /\ e.sn <= reader'[e.writer].highest_contiguous
    BY <1>1, <1>4, <2>2, <2>3, <2>4
  <2> QED BY <2>5 DEF e
<1>9. \A v \in Writers : last_taken'[v] <= reader'[v].highest_contiguous
  BY <1>1, <1>3, <1>4 DEF ReaderInv, HistoryInv
<1>10. HistoryInv'
  BY <1>7, <1>8, <1>9 DEF HistoryInv
<1> QED BY <1>5, <1>6, <1>10 DEF ReaderInv

(* The numbers a writer uses, as the actions see them.                     *)
LEMMA UsedNumbers ==
  ASSUME NEW w \in Writers
  PROVE  /\ 1..LastSample[w] \subseteq SequenceNumbers
         /\ 1..(LastSample[w] + 1) \subseteq 1..(MaxSequence + 1)
<1>1. LastSample[w] \in 1..MaxSequence
  BY LastAssumption DEF SequenceNumbers
<1> QED BY <1>1, SequenceAssumption DEF SequenceNumbers

(* Every step is one of these, on numbers in the range of the model.       *)
LEMMA Steps ==
  ASSUME Next
  PROVE  \/ \E w \in Writers, sn \in SequenceNumbers : ReceiveData(w, sn)
         \/ \E w \in Writers, first, last \in SequenceNumbers :
              ReceiveHeartbeat(w, first, last)
         \/ \E w \in Writers, start \in SequenceNumbers, base \in 1..(MaxSequence + 1),
                bits \in SUBSET SequenceNumbers : ReceiveGap(w, start, base, bits)
         \/ Take
<1>1. ASSUME NEW w \in Writers, NEW sn \in 1..LastSample[w], ReceiveData(w, sn)
      PROVE  \E v \in Writers, n \in SequenceNumbers : ReceiveData(v, n)
  <2>1. sn \in SequenceNumbers
    BY UsedNumbers
  <2> QED BY <1>1, <2>1
<1>2. ASSUME NEW w \in Writers, NEW first \in 1..LastSample[w], NEW last \in 1..LastSample[w],
             ReceiveHeartbeat(w, first, last)
      PROVE  \E v \in Writers, m, n \in SequenceNumbers : ReceiveHeartbeat(v, m, n)
  <2>1. first \in SequenceNumbers /\ last \in SequenceNumbers
    BY UsedNumbers
  <2> QED BY <1>2, <2>1
<1>3. ASSUME NEW w \in Writers, NEW start \in 1..LastSample[w],
             NEW base \in 1..(LastSample[w] + 1), NEW bits \in SUBSET (1..LastSample[w]),
             ReceiveGap(w, start, base, bits)
      PROVE  \E v \in Writers, n \in SequenceNumbers, b \in 1..(MaxSequence + 1),
                S \in SUBSET SequenceNumbers : ReceiveGap(v, n, b, S)
  <2>1. /\ start \in SequenceNumbers /\ base \in 1..(MaxSequence + 1)
        /\ bits \in SUBSET SequenceNumbers
    BY UsedNumbers
  <2> QED BY <1>3, <2>1
<1> QED BY <1>1, <1>2, <1>3 DEF Next

LEMMA InvStep == ReaderInv /\ [Next]_vars => ReaderInv'
<1> SUFFICES ASSUME ReaderInv, [Next]_vars PROVE ReaderInv'
  OBVIOUS
<1>1. CASE UNCHANGED vars
  BY <1>1 DEF ReaderInv, TypeOK, FaithfulInv, NothingWithheld, HistoryInv, vars, ghosts
<1>2. CASE Next
  BY <1>2, Steps, DataStep, HeartbeatStep, GapStep, TakeStep
<1> QED BY <1>1, <1>2

(* The inductive invariant holds of every reachable state.                 *)
THEOREM ReaderInvariant == Spec => []ReaderInv
BY InitInv, InvStep, PTL DEF Spec

(* Every variable of the reader keeps its type: what is received, pending  *)
(* and irrelevant stays within the numbers the writers use, and the        *)
(* history within its depth.                                               *)
THEOREM ReaderTypeCorrect == Spec => []TypeOK
<1>1. ReaderInv => TypeOK
  BY DEF ReaderInv
<1> QED BY <1>1, ReaderInvariant, PTL

(* commit_contiguous, HEARTBEAT and GAP move highest_contiguous past a     *)
(* number only with its sample delivered or excused by the writer.         *)
THEOREM SkipsAreExcused == Spec => []SkipsOnlyExcused
<1>1. ReaderInv => SkipsOnlyExcused
  BY DEF ReaderInv, FaithfulInv, Faithful, SkipsOnlyExcused
<1> QED BY <1>1, ReaderInvariant, PTL

(* The handlers leave the reader at a number that has neither arrived nor  *)
(* been noted from a GAP.  (A number further ahead in a GAP than it takes  *)
(* note of does hold it up, until a later GAP or HEARTBEAT.)               *)
THEOREM NeverWithholds == Spec => []NothingWithheld
<1>1. ReaderInv => NothingWithheld
  BY DEF ReaderInv
<1> QED BY <1>1, ReaderInvariant, PTL

(* An ACKNACK acknowledges only what has arrived or was excused, whatever  *)
(* the bitmap had room for.                                                *)
THEOREM AcksAreHonest == Spec => []AcksHonestly
<1>1. ReaderInv => AcksHonestly
  <2> SUFFICES ASSUME ReaderInv, NEW w \in Writers, NEW n \in SequenceNumbers,
                      Acknowledges(AckNack(reader[w]), n)
               PROVE  n \in heard[w] \cup excused[w]
    BY DEF AcksHonestly
  <2> DEFINE s == reader[w]
  <2>1. /\ Faithful(s, heard[w], remembered[w], excused[w], delivered[w])
        /\ s.highest_contiguous \in Nat
    BY DEF ReaderInv, FaithfulInv, TypeOK, WriterStates
  <2>2. n < s.highest_contiguous + 1 \/ n \in s.received \cup s.irrelevant
    BY DEF Acknowledges, AckNack
  <2>3. CASE n < s.highest_contiguous + 1
    <3>1. n \in 1..s.highest_contiguous
      BY <2>1, <2>3 DEF SequenceNumbers
    <3> QED BY <2>1, <3>1 DEF Faithful
  <2>4. CASE n \in s.received \cup s.irrelevant
    BY <2>1, <2>4 DEF Faithful
  <2> QED BY <2>2, <2>3, <2>4
<1> QED BY <1>1, ReaderInvariant, PTL

(* A sample that the reader has noted from a GAP as irrelevant is not      *)
(* handed over any more, were its DATA in pending already:                 *)
(* commit_contiguous looks there last.                                     *)
THEOREM GapsAreFinal == Spec => GapIsFinal
<1> DEFINE Final == \A w \in Writers :
                      \A n \in delivered'[w] \ delivered[w] : n \notin remembered'[w]
<1>1. ReaderInv /\ [Next]_vars => [Final]_vars
  <2> SUFFICES ASSUME ReaderInv, Next,
                      NEW w \in Writers, NEW n \in delivered'[w] \ delivered[w],
                      n \in remembered'[w]
               PROVE  FALSE
    OBVIOUS
  (* What settles is in agreement with the GAPs so far.                    *)
  <2>1. ASSUME NEW v \in Writers, NEW s \in WriterStates,
               NEW H \in SUBSET SequenceNumbers, NEW T \in SUBSET SequenceNumbers,
               NEW E \in SUBSET SequenceNumbers,
               Faithful(s, H, T, E, delivered[v]), Settle(v, s),
               remembered' = [remembered EXCEPT ![v] = T]
        PROVE  FALSE
    <3>1. PICK k \in 0..MaxSequence :
            delivered' = [delivered EXCEPT ![v] = @ \cup CommittedBy(s, k)]
      BY <2>1 DEF Settle
    <3>2. v = w /\ n \in CommittedBy(s, k) /\ n \in T
      BY <2>1, <3>1 DEF ReaderInv, TypeOK
    <3>3. n \in Nat /\ n > s.highest_contiguous /\ n \notin s.irrelevant
      BY <3>1, <3>2 DEF CommittedBy, WriterStates
    <3> QED BY <2>1, <3>2, <3>3 DEF Faithful
  <2>2. \A v \in Writers :
          /\ reader[v] \in WriterStates
          /\ heard[v] \in SUBSET SequenceNumbers /\ remembered[v] \in SUBSET SequenceNumbers
          /\ excused[v] \in SUBSET SequenceNumbers /\ delivered[v] \in SUBSET SequenceNumbers
          /\ Faithful(reader[v], heard[v], remembered[v], excused[v], delivered[v])
    BY DEF ReaderInv, TypeOK, FaithfulInv
  <2>3. ASSUME NEW v \in Writers, NEW sn \in SequenceNumbers, ReceiveData(v, sn)
        PROVE  FALSE
    <3> DEFINE s == AfterData(reader[v], sn)
               H == heard[v] \cup {sn}
    <3>1. s \in WriterStates /\ Faithful(s, H, remembered[v], excused[v], delivered[v])
      BY <2>2, AfterDataFields, DataKeeps
    <3>2. Settle(v, s) /\ remembered' = [remembered EXCEPT ![v] = remembered[v]]
      BY <2>3 DEF ReceiveData, ReaderInv, TypeOK
    <3>3. H \in SUBSET SequenceNumbers
      BY <2>2
    <3> HIDE DEF s, H
    <3> QED BY <2>1, <2>2, <3>1, <3>2, <3>3
  <2>4. ASSUME NEW v \in Writers, NEW first \in SequenceNumbers, NEW last \in SequenceNumbers,
               ReceiveHeartbeat(v, first, last)
        PROVE  FALSE
    <3> DEFINE s == AfterHeartbeat(reader[v], first, last)
               E == excused[v] \cup 1..(first - 1)
    <3>1. s \in WriterStates /\ Faithful(s, heard[v], remembered[v], E, delivered[v])
      BY <2>2, AfterHeartbeatFields, HeartbeatKeeps
    <3>2. Settle(v, s) /\ remembered' = [remembered EXCEPT ![v] = remembered[v]]
      BY <2>4 DEF ReceiveHeartbeat, ReaderInv, TypeOK
    <3>3. E \in SUBSET SequenceNumbers
      BY <2>2, SequenceAssumption DEF SequenceNumbers
    <3> HIDE DEF s, E
    <3> QED BY <2>1, <2>2, <3>1, <3>2, <3>3
  <2>5. ASSUME NEW v \in Writers, NEW start \in SequenceNumbers,
               NEW base \in 1..(MaxSequence + 1), NEW bits \in SUBSET SequenceNumbers,
               ReceiveGap(v, start, base, bits)
        PROVE  FALSE
    <3> DEFINE s == AfterGap(reader[v], start, base - 1, bits)
               T == remembered[v] \cup bits \cup
                      {m \in start..(base - 1) : m < start + MaxBits \/ m <= s.highest_contiguous}
               E == excused[v] \cup bits \cup start..(base - 1)
    <3>1. base - 1 \in 0..MaxSequence /\ start <= base
      BY <2>5, SequenceAssumption DEF ReceiveGap
    <3>2. s \in WriterStates /\ Faithful(s, heard[v], T, E, delivered[v])
      BY <2>2, <3>1, AfterGapFields, GapKeeps
    <3>3. Settle(v, s) /\ remembered' = [remembered EXCEPT ![v] = T]
      BY <2>5 DEF ReceiveGap
    <3>4. T \in SUBSET SequenceNumbers /\ E \in SUBSET SequenceNumbers
      BY <2>2, <3>1, SequenceAssumption DEF SequenceNumbers
    <3> HIDE DEF s, T, E
    <3> QED BY <2>1, <2>2, <3>2, <3>3, <3>4
  <2>6. ~Take
    BY DEF Take
  <2> QED BY <2>3, <2>4, <2>5, <2>6, Steps
<1> QED BY <1>1, ReaderInvariant, PTL DEF Spec, GapIsFinal

(* take() returns a later sample of a writer than the one before, never    *)
(* the same again, whatever the queue has dropped in between.              *)
THEOREM TakesAscend == Spec => TakenInOrder
<1> DEFINE Rises == Take => Head(history).sn > last_taken[Head(history).writer]
<1>1. ReaderInv /\ [Next]_vars => [Rises]_vars
  <2> SUFFICES ASSUME ReaderInv, Take
               PROVE  Head(history).sn > last_taken[Head(history).writer]
    OBVIOUS
  <2> DEFINE m == history[1]
  <2>1. history \in Seq(Sample) /\ last_taken \in [Writers -> 0..MaxSequence]
    BY DEF ReaderInv, TypeOK
  <2>2. history # <<>>
    BY DEF Take
  <2>3. Head(history) = m /\ 1 \in 1..Len(history) /\ m \in Sample
    BY <2>1, <2>2
  <2>4. last_taken[m.writer] < m.sn
    BY <2>3 DEF ReaderInv, HistoryInv
  <2>5. last_taken[m.writer] \in Int /\ m.sn \in Int
    BY <2>1, <2>3, SequenceAssumption DEF Sample, SequenceNumbers
  <2> QED BY <2>3, <2>4, <2>5
<1> QED BY <1>1, ReaderInvariant, PTL DEF Spec, TakenInOrder

-----------------------------------------------------------------------------
(* Nothing that a reply has acknowledged is taken back: the state t comes  *)
(* after s as far as an ACKNACK can tell.                                  *)
Advances(s, t) ==
  /\ t.highest_contiguous >= s.highest_contiguous
  /\ t.last_announced >= s.last_announced
  /\ \A n \in SequenceNumbers : n > t.highest_contiguous =>
       /\ n \in s.pending => n \in t.pending
       /\ n \in s.received => n \in t.received
       /\ n \in s.irrelevant => n \in t.irrelevant

LEMMA AdvanceKeepsAcks ==
  ASSUME NEW s \in WriterStates, NEW t \in WriterStates, Advances(s, t),
         NEW n \in SequenceNumbers, Acknowledges(AckNack(s), n)
  PROVE  Acknowledges(AckNack(t), n)
<1>1. /\ s.highest_contiguous \in Nat /\ t.highest_contiguous \in Nat
      /\ s.last_announced \in Nat /\ t.last_announced \in Nat
      /\ n \in Nat /\ MaxBits \in Nat
      /\ s.pending \subseteq SequenceNumbers
  BY BitsAssumption, SequenceAssumption DEF WriterStates, SequenceNumbers
<1>2. CASE n <= t.highest_contiguous
  BY <1>1, <1>2 DEF Acknowledges, AckNack
<1>3. CASE n > t.highest_contiguous
  <2>1. n >= s.highest_contiguous + 1
    BY <1>1, <1>3 DEF Advances
  <2>2. /\ n \in Known(s) /\ n <= s.highest_contiguous + MaxBits
        /\ n \in s.received \cup s.irrelevant
    BY <1>1, <2>1 DEF Acknowledges, AckNack
  <2>3. n \in Known(t)
    <3>1. CASE n <= s.last_announced
      BY <1>1, <3>1 DEF Advances, Known
    <3>2. CASE \E p \in s.pending : n <= p
      <4>1. PICK p \in s.pending : n <= p
        BY <3>2
      <4>2. p \in SequenceNumbers /\ p > t.highest_contiguous
        BY <1>1, <1>3, <4>1 DEF SequenceNumbers
      <4>3. p \in t.pending
        BY <4>1, <4>2 DEF Advances
      <4> QED BY <4>1, <4>3 DEF Known
    <3> QED BY <2>2, <3>1, <3>2 DEF Known
  <2>4. n \in t.received \cup t.irrelevant
    BY <1>3, <2>2 DEF Advances
  <2>5. n <= t.highest_contiguous + MaxBits
    BY <1>1, <2>2 DEF Advances
  <2> QED BY <1>3, <2>3, <2>4, <2>5 DEF Acknowledges, AckNack
<1> QED BY <1>1, <1>2, <1>3

LEMMA AdvancesTwice ==
  ASSUME NEW s \in WriterStates, NEW t \in WriterStates, NEW u \in WriterStates,
         Advances(s, t), Advances(t, u)
  PROVE  Advances(s, u)
<1>1. /\ s.highest_contiguous \in Nat /\ t.highest_contiguous \in Nat
      /\ u.highest_contiguous \in Nat /\ s.last_announced \in Nat
      /\ t.last_announced \in Nat /\ u.last_announced \in Nat
      /\ SequenceNumbers \subseteq Nat
  BY SequenceAssumption DEF WriterStates, SequenceNumbers
<1> QED BY <1>1 DEF Advances

(* last_announced_sequence only grows.                                     *)
LEMMA Announces ==
  ASSUME NEW s \in WriterStates
  PROVE  /\ \A sn \in SequenceNumbers :
              AfterData(s, sn).last_announced >= s.last_announced
         /\ \A first, last \in SequenceNumbers :
              AfterHeartbeat(s, first, last).last_announced >= s.last_announced
         /\ \A start, end, bits :
              AfterGap(s, start, end, bits).last_announced = s.last_announced
         /\ \A n : AfterCommit(s, n).last_announced = s.last_announced
<1>1. s.last_announced \in Nat /\ SequenceNumbers \subseteq Nat
  BY SequenceAssumption DEF WriterStates, SequenceNumbers
<1>2. \A m \in SequenceNumbers : Larger(s.last_announced, m) >= s.last_announced
  BY <1>1 DEF Larger
<1>3. \A sn \in SequenceNumbers :
        AfterData(s, sn).last_announced = Larger(s.last_announced, sn)
  BY DEF AfterData, WriterStates
<1>4. \A first, last \in SequenceNumbers :
        AfterHeartbeat(s, first, last).last_announced = Larger(s.last_announced, last)
  BY DEF AfterHeartbeat, WriterStates
<1>5. \A start, end, bits :
        AfterGap(s, start, end, bits).last_announced = s.last_announced
  BY DEF AfterGap, WriterStates
<1>6. \A n : AfterCommit(s, n).last_announced = s.last_announced
  BY DEF AfterCommit, WriterStates
<1> QED BY <1>2, <1>3, <1>4, <1>5, <1>6

LEMMA DataAdvances ==
  ASSUME NEW s \in WriterStates, NEW sn \in SequenceNumbers
  PROVE  Advances(s, AfterData(s, sn))
<1> DEFINE t == AfterData(s, sn)
<1>1. /\ t.highest_contiguous = s.highest_contiguous
      /\ t.irrelevant = s.irrelevant
      /\ s.received \subseteq t.received /\ s.pending \subseteq t.pending
  BY AfterDataFields
<1>2. t.last_announced >= s.last_announced
  BY Announces
<1>3. s.highest_contiguous \in Nat
  BY DEF WriterStates
<1> HIDE DEF t
<1> QED BY <1>1, <1>2, <1>3 DEF Advances, t

(* What a HEARTBEAT throws away lies below the number it moves to.         *)
LEMMA HeartbeatAdvances ==
  ASSUME NEW s \in WriterStates,
         NEW first \in SequenceNumbers, NEW last \in SequenceNumbers,
         s.received = s.pending,
         ~s.range_initialized => s.highest_contiguous = 0
  PROVE  Advances(s, AfterHeartbeat(s, first, last))
<1> DEFINE t      == AfterHeartbeat(s, first, last)
           beyond == first > s.highest_contiguous + 1
           purged == IF s.range_initialized /\ beyond
                     THEN {n \in s.pending : n < first} ELSE {}
<1>1. /\ t.highest_contiguous = IF ~s.range_initialized \/ beyond
                                THEN first - 1 ELSE s.highest_contiguous
      /\ t.irrelevant = s.irrelevant
      /\ t.received = s.received \ purged
      /\ t.pending = s.pending \ purged
  BY AfterHeartbeatFields
<1>2. t.last_announced >= s.last_announced
  BY Announces
<1>3. /\ s.highest_contiguous \in Nat /\ first \in Nat \ {0}
      /\ SequenceNumbers \subseteq Nat
  BY DEF WriterStates, SequenceNumbers
<1> HIDE DEF t
<1>4. t.highest_contiguous >= s.highest_contiguous
  BY <1>1, <1>3
<1>5. \A n \in SequenceNumbers : n > t.highest_contiguous => n \notin purged
  BY <1>1, <1>3
<1> HIDE DEF purged
<1> QED BY <1>1, <1>2, <1>4, <1>5 DEF Advances, t

(* Likewise a GAP.                                                         *)
LEMMA GapAdvances ==
  ASSUME NEW s \in WriterStates, NEW start \in SequenceNumbers,
         NEW end \in 0..MaxSequence, NEW bits \in SUBSET SequenceNumbers
  PROVE  Advances(s, AfterGap(s, start, end, bits))
<1> DEFINE t      == AfterGap(s, start, end, bits)
           next   == s.highest_contiguous + 1
           closes == start <= next /\ end >= next
           purged == IF closes THEN {n \in s.pending : n <= end} ELSE {}
           kept   == IF closes THEN {}
                     ELSE {n \in start..end : n <= start + MaxBits - 1}
<1>1. /\ t.highest_contiguous = IF closes THEN end ELSE s.highest_contiguous
      /\ t.irrelevant = s.irrelevant \cup kept \cup bits
      /\ t.received = s.received \ purged
      /\ t.pending = s.pending \ purged
  BY AfterGapFields
<1>2. t.last_announced = s.last_announced
  BY Announces
<1>3. /\ s.highest_contiguous \in Nat /\ end \in Nat /\ s.last_announced \in Nat
      /\ SequenceNumbers \subseteq Nat
  BY SequenceAssumption DEF WriterStates, SequenceNumbers
<1> HIDE DEF t
<1>4. t.highest_contiguous >= s.highest_contiguous
  BY <1>1, <1>3
<1>5. \A n \in SequenceNumbers : n > t.highest_contiguous => n \notin purged
  BY <1>1, <1>3
<1> HIDE DEF purged, kept, closes
<1>6. t.last_announced >= s.last_announced
  BY <1>2, <1>3
<1> QED BY <1>1, <1>4, <1>5, <1>6 DEF Advances, t

LEMMA CommitAdvances ==
  ASSUME NEW s \in WriterStates, NEW n \in 0..MaxSequence, SettlesAt(s, n)
  PROVE  Advances(s, AfterCommit(s, n))
<1> DEFINE t      == AfterCommit(s, n)
           walked == (s.highest_contiguous + 1)..n
<1>1. /\ t.highest_contiguous = n
      /\ t.irrelevant = s.irrelevant \ walked
      /\ t.received = s.received \ walked
      /\ t.pending = s.pending \ walked
  BY AfterCommitFields
<1>2. t.last_announced = s.last_announced
  BY Announces
<1>3. /\ s.highest_contiguous \in Nat /\ n \in Nat /\ s.last_announced \in Nat
      /\ SequenceNumbers \subseteq Nat
  BY SequenceAssumption DEF WriterStates, SequenceNumbers
<1>4. n >= s.highest_contiguous
  BY <1>3 DEF SettlesAt, CommitsTo
<1>5. \A m \in SequenceNumbers : m > n => m \notin walked
  BY <1>3
<1> HIDE DEF t, walked
<1>6. t.last_announced >= s.last_announced
  BY <1>2, <1>3
<1> QED BY <1>1, <1>4, <1>5, <1>6 DEF Advances, t

(* A writer that was told a sample has arrived, or need not arrive, is     *)
(* never told otherwise, although HEARTBEAT and GAP throw away samples     *)
(* that replies have acknowledged: any ACKNACK, however old, stays true.   *)
THEOREM AcksStay == Spec => AcksAreKept
<1> DEFINE Kept == \A w \in Writers : \A n \in SequenceNumbers :
                     Acknowledges(AckNack(reader[w]), n)
                       => Acknowledges(AckNack(reader'[w]), n)
<1>1. ReaderInv /\ [Next]_vars => [Kept]_vars
  <2> SUFFICES ASSUME ReaderInv, Next,
                      NEW w \in Writers, NEW n \in SequenceNumbers,
                      Acknowledges(AckNack(reader[w]), n)
               PROVE  Acknowledges(AckNack(reader'[w]), n)
    OBVIOUS
  <2>1. \A v \in Writers :
          /\ reader[v] \in WriterStates
          /\ reader[v].received = reader[v].pending
          /\ ~reader[v].range_initialized => reader[v].highest_contiguous = 0
    BY DEF ReaderInv, TypeOK, FaithfulInv, Faithful
  (* Whatever handler it was, the commit after it only advances further.   *)
  <2>2. ASSUME NEW v \in Writers, NEW s \in WriterStates,
               Advances(reader[v], s), Settle(v, s)
        PROVE  Acknowledges(AckNack(reader'[w]), n)
    <3>1. PICK k \in 0..MaxSequence :
            /\ SettlesAt(s, k)
            /\ reader' = [reader EXCEPT ![v] = AfterCommit(s, k)]
      BY <2>2 DEF Settle
    <3>2. CASE v = w
      <4> DEFINE t == AfterCommit(s, k)
      <4>1. t \in WriterStates /\ Advances(s, t)
        BY <3>1, AfterCommitFields, CommitAdvances
      <4>2. reader'[w] = t
        BY <3>1, <3>2 DEF ReaderInv, TypeOK
      <4> HIDE DEF t
      <4>3. Advances(reader[w], t)
        BY <2>1, <2>2, <3>2, <4>1, AdvancesTwice
      <4> QED BY <2>1, <4>1, <4>2, <4>3, AdvanceKeepsAcks
    <3>3. CASE v # w
      BY <3>1, <3>3 DEF ReaderInv, TypeOK
    <3> QED BY <3>2, <3>3
  <2>3. ASSUME NEW v \in Writers, NEW sn \in SequenceNumbers, ReceiveData(v, sn)
        PROVE  Acknowledges(AckNack(reader'[w]), n)
    <3> DEFINE s == AfterData(reader[v], sn)
    <3>1. s \in WriterStates /\ Advances(reader[v], s)
      BY <2>1, AfterDataFields, DataAdvances
    <3>2. Settle(v, s)
      BY <2>3 DEF ReceiveData
    <3> HIDE DEF s
    <3> QED BY <2>2, <3>1, <3>2
  <2>4. ASSUME NEW v \in Writers, NEW first \in SequenceNumbers, NEW last \in SequenceNumbers,
               ReceiveHeartbeat(v, first, last)
        PROVE  Acknowledges(AckNack(reader'[w]), n)
    <3> DEFINE s == AfterHeartbeat(reader[v], first, last)
    <3>1. s \in WriterStates /\ Advances(reader[v], s)
      BY <2>1, AfterHeartbeatFields, HeartbeatAdvances
    <3>2. Settle(v, s)
      BY <2>4 DEF ReceiveHeartbeat
    <3> HIDE DEF s
    <3> QED BY <2>2, <3>1, <3>2
  <2>5. ASSUME NEW v \in Writers, NEW start \in SequenceNumbers,
               NEW base \in 1..(MaxSequence + 1), NEW bits \in SUBSET SequenceNumbers,
               ReceiveGap(v, start, base, bits)
        PROVE  Acknowledges(AckNack(reader'[w]), n)
    <3> DEFINE s == AfterGap(reader[v], start, base - 1, bits)
    <3>1. base - 1 \in 0..MaxSequence
      BY SequenceAssumption
    <3>2. s \in WriterStates /\ Advances(reader[v], s)
      BY <2>1, <3>1, AfterGapFields, GapAdvances
    <3>3. Settle(v, s)
      BY <2>5 DEF ReceiveGap
    <3> HIDE DEF s
    <3> QED BY <2>2, <3>2, <3>3
  <2>6. CASE Take
    BY <2>6 DEF Take
  <2> QED BY <2>3, <2>4, <2>5, <2>6, Steps
<1> QED BY <1>1, ReaderInvariant, PTL DEF Spec, AcksAreKept
=============================================================================
