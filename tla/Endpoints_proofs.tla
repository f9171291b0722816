--------------------------- MODULE Endpoints_proofs ---------------------------
(***************************************************************************)
(* Proofs about the two halves of a DataWriter and a DataReader without    *)
(* Reliable QoS. StatelessEndpoint, the RTPS half: what write answers, and *)
(* that the writer, the network and the histories together are a Best-     *)
(* Effort topic, for any readers and records, any depth and any number of  *)
(* samples. Entities, the DDS half: that an entity without an error is     *)
(* usable, that every announcement is backed, and that no two entities     *)
(* hold one id, for any number of entities and any size of the key space.  *)
(***************************************************************************)
EXTENDS StatelessEndpoint, Entities, FiniteSetTheorems, TLAPS

-----------------------------------------------------------------------------
(* The inductive invariant.                                                *)

(* No reader comes up twice in a fan-out.                                  *)
Distinct(q) == \A i, j \in 1..Len(q) : i # j => q[i] # q[j]

(* A fan-out sends the current sample: the readers still to come do not    *)
(* have it yet, all others do.                                             *)
FanOutInv ==
  Busy =>
    /\ answer = "none" /\ written >= 1
    /\ \A i \in 1..Len(remaining), r \in Readers : remaining[i] = r =>
         \A k \in 1..Len(offered[r]) : offered[r][k] < written
    /\ \A i \in 1..Len(readers) :
         Contains(remaining, readers[i]) \/ Contains(offered[readers[i]], written)

(* No sample is offered before it is written, none received that was not   *)
(* offered.                                                                *)
OfferedInv ==
  /\ \A r \in Readers : \A k \in 1..Len(offered[r]) : offered[r][k] <= written
  /\ \A m \in network : Contains(offered[m.to], m.sn)

(* A history is the last part of what has arrived.                         *)
positions == [r \in Readers |-> Len(arrived[r]) - Len(history[r])]

HistoryInv ==
  \A r \in Readers :
    /\ positions[r] \in Nat
    /\ \A i \in 1..Len(history[r]) : history[r][i] = arrived[r][positions[r] + i]

EndpointInv ==
  /\ TypeOK
  /\ Distinct(remaining)
  /\ FanOutInv /\ OfferedInv /\ TrueMeansSentToAll /\ HistoryInv

-----------------------------------------------------------------------------
(* The operators.                                                          *)

LEMMA AppendEffect ==
  ASSUME NEW T, NEW q \in Seq(T), NEW x \in T
  PROVE  /\ Append(q, x) \in Seq(T) /\ Len(Append(q, x)) = Len(q) + 1
         /\ Len(q) \in Nat
         /\ \A i \in 1..Len(q) : Append(q, x)[i] = q[i]
         /\ Append(q, x)[Len(q) + 1] = x
         /\ \A y : Contains(Append(q, x), y) <=> Contains(q, y) \/ y = x
<1>1. /\ Append(q, x) \in Seq(T) /\ Len(Append(q, x)) = Len(q) + 1 /\ Len(q) \in Nat
      /\ \A i \in 1..Len(q) : Append(q, x)[i] = q[i]
      /\ Append(q, x)[Len(q) + 1] = x
  OBVIOUS
<1> DEFINE a == Append(q, x)
<1> HIDE DEF a
<1>2. /\ Len(a) = Len(q) + 1 /\ \A i \in 1..Len(q) : a[i] = q[i]
      /\ a[Len(q) + 1] = x
  BY <1>1 DEF a
<1>3. \A y : Contains(a, y) <=> Contains(q, y) \/ y = x
  <2>1. \A i \in 1..Len(a) : i \in 1..Len(q) \/ i = Len(q) + 1
    BY <1>1, <1>2
  <2>2. 1..Len(q) \subseteq 1..Len(a) /\ Len(q) + 1 \in 1..Len(a)
    BY <1>1, <1>2
  <2> QED BY <1>2, <2>1, <2>2 DEF Contains
<1> QED BY <1>1, <1>3 DEF a

LEMMA TailEffect ==
  ASSUME NEW T, NEW q \in Seq(T), q # <<>>
  PROVE  /\ Tail(q) \in Seq(T) /\ Len(Tail(q)) = Len(q) - 1
         /\ Len(q) \in Nat \ {0}
         /\ Head(q) = q[1] /\ q[1] \in T
         /\ \A i \in 1..Len(Tail(q)) : Tail(q)[i] = q[i + 1] /\ i + 1 \in 2..Len(q)
         /\ \A y : Contains(q, y) => y = q[1] \/ Contains(Tail(q), y)
<1>1. /\ Tail(q) \in Seq(T) /\ Len(Tail(q)) = Len(q) - 1
      /\ Len(q) \in Nat \ {0}
      /\ Head(q) = q[1] /\ q[1] \in T
      /\ \A i \in 1..Len(Tail(q)) : Tail(q)[i] = q[i + 1]
  OBVIOUS
<1>2. \A i \in 1..Len(Tail(q)) : i + 1 \in 2..Len(q)
  BY <1>1
<1>3. ASSUME NEW y, Contains(q, y), y # q[1] PROVE Contains(Tail(q), y)
  <2>1. PICK k \in 1..Len(q) : q[k] = y
    BY <1>3 DEF Contains
  <2>2. k # 1
    BY <1>3, <2>1
  <2>3. k - 1 \in 1..Len(Tail(q)) /\ (k - 1) + 1 = k
    BY <1>1, <2>2
  <2>4. Tail(q)[k - 1] = y
    BY <1>1, <2>1, <2>3
  <2> QED BY <2>3, <2>4 DEF Contains
<1> QED BY <1>1, <1>2, <1>3

(* unique_readers leaves no proxy twice.                                   *)
LEMMA UniqueEffect ==
  ASSUME NEW q \in Seq(Readers), NEW s \in UniqueReaders(q)
  PROVE  s \in Seq(Readers) /\ Distinct(s)
<1> DEFINE stay == {i \in 1..Len(q) : \A j \in 1..(i - 1) : q[j] # q[i]}
           c    == Cardinality(stay)
<1>1. Len(q) \in Nat /\ \A i \in 1..Len(q) : q[i] \in Readers
  OBVIOUS
<1>2. c \in Nat
  <2>1. IsFiniteSet(1..Len(q))
    BY <1>1, FS_Interval
  <2>2. IsFiniteSet(stay)
    <3>1. stay \subseteq 1..Len(q)
      OBVIOUS
    <3> HIDE DEF stay
    <3> QED BY <2>1, <3>1, FS_Subset
  <2> HIDE DEF stay
  <2> QED BY <2>2, FS_CardinalityType
<1>3. PICK p \in [1..c -> stay] :
        /\ \A i, j \in 1..c : i < j => p[i] < p[j]
        /\ s = [i \in 1..c |-> q[p[i]]]
  BY DEF UniqueReaders
<1> HIDE DEF c
<1>4. \A i \in 1..c : p[i] \in 1..Len(q)
  BY <1>3
<1>5. ASSUME NEW i \in 1..c, NEW j \in 1..c, i < j PROVE q[p[i]] # q[p[j]]
  <2>1. p[i] < p[j] /\ p[i] \in 1..Len(q) /\ p[j] \in stay
    BY <1>3, <1>4, <1>5
  <2>2. p[i] \in 1..(p[j] - 1)
    BY <1>1, <1>4, <2>1
  <2> QED BY <2>1, <2>2
<1> HIDE DEF stay
<1>6. s \in Seq(Readers) /\ Len(s) = c /\ \A i \in 1..c : s[i] = q[p[i]]
  BY <1>1, <1>2, <1>3, <1>4
<1>7. ASSUME NEW i \in 1..c, NEW j \in 1..c, i # j PROVE s[i] # s[j]
  <2>1. CASE i < j
    BY <1>5, <1>6, <2>1
  <2>2. CASE j < i
    BY <1>5, <1>6, <2>2
  <2> QED BY <1>7, <2>1, <2>2
<1> QED BY <1>6, <1>7 DEF Distinct

LEMMA MatchEffect ==
  ASSUME NEW S \in SUBSET Records, NEW records \in SetToSeqs(S), Match(records)
  PROVE  readers' \in Seq(Readers) /\ Distinct(readers')
<1>1. IsFiniteSet(S)
  BY RecordsAssumption, FS_Subset
<1>2. Cardinality(S) \in Nat
  BY <1>1, FS_CardinalityType
<1>3. records \in [1..Cardinality(S) -> S]
  BY DEF SetToSeqs
<1>4. records \in Seq(Records)
  BY <1>2, <1>3
<1>5. [i \in 1..Len(records) |-> Address[records[i]]] \in Seq(Readers)
  BY <1>4, AddressAssumption
<1> QED BY <1>5, UniqueEffect DEF Match

LEMMA InitInv == Init => EndpointInv
<1> SUFFICES ASSUME Init PROVE EndpointInv
  OBVIOUS
<1>1. TypeOK
  BY BoundsAssumption DEF Init, TypeOK
<1>2. Distinct(remaining) /\ FanOutInv /\ TrueMeansSentToAll
  BY DEF Init, Distinct, FanOutInv, Busy, TrueMeansSentToAll
<1>3. OfferedInv /\ HistoryInv
  BY DEF Init, OfferedInv, HistoryInv, positions
<1> QED BY <1>1, <1>2, <1>3 DEF EndpointInv

-----------------------------------------------------------------------------
(* The steps of the writer.                                                *)

LEMMA WriteStep ==
  ASSUME EndpointInv, NEW S \in SUBSET Records, NEW records \in SetToSeqs(S), Write(records)
  PROVE  EndpointInv'
<1> USE DEF EndpointInv
<1>1. /\ written \in 0..MaxSequence /\ written < MaxSequence /\ written' = written + 1
      /\ remaining' = readers' /\ answer' = "none"
      /\ UNCHANGED <<offered, network, history, arrived, latest>>
  BY DEF Write, TypeOK
<1>2. readers' \in Seq(Readers) /\ Distinct(readers')
  BY MatchEffect DEF Write
<1>3. MaxSequence \in Nat
  BY BoundsAssumption
<1>4. TypeOK'
  BY <1>1, <1>2, <1>3 DEF TypeOK, Datagrams, SequenceNumbers
<1>5. Distinct(remaining)'
  BY <1>1, <1>2 DEF Distinct
<1>6. \A r \in Readers : \A k \in 1..Len(offered[r]) :
        offered[r][k] <= written /\ offered[r][k] \in Nat
  <2> SUFFICES ASSUME NEW r \in Readers, NEW k \in 1..Len(offered[r])
               PROVE  offered[r][k] <= written /\ offered[r][k] \in Nat
    OBVIOUS
  <2>1. offered[r] \in Seq(SequenceNumbers)
    BY DEF TypeOK
  <2>2. offered[r][k] \in SequenceNumbers
    BY <2>1
  <2> QED BY <1>3, <2>2 DEF OfferedInv, SequenceNumbers
<1>7. FanOutInv'
  <2>1. \A i \in 1..Len(readers') : Contains(remaining', readers'[i])
    BY <1>1 DEF Contains
  <2>2. written' >= 1
    BY <1>1, <1>3
  <2>3. \A r \in Readers : \A k \in 1..Len(offered'[r]) : offered'[r][k] < written'
    BY <1>1, <1>3, <1>6
  <2> QED BY <1>1, <2>1, <2>2, <2>3 DEF FanOutInv
<1>8. OfferedInv'
  BY <1>1, <1>3, <1>6 DEF OfferedInv
<1>9. TrueMeansSentToAll' /\ HistoryInv'
  BY <1>1 DEF TrueMeansSentToAll, HistoryInv, positions
<1> QED BY <1>4, <1>5, <1>7, <1>8, <1>9

LEMMA WriteRefusedStep ==
  ASSUME EndpointInv, NEW S \in SUBSET Records, NEW records \in SetToSeqs(S),
         WriteRefused(records)
  PROVE  EndpointInv'
<1> USE DEF EndpointInv
<1>1. readers' \in Seq(Readers)
  BY MatchEffect DEF WriteRefused, TypeOK
<1>2. /\ ~Busy /\ answer' = "false"
      /\ UNCHANGED <<written, remaining, offered, network, history, arrived, latest>>
  BY DEF WriteRefused
<1>3. TypeOK'
  BY <1>1, <1>2 DEF TypeOK
<1>4. Distinct(remaining)' /\ FanOutInv' /\ TrueMeansSentToAll'
  BY <1>2 DEF Distinct, FanOutInv, Busy, TrueMeansSentToAll
<1>5. OfferedInv' /\ HistoryInv'
  BY <1>2 DEF OfferedInv, HistoryInv, positions
<1> QED BY <1>3, <1>4, <1>5

LEMMA SendStep ==
  ASSUME EndpointInv, SendNext
  PROVE  EndpointInv'
<1> USE DEF EndpointInv
<1> DEFINE h == remaining[1]
<1>1. /\ remaining \in Seq(Readers) /\ remaining # <<>>
      /\ readers \in Seq(Readers) /\ offered \in [Readers -> Seq(SequenceNumbers)]
  BY DEF TypeOK, SendNext, Busy
<1>2. /\ Tail(remaining) \in Seq(Readers) /\ Len(Tail(remaining)) = Len(remaining) - 1
      /\ Len(remaining) \in Nat \ {0} /\ Head(remaining) = h /\ h \in Readers
      /\ \A i \in 1..Len(Tail(remaining)) :
           Tail(remaining)[i] = remaining[i + 1] /\ i + 1 \in 2..Len(remaining)
      /\ \A y : Contains(remaining, y) => y = h \/ Contains(Tail(remaining), y)
  BY <1>1, TailEffect
<1>3. /\ written \in SequenceNumbers /\ written \in Nat /\ answer = "none"
      /\ \A i \in 1..Len(remaining), r \in Readers : remaining[i] = r =>
           \A k \in 1..Len(offered[r]) : offered[r][k] < written
      /\ \A i \in 1..Len(readers) :
           Contains(remaining, readers[i]) \/ Contains(offered[readers[i]], written)
  <2>1. /\ FanOutInv /\ Busy /\ written \in 0..MaxSequence /\ MaxSequence \in Nat
    BY BoundsAssumption DEF SendNext, TypeOK
  <2> QED BY <2>1 DEF FanOutInv, SequenceNumbers
<1> HIDE DEF h
<1>4. /\ network' = network \cup {[sn |-> written, to |-> h]}
      /\ offered' = [offered EXCEPT ![h] = Append(@, written)]
      /\ remaining' = Tail(remaining)
      /\ answer' = IF remaining' = <<>> THEN "true" ELSE "none"
      /\ UNCHANGED <<written, readers, history, arrived, latest>>
  BY <1>2 DEF SendNext
<1> DEFINE more == Append(offered[h], written)
<1>5. /\ offered[h] \in Seq(SequenceNumbers)
      /\ more \in Seq(SequenceNumbers) /\ Len(more) = Len(offered[h]) + 1
      /\ Len(offered[h]) \in Nat
      /\ \A i \in 1..Len(offered[h]) : more[i] = offered[h][i]
      /\ more[Len(offered[h]) + 1] = written
      /\ \A y : Contains(more, y) <=> Contains(offered[h], y) \/ y = written
  <2>1. offered[h] \in Seq(SequenceNumbers)
    BY <1>1, <1>2
  <2> QED BY <1>3, <2>1, AppendEffect
<1> HIDE DEF more
<1>6. \A r \in Readers : offered'[r] = IF r = h THEN more ELSE offered[r]
  BY <1>1, <1>4 DEF more
<1>7. TypeOK'
  <2>1. network' \subseteq Datagrams
    <3>1. [sn |-> written, to |-> h] \in Datagrams
      BY <1>2, <1>3 DEF Datagrams
    <3> QED BY <1>4, <3>1 DEF TypeOK
  <2>2. offered' \in [Readers -> Seq(SequenceNumbers)]
    BY <1>1, <1>4, <1>5 DEF more
  <2> QED BY <1>2, <1>4, <2>1, <2>2 DEF TypeOK
<1>8. Distinct(remaining)'
  <2> SUFFICES ASSUME NEW i \in 1..Len(Tail(remaining)),
                      NEW j \in 1..Len(Tail(remaining)), i # j
               PROVE  Tail(remaining)[i] # Tail(remaining)[j]
    BY <1>4 DEF Distinct
  <2>1. i + 1 \in 1..Len(remaining) /\ j + 1 \in 1..Len(remaining) /\ i + 1 # j + 1
    BY <1>2
  <2> QED BY <1>2, <2>1 DEF Distinct
<1>9. \A i \in 1..Len(readers') :
        Contains(remaining', readers'[i]) \/ Contains(offered'[readers'[i]], written')
  <2> SUFFICES ASSUME NEW i \in 1..Len(readers)
               PROVE  \/ Contains(Tail(remaining), readers[i])
                      \/ Contains(offered'[readers[i]], written)
    BY <1>4
  <2>1. readers[i] \in Readers
    BY <1>1
  <2>2. CASE readers[i] = h
    BY <1>5, <1>6, <2>1, <2>2
  <2>3. CASE readers[i] # h
    BY <1>2, <1>3, <1>6, <2>1, <2>3
  <2> QED BY <2>2, <2>3
<1>10. FanOutInv'
  <2> SUFFICES ASSUME Busy'
               PROVE  /\ answer' = "none" /\ written' >= 1
                      /\ \A i \in 1..Len(remaining'), r \in Readers : remaining'[i] = r =>
                           \A k \in 1..Len(offered'[r]) : offered'[r][k] < written'
    BY <1>9 DEF FanOutInv
  <2>1. answer' = "none" /\ written' >= 1
    BY <1>3, <1>4 DEF Busy, SequenceNumbers
  <2>2. ASSUME NEW i \in 1..Len(Tail(remaining)), NEW r \in Readers,
               Tail(remaining)[i] = r, NEW k \in 1..Len(offered'[r])
        PROVE  offered'[r][k] < written
    <3>1. i + 1 \in 1..Len(remaining) /\ remaining[i + 1] = r /\ i + 1 # 1
          /\ 1 \in 1..Len(remaining)
      BY <1>2, <2>2
    <3>2. r # h
      BY <3>1 DEF Distinct, h
    <3> QED BY <1>3, <1>6, <2>2, <3>1, <3>2
  <2> QED BY <1>4, <2>1, <2>2
<1>11. OfferedInv'
  <2>1. ASSUME NEW r \in Readers, NEW k \in 1..Len(offered'[r])
        PROVE  offered'[r][k] <= written
    <3>1. CASE r = h
      <4>1. k \in 1..Len(offered[h]) \/ k = Len(offered[h]) + 1
        BY <1>5, <1>6, <3>1
      <4>2. \A j \in 1..Len(offered[h]) : offered[h][j] <= written
        BY <1>2 DEF OfferedInv
      <4> QED BY <1>3, <1>5, <1>6, <3>1, <4>1, <4>2
    <3>2. CASE r # h
      BY <1>6, <3>2 DEF OfferedInv
    <3> QED BY <3>1, <3>2
  <2>2. ASSUME NEW m \in network' PROVE Contains(offered'[m.to], m.sn)
    <3>1. CASE m \in network
      <4>1. m.to \in Readers
        BY <3>1 DEF TypeOK, Datagrams
      <4>2. Contains(offered[m.to], m.sn)
        BY <3>1 DEF OfferedInv
      <4> QED BY <1>5, <1>6, <4>1, <4>2
    <3>2. CASE m = [sn |-> written, to |-> h]
      BY <1>2, <1>5, <1>6, <3>2
    <3> QED BY <1>4, <2>2, <3>1, <3>2
  <2> QED BY <1>4, <2>1, <2>2 DEF OfferedInv
<1>12. TrueMeansSentToAll'
  <2> SUFFICES ASSUME answer' = "true", NEW i \in 1..Len(readers')
               PROVE  Contains(offered'[readers'[i]], written')
    <3>1. readers' \in Seq(Readers)
      BY <1>7 DEF TypeOK
    <3> QED BY <3>1 DEF TrueMeansSentToAll, ToSet
  <2>1. ~Contains(remaining', readers'[i])
    <3>1. remaining' = <<>>
      BY <1>4
    <3>2. Len(remaining') = 0
      BY <3>1
    <3> QED BY <3>2 DEF Contains
  <2> QED BY <1>9, <2>1
<1>13. HistoryInv'
  BY <1>4 DEF HistoryInv, positions
<1> QED BY <1>7, <1>8, <1>10, <1>11, <1>12, <1>13

LEMMA SendFailsStep ==
  ASSUME EndpointInv, SendFails
  PROVE  EndpointInv'
<1> USE DEF EndpointInv
<1>1. /\ remaining' = <<>> /\ answer' = "false"
      /\ UNCHANGED <<written, readers, offered, network, history, arrived, latest>>
  BY DEF SendFails
<1>2. TypeOK' /\ Distinct(remaining)' /\ FanOutInv' /\ TrueMeansSentToAll'
  BY <1>1 DEF TypeOK, Distinct, FanOutInv, Busy, TrueMeansSentToAll
<1>3. OfferedInv' /\ HistoryInv'
  BY <1>1 DEF OfferedInv, HistoryInv, positions
<1> QED BY <1>2, <1>3

-----------------------------------------------------------------------------
(* The steps of the network and of the readers.                            *)

LEMMA LoseStep ==
  ASSUME EndpointInv, Lose
  PROVE  EndpointInv'
<1> USE DEF EndpointInv
<1>1. network' \subseteq network /\ UNCHANGED <<writer, history, arrived, latest>>
  BY DEF Lose
<1>2. TypeOK' /\ Distinct(remaining)' /\ FanOutInv' /\ TrueMeansSentToAll'
  BY <1>1 DEF TypeOK, Distinct, FanOutInv, Busy, TrueMeansSentToAll, writer
<1>3. OfferedInv' /\ HistoryInv'
  BY <1>1 DEF OfferedInv, HistoryInv, positions, writer
<1> QED BY <1>2, <1>3

(* KeepLast passes over at most the oldest sample, the one after position. *)
LEMMA AddEffect ==
  ASSUME EndpointInv, NEW r \in Readers, NEW n \in SequenceNumbers
  PROVE  LET q == history[r]
             a == arrived[r]
             k == KeepLast(Append(q, n))
             b == Append(a, n)
             p == IF Len(q) = HistoryDepth THEN positions[r] + 1 ELSE positions[r]
         IN  /\ k \in Seq(SequenceNumbers) /\ Len(k) <= HistoryDepth
             /\ b \in Seq(SequenceNumbers) /\ Len(b) = Len(a) + 1
             /\ p \in Nat /\ Len(b) - Len(k) = p
             /\ \A i \in 1..Len(k) : k[i] = b[p + i]
<1> DEFINE q == history[r]
           a == arrived[r]
           x == Append(q, n)
           k == KeepLast(x)
           b == Append(a, n)
           p == IF Len(q) = HistoryDepth THEN positions[r] + 1 ELSE positions[r]
<1>1. /\ q \in Seq(SequenceNumbers) /\ a \in Seq(SequenceNumbers)
      /\ Len(q) <= HistoryDepth /\ HistoryDepth \in Nat \ {0}
      /\ positions[r] \in Nat /\ positions[r] = Len(a) - Len(q)
      /\ \A i \in 1..Len(q) : q[i] = a[positions[r] + i]
  BY BoundsAssumption DEF EndpointInv, TypeOK, HistoryInv, positions
<1> DEFINE o == positions[r]
<1> HIDE DEF q, a, o
<1>2. /\ x \in Seq(SequenceNumbers) /\ Len(x) = Len(q) + 1 /\ Len(q) \in Nat
      /\ \A i \in 1..Len(q) : x[i] = q[i]
      /\ x[Len(q) + 1] = n
  BY <1>1, AppendEffect
<1>3. /\ b \in Seq(SequenceNumbers) /\ Len(b) = Len(a) + 1 /\ Len(a) \in Nat
      /\ \A i \in 1..Len(a) : b[i] = a[i]
      /\ b[Len(a) + 1] = n
  BY <1>1, AppendEffect
<1> HIDE DEF x, b
<1>4. ASSUME NEW i \in 1..(Len(q) + 1) PROVE x[i] = b[o + i]
  <2>1. CASE i = Len(q) + 1
    <3>1. o + i = Len(a) + 1
      BY <1>1, <1>2, <1>3, <2>1 DEF o
    <3> QED BY <1>2, <1>3, <2>1, <3>1
  <2>2. CASE i \in 1..Len(q)
    <3>1. o + i \in 1..Len(a) /\ q[i] = a[o + i]
      BY <1>1, <1>2, <1>3, <2>2 DEF o
    <3> QED BY <1>2, <1>3, <2>2, <3>1
  <2> QED BY <1>2, <2>1, <2>2
<1>5. CASE Len(q) = HistoryDepth
  <2>1. k = Tail(x) /\ x # <<>>
    BY <1>1, <1>2, <1>5 DEF KeepLast
  <2>2. /\ k \in Seq(SequenceNumbers) /\ Len(k) = Len(q)
        /\ \A i \in 1..Len(k) : k[i] = x[i + 1] /\ i + 1 \in 1..(Len(q) + 1)
    BY <1>2, <2>1
  <2> HIDE DEF k
  <2>3. p = o + 1 /\ p \in Nat /\ o \in Nat /\ Len(b) - Len(k) = p
    BY <1>1, <1>2, <1>3, <1>5, <2>2 DEF o
  <2> HIDE DEF p
  <2>4. ASSUME NEW i \in 1..Len(k) PROVE k[i] = b[p + i]
    <3>1. k[i] = b[o + (i + 1)]
      BY <1>4, <2>2
    <3>2. o + (i + 1) = p + i
      BY <1>2, <2>2, <2>3
    <3> QED BY <3>1, <3>2
  <2> QED BY <1>1, <1>3, <2>2, <2>3, <2>4 DEF k, p, b, x, q, a
<1>6. CASE Len(q) # HistoryDepth
  <2>1. k = x
    BY <1>1, <1>2, <1>6 DEF KeepLast
  <2>2. p = o /\ p \in Nat /\ Len(b) - Len(x) = p /\ Len(x) <= HistoryDepth
    BY <1>1, <1>2, <1>3, <1>6 DEF o
  <2> HIDE DEF k, p
  <2>3. \A i \in 1..Len(k) : k[i] = b[p + i]
    BY <1>2, <1>4, <2>1, <2>2
  <2> QED BY <1>1, <1>2, <1>3, <2>1, <2>2, <2>3 DEF k, p, b, x, q, a
<1> QED BY <1>5, <1>6

LEMMA ReceiveStep ==
  ASSUME EndpointInv, NEW r \in Readers, NEW m \in network, NEW again \in BOOLEAN,
         ReceiveOnce(r, m, again)
  PROVE  EndpointInv'
<1> USE DEF EndpointInv
<1>1. /\ network' \subseteq network /\ UNCHANGED <<writer, latest>>
      /\ m.sn \in SequenceNumbers
  BY DEF ReceiveOnce, TypeOK, Datagrams
<1>2. Distinct(remaining)' /\ FanOutInv' /\ OfferedInv' /\ TrueMeansSentToAll'
  BY <1>1 DEF Distinct, FanOutInv, Busy, OfferedInv, TrueMeansSentToAll, writer
<1>3. CASE UNCHANGED <<history, arrived>>
  BY <1>1, <1>2, <1>3 DEF TypeOK, HistoryInv, positions, writer
<1>4. CASE /\ history' = [history EXCEPT ![r] = KeepLast(Append(@, m.sn))]
           /\ arrived' = [arrived EXCEPT ![r] = Append(@, m.sn)]
  <2> DEFINE k == KeepLast(Append(history[r], m.sn))
             b == Append(arrived[r], m.sn)
             p == IF Len(history[r]) = HistoryDepth THEN positions[r] + 1 ELSE positions[r]
  <2>1. /\ k \in Seq(SequenceNumbers) /\ Len(k) <= HistoryDepth
        /\ b \in Seq(SequenceNumbers)
        /\ p \in Nat /\ Len(b) - Len(k) = p
        /\ \A i \in 1..Len(k) : k[i] = b[p + i]
    BY <1>1, AddEffect
  <2> HIDE DEF p
  <2>2. /\ \A q \in Readers : history'[q] = IF q = r THEN k ELSE history[q]
        /\ \A q \in Readers : arrived'[q] = IF q = r THEN b ELSE arrived[q]
        /\ history' = [history EXCEPT ![r] = k] /\ arrived' = [arrived EXCEPT ![r] = b]
    BY <1>4 DEF TypeOK
  <2> HIDE DEF k, b
  <2>3. TypeOK'
    BY <1>1, <2>1, <2>2 DEF TypeOK, writer
  <2>4. \A q \in Readers : positions'[q] = IF q = r THEN p ELSE positions[q]
    <3> SUFFICES ASSUME NEW q \in Readers
                 PROVE  positions'[q] = IF q = r THEN p ELSE positions[q]
      OBVIOUS
    <3>1. positions'[q] = Len(arrived'[q]) - Len(history'[q])
      BY DEF positions
    <3>2. positions[q] = Len(arrived[q]) - Len(history[q])
      BY DEF positions
    <3> QED BY <2>1, <2>2, <3>1, <3>2
  <2>5. HistoryInv'
    <3> SUFFICES ASSUME NEW q \in Readers
                 PROVE  /\ positions'[q] \in Nat
                        /\ \A i \in 1..Len(history'[q]) :
                             history'[q][i] = arrived'[q][positions'[q] + i]
      BY DEF HistoryInv
    <3>1. CASE q = r
      BY <2>1, <2>2, <2>4, <3>1
    <3>2. CASE q # r
      <4>1. history'[q] = history[q] /\ arrived'[q] = arrived[q] /\ positions'[q] = positions[q]
        BY <2>2, <2>4, <3>2
      <4> QED BY <4>1 DEF HistoryInv
    <3> QED BY <3>1, <3>2
  <2> QED BY <1>2, <2>3, <2>5
<1> QED BY <1>3, <1>4 DEF ReceiveOnce

LEMMA TakeStep ==
  ASSUME EndpointInv, NEW r \in Readers, Take(r)
  PROVE  /\ EndpointInv'
         /\ positions[r] < Len(arrived[r])
         /\ positions'[r] = positions[r] + 1
         /\ latest' = [latest EXCEPT ![r] = arrived[r][positions[r] + 1]]
<1> USE DEF EndpointInv
<1>1. /\ UNCHANGED <<writer, network, arrived>>
      /\ history' = [history EXCEPT ![r] = Tail(@)]
      /\ latest' = [latest EXCEPT ![r] = Head(history[r])]
  BY DEF Take
<1> DEFINE q == history[r]
           k == Tail(q)
<1>2. /\ k \in Seq(SequenceNumbers) /\ Len(k) = Len(q) - 1
      /\ Len(q) \in Nat \ {0}
      /\ Head(q) = q[1] /\ q[1] \in SequenceNumbers
      /\ \A i \in 1..Len(k) : k[i] = q[i + 1] /\ i + 1 \in 2..Len(q)
  <2>1. q \in Seq(SequenceNumbers) /\ q # <<>>
    BY DEF TypeOK, Take
  <2> QED BY <2>1, TailEffect
<1>3. /\ positions[r] = Len(arrived[r]) - Len(q) /\ positions[r] \in Nat
      /\ Len(q) <= HistoryDepth /\ HistoryDepth \in Nat
      /\ Len(arrived[r]) \in Nat
      /\ \A i \in 1..Len(q) : q[i] = arrived[r][positions[r] + i]
  <2>1. arrived[r] \in Seq(SequenceNumbers)
    BY DEF TypeOK
  <2> QED BY <2>1, BoundsAssumption DEF TypeOK, HistoryInv, positions
<1>4. /\ \A s \in Readers : history'[s] = IF s = r THEN k ELSE history[s]
      /\ history' = [history EXCEPT ![r] = k]
  BY <1>1 DEF TypeOK
<1> HIDE DEF k
<1>5. \A s \in Readers : positions'[s] = IF s = r THEN positions[r] + 1 ELSE positions[s]
  <2>1. Len(arrived[r]) - Len(k) = positions[r] + 1
    BY <1>2, <1>3
  <2> QED BY <1>1, <1>4, <2>1 DEF positions
<1>6. TypeOK'
  <2>1. history' \in [Readers -> Seq(SequenceNumbers)]
    BY <1>2, <1>4 DEF TypeOK
  <2>2. \A s \in Readers : Len(history'[s]) <= HistoryDepth
    BY <1>2, <1>3, <1>4 DEF TypeOK
  <2>3. latest' \in [Readers -> 0..MaxSequence]
    BY <1>1, <1>2 DEF TypeOK, SequenceNumbers
  <2> QED BY <1>1, <2>1, <2>2, <2>3 DEF TypeOK, writer
<1>7. Distinct(remaining)' /\ FanOutInv' /\ OfferedInv' /\ TrueMeansSentToAll'
  BY <1>1 DEF Distinct, FanOutInv, Busy, OfferedInv, TrueMeansSentToAll, writer
<1>8. HistoryInv'
  <2> SUFFICES ASSUME NEW s \in Readers
               PROVE  /\ positions'[s] \in Nat
                      /\ \A i \in 1..Len(history'[s]) :
                           history'[s][i] = arrived'[s][positions'[s] + i]
    BY DEF HistoryInv
  <2>1. CASE s # r
    BY <1>1, <1>4, <1>5, <2>1 DEF HistoryInv
  <2>2. CASE s = r
    <3>1. ASSUME NEW i \in 1..Len(k) PROVE k[i] = arrived[r][(positions[r] + 1) + i]
      <4> DEFINE j == i + 1
      <4>1. j \in 1..Len(q) /\ k[i] = q[j]
        BY <1>2
      <4>2. i \in Nat /\ positions[r] \in Nat
        BY <1>2, <1>3
      <4>3. positions[r] + j = (positions[r] + 1) + i
        BY <4>2
      <4> HIDE DEF j
      <4> QED BY <1>3, <4>1, <4>3
    <3>2. positions'[r] = positions[r] + 1 /\ history'[r] = k /\ arrived' = arrived
      BY <1>1, <1>4, <1>5
    <3>3. positions[r] + 1 \in Nat
      BY <1>3
    <3> QED BY <2>2, <3>1, <3>2, <3>3
  <2> QED BY <2>1, <2>2
<1>9. Head(q) = arrived[r][positions[r] + 1] /\ positions[r] < Len(arrived[r])
  <2>1. 1 \in 1..Len(q)
    BY <1>2
  <2>2. q[1] = arrived[r][positions[r] + 1]
    BY <1>3, <2>1
  <2> DEFINE all  == Len(arrived[r])
             held == Len(q)
  <2>3. positions[r] = all - held /\ all \in Nat /\ held \in Nat \ {0}
    BY <1>2, <1>3
  <2> HIDE DEF all, held
  <2>4. positions[r] < all
    BY <2>3
  <2> QED BY <1>2, <2>2, <2>4 DEF all
<1> QED BY <1>1, <1>5, <1>6, <1>7, <1>8, <1>9

LEMMA InvStep == EndpointInv /\ [Next]_vars => EndpointInv'
<1> SUFFICES ASSUME EndpointInv, [Next]_vars PROVE EndpointInv'
  OBVIOUS
<1>1. CASE UNCHANGED vars
  <2>1. TypeOK' /\ Distinct(remaining)' /\ FanOutInv' /\ TrueMeansSentToAll'
    BY <1>1 DEF EndpointInv, TypeOK, Distinct, FanOutInv, Busy, TrueMeansSentToAll,
       vars, writer
  <2>2. OfferedInv' /\ HistoryInv'
    BY <1>1 DEF EndpointInv, OfferedInv, HistoryInv, positions, vars, writer
  <2> QED BY <2>1, <2>2 DEF EndpointInv
<1>2. CASE Next
  BY <1>2, WriteStep, WriteRefusedStep, SendStep, SendFailsStep, LoseStep, ReceiveStep,
     TakeStep DEF Next
<1> QED BY <1>1, <1>2

(* The inductive invariant holds of every reachable state.                 *)
THEOREM EndpointInvariant == Spec => []EndpointInv
BY InitInv, InvStep, PTL DEF Spec

(* Every variable keeps its type; the histories stay within their depth.   *)
THEOREM EndpointTypeCorrect == Spec => []TypeOK
<1>1. EndpointInv => TypeOK
  BY DEF EndpointInv
<1> QED BY <1>1, EndpointInvariant, PTL

(* StatelessWriter::write answers true only when every matched reader has  *)
(* been sent the sample: no failure in the middle of the loop is forgotten.*)
THEOREM TrueIsSentToAll == Spec => []TrueMeansSentToAll
<1>1. EndpointInv => TrueMeansSentToAll
  BY DEF EndpointInv
<1> QED BY <1>1, EndpointInvariant, PTL

-----------------------------------------------------------------------------
(* The refinement of BestEffortTopic.                                      *)

LEMMA SendRefines ==
  ASSUME EndpointInv, SendNext
  PROVE  Topic!TopicNext
<1> DEFINE h == Head(remaining)
<1>1. remaining \in Seq(Readers) /\ remaining # <<>>
  BY DEF EndpointInv, TypeOK, SendNext, Busy
<1>2. h \in Readers /\ h = remaining[1] /\ 1 \in 1..Len(remaining)
  BY <1>1
<1>3. FanOutInv /\ Busy /\ written \in 0..MaxSequence /\ MaxSequence \in Nat
  BY BoundsAssumption DEF EndpointInv, SendNext, TypeOK
<1>4. written \in SequenceNumbers /\ \A k \in 1..Len(offered[h]) : offered[h][k] < written
  BY <1>2, <1>3 DEF FanOutInv, SequenceNumbers
<1>5. /\ offered' = [offered EXCEPT ![h] = Append(@, written)]
      /\ UNCHANGED <<history, arrived, latest>>
  BY DEF SendNext
<1> HIDE DEF h
<1>6. Topic!Offer(h, written)
  BY <1>4, <1>5 DEF Topic!Offer
<1> QED BY <1>2, <1>4, <1>6 DEF Topic!TopicNext

LEMMA ReceiveRefines ==
  ASSUME EndpointInv, NEW r \in Readers, NEW m \in network, NEW again \in BOOLEAN,
         ReceiveOnce(r, m, again)
  PROVE  Topic!TopicNext \/ UNCHANGED Topic!topicVars
<1>1. UNCHANGED <<writer, latest>> /\ m.to = r /\ m.sn \in SequenceNumbers
  BY DEF ReceiveOnce, EndpointInv, TypeOK, Datagrams
<1>2. CASE UNCHANGED <<history, arrived>>
  BY <1>1, <1>2 DEF Topic!topicVars, writer
<1>3. CASE /\ ~Contains(history[r], m.sn)
           /\ history' = [history EXCEPT ![r] = KeepLast(Append(@, m.sn))]
           /\ arrived' = [arrived EXCEPT ![r] = Append(@, m.sn)]
  <2>1. \E i \in 1..Len(offered[r]) : offered[r][i] = m.sn
    BY <1>1 DEF EndpointInv, OfferedInv, Contains
  <2>2. /\ history[r] \in Seq(SequenceNumbers) /\ arrived[r] \in Seq(SequenceNumbers)
        /\ positions[r] = Len(arrived[r]) - Len(history[r]) /\ positions[r] \in Nat
        /\ \A i \in 1..Len(history[r]) : history[r][i] = arrived[r][positions[r] + i]
    BY DEF EndpointInv, TypeOK, HistoryInv, positions
  <2>3. ASSUME NEW i \in (positions[r] + 1)..Len(arrived[r]) PROVE arrived[r][i] # m.sn
    <3> DEFINE k    == i - positions[r]
               all  == Len(arrived[r])
               held == Len(history[r])
    <3>1. held \in Nat /\ all \in Nat
      BY <2>2
    <3>2. positions[r] \in Nat /\ positions[r] = all - held
      BY <2>2
    <3>3. i \in (positions[r] + 1)..all
      OBVIOUS
    <3> HIDE DEF all, held
    <3>4. k \in 1..held /\ positions[r] + k = i
      BY <3>1, <3>2, <3>3
    <3> USE DEF held
    <3> HIDE DEF k
    <3>5. history[r][k] = arrived[r][i]
      BY <2>2, <3>4
    <3> QED BY <1>3, <3>4, <3>5 DEF Contains
  <2> DEFINE p == IF Len(history[r]) = HistoryDepth THEN positions[r] + 1 ELSE positions[r]
  <2>4. positions' = [positions EXCEPT ![r] = p]
    <3> DEFINE k == KeepLast(Append(history[r], m.sn))
               b == Append(arrived[r], m.sn)
    <3>1. Len(b) - Len(k) = p
      BY <1>1, AddEffect
    <3> HIDE DEF p
    <3>2. \A q \in Readers : /\ history'[q] = IF q = r THEN k ELSE history[q]
                            /\ arrived'[q] = IF q = r THEN b ELSE arrived[q]
      BY <1>3 DEF EndpointInv, TypeOK
    <3> HIDE DEF k, b
    <3> QED BY <3>1, <3>2 DEF positions
  <2>5. Len(history[r]) = Len(arrived[r]) - positions[r]
    <3>1. Len(history[r]) \in Nat /\ Len(arrived[r]) \in Nat
      BY <2>2
    <3> QED BY <2>2, <3>1
  <2>6. positions' = [positions EXCEPT ![r] =
          IF Len(arrived[r]) - @ = HistoryDepth THEN @ + 1 ELSE @]
    <3>1. positions[r] = [q \in Readers |-> Len(arrived[q]) - Len(history[q])][r]
      BY DEF positions
    <3> QED BY <2>4, <2>5 DEF positions
  <2>7. Topic!Arrive(r, m.sn)
    BY <1>1, <1>3, <2>1, <2>3, <2>6 DEF Topic!Arrive, positions, writer
  <2> QED BY <1>1, <2>7 DEF Topic!TopicNext
<1> QED BY <1>2, <1>3 DEF ReceiveOnce

LEMMA TakeRefines ==
  ASSUME EndpointInv, NEW r \in Readers, Take(r)
  PROVE  Topic!TopicNext
<1>1. /\ positions[r] < Len(arrived[r]) /\ positions'[r] = positions[r] + 1
      /\ latest' = [latest EXCEPT ![r] = arrived[r][positions[r] + 1]]
  BY TakeStep
<1>2. UNCHANGED <<offered, arrived>> /\ history' = [history EXCEPT ![r] = Tail(@)]
  BY DEF Take, writer
<1>3. \A q \in Readers \ {r} : positions'[q] = positions[q]
  BY <1>2 DEF positions, EndpointInv, TypeOK
<1>4. positions' = [positions EXCEPT ![r] = @ + 1]
  BY <1>1, <1>3 DEF positions
<1>5. Topic!TakeNext(r)
  BY <1>1, <1>2, <1>4 DEF Topic!TakeNext, positions
<1> QED BY <1>5 DEF Topic!TopicNext

LEMMA RefinementStep ==
  EndpointInv /\ [Next]_vars => [Topic!TopicNext]_Topic!topicVars
<1> SUFFICES ASSUME EndpointInv, [Next]_vars
             PROVE  Topic!TopicNext \/ UNCHANGED Topic!topicVars
  OBVIOUS
<1>1. ASSUME UNCHANGED <<offered, arrived, history, latest>>
      PROVE  UNCHANGED Topic!topicVars
  BY <1>1 DEF Topic!topicVars
<1>2. ASSUME NEW records, Write(records) \/ WriteRefused(records)
      PROVE  UNCHANGED Topic!topicVars
  BY <1>1, <1>2 DEF Write, WriteRefused
<1>3. CASE SendFails \/ Lose
  BY <1>1, <1>3 DEF SendFails, Lose, writer
<1>4. CASE UNCHANGED vars
  BY <1>1, <1>4 DEF vars, writer
<1> QED
  BY <1>2, <1>3, <1>4, SendRefines, ReceiveRefines, TakeRefines DEF Next

(* The writer, the network and the histories implement the Best-Effort     *)
(* topic.                                                                  *)
THEOREM Refinement == Spec => ImplementsBestEffort
<1>1. Init => Topic!TopicInit
  BY DEF Init, Topic!TopicInit
<1> QED
  BY <1>1, EndpointInvariant, RefinementStep, PTL
     DEF Spec, ImplementsBestEffort, Topic!TopicSpec

-----------------------------------------------------------------------------
(* The inductive invariant.                                                *)

(* How far an entity has got, and what it holds by then.                   *)
Fresh(e) == error[e] = "" /\ e \notin registered \cup object \cup owes

StageInv(e) ==
  /\ pc[e] # "absent" => id[e] \in Ids
  /\ pc[e] = "absent" => Fresh(e) /\ refusal[e] = ""
  /\ pc[e] = "register" => Fresh(e) /\ refusal[e] = ""
  /\ pc[e] \in {"refused", "ask"} => Fresh(e) /\ refusal[e] # ""
  /\ pc[e] = "ask" => last_error # ""
  /\ pc[e] = "build" =>
       /\ e \notin object \cup owes /\ refusal[e] = ""
       /\ error[e] = "" => e \in registered
  /\ pc[e] = "alive" =>
       /\ refusal[e] = ""
       /\ error[e] = "" => e \in registered /\ e \in object \cup discovers
       /\ e \in owes => e \in registered
  /\ pc[e] = "closing" => refusal[e] = "" /\ e \notin registered \cup object

(* Two entities of a kind never hold a channel under one id.               *)
IdsAreExclusive ==
  \A d, e \in registered : Kind[d] = Kind[e] /\ id[d] = id[e] => d = e

EntitiesInv ==
  /\ EntitiesTypeOK
  /\ \A e \in Entities : StageInv(e)
  /\ IdsAreExclusive
  /\ AnnouncementsAreBacked

LEMMA InvParts ==
  ASSUME EntitiesInv
  PROVE  /\ EntitiesTypeOK /\ IdsAreExclusive /\ AnnouncementsAreBacked
         /\ \A e \in Entities : StageInv(e)
BY DEF EntitiesInv

(* A step leaves every entity but e alone, and the error text of the       *)
(* router alone or not empty.                                              *)
OnlyOf(e) ==
  /\ \A d \in Entities \ {e} :
       /\ pc'[d] = pc[d] /\ refusal'[d] = refusal[d]
       /\ id'[d] = id[d] /\ error'[d] = error[d]
       /\ d \in registered' <=> d \in registered
       /\ d \in object' <=> d \in object
       /\ d \in discovers' <=> d \in discovers
       /\ d \in owes' <=> d \in owes
  /\ last_error' = last_error \/ last_error' # ""

LEMMA StagesKeep ==
  ASSUME EntitiesInv, NEW e \in Entities, OnlyOf(e), StageInv(e)'
  PROVE  \A d \in Entities : StageInv(d)'
<1> SUFFICES ASSUME NEW d \in Entities, d # e PROVE StageInv(d)'
  OBVIOUS
<1>1. StageInv(d)
  BY InvParts
<1>2. /\ pc'[d] = pc[d] /\ refusal'[d] = refusal[d]
      /\ id'[d] = id[d] /\ error'[d] = error[d]
      /\ d \in registered' <=> d \in registered
      /\ d \in object' <=> d \in object
      /\ d \in discovers' <=> d \in discovers
      /\ d \in owes' <=> d \in owes
      /\ last_error' = last_error \/ last_error' # ""
  BY DEF OnlyOf
<1> QED BY <1>1, <1>2 DEF StageInv, Fresh

(* The counters, and the keys made from them.                              *)
LEMMA KeyTypes ==
  ASSUME NEW n \in Nat
  PROVE  UserKey(n) \in Keys /\ (n + 1) % KeySpace \in 0..(KeySpace - 1)
<1>1. KeySpace \in Nat /\ KeySpace >= 2
  BY KeyAssumption
<1>2. ASSUME NEW m \in Nat PROVE m % KeySpace \in 0..(KeySpace - 1)
  BY <1>1
<1> QED BY <1>1, <1>2 DEF UserKey, Keys

LEMMA EntitiesStart == EntitiesInit => EntitiesInv
<1> SUFFICES ASSUME EntitiesInit PROVE EntitiesInv
  OBVIOUS
<1>1. EntitiesTypeOK
  <2>1. router \in {"none", "running", "failing", "failed"} /\ discovery \in BOOLEAN
    BY DEF EntitiesInit
  <2>2. last_error \in {""} \cup RouterErrors
    BY DEF EntitiesInit, RouterErrors
  <2>3. next_key \in [{"writer", "reader"} -> 0..(KeySpace - 1)]
    <3>1. 1 \in 0..(KeySpace - 1)
      BY KeyAssumption
    <3> QED BY <3>1 DEF EntitiesInit
  <2>4. /\ pc \in [Entities -> Steps]
        /\ refusal \in [Entities -> {""} \cup Refusals]
        /\ id \in [Entities -> Ids \cup {NoId}]
        /\ error \in [Entities -> Errors]
    BY DEF EntitiesInit, Steps, Errors
  <2> QED BY <2>1, <2>2, <2>3, <2>4 DEF EntitiesInit, EntitiesTypeOK
<1>2. \A e \in Entities : StageInv(e)
  BY DEF EntitiesInit, StageInv, Fresh
<1>3. IdsAreExclusive /\ AnnouncementsAreBacked
  BY DEF EntitiesInit, IdsAreExclusive, AnnouncementsAreBacked
<1> QED BY <1>1, <1>2, <1>3 DEF EntitiesInv

-----------------------------------------------------------------------------
(* The steps of the constructor.                                           *)

LEMMA BeginStep ==
  ASSUME EntitiesInv, NEW e \in Entities, NEW fixed \in BOOLEAN, Begin(e, fixed)
  PROVE  EntitiesInv'
<1> USE InvParts
<1>1. pc[e] = "absent" /\ Fresh(e) /\ refusal[e] = ""
  BY DEF StageInv, Begin, Goto
<1>2. PICK i \in Ids : id' = [id EXCEPT ![e] = i]
  <2>1. CASE \E j \in ExplicitIds : id' = [id EXCEPT ![e] = j]
    BY <2>1 DEF Ids
  <2>2. CASE id' = [id EXCEPT ![e] = [key |-> UserKey(next_key[Kind[e]]), kind |-> Kind[e]]]
    <3>1. Kind[e] \in {"writer", "reader"} /\ next_key[Kind[e]] \in Nat
      <4>1. Kind[e] \in {"writer", "reader"}
        BY KindAssumption
      <4>2. next_key[Kind[e]] \in 0..(KeySpace - 1)
        BY <4>1 DEF EntitiesTypeOK
      <4> QED BY <4>1, <4>2, KeyAssumption
    <3> QED BY <2>2, <3>1, KeyTypes DEF Ids
  <2> QED BY <2>1, <2>2 DEF Begin
<1>3. next_key' \in [{"writer", "reader"} -> 0..(KeySpace - 1)]
  <2>1. CASE UNCHANGED next_key
    BY <2>1 DEF EntitiesTypeOK
  <2>2. CASE next_key' = [next_key EXCEPT ![Kind[e]] = (next_key[Kind[e]] + 1) % KeySpace]
    <3>1. Kind[e] \in {"writer", "reader"} /\ next_key[Kind[e]] \in Nat
      <4>1. Kind[e] \in {"writer", "reader"}
        BY KindAssumption
      <4>2. next_key[Kind[e]] \in 0..(KeySpace - 1)
        BY <4>1 DEF EntitiesTypeOK
      <4> QED BY <4>1, <4>2, KeyAssumption
    <3> QED BY <2>2, <3>1, KeyTypes DEF EntitiesTypeOK
  <2> QED BY <2>1, <2>2 DEF Begin
<1>4. /\ pc' = [pc EXCEPT ![e] = "register"]
      /\ discovers' \subseteq Entities
      /\ \A d \in Entities \ {e} : d \in discovers' <=> d \in discovers
      /\ UNCHANGED <<router, last_error, discovery, local, refusal, error,
                     registered, object, owes>>
  BY DEF Begin, Goto, EntitiesTypeOK
<1>5. EntitiesTypeOK'
  <2>1. pc' \in [Entities -> Steps] /\ id' \in [Entities -> Ids \cup {NoId}]
    BY <1>2, <1>4 DEF EntitiesTypeOK, Steps
  <2> QED BY <1>3, <1>4, <2>1 DEF EntitiesTypeOK
<1>6. OnlyOf(e)
  BY <1>2, <1>4 DEF EntitiesTypeOK, OnlyOf
<1>7. StageInv(e)'
  BY <1>1, <1>2, <1>4 DEF EntitiesTypeOK, StageInv, Fresh
<1>8. IdsAreExclusive'
  BY <1>1, <1>2, <1>4 DEF EntitiesTypeOK, IdsAreExclusive, Fresh
<1>9. AnnouncementsAreBacked'
  BY <1>1, <1>2, <1>4 DEF EntitiesTypeOK, AnnouncementsAreBacked, Fresh
<1> QED BY <1>5, <1>6, <1>7, <1>8, <1>9, StagesKeep DEF EntitiesInv

(* add_channel: a channel is granted only under an id that is free.        *)
LEMMA RegisterStep ==
  ASSUME EntitiesInv, NEW e \in Entities, Register(e)
  PROVE  EntitiesInv'
<1> USE InvParts
<1>1. StageInv(e) /\ pc[e] = "register" /\ Fresh(e) /\ refusal[e] = ""
  BY DEF StageInv, Register, Goto, Refuse, Grant
<1>2. UNCHANGED <<shared, id, discovers, object, owes>>
  BY DEF Register
<1>3. CASE /\ pc' = [pc EXCEPT ![e] = "build"]
           /\ error' = [error EXCEPT ![e] = "no router"]
           /\ UNCHANGED <<refusal, registered>>
  <2>1. EntitiesTypeOK'
    BY <1>2, <1>3 DEF EntitiesTypeOK, Steps, Errors, shared
  <2>2. OnlyOf(e)
    BY <1>2, <1>3 DEF EntitiesTypeOK, OnlyOf, shared
  <2>3. StageInv(e)'
    BY <1>1, <1>2, <1>3 DEF EntitiesTypeOK, StageInv, Fresh, shared
  <2>4. IdsAreExclusive'
    BY <1>2, <1>3 DEF IdsAreExclusive
  <2>5. AnnouncementsAreBacked'
    BY <1>1, <1>2, <1>3 DEF EntitiesTypeOK, AnnouncementsAreBacked, Fresh, shared
  <2> QED BY <2>1, <2>2, <2>3, <2>4, <2>5, StagesKeep DEF EntitiesInv
<1>4. CASE \E reason \in Refusals : Refuse(e, reason)
  <2>0. PICK reason \in Refusals :
          /\ pc' = [pc EXCEPT ![e] = "refused"]
          /\ refusal' = [refusal EXCEPT ![e] = reason]
          /\ UNCHANGED <<error, registered>>
    BY <1>4 DEF Refuse, Goto
  <2>1. EntitiesTypeOK'
    BY <1>2, <2>0 DEF EntitiesTypeOK, Steps, shared
  <2>2. OnlyOf(e)
    BY <1>2, <2>0 DEF EntitiesTypeOK, OnlyOf, shared
  <2>3. StageInv(e)'
    BY <1>1, <1>2, <2>0 DEF EntitiesTypeOK, StageInv, Fresh, Refusals, shared
  <2>4. IdsAreExclusive'
    BY <1>2, <2>0 DEF IdsAreExclusive
  <2>5. AnnouncementsAreBacked'
    BY <1>1, <1>2, <2>0 DEF EntitiesTypeOK, AnnouncementsAreBacked, Fresh, shared
  <2> QED BY <2>1, <2>2, <2>3, <2>4, <2>5, StagesKeep DEF EntitiesInv
<1>5. CASE ~Taken(e) /\ Grant(e)
  <2>0. /\ pc' = [pc EXCEPT ![e] = "build"]
        /\ registered' = registered \cup {e}
        /\ UNCHANGED <<refusal, error>>
    BY <1>5 DEF Grant, Goto
  <2>1. EntitiesTypeOK'
    BY <1>2, <2>0 DEF EntitiesTypeOK, Steps, shared
  <2>2. OnlyOf(e)
    BY <1>2, <2>0 DEF EntitiesTypeOK, OnlyOf, shared
  <2>3. StageInv(e)'
    BY <1>1, <1>2, <2>0 DEF EntitiesTypeOK, StageInv, Fresh, shared
  <2>4. IdsAreExclusive'
    BY <1>2, <1>5, <2>0 DEF IdsAreExclusive, Taken
  <2>5. AnnouncementsAreBacked'
    BY <1>1, <1>2, <2>0 DEF EntitiesTypeOK, AnnouncementsAreBacked, Fresh, shared
  <2> QED BY <2>1, <2>2, <2>3, <2>4, <2>5, StagesKeep DEF EntitiesInv
<1> QED BY <1>3, <1>4, <1>5 DEF Register, Refusals, Goto

(* The text stored is never empty, so that the one read back is not.       *)
LEMMA StoreErrorStep ==
  ASSUME EntitiesInv, NEW e \in Entities, StoreError(e)
  PROVE  EntitiesInv'
<1> USE InvParts
<1>1. StageInv(e) /\ Fresh(e) /\ refusal[e] # "" /\ refusal[e] \in Refusals
  BY DEF StageInv, StoreError, Goto, EntitiesTypeOK
<1>2. /\ pc[e] = "refused" /\ pc' = [pc EXCEPT ![e] = "ask"] /\ last_error' = refusal[e]
      /\ UNCHANGED <<router, discovery, next_key, local, refusal, id, discovers,
                     error, registered, object, owes>>
  BY DEF StoreError, Goto
<1>3. EntitiesTypeOK'
  BY <1>1, <1>2 DEF EntitiesTypeOK, Steps, RouterErrors
<1>4. OnlyOf(e)
  BY <1>1, <1>2 DEF EntitiesTypeOK, OnlyOf
<1>5. StageInv(e)'
  BY <1>1, <1>2 DEF EntitiesTypeOK, StageInv, Fresh
<1>6. IdsAreExclusive'
  BY <1>2 DEF IdsAreExclusive
<1>7. AnnouncementsAreBacked'
  BY <1>1, <1>2 DEF EntitiesTypeOK, AnnouncementsAreBacked, Fresh
<1> QED BY <1>3, <1>4, <1>5, <1>6, <1>7, StagesKeep DEF EntitiesInv

LEMMA AskErrorStep ==
  ASSUME EntitiesInv, NEW e \in Entities, AskError(e)
  PROVE  EntitiesInv'
<1> USE InvParts
<1>1. StageInv(e) /\ Fresh(e) /\ last_error # ""
  BY DEF StageInv, AskError, Goto
<1>2. /\ pc[e] = "ask" /\ pc' = [pc EXCEPT ![e] = "build"]
      /\ error' = [error EXCEPT ![e] = last_error]
      /\ refusal' = [refusal EXCEPT ![e] = ""]
      /\ UNCHANGED <<shared, id, discovers, registered, object, owes>>
  BY DEF AskError, Goto
<1>3. EntitiesTypeOK'
  BY <1>2 DEF EntitiesTypeOK, Steps, Errors, shared
<1>4. OnlyOf(e)
  BY <1>2 DEF EntitiesTypeOK, OnlyOf, shared
<1>5. StageInv(e)'
  BY <1>1, <1>2 DEF EntitiesTypeOK, StageInv, Fresh, shared
<1>6. IdsAreExclusive'
  BY <1>2 DEF IdsAreExclusive
<1>7. AnnouncementsAreBacked'
  BY <1>1, <1>2 DEF EntitiesTypeOK, AnnouncementsAreBacked, Fresh, shared
<1> QED BY <1>3, <1>4, <1>5, <1>6, <1>7, StagesKeep DEF EntitiesInv

(* What is announced here has its channel.                                 *)
LEMMA CompleteStep ==
  ASSUME EntitiesInv, NEW e \in Entities, Complete(e)
  PROVE  EntitiesInv'
<1> USE InvParts
<1>1. /\ StageInv(e) /\ e \notin object \cup owes /\ refusal[e] = ""
      /\ error[e] = "" => e \in registered
  BY DEF StageInv, Complete, Goto
<1>2. /\ pc[e] = "build" /\ pc' = [pc EXCEPT ![e] = "alive"]
      /\ error' = IF error[e] = "" /\ e \in discovers /\ ~discovery
                  THEN [error EXCEPT ![e] = "needs a fixed remote"] ELSE error
      /\ object' = IF error[e] = "" /\ e \notin discovers THEN object \cup {e} ELSE object
      /\ UNCHANGED <<router, last_error, discovery, next_key, refusal, id,
                     discovers, registered>>
  BY DEF Complete, Goto
<1>3. \/ /\ error[e] = "" /\ discovery
         /\ local' = {a \in local : a.id # id[e]} \cup {[id |-> id[e], owner |-> e]}
         /\ owes' = owes \cup {e}
      \/ ~(error[e] = "" /\ discovery) /\ UNCHANGED <<local, owes>>
  BY DEF Complete, Announce
<1>4. EntitiesTypeOK'
  <2>1. pc' \in [Entities -> Steps] /\ error' \in [Entities -> Errors]
    BY <1>2 DEF EntitiesTypeOK, Steps, Errors
  <2>2. object' \subseteq registered'
    BY <1>1, <1>2 DEF EntitiesTypeOK
  <2>3. local' \subseteq [id : Ids, owner : Entities] /\ owes' \subseteq Entities
    <3>1. id[e] \in Ids
      BY <1>2 DEF StageInv
    <3>2. [id |-> id[e], owner |-> e] \in [id : Ids, owner : Entities]
      BY <3>1
    <3>3. local \subseteq [id : Ids, owner : Entities] /\ owes \subseteq Entities
      BY DEF EntitiesTypeOK
    <3> QED BY <1>3, <3>2, <3>3
  <2> QED BY <1>2, <2>1, <2>2, <2>3 DEF EntitiesTypeOK
<1>5. OnlyOf(e)
  BY <1>2, <1>3 DEF EntitiesTypeOK, OnlyOf
<1>6. StageInv(e)'
  BY <1>1, <1>2, <1>3 DEF EntitiesTypeOK, StageInv
<1>7. IdsAreExclusive'
  BY <1>2 DEF IdsAreExclusive
<1>8. AnnouncementsAreBacked'
  <2> SUFFICES ASSUME NEW a \in local'
               PROVE  /\ id'[a.owner] = a.id /\ a.owner \in owes'
                      /\ a.owner \in registered' \/ pc'[a.owner] = "closing"
    BY DEF AnnouncementsAreBacked
  <2>1. CASE a \in local
    <3>1. /\ id[a.owner] = a.id /\ a.owner \in owes
          /\ a.owner \in registered \/ pc[a.owner] = "closing"
      BY <2>1 DEF AnnouncementsAreBacked
    <3>2. a.owner # e /\ owes \subseteq owes'
      BY <1>1, <1>3, <3>1
    <3> QED BY <1>2, <3>1, <3>2 DEF EntitiesTypeOK
  <2>2. CASE a \notin local
    <3>1. a = [id |-> id[e], owner |-> e] /\ e \in registered /\ e \in owes'
      BY <1>1, <1>3, <2>2
    <3> QED BY <1>2, <3>1
  <2> QED BY <2>1, <2>2
<1> QED BY <1>4, <1>5, <1>6, <1>7, <1>8, StagesKeep DEF EntitiesInv

-----------------------------------------------------------------------------
(* The first match, the destructor, and the failure of the router.         *)

LEMMA FirstMatchStep ==
  ASSUME EntitiesInv, NEW e \in Entities, FirstMatch(e)
  PROVE  EntitiesInv'
<1> USE InvParts
<1>1. /\ StageInv(e) /\ pc[e] = "alive" /\ error[e] = "" /\ e \in discovers
      /\ e \in registered
  BY DEF StageInv, FirstMatch
<1>2. /\ object' = object \cup {e}
      /\ UNCHANGED <<error, shared, pc, refusal, id, discovers, registered, owes>>
  BY <1>1 DEF FirstMatch
<1>3. EntitiesTypeOK'
  BY <1>1, <1>2 DEF EntitiesTypeOK, shared
<1>4. OnlyOf(e) /\ StageInv(e)'
  BY <1>1, <1>2 DEF OnlyOf, StageInv, shared
<1>5. IdsAreExclusive' /\ AnnouncementsAreBacked'
  BY <1>2 DEF IdsAreExclusive, AnnouncementsAreBacked, shared
<1> QED BY <1>3, <1>4, <1>5, StagesKeep DEF EntitiesInv

(* The channel is gone before the announcement is ...                      *)
LEMMA ReleaseStep ==
  ASSUME EntitiesInv, NEW e \in Entities, Release(e)
  PROVE  EntitiesInv'
<1> USE InvParts
<1>1. StageInv(e) /\ pc[e] = "alive" /\ refusal[e] = ""
  BY DEF StageInv, Release, Goto
<1>2. /\ pc' = [pc EXCEPT ![e] = "closing"]
      /\ object' = object \ {e} /\ registered' = registered \ {e}
      /\ UNCHANGED <<shared, refusal, id, discovers, error, owes>>
  BY DEF Release, Goto
<1>3. EntitiesTypeOK'
  BY <1>2 DEF EntitiesTypeOK, Steps, shared
<1>4. OnlyOf(e)
  BY <1>2 DEF EntitiesTypeOK, OnlyOf, shared
<1>5. StageInv(e)'
  BY <1>1, <1>2 DEF EntitiesTypeOK, StageInv, shared
<1>6. IdsAreExclusive'
  BY <1>2 DEF IdsAreExclusive
<1>7. AnnouncementsAreBacked'
  BY <1>2 DEF EntitiesTypeOK, AnnouncementsAreBacked, shared
<1> QED BY <1>3, <1>4, <1>5, <1>6, <1>7, StagesKeep DEF EntitiesInv

(* ... which goes before the id is forgotten.                              *)
LEMMA WithdrawStep ==
  ASSUME EntitiesInv, NEW e \in Entities, Withdraw(e)
  PROVE  EntitiesInv'
<1> USE InvParts
<1>1. /\ StageInv(e) /\ pc[e] = "closing" /\ refusal[e] = ""
      /\ e \notin registered \cup object
  BY DEF StageInv, Withdraw, Goto
<1>2. /\ pc' = [pc EXCEPT ![e] = "absent"]
      /\ local' = IF e \in owes THEN {a \in local : a.id # id[e]} ELSE local
      /\ owes' = owes \ {e}
      /\ id' = [id EXCEPT ![e] = NoId]
      /\ error' = [error EXCEPT ![e] = ""]
      /\ UNCHANGED <<router, last_error, discovery, next_key, refusal, discovers,
                     registered, object>>
  BY DEF Withdraw, Goto
<1>3. EntitiesTypeOK'
  BY <1>2 DEF EntitiesTypeOK, Steps, Errors
<1>4. OnlyOf(e)
  BY <1>2 DEF EntitiesTypeOK, OnlyOf
<1>5. StageInv(e)'
  BY <1>1, <1>2 DEF EntitiesTypeOK, StageInv, Fresh
<1>6. IdsAreExclusive'
  BY <1>1, <1>2 DEF EntitiesTypeOK, IdsAreExclusive
<1>7. AnnouncementsAreBacked'
  <2> SUFFICES ASSUME NEW a \in local'
               PROVE  /\ id'[a.owner] = a.id /\ a.owner \in owes'
                      /\ a.owner \in registered' \/ pc'[a.owner] = "closing"
    BY DEF AnnouncementsAreBacked
  <2>1. /\ a \in local /\ id[a.owner] = a.id /\ a.owner \in owes
        /\ a.owner \in registered \/ pc[a.owner] = "closing"
    BY <1>2 DEF AnnouncementsAreBacked
  <2>2. a.owner # e
    BY <1>2, <2>1
  <2> QED BY <1>2, <2>1, <2>2 DEF EntitiesTypeOK
<1> QED BY <1>3, <1>4, <1>5, <1>6, <1>7, StagesKeep DEF EntitiesInv

LEMMA RouterFailsStep ==
  ASSUME EntitiesInv, RouterFails
  PROVE  EntitiesInv'
<1> USE InvParts
<1>1. /\ router' \in {"failing", "failed"}
      /\ last_error' = last_error \/ last_error' = "broken"
      /\ UNCHANGED <<discovery, next_key, local, own>>
  BY DEF RouterFails
<1>2. EntitiesTypeOK'
  BY <1>1 DEF EntitiesTypeOK, RouterErrors, own
<1>3. ASSUME NEW e \in Entities PROVE StageInv(e)'
  BY <1>1 DEF StageInv, Fresh, own
<1>4. IdsAreExclusive' /\ AnnouncementsAreBacked'
  BY <1>1 DEF IdsAreExclusive, AnnouncementsAreBacked, own
<1> QED BY <1>2, <1>3, <1>4 DEF EntitiesInv

LEMMA EntitiesStep == EntitiesInv /\ [EntitiesNext]_entities_vars => EntitiesInv'
<1> SUFFICES ASSUME EntitiesInv, [EntitiesNext]_entities_vars PROVE EntitiesInv'
  OBVIOUS
<1>1. CASE UNCHANGED entities_vars
  <2>1. EntitiesTypeOK' /\ IdsAreExclusive' /\ AnnouncementsAreBacked'
    BY <1>1, InvParts DEF EntitiesTypeOK, IdsAreExclusive, AnnouncementsAreBacked, entities_vars, shared, own
  <2>2. ASSUME NEW e \in Entities PROVE StageInv(e)'
    BY <1>1, InvParts DEF StageInv, Fresh, entities_vars, shared, own
  <2> QED BY <2>1, <2>2 DEF EntitiesInv
<1>2. CASE EntitiesNext
  BY <1>2, BeginStep, RegisterStep, StoreErrorStep, AskErrorStep, CompleteStep,
     FirstMatchStep, ReleaseStep, WithdrawStep, RouterFailsStep DEF EntitiesNext
<1> QED BY <1>1, <1>2

(* The inductive invariant holds of every reachable state.                 *)
THEOREM EntitiesInvariant == EntitiesSpec => []EntitiesInv
BY EntitiesStart, EntitiesStep, PTL DEF EntitiesSpec

(* The state of the participant and its entities keeps its type; in        *)
(* particular every RTPS endpoint has its channel.                         *)
THEOREM EntitiesTypeCorrect == EntitiesSpec => []EntitiesTypeOK
<1>1. EntitiesInv => EntitiesTypeOK
  BY DEF EntitiesInv
<1> QED BY <1>1, EntitiesInvariant, PTL

(* No constructor is left without a channel and without an error, although *)
(* the text of the error is read back after other threads have replaced    *)
(* it: write and take never dereference a missing endpoint.                *)
THEOREM UsableUnlessError == EntitiesSpec => []UsableOrError
<1>1. EntitiesInv => UsableOrError
  BY DEF EntitiesInv, StageInv, UsableOrError
<1> QED BY <1>1, EntitiesInvariant, PTL

(* What the DiscoveryService announces for the participant can be reached  *)
(* under its id, or its destructor is about to withdraw it.                *)
THEOREM AnnouncementsBacked == EntitiesSpec => []AnnouncementsAreBacked
<1>1. EntitiesInv => AnnouncementsAreBacked
  BY DEF EntitiesInv
<1> QED BY <1>1, EntitiesInvariant, PTL

(* Whatever ids the application asks for and however often the counters    *)
(* wrap, add_channel lets no two entities of a kind share one.             *)
THEOREM IdsExclusive == EntitiesSpec => []IdsAreExclusive
<1>1. EntitiesInv => IdsAreExclusive
  BY DEF EntitiesInv
<1> QED BY <1>1, EntitiesInvariant, PTL
=============================================================================
