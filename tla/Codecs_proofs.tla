----------------------------- MODULE Codecs_proofs ----------------------------
(***************************************************************************)
(* The invariants of Codecs, for every value of its constants: nothing but *)
(* well-formed values is accepted, from any bytes, and what arrives        *)
(* undamaged means what was sent, in every form another implementation may *)
(* give it.  Two results of their own are about the lease and the ports.   *)
(***************************************************************************)
EXTENDS Submessages_proofs, PortMapping

-----------------------------------------------------------------------------
(* A decoded parameter list is a list of parameters.                       *)

(* Parameter lists: the values of decode_parameter_list's variables.       *)
Parameters == [id : Nat, value : Seq(Bytes)]
Lists == [offset : Nat, verdict : {"open", "good", "bad"}, parameters : Seq(Parameters),
          endianness : Endiannesses]

NumberIn(payload, offset, e) == FromBytes(SubSeq(payload, offset + 1, offset + 2), e)

LEMMA TwoByteNumber ==
  ASSUME NEW payload \in Seq(Bytes), NEW offset \in Nat, offset + 2 <= Len(payload), NEW e
  PROVE  NumberIn(payload, offset, e) \in 0..Capacity(2) - 1
<1> DEFINE n == 2
           part == SubSeq(payload, offset + 1, offset + n)
<1>1. n \in Nat /\ offset + n <= Len(payload)
  OBVIOUS
<1>2. part \in Seq(Bytes) /\ Len(part) = n
  BY <1>1, Part
<1> HIDE DEF part
<1>3. FromBytes(part, e) \in 0..Capacity(Len(part)) - 1
  BY <1>2, FromBytesType
<1> QED BY <1>2, <1>3 DEF NumberIn, part

(* One turn, by the id and the length at the offset.                       *)
Turn(list, payload, id, length) ==
  LET after == list.offset + 4 + length IN
  IF id = Sentinel
    THEN [list EXCEPT !.verdict = IF length = 0 THEN "good" ELSE "bad"]
    ELSE IF length % 4 # 0 \/ after > Len(payload)
    THEN [list EXCEPT !.verdict = "bad"]
    ELSE [list EXCEPT !.offset = after,
                      !.parameters =
                         IF id = Pad THEN @
                         ELSE Append(@, [id |-> id,
                                         value |-> SubSeq(payload, list.offset + 5, after)])]

LEMMA TurnTaken ==
  ASSUME NEW list \in Lists, NEW payload \in Seq(Bytes)
  PROVE  DecodeParameter(list, payload)
           = IF list.verdict # "open" THEN list
             ELSE IF list.offset + 4 > Len(payload) THEN [list EXCEPT !.verdict = "bad"]
             ELSE Turn(list, payload, NumberIn(payload, list.offset, list.endianness),
                       NumberIn(payload, list.offset + 2, list.endianness))
<1>1. list.offset \in Nat
  BY DEF Lists
<1>2. /\ (list.offset + 1) + 1 = list.offset + 2 /\ list.offset + 3 = (list.offset + 2) + 1
      /\ (list.offset + 3) + 1 = (list.offset + 2) + 2
  BY <1>1
<1>3. /\ SubSeq(payload, list.offset + 1, list.offset + 1 + 1)
           = SubSeq(payload, list.offset + 1, list.offset + 2)
      /\ SubSeq(payload, list.offset + 3, list.offset + 3 + 1)
           = SubSeq(payload, (list.offset + 2) + 1, (list.offset + 2) + 2)
  BY <1>2
<1>4. CASE list.verdict # "open"
  BY <1>4 DEF DecodeParameter
<1>5. CASE list.verdict = "open" /\ list.offset + 4 > Len(payload)
  BY <1>5 DEF DecodeParameter
<1>6. CASE list.verdict = "open" /\ ~(list.offset + 4 > Len(payload))
  BY <1>3, <1>6, Zenon DEF DecodeParameter, Turn, NumberIn
<1> QED BY <1>4, <1>5, <1>6

LEMMA TurnType ==
  ASSUME NEW list \in Lists, NEW payload \in Seq(Bytes)
  PROVE  DecodeParameter(list, payload) \in Lists
<1> DEFINE e == list.endianness
           o == list.offset
           id == NumberIn(payload, o, e)
           length == NumberIn(payload, o + 2, e)
<1>1. o \in Nat /\ list.parameters \in Seq(Parameters)
  BY DEF Lists
<1>2. CASE list.verdict = "open" /\ ~(o + 4 > Len(payload))
  <2>1. id \in Nat /\ length \in Nat
    <3>1. o + 2 \in Nat /\ o + 2 <= Len(payload) /\ (o + 2) + 2 <= Len(payload)
      BY <1>1, <1>2
    <3>2. id \in 0..Capacity(2) - 1 /\ length \in 0..Capacity(2) - 1
      BY <1>1, <3>1, TwoByteNumber
    <3> QED BY <3>2, CapacityFacts
  <2>2. DecodeParameter(list, payload) = Turn(list, payload, id, length)
    BY <1>2, TurnTaken
  <2> HIDE DEF id, length
  <2>3. CASE id # Sentinel /\ length % 4 = 0 /\ ~(o + 4 + length > Len(payload))
    <3> DEFINE value == SubSeq(payload, o + 5, o + 4 + length)
               p == [id |-> id, value |-> value]
    <3>1. value \in Seq(Bytes)
      <4>1. o + 4 \in Nat /\ (o + 4) + length <= Len(payload) /\ o + 5 = (o + 4) + 1
        BY <1>1, <2>1, <2>3
      <4>2. SubSeq(payload, (o + 4) + 1, (o + 4) + length) \in Seq(Bytes)
        BY <2>1, <4>1, Part
      <4> QED BY <4>1, <4>2
    <3> HIDE DEF value
    <3>2. p \in Parameters
      BY <2>1, <3>1 DEF Parameters
    <3>3. Turn(list, payload, id, length)
            = [list EXCEPT !.offset = o + 4 + length,
                           !.parameters = IF id = Pad THEN @ ELSE Append(@, p)]
      BY <2>3 DEF Turn, value
    <3> HIDE DEF p
    <3>4. Append(list.parameters, p) \in Seq(Parameters) /\ o + 4 + length \in Nat
      BY <1>1, <2>1, <3>2
    <3> QED BY <2>2, <3>3, <3>4 DEF Lists
  <2>4. CASE ~(id # Sentinel /\ length % 4 = 0 /\ ~(o + 4 + length > Len(payload)))
    <3>1. \E v \in {"good", "bad"} : Turn(list, payload, id, length) = [list EXCEPT !.verdict = v]
      BY <2>4 DEF Turn
    <3> QED BY <2>2, <3>1 DEF Lists
  <2> QED BY <2>3, <2>4
<1>3. CASE ~(list.verdict = "open" /\ ~(o + 4 > Len(payload)))
  <2>1. DecodeParameter(list, payload) \in {list, [list EXCEPT !.verdict = "bad"]}
    BY <1>3, TurnTaken
  <2> QED BY <2>1 DEF Lists
<1> QED BY <1>2, <1>3

(* decode_parameter_list, turn by turn.                                    *)
TurnChain(v, start, payload, n) ==
  /\ v \in [0..n -> Lists] /\ v[0] = start
  /\ \A i \in 1..n : v[i] = DecodeParameter(v[i - 1], payload)

LEMMA TurnsChain ==
  ASSUME NEW payload \in Seq(Bytes), NEW start \in Lists, NEW n \in Nat
  PROVE  \E v : /\ TurnChain(v, start, payload, n)
                /\ FoldLeft(LAMBDA l, turn : DecodeParameter(l, payload), start, Zeros(n)) = v[n]
<1> DEFINE V == Lists
           H == [p \in (1..n) \X V |-> DecodeParameter(p[2], payload)]
           F(h) == [s \in SUBSET (1..n) |->
                      IF s = {} THEN start ELSE DecodeParameter(h[s \ {Max(s)}], payload)]
           iter == CHOOSE h : h = F(h)
           v == [i \in 0..n |-> iter[1..i]]
<1>1. DOMAIN Zeros(n) = 1..n
  BY DEF Zeros
<1>2. FoldLeft(LAMBDA l, turn : DecodeParameter(l, payload), start, Zeros(n)) = iter[1..n]
  BY <1>1 DEF FoldLeft, MapThenFoldSet
<1>3. H \in [(1..n) \X V -> V]
  BY TurnType
<1>4. PICK g \in [SUBSET (1..n) -> V] : Iterates(g, n, start, H)
  <2> HIDE DEF V, H
  <2>1. start \in V
    BY DEF V
  <2> QED BY <1>3, <2>1, IterationExists
<1>5. g = F(g)
  <2>1. ASSUME NEW s \in SUBSET (1..n), s # {}
        PROVE  g[s] = DecodeParameter(g[s \ {Max(s)}], payload)
    <3>1. Max(s) \in 1..n
      BY <2>1, MaxIsIn
    <3>2. g[s] = H[<<Max(s), g[s \ {Max(s)}]>>]
      BY <2>1, <1>4 DEF Iterates
    <3>3. g[s \ {Max(s)}] \in V
      BY <1>4
    <3> QED BY <3>1, <3>2, <3>3
  <2>2. g[{}] = start
    BY <1>4 DEF Iterates
  <2> QED BY <2>1, <2>2
<1>6. iter = F(iter)
  BY <1>5
<1> HIDE DEF iter
<1>7. ASSUME NEW i \in 1..n PROVE v[i] = DecodeParameter(v[i - 1], payload)
  <2>1. Max(1..i) = i /\ (1..i) \ {i} = 1..(i - 1) /\ 1..i # {} /\ 1..i \in SUBSET (1..n)
    <3>1. i \in Nat \ {0} /\ i <= n /\ 1 \in 1..i /\ 1..i \subseteq 1..n
      OBVIOUS
    <3> QED BY <3>1, MaxOfRange
  <2>2. iter[1..i] = DecodeParameter(iter[(1..i) \ {i}], payload)
    BY <2>1, <1>6
  <2>3. i \in 0..n /\ i - 1 \in 0..n
    OBVIOUS
  <2> QED BY <2>1, <2>2, <2>3
<1>8. v[0] = start
  <2>1. 1..0 = {} /\ 0 \in 0..n
    OBVIOUS
  <2> QED BY <2>1, <1>6
<1>9. v[n] = iter[1..n] /\ DOMAIN v = 0..n /\ v = [i \in 0..n |-> v[i]]
  OBVIOUS
<1> HIDE DEF v, F
<1>10. 0..n \subseteq {i \in 0..n : v[i] \in Lists}
  <2> DEFINE S == {i \in 0..n : v[i] \in Lists}
  <2>1. 0 \in S
    BY <1>8
  <2>2. ASSUME NEW i \in 1..n, i - 1 \in S PROVE i \in S
    BY <2>2, <1>7, TurnType
  <2> HIDE DEF S
  <2>3. 0..n \subseteq S
    BY <2>1, <2>2, InductionUpTo
  <2> QED BY <2>3 DEF S
<1>11. v \in [0..n -> Lists]
  BY <1>9, <1>10
<1> QED BY <1>2, <1>7, <1>8, <1>9, <1>11 DEF TurnChain

DecodedLists == [valid : {TRUE}, endianness : Endiannesses, parameters : Seq(Parameters)]

LEMMA DecodedListType ==
  ASSUME NEW payload \in Seq(Bytes)
  PROVE  DecodeList(payload) \in DecodedLists \cup {NoList}
<1> DEFINE choice == {e \in Endiannesses : SubSeq(payload, 1, 2) = ListRepresentation(e)}
           start == [offset |-> 4, verdict |-> "open", parameters |-> <<>>,
                     endianness |-> CHOOSE e \in choice : TRUE]
           n == Len(payload) \div 4
           list == FoldLeft(LAMBDA l, turn : DecodeParameter(l, payload), start, Zeros(n))
<1>1. DecodeList(payload)
        = IF Len(payload) >= 8 /\ choice # {} /\ list.verdict = "good"
            THEN [valid |-> TRUE, endianness |-> list.endianness, parameters |-> list.parameters]
            ELSE NoList
  BY DEF DecodeList
<1>2. CASE choice # {}
  <2>1. (CHOOSE e \in choice : TRUE) \in Endiannesses
    BY <1>2
  <2>2. start \in Lists
    BY <2>1 DEF Lists
  <2>3. n \in Nat
    OBVIOUS
  <2> HIDE DEF start, n
  <2>4. PICK v : /\ TurnChain(v, start, payload, n)
                 /\ FoldLeft(LAMBDA l, turn : DecodeParameter(l, payload), start, Zeros(n)) = v[n]
    BY <2>2, <2>3, TurnsChain
  <2>5. list \in Lists
    <3>0. TurnChain(v, start, payload, n)
      BY <2>4, Zenon
    <3>1. v[n] \in Lists
      BY <2>3, <3>0 DEF TurnChain
    <3> QED BY <2>4, <3>1, Zenon
  <2> HIDE DEF list, choice
  <2> QED BY <1>1, <2>5 DEF Lists, DecodedLists
<1>3. CASE choice = {}
  BY <1>1, <1>3
<1> QED BY <1>2, <1>3

-----------------------------------------------------------------------------
(* A decoded announcement is one that may be accepted.                     *)

LEMMA MinIsIn ==
  ASSUME NEW N \in Nat, NEW s \in SUBSET (1..N), s # {}
  PROVE  Min(s) \in s /\ \A y \in s : Min(s) <= y
<1> DEFINE P(k) == \A t \in SUBSET (1..k) : t # {} => \E m \in t : \A y \in t : m <= y
           T == {k \in Nat : P(k)}
<1>1. 0 \in T
  <2>1. 1..0 = {}
    OBVIOUS
  <2>2. P(0)
    BY <2>1
  <2> QED BY <2>2
<1>2. ASSUME NEW k \in Nat, k \in T PROVE k + 1 \in T
  <2> SUFFICES ASSUME NEW t \in SUBSET (1..k + 1), t # {}
               PROVE  \E m \in t : \A y \in t : m <= y
    OBVIOUS
  <2> DEFINE u == t \ {k + 1}
  <2>1. u \in SUBSET (1..k) /\ \A y \in t : y \in u \/ y = k + 1
    OBVIOUS
  <2>2. CASE u = {}
    <3>1. k + 1 \in t /\ \A y \in t : y = k + 1
      BY <2>1, <2>2
    <3> QED BY <3>1
  <2>3. CASE u # {}
    <3>1. PICK m \in u : \A y \in u : m <= y
      BY <1>2, <2>1, <2>3
    <3>2. m \in t /\ m \in Nat /\ m <= k + 1
      BY <2>1
    <3> QED BY <2>1, <3>1, <3>2
  <2> QED BY <2>2, <2>3
<1> HIDE DEF T
<1>3. Nat \subseteq T
  BY <1>1, <1>2, Induction
<1>4. \E m \in s : \A y \in s : m <= y
  BY <1>3 DEF T
<1> QED BY <1>4 DEF Min


LEMMA FieldDecoded ==
  ASSUME NEW list \in DecodedLists, NEW name, DecodeField(list, name).valid
  PROVE  \E value \in Seq(Bytes) :
           DecodeField(list, name) = DecodeValue(name, value, list.endianness)
<1> DEFINE found == Matching(list.parameters, Pid[name])
           value == list.parameters[Min(found)].value
<1>1. found # {} /\ DecodeField(list, name) = DecodeValue(name, value, list.endianness)
  BY DEF DecodeField, Absent
<1>2. list.parameters \in Seq(Parameters)
  BY DEF DecodedLists
<1>3. found \in SUBSET (1..Len(list.parameters)) /\ Len(list.parameters) \in Nat
  BY <1>2 DEF Matching
<1> HIDE DEF found
<1>4. Min(found) \in 1..Len(list.parameters)
  BY <1>1, <1>3, MinIsIn
<1>5. value \in Seq(Bytes)
  <2>1. list.parameters[Min(found)] \in Parameters
    BY <1>2, <1>4
  <2> QED BY <2>1 DEF Parameters
<1> QED BY <1>1, <1>5

LEMMA LocatorUsable ==
  ASSUME NEW value, NEW e, DecodeLocator(value, e).valid
  PROVE  DecodeLocator(value, e).value.port \in 1..MaxUint16
BY DEF DecodeLocator, Accept, Deny, MaxUint16

LEMMA DurationUsable ==
  ASSUME NEW value \in Seq(Bytes), NEW e \in Endiannesses, DecodeDuration(value, e).valid
  PROVE  DecodeDuration(value, e).value \in Nat \ {0}
<1> DEFINE r == ReadWords(Reader(value, e), 2)
           ms == Milliseconds(r.read[1], r.read[2])
<1>1. r.valid /\ ms > 0 /\ DecodeDuration(value, e).value = ms
  BY DEF DecodeDuration, Accept, Deny
<1>2. r.read[1] \in Nat /\ r.read[2] \in Nat
  <2> DEFINE q == Reader(value, e)
             n == 2
  <2>1. /\ q \in Readers /\ q.bytes = value /\ q.offset = 0 /\ q.read = <<>> /\ q.valid
        /\ q.endianness = e
    BY ReaderType DEF Reader
  <2>2. n \in Nat /\ 0 \in Nat /\ 0 % 4 = 0 /\ 0 <= Len(value) /\ 0 + 4 * n = 8
    OBVIOUS
  <2> HIDE DEF q, n
  <2>3. /\ 0 + 4 * n <= Len(value) =>
             ReadWords(q, n) = [q EXCEPT !.offset = 0 + 4 * n, !.read = <<>> \o WordsAt(value, 0, n, e)]
        /\ ~(0 + 4 * n <= Len(value)) => ~ReadWords(q, n).valid
    <3>1. /\ q.valid => q.offset % 4 = 0 /\ q.offset <= Len(q.bytes)
          /\ q.offset + 4 * n = 0 + 4 * n
      BY <2>1, <2>2
    <3>2. /\ q.valid /\ q.offset + 4 * n <= Len(q.bytes) =>
               ReadWords(q, n) =
                 [q EXCEPT !.offset = q.offset + 4 * n,
                           !.read = q.read \o WordsAt(q.bytes, q.offset, n, q.endianness)]
          /\ ~(q.valid /\ q.offset + 4 * n <= Len(q.bytes)) => ~ReadWords(q, n).valid
      BY <2>1, <2>2, <3>1, ReadWordsEffect
    <3> QED BY <2>1, <3>1, <3>2
  <2>4. r = ReadWords(q, n)
    BY DEF q, n
  <2>5. 0 + 4 * n <= Len(value) /\ r.read = <<>> \o WordsAt(value, 0, n, e)
    BY <1>1, <2>1, <2>3, <2>4 DEF Readers
  <2>6. WordsAt(value, 0, n, e) \in Seq(0..Capacity(4) - 1) /\ Len(WordsAt(value, 0, n, e)) = n
    BY <2>2, <2>5, WordsType
  <2> DEFINE words == WordsAt(value, 0, n, e)
  <2> HIDE DEF words, r
  <2>7. words \in Seq(0..Capacity(4) - 1) /\ Len(words) = 2 /\ r.read = <<>> \o words
    BY <2>5, <2>6 DEF words, n
  <2>8. r.read = words
    <3> DEFINE A == 0..Capacity(4) - 1
    <3>1. words \in Seq(A)
      BY <2>7
    <3> HIDE DEF A
    <3>2. <<>> \o words = words
      BY <3>1, NothingBefore
    <3> QED BY <2>7, <3>2
  <2>9. words[1] \in 0..Capacity(4) - 1 /\ words[2] \in 0..Capacity(4) - 1
    <3> DEFINE B == 0..Capacity(4) - 1
    <3>1. words \in Seq(B) /\ Len(words) = 2
      BY <2>7
    <3> HIDE DEF B
    <3>2. words[1] \in B /\ words[2] \in B
      BY <3>1
    <3> QED BY <3>2 DEF B
  <2> QED BY <2>8, <2>9, CapacityFacts
<1> HIDE DEF r
<1>3. ms \in Int
  <2> DEFINE product == r.read[2] * 1000
             w == Capacity(4)
  <2>1. product \in Int /\ w \in Nat \ {0} /\ r.read[1] * 1000 \in Int
    BY <1>2, FractionAssumption
  <2> HIDE DEF product, w
  <2>2. product \div w \in Int
    BY <2>1, Division
  <2>3. ms = r.read[1] * 1000 + product \div w
    BY DEF Milliseconds, product, w
  <2> QED BY <2>1, <2>2, <2>3
<1> QED BY <1>1, <1>3

(* What is accepted as an announcement can be used.                        *)
LEMMA AcceptedAnnouncement ==
  ASSUME NEW w, w.kind \in {"participant", "endpoint"}, w.bytes \in Seq(Bytes),
         DecodeAnnouncement(w) # Refused
  PROVE  /\ Valid(DecodeAnnouncement(w))
         /\ DecodeAnnouncement(w).kind = w.kind
<1> DEFINE kind == w.kind
           list == DecodeList(w.bytes)
           fields == [f \in Mandatory[kind] \cup Optional[kind] |-> DecodeField(list, f)]
           m == DecodeAnnouncement(w)
<1>1. list \in DecodedLists \cup {NoList}
  BY DecodedListType
<1>2. list \in DecodedLists /\ m = Announcement(kind, fields)
  <2>1. list.valid /\ m = Announcement(kind, fields)
    BY DEF DecodeAnnouncement, DecodeParameters
  <2> HIDE DEF list
  <2> QED BY <1>1, <2>1 DEF NoList
<1> HIDE DEF list
<1>3. /\ \A f \in Mandatory[kind] : fields[f].valid
      /\ \A f \in Optional[kind] : fields[f].valid \/ fields[f] = Absent
      /\ m = [f \in DOMAIN fields \cup {"kind"} |->
                IF f = "kind" THEN kind
                ELSE IF fields[f].valid THEN fields[f].value
                ELSE Default(f, fields["endpoint_guid"].value)]
  <2> HIDE DEF m, fields
  <2> QED BY <1>2 DEF Announcement, m
<1>4. m.kind = kind
  <2> HIDE DEF fields, m
  <2> QED BY <1>3
<1>5. ASSUME NEW f \in Mandatory[kind], f \in {"metatraffic", "user", "unicast"}
      PROVE  m[f].port \in 1..MaxUint16
  <2>1. fields[f] = DecodeField(list, f) /\ f \in DOMAIN fields
    OBVIOUS
  <2>2. fields[f].valid
    BY <1>3
  <2>3. m[f] = fields[f].value
    <3> HIDE DEF m, fields
    <3> QED BY <1>3, <1>5, <2>1, <2>2
  <2> HIDE DEF fields, m
  <2>4. PICK value \in Seq(Bytes) :
          DecodeField(list, f) = DecodeValue(f, value, list.endianness)
    BY <1>2, <2>1, <2>2, FieldDecoded
  <2>5. DecodeValue(f, value, list.endianness) = DecodeLocator(value, list.endianness)
    BY <1>5 DEF DecodeValue
  <2> QED BY <2>1, <2>2, <2>3, <2>4, <2>5, LocatorUsable
<1>6. CASE kind = "participant"
  <2>1. "metatraffic" \in Mandatory[kind] /\ "user" \in Mandatory[kind] /\ "lease" \in Optional[kind]
    BY <1>6 DEF Mandatory, Optional
  <2>2. m["metatraffic"].port \in 1..MaxUint16 /\ m["user"].port \in 1..MaxUint16
    BY <1>5, <2>1
  <2>3. fields["lease"] = DecodeField(list, "lease") /\ "lease" \in DOMAIN fields
    BY <2>1
  <2> HIDE DEF fields, m
  <2>4. m["lease"] \in Nat \ {0}
    <3>1. CASE fields["lease"].valid
      <4>1. PICK value \in Seq(Bytes) :
              DecodeField(list, "lease") = DecodeValue("lease", value, list.endianness)
        BY <1>2, <2>3, <3>1, FieldDecoded
      <4>2. DecodeValue("lease", value, list.endianness) = DecodeDuration(value, list.endianness)
        BY DEF DecodeValue
      <4>3. list.endianness \in Endiannesses
        BY <1>2 DEF DecodedLists
      <4>4. fields["lease"].value \in Nat \ {0}
        BY <2>3, <3>1, <4>1, <4>2, <4>3, DurationUsable
      <4> QED BY <1>3, <2>3, <3>1, <4>4
    <3>2. CASE ~fields["lease"].valid
      <4>1. m["lease"] = Default("lease", fields["endpoint_guid"].value)
        BY <1>3, <2>3, <3>2
      <4>2. Default("lease", fields["endpoint_guid"].value) = 100000
        BY DEF Default
      <4> QED BY <4>1, <4>2
    <3> QED BY <3>1, <3>2
  <2>5. m.metatraffic.port \in 1..MaxUint16 /\ m.user.port \in 1..MaxUint16 /\ m.lease >= 1
    BY <2>2, <2>4
  <2> QED BY <1>4, <1>6, <2>5 DEF Valid, m
<1>7. CASE kind = "endpoint"
  <2>1. "unicast" \in Mandatory[kind]
    BY <1>7 DEF Mandatory
  <2>2. m["unicast"].port \in 1..MaxUint16
    BY <1>5, <2>1
  <2> HIDE DEF fields, m
  <2>3. m.unicast.port \in 1..MaxUint16
    BY <2>2
  <2> QED BY <1>4, <1>7, <2>3 DEF Valid, m
<1> QED BY <1>4, <1>6, <1>7

-----------------------------------------------------------------------------
(* A parameter, with its header and padding, is a sequence of bytes.       *)

(* Sequences put together, one by one.                                     *)
PiecesChain(v, pieces) ==
  /\ v \in [0..Len(pieces) -> Seq(Bytes)] /\ v[0] = <<>>
  /\ \A i \in 1..Len(pieces) : v[i] = v[i - 1] \o pieces[i]

LEMMA PiecesTogether ==
  ASSUME NEW pieces \in Seq(Seq(Bytes))
  PROVE  \E v : PiecesChain(v, pieces) /\ FlattenSeq(pieces) = v[Len(pieces)]
<1> DEFINE n == Len(pieces)
           V == Seq(Bytes)
           empty == <<>>
           H == [p \in (1..n) \X V |-> p[2] \o pieces[p[1]]]
           F(h) == [i \in 1..n |-> IF i = 1 THEN pieces[i] ELSE h[i - 1] \o pieces[i]]
           flatten == CHOOSE h : h = F(h)
           v == [i \in 0..n |-> IF i = 0 THEN <<>> ELSE flatten[i]]
<1>1. n \in Nat /\ \A i \in 1..n : pieces[i] \in V
  OBVIOUS
<1>2. FlattenSeq(pieces) = IF n = 0 THEN pieces ELSE flatten[n]
  BY DEF FlattenSeq
<1> HIDE DEF n
<1>3. H \in [(1..n) \X V -> V]
  <2>1. ASSUME NEW x \in V, NEW i \in 1..n PROVE x \o pieces[i] \in V
    <3>1. pieces[i] \in V
      BY <1>1
    <3> QED BY <3>1, Concatenation
  <2> HIDE DEF V
  <2> QED BY <2>1
<1>4. empty \in V
  OBVIOUS
<1> HIDE DEF V, empty
<1>5. PICK g \in [SUBSET (1..n) -> V] : Iterates(g, n, empty, H)
  <2> HIDE DEF H
  <2> QED BY <1>1, <1>3, <1>4, IterationExists
<1> DEFINE f == [i \in 1..n |-> g[1..i]]
<1>6. ASSUME NEW i \in 1..n PROVE g[1..i] = g[1..i - 1] \o pieces[i]
  <2>1. Max(1..i) = i /\ (1..i) \ {i} = 1..(i - 1) /\ 1..i # {} /\ 1..i \in SUBSET (1..n)
        /\ 1..i - 1 \in SUBSET (1..n)
    <3>1. i \in Nat \ {0} /\ i <= n /\ 1 \in 1..i /\ 1..i \subseteq 1..n /\ 1..i - 1 \subseteq 1..n
      BY <1>1
    <3> QED BY <3>1, MaxOfRange
  <2>2. g[1..i] = H[<<i, g[1..i - 1]>>]
    BY <1>5, <2>1 DEF Iterates
  <2>3. g[1..i - 1] \in V
    BY <2>1
  <2> QED BY <2>2, <2>3
<1>7. g[1..0] = empty
  <2>1. 1..0 = {}
    OBVIOUS
  <2> QED BY <1>5, <2>1 DEF Iterates
<1>8. f = F(f)
  <2>1. ASSUME NEW i \in 1..n
        PROVE  f[i] = IF i = 1 THEN pieces[i] ELSE f[i - 1] \o pieces[i]
    <3>1. CASE i = 1
      <4>1. g[1..i] = empty \o pieces[i]
        <5>1. i - 1 = 0
          BY <3>1
        <5> QED BY <1>6, <1>7, <5>1
      <4>2. pieces[i] \in Seq(Bytes)
        BY <1>1 DEF V
      <4>3. empty \o pieces[i] = pieces[i]
        BY <4>2, NothingBefore DEF empty
      <4> QED BY <3>1, <4>1, <4>3
    <3>2. CASE i # 1
      <4>1. i - 1 \in 1..n
        BY <1>1, <3>2
      <4> QED BY <1>6, <3>2, <4>1
    <3> QED BY <3>1, <3>2
  <2> QED BY <2>1
<1>9. flatten = F(flatten)
  <2> HIDE DEF f
  <2> QED BY <1>8
<1> HIDE DEF flatten
<1>10. ASSUME NEW i \in 1..n PROVE v[i] = v[i - 1] \o pieces[i]
  <2>1. i \in 0..n /\ i - 1 \in 0..n /\ i # 0
    BY <1>1
  <2>2. CASE i = 1
    <3>1. v[i] = pieces[i] /\ v[i - 1] = <<>>
      BY <1>9, <2>1, <2>2
    <3>2. pieces[i] \in Seq(Bytes)
      BY <1>1 DEF V
    <3>3. <<>> \o pieces[i] = pieces[i]
      BY <3>2, NothingBefore
    <3> QED BY <3>1, <3>3
  <2>3. CASE i # 1
    <3>1. flatten[i] = F(flatten)[i] /\ i - 1 # 0
      <4>1. flatten[i] = F(flatten)[i]
        <5> HIDE DEF F
        <5> QED BY <1>9
      <4>2. i - 1 # 0
        BY <1>1, <2>3
      <4> QED BY <4>1, <4>2
    <3>2. F(flatten)[i] = flatten[i - 1] \o pieces[i]
      BY <2>3
    <3> QED BY <2>1, <3>1, <3>2
  <2> QED BY <2>2, <2>3
<1>11. v[0] = <<>> /\ DOMAIN v = 0..n /\ v = [i \in 0..n |-> v[i]]
  BY <1>1
<1>12. FlattenSeq(pieces) = v[n]
  <2>1. CASE n = 0
    <3>1. pieces = <<>>
      BY <2>1 DEF n
    <3> QED BY <1>2, <2>1, <3>1, <1>1
  <2>2. CASE n # 0
    BY <1>1, <1>2, <2>2
  <2> QED BY <2>1, <2>2
<1> HIDE DEF v
<1>13. 0..n \subseteq {i \in 0..n : v[i] \in Seq(Bytes)}
  <2> DEFINE S == {i \in 0..n : v[i] \in Seq(Bytes)}
  <2>1. 0 \in S
    <3>1. <<>> \in Seq(Bytes)
      OBVIOUS
    <3>2. v[0] \in Seq(Bytes)
      BY <1>11, <3>1
    <3> QED BY <1>1, <3>2
  <2>2. ASSUME NEW i \in 1..n, i - 1 \in S PROVE i \in S
    <3>1. v[i - 1] \in Seq(Bytes) /\ pieces[i] \in Seq(Bytes) /\ i \in 0..n
      BY <1>1, <2>2 DEF V
    <3>2. v[i - 1] \o pieces[i] \in Seq(Bytes)
      BY <3>1, Concatenation
    <3> QED BY <1>10, <3>1, <3>2
  <2> HIDE DEF S
  <2>3. 0..n \subseteq S
    BY <1>1, <2>1, <2>2, InductionUpTo
  <2> QED BY <2>3 DEF S
<1>14. v \in [0..n -> Seq(Bytes)]
  BY <1>11, <1>13
<1> QED BY <1>10, <1>11, <1>12, <1>14 DEF PiecesChain, n

LEMMA ZerosType ==
  ASSUME NEW n \in Nat
  PROVE  Zeros(n) \in Seq(Bytes) /\ Len(Zeros(n)) = n
<1>1. Zeros(n) \in [1..n -> Bytes]
  BY SmallBytes DEF Zeros
<1> QED BY <1>1, FunctionIsSequence

LEMMA PaddingType ==
  ASSUME NEW n \in Nat \ {0}, NEW size \in Nat
  PROVE  Padding(n, size) \in 0..n - 1 /\ (size + Padding(n, size)) % n = 0
<1> DEFINE p == (-size) % n
           q == (-size) \div n
<1>1. p \in 0..n - 1 /\ q \in Int /\ -size = q * n + p
  <2>1. -size \in Int
    OBVIOUS
  <2> QED BY <2>1, Division
<1> HIDE DEF p, q
<1>2. size + p = (-q) * n + 0 /\ -q \in Int /\ 0 \in 0..n - 1 /\ size + p \in Int
  BY <1>1
<1>3. (size + p) % n = 0
  BY <1>2, DivisionUnique
<1> QED BY <1>1, <1>3 DEF Padding, p

(* One parameter: id, length, value, padding.                              *)
LEMMA ParameterEncoded ==
  ASSUME NEW p \in Parameters, NEW e
  PROVE  LET n == AlignedSize(Len(p.value)) IN
         /\ n \in Nat /\ n % 4 = 0 /\ Len(p.value) <= n /\ n <= Len(p.value) + 3
         /\ p.value \o Zeros(Padding(4, Len(p.value))) \in Seq(Bytes)
         /\ Len(p.value \o Zeros(Padding(4, Len(p.value)))) = n
         /\ ToBytes(p.id, 2, e) \in Seq(Bytes) /\ Len(ToBytes(p.id, 2, e)) = 2
         /\ ToBytes(n, 2, e) \in Seq(Bytes) /\ Len(ToBytes(n, 2, e)) = 2
         /\ EncodeParameter(p, e) = (ToBytes(p.id, 2, e) \o ToBytes(n, 2, e))
                                      \o (p.value \o Zeros(Padding(4, Len(p.value))))
         /\ EncodeParameter(p, e) \in Seq(Bytes) /\ Len(EncodeParameter(p, e)) = 4 + n
<1> DEFINE value == p.value
           size == Len(value)
           n == AlignedSize(size)
           z == Zeros(Padding(4, size))
           a == ToBytes(p.id, 2, e)
           b == ToBytes(n, 2, e)
<1>1. p.id \in Int /\ value \in Seq(Bytes) /\ size \in Nat
  BY DEF Parameters
<1>2. Padding(4, size) \in 0..3 /\ (size + Padding(4, size)) % 4 = 0
  <2> DEFINE four == 4
  <2>1. four \in Nat \ {0}
    OBVIOUS
  <2> HIDE DEF four, size
  <2>2. Padding(four, size) \in 0..four - 1 /\ (size + Padding(four, size)) % four = 0
    BY <1>1, <2>1, PaddingType
  <2> QED BY <2>2 DEF four
<1>3. n \in Nat /\ n % 4 = 0 /\ size <= n /\ n <= size + 3 /\ n = size + Padding(4, size)
  <2> HIDE DEF size
  <2> DEFINE q == Padding(4, size)
  <2>1. q \in 0..3 /\ (size + q) % 4 = 0 /\ n = size + q
    BY <1>2 DEF AlignedSize
  <2> HIDE DEF q, n
  <2>2. n \in Nat /\ size <= n /\ n <= size + 3
    BY <1>1, <2>1
  <2> QED BY <2>1, <2>2 DEF q
<1>4. z \in Seq(Bytes) /\ Len(z) = Padding(4, size)
  BY <1>2, ZerosType, SMTT(40)
<1> HIDE DEF z, value, n
<1>5. value \o z \in Seq(Bytes) /\ Len(value \o z) = Len(value) + Len(z)
  BY <1>1, <1>4, Concatenation
<1>6. Len(value \o z) = n
  BY <1>3, <1>4, <1>5
<1>7. a \in Seq(Bytes) /\ Len(a) = 2 /\ b \in Seq(Bytes) /\ Len(b) = 2
  <2> DEFINE two == 2
             x == p.id
  <2>1. two \in Nat /\ x \in Int /\ n \in Int
    BY <1>1, <1>3
  <2> HIDE DEF two, x
  <2>2. /\ ToBytes(x, two, e) \in Seq(Bytes) /\ Len(ToBytes(x, two, e)) = two
        /\ ToBytes(n, two, e) \in Seq(Bytes) /\ Len(ToBytes(n, two, e)) = two
    BY <2>1, ToBytesType
  <2> QED BY <2>2 DEF two, x
<1>8. EncodeParameter(p, e) = ((a \o b) \o value) \o z
  BY DEF EncodeParameter, z, value, n
<1> HIDE DEF a, b
<1>9. a \in Seq(Bytes) /\ b \in Seq(Bytes)
  BY <1>7
<1>10. a \o b \in Seq(Bytes) /\ Len(a \o b) = Len(a) + Len(b)
  BY <1>9, Concatenation
<1> DEFINE ab == a \o b
           vz == value \o z
<1>11. ab \in Seq(Bytes) /\ vz \in Seq(Bytes)
  BY <1>5, <1>10
<1>12. Len(ab) = 4 /\ Len(vz) = n
  BY <1>6, <1>7, <1>10
<1>13. (ab \o value) \o z = ab \o vz
  <2> HIDE DEF ab
  <2> QED BY <1>1, <1>4, <1>11, Associative DEF vz
<1> HIDE DEF ab, vz
<1>14. ab \o vz \in Seq(Bytes) /\ Len(ab \o vz) = Len(ab) + Len(vz)
  BY <1>11, Concatenation
<1>15. Len(ab \o vz) = 4 + n
  BY <1>12, <1>14
<1>16. EncodeParameter(p, e) = ab \o vz
  BY <1>8, <1>13 DEF ab
<1> QED BY <1>3, <1>5, <1>6, <1>7, <1>14, <1>15, <1>16 DEF ab, vz, a, b, n, z, value

-----------------------------------------------------------------------------
(* An encoded list, and the values of its fields.                          *)

Pieces(parameters, e) == [i \in DOMAIN parameters |-> EncodeParameter(parameters[i], e)]
ListHead(e) == ListRepresentation(e) \o <<0, 0>>
ListTail(e) == ToBytes(Sentinel, 2, e) \o <<0, 0>>

LEMMA ListEnds ==
  ASSUME NEW e
  PROVE  /\ ListHead(e) \in Seq(Bytes) /\ Len(ListHead(e)) = 4
         /\ SubSeq(ListHead(e), 1, 2) = ListRepresentation(e)
         /\ ToBytes(Sentinel, 2, e) \in Seq(Bytes) /\ Len(ToBytes(Sentinel, 2, e)) = 2
         /\ ListTail(e) \in Seq(Bytes) /\ Len(ListTail(e)) = 4
<1> DEFINE r == ListRepresentation(e)
           s == ToBytes(Sentinel, 2, e)
           zeros == <<0, 0>>
<1>1. r \in Seq(Bytes) /\ Len(r) = 2
  BY SmallBytes DEF ListRepresentation
<1>2. s \in Seq(Bytes) /\ Len(s) = 2
  <2> DEFINE two == 2
  <2>1. two \in Nat /\ Sentinel \in Int
    BY ParameterIdsAssumption
  <2> HIDE DEF two
  <2>2. ToBytes(Sentinel, two, e) \in Seq(Bytes) /\ Len(ToBytes(Sentinel, two, e)) = two
    BY <2>1, ToBytesType
  <2> QED BY <2>2 DEF two
<1>3. zeros \in Seq(Bytes)
  BY SmallBytes
<1>4. Len(zeros) = 2
  OBVIOUS
<1> HIDE DEF r, s, zeros
<1>5. r \in Seq(Bytes) /\ s \in Seq(Bytes)
  BY <1>1, <1>2
<1>6. r \o zeros \in Seq(Bytes) /\ Len(r \o zeros) = Len(r) + Len(zeros)
  BY <1>3, <1>5, Concatenation
<1>7. s \o zeros \in Seq(Bytes) /\ Len(s \o zeros) = Len(s) + Len(zeros)
  BY <1>3, <1>5, Concatenation
<1>8. SubSeq(r \o zeros, 1, 2) = r
  <2>1. 2 \in Nat /\ 2 <= Len(r)
    BY <1>1
  <2>2. SubSeq(r \o zeros, 1, 2) = SubSeq(r, 1, 2)
    BY <1>3, <1>5, <2>1, FirstOfConcatenation
  <2>3. SubSeq(r, 1, Len(r)) = r
    BY <1>5, WholePart
  <2> QED BY <1>1, <2>2, <2>3
<1> QED BY <1>1, <1>2, <1>4, <1>6, <1>7, <1>8 DEF ListHead, ListTail, r, s, zeros

LEMMA PiecesType ==
  ASSUME NEW parameters \in Seq(Parameters), NEW e
  PROVE  /\ Pieces(parameters, e) \in Seq(Seq(Bytes))
         /\ Len(Pieces(parameters, e)) = Len(parameters)
         /\ \A i \in 1..Len(parameters) :
              Pieces(parameters, e)[i] = EncodeParameter(parameters[i], e)
<1> DEFINE n == Len(parameters)
           A == Seq(Bytes)
<1>1. n \in Nat /\ DOMAIN parameters = 1..n /\ \A i \in 1..n : parameters[i] \in Parameters
  OBVIOUS
<1> HIDE DEF n
<1>2. \A i \in 1..n : EncodeParameter(parameters[i], e) \in A
  BY <1>1, ParameterEncoded
<1> HIDE DEF A
<1>3. Pieces(parameters, e) \in [1..n -> A]
  BY <1>1, <1>2 DEF Pieces
<1>4. Pieces(parameters, e) \in Seq(A) /\ Len(Pieces(parameters, e)) = n
  BY <1>1, <1>3, FunctionIsSequence
<1>5. \A i \in 1..n : Pieces(parameters, e)[i] = EncodeParameter(parameters[i], e)
  BY <1>1 DEF Pieces
<1> QED BY <1>4, <1>5 DEF n, A

LEMMA ListEncoded ==
  ASSUME NEW parameters \in Seq(Parameters), NEW e
  PROVE  \E v : /\ PiecesChain(v, Pieces(parameters, e))
                /\ v[Len(parameters)] \in Seq(Bytes)
                /\ EncodeList(parameters, e)
                     = (ListHead(e) \o v[Len(parameters)]) \o ListTail(e)
                /\ EncodeList(parameters, e) \in Seq(Bytes)
                /\ Len(EncodeList(parameters, e)) = 8 + Len(v[Len(parameters)])
<1> DEFINE pieces == Pieces(parameters, e)
           n == Len(parameters)
           h == ListHead(e)
           s == ToBytes(Sentinel, 2, e)
           zeros == <<0, 0>>
<1>1. pieces \in Seq(Seq(Bytes)) /\ Len(pieces) = n /\ n \in Nat
  BY PiecesType
<1>2. EncodeList(parameters, e) = ((h \o FlattenSeq(pieces)) \o s) \o zeros
  BY DEF EncodeList, ListHead, Pieces
<1> HIDE DEF pieces, n
<1>3. PICK v : PiecesChain(v, pieces) /\ FlattenSeq(pieces) = v[Len(pieces)]
  BY <1>1, PiecesTogether
<1> DEFINE flat == v[n]
<1>4. flat \in Seq(Bytes) /\ FlattenSeq(pieces) = flat
  BY <1>1, <1>3 DEF PiecesChain
<1>5. h \in Seq(Bytes) /\ s \in Seq(Bytes) /\ zeros \in Seq(Bytes) /\ s \o zeros \in Seq(Bytes)
  BY ListEnds, SmallBytes DEF ListTail
<1>6. Len(h) = 4 /\ Len(s \o zeros) = 4
  BY ListEnds DEF ListTail
<1> HIDE DEF flat, h, s, zeros
<1> DEFINE hf == h \o flat
           tail == s \o zeros
<1>7. hf \in Seq(Bytes) /\ Len(hf) = Len(h) + Len(flat)
  BY <1>4, <1>5, Concatenation
<1>8. hf \in Seq(Bytes) /\ tail \in Seq(Bytes)
  BY <1>5, <1>7
<1>9. (hf \o s) \o zeros = hf \o tail
  <2> HIDE DEF hf
  <2> QED BY <1>5, <1>8, Associative
<1>10. EncodeList(parameters, e) = hf \o tail
  BY <1>2, <1>4, <1>9
<1>11. Len(hf) = 4 + Len(flat) /\ Len(tail) = 4 /\ Len(flat) \in Nat
  BY <1>4, <1>6, <1>7
<1> HIDE DEF hf, tail
<1>12. hf \o tail \in Seq(Bytes) /\ Len(hf \o tail) = Len(hf) + Len(tail)
  BY <1>8, Concatenation
<1>13. Len(hf \o tail) = 8 + Len(flat)
  BY <1>11, <1>12
<1>14. EncodeList(parameters, e) = (ListHead(e) \o flat) \o ListTail(e)
  BY <1>10 DEF hf, tail, h, s, zeros, ListTail
<1> QED BY <1>3, <1>4, <1>10, <1>12, <1>13, <1>14 DEF flat, pieces, n

-----------------------------------------------------------------------------
(* The values of an announcement's parameters.                             *)
LEMMA NothingWritten == <<>> \in Seq(Bytes) /\ Len(<<>>) = 0 /\ Len(<<>>) % 4 = 0
<1>1. <<>> \in Seq(Bytes) /\ Len(<<>>) = 0
  OBVIOUS
<1> QED BY <1>1

LEMMA WordsOnly ==
  ASSUME NEW values \in Seq(Int), NEW e
  PROVE  /\ WriteWords(<<>>, values, e) \in Seq(Bytes)
         /\ Len(WriteWords(<<>>, values, e)) = 4 * Len(values)
<1> DEFINE empty == <<>>
           n == Len(values)
<1>1. empty \in Seq(Bytes) /\ Len(empty) % 4 = 0
  BY NothingWritten
<1>2. Len(empty) = 0 /\ n \in Nat
  BY NothingWritten
<1> HIDE DEF empty
<1>3. /\ WriteWords(empty, values, e) \in Seq(Bytes)
      /\ Len(WriteWords(empty, values, e)) = Len(empty) + 4 * n
  BY <1>1, WordsWritten
<1> HIDE DEF n
<1>4. Len(WriteWords(empty, values, e)) = 4 * n
  BY <1>2, <1>3
<1> QED BY <1>3, <1>4 DEF empty, n

LEMMA StringEncoded ==
  ASSUME NEW value \in Seq(Bytes), NEW e
  PROVE  LET size == ToBytes(Len(value) + 1, 4, e) IN
         /\ WriteString(<<>>, value, e) = size \o Append(value, 0)
         /\ size \in Seq(Bytes) /\ Len(size) = 4
         /\ Append(value, 0) \in Seq(Bytes) /\ Len(Append(value, 0)) = Len(value) + 1
         /\ WriteString(<<>>, value, e) \in Seq(Bytes)
         /\ Len(WriteString(<<>>, value, e)) = 4 + (Len(value) + 1)
<1> DEFINE empty == <<>>
           n == Len(value) + 1
           size == ToBytes(n, 4, e)
           rest == Append(value, 0)
<1>1. empty \in Seq(Bytes) /\ Len(empty) % 4 = 0 /\ Len(empty) = 0
  BY NothingWritten
<1>2. n \in Int
  OBVIOUS
<1>3. rest \in Seq(Bytes) /\ Len(rest) = n
  BY SmallBytes
<1> HIDE DEF empty, n
<1>4. Write(empty, n, 4, e) = empty \o size
  BY <1>1, <1>2, WriteWord
<1>5. size \in Seq(Bytes) /\ Len(size) = 4
  BY <1>2, ToBytesType
<1>6. empty \o size = size
  BY <1>5, NothingBefore DEF empty
<1>7. WriteString(empty, value, e) = size \o rest
  BY <1>4, <1>6 DEF WriteString, n
<1> HIDE DEF size, rest
<1>8. size \o rest \in Seq(Bytes) /\ Len(size \o rest) = Len(size) + Len(rest)
  <2>1. size \in Seq(Bytes) /\ rest \in Seq(Bytes)
    BY <1>3, <1>5
  <2> QED BY <2>1, Concatenation
<1>9. Len(size \o rest) = 4 + n
  BY <1>3, <1>5, <1>8
<1> QED BY <1>3, <1>5, <1>7, <1>8, <1>9 DEF empty, n, size, rest

LEMMA LocatorEncoded ==
  ASSUME NEW locator \in Locators, NEW e
  PROVE  LET words == WriteWords(<<>>, <<1, locator.port>>, e) IN
         /\ words \in Seq(Bytes) /\ Len(words) = 8
         /\ locator.address \in Seq(Bytes) /\ locator.port \in Nat
         /\ words \o Zeros(12) \in Seq(Bytes) /\ Len(words \o Zeros(12)) = 20
         /\ EncodeLocator(locator, e) = (words \o Zeros(12)) \o locator.address
         /\ EncodeLocator(locator, e) \in Seq(Bytes)
         /\ Len(EncodeLocator(locator, e)) = 20 + Len(locator.address)
<1> DEFINE values == <<1, locator.port>>
           words == WriteWords(<<>>, values, e)
           zeros == Zeros(12)
           address == locator.address
<1>1. locator.port \in Nat /\ address \in Seq(Bytes) /\ Len(address) \in Nat
  <2>1. locator.port \in 0..MaxUint16 /\ address \in Seq(Bytes)
    BY DEF Locators
  <2> QED BY <2>1
<1>2. values \in Seq(Int) /\ Len(values) = 2
  BY <1>1
<1> HIDE DEF values
<1>3. words \in Seq(Bytes) /\ Len(words) = 4 * Len(values)
  BY <1>2, WordsOnly
<1>4. Len(words) = 8
  BY <1>2, <1>3
<1>5. zeros \in Seq(Bytes) /\ Len(zeros) = 12
  BY ZerosType
<1>6. EncodeLocator(locator, e) = (words \o zeros) \o address
  BY DEF EncodeLocator, values
<1> HIDE DEF words, zeros, address
<1>7. words \o zeros \in Seq(Bytes) /\ Len(words \o zeros) = Len(words) + Len(zeros)
  <2>1. words \in Seq(Bytes) /\ zeros \in Seq(Bytes)
    BY <1>3, <1>5
  <2> QED BY <2>1, Concatenation
<1>8. Len(words \o zeros) = 20
  BY <1>4, <1>5, <1>7
<1> DEFINE wz == words \o zeros
<1>9. wz \in Seq(Bytes) /\ address \in Seq(Bytes)
  BY <1>1, <1>7
<1> HIDE DEF wz
<1>10. wz \o address \in Seq(Bytes) /\ Len(wz \o address) = Len(wz) + Len(address)
  BY <1>9, Concatenation
<1> QED BY <1>1, <1>3, <1>4, <1>6, <1>7, <1>8, <1>10 DEF wz, words, zeros, address, values

LEMMA DurationEncoded ==
  ASSUME NEW ms \in Int, NEW e
  PROVE  /\ <<ms \div 1000, Fraction(ms)>> \in Seq(Int)
         /\ EncodeDuration(ms, e) \in Seq(Bytes) /\ Len(EncodeDuration(ms, e)) = 8
<1> DEFINE a == ms \div 1000
           b == Fraction(ms)
           values == <<a, b>>
<1>1. a \in Int /\ b \in Int
  <2> DEFINE product == (ms % 1000) * Capacity(4)
  <2>1. product \in Int
    BY FractionAssumption
  <2> HIDE DEF product
  <2>2. product \div 1000 \in Int
    BY <2>1
  <2> QED BY <2>2 DEF Fraction, product
<1> HIDE DEF a, b
<1>2. values \in Seq(Int) /\ Len(values) = 2
  BY <1>1
<1>3. EncodeDuration(ms, e) = WriteWords(<<>>, values, e)
  BY DEF EncodeDuration, a, b
<1> HIDE DEF values
<1>4. WriteWords(<<>>, values, e) \in Seq(Bytes) /\ Len(WriteWords(<<>>, values, e)) = 4 * Len(values)
  BY <1>2, WordsOnly
<1> QED BY <1>2, <1>3, <1>4 DEF values, a, b

-----------------------------------------------------------------------------
(* Every encoding is a sequence of bytes.                                  *)

LEMMA ParameterType ==
  ASSUME NEW name \in PidNames, NEW value \in Seq(Bytes)
  PROVE  Parameter(name, value) \in Parameters
BY DiscoveryDataAssumption DEF Parameter, Parameters

NameParameters(d, e) ==
  IF d.name = <<>> THEN <<>> ELSE <<Parameter("name", EncodeString(d.name, e))>>
OwnParameters(d, e) ==
  <<Parameter("version", d.version), Parameter("vendor", d.vendor),
    Parameter("participant_guid", d.participant_guid),
    Parameter("builtin", WriteWords(<<>>, <<d.builtin>>, e)),
    Parameter("metatraffic", EncodeLocator(d.metatraffic, e)),
    Parameter("user", EncodeLocator(d.user, e)),
    Parameter("lease", EncodeDuration(d.lease, e))>>

LEMMA ParticipantParametersType ==
  ASSUME NEW d \in Participants, NEW e
  PROVE  /\ ParticipantParameters(d, e) = OwnParameters(d, e) \o NameParameters(d, e)
         /\ OwnParameters(d, e) \in Seq(Parameters) /\ Len(OwnParameters(d, e)) = 7
         /\ NameParameters(d, e) \in Seq(Parameters)
         /\ ParticipantParameters(d, e) \in Seq(Parameters)
<1> DEFINE a == Parameter("version", d.version)
           b == Parameter("vendor", d.vendor)
           c == Parameter("participant_guid", d.participant_guid)
           f == Parameter("builtin", WriteWords(<<>>, <<d.builtin>>, e))
           g == Parameter("metatraffic", EncodeLocator(d.metatraffic, e))
           h == Parameter("user", EncodeLocator(d.user, e))
           i == Parameter("lease", EncodeDuration(d.lease, e))
           n == Parameter("name", EncodeString(d.name, e))
<1>1. /\ d.version \in Seq(Bytes) /\ d.vendor \in Seq(Bytes) /\ d.participant_guid \in Seq(Bytes)
      /\ d.builtin \in Int /\ d.metatraffic \in Locators /\ d.user \in Locators
      /\ d.lease \in Int /\ d.name \in Seq(Bytes)
  BY DEF Participants, BytesOf
<1>2. WriteWords(<<>>, <<d.builtin>>, e) \in Seq(Bytes)
  <2> DEFINE values == <<d.builtin>>
  <2>1. values \in Seq(Int)
    BY <1>1
  <2> HIDE DEF values
  <2>2. WriteWords(<<>>, values, e) \in Seq(Bytes)
    BY <2>1, WordsOnly
  <2> QED BY <2>2 DEF values
<1>3. /\ EncodeLocator(d.metatraffic, e) \in Seq(Bytes) /\ EncodeLocator(d.user, e) \in Seq(Bytes)
      /\ EncodeDuration(d.lease, e) \in Seq(Bytes) /\ EncodeString(d.name, e) \in Seq(Bytes)
  <2>1. EncodeLocator(d.metatraffic, e) \in Seq(Bytes)
    BY <1>1, LocatorEncoded
  <2>2. EncodeLocator(d.user, e) \in Seq(Bytes)
    BY <1>1, LocatorEncoded
  <2>3. EncodeDuration(d.lease, e) \in Seq(Bytes)
    BY <1>1, DurationEncoded
  <2>4. EncodeString(d.name, e) \in Seq(Bytes)
    BY <1>1, StringEncoded DEF EncodeString
  <2> QED BY <2>1, <2>2, <2>3, <2>4
<1>4. {"version", "vendor", "participant_guid", "builtin", "metatraffic", "user", "lease", "name"}
        \subseteq PidNames
  BY DEF PidNames
<1>5. /\ a \in Parameters /\ b \in Parameters /\ c \in Parameters /\ f \in Parameters
      /\ g \in Parameters /\ h \in Parameters /\ i \in Parameters /\ n \in Parameters
  BY <1>1, <1>2, <1>3, <1>4, ParameterType
<1>6. ParticipantParameters(d, e) = OwnParameters(d, e) \o NameParameters(d, e)
  BY DEF ParticipantParameters, OwnParameters, NameParameters
<1> HIDE DEF a, b, c, f, g, h, i, n
<1> DEFINE own == <<a, b, c, f, g, h, i>>
           name == IF d.name = <<>> THEN <<>> ELSE <<n>>
<1>7. own \in Seq(Parameters) /\ Len(own) = 7
  BY <1>5
<1>8. name \in Seq(Parameters)
  BY <1>5
<1>9. own = OwnParameters(d, e) /\ name = NameParameters(d, e)
  BY DEF a, b, c, f, g, h, i, n, OwnParameters, NameParameters
<1> HIDE DEF own, name
<1>10. own \o name \in Seq(Parameters)
  BY <1>7, <1>8, Concatenation
<1> QED BY <1>6, <1>7, <1>8, <1>9, <1>10

LEMMA EndpointParametersType ==
  ASSUME NEW d \in Endpoints, NEW e
  PROVE  EndpointParameters(d, e) \in Seq(Parameters) /\ Len(EndpointParameters(d, e)) = 6
<1> DEFINE a == Parameter("endpoint_guid", d.endpoint_guid)
           b == Parameter("participant_guid", d.participant_guid)
           c == Parameter("topic", EncodeString(d.topic, e))
           f == Parameter("type", EncodeString(d.type, e))
           g == Parameter("unicast", EncodeLocator(d.unicast, e))
           h == Parameter("reliability", EncodeReliability(d.reliability, e))
<1>1. /\ d.endpoint_guid \in Seq(Bytes) /\ d.participant_guid \in Seq(Bytes)
      /\ d.topic \in Seq(Bytes) /\ d.type \in Seq(Bytes) /\ d.unicast \in Locators
  BY DEF Endpoints, BytesOf
<1>2. EncodeReliability(d.reliability, e) \in Seq(Bytes)
  <2> DEFINE values == <<IF d.reliability THEN 2 ELSE 1, 0, 0>>
  <2>1. values \in Seq(Int)
    OBVIOUS
  <2>2. EncodeReliability(d.reliability, e) = WriteWords(<<>>, values, e)
    BY DEF EncodeReliability
  <2> HIDE DEF values
  <2> QED BY <2>1, <2>2, WordsOnly
<1>3. /\ EncodeLocator(d.unicast, e) \in Seq(Bytes)
      /\ EncodeString(d.topic, e) \in Seq(Bytes) /\ EncodeString(d.type, e) \in Seq(Bytes)
  <2>1. EncodeLocator(d.unicast, e) \in Seq(Bytes)
    BY <1>1, LocatorEncoded
  <2>2. EncodeString(d.topic, e) \in Seq(Bytes)
    BY <1>1, StringEncoded DEF EncodeString
  <2>3. EncodeString(d.type, e) \in Seq(Bytes)
    BY <1>1, StringEncoded DEF EncodeString
  <2> QED BY <2>1, <2>2, <2>3
<1>4. {"endpoint_guid", "participant_guid", "topic", "type", "unicast", "reliability"}
        \subseteq PidNames
  BY DEF PidNames
<1>5. /\ a \in Parameters /\ b \in Parameters /\ c \in Parameters /\ f \in Parameters
      /\ g \in Parameters /\ h \in Parameters
  BY <1>1, <1>2, <1>3, <1>4, ParameterType
<1>6. EndpointParameters(d, e) = <<a, b, c, f, g, h>>
  BY DEF EndpointParameters
<1> HIDE DEF a, b, c, f, g, h
<1> QED BY <1>5, <1>6

LEMMA ParametersOfType ==
  ASSUME NEW d \in Participants \cup Endpoints, NEW e
  PROVE  ParametersOf(d, e) \in Seq(Parameters)
<1>1. CASE d \in Participants
  <2>1. d.kind = "participant"
    BY <1>1 DEF Participants
  <2> QED BY <1>1, <2>1, ParticipantParametersType DEF ParametersOf
<1>2. CASE d \in Endpoints
  <2>1. d.kind = "endpoint"
    BY <1>2 DEF Endpoints
  <2> QED BY <1>2, <2>1, EndpointParametersType DEF ParametersOf
<1> QED BY <1>1, <1>2

LEMMA ListType ==
  ASSUME NEW parameters \in Seq(Parameters), NEW e
  PROVE  EncodeList(parameters, e) \in Seq(Bytes)
BY ListEncoded

LEMMA AnnouncementEncoded ==
  ASSUME NEW d \in Participants \cup Endpoints, NEW e
  PROVE  EncodeAnnouncement(d, e) \in ListWires \cup {Refused}
<1>1. d.kind \in {"participant", "endpoint"}
  BY DEF Participants, Endpoints
<1>2. EncodeList(ParametersOf(d, e), e) \in Seq(Bytes)
  BY ParametersOfType, ListType
<1> QED BY <1>1, <1>2 DEF EncodeAnnouncement, ListWires

LEMMA StringSerialized ==
  ASSUME NEW value \in Seq(Bytes), NEW e
  PROVE  LET head == StringRepresentation(e) \o <<0, 0>> IN
         /\ SerializeString(value, e) = head \o WriteString(<<>>, value, e)
         /\ head \in Seq(Bytes) /\ Len(head) = 4
         /\ SubSeq(head, 1, 2) = StringRepresentation(e)
         /\ SerializeString(value, e) \in Seq(Bytes)
         /\ Len(SerializeString(value, e)) = 4 + (4 + (Len(value) + 1))
<1> DEFINE r == StringRepresentation(e)
           zeros == <<0, 0>>
           s == WriteString(<<>>, value, e)
<1>1. r \in Seq(Bytes) /\ Len(r) = 2
  BY SmallBytes DEF StringRepresentation
<1>2. zeros \in Seq(Bytes)
  BY SmallBytes
<1>3. Len(zeros) = 2
  OBVIOUS
<1>4. s \in Seq(Bytes) /\ Len(s) = 4 + (Len(value) + 1)
  BY StringEncoded
<1>5. SerializeString(value, e) = (r \o zeros) \o s
  BY DEF SerializeString
<1> HIDE DEF r, s, zeros
<1>6. r \in Seq(Bytes) /\ s \in Seq(Bytes)
  BY <1>1, <1>4
<1>7. r \o zeros \in Seq(Bytes) /\ Len(r \o zeros) = Len(r) + Len(zeros)
  BY <1>2, <1>6, Concatenation
<1> DEFINE head == r \o zeros
<1>8. head \in Seq(Bytes)
  BY <1>7
<1>9. Len(head) = 4
  BY <1>1, <1>3, <1>7
<1>10. SubSeq(head, 1, 2) = r
  <2>1. 2 \in Nat /\ 2 <= Len(r)
    BY <1>1
  <2>2. SubSeq(r \o zeros, 1, 2) = SubSeq(r, 1, 2)
    BY <1>2, <1>6, <2>1, FirstOfConcatenation
  <2>3. SubSeq(r, 1, Len(r)) = r
    BY <1>6, WholePart
  <2> QED BY <1>1, <2>2, <2>3
<1> HIDE DEF head
<1>11. head \o s \in Seq(Bytes) /\ Len(head \o s) = Len(head) + Len(s)
  BY <1>6, <1>8, Concatenation
<1>12. Len(head \o s) = 4 + (4 + (Len(value) + 1))
  BY <1>4, <1>9, <1>11
<1> QED BY <1>5, <1>8, <1>9, <1>10, <1>11, <1>12 DEF head, r, zeros, s

(* Whatever is sent: what is encoded of it can travel.                     *)
LEMMA EncodedType ==
  ASSUME NEW m \in Messages, NEW e \in Endiannesses
  PROVE  Encode(m, e) \in SubmessageWires \cup ListWires \cup StringWires \cup {Rejected, Refused}
<1>1. m \in Control \cup Datas \cup Participants \cup Endpoints \cup Strings
  BY MessagesAssumption
<1>2. CASE m \in Control \cup Datas
  <2>1. m.kind \in SubmessageKinds
    BY <1>2 DEF Control, Heartbeats, AckNacks, Gaps, Datas, SubmessageKinds, ControlKinds
  <2>2. Encode(m, e) = EncodeMessage(WithBitmap(m), e)
    BY <2>1 DEF Encode, SubmessageKinds, ControlKinds
  <2> QED BY <1>2, <2>2, SubmessageEncoded
<1>3. CASE m \in Participants \cup Endpoints
  <2>1. m.kind \in {"participant", "endpoint"}
    BY <1>3 DEF Participants, Endpoints
  <2>2. Encode(m, e) = EncodeAnnouncement(m, e)
    BY <2>1 DEF Encode, SubmessageKinds, ControlKinds
  <2> QED BY <1>3, <2>2, AnnouncementEncoded
<1>4. CASE m \in Strings
  <2>1. m.kind = "string" /\ m.value \in Seq(Bytes)
    BY <1>4 DEF Strings
  <2>2. Encode(m, e) = [kind |-> "string", bytes |-> SerializeString(m.value, e)]
    BY <2>1 DEF Encode, SubmessageKinds, ControlKinds
  <2>3. SerializeString(m.value, e) \in Seq(Bytes)
    BY <2>1, StringSerialized
  <2> QED BY <2>2, <2>3 DEF StringWires
<1> QED BY <1>1, <1>2, <1>3, <1>4

-----------------------------------------------------------------------------
(* The lists other implementations send: one parameter padded.             *)

PadBytes(v) == v \o Zeros(Padding(4, Len(v)))
Padded(p) == [id |-> p.id, value |-> PadBytes(p.value)]

LEMMA PadBytesType ==
  ASSUME NEW v \in Seq(Bytes)
  PROVE  /\ PadBytes(v) \in Seq(Bytes) /\ Len(PadBytes(v)) % 4 = 0
         /\ Len(PadBytes(v)) = AlignedSize(Len(v))
         /\ AlignedSize(Len(v)) \in Nat /\ Len(v) <= AlignedSize(Len(v))
         /\ AlignedSize(Len(v)) <= Len(v) + 3
<1> DEFINE n == Padding(4, Len(v))
<1>1. Len(v) \in Nat /\ 4 \in Nat \ {0}
  OBVIOUS
<1>2. n \in 0..3 /\ (Len(v) + n) % 4 = 0
  <2>1. n \in 0..4 - 1 /\ (Len(v) + n) % 4 = 0
    BY <1>1, PaddingType
  <2> HIDE DEF n
  <2> QED BY <2>1
<1>3. Zeros(n) \in Seq(Bytes) /\ Len(Zeros(n)) = n
  <2>1. n \in Nat
    <3> HIDE DEF n
    <3> QED BY <1>2
  <2> QED BY <2>1, ZerosType
<1>4. AlignedSize(Len(v)) = Len(v) + n
  BY DEF AlignedSize
<1>5. PadBytes(v) = v \o Zeros(n)
  BY DEF PadBytes
<1> HIDE DEF n
<1> DEFINE z == Zeros(n)
<1>6. z \in Seq(Bytes)
  BY <1>3
<1>7. Len(z) = n
  BY <1>3
<1> HIDE DEF z
<1>8. v \o z \in Seq(Bytes) /\ Len(v \o z) = Len(v) + Len(z)
  BY <1>6, Concatenation
<1> QED BY <1>1, <1>2, <1>4, <1>5, <1>7, <1>8 DEF z

LEMMA PaddedOnce ==
  ASSUME NEW v \in Seq(Bytes), Len(v) % 4 = 0
  PROVE  PadBytes(v) = v /\ AlignedSize(Len(v)) = Len(v)
<1>1. Padding(4, Len(v)) = 0
  BY NoPadding
<1>2. PadBytes(v) = v \o <<>>
  BY <1>1, NoZeros DEF PadBytes
<1>3. AlignedSize(Len(v)) = Len(v)
  BY <1>1 DEF AlignedSize
<1> QED BY <1>2, <1>3

LEMMA PaddedTwice ==
  ASSUME NEW v \in Seq(Bytes)
  PROVE  PadBytes(PadBytes(v)) = PadBytes(v)
BY PadBytesType, PaddedOnce

LEMMA PaddedType ==
  ASSUME NEW p \in Parameters
  PROVE  /\ Padded(p) \in Parameters
         /\ Padded(p).id = p.id /\ Padded(p).value = PadBytes(p.value)
BY PadBytesType DEF Padded, Parameters

Fitting == {p \in Parameters : /\ p.id \in 0..Capacity(2) - 1 /\ p.id # Sentinel
                               /\ AlignedSize(Len(p.value)) < Capacity(2)}

KeptChain(k, parameters) ==
  /\ k \in [0..Len(parameters) -> Seq(Parameters)] /\ k[0] = <<>>
  /\ \A i \in 1..Len(parameters) :
       k[i] = IF parameters[i].id = Pad THEN k[i - 1]
              ELSE Append(k[i - 1], Padded(parameters[i]))

KeptStep(parameters) ==
  [c \in (1..Len(parameters)) \X Seq(Parameters) |->
     IF parameters[c[1]].id = Pad THEN c[2] ELSE Append(c[2], Padded(parameters[c[1]]))]

LEMMA KeptExists ==
  ASSUME NEW parameters \in Seq(Parameters)
  PROVE  \E k : KeptChain(k, parameters)
<1> DEFINE N == Len(parameters)
           V == Seq(Parameters)
           H == KeptStep(parameters)
<1>1. N \in Nat /\ \A i \in 1..N : parameters[i] \in Parameters
  OBVIOUS
<1>2. H \in [(1..N) \X V -> V]
  <2> SUFFICES ASSUME NEW i \in 1..N, NEW s \in V
               PROVE  (IF parameters[i].id = Pad THEN s ELSE Append(s, Padded(parameters[i]))) \in V
    BY DEF KeptStep
  <2>1. Padded(parameters[i]) \in Parameters
    BY <1>1, PaddedType
  <2>2. Append(s, Padded(parameters[i])) \in Seq(Parameters)
    BY <2>1, Appended
  <2> QED BY <2>2
<1>3. <<>> \in V
  OBVIOUS
<1>4. \A i \in 1..N, s \in V :
        H[<<i, s>>] = IF parameters[i].id = Pad THEN s ELSE Append(s, Padded(parameters[i]))
  BY DEF KeptStep
<1> HIDE DEF V, H
<1>5. PICK g \in [SUBSET (1..N) -> V] : Iterates(g, N, <<>>, H)
  BY <1>1, <1>2, <1>3, IterationExists
<1> DEFINE k == [i \in 0..N |-> g[1..i]]
<1>6. \A i \in 0..N : k[i] = g[1..i] /\ k[i] \in V
  <2> TAKE i \in 0..N
  <2>1. 1..i \in SUBSET (1..N)
    BY <1>1
  <2> QED BY <2>1, <1>5
<1>7. k[0] = <<>>
  <2>1. 1..0 = {}
    OBVIOUS
  <2>2. {} \in SUBSET (1..N)
    OBVIOUS
  <2>3. g[{}] = <<>>
    BY <2>2, <1>5 DEF Iterates
  <2>4. 0 \in 0..N
    BY <1>1
  <2> QED BY <1>6, <2>1, <2>3, <2>4
<1>8. ASSUME NEW i \in 1..N
      PROVE  k[i] = IF parameters[i].id = Pad THEN k[i - 1]
                    ELSE Append(k[i - 1], Padded(parameters[i]))
  <2>1. i \in Nat \ {0} /\ i - 1 \in 0..N /\ i \in 0..N
    BY <1>1
  <2>2. Max(1..i) = i /\ (1..i) \ {i} = 1..(i - 1)
    BY <2>1, MaxOfRange
  <2>3. 1..i \in SUBSET (1..N) /\ 1..i # {}
    <3>1. 1 \in 1..i
      BY <2>1
    <3>2. \A j \in 1..i : j \in 1..N
      BY <1>1, <2>1
    <3> QED BY <3>1, <3>2
  <2>4. g[1..i] = H[<<Max(1..i), g[(1..i) \ {Max(1..i)}]>>]
    BY <2>3, <1>5 DEF Iterates
  <2>5. k[i] = H[<<i, k[i - 1]>>]
    BY <2>1, <2>2, <2>4, <1>6
  <2>6. k[i - 1] \in V
    BY <2>1, <1>6
  <2> HIDE DEF k
  <2> QED BY <2>5, <2>6, <1>4
<1>9. k \in [0..N -> Seq(Parameters)]
  BY <1>6 DEF V
<1> HIDE DEF k
<1> QED BY <1>7, <1>8, <1>9 DEF KeptChain

-----------------------------------------------------------------------------
(* A list as encode_parameter_list lays it out: one parameter.             *)

LEMMA PartWithin ==
  ASSUME NEW A, NEW s \in Seq(A), NEW o \in Nat, NEW k \in Nat, o + k <= Len(s),
         NEW piece, SubSeq(s, o + 1, o + k) = piece,
         NEW m \in Nat, NEW n \in Nat, m + n <= k
  PROVE  SubSeq(s, (o + m) + 1, (o + m) + n) = SubSeq(piece, m + 1, m + n)
<1>1. piece \in Seq(A) /\ Len(piece) = k /\ \A i \in 1..k : piece[i] = s[o + i]
  BY Part, ZenonT(60)
<1> DEFINE a == SubSeq(s, (o + m) + 1, (o + m) + n)
           b == SubSeq(piece, m + 1, m + n)
<1>2. o + m \in Nat /\ (o + m) + n <= Len(s) /\ m + n <= Len(piece)
  BY <1>1
<1>3. a \in Seq(A) /\ Len(a) = n /\ \A i \in 1..n : a[i] = s[(o + m) + i]
  BY <1>2, Part
<1>4. b \in Seq(A) /\ Len(b) = n /\ \A i \in 1..n : b[i] = piece[m + i]
  BY <1>1, <1>2, Part
<1> HIDE DEF a, b
<1>5. \A i \in 1..n : a[i] = b[i]
  <2> TAKE i \in 1..n
  <2>1. m + i \in 1..k /\ (o + m) + i = o + (m + i)
    OBVIOUS
  <2>2. piece[m + i] = s[o + (m + i)]
    BY <2>1, <1>1
  <2> QED BY <2>1, <2>2, <1>3, <1>4
<1> QED BY <1>3, <1>4, <1>5, SameSequence DEF a, b

LEMMA ParameterInPlace ==
  ASSUME NEW payload \in Seq(Bytes), NEW o \in Nat, NEW e \in Endiannesses, NEW p \in Fitting,
         o + Len(EncodeParameter(p, e)) <= Len(payload),
         SubSeq(payload, o + 1, o + Len(EncodeParameter(p, e))) = EncodeParameter(p, e)
  PROVE  /\ NumberIn(payload, o, e) = p.id
         /\ NumberIn(payload, o + 2, e) = AlignedSize(Len(p.value))
         /\ SubSeq(payload, o + 5, o + 4 + AlignedSize(Len(p.value))) = PadBytes(p.value)
<1> DEFINE n == AlignedSize(Len(p.value))
           a == ToBytes(p.id, 2, e)
           b == ToBytes(n, 2, e)
           v == PadBytes(p.value)
           piece == EncodeParameter(p, e)
<1>1. p \in Parameters /\ p.id \in 0..Capacity(2) - 1 /\ n < Capacity(2)
  BY DEF Fitting
<1>2. /\ n \in Nat /\ v \in Seq(Bytes) /\ Len(v) = n
      /\ a \in Seq(Bytes) /\ Len(a) = 2 /\ b \in Seq(Bytes) /\ Len(b) = 2
      /\ piece = (a \o b) \o v /\ piece \in Seq(Bytes) /\ Len(piece) = 4 + n
  BY <1>1, ParameterEncoded DEF PadBytes
<1>3. FromBytes(a, e) = p.id
  <2>1. FromBytes(a, e) = p.id % Capacity(2)
    <3>1. p.id \in Int /\ 2 \in Nat
      BY <1>1 DEF Parameters
    <3> QED BY <3>1, FromToBytes
  <2>2. Capacity(2) \in Nat \ {0}
    BY CapacityFacts
  <2>3. p.id \in Nat /\ p.id < Capacity(2)
    BY <2>2, <1>1
  <2> QED BY <2>1, <2>2, <2>3, SmallRemainder
<1>4. FromBytes(b, e) = n
  <2>1. FromBytes(b, e) = n % Capacity(2)
    <3>1. n \in Int /\ 2 \in Nat
      BY <1>2
    <3> HIDE DEF n
    <3> QED BY <3>1, FromToBytes
  <2>2. Capacity(2) \in Nat \ {0}
    BY CapacityFacts
  <2> HIDE DEF n
  <2> QED BY <2>1, <2>2, <1>1, <1>2, SmallRemainder
<1> HIDE DEF n, a, b, v, piece
<1>5. a \o b \in Seq(Bytes) /\ Len(a \o b) = Len(a) + Len(b)
  BY <1>2, Concatenation
<1> DEFINE ab == a \o b
<1>6. ab \in Seq(Bytes)
  BY <1>5
<1>7. Len(ab) = 4
  BY <1>2, <1>5
<1>8. SubSeq(ab, 1, 2) = a /\ SubSeq(ab, 3, 4) = b
  <2>1. SubSeq(ab, 1, 2) = SubSeq(a, 1, 2)
    <3>1. 2 \in Nat /\ 2 <= Len(a)
      BY <1>2
    <3> QED BY <1>2, <3>1, FirstOfConcatenation
  <2>2. SubSeq(a, 1, 2) = a
    BY <1>2, WholePart
  <2>3. SubSeq(ab, Len(a) + 1, Len(a) + Len(b)) = b
    BY <1>2, EndOfConcatenation
  <2>4. Len(a) + 1 = 3 /\ Len(a) + Len(b) = 4
    BY <1>2
  <2> QED BY <2>1, <2>2, <2>3, <2>4
<1> HIDE DEF ab
<1>9. piece = ab \o v
  BY <1>2 DEF ab
<1>10. /\ SubSeq(piece, 1, 2) = SubSeq(ab, 1, 2) /\ SubSeq(piece, 3, 4) = SubSeq(ab, 3, 4)
       /\ SubSeq(piece, 5, 4 + n) = v
  <2>1. SubSeq(ab \o v, 0 + 1, 0 + 2) = SubSeq(ab, 0 + 1, 0 + 2)
    <3>1. 0 \in Nat /\ 2 \in Nat /\ 0 + 2 <= Len(ab)
      BY <1>7
    <3> QED BY <3>1, <1>2, <1>6, PartOfFirst
  <2>2. SubSeq(ab \o v, 2 + 1, 2 + 2) = SubSeq(ab, 2 + 1, 2 + 2)
    <3>1. 2 \in Nat /\ 2 \in Nat /\ 2 + 2 <= Len(ab)
      BY <1>7
    <3> QED BY <3>1, <1>2, <1>6, PartOfFirst
  <2>3. SubSeq(ab \o v, Len(ab) + 1, Len(ab) + Len(v)) = v
    BY <1>2, <1>6, EndOfConcatenation
  <2>4. Len(ab) + 1 = 5 /\ Len(ab) + Len(v) = 4 + n /\ 0 + 1 = 1 /\ 0 + 2 = 2 /\ 2 + 1 = 3 /\ 2 + 2 = 4
    BY <1>2, <1>7
  <2> QED BY <1>9, <2>1, <2>2, <2>3, <2>4
<1> DEFINE k == 4 + n
<1>11. k \in Nat /\ o + k <= Len(payload) /\ SubSeq(payload, o + 1, o + k) = piece
  BY <1>2 DEF piece
<1>12. k = 4 + n
  OBVIOUS
<1> HIDE DEF k
<1>13. SubSeq(payload, (o + 0) + 1, (o + 0) + 2) = SubSeq(piece, 0 + 1, 0 + 2)
  <2>1. 0 \in Nat /\ 2 \in Nat /\ 0 + 2 <= k
    BY <1>2, <1>12
  <2> QED BY <2>1, <1>11, PartWithin
<1>14. SubSeq(payload, (o + 2) + 1, (o + 2) + 2) = SubSeq(piece, 2 + 1, 2 + 2)
  <2>1. 2 \in Nat /\ 2 \in Nat /\ 2 + 2 <= k
    BY <1>2, <1>12
  <2> QED BY <2>1, <1>11, PartWithin
<1>15. SubSeq(payload, (o + 4) + 1, (o + 4) + n) = SubSeq(piece, 4 + 1, 4 + n)
  <2>1. 4 \in Nat /\ n \in Nat /\ 4 + n <= k
    BY <1>2, <1>12
  <2> QED BY <2>1, <1>11, PartWithin
<1>16. /\ o + 0 = o /\ 0 + 1 = 1 /\ 0 + 2 = 2 /\ 2 + 1 = 3 /\ 2 + 2 = 4 /\ 4 + 1 = 5
       /\ (o + 4) + 1 = o + 5 /\ (o + 4) + n = o + 4 + n
  BY <1>2
<1>17. NumberIn(payload, o, e) = p.id
  BY <1>3, <1>8, <1>10, <1>13, <1>16 DEF NumberIn
<1>18. NumberIn(payload, o + 2, e) = n
  BY <1>4, <1>8, <1>10, <1>14, <1>16 DEF NumberIn
<1>19. SubSeq(payload, o + 5, o + 4 + n) = v
  BY <1>10, <1>15, <1>16
<1> QED BY <1>17, <1>18, <1>19 DEF n, v

LEMMA FittingFacts ==
  ASSUME NEW p \in Fitting
  PROVE  /\ p \in Parameters /\ p.id \in Nat /\ p.id # Sentinel
         /\ p.value \in Seq(Bytes)
         /\ AlignedSize(Len(p.value)) \in Nat /\ AlignedSize(Len(p.value)) % 4 = 0
<1>1. p \in Parameters /\ p.id # Sentinel
  BY DEF Fitting
<1>2. p.id \in Nat /\ p.value \in Seq(Bytes)
  BY <1>1 DEF Parameters
<1> QED BY <1>1, <1>2, PadBytesType

ParameterTurn(list, p) ==
  [list EXCEPT !.offset = list.offset + 4 + AlignedSize(Len(p.value)),
               !.parameters = IF p.id = Pad THEN list.parameters
                              ELSE Append(list.parameters, Padded(p))]

LEMMA ParameterTaken ==
  ASSUME NEW payload \in Seq(Bytes), NEW list \in Lists, NEW p \in Fitting,
         list.verdict = "open",
         list.offset + Len(EncodeParameter(p, list.endianness)) <= Len(payload),
         SubSeq(payload, list.offset + 1,
                list.offset + Len(EncodeParameter(p, list.endianness)))
           = EncodeParameter(p, list.endianness)
  PROVE  DecodeParameter(list, payload) = ParameterTurn(list, p)
<1> DEFINE o == list.offset
           e == list.endianness
           n == AlignedSize(Len(p.value))
<1>1. o \in Nat /\ e \in Endiannesses
  BY DEF Lists
<1>2. /\ p \in Parameters /\ p.id \in Nat /\ p.id # Sentinel
      /\ n \in Nat /\ n % 4 = 0
  BY FittingFacts
<1>3. Len(EncodeParameter(p, e)) = 4 + n
  BY <1>2, ParameterEncoded
<1>4. /\ NumberIn(payload, o, e) = p.id /\ NumberIn(payload, o + 2, e) = n
      /\ SubSeq(payload, o + 5, o + 4 + n) = PadBytes(p.value)
  <2> HIDE DEF o, e, n
  <2> SUFFICES /\ o + Len(EncodeParameter(p, e)) <= Len(payload)
               /\ SubSeq(payload, o + 1, o + Len(EncodeParameter(p, e))) = EncodeParameter(p, e)
    BY <1>1, ParameterInPlace DEF n
  <2> QED BY DEF o, e
<1>5. ~(o + 4 > Len(payload)) /\ ~(o + 4 + n > Len(payload))
  BY <1>1, <1>2, <1>3
<1>6. DecodeParameter(list, payload) = Turn(list, payload, p.id, n)
  BY <1>4, <1>5, TurnTaken
<1>7. Turn(list, payload, p.id, n) = ParameterTurn(list, p)
  BY <1>2, <1>4, <1>5, PaddedType DEF Turn, ParameterTurn, Padded
<1> QED BY <1>6, <1>7

-----------------------------------------------------------------------------
(* Where each parameter of a list lies in the encoding.                    *)

LEMMA PiecePrefix ==
  ASSUME NEW pieces \in Seq(Seq(Bytes)), NEW v, PiecesChain(v, pieces), NEW i \in 0..Len(pieces)
  PROVE  \A j \in i..Len(pieces) :
            Len(v[i]) <= Len(v[j]) /\ SubSeq(v[j], 1, Len(v[i])) = v[i]
<1> DEFINE N == Len(pieces)
           M == N - i
           S == {d \in Nat : Len(v[i]) <= Len(v[i + d]) /\ SubSeq(v[i + d], 1, Len(v[i])) = v[i]}
<1>1. N \in Nat /\ M \in Nat /\ i \in Nat
  OBVIOUS
<1>2. \A j \in 0..N : v[j] \in Seq(Bytes)
  BY DEF PiecesChain
<1>3. \A j \in 1..N : pieces[j] \in Seq(Bytes) /\ v[j] = v[j - 1] \o pieces[j]
  BY DEF PiecesChain
<1>4. 0 \in S
  <2>1. i + 0 = i /\ v[i] \in Seq(Bytes)
    BY <1>1, <1>2
  <2>2. SubSeq(v[i], 1, Len(v[i])) = v[i]
    BY <2>1, WholePart
  <2>3. Len(v[i]) \in Nat
    BY <2>1
  <2> QED BY <2>1, <2>2, <2>3
<1>5. ASSUME NEW d \in 1..M, d - 1 \in S
      PROVE  d \in S
  <2> DEFINE j == i + d
             a == v[j - 1]
             b == pieces[j]
             len == Len(v[i])
  <2>1. j \in 1..N /\ j - 1 \in 0..N /\ j - 1 = i + (d - 1) /\ i \in 0..N /\ d \in Nat
    BY <1>1
  <2>2. a \in Seq(Bytes) /\ b \in Seq(Bytes) /\ v[j] = a \o b /\ v[i] \in Seq(Bytes)
    BY <2>1, <1>2, <1>3
  <2>3. len <= Len(a) /\ SubSeq(a, 1, len) = v[i] /\ len \in Nat
    BY <1>5, <2>1, <2>2
  <2> HIDE DEF j, a, b, len
  <2>4. Len(a \o b) = Len(a) + Len(b) /\ a \o b \in Seq(Bytes)
    BY <2>2, Concatenation
  <2>5. SubSeq(a \o b, 1, len) = SubSeq(a, 1, len)
    BY <2>2, <2>3, FirstOfConcatenation
  <2>6. Len(a) \in Nat /\ Len(b) \in Nat
    BY <2>2
  <2>7. len <= Len(v[j]) /\ SubSeq(v[j], 1, len) = v[i]
    BY <2>2, <2>3, <2>4, <2>5, <2>6
  <2> QED BY <2>1, <2>7 DEF j, len
<1> HIDE DEF S, M
<1>6. 0..M \subseteq S
  BY <1>1, <1>4, <1>5, InductionUpTo
<1> SUFFICES ASSUME NEW j \in i..N
             PROVE  Len(v[i]) <= Len(v[j]) /\ SubSeq(v[j], 1, Len(v[i])) = v[i]
  OBVIOUS
<1>7. j - i \in 0..M /\ i + (j - i) = j
  BY <1>1 DEF M
<1>8. j - i \in S
  BY <1>6, <1>7
<1> QED BY <1>7, <1>8 DEF S

LEMMA PiecePlaces ==
  ASSUME NEW pieces \in Seq(Seq(Bytes)), NEW v, PiecesChain(v, pieces), NEW i \in 1..Len(pieces)
  PROVE  LET before == Len(v[i - 1])
             size == Len(pieces[i])
             all == v[Len(pieces)]
         IN /\ before \in Nat /\ size \in Nat /\ Len(v[i]) = before + size
            /\ all \in Seq(Bytes) /\ before + size <= Len(all)
            /\ SubSeq(all, before + 1, before + size) = pieces[i]
<1> DEFINE a == v[i - 1]
           b == pieces[i]
           all == v[Len(pieces)]
           k == Len(a) + Len(b)
<1>1. i \in 0..Len(pieces) /\ i - 1 \in 0..Len(pieces) /\ Len(pieces) \in i..Len(pieces)
      /\ Len(pieces) \in 0..Len(pieces)
  OBVIOUS
<1>2. a \in Seq(Bytes) /\ b \in Seq(Bytes) /\ all \in Seq(Bytes) /\ v[i] = a \o b
  <2>1. v[i] = a \o b
    BY DEF PiecesChain
  <2>2. a \in Seq(Bytes) /\ all \in Seq(Bytes)
    BY <1>1 DEF PiecesChain
  <2>3. b \in Seq(Bytes)
    OBVIOUS
  <2> QED BY <2>1, <2>2, <2>3
<1>3. Len(v[i]) <= Len(all) /\ SubSeq(all, 1, Len(v[i])) = v[i]
  BY <1>1, PiecePrefix
<1> HIDE DEF a, b, all
<1>4. Len(a \o b) = Len(a) + Len(b)
  BY <1>2, Concatenation
<1>5. Len(v[i]) = k
  BY <1>2, <1>4
<1>6. SubSeq(v[i], Len(a) + 1, Len(a) + Len(b)) = b
  BY <1>2, EndOfConcatenation
<1>7. Len(a) \in Nat /\ Len(b) \in Nat /\ k \in Nat /\ Len(a) + Len(b) <= k /\ k <= Len(all)
  BY <1>2, <1>3, <1>5
<1>8. SubSeq(SubSeq(all, 1, k), Len(a) + 1, Len(a) + Len(b))
        = SubSeq(all, Len(a) + 1, Len(a) + Len(b))
  <2> HIDE DEF k
  <2> QED BY <1>2, <1>7, PartOfPart
<1>9. SubSeq(all, Len(a) + 1, Len(a) + Len(b)) = b
  BY <1>3, <1>5, <1>6, <1>8
<1> QED BY <1>5, <1>7, <1>2, <1>9 DEF a, b, all

Piece(s, o, n) == SubSeq(s, o + 1, o + n)

LEMMA PieceInList ==
  ASSUME NEW e \in Endiannesses, NEW all \in Seq(Bytes), NEW o \in Nat, NEW n \in Nat,
         o + n <= Len(all), NEW place \in Nat, place = 4 + o
  PROVE  LET list == (ListHead(e) \o all) \o ListTail(e) IN
         /\ list \in Seq(Bytes) /\ Len(list) = 8 + Len(all)
         /\ Piece(list, place, n) = Piece(all, o, n)
<1> DEFINE h == ListHead(e)
           t == ListTail(e)
<1>1. h \in Seq(Bytes) /\ t \in Seq(Bytes)
  BY ListEnds
<1>2. Len(h) = 4 /\ Len(t) = 4
  BY ListEnds
<1> HIDE DEF h, t
<1>3. h \o all \in Seq(Bytes) /\ Len(h \o all) = Len(h) + Len(all)
  BY <1>1, Concatenation
<1> DEFINE ha == h \o all
<1>4. ha \in Seq(Bytes)
  BY <1>3
<1>5. Len(all) \in Nat /\ Len(ha) = 4 + Len(all)
  BY <1>2, <1>3
<1> HIDE DEF ha
<1>6. ha \o t \in Seq(Bytes) /\ Len(ha \o t) = Len(ha) + Len(t)
  BY <1>1, <1>4, Concatenation
<1>7. SubSeq(ha, Len(h) + o + 1, Len(h) + o + n) = SubSeq(all, o + 1, o + n)
  BY <1>1, PartOfSecond DEF ha
<1>8. Len(h) + o + 1 = (4 + o) + 1 /\ Len(h) + o + n = (4 + o) + n
  BY <1>2
<1>9. SubSeq(ha \o t, (4 + o) + 1, (4 + o) + n) = SubSeq(ha, (4 + o) + 1, (4 + o) + n)
  <2>1. 4 + o \in Nat /\ (4 + o) + n <= Len(ha)
    BY <1>5
  <2> QED BY <2>1, <1>1, <1>4, PartOfFirst
<1>10. Len(ha \o t) = 8 + Len(all)
  BY <1>2, <1>5, <1>6
<1>11. SubSeq(ha \o t, (4 + o) + 1, (4 + o) + n) = SubSeq(all, o + 1, o + n)
  BY <1>7, <1>8, <1>9
<1>12. Piece(ha \o t, place, n) = Piece(all, o, n)
  BY <1>11 DEF Piece
<1> QED BY <1>6, <1>10, <1>12 DEF ha, h, t

LEMMA EndInList ==
  ASSUME NEW e \in Endiannesses, NEW all \in Seq(Bytes)
  PROVE  LET list == (ListHead(e) \o all) \o ListTail(e) IN
         /\ SubSeq(list, 1, 2) = ListRepresentation(e)
         /\ NumberIn(list, 4 + Len(all), e) = Sentinel
         /\ NumberIn(list, (4 + Len(all)) + 2, e) = 0
<1> DEFINE h == ListHead(e)
           t == ListTail(e)
           s == ToBytes(Sentinel, 2, e)
           z == <<0, 0>>
           o == 4 + Len(all)
<1>1. h \in Seq(Bytes) /\ t \in Seq(Bytes) /\ s \in Seq(Bytes)
  BY ListEnds
<1>2. Len(h) = 4 /\ Len(t) = 4 /\ Len(s) = 2
  BY ListEnds
<1>3. z \in Seq(Bytes) /\ Len(z) = 2 /\ t = s \o z
  BY SmallBytes DEF ListTail
<1>4. SubSeq(h, 1, 2) = ListRepresentation(e)
  BY ListEnds
<1>5. FromBytes(s, e) = Sentinel
  <2>1. Sentinel \in Nat /\ Sentinel \in 0..Capacity(2) - 1
    BY ParameterIdsAssumption, DiscoveryDataAssumption
  <2>2. FromBytes(s, e) = Sentinel % Capacity(2)
    <3>1. Sentinel \in Int /\ 2 \in Nat
      BY <2>1
    <3> QED BY <3>1, FromToBytes
  <2>3. Capacity(2) \in Nat \ {0}
    BY CapacityFacts
  <2>4. Sentinel < Capacity(2)
    BY <2>1, <2>3
  <2> QED BY <2>1, <2>2, <2>3, <2>4, SmallRemainder
<1>6. FromBytes(z, e) = 0
  <2>1. ToBytes(0, 2, e) = z
    <3>1. /\ ToBytes(0, 2, e) \in Seq(Bytes) /\ Len(ToBytes(0, 2, e)) = 2
          /\ DOMAIN ToBytes(0, 2, e) = 1..2
      <4>1. 0 \in Int /\ 2 \in Nat
        OBVIOUS
      <4> QED BY <4>1, ToBytesType
    <3>2. \A i \in 1..2 : ToBytes(0, 2, e)[i] = 0
      <4> TAKE i \in 1..2
      <4> DEFINE c == Capacity(IF e = "little" THEN i - 1 ELSE 2 - i)
                 d == Capacity(1)
      <4>1. c \in Nat \ {0} /\ d \in Nat \ {0}
        BY CapacityFacts
      <4>2. ToBytes(0, 2, e)[i] = (0 \div c) % d
        BY DEF ToBytes
      <4> HIDE DEF c, d
      <4>3. 0 \div c = 0
        <5>1. 0 \in Int /\ 0 \in 0..c - 1 /\ 0 = 0 * c + 0
          BY <4>1
        <5> QED BY <5>1, <4>1, DivisionUnique
      <4>4. 0 % d = 0
        BY <4>1, SmallRemainder
      <4> QED BY <4>2, <4>3, <4>4
    <3>3. \A i \in 1..2 : z[i] = 0
      OBVIOUS
    <3> DEFINE y == ToBytes(0, 2, e)
    <3>4. y \in Seq(Bytes) /\ Len(y) = 2 /\ \A i \in 1..2 : y[i] = z[i]
      BY <3>1, <3>2, <3>3
    <3> HIDE DEF y, z
    <3>5. y = z
      BY <3>4, <1>3, SameSequence
    <3> QED BY <3>5 DEF y
  <2>2. FromBytes(ToBytes(0, 2, e), e) = 0 % Capacity(2)
    <3>1. 0 \in Int /\ 2 \in Nat
      OBVIOUS
    <3> QED BY <3>1, FromToBytes
  <2>3. Capacity(2) \in Nat \ {0} /\ 0 < Capacity(2)
    BY CapacityFacts
  <2>4. 0 % Capacity(2) = 0
    BY <2>3, SmallRemainder
  <2> QED BY <2>1, <2>2, <2>4
<1>7. Len(all) \in Nat /\ o \in Nat
  OBVIOUS
<1> HIDE DEF h, t, s, z
<1>8. h \o all \in Seq(Bytes) /\ Len(h \o all) = Len(h) + Len(all)
  BY <1>1, Concatenation
<1> DEFINE ha == h \o all
<1>9. ha \in Seq(Bytes)
  BY <1>8
<1>10. Len(ha) = o
  BY <1>2, <1>8
<1>11. SubSeq(ha, 1, 2) = SubSeq(h, 1, 2)
  <2>1. 2 \in Nat /\ 2 <= Len(h)
    BY <1>2
  <2> QED BY <2>1, <1>1, FirstOfConcatenation
<1> HIDE DEF ha, o
<1>12. SubSeq(ha \o t, 1, 2) = SubSeq(ha, 1, 2)
  <2>1. 2 \in Nat /\ 2 <= Len(ha)
    BY <1>7, <1>10 DEF o
  <2> QED BY <2>1, <1>1, <1>9, FirstOfConcatenation
<1>13. SubSeq(ha \o t, Len(ha) + 0 + 1, Len(ha) + 0 + 2) = SubSeq(t, 0 + 1, 0 + 2)
  <2>1. 0 \in Nat /\ 2 \in Nat /\ 0 + 2 <= Len(t)
    BY <1>2
  <2> QED BY <2>1, <1>1, <1>9, PartOfSecond
<1>14. SubSeq(ha \o t, Len(ha) + 2 + 1, Len(ha) + 2 + 2) = SubSeq(t, 2 + 1, 2 + 2)
  <2>1. 2 \in Nat /\ 2 \in Nat /\ 2 + 2 <= Len(t)
    BY <1>2
  <2> QED BY <2>1, <1>1, <1>9, PartOfSecond
<1>15. SubSeq(t, 0 + 1, 0 + 2) = s
  <2>1. SubSeq(s \o z, 1, 2) = SubSeq(s, 1, 2)
    <3>1. 2 \in Nat /\ 2 <= Len(s)
      BY <1>2
    <3> QED BY <3>1, <1>1, <1>3, FirstOfConcatenation
  <2>2. SubSeq(s, 1, 2) = s
    BY <1>1, <1>2, WholePart
  <2>3. 0 + 1 = 1 /\ 0 + 2 = 2
    OBVIOUS
  <2> QED BY <1>3, <2>1, <2>2, <2>3
<1>16. SubSeq(t, 2 + 1, 2 + 2) = z
  <2>1. SubSeq(s \o z, Len(s) + 1, Len(s) + Len(z)) = z
    BY <1>1, <1>3, EndOfConcatenation
  <2> QED BY <1>2, <1>3, <2>1
<1>17. /\ Len(ha) + 0 + 1 = o + 1 /\ Len(ha) + 0 + 2 = o + 2
       /\ Len(ha) + 2 + 1 = (o + 2) + 1 /\ Len(ha) + 2 + 2 = (o + 2) + 2
  BY <1>7, <1>10
<1>18. NumberIn(ha \o t, o, e) = Sentinel
  BY <1>5, <1>13, <1>15, <1>17 DEF NumberIn
<1>19. NumberIn(ha \o t, o + 2, e) = 0
  BY <1>6, <1>14, <1>16, <1>17 DEF NumberIn
<1> QED BY <1>4, <1>11, <1>12, <1>18, <1>19 DEF ha, h, t, o

-----------------------------------------------------------------------------
(* A list of parameters that fit is decoded to itself.                     *)

LEMMA RepresentationChosen ==
  ASSUME NEW e \in Endiannesses
  PROVE  {x \in Endiannesses : ListRepresentation(e) = ListRepresentation(x)} = {e}
BY DEF Endiannesses, ListRepresentation

OpenList(o, parameters, e) ==
  [offset |-> o, verdict |-> "open", parameters |-> parameters, endianness |-> e]

LEMMA OpenListType ==
  ASSUME NEW o \in Nat, NEW parameters \in Seq(Parameters), NEW e \in Endiannesses
  PROVE  OpenList(o, parameters, e) \in Lists
BY DEF OpenList, Lists

LEMMA FittingParameters ==
  ASSUME NEW P \in Seq(Fitting)
  PROVE  /\ P \in Seq(Parameters) /\ Len(P) \in Nat
         /\ \A i \in 1..Len(P) : P[i] \in Fitting
<1>1. Fitting \subseteq Parameters
  BY DEF Fitting
<1>2. P \in Seq(Parameters)
  BY <1>1, WiderSequence
<1> QED BY <1>2

(* Where the reader is after i parameters, and that it is not at the end.  *)
LEMMA PlacesGrow ==
  ASSUME NEW P \in Seq(Fitting), NEW e \in Endiannesses, NEW v, PiecesChain(v, Pieces(P, e))
  PROVE  \A i \in 0..Len(P) : Len(v[i]) \in Nat /\ 4 * i <= Len(v[i])
<1> DEFINE N == Len(P)
           pieces == Pieces(P, e)
           S == {i \in Nat : Len(v[i]) \in Nat /\ 4 * i <= Len(v[i])}
<1>1. P \in Seq(Parameters) /\ N \in Nat /\ \A i \in 1..N : P[i] \in Fitting
  BY FittingParameters
<1>2. /\ pieces \in Seq(Seq(Bytes)) /\ Len(pieces) = N
      /\ \A i \in 1..N : pieces[i] = EncodeParameter(P[i], e)
  BY <1>1, PiecesType
<1>3. 0 \in S
  <2>1. v[0] = <<>>
    BY DEF PiecesChain
  <2> QED BY <2>1
<1>4. ASSUME NEW i \in 1..N, i - 1 \in S
      PROVE  i \in S
  <2>1. Len(v[i]) = Len(v[i - 1]) + Len(pieces[i])
    <3>1. i \in 1..Len(pieces)
      BY <1>2
    <3> HIDE DEF pieces
    <3> QED BY <1>2, <3>1, PiecePlaces DEF pieces
  <2>2. P[i] \in Parameters /\ AlignedSize(Len(P[i].value)) \in Nat
    BY <1>1, FittingFacts
  <2>3. Len(pieces[i]) = 4 + AlignedSize(Len(P[i].value))
    BY <1>2, <2>2, ParameterEncoded
  <2>4. Len(v[i - 1]) \in Nat /\ 4 * (i - 1) <= Len(v[i - 1]) /\ i \in Nat
    BY <1>1, <1>4
  <2> HIDE DEF pieces
  <2> QED BY <2>1, <2>2, <2>3, <2>4
<1> HIDE DEF S
<1>5. 0..N \subseteq S
  BY <1>1, <1>3, <1>4, InductionUpTo
<1> QED BY <1>5 DEF S

LEMMA OpenTurn ==
  ASSUME NEW o \in Nat, NEW parameters \in Seq(Parameters), NEW e \in Endiannesses,
         NEW p \in Fitting
  PROVE  ParameterTurn(OpenList(o, parameters, e), p)
           = OpenList(o + 4 + AlignedSize(Len(p.value)),
                      IF p.id = Pad THEN parameters ELSE Append(parameters, Padded(p)), e)
<1> DEFINE size == AlignedSize(Len(p.value))
           next == IF p.id = Pad THEN parameters ELSE Append(parameters, Padded(p))
           open == OpenList(o, parameters, e)
           then == [open EXCEPT !.offset = o + 4 + size, !.parameters = next]
           result == OpenList(o + 4 + size, next, e)
<1>1. p \in Parameters /\ size \in Nat
  BY FittingFacts
<1>2. next \in Seq(Parameters)
  BY <1>1, PaddedType, Appended
<1>3. /\ open \in Lists /\ open.offset = o /\ open.parameters = parameters
      /\ open.verdict = "open" /\ open.endianness = e
  BY OpenListType DEF OpenList
<1>4. ParameterTurn(open, p) = then
  BY <1>3 DEF ParameterTurn
<1> HIDE DEF open, size, next
<1>5. o + 4 + size \in Nat
  BY <1>1
<1>6. /\ then \in Lists /\ then.offset = o + 4 + size /\ then.parameters = next
      /\ then.verdict = "open" /\ then.endianness = e
  BY <1>2, <1>3, <1>5 DEF Lists
<1>7. /\ result \in Lists /\ result.offset = o + 4 + size /\ result.parameters = next
      /\ result.verdict = "open" /\ result.endianness = e
  BY <1>2, <1>5, OpenListType DEF OpenList
<1> HIDE DEF then, result
<1>8. then = result
  BY <1>6, <1>7 DEF Lists
<1> QED BY <1>4, <1>8 DEF open, size, next, then, result

LEMMA ParameterRead ==
  ASSUME NEW P \in Seq(Fitting), NEW e \in Endiannesses, NEW v, PiecesChain(v, Pieces(P, e)),
         NEW k, KeptChain(k, P), NEW i \in 1..Len(P),
         NEW list \in Seq(Bytes), list = (ListHead(e) \o v[Len(P)]) \o ListTail(e)
  PROVE  DecodeParameter(OpenList(4 + Len(v[i - 1]), k[i - 1], e), list)
           = OpenList(4 + Len(v[i]), k[i], e)
<1> DEFINE N == Len(P)
           pieces == Pieces(P, e)
           p == P[i]
           all == v[N]
           o == Len(v[i - 1])
           n == Len(EncodeParameter(p, e))
           open == OpenList(4 + o, k[i - 1], e)
<1>1. P \in Seq(Parameters) /\ N \in Nat /\ p \in Fitting
  BY FittingParameters
<1>2. pieces \in Seq(Seq(Bytes)) /\ Len(pieces) = N /\ pieces[i] = EncodeParameter(p, e)
  BY <1>1, PiecesType
<1>3. /\ o \in Nat /\ n \in Nat /\ Len(v[i]) = o + n
      /\ all \in Seq(Bytes) /\ o + n <= Len(all)
      /\ SubSeq(all, o + 1, o + n) = EncodeParameter(p, e)
  <2>1. i \in 1..Len(pieces)
    BY <1>2
  <2>2. PiecesChain(v, pieces)
    OBVIOUS
  <2> HIDE DEF pieces
  <2> QED BY <1>2, <2>1, <2>2, PiecePlaces
<1>4. n = 4 + AlignedSize(Len(p.value)) /\ AlignedSize(Len(p.value)) \in Nat
  BY <1>1, FittingFacts, ParameterEncoded
<1>5. /\ Len(list) = 8 + Len(all)
      /\ SubSeq(list, (4 + o) + 1, (4 + o) + n) = EncodeParameter(p, e)
  <2> DEFINE piece == EncodeParameter(p, e)
  <2>1. SubSeq(all, o + 1, o + n) = piece /\ piece \in Seq(Bytes)
    BY <1>1, <1>3, FittingFacts, ParameterEncoded
  <2>4. o \in Nat /\ n \in Nat /\ all \in Seq(Bytes) /\ o + n <= Len(all)
    BY <1>3
  <2> DEFINE place == 4 + o
  <2> HIDE DEF piece, o, n, all
  <2>5. place \in Nat /\ place = 4 + o
    BY <2>4
  <2> HIDE DEF place
  <2>7. Len((ListHead(e) \o all) \o ListTail(e)) = 8 + Len(all)
    BY <2>4, <2>5, PieceInList
  <2>2. Piece((ListHead(e) \o all) \o ListTail(e), place, n) = Piece(all, o, n)
    BY <2>4, <2>5, PieceInList
  <2>3. list = (ListHead(e) \o all) \o ListTail(e)
    BY DEF all
  <2>6. Piece(list, place, n) = piece
    BY <2>1, <2>2, <2>3 DEF Piece
  <2> QED BY <2>7, <2>3, <2>6 DEF piece, place, Piece
<1>6. k[i - 1] \in Seq(Parameters) /\ k[i] \in Seq(Parameters)
  <2>1. i - 1 \in 0..N /\ i \in 0..N
    BY <1>1
  <2> QED BY <2>1 DEF KeptChain
<1>7. open \in Lists /\ open.verdict = "open" /\ open.offset = 4 + o /\ open.endianness = e
      /\ open.parameters = k[i - 1]
  <2>1. 4 + o \in Nat
    BY <1>3
  <2> QED BY <2>1, <1>6, OpenListType DEF OpenList
<1>8. open.offset + n <= Len(list)
  <2> HIDE DEF open, o, n, all
  <2>1. Len(all) \in Nat
    BY <1>3
  <2> QED BY <1>3, <1>5, <1>7, <2>1
<1>9. DecodeParameter(open, list) = ParameterTurn(open, p)
  <2> HIDE DEF open, o, p
  <2> QED BY <1>1, <1>5, <1>7, <1>8, ParameterTaken
<1>10. k[i] = IF p.id = Pad THEN k[i - 1] ELSE Append(k[i - 1], Padded(p))
  BY DEF KeptChain
<1>11. 4 + o + 4 + AlignedSize(Len(p.value)) = 4 + Len(v[i])
  <2> DEFINE size == AlignedSize(Len(p.value))
  <2> HIDE DEF o, n, size
  <2>1. size \in Nat /\ n = 4 + size
    BY <1>4 DEF size
  <2>2. 4 + o + 4 + size = 4 + Len(v[i])
    BY <1>3, <2>1
  <2> QED BY <2>2 DEF size
<1>12. ParameterTurn(open, p)
         = OpenList(4 + o + 4 + AlignedSize(Len(p.value)),
                    IF p.id = Pad THEN k[i - 1] ELSE Append(k[i - 1], Padded(p)), e)
  <2>1. 4 + o \in Nat
    BY <1>3
  <2> DEFINE place == 4 + o
  <2>2. place \in Nat
    BY <2>1
  <2> HIDE DEF place
  <2>3. ParameterTurn(OpenList(place, k[i - 1], e), p)
         = OpenList(place + 4 + AlignedSize(Len(p.value)),
                    IF p.id = Pad THEN k[i - 1] ELSE Append(k[i - 1], Padded(p)), e)
    BY <2>2, <1>1, <1>6, OpenTurn
  <2> QED BY <2>3 DEF place
<1> QED BY <1>9, <1>10, <1>11, <1>12

LEMMA EndRead ==
  ASSUME NEW e \in Endiannesses, NEW all \in Seq(Bytes), NEW parameters \in Seq(Parameters),
         NEW list \in Seq(Bytes), list = (ListHead(e) \o all) \o ListTail(e),
         Len(list) = 8 + Len(all)
  PROVE  DecodeParameter(OpenList(4 + Len(all), parameters, e), list)
           = [OpenList(4 + Len(all), parameters, e) EXCEPT !.verdict = "good"]
<1> DEFINE o == 4 + Len(all)
           open == OpenList(o, parameters, e)
<1>1. o \in Nat /\ o + 4 <= Len(list)
  OBVIOUS
<1>2. NumberIn(list, o, e) = Sentinel /\ NumberIn(list, o + 2, e) = 0
  BY EndInList
<1> HIDE DEF o
<1>3. /\ open \in Lists /\ open.verdict = "open" /\ open.offset = o /\ open.endianness = e
      /\ open.parameters = parameters
  BY <1>1, OpenListType DEF OpenList
<1> HIDE DEF open
<1>4. ~(open.offset + 4 > Len(list))
  BY <1>1, <1>3
<1>5. DecodeParameter(open, list) = Turn(open, list, Sentinel, 0)
  BY <1>2, <1>3, <1>4, TurnTaken
<1>6. Turn(open, list, Sentinel, 0) = [open EXCEPT !.verdict = "good"]
  BY DEF Turn
<1> QED BY <1>5, <1>6 DEF open, o

LEMMA ListSurvives ==
  ASSUME NEW P \in Seq(Fitting), NEW e \in Endiannesses, NEW k, KeptChain(k, P)
  PROVE  DecodeList(EncodeList(P, e))
           = [valid |-> TRUE, endianness |-> e, parameters |-> k[Len(P)]]
<1> DEFINE N == Len(P)
           payload == EncodeList(P, e)
           turns == Len(payload) \div 4
           start == OpenList(4, <<>>, e)
<1>1. P \in Seq(Parameters) /\ N \in Nat
  BY FittingParameters
<1>2. PICK v : /\ PiecesChain(v, Pieces(P, e))
               /\ v[N] \in Seq(Bytes)
               /\ payload = (ListHead(e) \o v[N]) \o ListTail(e)
               /\ payload \in Seq(Bytes)
               /\ Len(payload) = 8 + Len(v[N])
  BY <1>1, ListEncoded
<1>3. k[0] = <<>> /\ \A i \in 0..N : k[i] \in Seq(Parameters)
  BY DEF KeptChain
<1>4. \A i \in 0..N : Len(v[i]) \in Nat /\ 4 * i <= Len(v[i])
  BY <1>2, PlacesGrow
<1>5. v[0] = <<>>
  BY <1>2 DEF PiecesChain
<1>6. start \in Lists
  <2>1. <<>> \in Seq(Parameters) /\ 4 \in Nat
    OBVIOUS
  <2> QED BY <2>1, OpenListType
<1>7. turns \in Nat /\ N + 1 <= turns
  <2> DEFINE all == Len(v[N])
  <2>1. N \in 0..N
    BY <1>1
  <2>2. all \in Nat /\ 4 * N <= all
    BY <2>1, <1>4
  <2>3. Len(payload) = 8 + all
    BY <1>2
  <2> HIDE DEF all, payload, N
  <2> QED BY <1>1, <2>2, <2>3
<1> HIDE DEF start, turns, payload
<1>8. PICK t : /\ TurnChain(t, start, payload, turns)
               /\ FoldLeft(LAMBDA l, turn : DecodeParameter(l, payload), start, Zeros(turns))
                    = t[turns]
  BY <1>2, <1>6, <1>7, TurnsChain
<1>9. TurnChain(t, start, payload, turns)
  BY <1>8, Zenon
<1>10. t[0] = start /\ \A i \in 1..turns : t[i] = DecodeParameter(t[i - 1], payload)
  BY <1>9 DEF TurnChain
<1>11. \A i \in 0..N : t[i] = OpenList(4 + Len(v[i]), k[i], e)
  <2> DEFINE S == {i \in Nat : t[i] = OpenList(4 + Len(v[i]), k[i], e)}
  <2>1. 0 \in S
    BY <1>3, <1>5, <1>10 DEF start
  <2>2. ASSUME NEW i \in 1..N, i - 1 \in S
        PROVE  i \in S
    <3>1. i \in 1..turns /\ i \in Nat
      BY <1>1, <1>7
    <3>2. DecodeParameter(OpenList(4 + Len(v[i - 1]), k[i - 1], e), payload)
            = OpenList(4 + Len(v[i]), k[i], e)
      BY <1>2, ParameterRead, ZenonT(60)
    <3>3. t[i] = DecodeParameter(t[i - 1], payload)
      BY <1>10, <3>1
    <3> QED BY <2>2, <3>1, <3>2, <3>3
  <2> HIDE DEF S
  <2>3. 0..N \subseteq S
    BY <1>1, <2>1, <2>2, InductionUpTo
  <2> QED BY <2>3 DEF S
<1> DEFINE last == [OpenList(4 + Len(v[N]), k[N], e) EXCEPT !.verdict = "good"]
<1>12. t[N + 1] = last
  <2>1. N \in 0..N /\ N + 1 \in 1..turns /\ (N + 1) - 1 = N
    BY <1>1, <1>7
  <2>2. t[N + 1] = DecodeParameter(OpenList(4 + Len(v[N]), k[N], e), payload)
    BY <2>1, <1>10, <1>11
  <2>3. k[N] \in Seq(Parameters)
    BY <2>1, <1>3
  <2> DEFINE all == v[N]
             kept == k[N]
  <2>4. all \in Seq(Bytes) /\ kept \in Seq(Parameters)
    BY <1>2, <2>3
  <2>5. payload = (ListHead(e) \o all) \o ListTail(e) /\ Len(payload) = 8 + Len(all)
    BY <1>2
  <2> HIDE DEF all, kept
  <2>6. DecodeParameter(OpenList(4 + Len(all), kept, e), payload)
          = [OpenList(4 + Len(all), kept, e) EXCEPT !.verdict = "good"]
    BY <1>2, <2>4, <2>5, EndRead
  <2> QED BY <2>2, <2>6 DEF all, kept
<1>13. /\ last \in Lists /\ last.verdict = "good"
       /\ last.endianness = e /\ last.parameters = k[N]
  <2>1. N \in 0..N
    BY <1>1
  <2>2. 4 + Len(v[N]) \in Nat /\ k[N] \in Seq(Parameters)
    BY <2>1, <1>3, <1>4
  <2> QED BY <2>2 DEF OpenList, Lists
<1> HIDE DEF last
<1>14. DecodeParameter(last, payload) = last
  BY <1>2, <1>13, TurnTaken
<1>15. t[turns] = last
  <2> DEFINE M == turns - (N + 1)
             S == {d \in Nat : t[(N + 1) + d] = last}
  <2>1. M \in Nat
    BY <1>1, <1>7
  <2>2. 0 \in S
    BY <1>1, <1>12
  <2>3. ASSUME NEW d \in 1..M, d - 1 \in S
        PROVE  d \in S
    <3>1. d \in Nat /\ (N + 1) + d \in 1..turns /\ ((N + 1) + d) - 1 = (N + 1) + (d - 1)
      BY <1>1, <1>7
    <3>2. t[(N + 1) + d] = DecodeParameter(last, payload)
      BY <3>1, <2>3, <1>10
    <3> QED BY <3>1, <3>2, <1>14
  <2> HIDE DEF S, M
  <2>4. 0..M \subseteq S
    BY <2>1, <2>2, <2>3, InductionUpTo
  <2>5. M \in S
    BY <2>1, <2>4
  <2>6. (N + 1) + M = turns
    BY <1>1, <1>7 DEF M
  <2> QED BY <2>5, <2>6 DEF S
<1> DEFINE choice == {x \in Endiannesses : SubSeq(payload, 1, 2) = ListRepresentation(x)}
           begin == [offset |-> 4, verdict |-> "open", parameters |-> <<>>,
                     endianness |-> CHOOSE x \in choice : TRUE]
           list == FoldLeft(LAMBDA l, turn : DecodeParameter(l, payload), begin, Zeros(turns))
<1>16. choice = {e}
  <2>1. SubSeq(payload, 1, 2) = ListRepresentation(e)
    <3> DEFINE all == v[N]
    <3>1. all \in Seq(Bytes) /\ payload = (ListHead(e) \o all) \o ListTail(e)
      BY <1>2
    <3> HIDE DEF all
    <3> QED BY <3>1, EndInList
  <2> QED BY <2>1, RepresentationChosen
<1>17. begin = start
  BY <1>16 DEF start, OpenList
<1>18. list = last
  BY <1>8, <1>15, <1>17, Zenon
<1>19. DecodeList(payload)
        = IF Len(payload) >= 8 /\ choice # {} /\ list.verdict = "good"
            THEN [valid |-> TRUE, endianness |-> list.endianness, parameters |-> list.parameters]
            ELSE NoList
  BY DEF DecodeList, turns
<1> HIDE DEF list, choice
<1>20. Len(payload) >= 8
  <2>1. N \in 0..N
    BY <1>1
  <2> QED BY <2>1, <1>2, <1>4
<1>21. choice # {}
  BY <1>16
<1>22. DecodeList(payload) = [valid |-> TRUE, endianness |-> e, parameters |-> k[N]]
  BY <1>13, <1>18, <1>19, <1>20, <1>21
<1> QED BY <1>22 DEF payload

-----------------------------------------------------------------------------
(* The set of a list's parameters, when one is inserted or left out.       *)

Elements(s) == {s[i] : i \in 1..Len(s)}

LEMMA ElementsOfConcatenation ==
  ASSUME NEW A, NEW s \in Seq(A), NEW t \in Seq(A)
  PROVE  Elements(s \o t) = Elements(s) \cup Elements(t)
<1> DEFINE c == s \o t
<1>1. /\ c \in Seq(A) /\ Len(c) = Len(s) + Len(t)
      /\ \A i \in 1..Len(s) : c[i] = s[i]
      /\ \A i \in 1..Len(t) : c[Len(s) + i] = t[i]
  BY Concatenation
<1>2. Len(s) \in Nat /\ Len(t) \in Nat
  OBVIOUS
<1> HIDE DEF c
<1>3. ASSUME NEW i \in 1..Len(c)
      PROVE  c[i] \in Elements(s) \cup Elements(t)
  <2>1. CASE i <= Len(s)
    BY <2>1, <1>1, <1>2 DEF Elements
  <2>2. CASE ~(i <= Len(s))
    <3>1. i - Len(s) \in 1..Len(t) /\ Len(s) + (i - Len(s)) = i
      BY <2>2, <1>1, <1>2
    <3>2. c[i] = t[i - Len(s)]
      BY <3>1, <1>1
    <3> QED BY <3>1, <3>2 DEF Elements
  <2> QED BY <2>1, <2>2
<1>4. ASSUME NEW i \in 1..Len(s)
      PROVE  s[i] \in Elements(c)
  <2>1. i \in 1..Len(c) /\ c[i] = s[i]
    BY <1>1, <1>2
  <2> QED BY <2>1 DEF Elements
<1>5. ASSUME NEW i \in 1..Len(t)
      PROVE  t[i] \in Elements(c)
  <2>1. Len(s) + i \in 1..Len(c) /\ c[Len(s) + i] = t[i]
    BY <1>1, <1>2
  <2> QED BY <2>1 DEF Elements
<1>6. Elements(c) = Elements(s) \cup Elements(t)
  BY <1>3, <1>4, <1>5 DEF Elements
<1> QED BY <1>6 DEF c

LEMMA ElementsOfOne ==
  ASSUME NEW x
  PROVE  Elements(<<x>>) = {x}
<1>1. Len(<<x>>) = 1 /\ <<x>>[1] = x
  OBVIOUS
<1> DEFINE s == <<x>>
<1>2. \A i \in 1..Len(s) : i = 1
  BY <1>1
<1>3. 1 \in 1..Len(s)
  BY <1>1
<1> HIDE DEF s
<1>4. Elements(s) = {s[1]}
  BY <1>2, <1>3 DEF Elements
<1> QED BY <1>1, <1>4 DEF s

LEMMA ElementsOfAppended ==
  ASSUME NEW A, NEW s \in Seq(A), NEW x \in A
  PROVE  Elements(Append(s, x)) = Elements(s) \cup {x}
<1> DEFINE c == Append(s, x)
<1>1. /\ c \in Seq(A) /\ Len(c) = Len(s) + 1 /\ c[Len(s) + 1] = x
      /\ \A i \in 1..Len(s) : c[i] = s[i]
  BY Appended
<1>2. Len(s) \in Nat
  OBVIOUS
<1> HIDE DEF c
<1>3. 1..Len(c) = 1..Len(s) \cup {Len(s) + 1}
  BY <1>1, <1>2
<1>4. Elements(c) = Elements(s) \cup {x}
  BY <1>1, <1>3 DEF Elements
<1> QED BY <1>4 DEF c

LEMMA ElementsType ==
  ASSUME NEW A, NEW s \in Seq(A)
  PROVE  Elements(s) \subseteq A
BY DEF Elements

(* A sequence cut in two.                                                  *)
LEMMA CutInTwo ==
  ASSUME NEW A, NEW s \in Seq(A), NEW n \in 0..Len(s)
  PROVE  /\ SubSeq(s, 1, n) \in Seq(A) /\ SubSeq(s, n + 1, Len(s)) \in Seq(A)
         /\ Len(SubSeq(s, 1, n)) = n /\ Len(SubSeq(s, n + 1, Len(s))) = Len(s) - n
         /\ s = SubSeq(s, 1, n) \o SubSeq(s, n + 1, Len(s))
<1> DEFINE m == Len(s) - n
           a == SubSeq(s, 1, n)
           b == SubSeq(s, n + 1, Len(s))
<1>1. Len(s) \in Nat /\ n \in Nat /\ m \in Nat /\ n + m = Len(s) /\ 0 \in Nat /\ 0 + n <= Len(s)
      /\ n + m <= Len(s)
  OBVIOUS
<1>2. a \in Seq(A) /\ Len(a) = n /\ \A i \in 1..n : a[i] = s[i]
  <2>1. /\ SubSeq(s, 0 + 1, 0 + n) \in Seq(A) /\ Len(SubSeq(s, 0 + 1, 0 + n)) = n
        /\ \A i \in 1..n : SubSeq(s, 0 + 1, 0 + n)[i] = s[0 + i]
    BY <1>1, Part
  <2>2. 0 + 1 = 1 /\ 0 + n = n /\ \A i \in 1..n : 0 + i = i
    BY <1>1
  <2> QED BY <2>1, <2>2
<1>3. b \in Seq(A) /\ Len(b) = m /\ \A i \in 1..m : b[i] = s[n + i]
  <2> HIDE DEF m
  <2>1. /\ SubSeq(s, n + 1, n + m) \in Seq(A) /\ Len(SubSeq(s, n + 1, n + m)) = m
        /\ \A i \in 1..m : SubSeq(s, n + 1, n + m)[i] = s[n + i]
    BY <1>1, Part
  <2> QED BY <2>1, <1>1
<1> HIDE DEF a, b
<1>4. /\ a \o b \in Seq(A) /\ Len(a \o b) = Len(a) + Len(b)
      /\ \A i \in 1..Len(a) : (a \o b)[i] = a[i]
      /\ \A i \in 1..Len(b) : (a \o b)[Len(a) + i] = b[i]
  BY <1>2, <1>3, Concatenation
<1> DEFINE c == a \o b
<1>5. c \in Seq(A) /\ Len(c) = Len(s)
  BY <1>1, <1>2, <1>3, <1>4
<1>6. ASSUME NEW i \in 1..Len(s)
      PROVE  s[i] = c[i]
  <2>1. CASE i <= n
    BY <2>1, <1>1, <1>2, <1>4
  <2>2. CASE ~(i <= n)
    <3>1. i - n \in 1..m /\ n + (i - n) = i
      BY <2>2, <1>1
    <3>2. c[n + (i - n)] = b[i - n] /\ b[i - n] = s[n + (i - n)]
      BY <3>1, <1>2, <1>3, <1>4
    <3> QED BY <3>1, <3>2
  <2> QED BY <2>1, <2>2
<1> HIDE DEF c
<1>7. s = c
  BY <1>5, <1>6, SameSequence
<1> QED BY <1>2, <1>3, <1>7 DEF a, b, c, m

LEMMA ElementsOfInserted ==
  ASSUME NEW A, NEW s \in Seq(A), NEW x \in A, NEW i \in 1..Len(s) + 1
  PROVE  InsertAt(s, i, x) \in Seq(A) /\ Elements(InsertAt(s, i, x)) = Elements(s) \cup {x}
<1> DEFINE n == i - 1
           a == SubSeq(s, 1, n)
           b == SubSeq(s, n + 1, Len(s))
           one == <<x>>
<1>1. n \in 0..Len(s) /\ n + 1 = i
  OBVIOUS
<1>2. a \in Seq(A) /\ b \in Seq(A) /\ s = a \o b
  <2> HIDE DEF n
  <2> QED BY <1>1, CutInTwo
<1>3. InsertAt(s, i, x) = (a \o one) \o b
  BY <1>1 DEF InsertAt
<1>4. one \in Seq(A) /\ Elements(one) = {x}
  BY ElementsOfOne
<1> HIDE DEF a, b, one
<1>5. a \o one \in Seq(A) /\ Elements(a \o one) = Elements(a) \cup Elements(one)
  BY <1>2, <1>4, Concatenation, ElementsOfConcatenation
<1> DEFINE ao == a \o one
<1>6. ao \in Seq(A)
  BY <1>5
<1> HIDE DEF ao
<1>7. ao \o b \in Seq(A) /\ Elements(ao \o b) = Elements(ao) \cup Elements(b)
  BY <1>2, <1>6, Concatenation, ElementsOfConcatenation
<1>8. Elements(s) = Elements(a) \cup Elements(b)
  BY <1>2, ElementsOfConcatenation
<1> QED BY <1>3, <1>4, <1>5, <1>7, <1>8 DEF ao

LEMMA ElementsOfRemoved ==
  ASSUME NEW A, NEW s \in Seq(A), NEW i \in 1..Len(s)
  PROVE  RemoveAt(s, i) \in Seq(A) /\ Elements(s) = Elements(RemoveAt(s, i)) \cup {s[i]}
<1> DEFINE n == i - 1
           a == SubSeq(s, 1, n)
           b == SubSeq(s, i, i)
           c == SubSeq(s, i + 1, Len(s))
           ab == SubSeq(s, 1, i)
<1>1. n \in 0..Len(s) /\ n + 1 = i /\ i \in 0..Len(s) /\ n \in 0..i /\ n \in Nat /\ i \in Nat
      /\ i <= Len(s)
  OBVIOUS
<1>2. /\ ab \in Seq(A) /\ Len(ab) = i /\ c \in Seq(A) /\ s = ab \o c
  BY <1>1, CutInTwo
<1>3. SubSeq(ab, 1, n) = a
  <2>1. SubSeq(SubSeq(s, 1, i), 0 + 1, 0 + n) = SubSeq(s, 0 + 1, 0 + n)
    <3>1. 0 \in Nat /\ 0 + n <= i
      BY <1>1
    <3> HIDE DEF n
    <3> QED BY <1>1, <3>1, PartOfPart
  <2>2. 0 + 1 = 1 /\ 0 + n = n
    BY <1>1
  <2> QED BY <2>1, <2>2
<1>4. SubSeq(ab, n + 1, Len(ab)) = b
  <2>1. SubSeq(SubSeq(s, 1, i), n + 1, n + 1) = SubSeq(s, n + 1, n + 1)
    <3>1. 1 \in Nat /\ n + 1 <= i
      BY <1>1
    <3> HIDE DEF n
    <3> QED BY <1>1, <3>1, PartOfPart
  <2> QED BY <2>1, <1>1, <1>2
<1>5. a \in Seq(A) /\ ab = a \o b /\ b \in Seq(A)
  <2>1. n \in 0..Len(ab)
    BY <1>1, <1>2
  <2> HIDE DEF ab, n
  <2>2. /\ SubSeq(ab, 1, n) \in Seq(A) /\ SubSeq(ab, n + 1, Len(ab)) \in Seq(A)
        /\ ab = SubSeq(ab, 1, n) \o SubSeq(ab, n + 1, Len(ab))
    BY <2>1, <1>2, CutInTwo
  <2> QED BY <2>2, <1>3, <1>4
<1>6. Elements(b) = {s[i]}
  <2>1. b = <<s[i]>>
    <3>1. /\ SubSeq(s, n + 1, n + 1) \in Seq(A) /\ Len(SubSeq(s, n + 1, n + 1)) = 1
          /\ \A j \in 1..1 : SubSeq(s, n + 1, n + 1)[j] = s[n + j]
      <4>1. 1 \in Nat /\ n + 1 <= Len(s)
        BY <1>1
      <4> HIDE DEF n
      <4> QED BY <1>1, <4>1, Part
    <3> DEFINE one == <<s[i]>>
    <3>2. one \in Seq(A) /\ Len(one) = 1 /\ one[1] = s[i]
      OBVIOUS
    <3>3. b \in Seq(A) /\ Len(b) = 1 /\ b[1] = s[i]
      BY <3>1, <1>1
    <3> HIDE DEF one, b
    <3>4. \A j \in 1..Len(b) : b[j] = one[j]
      BY <3>2, <3>3
    <3>5. b = one
      BY <3>2, <3>3, <3>4, SameSequence
    <3> QED BY <3>5 DEF one
  <2> QED BY <2>1, ElementsOfOne
<1>7. RemoveAt(s, i) = a \o c
  BY DEF RemoveAt
<1> HIDE DEF a, b, c, ab, n
<1>8. Elements(s) = Elements(ab) \cup Elements(c)
  BY <1>2, ElementsOfConcatenation
<1>9. Elements(ab) = Elements(a) \cup Elements(b)
  BY <1>5, ElementsOfConcatenation
<1>10. a \o c \in Seq(A) /\ Elements(a \o c) = Elements(a) \cup Elements(c)
  BY <1>2, <1>5, Concatenation, ElementsOfConcatenation
<1> QED BY <1>6, <1>7, <1>8, <1>9, <1>10

-----------------------------------------------------------------------------
(* What the rewritten lists still say of the announcement.                 *)

KeptOf(parameters) == {Padded(p) : p \in {q \in parameters : q.id # Pad}}

LEMMA KeptElements ==
  ASSUME NEW P \in Seq(Fitting), NEW k, KeptChain(k, P)
  PROVE  k[Len(P)] \in Seq(Parameters) /\ Elements(k[Len(P)]) = KeptOf(Elements(P))
<1> DEFINE N == Len(P)
           First(n) == {P[i] : i \in 1..n}
           S == {n \in Nat : Elements(k[n]) = KeptOf(First(n))}
<1>1. N \in Nat /\ \A i \in 1..N : P[i] \in Fitting /\ P[i] \in Parameters
  BY FittingParameters
<1>2. \A n \in 0..N : k[n] \in Seq(Parameters)
  BY DEF KeptChain
<1>3. 0 \in S
  <2>1. First(0) = {}
    OBVIOUS
  <2>2. k[0] = <<>>
    BY DEF KeptChain
  <2>3. Elements(<<>>) = {}
    BY DEF Elements
  <2>4. KeptOf({}) = {}
    BY DEF KeptOf
  <2> QED BY <2>1, <2>2, <2>3, <2>4
<1>4. ASSUME NEW n \in 1..N, n - 1 \in S
      PROVE  n \in S
  <2> DEFINE p == P[n]
  <2>1. n \in Nat /\ n - 1 \in 0..N
    BY <1>1
  <2>2. First(n) = First(n - 1) \cup {p}
    <3>1. 1..n = 1..(n - 1) \cup {n}
      BY <2>1
    <3> QED BY <3>1
  <2>3. Elements(k[n - 1]) = KeptOf(First(n - 1)) /\ k[n - 1] \in Seq(Parameters)
    BY <1>2, <1>4, <2>1
  <2>4. p \in Parameters /\ Padded(p) \in Parameters
    BY <1>1, PaddedType
  <2>5. k[n] = IF p.id = Pad THEN k[n - 1] ELSE Append(k[n - 1], Padded(p))
    BY DEF KeptChain
  <2> HIDE DEF First, p
  <2>6. CASE p.id = Pad
    <3>1. KeptOf(First(n - 1) \cup {p}) = KeptOf(First(n - 1))
      BY <2>6 DEF KeptOf
    <3> QED BY <2>1, <2>2, <2>3, <2>5, <2>6, <3>1
  <2>7. CASE p.id # Pad
    <3>1. KeptOf(First(n - 1) \cup {p}) = KeptOf(First(n - 1)) \cup {Padded(p)}
      BY <2>7 DEF KeptOf
    <3>2. Elements(Append(k[n - 1], Padded(p))) = Elements(k[n - 1]) \cup {Padded(p)}
      BY <2>3, <2>4, ElementsOfAppended
    <3> QED BY <2>1, <2>2, <2>3, <2>5, <2>7, <3>1, <3>2
  <2> QED BY <2>6, <2>7
<1> HIDE DEF S
<1>5. 0..N \subseteq S
  BY <1>1, <1>3, <1>4, InductionUpTo
<1>6. Elements(k[N]) = KeptOf(First(N))
  <2>1. N \in S
    BY <1>1, <1>5
  <2> QED BY <2>1 DEF S
<1>7. First(N) = Elements(P)
  BY DEF Elements
<1>8. N \in 0..N
  BY <1>1
<1> HIDE DEF First, N
<1> QED BY <1>2, <1>6, <1>7, <1>8 DEF N

LEMMA PaddedFits ==
  ASSUME NEW p \in Fitting
  PROVE  Padded(p) \in Fitting /\ Padded(p).id = p.id /\ Padded(p).value = PadBytes(p.value)
<1>1. p \in Parameters /\ p.value \in Seq(Bytes)
  BY FittingFacts
<1>2. Padded(p) \in Parameters /\ Padded(p).id = p.id /\ Padded(p).value = PadBytes(p.value)
  BY <1>1, PaddedType
<1>3. AlignedSize(Len(PadBytes(p.value))) = AlignedSize(Len(p.value))
  BY <1>1, PadBytesType, PaddedOnce
<1> QED BY <1>2, <1>3 DEF Fitting

FieldBytes(d, n, e) ==
  CASE n \in {"participant_guid", "endpoint_guid", "version", "vendor"} -> d[n]
    [] n \in {"metatraffic", "user", "unicast"} -> EncodeLocator(d[n], e)
    [] n \in {"name", "topic", "type"} -> EncodeString(d[n], e)
    [] n = "builtin" -> WriteWords(<<>>, <<d.builtin>>, e)
    [] n = "lease" -> EncodeDuration(d.lease, e)
    [] n = "reliability" -> EncodeReliability(d.reliability, e)

Names(d) == Mandatory[d.kind] \cup Optional[d.kind]
(* A list that says of d what d is, whatever else it holds.                *)
Faithful(P, d, e) ==
  /\ P \in Seq(Fitting)
  /\ \A p \in Elements(P), n \in Names(d) :
       p.id = Pid[n] => PadBytes(p.value) = PadBytes(FieldBytes(d, n, e))
  /\ \A n \in Names(d) \ Omissible(d) : \E p \in Elements(P) : p.id = Pid[n]

LEMMA NamesAreNames ==
  ASSUME NEW d, d.kind \in {"participant", "endpoint"}
  PROVE  /\ Names(d) \subseteq PidNames
         /\ \A n \in Names(d) : Pid[n] \in Nat /\ Pid[n] # Pad /\ Pid[n] # Sentinel
<1>1. Names(d) \subseteq PidNames
  BY DEF Names, Mandatory, Optional, PidNames
<1> QED BY <1>1, DiscoveryDataAssumption

LEMMA KeptFaithful ==
  ASSUME NEW d, d.kind \in {"participant", "endpoint"}, NEW e, NEW P, Faithful(P, d, e),
         NEW k, KeptChain(k, P)
  PROVE  /\ Faithful(k[Len(P)], d, e)
         /\ \A p \in Elements(k[Len(P)]), n \in Names(d) :
              p.id = Pid[n] => p.value = PadBytes(FieldBytes(d, n, e))
<1> DEFINE K == k[Len(P)]
<1>1. P \in Seq(Fitting)
  BY DEF Faithful
<1>2. K \in Seq(Parameters) /\ Elements(K) = KeptOf(Elements(P))
  BY <1>1, KeptElements
<1>3. Elements(P) \subseteq Fitting
  BY <1>1, ElementsType
<1> HIDE DEF K
<1>4. \A p \in Elements(K) : \E q \in Elements(P) : q.id # Pad /\ p = Padded(q)
  BY <1>2 DEF KeptOf
<1>5. \A q \in Elements(P) : q.id # Pad => Padded(q) \in Elements(K)
  BY <1>2 DEF KeptOf
<1>6. \A p \in Elements(K) : p \in Fitting
  BY <1>3, <1>4, PaddedFits
<1>7. K \in Seq(Fitting)
  <2>1. Len(K) \in Nat /\ K \in [1..Len(K) -> Parameters]
    BY <1>2
  <2>2. \A i \in 1..Len(K) : K[i] \in Fitting
    BY <1>6 DEF Elements
  <2>3. K \in [1..Len(K) -> Fitting]
    BY <2>1, <2>2
  <2> QED BY <2>1, <2>3, FunctionIsSequence
<1>8. ASSUME NEW p \in Elements(K), NEW n \in Names(d), p.id = Pid[n]
      PROVE  /\ p.value = PadBytes(FieldBytes(d, n, e))
             /\ PadBytes(p.value) = PadBytes(FieldBytes(d, n, e))
  <2>1. PICK q \in Elements(P) : q.id # Pad /\ p = Padded(q)
    BY <1>4
  <2>2. q \in Fitting /\ q.value \in Seq(Bytes)
    BY <1>3, FittingFacts
  <2>3. p.id = q.id /\ p.value = PadBytes(q.value)
    BY <2>1, <2>2, PaddedFits
  <2>4. PadBytes(q.value) = PadBytes(FieldBytes(d, n, e))
    BY <2>3, <1>8 DEF Faithful
  <2>5. PadBytes(PadBytes(q.value)) = PadBytes(q.value)
    BY <2>2, PaddedTwice
  <2> QED BY <2>3, <2>4, <2>5
<1>9. ASSUME NEW n \in Names(d) \ Omissible(d)
      PROVE  \E p \in Elements(K) : p.id = Pid[n]
  <2>1. PICK q \in Elements(P) : q.id = Pid[n]
    BY DEF Faithful
  <2>2. q.id # Pad
    BY <2>1, NamesAreNames
  <2>3. Padded(q).id = q.id
    BY <1>3, PaddedFits
  <2> QED BY <2>1, <2>2, <2>3, <1>5
<1> QED BY <1>7, <1>8, <1>9 DEF Faithful, K

LEMMA InsertedFaithful ==
  ASSUME NEW d, d.kind \in {"participant", "endpoint"}, NEW e, NEW P, Faithful(P, d, e),
         NEW p \in Fitting, \A n \in Names(d) : p.id # Pid[n], NEW i \in 1..Len(P) + 1
  PROVE  Faithful(InsertAt(P, i, p), d, e)
<1>1. P \in Seq(Fitting)
  BY DEF Faithful
<1> DEFINE Q == InsertAt(P, i, p)
<1>2. Q \in Seq(Fitting) /\ Elements(Q) = Elements(P) \cup {p}
  BY <1>1, ElementsOfInserted
<1> HIDE DEF Q
<1>3. Faithful(Q, d, e)
  BY <1>2 DEF Faithful
<1> QED BY <1>3 DEF Q

LEMMA RemovedFaithful ==
  ASSUME NEW d, d.kind \in {"participant", "endpoint"}, NEW e, NEW P, Faithful(P, d, e),
         NEW m \in Omissible(d), NEW i \in 1..Len(P), P[i].id = Pid[m]
  PROVE  Faithful(RemoveAt(P, i), d, e)
<1>1. P \in Seq(Fitting)
  BY DEF Faithful
<1> DEFINE Q == RemoveAt(P, i)
<1>2. Q \in Seq(Fitting) /\ Elements(P) = Elements(Q) \cup {P[i]}
  BY <1>1, ElementsOfRemoved
<1>3. m \in Names(d)
  BY DEF Omissible, Names
<1>4. \A n \in Names(d) \ Omissible(d) : Pid[n] # Pid[m]
  BY <1>3, NamesAreNames, DiscoveryDataAssumption
<1> HIDE DEF Q
<1>5. Faithful(Q, d, e)
  BY <1>2, <1>4 DEF Faithful
<1> QED BY <1>5 DEF Q

-----------------------------------------------------------------------------
(* The list this code writes says what it was given.                       *)

Announcements == Participants \cup Endpoints

LEMMA ParticipantShape ==
  ASSUME NEW d \in Participants
  PROVE  /\ d.kind = "participant"
         /\ d.participant_guid \in BytesOf(16) /\ d.version \in BytesOf(2)
         /\ d.vendor \in BytesOf(2) /\ d.metatraffic \in Locators /\ d.user \in Locators
         /\ d.builtin \in 0..Capacity(4) - 1 /\ d.lease \in Int \ {1} /\ d.name \in Seq(Bytes)
         /\ d["participant_guid"] = d.participant_guid /\ d["version"] = d.version
         /\ d["vendor"] = d.vendor /\ d["metatraffic"] = d.metatraffic /\ d["user"] = d.user
         /\ d["name"] = d.name /\ d["builtin"] = d.builtin /\ d["lease"] = d.lease
BY DEF Participants

LEMMA EndpointShape ==
  ASSUME NEW d \in Endpoints
  PROVE  /\ d.kind = "endpoint"
         /\ d.participant_guid \in BytesOf(16) /\ d.endpoint_guid \in BytesOf(16)
         /\ d.topic \in Seq(Bytes) /\ d.type \in Seq(Bytes) /\ d.unicast \in Locators
         /\ d.reliability \in BOOLEAN
         /\ d["participant_guid"] = d.participant_guid /\ d["endpoint_guid"] = d.endpoint_guid
         /\ d["topic"] = d.topic /\ d["type"] = d.type /\ d["unicast"] = d.unicast
         /\ d["reliability"] = d.reliability
BY DEF Endpoints

ParticipantNames ==
  {"version", "vendor", "participant_guid", "builtin", "metatraffic", "user", "lease"}
EndpointNames ==
  {"endpoint_guid", "participant_guid", "topic", "type", "unicast", "reliability"}
Written(d) ==
  IF d.kind = "endpoint" THEN EndpointNames
  ELSE IF d.name = <<>> THEN ParticipantNames ELSE ParticipantNames \cup {"name"}

LEMMA WrittenNames ==
  ASSUME NEW d \in Announcements
  PROVE  Written(d) \subseteq Names(d) /\ Names(d) \ Omissible(d) \subseteq Written(d)
<1>1. CASE d \in Endpoints
  BY <1>1, EndpointShape DEF Written, EndpointNames, Names, Mandatory, Optional
<1>2. CASE d \in Participants
  <2>1. d.kind = "participant"
    BY <1>2, ParticipantShape
  <2>2. Names(d) = ParticipantNames \cup {"name"}
    BY <2>1 DEF Names, Mandatory, Optional, ParticipantNames
  <2>3. d.name = <<>> => "name" \in Omissible(d)
    BY <1>2, <2>1, ParticipantShape DEF Omissible, Optional, Default
  <2> QED BY <2>1, <2>2, <2>3 DEF Written
<1> QED BY <1>1, <1>2 DEF Announcements

LEMMA AnnouncementKind ==
  ASSUME NEW d \in Announcements
  PROVE  d.kind \in {"participant", "endpoint"}
BY ParticipantShape, EndpointShape DEF Announcements

LEMMA FieldBytesOf ==
  ASSUME NEW d, NEW e
  PROVE  /\ FieldBytes(d, "participant_guid", e) = d["participant_guid"]
         /\ FieldBytes(d, "endpoint_guid", e) = d["endpoint_guid"]
         /\ FieldBytes(d, "version", e) = d["version"] /\ FieldBytes(d, "vendor", e) = d["vendor"]
         /\ FieldBytes(d, "metatraffic", e) = EncodeLocator(d["metatraffic"], e)
         /\ FieldBytes(d, "user", e) = EncodeLocator(d["user"], e)
         /\ FieldBytes(d, "unicast", e) = EncodeLocator(d["unicast"], e)
         /\ FieldBytes(d, "name", e) = EncodeString(d["name"], e)
         /\ FieldBytes(d, "topic", e) = EncodeString(d["topic"], e)
         /\ FieldBytes(d, "type", e) = EncodeString(d["type"], e)
         /\ FieldBytes(d, "builtin", e) = WriteWords(<<>>, <<d.builtin>>, e)
         /\ FieldBytes(d, "lease", e) = EncodeDuration(d.lease, e)
         /\ FieldBytes(d, "reliability", e) = EncodeReliability(d.reliability, e)
BY DEF FieldBytes

LEMMA ElementsOfSix ==
  ASSUME NEW a, NEW b, NEW c, NEW f, NEW g, NEW h
  PROVE  Elements(<<a, b, c, f, g, h>>) = {a, b, c, f, g, h}
<1> DEFINE s == <<a, b, c, f, g, h>>
<1>1. Len(s) = 6
  OBVIOUS
<1>2. s[1] = a /\ s[2] = b /\ s[3] = c /\ s[4] = f /\ s[5] = g /\ s[6] = h
  OBVIOUS
<1>3. 1..6 = {1, 2, 3, 4, 5, 6}
  OBVIOUS
<1> HIDE DEF s
<1>4. Elements(s) = {s[i] : i \in {1, 2, 3, 4, 5, 6}}
  BY <1>1, <1>3 DEF Elements
<1>5. Elements(s) = {s[1], s[2], s[3], s[4], s[5], s[6]}
  BY <1>4
<1> QED BY <1>2, <1>5 DEF s

LEMMA ElementsOfSeven ==
  ASSUME NEW a, NEW b, NEW c, NEW f, NEW g, NEW h, NEW j
  PROVE  Elements(<<a, b, c, f, g, h, j>>) = {a, b, c, f, g, h, j}
<1> DEFINE s == <<a, b, c, f, g, h, j>>
<1>1. Len(s) = 7
  OBVIOUS
<1>2. s[1] = a /\ s[2] = b /\ s[3] = c /\ s[4] = f /\ s[5] = g /\ s[6] = h /\ s[7] = j
  OBVIOUS
<1>3. 1..7 = {1, 2, 3, 4, 5, 6, 7}
  OBVIOUS
<1> HIDE DEF s
<1>4. Elements(s) = {s[i] : i \in {1, 2, 3, 4, 5, 6, 7}}
  BY <1>1, <1>3 DEF Elements
<1>5. Elements(s) = {s[1], s[2], s[3], s[4], s[5], s[6], s[7]}
  BY <1>4
<1> QED BY <1>2, <1>5 DEF s

Said(d, e, names) == {Parameter(n, FieldBytes(d, n, e)) : n \in names}

LEMMA OwnElements ==
  ASSUME NEW d \in Announcements, NEW e
  PROVE  Elements(ParametersOf(d, e)) = Said(d, e, Written(d))
<1>1. CASE d \in Endpoints
  <2> DEFINE a == Parameter("endpoint_guid", d.endpoint_guid)
             b == Parameter("participant_guid", d.participant_guid)
             c == Parameter("topic", EncodeString(d.topic, e))
             f == Parameter("type", EncodeString(d.type, e))
             g == Parameter("unicast", EncodeLocator(d.unicast, e))
             h == Parameter("reliability", EncodeReliability(d.reliability, e))
  <2>1. /\ d.kind = "endpoint"
        /\ d["participant_guid"] = d.participant_guid /\ d["endpoint_guid"] = d.endpoint_guid
        /\ d["topic"] = d.topic /\ d["type"] = d.type /\ d["unicast"] = d.unicast
    BY <1>1, EndpointShape
  <2>2. ParametersOf(d, e) = <<a, b, c, f, g, h>>
    BY <2>1 DEF ParametersOf, EndpointParameters
  <2>3. /\ a = Parameter("endpoint_guid", FieldBytes(d, "endpoint_guid", e))
        /\ b = Parameter("participant_guid", FieldBytes(d, "participant_guid", e))
        /\ c = Parameter("topic", FieldBytes(d, "topic", e))
        /\ f = Parameter("type", FieldBytes(d, "type", e))
        /\ g = Parameter("unicast", FieldBytes(d, "unicast", e))
        /\ h = Parameter("reliability", FieldBytes(d, "reliability", e))
    BY <2>1, FieldBytesOf
  <2> HIDE DEF a, b, c, f, g, h
  <2>4. Elements(ParametersOf(d, e)) = {a, b, c, f, g, h}
    BY <2>2, ElementsOfSix
  <2>5. Said(d, e, EndpointNames) = {a, b, c, f, g, h}
    BY <2>3 DEF Said, EndpointNames
  <2> QED BY <2>1, <2>4, <2>5 DEF Written
<1>2. CASE d \in Participants
  <2> DEFINE a == Parameter("version", d.version)
             b == Parameter("vendor", d.vendor)
             c == Parameter("participant_guid", d.participant_guid)
             f == Parameter("builtin", WriteWords(<<>>, <<d.builtin>>, e))
             g == Parameter("metatraffic", EncodeLocator(d.metatraffic, e))
             h == Parameter("user", EncodeLocator(d.user, e))
             j == Parameter("lease", EncodeDuration(d.lease, e))
             n == Parameter("name", EncodeString(d.name, e))
  <2>1. /\ d.kind = "participant"
        /\ d["participant_guid"] = d.participant_guid /\ d["version"] = d.version
        /\ d["vendor"] = d.vendor /\ d["metatraffic"] = d.metatraffic /\ d["user"] = d.user
        /\ d["name"] = d.name
    BY <1>2, ParticipantShape
  <2>2. /\ ParametersOf(d, e) = OwnParameters(d, e) \o NameParameters(d, e)
        /\ OwnParameters(d, e) \in Seq(Parameters) /\ NameParameters(d, e) \in Seq(Parameters)
    BY <1>2, <2>1, ParticipantParametersType DEF ParametersOf
  <2>3. /\ OwnParameters(d, e) = <<a, b, c, f, g, h, j>>
        /\ NameParameters(d, e) = IF d.name = <<>> THEN <<>> ELSE <<n>>
    BY DEF OwnParameters, NameParameters
  <2>4. /\ a = Parameter("version", FieldBytes(d, "version", e))
        /\ b = Parameter("vendor", FieldBytes(d, "vendor", e))
        /\ c = Parameter("participant_guid", FieldBytes(d, "participant_guid", e))
        /\ f = Parameter("builtin", FieldBytes(d, "builtin", e))
        /\ g = Parameter("metatraffic", FieldBytes(d, "metatraffic", e))
        /\ h = Parameter("user", FieldBytes(d, "user", e))
        /\ j = Parameter("lease", FieldBytes(d, "lease", e))
        /\ n = Parameter("name", FieldBytes(d, "name", e))
    BY <2>1, FieldBytesOf
  <2> HIDE DEF a, b, c, f, g, h, j, n
  <2>5. Elements(OwnParameters(d, e)) = {a, b, c, f, g, h, j}
    BY <2>3, ElementsOfSeven
  <2>6. Elements(NameParameters(d, e)) = IF d.name = <<>> THEN {} ELSE {n}
    <3>1. Elements(<<>>) = {}
      BY DEF Elements
    <3> QED BY <2>3, <3>1, ElementsOfOne
  <2>7. Elements(ParametersOf(d, e))
          = Elements(OwnParameters(d, e)) \cup Elements(NameParameters(d, e))
    BY <2>2, ElementsOfConcatenation
  <2>8. Said(d, e, ParticipantNames) = {a, b, c, f, g, h, j}
    BY <2>4 DEF Said, ParticipantNames
  <2>9. Said(d, e, ParticipantNames \cup {"name"}) = Said(d, e, ParticipantNames) \cup {n}
    BY <2>4 DEF Said
  <2>10. CASE d.name = <<>>
    BY <2>1, <2>5, <2>6, <2>7, <2>8, <2>10 DEF Written
  <2>11. CASE d.name # <<>>
    BY <2>1, <2>5, <2>6, <2>7, <2>8, <2>9, <2>11 DEF Written
  <2> QED BY <2>10, <2>11
<1> QED BY <1>1, <1>2 DEF Announcements

LEMMA OwnFaithful ==
  ASSUME NEW d \in Announcements, NEW e, Encodable(ParametersOf(d, e))
  PROVE  Faithful(ParametersOf(d, e), d, e)
<1> DEFINE P == ParametersOf(d, e)
<1>1. P \in Seq(Parameters) /\ Elements(P) = Said(d, e, Written(d))
  BY ParametersOfType, OwnElements DEF Announcements
<1>2. Written(d) \subseteq Names(d) /\ Names(d) \ Omissible(d) \subseteq Written(d)
  BY WrittenNames
<1>3. Names(d) \subseteq PidNames
  BY AnnouncementKind, NamesAreNames
<1>4. \A n \in PidNames : \A v : Parameter(n, v).id = Pid[n] /\ Parameter(n, v).value = v
  BY DEF Parameter
<1>5. \A n \in PidNames : Pid[n] \in 0..Capacity(2) - 1
  BY DiscoveryDataAssumption
<1>6. \A a, b \in PidNames : Pid[a] = Pid[b] => a = b
  BY DiscoveryDataAssumption
<1>7. \A p \in Elements(P) : \E n \in Written(d) : p = Parameter(n, FieldBytes(d, n, e))
  BY <1>1 DEF Said
<1>8. \A n \in Written(d) : Parameter(n, FieldBytes(d, n, e)) \in Elements(P)
  BY <1>1 DEF Said
<1>9. Encodable(P)
  OBVIOUS
<1> HIDE DEF P
<1>10. \A i \in 1..Len(P) : P[i] \in Fitting
  <2> TAKE i \in 1..Len(P)
  <2>1. P[i] \in Parameters /\ P[i] \in Elements(P) /\ i \in DOMAIN P
    BY <1>1 DEF Elements
  <2>2. P[i].id # Sentinel /\ AlignedSize(Len(P[i].value)) < Capacity(2)
    BY <2>1, <1>9 DEF Encodable
  <2>3. PICK n \in Written(d) : P[i] = Parameter(n, FieldBytes(d, n, e))
    BY <2>1, <1>7
  <2>4. P[i].id \in 0..Capacity(2) - 1
    BY <2>3, <1>2, <1>3, <1>4, <1>5
  <2> QED BY <2>1, <2>2, <2>4 DEF Fitting
<1>11. P \in Seq(Fitting)
  <2>1. Len(P) \in Nat /\ P \in [1..Len(P) -> Parameters]
    BY <1>1
  <2>2. P \in [1..Len(P) -> Fitting]
    BY <2>1, <1>10
  <2> QED BY <2>1, <2>2, FunctionIsSequence
<1>12. ASSUME NEW p \in Elements(P), NEW n \in Names(d), p.id = Pid[n]
       PROVE  PadBytes(p.value) = PadBytes(FieldBytes(d, n, e))
  <2>1. PICK x \in Written(d) : p = Parameter(x, FieldBytes(d, x, e))
    BY <1>7
  <2>2. x = n
    BY <2>1, <1>2, <1>3, <1>4, <1>6, <1>12
  <2>3. p.value = FieldBytes(d, n, e)
    BY <2>1, <2>2, <1>3, <1>4
  <2> QED BY <2>3
<1>13. ASSUME NEW n \in Names(d) \ Omissible(d)
       PROVE  \E p \in Elements(P) : p.id = Pid[n]
  <2>1. n \in Written(d) /\ n \in PidNames
    BY <1>2, <1>3
  <2> QED BY <2>1, <1>4, <1>8
<1>14. Faithful(P, d, e)
  BY <1>11, <1>12, <1>13 DEF Faithful
<1> QED BY <1>14 DEF P

-----------------------------------------------------------------------------
(* A list as it travels is within the limits of the format.                *)

(* The wires on which every parameter says what the data d says.           *)
FaithfulWire(w, d, e) ==
  \E P : Faithful(P, d, e) /\ w = [kind |-> d.kind, bytes |-> EncodeList(P, e)]

LEMMA OwnWire ==
  ASSUME NEW d \in Announcements, NEW e, EncodeAnnouncement(d, e) # Refused
  PROVE  /\ EncodeAnnouncement(d, e) = [kind |-> d.kind, bytes |-> EncodeList(ParametersOf(d, e), e)]
         /\ Announceable(d) /\ Encodable(ParametersOf(d, e))
         /\ Faithful(ParametersOf(d, e), d, e)
<1>1. /\ EncodeAnnouncement(d, e) = [kind |-> d.kind, bytes |-> EncodeList(ParametersOf(d, e), e)]
      /\ Announceable(d) /\ Encodable(ParametersOf(d, e))
  BY DEF EncodeAnnouncement
<1>2. Faithful(ParametersOf(d, e), d, e)
  BY <1>1, OwnFaithful
<1> QED BY <1>1, <1>2

LEMMA TwoByteRoom == 28 < Capacity(2) /\ Capacity(2) \in Nat /\ MaxUint16 = Capacity(2) - 1
<1>1. Words(MaxBits) \in Nat
  BY SubmessagesAssumption, WordCount
<1>2. Capacity(2) \in Nat
  BY CapacityFacts
<1>3. 28 + 4 * Words(MaxBits) <= Capacity(2) - 1
  BY SizeAssumption DEF MaxUint16
<1> DEFINE x == Words(MaxBits)
           y == Capacity(2)
<1>4. x \in Nat /\ y \in Nat /\ 28 + 4 * x <= y - 1
  BY <1>1, <1>2, <1>3
<1> HIDE DEF x, y
<1>5. 28 < y
  BY <1>4
<1> QED BY <1>2, <1>5 DEF y, MaxUint16

LEMMA PaddingFits ==
  ASSUME NEW id \in {Pad, UnknownPid}
  PROVE  /\ [id |-> id, value |-> <<1, 1, 1>>] \in Fitting
         /\ \A n \in PidNames : id # Pid[n]
<1>1. UnknownPid \in UnknownPids
  BY UnknownPidsAssumption DEF UnknownPid
<1>2. Capacity(2) \in Nat /\ 28 < Capacity(2) /\ MaxUint16 = Capacity(2) - 1
  BY TwoByteRoom
<1>3. id \in 0..Capacity(2) - 1 /\ id # Sentinel /\ \A n \in PidNames : id # Pid[n]
  BY <1>1, <1>2, DiscoveryDataAssumption, ParameterIdsAssumption DEF UnknownPids
<1> DEFINE s == <<1, 1, 1>>
           p == [id |-> id, value |-> s]
<1>4. s \in Seq(Bytes) /\ Len(s) = 3
  BY SmallBytes
<1> HIDE DEF s
<1>5. AlignedSize(Len(s)) \in Nat /\ AlignedSize(Len(s)) <= 6
  <2>1. AlignedSize(Len(s)) \in Nat /\ AlignedSize(Len(s)) <= Len(s) + 3
    BY <1>4, PadBytesType
  <2> QED BY <2>1, <1>4
<1>6. AlignedSize(Len(s)) < Capacity(2)
  <2> DEFINE x == AlignedSize(Len(s))
             y == Capacity(2)
  <2>1. x \in Nat /\ x <= 6 /\ y \in Nat /\ 28 < y
    BY <1>2, <1>5
  <2> HIDE DEF x, y
  <2>2. x < y
    BY <2>1
  <2> QED BY <2>2 DEF x, y
<1>7. p \in Parameters /\ p.id = id /\ p.value = s
  BY <1>2, <1>3, <1>4 DEF Parameters
<1> HIDE DEF p
<1>8. p \in Fitting
  BY <1>3, <1>6, <1>7 DEF Fitting
<1> QED BY <1>3, <1>8 DEF p, s

LEMMA RewrittenFaithful ==
  ASSUME NEW d \in Announcements, NEW e \in Endiannesses, NEW own,
         own = EncodeAnnouncement(d, e), own # Refused,
         NEW w \in Rewritten(d, own, DecodeList(own.bytes))
  PROVE  FaithfulWire(w, d, e)
<1> DEFINE P == ParametersOf(d, e)
<1>1. own = [kind |-> d.kind, bytes |-> EncodeList(P, e)] /\ Faithful(P, d, e)
  BY OwnWire
<1>2. P \in Seq(Fitting) /\ P \in Seq(Parameters)
  BY <1>1, FittingParameters DEF Faithful
<1> HIDE DEF P
<1>3. PICK k : KeptChain(k, P)
  BY <1>2, KeptExists
<1> DEFINE K == k[Len(P)]
<1>4. DecodeList(own.bytes) = [valid |-> TRUE, endianness |-> e, parameters |-> K]
  BY <1>1, <1>2, <1>3, ListSurvives
<1>5. d.kind \in {"participant", "endpoint"}
  BY AnnouncementKind
<1>6. Faithful(K, d, e)
  BY <1>1, <1>3, <1>5, KeptFaithful
<1> HIDE DEF K
<1>7. PICK Q \in OtherLists(d, K) : w = [own EXCEPT !.bytes = EncodeList(Q, e)]
  BY <1>4 DEF Rewritten
<1>8. w = [kind |-> d.kind, bytes |-> EncodeList(Q, e)]
  BY <1>1, <1>7
<1>9. Faithful(Q, d, e)
  <2>1. CASE \E i \in 1..Len(K) + 1, id \in {Pad, UnknownPid} :
               Q = InsertAt(K, i, [id |-> id, value |-> <<1, 1, 1>>])
    <3>1. PICK i \in 1..Len(K) + 1, id \in {Pad, UnknownPid} :
               Q = InsertAt(K, i, [id |-> id, value |-> <<1, 1, 1>>])
      BY <2>1
    <3> DEFINE p == [id |-> id, value |-> <<1, 1, 1>>]
    <3>2. p \in Fitting /\ p.id = id /\ \A n \in PidNames : id # Pid[n]
      BY PaddingFits
    <3>3. \A n \in Names(d) : p.id # Pid[n]
      BY <1>5, <3>2, NamesAreNames
    <3>4. Q = InsertAt(K, i, p)
      BY <3>1
    <3> HIDE DEF p
    <3> QED BY <1>5, <1>6, <3>2, <3>3, <3>4, InsertedFaithful
  <2>2. CASE \E i \in UNION {Matching(K, Pid[n]) : n \in Omissible(d)} : Q = RemoveAt(K, i)
    <3>1. PICK i \in UNION {Matching(K, Pid[n]) : n \in Omissible(d)} : Q = RemoveAt(K, i)
      BY <2>2
    <3>2. PICK m \in Omissible(d) : i \in Matching(K, Pid[m])
      BY <3>1
    <3>3. m \in Omissible(d)
      BY <3>2 DEF Omissible
    <3>4. K \in Seq(Fitting)
      BY <1>6 DEF Faithful
    <3>5. i \in 1..Len(K) /\ K[i].id = Pid[m]
      BY <3>2, <3>4 DEF Matching
    <3> QED BY <1>5, <1>6, <3>1, <3>3, <3>5, RemovedFaithful
  <2> QED BY <1>7, <2>1, <2>2 DEF OtherLists
<1> QED BY <1>8, <1>9 DEF FaithfulWire

LEMMA FaithfulWireType ==
  ASSUME NEW d \in Announcements, NEW e, NEW w, FaithfulWire(w, d, e)
  PROVE  w \in ListWires /\ w.kind = d.kind
<1>1. PICK P : Faithful(P, d, e) /\ w = [kind |-> d.kind, bytes |-> EncodeList(P, e)]
  BY DEF FaithfulWire
<1>2. P \in Seq(Parameters)
  BY <1>1, FittingParameters DEF Faithful
<1>3. EncodeList(P, e) \in Seq(Bytes)
  BY <1>2, ListType
<1> QED BY <1>1, <1>3, AnnouncementKind DEF ListWires

-----------------------------------------------------------------------------
(* Damaged bytes are bytes: cut, extended or changed at one place.         *)

(* DATA with room before the payload.                                      *)
Extended(c, e) ==
  SubSeq(c, 1, 2) \o ToBytes(20, 2, e) \o SubSeq(c, 5, 20) \o <<3, 3, 3, 3>>
    \o SubSeq(c, 21, Len(c))

LEMMA PieceType ==
  ASSUME NEW A, NEW s \in Seq(A), NEW o \in Nat, NEW n \in Nat, o + n <= Len(s)
  PROVE  Piece(s, o, n) \in Seq(A) /\ Len(Piece(s, o, n)) = n
BY Part DEF Piece

LEMMA PieceOfFirst ==
  ASSUME NEW A, NEW s \in Seq(A), NEW t \in Seq(A), NEW o \in Nat, NEW n \in Nat,
         o + n <= Len(s)
  PROVE  Piece(s \o t, o, n) = Piece(s, o, n)
BY PartOfFirst DEF Piece

LEMMA PieceBehind ==
  ASSUME NEW A, NEW s \in Seq(A), NEW t \in Seq(A), NEW o, o = Len(s), NEW n, n = Len(t)
  PROVE  Piece(s \o t, o, n) = t
<1>1. SubSeq(s \o t, Len(s) + 1, Len(s) + Len(t)) = t
  BY EndOfConcatenation
<1> QED BY <1>1 DEF Piece

LEMMA PieceOfPiece ==
  ASSUME NEW A, NEW s \in Seq(A), NEW o \in Nat, NEW k \in Nat, o + k <= Len(s),
         NEW m \in Nat, NEW n \in Nat, m + n <= k, NEW place \in Nat, place = o + m
  PROVE  Piece(s, place, n) = Piece(Piece(s, o, k), m, n)
<1> DEFINE piece == Piece(s, o, k)
<1>1. SubSeq(s, o + 1, o + k) = piece
  BY DEF Piece
<1> HIDE DEF piece
<1>2. SubSeq(s, (o + m) + 1, (o + m) + n) = SubSeq(piece, m + 1, m + n)
  BY <1>1, PartWithin
<1>3. SubSeq(s, place + 1, place + n) = SubSeq(piece, m + 1, m + n)
  BY <1>2
<1>4. Piece(s, place, n) = Piece(piece, m, n)
  BY <1>3 DEF Piece
<1> QED BY <1>4 DEF piece

LEMMA PiecesOfLonger ==
  ASSUME NEW A, NEW s \in Seq(A), NEW t \in Seq(A),
         NEW length \in Nat, Len(s) = length, NEW size \in Nat, Len(t) = size
  PROVE  /\ s \o t \in Seq(A) /\ Len(s \o t) = length + size
         /\ Piece(s \o t, length, size) = t
         /\ \A o, n \in Nat : o + n <= length => Piece(s \o t, o, n) = Piece(s, o, n)
<1>1. s \o t \in Seq(A) /\ Len(s \o t) = Len(s) + Len(t)
  BY Concatenation
<1>2. Piece(s \o t, length, size) = t
  BY PieceBehind
<1>3. ASSUME NEW o \in Nat, NEW n \in Nat, o + n <= length
      PROVE  Piece(s \o t, o, n) = Piece(s, o, n)
  <2>1. o + n <= Len(s)
    BY <1>3
  <2>2. Piece(s \o t, o, n) = Piece(s, o, n)
    BY <2>1, PieceOfFirst
  <2> QED BY <2>2
<1> QED BY <1>1, <1>2, <1>3

LEMMA WholePiece ==
  ASSUME NEW A, NEW s \in Seq(A), NEW zero, zero = 0, NEW n, n = Len(s)
  PROVE  Piece(s, zero, n) = s
<1>1. SubSeq(s, 1, Len(s)) = s
  BY WholePart
<1>2. zero + 1 = 1 /\ zero + n = n
  OBVIOUS
<1> QED BY <1>1, <1>2 DEF Piece

Five(a, b, c, f, g) == a \o b \o c \o f \o g

(* Five sequences behind each other and the places where they start.       *)
LEMMA FiveParts ==
  ASSUME NEW A, NEW a \in Seq(A), NEW b \in Seq(A), NEW c \in Seq(A), NEW f \in Seq(A),
         NEW g \in Seq(A)
  PROVE  LET all == Five(a, b, c, f, g)
             third == Len(a) + Len(b)
             last == (third + Len(c)) + Len(f)
         IN /\ all \in Seq(A) /\ Len(all) = last + Len(g)
            /\ Piece(all, 0, Len(a)) = a /\ Piece(all, Len(a), Len(b)) = b
            /\ Piece(all, third, Len(c)) = c /\ Piece(all, last, Len(g)) = g
<1> DEFINE la == Len(a)
           lb == Len(b)
           lc == Len(c)
           lf == Len(f)
           lg == Len(g)
<1>8. /\ la \in Nat /\ Len(a) = la /\ lb \in Nat /\ Len(b) = lb /\ lc \in Nat /\ Len(c) = lc
      /\ lf \in Nat /\ Len(f) = lf /\ lg \in Nat /\ Len(g) = lg
  OBVIOUS
<1> HIDE DEF la, lb, lc, lf, lg
<1> DEFINE s1 == a \o b
           s2 == s1 \o c
           s3 == s2 \o f
           s4 == s3 \o g
           o1 == la + lb
           o2 == o1 + lc
           o3 == o2 + lf
           zero == 0
<1>1. Five(a, b, c, f, g) = s4
  BY DEF Five
<1>2. o1 \in Nat /\ o2 \in Nat /\ o3 \in Nat /\ zero \in Nat
      /\ zero = 0 /\ o1 = la + lb /\ o2 = o1 + lc /\ o3 = o2 + lf
  BY <1>8
<1> HIDE DEF o1, o2, o3, zero
<1>3. /\ s1 \in Seq(A) /\ Len(s1) = o1 /\ Piece(s1, la, lb) = b
      /\ Piece(s1, zero, la) = Piece(a, zero, la)
  <2>1. s1 \in Seq(A)
    BY <1>8, PiecesOfLonger
  <2>2. Len(s1) = la + lb
    BY <1>8, PiecesOfLonger
  <2>3. Piece(s1, la, lb) = b
    BY <1>8, PiecesOfLonger
  <2>4. ASSUME NEW o \in Nat, NEW n \in Nat, o + n <= la
        PROVE  Piece(s1, o, n) = Piece(a, o, n)
    <3>1. o + n <= Len(a)
      BY <1>8, <2>4
    <3> QED BY <3>1, PieceOfFirst
  <2> HIDE DEF s1
  <2>5. zero + la <= la
    BY <1>8, <1>2
  <2> QED BY <1>8, <1>2, <2>1, <2>2, <2>3, <2>4, <2>5
<1> HIDE DEF s1
<1>4. Piece(a, zero, la) = a
  BY <1>8, <1>2, WholePiece
<1>5. /\ s2 \in Seq(A) /\ Len(s2) = o2 /\ Piece(s2, o1, lc) = c
      /\ Piece(s2, zero, la) = Piece(s1, zero, la) /\ Piece(s2, la, lb) = Piece(s1, la, lb)
  <2>1. s2 \in Seq(A)
    BY <1>8, <1>2, <1>3, PiecesOfLonger
  <2>2. Len(s2) = o1 + lc
    BY <1>8, <1>2, <1>3, PiecesOfLonger
  <2>3. Piece(s2, o1, lc) = c
    BY <1>8, <1>2, <1>3, PiecesOfLonger
  <2>4. ASSUME NEW o \in Nat, NEW n \in Nat, o + n <= o1
        PROVE  Piece(s2, o, n) = Piece(s1, o, n)
    <3>1. o + n <= Len(s1)
      BY <1>8, <1>2, <1>3, <2>4
    <3> QED BY <1>8, <1>2, <1>3, <3>1, PieceOfFirst
  <2> HIDE DEF s2
  <2>5. zero + la <= o1 /\ la + lb <= o1
    BY <1>8, <1>2
  <2> QED BY <1>8, <1>2, <2>1, <2>2, <2>3, <2>4, <2>5
<1> HIDE DEF s2
<1>6. /\ s3 \in Seq(A) /\ Len(s3) = o3 /\ Piece(s3, o1, lc) = Piece(s2, o1, lc)
      /\ Piece(s3, zero, la) = Piece(s2, zero, la) /\ Piece(s3, la, lb) = Piece(s2, la, lb)
  <2>1. s3 \in Seq(A)
    BY <1>8, <1>2, <1>5, PiecesOfLonger
  <2>2. Len(s3) = o2 + lf
    BY <1>8, <1>2, <1>5, PiecesOfLonger
  <2>3. Piece(s3, o2, lf) = f
    BY <1>8, <1>2, <1>5, PiecesOfLonger
  <2>4. ASSUME NEW o \in Nat, NEW n \in Nat, o + n <= o2
        PROVE  Piece(s3, o, n) = Piece(s2, o, n)
    <3>1. o + n <= Len(s2)
      BY <1>8, <1>2, <1>5, <2>4
    <3> QED BY <1>8, <1>2, <1>5, <3>1, PieceOfFirst
  <2> HIDE DEF s3
  <2>5. zero + la <= o2 /\ la + lb <= o2 /\ o1 + lc <= o2
    BY <1>8, <1>2
  <2> QED BY <1>8, <1>2, <2>1, <2>2, <2>3, <2>4, <2>5
<1> HIDE DEF s3
<1>7. /\ s4 \in Seq(A) /\ Len(s4) = o3 + lg /\ Piece(s4, o3, lg) = g
      /\ Piece(s4, o1, lc) = Piece(s3, o1, lc)
      /\ Piece(s4, zero, la) = Piece(s3, zero, la) /\ Piece(s4, la, lb) = Piece(s3, la, lb)
  <2>1. s4 \in Seq(A)
    BY <1>8, <1>2, <1>6, PiecesOfLonger
  <2>2. Len(s4) = o3 + lg
    BY <1>8, <1>2, <1>6, PiecesOfLonger
  <2>3. Piece(s4, o3, lg) = g
    BY <1>8, <1>2, <1>6, PiecesOfLonger
  <2>4. ASSUME NEW o \in Nat, NEW n \in Nat, o + n <= o3
        PROVE  Piece(s4, o, n) = Piece(s3, o, n)
    <3>1. o + n <= Len(s3)
      BY <1>8, <1>2, <1>6, <2>4
    <3> QED BY <1>8, <1>2, <1>6, <3>1, PieceOfFirst
  <2> HIDE DEF s4
  <2>5. zero + la <= o3 /\ la + lb <= o3 /\ o1 + lc <= o3
    BY <1>8, <1>2
  <2> QED BY <1>8, <1>2, <2>1, <2>2, <2>3, <2>4, <2>5
<1> HIDE DEF s4
<1> QED BY <1>1, <1>3, <1>4, <1>5, <1>6, <1>7 DEF o1, o2, o3, zero, la, lb, lc, lf, lg

LEMMA ExtendedShape ==
  ASSUME NEW c \in Seq(Bytes), Len(c) >= 20, NEW e
  PROVE  /\ Extended(c, e) \in Seq(Bytes) /\ Len(Extended(c, e)) = Len(c) + 4
         /\ Piece(Extended(c, e), 0, 2) = Piece(c, 0, 2)
         /\ Piece(Extended(c, e), 2, 2) = ToBytes(20, 2, e)
         /\ Piece(Extended(c, e), 4, 16) = Piece(c, 4, 16)
         /\ Piece(Extended(c, e), 24, Len(c) - 20) = Piece(c, 20, Len(c) - 20)
<1> DEFINE a == SubSeq(c, 1, 2)
           b == ToBytes(20, 2, e)
           i == SubSeq(c, 5, 20)
           r == <<3, 3, 3, 3>>
           n == Len(c) - 20
           p == SubSeq(c, 21, Len(c))
           all == Extended(c, e)
<1>1. Len(c) \in Nat /\ n \in Nat /\ 20 + n = Len(c)
  OBVIOUS
<1>2. all = Five(a, b, i, r, p)
  BY DEF Extended, Five
<1>3. a \in Seq(Bytes) /\ Len(a) = 2
  OBVIOUS
<1>4. i \in Seq(Bytes) /\ Len(i) = 16
  OBVIOUS
<1>5. p \in Seq(Bytes) /\ Len(p) = n
  <2>1. SubSeq(c, 20 + 1, 20 + n) \in Seq(Bytes) /\ Len(SubSeq(c, 20 + 1, 20 + n)) = n
    <3>1. 20 \in Nat /\ n \in Nat /\ 20 + n <= Len(c)
      BY <1>1
    <3> HIDE DEF n
    <3> QED BY <3>1, Part
  <2>2. 20 + 1 = 21 /\ 20 + n = Len(c)
    BY <1>1
  <2> HIDE DEF n
  <2> QED BY <2>1, <2>2
<1>6. b \in Seq(Bytes) /\ Len(b) = 2
  <2>1. 20 \in Int /\ 2 \in Nat
    OBVIOUS
  <2> QED BY <2>1, ToBytesType
<1>7. r \in Seq(Bytes) /\ Len(r) = 4
  BY SmallBytes
<1>8. a = Piece(c, 0, 2)
  <2>1. 0 + 1 = 1 /\ 0 + 2 = 2
    OBVIOUS
  <2> QED BY <2>1 DEF Piece
<1>9. i = Piece(c, 4, 16)
  <2>1. 4 + 1 = 5 /\ 4 + 16 = 20
    OBVIOUS
  <2> QED BY <2>1 DEF Piece
<1>10. p = Piece(c, 20, n)
  <2>1. 20 + 1 = 21 /\ 20 + n = Len(c)
    BY <1>1
  <2> QED BY <2>1 DEF Piece
<1> HIDE DEF a, b, i, r, n, p, all
<1>11. 2 \in Nat /\ 16 \in Nat /\ 4 \in Nat
  OBVIOUS
<1>15. /\ all \in Seq(Bytes) /\ Len(all) = ((Len(a) + Len(b)) + Len(i)) + Len(r) + Len(p)
       /\ Piece(all, 0, Len(a)) = a /\ Piece(all, Len(a), Len(b)) = b
       /\ Piece(all, Len(a) + Len(b), Len(i)) = i
       /\ Piece(all, ((Len(a) + Len(b)) + Len(i)) + Len(r), Len(p)) = p
  <2>1. a \in Seq(Bytes) /\ b \in Seq(Bytes) /\ i \in Seq(Bytes) /\ r \in Seq(Bytes)
        /\ p \in Seq(Bytes)
    BY <1>3, <1>4, <1>5, <1>6, <1>7
  <2>2. LET five == Five(a, b, i, r, p)
            third == Len(a) + Len(b)
            last == (third + Len(i)) + Len(r)
        IN /\ five \in Seq(Bytes) /\ Len(five) = last + Len(p)
           /\ Piece(five, 0, Len(a)) = a /\ Piece(five, Len(a), Len(b)) = b
           /\ Piece(five, third, Len(i)) = i /\ Piece(five, last, Len(p)) = p
    BY <2>1, FiveParts
  <2> QED BY <1>2, <2>2
<1>12. /\ all \in Seq(Bytes) /\ Len(all) = (((2 + 2) + 16) + 4) + n
       /\ Piece(all, 0, 2) = a /\ Piece(all, 2, 2) = b /\ Piece(all, 2 + 2, 16) = i
       /\ Piece(all, ((2 + 2) + 16) + 4, n) = p
  BY <1>3, <1>4, <1>5, <1>6, <1>7, <1>15
<1>13. 2 + 2 = 4 /\ ((2 + 2) + 16) + 4 = 24 /\ (((2 + 2) + 16) + 4) + n = Len(c) + 4
  BY <1>1
<1>14. /\ all \in Seq(Bytes) /\ Len(all) = Len(c) + 4
       /\ Piece(all, 4, 16) = i /\ Piece(all, 24, n) = p
  BY <1>2, <1>12, <1>13
<1> QED BY <1>2, <1>8, <1>9, <1>10, <1>12, <1>14 DEF b, n, all

LEMMA MessageKinds ==
  ASSUME NEW m \in Messages
  PROVE  /\ m.kind \in ControlKinds <=> m \in Control
         /\ m.kind = "data" <=> m \in Datas
         /\ m.kind \in {"participant", "endpoint"} <=> m \in Announcements
         /\ m.kind = "string" <=> m \in Strings
         /\ m \in Control \cup Datas \cup Announcements \cup Strings
         /\ m # Nothing /\ m.kind # "nothing"
<1>1. m \in Control \cup Datas \cup Announcements \cup Strings
  BY MessagesAssumption DEF Announcements
<1>2. m \in Control => m.kind \in ControlKinds
  BY DEF Control, Heartbeats, AckNacks, Gaps, ControlKinds
<1>3. m \in Datas => m.kind = "data"
  BY DEF Datas
<1>4. m \in Announcements => m.kind \in {"participant", "endpoint"}
  BY AnnouncementKind
<1>5. m \in Strings => m.kind = "string"
  BY DEF Strings
<1>6. m.kind # "nothing"
  BY <1>1, <1>2, <1>3, <1>4, <1>5 DEF ControlKinds
<1>7. m # Nothing
  BY <1>6 DEF Nothing
<1> QED BY <1>1, <1>2, <1>3, <1>4, <1>5, <1>6, <1>7 DEF ControlKinds

Wires == SubmessageWires \cup ListWires \cup StringWires

LEMMA WireKinds ==
  /\ \A w \in SubmessageWires : w.kind \in SubmessageKinds \cup {"info"}
  /\ \A w \in ListWires : w.kind \in {"participant", "endpoint"}
  /\ \A w \in StringWires : w.kind = "string"
  /\ \A w \in Wires : w.kind \notin Failures
  /\ Rejected.kind \in Failures /\ Refused.kind \in Failures
  /\ Nothing.kind \in Failures
BY DEF SubmessageWires, ListWires, StringWires, Wires, Failures, Rejected, Refused, Nothing,
       SubmessageKinds, ControlKinds

LEMMA SubmessageForms ==
  ASSUME NEW m \in Control \cup Datas, NEW e \in Endiannesses, NEW own,
         own = EncodeMessage(WithBitmap(m), e), own # Rejected,
         NEW w \in OtherForms(own)
  PROVE  /\ own = [kind |-> m.kind, header |-> EncodeMessageHeader(m.from),
                   flags |-> FlagsOf(WithBitmap(m), e),
                   length |-> ToBytes(Len(own.content), 2, e),
                   content |-> ContentOf(WithBitmap(m), e)]
         /\ own \in SubmessageWires /\ w \in SubmessageWires
         /\ \/ w = [own EXCEPT !.length = <<0, 0>>]
            \/ w = [own EXCEPT !.content = own.content \o <<1, 2, 3>>]
            \/ /\ m \in Datas
               /\ Len(own.content) >= 20
               /\ w = [own EXCEPT !.content = Extended(own.content, EndiannessOf(own)),
                                  !.length = <<0, 0>>]
<1> DEFINE content == ContentOf(WithBitmap(m), e)
<1>1. /\ own = [kind |-> m.kind, header |-> EncodeMessageHeader(m.from),
                flags |-> FlagsOf(WithBitmap(m), e),
                length |-> ToBytes(Len(content), 2, e), content |-> content]
      /\ own \in SubmessageWires
      /\ content \in Seq(Bytes) /\ Len(content) \in Nat
  BY SubmessageEncoded
<1>2. own.content = content /\ own.kind = m.kind
  BY <1>1
<1>3. m.kind = "data" => m \in Datas /\ Len(content) >= 20
  <2> SUFFICES ASSUME m.kind = "data" PROVE m \in Datas /\ Len(content) >= 20
    OBVIOUS
  <2>1. m \in Datas
    BY DEF Control, Heartbeats, AckNacks, Gaps
  <2>2. /\ content = WriteWords(DataStart(m, e), NumberWords(m), e) \o m.payload
        /\ DataStart(m, e) \in Seq(Bytes) /\ Len(DataStart(m, e)) = 12
        /\ NumberWords(m) \in Seq(Int) /\ Len(NumberWords(m)) = 2
        /\ m.payload \in Seq(Bytes)
    BY <2>1, DataStartWritten
  <2> DEFINE start == DataStart(m, e)
             words == NumberWords(m)
             head == WriteWords(start, words, e)
             payload == m.payload
  <2> HIDE DEF content, start, words
  <2>3. head \in Seq(Bytes) /\ Len(head) = 20
    <3>1. start \in Seq(Bytes) /\ Len(start) = 12 /\ Len(start) % 4 = 0
      BY <2>2 DEF start
    <3>2. words \in Seq(Int) /\ Len(words) = 2
      BY <2>2 DEF words
    <3>3. head \in Seq(Bytes) /\ Len(head) = Len(start) + 4 * Len(words)
      BY <3>1, <3>2, WordsWritten
    <3> QED BY <3>1, <3>2, <3>3
  <2>4. content = head \o payload
    BY <2>2 DEF start, words
  <2>6. payload \in Seq(Bytes)
    BY <2>2
  <2>7. head \in Seq(Bytes)
    BY <2>3
  <2> HIDE DEF head, payload
  <2>5. Len(head \o payload) = Len(head) + Len(payload)
    BY <2>6, <2>7, Concatenation
  <2>8. Len(payload) \in Nat
    BY <2>6
  <2> QED BY <2>1, <2>3, <2>4, <2>5, <2>8
<1> HIDE DEF content
<1>4. \/ w = [own EXCEPT !.length = <<0, 0>>]
      \/ w = [own EXCEPT !.content = own.content \o <<1, 2, 3>>]
      \/ /\ own.kind = "data"
         /\ w = [own EXCEPT !.content = Extended(own.content, EndiannessOf(own)),
                            !.length = <<0, 0>>]
  BY DEF OtherForms, Extended
<1>5. <<0, 0>> \in Seq(Bytes) /\ <<1, 2, 3>> \in Seq(Bytes)
  BY SmallBytes
<1>6. w \in SubmessageWires
  <2>1. CASE w = [own EXCEPT !.length = <<0, 0>>]
    BY <1>1, <1>5, <2>1 DEF SubmessageWires
  <2>2. CASE w = [own EXCEPT !.content = own.content \o <<1, 2, 3>>]
    <3> DEFINE longer == own.content \o <<1, 2, 3>>
    <3>1. longer \in Seq(Bytes)
      BY <1>1, <1>2, <1>5, Concatenation
    <3> HIDE DEF longer
    <3>2. w = [own EXCEPT !.content = longer]
      BY <2>2 DEF longer
    <3> QED BY <1>1, <3>1, <3>2 DEF SubmessageWires
  <2>3. CASE /\ own.kind = "data"
             /\ w = [own EXCEPT !.content = Extended(own.content, EndiannessOf(own)),
                                !.length = <<0, 0>>]
    <3> DEFINE longer == Extended(own.content, EndiannessOf(own))
    <3>1. longer \in Seq(Bytes)
      BY <1>1, <1>2, <1>3, <2>3, ExtendedShape
    <3> HIDE DEF longer
    <3>2. w = [own EXCEPT !.content = longer, !.length = <<0, 0>>]
      BY <2>3 DEF longer
    <3> QED BY <1>1, <1>5, <3>1, <3>2 DEF SubmessageWires
  <2> QED BY <1>4, <2>1, <2>2, <2>3
<1> QED BY <1>1, <1>2, <1>3, <1>4, <1>6 DEF content

-----------------------------------------------------------------------------
(* Every step of the codecs leaves bytes in transit.                       *)

LEMMA EncodeCases ==
  ASSUME NEW m \in Messages, NEW e
  PROVE  /\ m \in Control \cup Datas => Encode(m, e) = EncodeMessage(WithBitmap(m), e)
         /\ m \in Announcements => Encode(m, e) = EncodeAnnouncement(m, e)
         /\ m \in Strings =>
              Encode(m, e) = [kind |-> "string", bytes |-> SerializeString(m.value, e)]
<1>1. m \in Control \cup Datas => m.kind \in SubmessageKinds
  BY MessageKinds DEF SubmessageKinds
<1>2. m \in Announcements => m.kind \in {"participant", "endpoint"} /\ m.kind \notin SubmessageKinds
  BY MessageKinds DEF SubmessageKinds, ControlKinds
<1>3. m \in Strings => m.kind = "string"
  BY MessageKinds
<1> QED BY <1>1, <1>2, <1>3 DEF Encode, SubmessageKinds, ControlKinds

LEMMA EncodedWire ==
  ASSUME NEW m \in Messages, NEW e \in Endiannesses, Encode(m, e).kind \notin Failures
  PROVE  /\ Encode(m, e) \in Wires
         /\ m \in Control \cup Datas =>
              /\ Encode(m, e) # Rejected /\ Encode(m, e) \in SubmessageWires
              /\ Encode(m, e).kind \in SubmessageKinds
         /\ m \in Announcements => Encode(m, e) # Refused /\ Encode(m, e) \in ListWires
         /\ m \in Strings => Encode(m, e) \in StringWires
<1>1. Encode(m, e) \in Wires /\ Encode(m, e) # Rejected /\ Encode(m, e) # Refused
  BY EncodedType, WireKinds DEF Wires
<1>2. ASSUME m \in Control \cup Datas
      PROVE  Encode(m, e) \in SubmessageWires /\ Encode(m, e).kind \in SubmessageKinds
  <2>1. m.kind \in SubmessageKinds
    BY <1>2, MessageKinds DEF SubmessageKinds
  <2>2. EncodeMessage(WithBitmap(m), e) # Rejected
    BY <1>1, <1>2, EncodeCases
  <2> DEFINE content == ContentOf(WithBitmap(m), e)
             w == [kind |-> m.kind, header |-> EncodeMessageHeader(m.from),
                   flags |-> FlagsOf(WithBitmap(m), e),
                   length |-> ToBytes(Len(content), 2, e), content |-> content]
  <2>3. EncodeMessage(WithBitmap(m), e) \in {w, Rejected} /\ w \in SubmessageWires
    BY <1>2, SubmessageEncoded
  <2>4. w.kind = m.kind
    OBVIOUS
  <2> HIDE DEF w
  <2>5. Encode(m, e) = w
    BY <1>2, <2>2, <2>3, EncodeCases
  <2> QED BY <2>1, <2>3, <2>4, <2>5
<1>3. ASSUME m \in Announcements
      PROVE  Encode(m, e) \in ListWires
  <2>1. Encode(m, e) = EncodeAnnouncement(m, e)
    BY <1>3, EncodeCases
  <2>2. EncodeAnnouncement(m, e) \in ListWires \cup {Refused}
    BY <1>3, AnnouncementEncoded DEF Announcements
  <2> QED BY <1>1, <2>1, <2>2
<1>4. ASSUME m \in Strings
      PROVE  Encode(m, e) \in StringWires
  <2>1. m.value \in Seq(Bytes)
    BY <1>4 DEF Strings
  <2>2. SerializeString(m.value, e) \in Seq(Bytes)
    BY <2>1, StringSerialized
  <2> QED BY <1>4, <2>2, EncodeCases DEF StringWires
<1> QED BY <1>1, <1>2, <1>3, <1>4

(* A string with zeros behind it.                                          *)
Trailed(w, n) == [w EXCEPT !.bytes = w.bytes \o Zeros(n)]

LEMMA FormsCases ==
  ASSUME NEW m \in Messages, NEW e \in Endiannesses, NEW own, own = Encode(m, e),
         own.kind \notin Failures, NEW w \in FormsOf(m, own)
  PROVE  /\ m \in Control \cup Datas => w \in OtherForms(own)
         /\ m \in Announcements => w \in Rewritten(m, own, DecodeList(own.bytes))
         /\ m \in Strings => \E n \in 0..3 : w = Trailed(own, n)
<1>1. m \in Control \cup Datas =>
        /\ own.kind \in SubmessageKinds /\ own.kind # "string"
        /\ own.kind \notin {"participant", "endpoint"}
  BY EncodedWire DEF SubmessageKinds, ControlKinds
<1>2. m \in Announcements =>
        own.kind \in {"participant", "endpoint"} /\ own.kind \notin SubmessageKinds
  BY EncodedWire, WireKinds DEF SubmessageKinds, ControlKinds
<1>3. m \in Strings => own.kind = "string" /\ own.kind \notin SubmessageKinds
  BY EncodedWire, WireKinds DEF SubmessageKinds, ControlKinds
<1>4. m \in Control \cup Datas => w \in OtherForms(own)
  BY <1>1 DEF FormsOf
<1>5. m \in Announcements => w \in Rewritten(m, own, DecodeList(own.bytes))
  BY <1>2 DEF FormsOf
<1>6. ASSUME m \in Strings
      PROVE  \E n \in 0..3 : w = Trailed(own, n)
  <2>1. FormsOf(m, own) = {[own EXCEPT !.bytes = @ \o Zeros(n)] : n \in 0..3}
    BY <1>3, <1>6 DEF FormsOf
  <2> QED BY <2>1 DEF Trailed
<1> QED BY <1>4, <1>5, <1>6

LEMMA FormsType ==
  ASSUME NEW m \in Messages, NEW e \in Endiannesses, NEW own, own = Encode(m, e),
         own.kind \notin Failures, NEW w \in FormsOf(m, own)
  PROVE  w \in Wires
<1>1. m \in Control \cup Datas \cup Announcements \cup Strings
  BY MessageKinds
<1>2. CASE m \in Control \cup Datas
  <2>1. own = EncodeMessage(WithBitmap(m), e) /\ own # Rejected /\ w \in OtherForms(own)
    BY <1>2, EncodeCases, EncodedWire, FormsCases
  <2> QED BY <1>2, <2>1, SubmessageForms DEF Wires
<1>3. CASE m \in Announcements
  <2>1. /\ own = EncodeAnnouncement(m, e) /\ own # Refused
        /\ w \in Rewritten(m, own, DecodeList(own.bytes))
    BY <1>3, EncodeCases, EncodedWire, FormsCases
  <2>2. FaithfulWire(w, m, e)
    BY <1>3, <2>1, RewrittenFaithful
  <2> QED BY <1>3, <2>2, FaithfulWireType DEF Wires
<1>4. CASE m \in Strings
  <2>1. own \in StringWires
    BY <1>4, EncodedWire
  <2>2. PICK n \in 0..3 : w = Trailed(own, n)
    BY <1>4, FormsCases
  <2> DEFINE longer == own.bytes \o Zeros(n)
  <2>3. own.bytes \in Seq(Bytes)
    BY <2>1 DEF StringWires
  <2>4. Zeros(n) \in Seq(Bytes)
    BY ZerosType
  <2>5. longer \in Seq(Bytes)
    BY <2>3, <2>4, Concatenation
  <2> HIDE DEF longer
  <2>6. w = [own EXCEPT !.bytes = longer]
    BY <2>2 DEF longer, Trailed
  <2>7. w \in StringWires
    BY <2>1, <2>5, <2>6 DEF StringWires
  <2> QED BY <2>7 DEF Wires
<1> QED BY <1>1, <1>2, <1>3, <1>4

(* Damage leaves bytes where there were bytes.                             *)
LEMMA ChangedType ==
  ASSUME NEW bytes \in Seq(Bytes), NEW c \in Changed(bytes)
  PROVE  c \in Seq(Bytes)
<1>1. CASE \E i \in DOMAIN bytes, b \in Bytes : c = ReplaceAt(bytes, i, b)
  <2>1. PICK i \in DOMAIN bytes, b \in Bytes : c = ReplaceAt(bytes, i, b)
    BY <1>1
  <2>2. c = [bytes EXCEPT ![i] = b]
    BY <2>1 DEF ReplaceAt
  <2>3. Len(bytes) \in Nat /\ bytes \in [1..Len(bytes) -> Bytes]
    OBVIOUS
  <2>4. c \in [1..Len(bytes) -> Bytes]
    BY <2>2, <2>3
  <2> QED BY <2>3, <2>4, FunctionIsSequence
<1>2. CASE \E n \in 0..Len(bytes) - 1 : c = SubSeq(bytes, 1, n)
  <2>1. PICK n \in 0..Len(bytes) - 1 : c = SubSeq(bytes, 1, n)
    BY <1>2
  <2>2. n \in 0..Len(bytes)
    OBVIOUS
  <2> QED BY <2>1, <2>2, CutInTwo
<1> QED BY <1>1, <1>2 DEF Changed

LEMMA DamagedType ==
  ASSUME wire \in Wires, wire.kind # "info", Damage
  PROVE  wire' \in Wires
<1>1. CASE wire \in SubmessageWires /\ wire.kind \in SubmessageKinds
  <2>1. /\ wire.header \in Seq(Bytes) /\ wire.content \in Seq(Bytes)
        /\ wire.flags \in SUBSET (0..4)
    BY <1>1 DEF SubmessageWires
  <2>2. CASE \E c \in Changed(wire.content) : wire' = [wire EXCEPT !.content = c]
    <3>1. PICK c \in Changed(wire.content) : wire' = [wire EXCEPT !.content = c]
      BY <2>2
    <3>2. c \in Seq(Bytes)
      BY <2>1, ChangedType
    <3> QED BY <1>1, <3>1, <3>2 DEF SubmessageWires, Wires
  <2>3. CASE \E h \in Changed(wire.header) : wire' = [wire EXCEPT !.header = h]
    <3>1. PICK h \in Changed(wire.header) : wire' = [wire EXCEPT !.header = h]
      BY <2>3
    <3>2. h \in Seq(Bytes)
      BY <2>1, ChangedType
    <3> QED BY <1>1, <3>1, <3>2 DEF SubmessageWires, Wires
  <2>4. CASE \E l \in Bytes \X Bytes : wire' = [wire EXCEPT !.length = l]
    <3>1. PICK l \in Bytes \X Bytes : wire' = [wire EXCEPT !.length = l]
      BY <2>4
    <3>2. l \in Seq(Bytes)
      <4>1. PICK a \in Bytes, b \in Bytes : l = <<a, b>>
        OBVIOUS
      <4> QED BY <4>1
    <3> QED BY <1>1, <3>1, <3>2 DEF SubmessageWires, Wires
  <2>5. CASE \E f \in Toggled(wire.flags) : wire' = [wire EXCEPT !.flags = f]
    <3>1. PICK f \in Toggled(wire.flags) : wire' = [wire EXCEPT !.flags = f]
      BY <2>5
    <3>2. f \in SUBSET (0..4)
      BY <2>1 DEF Toggled
    <3> QED BY <1>1, <3>1, <3>2 DEF SubmessageWires, Wires
  <2>6. CASE \E k \in SubmessageKinds \cup {"info"} : wire' = [wire EXCEPT !.kind = k]
    BY <1>1, <2>6 DEF SubmessageWires, Wires
  <2> QED BY <1>1, <2>2, <2>3, <2>4, <2>5, <2>6 DEF Damage
<1>2. wire \in SubmessageWires => wire.kind \in SubmessageKinds
  BY WireKinds
<1>3. CASE wire \in ListWires
  <2>1. wire.kind \notin SubmessageKinds
    BY <1>3, WireKinds DEF SubmessageKinds, ControlKinds
  <2>2. PICK b \in Changed(wire.bytes) : wire' = [wire EXCEPT !.bytes = b]
    BY <2>1 DEF Damage
  <2>3. wire.bytes \in Seq(Bytes)
    BY <1>3 DEF ListWires
  <2>4. b \in Seq(Bytes)
    BY <2>3, ChangedType
  <2> QED BY <1>3, <2>2, <2>4 DEF ListWires, Wires
<1>4. CASE wire \in StringWires
  <2>1. wire.kind \notin SubmessageKinds
    BY <1>4, WireKinds DEF SubmessageKinds, ControlKinds
  <2>2. PICK b \in Changed(wire.bytes) : wire' = [wire EXCEPT !.bytes = b]
    BY <2>1 DEF Damage
  <2>3. wire.bytes \in Seq(Bytes)
    BY <1>4 DEF StringWires
  <2>4. b \in Seq(Bytes)
    BY <2>3, ChangedType
  <2> QED BY <1>4, <2>2, <2>4 DEF StringWires, Wires
<1> QED BY <1>1, <1>2, <1>3, <1>4 DEF Wires

-----------------------------------------------------------------------------
(* The inductive invariant, and what is accepted.                          *)

(* What travels is the message as encoded, one of its other forms, or,     *)
(* after damage, anything a datagram can be, and what is received is what  *)
(* the decoder makes of it.                                                *)
Travels(m, e) ==
  LET own == Encode(m, e) IN
  \/ form = "own" /\ wire = own
  \/ form = "another" /\ own.kind \notin Failures /\ wire \in FormsOf(m, own)
  \/ form = "damaged" /\ wire \in Wires

Transfer ==
  \/ sent = Nothing /\ wire = Nothing /\ received = Nothing /\ form = "own"
  \/ /\ sent \in Messages
     /\ \E e \in Endiannesses : Travels(sent, e)
     /\ received = Nothing \/ (wire.kind \notin Failures /\ received = Decode(wire))

LEMMA TravelsInWires ==
  ASSUME NEW m \in Messages, NEW e \in Endiannesses, Travels(m, e), wire.kind \notin Failures
  PROVE  /\ wire \in Wires
         /\ form = "own" => Encode(m, e).kind \notin Failures /\ wire = Encode(m, e)
                              /\ wire.kind # "info"
<1>1. CASE form = "own" /\ wire = Encode(m, e)
  <2>1. wire \in Wires
    BY <1>1, EncodedWire
  <2>2. m \in Control \cup Datas \cup Announcements \cup Strings
    BY MessageKinds
  <2>3. wire.kind # "info"
    BY <1>1, <2>2, EncodedWire, WireKinds DEF SubmessageKinds, ControlKinds
  <2> QED BY <1>1, <2>1, <2>3
<1>2. CASE form = "another" /\ Encode(m, e).kind \notin Failures /\ wire \in FormsOf(m, Encode(m, e))
  BY <1>2, FormsType
<1>3. CASE form = "damaged" /\ wire \in Wires
  BY <1>3
<1> QED BY <1>1, <1>2, <1>3 DEF Travels

LEMMA TransferStays ==
  ASSUME Transfer, [Next]_vars
  PROVE  Transfer'
<1>1. CASE UNCHANGED vars
  <2>1. sent' = sent /\ wire' = wire /\ form' = form /\ received' = received
    BY <1>1 DEF vars
  <2> QED BY <2>1 DEF Transfer, Travels
<1>2. CASE Transmit
  <2>1. PICK m \in Messages, e \in Endiannesses : sent' = m /\ wire' = Encode(m, e)
    BY <1>2 DEF Transmit
  <2>2. sent = Nothing /\ form' = form /\ received' = received
    BY <1>2 DEF Transmit
  <2>3. form = "own" /\ received = Nothing
    BY <2>2, MessageKinds DEF Transfer
  <2>4. Travels(m, e)'
    BY <2>1, <2>2, <2>3 DEF Travels
  <2>5. Travels(sent, e)'
    BY <2>1, <2>4 DEF Travels
  <2> QED BY <2>1, <2>2, <2>3, <2>5 DEF Transfer
<1>3. ASSUME InFlight
      PROVE  /\ wire.kind \notin Failures /\ received = Nothing /\ sent \in Messages
             /\ \E e \in Endiannesses : Travels(sent, e)
  BY <1>3, WireKinds DEF InFlight, Failures, Transfer
<1>4. CASE AnotherForm
  <2>1. /\ wire.kind \notin Failures /\ received = Nothing /\ sent \in Messages
        /\ form = "own" /\ wire' \in FormsOf(sent, wire)
        /\ form' = "another" /\ sent' = sent /\ received' = received
    BY <1>3, <1>4 DEF AnotherForm
  <2>2. PICK e \in Endiannesses : Travels(sent, e)
    BY <1>3, <1>4 DEF AnotherForm
  <2>3. Encode(sent, e).kind \notin Failures /\ wire = Encode(sent, e)
    BY <2>1, <2>2, TravelsInWires
  <2>4. Travels(sent, e)'
    BY <2>1, <2>3 DEF Travels
  <2> QED BY <2>1, <2>4 DEF Transfer
<1>5. CASE Damage
  <2>1. /\ wire.kind \notin Failures /\ received = Nothing /\ sent \in Messages
        /\ form = "own" /\ form' = "damaged" /\ sent' = sent /\ received' = received
    BY <1>3, <1>5 DEF Damage
  <2>2. PICK e \in Endiannesses : Travels(sent, e)
    BY <1>3, <1>5 DEF Damage
  <2>3. wire \in Wires /\ wire.kind # "info"
    BY <2>1, <2>2, TravelsInWires
  <2>4. wire' \in Wires
    BY <1>5, <2>3, DamagedType
  <2>5. Travels(sent, e)'
    BY <2>1, <2>4 DEF Travels
  <2> QED BY <2>1, <2>5 DEF Transfer
<1>6. CASE Receive
  <2>1. /\ wire.kind \notin Failures /\ sent \in Messages
        /\ received' = Decode(wire) /\ sent' = sent /\ wire' = wire /\ form' = form
    BY <1>3, <1>6 DEF Receive
  <2>2. PICK e \in Endiannesses : Travels(sent, e)
    BY <1>3, <1>6 DEF Receive
  <2>3. Travels(sent, e)'
    BY <2>1, <2>2 DEF Travels
  <2>4. received' = Decode(wire')
    BY <2>1
  <2>5. wire'.kind \notin Failures
    BY <2>1
  <2> QED BY <2>1, <2>3, <2>4, <2>5 DEF Transfer
<1> QED BY <1>1, <1>2, <1>4, <1>5, <1>6 DEF Next

LEMMA TransferStarts == Init => Transfer
BY DEF Init, Transfer

(* Travels of what was sent is an invariant, and with it that whatever has *)
(* been received is what Decode makes of the wire.                         *)
THEOREM TransferHolds == Spec => []Transfer
BY TransferStarts, TransferStays, PTL DEF Spec

LEMMA DecodedIsValid ==
  ASSUME NEW w \in Wires, Decode(w).kind \notin Failures
  PROVE  Valid(Decode(w)) /\ Asks(Decode(w))
<1>1. CASE w \in SubmessageWires
  <2>1. Decode(w) = DecodeMessage(w)
    BY <1>1, WireKinds DEF Decode, SubmessageKinds, ControlKinds
  <2>2. DecodeMessage(w) # Rejected
    BY <2>1, WireKinds
  <2>3. w.content \in Seq(Bytes) /\ w.length \in Seq(Bytes)
    BY <1>1 DEF SubmessageWires
  <2> QED BY <2>1, <2>2, <2>3, AcceptedSubmessage
<1>2. CASE w \in ListWires
  <2>1. w.kind \in {"participant", "endpoint"} /\ w.bytes \in Seq(Bytes)
    BY <1>2 DEF ListWires
  <2>2. Decode(w) = DecodeAnnouncement(w)
    BY <2>1 DEF Decode, SubmessageKinds, ControlKinds
  <2>3. DecodeAnnouncement(w) # Refused
    BY <2>2, WireKinds
  <2>4. Valid(DecodeAnnouncement(w)) /\ DecodeAnnouncement(w).kind = w.kind
    BY <2>1, <2>3, AcceptedAnnouncement
  <2>5. Asks(DecodeAnnouncement(w))
    BY <2>1, <2>4 DEF Asks
  <2> QED BY <2>2, <2>4, <2>5
<1>3. CASE w \in StringWires
  <2>1. w.kind = "string"
    BY <1>3 DEF StringWires
  <2>2. Decode(w).kind = "string"
    BY <2>1, WireKinds DEF Decode, SubmessageKinds, ControlKinds
  <2> QED BY <2>2 DEF Valid, Asks
<1> QED BY <1>1, <1>2, <1>3 DEF Wires

(* AcceptsOnlyValid: whatever has happened to the bytes, what a decoder    *)
(* accepts satisfies what ReliableReader, the writers and DiscoveryService *)
(* take for granted of it.                                                 *)
THEOREM OnlyValidAccepted == Spec => []AcceptsOnlyValid
<1>1. Transfer => AcceptsOnlyValid
  <2> SUFFICES ASSUME Transfer, received.kind \notin Failures
               PROVE  Valid(received) /\ Asks(received)
    BY DEF AcceptsOnlyValid, Asks
  <2>1. received # Nothing
    BY WireKinds
  <2>2. /\ sent \in Messages /\ wire.kind \notin Failures /\ received = Decode(wire)
        /\ \E e \in Endiannesses : Travels(sent, e)
    BY <2>1 DEF Transfer
  <2>3. wire \in Wires
    BY <2>2, TravelsInWires
  <2> QED BY <2>2, <2>3, DecodedIsValid
<1> QED BY <1>1, TransferHolds, PTL

-----------------------------------------------------------------------------
(* DATA decodes to what was encoded.                                       *)

(* Behind s, the first length bytes of u, follow the size bytes of t.      *)
LongerBy(u, s, t, length, size) ==
  /\ u \in Seq(Bytes) /\ Len(u) = length + size
  /\ Piece(u, length, size) = t
  /\ \A o, n \in Nat : o + n <= length => Piece(u, o, n) = Piece(s, o, n)

LEMMA LongerPieces ==
  ASSUME NEW s \in Seq(Bytes), NEW t \in Seq(Bytes),
         NEW length \in Nat, Len(s) = length, NEW size \in Nat, Len(t) = size
  PROVE  LongerBy(s \o t, s, t, length, size)
<1>1. s \o t \in Seq(Bytes)
  BY PiecesOfLonger
<1>2. Len(s \o t) = length + size
  BY PiecesOfLonger
<1>3. Piece(s \o t, length, size) = t
  BY PiecesOfLonger
<1>4. \A o, n \in Nat : o + n <= length => Piece(s \o t, o, n) = Piece(s, o, n)
  BY PiecesOfLonger
<1> QED BY <1>1, <1>2, <1>3, <1>4 DEF LongerBy

(* The parts of the content of a DATA submessage whose payload starts q    *)
(* bytes behind octetsToInlineQos.                                         *)
DataShape(d, m, e, q) ==
  /\ d \in Seq(Bytes) /\ 4 + q <= Len(d)
  /\ Piece(d, 0, 2) = ToBytes(0, 2, e) /\ Piece(d, 2, 2) = ToBytes(q, 2, e)
  /\ Piece(d, 4, 4) = m.reader_id /\ Piece(d, 8, 4) = m.writer_id
  /\ Piece(d, 12, 4) = ToBytes(High(m.sn), 4, e) /\ Piece(d, 16, 4) = ToBytes(Low(m.sn), 4, e)
  /\ Piece(d, 4 + q, Len(d) - (4 + q)) = m.payload

LEMMA DataFields ==
  ASSUME NEW m \in Datas
  PROVE  /\ m.kind = "data" /\ m.from \in Senders
         /\ m.reader_id \in Seq(Bytes) /\ Len(m.reader_id) = 4
         /\ m.writer_id \in Seq(Bytes) /\ Len(m.writer_id) = 4
         /\ m.sn \in SignedNumbers(8) /\ m.sn \in Int /\ m.payload \in Seq(Bytes)
<1>1. /\ m.reader_id \in BytesOf(4) /\ m.writer_id \in BytesOf(4) /\ m.sn \in SignedNumbers(8)
      /\ m.kind = "data" /\ m.from \in Senders /\ m.payload \in Seq(Bytes)
  BY DEF Datas
<1>2. m.sn \in Int
  <2>1. 8 \in Nat
    OBVIOUS
  <2> QED BY <1>1, <2>1, SignedNumbersAreInt
<1> QED BY <1>1, <1>2 DEF BytesOf

LEMMA StartParts ==
  ASSUME NEW m \in Datas, NEW e
  PROVE  LET s == DataStart(m, e) IN
         /\ s \in Seq(Bytes) /\ Len(s) = 12
         /\ Piece(s, 0, 2) = ToBytes(0, 2, e) /\ Piece(s, 2, 2) = ToBytes(16, 2, e)
         /\ Piece(s, 4, 4) = m.reader_id /\ Piece(s, 8, 4) = m.writer_id
<1> DEFINE a == ToBytes(0, 2, e)
           b == ToBytes(16, 2, e)
           o == Opening(e)
           t == o \o m.reader_id
           s == DataStart(m, e)
<1>1. a \in Seq(Bytes) /\ Len(a) = 2 /\ b \in Seq(Bytes) /\ Len(b) = 2
  <2>1. 0 \in Int /\ 16 \in Int /\ 2 \in Nat
    OBVIOUS
  <2> QED BY <2>1, ToBytesType
<1>2. /\ m.reader_id \in Seq(Bytes) /\ Len(m.reader_id) = 4
      /\ m.writer_id \in Seq(Bytes) /\ Len(m.writer_id) = 4
  BY DataFields
<1>3. o = a \o b /\ s = t \o m.writer_id
  BY DEF Opening, DataStart
<1> HIDE DEF a, b, o, t, s
<1>4. 2 \in Nat /\ 4 \in Nat /\ 8 \in Nat /\ 0 \in Nat
  OBVIOUS
<1>5. /\ o \in Seq(Bytes) /\ Len(o) = 4 /\ Piece(o, 2, 2) = b
      /\ Piece(o, 0, 2) = Piece(a, 0, 2)
  <2>1. LongerBy(a \o b, a, b, 2, 2)
    BY <1>1, <1>4, LongerPieces
  <2>2. LongerBy(o, a, b, 2, 2)
    BY <1>3, <2>1
  <2>3. 0 + 2 <= 2 /\ 2 + 2 = 4
    OBVIOUS
  <2> QED BY <1>4, <2>2, <2>3 DEF LongerBy
<1>6. Piece(a, 0, 2) = a
  BY <1>1, WholePiece
<1>7. /\ t \in Seq(Bytes) /\ Len(t) = 8 /\ Piece(t, 4, 4) = m.reader_id
      /\ Piece(t, 0, 2) = Piece(o, 0, 2) /\ Piece(t, 2, 2) = Piece(o, 2, 2)
  <2>1. LongerBy(o \o m.reader_id, o, m.reader_id, 4, 4)
    BY <1>2, <1>4, <1>5, LongerPieces
  <2>2. LongerBy(t, o, m.reader_id, 4, 4)
    BY <2>1 DEF t
  <2>3. 0 + 2 <= 4 /\ 2 + 2 <= 4 /\ 4 + 4 = 8
    OBVIOUS
  <2> QED BY <1>4, <2>2, <2>3 DEF LongerBy
<1>8. /\ s \in Seq(Bytes) /\ Len(s) = 12 /\ Piece(s, 8, 4) = m.writer_id
      /\ Piece(s, 0, 2) = Piece(t, 0, 2) /\ Piece(s, 2, 2) = Piece(t, 2, 2)
      /\ Piece(s, 4, 4) = Piece(t, 4, 4)
  <2>1. LongerBy(t \o m.writer_id, t, m.writer_id, 8, 4)
    BY <1>2, <1>4, <1>7, LongerPieces
  <2>2. LongerBy(s, t, m.writer_id, 8, 4)
    BY <1>3, <2>1
  <2>3. 0 + 2 <= 8 /\ 2 + 2 <= 8 /\ 4 + 4 <= 8 /\ 8 + 4 = 12
    OBVIOUS
  <2> QED BY <1>4, <2>2, <2>3 DEF LongerBy
<1>9. Piece(s, 0, 2) = a /\ Piece(s, 2, 2) = b /\ Piece(s, 4, 4) = m.reader_id
  BY <1>5, <1>6, <1>7, <1>8
<1> QED BY <1>8, <1>9 DEF a, b, s

LEMMA DataPlain ==
  ASSUME NEW m \in Datas, NEW e \in Endiannesses, NEW c, c = ContentOf(WithBitmap(m), e)
  PROVE  DataShape(c, m, e, 16) /\ Len(c) = 20 + Len(m.payload)
<1> DEFINE s == DataStart(m, e)
           v == NumberWords(m)
           w == WriteWords(s, v, e)
<1>1. /\ c = w \o m.payload /\ s \in Seq(Bytes) /\ Len(s) = 12
      /\ v \in Seq(Int) /\ Len(v) = 2 /\ m.payload \in Seq(Bytes)
  BY DataStartWritten
<1>2. v[1] = High(m.sn) /\ v[2] = Low(m.sn)
  BY DEF NumberWords
<1>3. /\ Piece(s, 0, 2) = ToBytes(0, 2, e) /\ Piece(s, 2, 2) = ToBytes(16, 2, e)
      /\ Piece(s, 4, 4) = m.reader_id /\ Piece(s, 8, 4) = m.writer_id
  BY StartParts
<1> HIDE DEF s, v
<1>4. WordsFollow(w, s, v, Len(v), e)
  <2>1. Len(s) % 4 = 0
    BY <1>1
  <2> QED BY <1>1, <2>1, WriteWordsEffect
<1> HIDE DEF w
<1>5. w \in Seq(Bytes) /\ Len(w) = 20 /\ SubSeq(w, 1, 12) = s
  BY <1>1, <1>4 DEF WordsFollow
<1>7. Piece(w, 12, 4) = ToBytes(High(m.sn), 4, e) /\ Piece(w, 16, 4) = ToBytes(Low(m.sn), 4, e)
  <2>1. /\ SubSeq(w, Len(s) + 4 * (1 - 1) + 1, Len(s) + 4 * (1 - 1) + 4) = ToBytes(v[1], 4, e)
        /\ SubSeq(w, Len(s) + 4 * (2 - 1) + 1, Len(s) + 4 * (2 - 1) + 4) = ToBytes(v[2], 4, e)
    <3>1. 1 \in 1..Len(v) /\ 2 \in 1..Len(v)
      BY <1>1
    <3> QED BY <1>4, <3>1 DEF WordsFollow
  <2>2. /\ Len(s) + 4 * (1 - 1) + 1 = 12 + 1 /\ Len(s) + 4 * (1 - 1) + 4 = 12 + 4
        /\ Len(s) + 4 * (2 - 1) + 1 = 16 + 1 /\ Len(s) + 4 * (2 - 1) + 4 = 16 + 4
    BY <1>1
  <2> QED BY <1>2, <2>1, <2>2 DEF Piece
<1>8. \A i, n \in Nat : i + n <= 12 => Piece(w, i, n) = Piece(s, i, n)
  <2> SUFFICES ASSUME NEW i \in Nat, NEW n \in Nat, i + n <= 12
               PROVE  Piece(w, i, n) = Piece(s, i, n)
    OBVIOUS
  <2>1. 12 \in Nat /\ 12 <= Len(w)
    BY <1>5
  <2>2. SubSeq(SubSeq(w, 1, 12), i + 1, i + n) = SubSeq(w, i + 1, i + n)
    BY <1>5, <2>1, PartOfPart
  <2> QED BY <1>5, <2>2 DEF Piece
<1>9. Len(m.payload) \in Nat
  BY <1>1
<1>10. /\ c \in Seq(Bytes) /\ Len(c) = 20 + Len(m.payload)
       /\ Piece(c, 20, Len(m.payload)) = m.payload
       /\ \A i, n \in Nat : i + n <= 20 => Piece(c, i, n) = Piece(w, i, n)
  <2>1. 20 \in Nat
    OBVIOUS
  <2>2. LongerBy(w \o m.payload, w, m.payload, 20, Len(m.payload))
    BY <1>1, <1>5, <1>9, <2>1, LongerPieces
  <2>3. LongerBy(c, w, m.payload, 20, Len(m.payload))
    BY <1>1, <2>2
  <2> QED BY <2>3 DEF LongerBy
<1>11. /\ Piece(c, 0, 2) = Piece(s, 0, 2) /\ Piece(c, 2, 2) = Piece(s, 2, 2)
       /\ Piece(c, 4, 4) = Piece(s, 4, 4) /\ Piece(c, 8, 4) = Piece(s, 8, 4)
       /\ Piece(c, 12, 4) = Piece(w, 12, 4) /\ Piece(c, 16, 4) = Piece(w, 16, 4)
  <2>1. /\ {0, 2, 4, 8, 12, 16} \subseteq Nat /\ 0 + 2 <= 12 /\ 2 + 2 <= 12 /\ 4 + 4 <= 12
        /\ 8 + 4 <= 12 /\ 12 + 4 <= 20 /\ 16 + 4 <= 20
        /\ 0 + 2 <= 20 /\ 2 + 2 <= 20 /\ 4 + 4 <= 20 /\ 8 + 4 <= 20
    OBVIOUS
  <2> QED BY <1>8, <1>10, <2>1
<1>12. 4 + 16 = 20 /\ 4 + 16 <= Len(c) /\ Len(c) - (4 + 16) = Len(m.payload)
  BY <1>9, <1>10
<1> QED BY <1>3, <1>7, <1>10, <1>11, <1>12 DEF DataShape

LEMMA DataLonger ==
  ASSUME NEW m \in Datas, NEW e \in Endiannesses, NEW c, DataShape(c, m, e, 16)
  PROVE  DataShape(Extended(c, e), m, e, 20)
<1> DEFINE d == Extended(c, e)
<1>1. c \in Seq(Bytes) /\ Len(c) >= 20 /\ Len(c) \in Nat
  <2>1. c \in Seq(Bytes) /\ 4 + 16 <= Len(c)
    BY DEF DataShape
  <2> QED BY <2>1
<1>2. /\ d \in Seq(Bytes) /\ Len(d) = Len(c) + 4
      /\ Piece(d, 0, 2) = Piece(c, 0, 2) /\ Piece(d, 2, 2) = ToBytes(20, 2, e)
      /\ Piece(d, 4, 16) = Piece(c, 4, 16)
      /\ Piece(d, 24, Len(c) - 20) = Piece(c, 20, Len(c) - 20)
  BY <1>1, ExtendedShape
<1> HIDE DEF d
<1>3. ASSUME NEW m1 \in {0, 4, 8, 12}, NEW place \in Nat, place = 4 + m1
      PROVE  Piece(d, place, 4) = Piece(c, place, 4)
  <2>1. /\ 4 \in Nat /\ 16 \in Nat /\ 4 + 16 <= Len(c) /\ 4 + 16 <= Len(d)
        /\ m1 \in Nat /\ m1 + 4 <= 16
    BY <1>1, <1>2
  <2>2. Piece(d, place, 4) = Piece(Piece(d, 4, 16), m1, 4)
    BY <1>2, <1>3, <2>1, PieceOfPiece
  <2>3. Piece(c, place, 4) = Piece(Piece(c, 4, 16), m1, 4)
    BY <1>1, <1>3, <2>1, PieceOfPiece
  <2> QED BY <1>2, <2>2, <2>3
<1>4. /\ Piece(d, 4, 4) = Piece(c, 4, 4) /\ Piece(d, 8, 4) = Piece(c, 8, 4)
      /\ Piece(d, 12, 4) = Piece(c, 12, 4) /\ Piece(d, 16, 4) = Piece(c, 16, 4)
  <2>1. /\ {4, 8, 12, 16} \subseteq Nat /\ 4 = 4 + 0 /\ 8 = 4 + 4 /\ 12 = 4 + 8 /\ 16 = 4 + 12
    OBVIOUS
  <2> QED BY <1>3, <2>1
<1>5. /\ 4 + 20 = 24 /\ 4 + 20 <= Len(d) /\ Len(d) - (4 + 20) = Len(c) - 20
      /\ 4 + 16 = 20 /\ Len(c) - (4 + 16) = Len(c) - 20
  BY <1>1, <1>2
<1>6. /\ Piece(c, 0, 2) = ToBytes(0, 2, e)
      /\ Piece(c, 4, 4) = m.reader_id /\ Piece(c, 8, 4) = m.writer_id
      /\ Piece(c, 12, 4) = ToBytes(High(m.sn), 4, e) /\ Piece(c, 16, 4) = ToBytes(Low(m.sn), 4, e)
      /\ Piece(c, 4 + 16, Len(c) - (4 + 16)) = m.payload
  BY DEF DataShape
<1>7. Piece(d, 4 + 20, Len(d) - (4 + 20)) = m.payload
  BY <1>2, <1>5, <1>6
<1> QED BY <1>2, <1>4, <1>5, <1>6, <1>7 DEF DataShape, d

LEMMA DataBack ==
  ASSUME NEW m \in Datas, NEW e \in Endiannesses, NEW q \in {16, 20}, NEW d,
         DataShape(d, m, e, q), NEW w, w.header = EncodeMessageHeader(m.from)
  PROVE  /\ DataIn(w, d, e) = m
         /\ FromBytes(SubSeq(d, 1, 2), e) = 0
         /\ FromBytes(SubSeq(d, 3, 4), e) = q
         /\ 4 + q <= Len(d)
<1>1. /\ m.kind = "data" /\ m.from \in Senders /\ m.sn \in SignedNumbers(8) /\ m.sn \in Int
  BY DataFields
<1>2. /\ SubSeq(d, 1, 2) = ToBytes(0, 2, e) /\ SubSeq(d, 3, 4) = ToBytes(q, 2, e)
      /\ SubSeq(d, 5, 8) = m.reader_id /\ SubSeq(d, 9, 12) = m.writer_id
      /\ SubSeq(d, 13, 16) = ToBytes(High(m.sn), 4, e)
      /\ SubSeq(d, 17, 20) = ToBytes(Low(m.sn), 4, e)
  <2>1. /\ Piece(d, 0, 2) = SubSeq(d, 1, 2) /\ Piece(d, 2, 2) = SubSeq(d, 3, 4)
        /\ Piece(d, 4, 4) = SubSeq(d, 5, 8) /\ Piece(d, 8, 4) = SubSeq(d, 9, 12)
        /\ Piece(d, 12, 4) = SubSeq(d, 13, 16) /\ Piece(d, 16, 4) = SubSeq(d, 17, 20)
    BY DEF Piece
  <2> QED BY <2>1 DEF DataShape
<1>3. FromBytes(ToBytes(0, 2, e), e) = 0 /\ FromBytes(ToBytes(q, 2, e), e) = q
  <2>1. 0 \in Int /\ q \in Int /\ 2 \in Nat /\ 0 \in Nat /\ q \in Nat
    OBVIOUS
  <2>2. FromBytes(ToBytes(0, 2, e), e) = 0 % Capacity(2) /\ FromBytes(ToBytes(q, 2, e), e) = q % Capacity(2)
    BY <2>1, FromToBytes
  <2>3. Capacity(2) \in Nat \ {0} /\ 0 < Capacity(2) /\ q < Capacity(2)
    BY TwoByteRoom
  <2>4. 0 % Capacity(2) = 0 /\ q % Capacity(2) = q
    BY <2>1, <2>3, SmallRemainder
  <2> QED BY <2>2, <2>4
<1>4. /\ FromBytes(ToBytes(High(m.sn), 4, e), e) = High(m.sn) % Capacity(4)
      /\ FromBytes(ToBytes(Low(m.sn), 4, e), e) = Low(m.sn) % Capacity(4)
  <2>1. 4 \in Nat /\ High(m.sn) \in Int /\ Low(m.sn) \in Int
    BY <1>1, HighLow
  <2> QED BY <2>1, FromToBytes
<1>5. WordAt(d, 12, e) = High(m.sn) % Capacity(4) /\ WordAt(d, 16, e) = Low(m.sn) % Capacity(4)
  <2>1. WordAt(d, 12, e) = FromBytes(SubSeq(d, 13, 16), e)
    BY DEF WordAt
  <2>2. WordAt(d, 16, e) = FromBytes(SubSeq(d, 17, 20), e)
    BY DEF WordAt
  <2> QED BY <1>2, <1>4, <2>1, <2>2
<1>6. SequenceNumber(WordAt(d, 12, e), WordAt(d, 16, e)) = m.sn
  BY <1>1, <1>5, NumberBack
<1>7. SubSeq(d, 4 + FromBytes(SubSeq(d, 3, 4), e) + 1, Len(d)) = m.payload
  <2>1. SubSeq(d, (4 + q) + 1, (4 + q) + (Len(d) - (4 + q))) = m.payload
    BY DEF DataShape, Piece
  <2>2. d \in Seq(Bytes)
    BY DEF DataShape
  <2>3. (4 + q) + (Len(d) - (4 + q)) = Len(d) /\ (4 + q) + 1 = 4 + q + 1
    BY <2>2
  <2> QED BY <1>2, <1>3, <2>1, <2>3
<1>8. DecodeMessageHeader(w.header) = m.from
  BY <1>1, HeaderEncoded
<1>9. DataIn(w, d, e)
        = [kind |-> m.kind, from |-> m.from, reader_id |-> m.reader_id,
           writer_id |-> m.writer_id, sn |-> m.sn, payload |-> m.payload]
  BY <1>1, <1>2, <1>6, <1>7, <1>8 DEF DataIn
<1>10. m = [kind |-> m.kind, from |-> m.from, reader_id |-> m.reader_id,
            writer_id |-> m.writer_id, sn |-> m.sn, payload |-> m.payload]
  BY DEF Datas
<1>11. 4 + q <= Len(d)
  BY DEF DataShape
<1> QED BY <1>2, <1>3, <1>9, <1>10, <1>11

-----------------------------------------------------------------------------
(* A submessage this code made is the one it reads.                        *)

(* What the flags of a submessage say.                                     *)
LEMMA FlagsBack ==
  ASSUME NEW m \in Control \cup Datas, NEW e \in Endiannesses, NEW w,
         w.flags = FlagsOf(WithBitmap(m), e)
  PROVE  /\ EndiannessOf(w) = e
         /\ Supported(m.kind, w.flags)
         /\ m.kind \in {"heartbeat", "acknack"} => w.flags \ {0} = m.flags
<1> DEFINE low == IF e = "little" THEN {0} ELSE {}
<1>1. low \subseteq {0} /\ (0 \in low <=> e = "little") /\ e \in {"little", "big"}
  BY DEF Endiannesses
<1>2. CASE m \in Heartbeats
  <2>1. WithBitmap(m) = m /\ m.kind = "heartbeat" /\ m.flags \in SUBSET {1, 2}
    BY <1>2, BitmapAdded DEF Heartbeats
  <2>2. w.flags = low \cup m.flags
    BY <2>1 DEF FlagsOf
  <2> HIDE DEF low
  <2>3. 0 \notin m.flags
    BY <2>1
  <2>4. 0 \in w.flags <=> e = "little"
    BY <1>1, <2>2, <2>3
  <2>5. w.flags \subseteq {0, 1, 2}
    BY <1>1, <2>1, <2>2
  <2>6. w.flags \ {0} = m.flags
    BY <1>1, <2>2, <2>3
  <2> QED BY <1>1, <2>1, <2>4, <2>5, <2>6 DEF EndiannessOf, Supported
<1>3. CASE m \in AckNacks
  <2>1. m.kind = "acknack" /\ m.flags \in SUBSET {1}
    BY <1>3 DEF AckNacks
  <2>2. WithBitmap(m) = [m EXCEPT !.set = Filled(m.set)]
    BY <2>1, BitmapAdded
  <2>3. WithBitmap(m).kind = "acknack" /\ WithBitmap(m).flags = m.flags
    BY <1>3, <2>1, <2>2 DEF AckNacks
  <2>4. w.flags = low \cup m.flags
    BY <2>3 DEF FlagsOf
  <2> HIDE DEF low
  <2>5. 0 \notin m.flags
    BY <2>1
  <2>6. 0 \in w.flags <=> e = "little"
    BY <1>1, <2>4, <2>5
  <2>7. w.flags \subseteq {0, 1}
    BY <1>1, <2>1, <2>4
  <2>8. w.flags \ {0} = m.flags
    BY <1>1, <2>4, <2>5
  <2> QED BY <1>1, <2>1, <2>6, <2>7, <2>8 DEF EndiannessOf, Supported
<1>4. CASE m \in Gaps
  <2>1. m.kind = "gap"
    BY <1>4 DEF Gaps
  <2>2. WithBitmap(m).kind = "gap"
    BY <2>1, BitmapAdded
  <2>3. w.flags = low
    BY <2>2 DEF FlagsOf
  <2> HIDE DEF low
  <2> QED BY <1>1, <2>1, <2>3 DEF EndiannessOf, Supported
<1>5. CASE m \in Datas
  <2>1. m.kind = "data"
    BY <1>5 DEF Datas
  <2>2. WithBitmap(m).kind = "data"
    BY <2>1, BitmapAdded
  <2>3. w.flags = low \cup {2}
    BY <2>2 DEF FlagsOf
  <2> HIDE DEF low
  <2>4. 0 \in w.flags <=> e = "little"
    BY <1>1, <2>3
  <2>5. 2 \in w.flags /\ w.flags \cap {1, 3, 4} = {}
    BY <1>1, <2>3
  <2> QED BY <1>1, <2>1, <2>4, <2>5 DEF EndiannessOf, Supported
<1> QED BY <1>2, <1>3, <1>4, <1>5 DEF Control

(* The part d of what travels that the decoder looks at.                   *)
Carries(d, m, e) ==
  /\ m \in Control => d = ContentOf(WithBitmap(m), e)
  /\ m \in Datas => \E q \in {16, 20} : DataShape(d, m, e, q)

LEMMA ReadBack ==
  ASSUME NEW m \in Control \cup Datas, NEW e \in Endiannesses, NEW d, Carries(d, m, e),
         m.kind \in {"acknack", "gap"} => ValidSet(WithBitmap(m).set),
         NEW w, w.kind = m.kind, w.header = EncodeMessageHeader(m.from),
         w.flags = FlagsOf(WithBitmap(m), e)
  PROVE  /\ Readable(w, d, e) /\ MessageIn(w, d, e) = WithBitmap(m)
         /\ d \in Seq(Bytes) /\ Minimum[m.kind] <= Len(d)
<1>1. m.kind \in {"heartbeat", "acknack"} => w.flags \ {0} = m.flags
  BY FlagsBack
<1>2. /\ Minimum["heartbeat"] = 28 /\ Minimum["acknack"] = 24 /\ Minimum["gap"] = 28
      /\ Minimum["data"] = 20
  BY DEF Minimum
<1>3. CASE m \in Heartbeats
  <2>1. WithBitmap(m) = m /\ m.kind = "heartbeat"
    BY <1>3, BitmapAdded DEF Heartbeats
  <2>2. d = ContentOf(WithBitmap(m), e) /\ m \in Control
    BY <1>3 DEF Carries, Control
  <2>3. HeartbeatIn(w, d, e) = m /\ Len(d) = 28
    BY <1>1, <1>3, <2>1, <2>2, HeartbeatBack
  <2>4. d \in Seq(Bytes)
    BY <2>2, ControlContent
  <2> QED BY <1>2, <2>1, <2>3, <2>4 DEF Readable, MessageIn
<1>4. CASE m \in AckNacks
  <2>1. m.kind = "acknack" /\ m.set \in NumberSets
    BY <1>4 DEF AckNacks
  <2>2. WithBitmap(m) = [m EXCEPT !.set = Filled(m.set)]
    BY <2>1, BitmapAdded
  <2>3. WithBitmap(m).set = Filled(m.set)
    BY <1>4, <2>2 DEF AckNacks
  <2>4. d = ContentOf(WithBitmap(m), e) /\ m \in Control
    BY <1>4 DEF Carries, Control
  <2>5. ValidSet(Filled(m.set))
    BY <2>1, <2>3
  <2>6. /\ AcknackIn(w, d, e) = [m EXCEPT !.set = Filled(m.set)]
        /\ Len(d) = 24 + 4 * Words(m.set.num_bits)
        /\ GoodSetAt(d, 8, e) /\ SetEnd(d, 8, e) + 4 <= Len(d)
    BY <1>1, <1>4, <2>1, <2>4, <2>5, AcknackBack
  <2>7. d \in Seq(Bytes)
    BY <2>4, ControlContent
  <2>8. 24 <= Len(d)
    BY <2>1, <2>6, NumberSetFacts
  <2> QED BY <1>2, <2>1, <2>2, <2>6, <2>7, <2>8 DEF Readable, MessageIn
<1>5. CASE m \in Gaps
  <2>1. m.kind = "gap" /\ m.set \in NumberSets
    BY <1>5 DEF Gaps
  <2>2. WithBitmap(m) = [m EXCEPT !.set = Filled(m.set)]
    BY <2>1, BitmapAdded
  <2>3. WithBitmap(m).set = Filled(m.set)
    BY <1>5, <2>2 DEF Gaps
  <2>4. d = ContentOf(WithBitmap(m), e) /\ m \in Control
    BY <1>5 DEF Carries, Control
  <2>5. ValidSet(Filled(m.set))
    BY <2>1, <2>3
  <2>6. /\ GapIn(w, d, e) = [m EXCEPT !.set = Filled(m.set)]
        /\ Len(d) = 28 + 4 * Words(m.set.num_bits)
        /\ GoodSetAt(d, 16, e)
    BY <1>5, <2>4, <2>5, GapBack
  <2>7. d \in Seq(Bytes)
    BY <2>4, ControlContent
  <2>8. 28 <= Len(d)
    BY <2>1, <2>6, NumberSetFacts
  <2> QED BY <1>2, <2>1, <2>2, <2>6, <2>7, <2>8 DEF Readable, MessageIn
<1>6. CASE m \in Datas
  <2>1. m.kind = "data"
    BY <1>6 DEF Datas
  <2>2. WithBitmap(m) = m
    BY <2>1, BitmapAdded
  <2>3. PICK q \in {16, 20} : DataShape(d, m, e, q)
    BY <1>6 DEF Carries
  <2>4. /\ DataIn(w, d, e) = m
        /\ FromBytes(SubSeq(d, 1, 2), e) = 0 /\ FromBytes(SubSeq(d, 3, 4), e) = q
        /\ 4 + q <= Len(d)
    BY <1>6, <2>3, DataBack
  <2>5. d \in Seq(Bytes)
    BY <2>3 DEF DataShape
  <2>6. 20 <= Len(d) /\ q >= 16
    BY <2>4, <2>5
  <2> QED BY <1>2, <2>1, <2>2, <2>4, <2>5, <2>6 DEF Readable, MessageIn
<1> QED BY <1>3, <1>4, <1>5, <1>6 DEF Control

(* A submessage is decoded as it was encoded, wherever the decoder finds   *)
(* its content.                                                            *)
LEMMA SubmessageBack ==
  ASSUME NEW m \in Control \cup Datas, NEW e \in Endiannesses, NEW d, Carries(d, m, e),
         m.kind \in {"acknack", "gap"} => ValidSet(WithBitmap(m).set),
         Sound(WithBitmap(m)),
         NEW w, w.kind = m.kind, w.header = EncodeMessageHeader(m.from),
         w.flags = FlagsOf(WithBitmap(m), e),
         ContentSize(w) = Len(d), Len(d) <= Len(w.content),
         SubSeq(w.content, 1, Len(d)) = d, w.content \in Seq(Bytes)
  PROVE  DecodeMessage(w) = WithBitmap(m)
<1>1. /\ Readable(w, d, e) /\ MessageIn(w, d, e) = WithBitmap(m)
      /\ d \in Seq(Bytes) /\ Minimum[m.kind] <= Len(d)
  BY ReadBack
<1>2. EndiannessOf(w) = e /\ Supported(m.kind, w.flags)
  BY FlagsBack
<1>3. m.kind \in SubmessageKinds /\ m.from \in Senders /\ DOMAIN Minimum = SubmessageKinds
  BY DEF Control, Heartbeats, AckNacks, Gaps, Datas, SubmessageKinds, ControlKinds, Minimum
<1>4. /\ Len(EncodeMessageHeader(m.from)) = 20
      /\ SubSeq(EncodeMessageHeader(m.from), 1, 4) = Magic
  BY <1>3, HeaderEncoded
<1>5. Minimum[m.kind] \in Int /\ Len(d) \in Int /\ Len(w.content) \in Int
  <2>1. Minimum[m.kind] \in Int
    BY <1>3 DEF Minimum, SubmessageKinds, ControlKinds
  <2> QED BY <1>1, <2>1
<1>6. ContentSize(w) \in Minimum[w.kind]..Len(w.content)
  BY <1>1, <1>5
<1>7. SubSeq(w.content, 1, ContentSize(w)) = d
  OBVIOUS
<1>8. DecodeMessage(w) = DecodeContent(w, d, ReadContent(w.kind, Reader(d, e)))
  BY <1>2, <1>3, <1>4, <1>6, <1>7 DEF DecodeMessage
<1>9. DecodeContent(w, d, ReadContent(w.kind, Reader(d, e)))
        = IF Readable(w, d, e) /\ Sound(MessageIn(w, d, e))
            THEN MessageIn(w, d, e) ELSE Rejected
  BY <1>1, <1>3, ContentDecoded
<1> QED BY <1>1, <1>8, <1>9

-----------------------------------------------------------------------------
(* The length of the last submessage may be zero.                          *)

LEMMA ZeroLength ==
  ASSUME NEW e \in Endiannesses
  PROVE  FromBytes(<<0, 0>>, e) = 0 /\ <<0, 0>> \in Seq(Bytes)
<1> DEFINE z == <<0, 0>>
           b == ToBytes(0, 2, e)
<1>1. 0 \in Int /\ 2 \in Nat /\ 0 \in Nat
  OBVIOUS
<1>2. b \in Seq(Bytes) /\ Len(b) = 2
  BY <1>1, ToBytesType
<1>3. Capacity(1) \in Nat \ {0} /\ Capacity(2) \in Nat \ {0}
  <2>1. 1 \in Nat
    OBVIOUS
  <2> QED BY <1>1, <2>1, CapacityFacts
<1>4. ASSUME NEW i \in 1..2
      PROVE  b[i] = 0
  <2> DEFINE k == IF e = "little" THEN i - 1 ELSE 2 - i
             C == Capacity(k)
  <2>1. k \in Nat
    OBVIOUS
  <2>2. C \in Nat \ {0}
    BY <2>1, CapacityFacts
  <2>3. b[i] = (0 \div C) % Capacity(1)
    BY DEF ToBytes
  <2> HIDE DEF C, b
  <2>4. 0 \in 0..C - 1 /\ 0 = 0 * C + 0
    BY <2>2
  <2>5. 0 \div C = 0
    BY <1>1, <2>2, <2>4, DivisionUnique
  <2>6. 0 % Capacity(1) = 0
    <3>1. 0 < Capacity(1)
      BY <1>3
    <3> QED BY <1>1, <1>3, <3>1, SmallRemainder
  <2> QED BY <2>3, <2>5, <2>6
<1>5. z \in Seq(Bytes) /\ Len(z) = 2 /\ z[1] = 0 /\ z[2] = 0
  BY SmallBytes
<1>6. b = z
  <2> HIDE DEF b, z
  <2>1. \A i \in 1..Len(b) : b[i] = z[i]
    BY <1>2, <1>4, <1>5
  <2> QED BY <1>2, <1>5, <2>1, SameSequence
<1>7. FromBytes(b, e) = 0 % Capacity(2)
  BY <1>1, FromToBytes
<1>8. 0 % Capacity(2) = 0
  <2>1. 0 < Capacity(2)
    BY <1>3
  <2> QED BY <1>1, <1>3, <2>1, SmallRemainder
<1> QED BY <1>5, <1>6, <1>7, <1>8

(* What the encoder makes of a message it accepts.                         *)
LEMMA EncodedSubmessage ==
  ASSUME NEW m \in Control \cup Datas, NEW e \in Endiannesses, NEW own,
         own = EncodeMessage(WithBitmap(m), e), own # Rejected
  PROVE  LET c == ContentOf(WithBitmap(m), e) IN
         /\ own = [kind |-> m.kind, header |-> EncodeMessageHeader(m.from),
                   flags |-> FlagsOf(WithBitmap(m), e),
                   length |-> ToBytes(Len(c), 2, e), content |-> c]
         /\ Sound(WithBitmap(m))
         /\ m.kind \in {"acknack", "gap"} => ValidSet(WithBitmap(m).set)
         /\ Carries(c, m, e) /\ c \in Seq(Bytes)
         /\ Len(c) \in 1..MaxUint16
<1> DEFINE c == ContentOf(WithBitmap(m), e)
           x == WithBitmap(m)
<1>1. x.kind = m.kind
  BY BitmapAdded
<1>2. /\ Sound(x)
      /\ x.kind \in {"acknack", "gap"} => ValidSet(x.set)
      /\ x.kind = "data" => Len(c) <= MaxUint16
  BY DEF EncodeMessage
<1>3. own = [kind |-> m.kind, header |-> EncodeMessageHeader(m.from), flags |-> FlagsOf(x, e),
             length |-> ToBytes(Len(c), 2, e), content |-> c]
  BY SubmessageEncoded
<1>4. c \in Seq(Bytes)
  BY SubmessageEncoded
<1>5. Carries(c, m, e)
  <2>1. CASE m \in Datas
    <3>1. DataShape(c, m, e, 16)
      BY <2>1, DataPlain
    <3>2. m \notin Control
      BY <2>1 DEF Datas, Control, Heartbeats, AckNacks, Gaps
    <3> QED BY <3>1, <3>2 DEF Carries
  <2>2. CASE m \in Control
    <3>1. m \notin Datas
      BY <2>2 DEF Datas, Control, Heartbeats, AckNacks, Gaps
    <3> QED BY <3>1 DEF Carries
  <2> QED BY <2>1, <2>2
<1> DEFINE w == [kind |-> m.kind, header |-> EncodeMessageHeader(m.from),
                 flags |-> FlagsOf(x, e)]
<1>6. Minimum[m.kind] <= Len(c)
  <2>1. w.kind = m.kind /\ w.header = EncodeMessageHeader(m.from) /\ w.flags = FlagsOf(x, e)
    OBVIOUS
  <2> HIDE DEF w, c
  <2> QED BY <1>1, <1>2, <1>5, <2>1, ReadBack
<1>7. Minimum[m.kind] \in Nat /\ Minimum[m.kind] >= 20
  BY DEF Minimum, Control, Datas, Heartbeats, AckNacks, Gaps
<1>8. ASSUME m \in Control
      PROVE  Len(c) <= MaxUint16
  <2>1. Len(c) = 8 + 4 * Len(Fields(x)) /\ 28 + 4 * Words(MaxBits) <= MaxUint16
    BY <1>8, ControlContent, SizeAssumption
  <2>2. MaxUint16 \in Int
    BY TwoByteRoom
  <2>3. MaxBits \in Nat /\ Words(MaxBits) \in Nat
    BY SubmessagesAssumption, WordCount
  <2>4. CASE m \in Heartbeats
    <3>1. x = m /\ m.kind = "heartbeat"
      BY <2>4, BitmapAdded DEF Heartbeats
    <3>2. Len(Fields(x)) = 5
      BY <3>1 DEF Fields
    <3> HIDE DEF c, x
    <3> QED BY <2>1, <2>2, <2>3, <3>2
  <2>5. ASSUME m.kind \in {"acknack", "gap"}, m.set \in NumberSets
        PROVE  Words(m.set.num_bits) <= Words(MaxBits) /\ Words(m.set.num_bits) \in Nat
    <3>1. x = [m EXCEPT !.set = Filled(m.set)]
      BY <2>5, BitmapAdded
    <3>2. x.set = Filled(m.set)
      BY <1>8, <2>5, <3>1 DEF Control, Heartbeats, AckNacks, Gaps
    <3>3. m.set.num_bits <= MaxBits /\ m.set.num_bits \in Nat
      BY <1>1, <1>2, <2>5, <3>2, ValidFilled, NumberSetFacts
    <3> QED BY <3>3, WordsLimit
  <2>6. CASE m \in AckNacks
    <3>1. m.kind = "acknack" /\ m.set \in NumberSets
      BY <2>6 DEF AckNacks
    <3>2. ValidSet(Filled(m.set))
      <4>1. x = [m EXCEPT !.set = Filled(m.set)]
        BY <3>1, BitmapAdded
      <4>2. x.set = Filled(m.set)
        BY <2>6, <4>1 DEF AckNacks
      <4> QED BY <1>1, <1>2, <3>1, <4>2
    <3> DEFINE v == [header |-> EncodeMessageHeader(m.from), flags |-> m.flags]
    <3>3. v.header = EncodeMessageHeader(m.from) /\ v.flags \ {0} = m.flags
      BY <2>6 DEF AckNacks
    <3> HIDE DEF v
    <3>4. Len(c) = 24 + 4 * Words(m.set.num_bits)
      BY <2>6, <3>2, <3>3, AcknackBack
    <3> HIDE DEF c
    <3> QED BY <2>1, <2>2, <2>3, <2>5, <3>1, <3>4
  <2>7. CASE m \in Gaps
    <3>1. m.kind = "gap" /\ m.set \in NumberSets
      BY <2>7 DEF Gaps
    <3>2. ValidSet(Filled(m.set))
      <4>1. x = [m EXCEPT !.set = Filled(m.set)]
        BY <3>1, BitmapAdded
      <4>2. x.set = Filled(m.set)
        BY <2>7, <4>1 DEF Gaps
      <4> QED BY <1>1, <1>2, <3>1, <4>2
    <3> DEFINE v == [header |-> EncodeMessageHeader(m.from)]
    <3>3. v.header = EncodeMessageHeader(m.from)
      OBVIOUS
    <3> HIDE DEF v
    <3>4. Len(c) = 28 + 4 * Words(m.set.num_bits)
      BY <2>7, <3>2, <3>3, GapBack
    <3> HIDE DEF c
    <3> QED BY <2>1, <2>2, <2>3, <2>5, <3>1, <3>4
  <2> QED BY <1>8, <2>4, <2>6, <2>7 DEF Control
<1>9. ASSUME m \in Datas
      PROVE  Len(c) <= MaxUint16
  BY <1>1, <1>2, <1>9 DEF Datas
<1>10. Len(c) <= MaxUint16
  BY <1>8, <1>9
<1>11. Len(c) \in 1..MaxUint16
  <2> HIDE DEF c
  <2>1. Len(c) \in Nat /\ MaxUint16 \in Int
    BY <1>4, TwoByteRoom
  <2> QED BY <1>6, <1>7, <1>10, <2>1
<1>12. x.kind = m.kind => (m.kind \in {"acknack", "gap"} => ValidSet(x.set))
  BY <1>2
<1> QED BY <1>1, <1>2, <1>3, <1>4, <1>5, <1>11

(* What a submessage says of its length.                                   *)
LEMMA LengthBack ==
  ASSUME NEW n \in 1..MaxUint16, NEW e \in Endiannesses, NEW w, EndiannessOf(w) = e
  PROVE  /\ w.length = ToBytes(n, 2, e) => ContentSize(w) = n
         /\ w.length = <<0, 0>> => ContentSize(w) = Len(w.content)
<1>1. Capacity(2) \in Nat /\ MaxUint16 = Capacity(2) - 1
  BY TwoByteRoom
<1>2. n \in Nat /\ n \in Int /\ n < Capacity(2) /\ n # 0 /\ 2 \in Nat /\ Capacity(2) \in Nat \ {0}
  BY <1>1
<1>3. FromBytes(ToBytes(n, 2, e), e) = n % Capacity(2)
  BY <1>2, FromToBytes
<1>4. n % Capacity(2) = n
  BY <1>2, SmallRemainder
<1>5. FromBytes(<<0, 0>>, e) = 0
  BY ZeroLength
<1>6. w.length = ToBytes(n, 2, e) => ContentSize(w) = n
  BY <1>2, <1>3, <1>4 DEF ContentSize
<1>7. w.length = <<0, 0>> => ContentSize(w) = Len(w.content)
  BY <1>5 DEF ContentSize
<1> QED BY <1>6, <1>7

-----------------------------------------------------------------------------
(* Every form of a submessage on the wire means what was encoded.          *)

(* A submessage that the encoder accepts is decoded as it was, in any form *)
(* the format allows: without its length, with bytes behind it, or with    *)
(* room before its payload.                                                *)
LEMMA OwnSubmessageBack ==
  ASSUME NEW m \in Control \cup Datas, NEW e \in Endiannesses, NEW own,
         own = EncodeMessage(WithBitmap(m), e), own # Rejected
  PROVE  DecodeMessage(own) = WithBitmap(m)
<1> DEFINE c == ContentOf(WithBitmap(m), e)
           x == WithBitmap(m)
<1>1. /\ own = [kind |-> m.kind, header |-> EncodeMessageHeader(m.from),
                flags |-> FlagsOf(x, e), length |-> ToBytes(Len(c), 2, e), content |-> c]
      /\ Sound(x)
      /\ m.kind \in {"acknack", "gap"} => ValidSet(x.set)
      /\ Carries(c, m, e) /\ c \in Seq(Bytes) /\ Len(c) \in 1..MaxUint16
  BY EncodedSubmessage
<1> HIDE DEF c, x
<1>2. /\ own.kind = m.kind /\ own.header = EncodeMessageHeader(m.from)
      /\ own.flags = FlagsOf(x, e) /\ own.length = ToBytes(Len(c), 2, e) /\ own.content = c
  BY <1>1
<1>3. EndiannessOf(own) = e
  BY <1>2, FlagsBack DEF x
<1>4. ContentSize(own) = Len(c)
  BY <1>1, <1>2, <1>3, LengthBack
<1>5. SubSeq(own.content, 1, Len(c)) = c /\ Len(c) <= Len(own.content)
  BY <1>1, <1>2, WholePart
<1> QED BY <1>1, <1>2, <1>4, <1>5, SubmessageBack DEF x

LEMMA OtherSubmessageBack ==
  ASSUME NEW m \in Control \cup Datas, NEW e \in Endiannesses, NEW own,
         own = EncodeMessage(WithBitmap(m), e), own # Rejected, NEW w \in OtherForms(own)
  PROVE  DecodeMessage(w) = WithBitmap(m)
<1> DEFINE c == ContentOf(WithBitmap(m), e)
           x == WithBitmap(m)
           more == <<1, 2, 3>>
<1>1. /\ own = [kind |-> m.kind, header |-> EncodeMessageHeader(m.from),
                flags |-> FlagsOf(x, e), length |-> ToBytes(Len(c), 2, e), content |-> c]
      /\ Sound(x)
      /\ m.kind \in {"acknack", "gap"} => ValidSet(x.set)
      /\ Carries(c, m, e) /\ c \in Seq(Bytes) /\ Len(c) \in 1..MaxUint16
  BY EncodedSubmessage
<1>2. \/ w = [own EXCEPT !.length = <<0, 0>>]
      \/ w = [own EXCEPT !.content = own.content \o more]
      \/ /\ own.kind = "data"
         /\ w = [own EXCEPT !.content = Extended(own.content, EndiannessOf(own)),
                            !.length = <<0, 0>>]
  BY DEF OtherForms, Extended
<1> HIDE DEF c, x
<1>3. /\ own.kind = m.kind /\ own.header = EncodeMessageHeader(m.from)
      /\ own.flags = FlagsOf(x, e) /\ own.length = ToBytes(Len(c), 2, e) /\ own.content = c
  BY <1>1
<1>4. EndiannessOf(own) = e
  BY <1>3, FlagsBack DEF x
<1>5. CASE w = [own EXCEPT !.length = <<0, 0>>]
  <2>1. /\ w.kind = m.kind /\ w.header = EncodeMessageHeader(m.from)
        /\ w.flags = FlagsOf(x, e) /\ w.length = <<0, 0>> /\ w.content = c
    BY <1>1, <1>3, <1>5
  <2>2. EndiannessOf(w) = e
    BY <2>1, FlagsBack DEF x
  <2>3. ContentSize(w) = Len(c)
    BY <1>1, <2>1, <2>2, LengthBack
  <2>4. SubSeq(w.content, 1, Len(c)) = c /\ Len(c) <= Len(w.content) /\ w.content \in Seq(Bytes)
    BY <1>1, <2>1, WholePart
  <2> QED BY <1>1, <2>1, <2>3, <2>4, SubmessageBack DEF x
<1>6. CASE w = [own EXCEPT !.content = own.content \o more]
  <2>1. /\ w.kind = m.kind /\ w.header = EncodeMessageHeader(m.from)
        /\ w.flags = FlagsOf(x, e) /\ w.length = ToBytes(Len(c), 2, e)
        /\ w.content = c \o more
    BY <1>1, <1>3, <1>6
  <2>2. EndiannessOf(w) = e
    BY <2>1, FlagsBack DEF x
  <2>3. ContentSize(w) = Len(c)
    BY <1>1, <2>1, <2>2, LengthBack
  <2>4. more \in Seq(Bytes) /\ Len(more) = 3
    BY SmallBytes
  <2> HIDE DEF more
  <2>5. c \o more \in Seq(Bytes) /\ Len(c \o more) = Len(c) + 3
    <3>1. c \o more \in Seq(Bytes)
      BY <1>1, <2>4, Concatenation
    <3>2. Len(c \o more) = Len(c) + Len(more)
      BY <1>1, <2>4, Concatenation
    <3> QED BY <2>4, <3>1, <3>2
  <2>6. SubSeq(c \o more, 1, Len(c)) = SubSeq(c, 1, Len(c))
    <3>1. Len(c) \in Nat /\ Len(c) <= Len(c)
      BY <1>1
    <3> QED BY <1>1, <2>4, <3>1, FirstOfConcatenation
  <2>7. SubSeq(c, 1, Len(c)) = c
    BY <1>1, WholePart
  <2>8. /\ SubSeq(w.content, 1, Len(c)) = c /\ Len(c) <= Len(w.content)
        /\ w.content \in Seq(Bytes)
    <3>1. Len(c) <= Len(c) + 3
      BY <1>1
    <3> QED BY <2>1, <2>5, <2>6, <2>7, <3>1
  <2> QED BY <1>1, <2>1, <2>3, <2>8, SubmessageBack DEF x
<1>7. CASE /\ own.kind = "data"
           /\ w = [own EXCEPT !.content = Extended(own.content, EndiannessOf(own)),
                              !.length = <<0, 0>>]
  <2> DEFINE d == Extended(c, e)
  <2>1. w = [own EXCEPT !.content = d, !.length = <<0, 0>>]
    BY <1>3, <1>4, <1>7
  <2>9. m \in Datas
    BY <1>3, <1>7 DEF Control, Heartbeats, AckNacks, Gaps
  <2>2. DataShape(c, m, e, 16)
    BY <2>9, DataPlain DEF c
  <2>3. DataShape(d, m, e, 20)
    BY <2>9, <2>2, DataLonger
  <2>4. Carries(d, m, e) /\ d \in Seq(Bytes) /\ Len(d) >= 4 + 20
    <3> HIDE DEF d
    <3>1. m \notin Control
      BY <2>9 DEF Datas, Control, Heartbeats, AckNacks, Gaps
    <3>2. Carries(d, m, e)
      BY <2>3, <3>1 DEF Carries
    <3>3. d \in Seq(Bytes) /\ 4 + 20 <= Len(d)
      BY <2>3 DEF DataShape
    <3> QED BY <3>2, <3>3
  <2> HIDE DEF d
  <2>5. /\ w.kind = m.kind /\ w.header = EncodeMessageHeader(m.from)
        /\ w.flags = FlagsOf(x, e) /\ w.length = <<0, 0>> /\ w.content = d
    BY <1>1, <1>3, <2>1
  <2>6. EndiannessOf(w) = e
    BY <2>5, FlagsBack DEF x
  <2>7. ContentSize(w) = Len(d)
    <3>1. 1 \in 1..MaxUint16
      BY TwoByteRoom
    <3> QED BY <2>5, <2>6, <3>1, LengthBack
  <2>8. SubSeq(w.content, 1, Len(d)) = d /\ Len(d) <= Len(w.content) /\ w.content \in Seq(Bytes)
    BY <2>4, <2>5, WholePart
  <2> QED BY <1>1, <2>4, <2>5, <2>7, <2>8, SubmessageBack DEF x
<1> QED BY <1>2, <1>5, <1>6, <1>7

(* ... and means what it meant: the numbers of its set are those named.    *)
LEMMA BitmapMeans ==
  ASSUME NEW m \in Control \cup Datas, NEW e \in Endiannesses,
         EncodeMessage(WithBitmap(m), e) # Rejected
  PROVE  Means(WithBitmap(m), m)
<1>1. m.kind \in {"acknack", "gap"} => ValidSet(WithBitmap(m).set)
  BY EncodedSubmessage
<1>2. CASE m \in Heartbeats \cup Datas
  <2>1. m.kind \notin {"acknack", "gap", "participant"}
    BY <1>2 DEF Heartbeats, Datas
  <2>2. WithBitmap(m) = m
    BY <2>1, BitmapAdded
  <2> QED BY <2>1, <2>2 DEF Means
<1>3. CASE m \in AckNacks \cup Gaps
  <2> DEFINE r == WithBitmap(m)
  <2>1. m.kind \in {"acknack", "gap"} /\ m.set \in NumberSets
    BY <1>3 DEF AckNacks, Gaps
  <2>2. r = [m EXCEPT !.set = Filled(m.set)] /\ r.kind = m.kind
    BY <2>1, BitmapAdded
  <2>3. r.set = Filled(m.set) /\ [r EXCEPT !.set = m.set] = m
    <3>1. CASE m \in AckNacks
      BY <2>2, <3>1 DEF AckNacks
    <3>2. CASE m \in Gaps
      BY <2>2, <3>2 DEF Gaps
    <3> QED BY <1>3, <3>1, <3>2
  <2> HIDE DEF r
  <2>4. ValidSet(Filled(m.set))
    BY <1>1, <2>1, <2>3 DEF r
  <2>5. InRange(m.set)
    BY <2>1, <2>4, ValidFilled
  <2>6. r.set.base = m.set.base /\ r.set.num_bits = m.set.num_bits /\ r.set.bitmap = BitmapOf(m.set)
    BY <2>3, FilledFields
  <2>7. NumbersOf(r.set) = m.set.numbers
    BY <2>1, <2>5, <2>6, NumbersKept
  <2> QED BY <2>1, <2>2, <2>3, <2>6, <2>7 DEF Means, r
<1> QED BY <1>2, <1>3 DEF Control

-----------------------------------------------------------------------------
(* The fields of an announcement, one kind at a time.                      *)

(* The value of each parameter, padded, is decoded as it was encoded.      *)
LEMMA GuidBack ==
  ASSUME NEW v \in BytesOf(16), NEW e
  PROVE  DecodeGuid(PadBytes(v), e) = Accept(v)
<1>1. v \in Seq(Bytes) /\ Len(v) = 16
  BY DEF BytesOf
<1>2. 16 % 4 = 0
  OBVIOUS
<1>3. PadBytes(v) = v
  BY <1>1, <1>2, PaddedOnce
<1>4. SubSeq(v, 1, 16) = v
  BY <1>1, WholePart
<1>5. DecodeGuid(v, e) = Accept(SubSeq(v, 1, 16))
  BY <1>1 DEF DecodeGuid
<1> QED BY <1>3, <1>4, <1>5

LEMMA PairBack ==
  ASSUME NEW v \in BytesOf(2), NEW e
  PROVE  DecodePair(PadBytes(v), e) = Accept(v)
<1> DEFINE z == Zeros(Padding(4, Len(v)))
<1>1. v \in Seq(Bytes) /\ Len(v) = 2
  BY DEF BytesOf
<1>2. z \in Seq(Bytes)
  <2>1. Padding(4, Len(v)) \in Nat
    <3>1. 4 \in Nat \ {0} /\ Len(v) \in Nat
      BY <1>1
    <3>2. Padding(4, Len(v)) \in 0..4 - 1
      BY <3>1, PaddingType
    <3> QED BY <3>2
  <2> QED BY <2>1, ZerosType
<1>3. PadBytes(v) = v \o z
  BY DEF PadBytes
<1> HIDE DEF z
<1>4. SubSeq(v \o z, 1, 2) = SubSeq(v, 1, 2)
  <2>1. 2 \in Nat /\ 2 <= Len(v)
    BY <1>1
  <2> QED BY <1>1, <1>2, <2>1, FirstOfConcatenation
<1>5. SubSeq(v, 1, 2) = v
  BY <1>1, WholePart
<1>6. Len(v \o z) >= 2
  <2>1. Len(v \o z) = Len(v) + Len(z)
    BY <1>1, <1>2, Concatenation
  <2>2. Len(z) \in Nat
    BY <1>2
  <2> QED BY <1>1, <2>1, <2>2
<1> QED BY <1>3, <1>4, <1>5, <1>6 DEF DecodePair

LEMMA ReaderAt ==
  ASSUME NEW c, NEW e
  PROVE  Reader(c, e) = At(c, e, 0, <<>>)
BY DEF Reader, At

LEMMA WordFirst ==
  ASSUME NEW c \in Seq(Bytes), NEW e \in Endiannesses, 4 <= Len(c)
  PROVE  Read(Reader(c, e), 4) = At(c, e, 4, <<WordAt(c, 0, e)>>)
<1> DEFINE zero == 0
           four == 4
           o == <<>>
           x == FromBytes(SubSeq(c, zero + 1, zero + four), e)
<1>1. /\ zero \in Nat /\ four \in Nat \ {0} /\ zero % four = 0 /\ zero + four <= Len(c)
      /\ zero + four = 4 /\ o \in Seq(Values)
  OBVIOUS
<1>2. x = WordAt(c, 0, e)
  BY DEF WordAt
<1>3. Reader(c, e) = At(c, e, zero, o)
  BY ReaderAt
<1>4. Append(o, x) = <<x>>
  OBVIOUS
<1>5. four = 4
  OBVIOUS
<1> HIDE DEF zero, four, o
<1>6. Read(At(c, e, zero, o), four) = At(c, e, zero + four, Append(o, x))
  BY <1>1, NumberRead
<1> QED BY <1>1, <1>2, <1>3, <1>4, <1>5, <1>6

LEMMA FirstWord ==
  ASSUME NEW v \in Seq(Int), Len(v) > 0, NEW e \in Endiannesses, NEW c,
         c = PadBytes(WriteWords(<<>>, v, e))
  PROVE  /\ c = WriteWords(<<>>, v, e) /\ c \in Seq(Bytes) /\ Len(c) = 4 * Len(v)
         /\ \A j \in 1..Len(v), place \in Nat :
              place = 4 * (j - 1) => WordAt(c, place, e) = v[j] % Capacity(4)
         /\ Read(Reader(c, e), 4).valid
         /\ Read(Reader(c, e), 4).read = <<v[1] % Capacity(4)>>
<1> DEFINE w == WriteWords(<<>>, v, e)
           o == <<>>
<1>1. w \in Seq(Bytes) /\ Len(w) = 4 * Len(v)
  BY WordsOnly
<1>2. Len(v) \in Nat /\ (4 * Len(v)) % 4 = 0
  BY Z3
<1>3. c = w
  <2> HIDE DEF w
  <2>1. Len(w) % 4 = 0
    BY <1>1, <1>2
  <2> QED BY <1>1, <2>1, PaddedOnce DEF w
<1>4. WordsHold(w, Len(o), v, e)
  BY NothingWritten, WordsHeld
<1>5. Len(o) = 0 /\ o \in Seq(Values)
  OBVIOUS
<1> HIDE DEF o, w
<1>6. ASSUME NEW j \in 1..Len(v), NEW place \in Nat, place = 4 * (j - 1)
      PROVE  WordAt(c, place, e) = v[j] % Capacity(4)
  <2>1. place = Len(o) + 4 * (j - 1)
    BY <1>5, <1>6
  <2> QED BY <1>3, <1>4, <2>1 DEF WordsHold
<1>7. WordAt(c, 0, e) = v[1] % Capacity(4)
  <2>1. 1 \in 1..Len(v) /\ 0 \in Nat /\ 0 = 4 * (1 - 1)
    BY <1>2
  <2> QED BY <1>6, <2>1
<1> DEFINE x == WordAt(c, 0, e)
<1>8. Read(Reader(c, e), 4) = At(c, e, 4, <<x>>)
  <2>1. c \in Seq(Bytes) /\ 4 <= Len(c)
    BY <1>1, <1>2, <1>3
  <2> QED BY <2>1, WordFirst
<1>9. x = v[1] % Capacity(4)
  BY <1>7
<1> HIDE DEF x
<1>11. Read(Reader(c, e), 4).valid /\ Read(Reader(c, e), 4).read = <<x>>
  BY <1>8 DEF At
<1> QED BY <1>1, <1>3, <1>6, <1>9, <1>11 DEF w

LEMMA Uint32Back ==
  ASSUME NEW x \in 0..Capacity(4) - 1, NEW e \in Endiannesses
  PROVE  DecodeUint32(PadBytes(WriteWords(<<>>, <<x>>, e)), e) = Accept(x)
<1> DEFINE v == <<x>>
           c == PadBytes(WriteWords(<<>>, v, e))
           r == Read(Reader(c, e), 4)
<1>1. Capacity(4) \in Nat \ {0} /\ x \in Nat /\ x < Capacity(4)
  <2>1. 4 \in Nat
    OBVIOUS
  <2>2. Capacity(4) \in Nat \ {0}
    BY <2>1, CapacityFacts
  <2> QED BY <2>2
<1>2. v \in Seq(Int) /\ Len(v) > 0 /\ v[1] = x
  BY <1>1
<1>3. x % Capacity(4) = x
  BY <1>1, SmallRemainder
<1> HIDE DEF v
<1>4. r.valid /\ r.read = <<v[1] % Capacity(4)>>
  BY <1>2, FirstWord
<1> HIDE DEF r
<1>5. r.read[1] = x
  BY <1>2, <1>3, <1>4
<1>6. DecodeUint32(c, e) = Accept(r.read[1])
  BY <1>4 DEF DecodeUint32, r
<1> QED BY <1>5, <1>6 DEF c, v

LEMMA ReliabilityBack ==
  ASSUME NEW b \in BOOLEAN, NEW e \in Endiannesses
  PROVE  DecodeReliability(PadBytes(EncodeReliability(b, e)), e) = Accept(b)
<1> DEFINE k == IF b THEN 2 ELSE 1
           v == <<k, 0, 0>>
           c == PadBytes(WriteWords(<<>>, v, e))
           r == Read(Reader(c, e), 4)
<1>1. k \in {1, 2} /\ (k = 2) = b
  OBVIOUS
<1>2. v \in Seq(Int) /\ Len(v) > 0 /\ v[1] = k
  OBVIOUS
<1>3. PadBytes(EncodeReliability(b, e)) = c
  BY DEF EncodeReliability
<1> HIDE DEF k
<1>4. k % Capacity(4) = k
  <2>1. Capacity(4) \in Nat \ {0} /\ k \in Nat /\ k < Capacity(4)
    BY <1>1, FractionAssumption
  <2> QED BY <2>1, SmallRemainder
<1> HIDE DEF v
<1>5. r.valid /\ r.read = <<v[1] % Capacity(4)>>
  BY <1>2, FirstWord
<1> HIDE DEF r
<1>6. r.read[1] = k
  BY <1>2, <1>4, <1>5
<1>7. DecodeReliability(c, e) = Accept(r.read[1] = 2)
  BY <1>1, <1>5, <1>6 DEF DecodeReliability, r
<1>8. Accept(r.read[1] = 2) = Accept(b)
  BY <1>1, <1>6
<1> QED BY <1>3, <1>7, <1>8

-----------------------------------------------------------------------------
(* Two results about the encodings of DiscoveryData and PortMapping: the   *)
(* lease, which is not kept to the unit, and the ports.                    *)

(* Division by a positive number, by its remainder.                        *)
LEMMA Quotient ==
  ASSUME NEW a \in Nat, NEW b \in Nat \ {0}
  PROVE  /\ a \div b \in Nat
         /\ (a \div b) * b <= a
         /\ a < (a \div b) * b + b
OBVIOUS

(* Multiples of a positive number are ordered as their factors are.        *)
LEMMA Multiples ==
  ASSUME NEW a \in Nat, NEW b \in Nat, NEW w \in Nat \ {0}, a * w < b * w
  PROVE  a < b
OBVIOUS

(* The part of a second a lease has left after encode_duration and         *)
(* decode_duration: both divisions together take less than a unit.         *)
Restored(rest, w) == (((rest * w) \div 1000) * 1000) \div w

LEMMA FractionSurvives ==
  ASSUME NEW rest \in 0..999, NEW w \in Nat, w >= 1000
  PROVE  Restored(rest, w) \in {rest - 1, rest}
<1> DEFINE f == (rest * w) \div 1000
           back == (f * 1000) \div w
<1>1. rest * w \in Nat
  OBVIOUS
<1>2. f \in Nat /\ f * 1000 <= rest * w /\ rest * w < f * 1000 + 1000
  BY <1>1, Quotient
<1>3. f * 1000 \in Nat /\ w \in Nat \ {0}
  BY <1>2
<1>4. back \in Nat /\ back * w <= f * 1000 /\ f * 1000 < back * w + w
  BY <1>3, Quotient
<1> HIDE DEF f, back
<1>5. back * w < (rest + 1) * w
  BY <1>2, <1>4, <1>1
<1>6. rest * w < (back + 2) * w
  BY <1>2, <1>4, <1>1
<1>7. back < rest + 1
  BY <1>5, <1>4, <1>3, Multiples
<1>8. rest < back + 2
  BY <1>6, <1>4, <1>3, Multiples
<1>9. back \in {rest - 1, rest}
  BY <1>7, <1>8, <1>4
<1> QED BY <1>9 DEF Restored, back, f

(* What decode_duration makes of a lease encode_duration accepted is the   *)
(* lease or one millisecond less: one that is longer than the announcement *)
(* period arrives no shorter than the period, but may arrive equal to it.  *)
THEOREM LeaseSurvives ==
  ASSUME NEW ms \in Nat
  PROVE  Milliseconds(ms \div 1000, Fraction(ms)) \in {ms - 1, ms}
<1>1. ms % 1000 \in 0..999 /\ ms = (ms \div 1000) * 1000 + (ms % 1000)
  OBVIOUS
<1> DEFINE w == Capacity(4)
           rest == ms % 1000
<1>2. w \in Nat /\ w >= 1000 /\ rest \in 0..999
  BY <1>1, FractionAssumption
<1> HIDE DEF w, rest
<1>3. Restored(rest, w) \in {rest - 1, rest}
  BY <1>2, FractionSurvives, ZenonT(60)
<1>4. (Fraction(ms) * 1000) \div Capacity(4) \in {rest - 1, rest}
  BY <1>3 DEF Restored, Fraction, w, rest
<1> QED BY <1>1, <1>4 DEF Milliseconds, rest

(* PortMapping: two unicast ports that exist are the same only for one     *)
(* participant of one domain and one purpose, and no unicast port is a     *)
(* multicast port, as long as participant ids stay below 120.  (The 120th  *)
(* would get the multicast port of the next domain; the code does not      *)
(* forbid it.)                                                             *)
THEOREM PortsDistinct ==
  ASSUME NEW d \in Nat, NEW e \in Nat, NEW p \in 0..119, NEW q \in 0..119,
         SpdpUnicastPort(d, p) # NoPort, UserUnicastPort(d, p) # NoPort
  PROVE  /\ SpdpUnicastPort(d, p) = SpdpUnicastPort(e, q) => d = e /\ p = q
         /\ UserUnicastPort(d, p) = UserUnicastPort(e, q) => d = e /\ p = q
         /\ SpdpUnicastPort(d, p) # UserUnicastPort(e, q)
         /\ {SpdpUnicastPort(d, p), UserUnicastPort(d, p)}
              \cap {SpdpMulticastPort(e), UserMulticastPort(e)} = {}
BY SMT DEF SpdpUnicastPort, UserUnicastPort, SpdpMulticastPort, UserMulticastPort,
           Calculate, NoPort

-----------------------------------------------------------------------------
(* A locator decodes to itself.                                            *)

LEMMA TwoWords ==
  ASSUME NEW c \in Seq(Bytes), NEW e \in Endiannesses, 8 <= Len(c)
  PROVE  /\ ReadWords(Reader(c, e), 2) = At(c, e, 8, WordsAt(c, 0, 2, e))
         /\ WordsAt(c, 0, 2, e) \in Seq(Values) /\ Len(WordsAt(c, 0, 2, e)) = 2
         /\ WordsAt(c, 0, 2, e)[1] = WordAt(c, 0, e)
         /\ WordsAt(c, 0, 2, e)[2] = WordAt(c, 4, e)
<1> DEFINE zero == 0
           two == 2
           o == <<>>
           words == WordsAt(c, zero, two, e)
<1>1. /\ zero \in Nat /\ two \in Nat /\ zero % 4 = 0 /\ zero <= Len(c)
      /\ zero + 4 * two <= Len(c) /\ zero + 4 * two = 8 /\ o \in Seq(Values)
  OBVIOUS
<1>2. Reader(c, e) = At(c, e, zero, o)
  BY ReaderAt
<1>3. /\ words[1] = WordAt(c, 0, e) /\ words[2] = WordAt(c, 4, e)
  BY DEF WordsAt
<1>4. zero = 0 /\ two = 2 /\ o = <<>>
  OBVIOUS
<1> HIDE DEF zero, two, o
<1>5. words \in Seq(Values) /\ Len(words) = two
  <2>1. /\ WordsAt(c, zero, two, e) \in Seq(Values)
        /\ Len(WordsAt(c, zero, two, e)) = two
    <3>1. zero \in Nat /\ two \in Nat /\ zero + 4 * two <= Len(c)
      BY <1>1
    <3> QED BY <3>1, WordsType
  <2> QED BY <2>1
<1>6. ReadWords(At(c, e, zero, o), two) = At(c, e, zero + 4 * two, o \o words)
  BY <1>1, WordsRead
<1> HIDE DEF words
<1>7. <<>> \o words = words
  BY <1>5, NothingBefore
<1>8. ReadWords(Reader(c, e), 2) = At(c, e, 8, words)
  BY <1>1, <1>2, <1>4, <1>6, <1>7
<1> QED BY <1>3, <1>4, <1>5, <1>8 DEF words

LEMMA LocatorParts ==
  ASSUME NEW l \in Locators, Len(l.address) = 4, NEW e \in Endiannesses
  PROVE  LET c == PadBytes(EncodeLocator(l, e)) IN
         /\ c \in Seq(Bytes) /\ Len(c) = 24
         /\ WordAt(c, 0, e) = 1 % Capacity(4)
         /\ WordAt(c, 4, e) = l.port % Capacity(4)
         /\ Piece(c, 8, 12) = Zeros(12) /\ Piece(c, 20, 4) = l.address
<1> DEFINE v == <<1, l.port>>
           words == WriteWords(<<>>, v, e)
           z == Zeros(12)
           first == words \o z
           c == EncodeLocator(l, e)
<1>1. /\ words \in Seq(Bytes) /\ Len(words) = 8
      /\ l.address \in Seq(Bytes) /\ l.port \in Nat
      /\ c = first \o l.address /\ first \in Seq(Bytes) /\ Len(first) = 20
      /\ c \in Seq(Bytes) /\ Len(c) = 20 + Len(l.address)
  BY LocatorEncoded
<1>2. z \in Seq(Bytes) /\ Len(z) = 12
  <2>1. 12 \in Nat
    OBVIOUS
  <2> QED BY <2>1, ZerosType
<1>3. v \in Seq(Int) /\ Len(v) = 2 /\ v[1] = 1 /\ v[2] = l.port
  BY <1>1
<1>4. PadBytes(c) = c
  <2> HIDE DEF c
  <2>3. Len(c) = 20 + Len(l.address)
    BY <1>1, Zenon
  <2>1. Len(c) = 24 /\ 24 % 4 = 0
    BY <2>3
  <2>2. Len(c) % 4 = 0
    BY <2>1
  <2> QED BY <1>1, <2>2, PaddedOnce
<1> HIDE DEF v
<1>5. WordAt(words, 0, e) = 1 % Capacity(4) /\ WordAt(words, 4, e) = l.port % Capacity(4)
  <2> DEFINE w == PadBytes(words)
  <2>1. /\ w = words
        /\ \A j \in 1..Len(v), place \in Nat :
              place = 4 * (j - 1) => WordAt(w, place, e) = v[j] % Capacity(4)
    <3>1. Len(v) > 0 /\ v \in Seq(Int)
      BY <1>3
    <3>2. w = words
      <4> HIDE DEF w
      <4> QED BY <3>1, FirstWord DEF w
    <3>3. \A j \in 1..Len(v), place \in Nat :
              place = 4 * (j - 1) => WordAt(w, place, e) = v[j] % Capacity(4)
      BY <3>1, FirstWord
    <3> QED BY <3>2, <3>3
  <2> HIDE DEF w, words
  <2>2. WordAt(w, 0, e) = v[1] % Capacity(4)
    <3>1. 1 \in 1..Len(v) /\ 0 \in Nat /\ 0 = 4 * (1 - 1)
      BY <1>3
    <3> QED BY <2>1, <3>1
  <2>3. WordAt(w, 4, e) = v[2] % Capacity(4)
    <3>1. 2 \in 1..Len(v) /\ 4 \in Nat /\ 4 = 4 * (2 - 1)
      BY <1>3
    <3> QED BY <2>1, <3>1
  <2> QED BY <1>3, <2>1, <2>2, <2>3
<1> HIDE DEF words, z, c
<1>6. LongerBy(first, words, z, 8, 12)
  <2>1. 8 \in Nat /\ 12 \in Nat
    OBVIOUS
  <2> QED BY <1>1, <1>2, <2>1, LongerPieces
<1> HIDE DEF first
<1>7. LongerBy(c, first, l.address, 20, 4)
  <2>1. 20 \in Nat /\ 4 \in Nat
    OBVIOUS
  <2>2. LongerBy(first \o l.address, first, l.address, 20, 4)
    BY <1>1, <2>1, LongerPieces
  <2> QED BY <1>1, <2>2
<1>8. Piece(first, 8, 12) = z /\ Piece(c, 20, 4) = l.address
  BY <1>6, <1>7 DEF LongerBy
<1>9. /\ \A o, n \in Nat : o + n <= 8 => Piece(first, o, n) = Piece(words, o, n)
      /\ \A o, n \in Nat : o + n <= 20 => Piece(c, o, n) = Piece(first, o, n)
  BY <1>6, <1>7 DEF LongerBy
<1>10. /\ Piece(c, 8, 12) = Piece(first, 8, 12)
       /\ Piece(c, 0, 4) = Piece(words, 0, 4) /\ Piece(c, 4, 4) = Piece(words, 4, 4)
  <2>1. /\ {0, 4, 8, 12} \subseteq Nat /\ 8 + 12 <= 20 /\ 0 + 4 <= 8 /\ 4 + 4 <= 8
        /\ 0 + 4 <= 20 /\ 4 + 4 <= 20
    OBVIOUS
  <2> QED BY <1>9, <2>1
<1>11. WordAt(c, 0, e) = WordAt(words, 0, e) /\ WordAt(c, 4, e) = WordAt(words, 4, e)
  BY <1>10 DEF WordAt, Piece
<1>12. Len(c) = 24
  BY <1>1
<1> QED BY <1>1, <1>4, <1>5, <1>8, <1>10, <1>11, <1>12 DEF c, z

LEMMA LocatorBack ==
  ASSUME NEW l \in Locators, ValidLocator(l), NEW e \in Endiannesses
  PROVE  DecodeLocator(PadBytes(EncodeLocator(l, e)), e) = Accept(l)
<1> DEFINE c == PadBytes(EncodeLocator(l, e))
           words == WordsAt(c, 0, 2, e)
           part == SubSeq(c, 8 + 1, 8 + 16)
           r == ReadBytes(ReadWords(Reader(c, e), 2), 16)
<1>1. l.port > 0 /\ Len(l.address) = 4
  BY DEF ValidLocator
<1>2. /\ c \in Seq(Bytes) /\ Len(c) = 24
      /\ WordAt(c, 0, e) = 1 % Capacity(4)
      /\ WordAt(c, 4, e) = l.port % Capacity(4)
      /\ Piece(c, 8, 12) = Zeros(12) /\ Piece(c, 20, 4) = l.address
  BY <1>1, LocatorParts
<1>3. /\ l = [address |-> l.address, port |-> l.port]
      /\ l.port \in 0..MaxUint16 /\ l.address \in Seq(Bytes)
  BY DEF Locators
<1>4. l.port \in 1..Capacity(2) - 1 /\ l.port < Capacity(4) /\ l.port \in Nat
  <2>1. Capacity(2) \in Nat /\ MaxUint16 = Capacity(2) - 1
    BY TwoByteRoom
  <2>2. Capacity(2) <= Capacity(4) /\ Capacity(4) \in Nat
    <3>1. 2 \in Nat /\ 4 \in Nat /\ 2 <= 4
      OBVIOUS
    <3> QED BY <3>1, CapacityMonotonic, CapacityFacts
  <2> QED BY <1>1, <1>3, <2>1, <2>2
<1>5. WordAt(c, 0, e) = 1 /\ WordAt(c, 4, e) = l.port
  <2>1. Capacity(4) \in Nat \ {0} /\ 1 \in Nat /\ 1 < Capacity(4)
    BY FractionAssumption
  <2>2. 1 % Capacity(4) = 1 /\ l.port % Capacity(4) = l.port
    BY <1>4, <2>1, SmallRemainder
  <2> QED BY <1>2, <2>2
<1> HIDE DEF c
<1>6. /\ ReadWords(Reader(c, e), 2) = At(c, e, 8, words)
      /\ words \in Seq(Values) /\ Len(words) = 2
      /\ words[1] = 1 /\ words[2] = l.port
  <2>1. 8 <= Len(c)
    BY <1>2
  <2> QED BY <1>2, <1>5, <2>1, TwoWords
<1> HIDE DEF words
<1>7. /\ ReadBytes(At(c, e, 8, words), 16) = At(c, e, 8 + 16, Append(words, part))
      /\ part \in Seq(Bytes) /\ part \in Values
  <2>1. 8 \in Nat /\ 16 \in Nat /\ 8 + 16 <= Len(c)
    BY <1>2
  <2> QED BY <1>2, <1>6, <2>1, BytesRead
<1> HIDE DEF part
<1>8. r = At(c, e, 8 + 16, Append(words, part))
  BY <1>6, <1>7
<1>9. /\ Append(words, part)[1] = 1 /\ Append(words, part)[2] = l.port
      /\ Append(words, part)[3] = part
  <2>1. words \in Seq(Values) /\ part \in Values
    BY <1>6, <1>7
  <2> DEFINE all == Append(words, part)
             two == Len(words)
  <2>2. all[two + 1] = part
    BY <2>1, Appended
  <2>3. \A i \in 1..two : all[i] = words[i]
    BY <2>1, Appended
  <2>4. two = 2
    BY <1>6
  <2> HIDE DEF all, two
  <2>5. all[3] = part /\ all[1] = words[1] /\ all[2] = words[2]
    BY <2>2, <2>3, <2>4
  <2> QED BY <1>6, <2>5 DEF all
<1> HIDE DEF r
<1>10. r.valid /\ r.read = Append(words, part)
  BY <1>8 DEF At
<1>11. r.read[1] = 1 /\ r.read[2] = l.port /\ r.read[3] = part
  BY <1>9, <1>10
<1>12. SubSeq(part, 1, 12) = Zeros(12) /\ SubSeq(part, 13, 16) = l.address
  <2>1. Piece(c, 8, 16) = part
    BY DEF Piece, part
  <2>2. ASSUME NEW o \in {8}, NEW k \in {16}, NEW m \in {0, 12}, NEW n \in {4, 12}, m + n <= k,
               NEW place \in Nat, place = o + m
        PROVE  Piece(c, place, n) = Piece(part, m, n)
    <3>1. /\ c \in Seq(Bytes) /\ o \in Nat /\ k \in Nat /\ o + k <= Len(c)
          /\ m \in Nat /\ n \in Nat
      BY <1>2
    <3>2. Piece(c, place, n) = Piece(Piece(c, o, k), m, n)
      BY <2>2, <3>1, PieceOfPiece
    <3> QED BY <2>1, <3>2
  <2>3. 8 + 0 = 8 /\ 8 + 12 = 20 /\ 0 + 12 <= 16 /\ 12 + 4 <= 16 /\ 8 \in Nat /\ 20 \in Nat
    OBVIOUS
  <2>4. Piece(c, 8, 12) = Piece(part, 0, 12)
    BY <2>2, <2>3
  <2>5. Piece(c, 20, 4) = Piece(part, 12, 4)
    BY <2>2, <2>3
  <2>6. Piece(part, 0, 12) = SubSeq(part, 1, 12) /\ Piece(part, 12, 4) = SubSeq(part, 13, 16)
    BY DEF Piece
  <2> QED BY <1>2, <2>4, <2>5, <2>6
<1>13. DecodeLocator(c, e)
         = Accept([address |-> SubSeq(r.read[3], 13, 16), port |-> r.read[2]])
  BY <1>4, <1>10, <1>11, <1>12 DEF DecodeLocator, r
<1> QED BY <1>3, <1>11, <1>12, <1>13 DEF c

-----------------------------------------------------------------------------
(* A lease decodes to a neighbour of itself; a string to itself.           *)

LEMMA FractionFits ==
  ASSUME NEW ms \in Nat
  PROVE  Fraction(ms) \in 0..Capacity(4) - 1
<1> DEFINE C == Capacity(4)
           rest == ms % 1000
           f == Fraction(ms)
<1>1. C \in Nat /\ rest \in 0..999 /\ rest * C \in Nat
  BY FractionAssumption
<1>2. f = (rest * C) \div 1000
  BY DEF Fraction
<1> HIDE DEF C, rest, f
<1>3. f \in Nat /\ f * 1000 <= rest * C
  BY <1>1, <1>2, Quotient
<1>4. rest * C <= 999 * C /\ C >= 1000
  BY <1>1, FractionAssumption, Z3 DEF C
<1>5. f < C
  BY <1>1, <1>3, <1>4
<1> QED BY <1>1, <1>3, <1>5 DEF C, f

LEMMA DurationBack ==
  ASSUME NEW ms \in Int \ {1}, ValidDuration(ms), NEW e \in Endiannesses
  PROVE  LET back == Milliseconds(ms \div 1000, Fraction(ms)) IN
         /\ DecodeDuration(PadBytes(EncodeDuration(ms, e)), e) = Accept(back)
         /\ back \in {ms - 1, ms}
<1> DEFINE s == ms \div 1000
           f == Fraction(ms)
           v == <<s, f>>
           c == PadBytes(WriteWords(<<>>, v, e))
           words == WordsAt(c, 0, 2, e)
           r == ReadWords(Reader(c, e), 2)
           back == Milliseconds(s, f)
           C == Capacity(4)
<1>1. ms \in Nat /\ ms > 1 /\ s \in Nat /\ s <= MaxSeconds
  BY DEF ValidDuration
<1>2. f \in Nat /\ f < C /\ C \in Nat \ {0}
  BY <1>1, FractionFits, FractionAssumption
<1>3. s < C
  <2>1. MaxSeconds = C \div 2 - 1
    BY DEF MaxSeconds
  <2>2. C \div 2 <= C
    <3> HIDE DEF C
    <3> QED BY <1>2
  <2>3. C \div 2 \in Int
    <3> HIDE DEF C
    <3> QED BY <1>2
  <2> HIDE DEF C, s
  <2> QED BY <1>1, <1>2, <2>1, <2>2, <2>3
<1>4. back \in {ms - 1, ms}
  BY <1>1, LeaseSurvives
<1>5. PadBytes(EncodeDuration(ms, e)) = c
  BY DEF EncodeDuration
<1>6. v \in Seq(Int) /\ Len(v) = 2 /\ Len(v) > 0 /\ v[1] = s /\ v[2] = f
  BY <1>1, <1>2
<1> HIDE DEF v, s, f, C
<1>7. c \in Seq(Bytes) /\ Len(c) = 4 * Len(v)
  <2> HIDE DEF c
  <2>1. c \in Seq(Bytes)
    BY <1>6, FirstWord DEF c
  <2>2. Len(c) = 4 * Len(v)
    BY <1>6, FirstWord DEF c
  <2> QED BY <2>1, <2>2
<1>8. \A j \in 1..Len(v), place \in Nat :
         place = 4 * (j - 1) => WordAt(c, place, e) = v[j] % Capacity(4)
  <2> HIDE DEF c
  <2>1. c = PadBytes(WriteWords(<<>>, v, e))
    BY DEF c
  <2>2. v \in Seq(Int) /\ Len(v) > 0
    BY <1>6
  <2> QED BY <2>1, <2>2, FirstWord
<1> HIDE DEF c
<1>9. WordAt(c, 0, e) = s % C
  <2>1. 1 \in 1..Len(v) /\ 0 \in Nat /\ 0 = 4 * (1 - 1)
    BY <1>6
  <2> QED BY <1>6, <1>8, <2>1 DEF C
<1>10. WordAt(c, 4, e) = f % C
  <2>1. 2 \in 1..Len(v) /\ 4 \in Nat /\ 4 = 4 * (2 - 1)
    BY <1>6
  <2> QED BY <1>6, <1>8, <2>1 DEF C
<1>11. s % C = s /\ f % C = f
  BY <1>1, <1>2, <1>3, SmallRemainder
<1>12. r = At(c, e, 8, words) /\ words[1] = s /\ words[2] = f
  <2>1. 8 <= Len(c)
    BY <1>6, <1>7
  <2> QED BY <1>7, <1>9, <1>10, <1>11, <2>1, TwoWords
<1> HIDE DEF words, r
<1>13. r.valid /\ r.read = words
  BY <1>12 DEF At
<1>14. r.read[1] = s /\ r.read[2] = f
  BY <1>12, <1>13
<1>15. back > 0
  <2> HIDE DEF back
  <2> QED BY <1>1, <1>4
<1>16. DecodeDuration(c, e) = Accept(back)
  <2>1. /\ r.valid /\ r.read[1] <= MaxSeconds
        /\ Milliseconds(r.read[1], r.read[2]) = back /\ back > 0
    BY <1>1, <1>13, <1>14, <1>15
  <2> HIDE DEF back
  <2> QED BY <2>1 DEF DecodeDuration, r
<1> QED BY <1>4, <1>5, <1>16 DEF s, f

LEMMA StringParts ==
  ASSUME NEW value \in Seq(Bytes), NEW e \in Endiannesses, NEW k \in Nat, NEW c,
         c = WriteString(<<>>, value, e) \o Zeros(k), Len(value) + 1 < Capacity(4)
  PROVE  LET n == Len(value) + 1 IN
         /\ c \in Seq(Bytes) /\ Len(c) = (4 + n) + k
         /\ WordAt(c, 0, e) = n
         /\ Piece(c, 4, n) = Append(value, 0)
         /\ Piece(c, 4 + n, k) = Zeros(k)
<1> DEFINE n == Len(value) + 1
           size == ToBytes(n, 4, e)
           text == Append(value, 0)
           w == WriteString(<<>>, value, e)
           z == Zeros(k)
<1>1. /\ w = size \o text /\ size \in Seq(Bytes) /\ Len(size) = 4
      /\ text \in Seq(Bytes) /\ Len(text) = n /\ n \in Nat
  BY StringEncoded
<1>2. z \in Seq(Bytes) /\ Len(z) = k
  BY ZerosType
<1>3. FromBytes(size, e) = n
  <2>1. n \in Nat /\ n \in Int /\ 4 \in Nat
    BY <1>1
  <2>2. Capacity(4) \in Nat \ {0}
    BY FractionAssumption
  <2>3. n % Capacity(4) = n
    BY <2>1, <2>2, SmallRemainder
  <2> QED BY <2>1, <2>3, FromToBytes
<1> HIDE DEF size, text, z, w, n
<1>4. LongerBy(w, size, text, 4, n)
  <2>1. 4 \in Nat
    OBVIOUS
  <2>2. LongerBy(size \o text, size, text, 4, n)
    BY <1>1, <2>1, LongerPieces
  <2> QED BY <1>1, <2>2
<1>5. 4 + n \in Nat /\ w \in Seq(Bytes) /\ Len(w) = 4 + n
  BY <1>1, <1>4 DEF LongerBy
<1>6. LongerBy(c, w, z, 4 + n, k)
  <2>1. LongerBy(w \o z, w, z, 4 + n, k)
    BY <1>2, <1>5, LongerPieces
  <2> QED BY <2>1 DEF w, z
<1>7. /\ Piece(c, 0, 4) = Piece(w, 0, 4) /\ Piece(c, 4, n) = Piece(w, 4, n)
      /\ Piece(w, 0, 4) = Piece(size, 0, 4)
  <2>1. 0 \in Nat /\ 4 \in Nat /\ 0 + 4 <= 4 + n /\ 4 + n <= 4 + n /\ 0 + 4 <= 4
    BY <1>1
  <2> QED BY <1>1, <1>4, <1>6, <2>1 DEF LongerBy
<1>8. Piece(size, 0, 4) = size
  BY <1>1, WholePiece
<1>9. WordAt(c, 0, e) = FromBytes(Piece(c, 0, 4), e)
  BY DEF WordAt, Piece
<1>10. /\ c \in Seq(Bytes) /\ Len(c) = (4 + n) + k /\ Piece(c, 4 + n, k) = z
  BY <1>6 DEF LongerBy
<1>11. Piece(w, 4, n) = text
  BY <1>4 DEF LongerBy
<1> QED BY <1>3, <1>7, <1>8, <1>9, <1>10, <1>11 DEF n, text, z

-----------------------------------------------------------------------------
(* A string as a message decodes to itself.                                *)

(* A string with up to three zero bytes behind it is read as it was        *)
(* written.                                                                *)
LEMMA StringRead ==
  ASSUME NEW value \in Seq(Bytes), NEW e \in Endiannesses, NEW k \in 0..3, NEW c,
         c = WriteString(<<>>, value, e) \o Zeros(k), Len(value) + 1 < Capacity(4)
  PROVE  LET r == OnlyZeroPadding(ReadString(Reader(c, e))) IN
         r.valid /\ r.read = <<value>>
<1> DEFINE n == Len(value) + 1
           text == Append(value, 0)
           sized == Read(Reader(c, e), 4)
           string == ReadString(Reader(c, e))
<1>1. k \in Nat /\ k <= 3 /\ n \in Nat /\ n # 0
  OBVIOUS
<1>2. /\ c \in Seq(Bytes) /\ Len(c) = (4 + n) + k
      /\ WordAt(c, 0, e) = n
      /\ Piece(c, 4, n) = text
      /\ Piece(c, 4 + n, k) = Zeros(k)
  BY <1>1, StringParts, ZenonT(60)
<1>3. Len(text) = n /\ text[n] = 0 /\ Front(text) = value
  <2>1. value \in Seq(Nat) /\ 0 \in Nat
    BY BytesAreNumbers
  <2>2. Len(Append(value, 0)) = Len(value) + 1 /\ Append(value, 0)[Len(value) + 1] = 0
    BY <2>1, Appended
  <2>3. Front(text) = value
    BY <2>1 DEF Front
  <2> QED BY <2>2, <2>3
<1>4. text # <<>> /\ Last(text) = 0
  <2>1. text # <<>>
    BY <1>1, <1>3
  <2> QED BY <1>3 DEF Last
<1> HIDE DEF n, text
<1>5. sized = At(c, e, 4, <<n>>)
  <2>1. 4 <= Len(c)
    BY <1>1, <1>2
  <2> QED BY <1>2, <2>1, WordFirst
<1> HIDE DEF sized
<1>6. /\ sized.valid /\ sized.offset = 4 /\ sized.bytes = c /\ sized.read = <<n>>
      /\ Last(sized.read) = n /\ Front(sized.read) = <<>>
  BY <1>5 DEF At, Last, Front
<1>7. string = StringBehind(sized, n)
  BY <1>6 DEF ReadString, sized
<1>8. Slice(sized, n) = text
  BY <1>2, <1>6 DEF Slice, Piece
<1>9. Requires(sized, n)
  <2>1. n <= Len(c) - 4
    BY <1>1, <1>2
  <2> QED BY <1>6, <2>1 DEF Requires
<1>10. string = [sized EXCEPT !.offset = sized.offset + n,
                              !.read = Append(Front(sized.read), Front(Slice(sized, n)))]
  BY <1>1, <1>4, <1>6, <1>7, <1>8, <1>9 DEF StringBehind
<1>11. string = [sized EXCEPT !.offset = 4 + n, !.read = Append(<<>>, value)]
  BY <1>3, <1>6, <1>8, <1>10
<1>12. string = At(c, e, 4 + n, <<value>>)
  <2> DEFINE next == 4 + n
             one == <<value>>
  <2>1. /\ sized.offset = 4 /\ sized.bytes = c /\ sized.valid /\ sized.endianness = e
        /\ sized = At(c, e, 4, <<n>>)
    BY <1>5 DEF At
  <2>2. Append(<<>>, value) = one
    OBVIOUS
  <2>3. string = [sized EXCEPT !.offset = next, !.read = one]
    BY <1>11, <2>2
  <2> HIDE DEF next, one, string
  <2>4. string = At(c, e, next, one)
    BY <2>1, <2>3 DEF At
  <2> QED BY <2>4 DEF next, one
<1> HIDE DEF string
<1>13. /\ string.valid /\ string.offset = 4 + n /\ string.bytes = c /\ string.read = <<value>>
  BY <1>12 DEF At
<1>14. Remaining(string) = k
  <2>1. Len(c) - (4 + n) = k
    BY <1>1, <1>2
  <2> QED BY <1>13, <2>1 DEF Remaining
<1>15. Slice(string, k) = Zeros(k)
  BY <1>2, <1>13 DEF Slice, Piece
<1>16. Len(Zeros(k)) = k
  BY <1>1, ZerosType
<1>17. OnlyZeroPadding(string) = string
  BY <1>1, <1>13, <1>14, <1>15, <1>16 DEF OnlyZeroPadding
<1> QED BY <1>13, <1>17 DEF string

(* The value of a parameter that is a string.                              *)
LEMMA TextBack ==
  ASSUME NEW value \in Seq(Bytes), NEW e \in Endiannesses,
         AlignedSize(Len(EncodeString(value, e))) < Capacity(2)
  PROVE  DecodeString(PadBytes(EncodeString(value, e)), e) = Accept(value)
<1> DEFINE w == WriteString(<<>>, value, e)
           k == Padding(4, Len(w))
           c == w \o Zeros(k)
           r == OnlyZeroPadding(ReadString(Reader(c, e)))
<1>1. w \in Seq(Bytes) /\ Len(w) = 4 + (Len(value) + 1) /\ Len(value) \in Nat
  BY StringEncoded
<1>2. k \in 0..3
  <2>1. 4 \in Nat \ {0} /\ Len(w) \in Nat
    BY <1>1
  <2>2. k \in 0..4 - 1
    <3> HIDE DEF w
    <3> QED BY <2>1, PaddingType
  <2> QED BY <2>2
<1>3. EncodeString(value, e) = w
  BY DEF EncodeString
<1>4. PadBytes(EncodeString(value, e)) = c
  BY <1>3 DEF PadBytes
<1>5. Len(value) + 1 < Capacity(4)
  <2>1. Capacity(2) <= Capacity(4) /\ Capacity(4) \in Nat /\ Capacity(2) \in Nat
    <3>1. 2 \in Nat /\ 4 \in Nat /\ 2 <= 4
      OBVIOUS
    <3> QED BY <3>1, CapacityMonotonic, CapacityFacts
  <2>2. Len(w) <= AlignedSize(Len(w)) /\ AlignedSize(Len(w)) \in Nat
    <3> HIDE DEF w
    <3> QED BY <1>1, PadBytesType
  <2>3. AlignedSize(Len(w)) < Capacity(2)
    BY <1>3
  <2> HIDE DEF w
  <2> QED BY <1>1, <2>1, <2>2, <2>3
<1>6. r.valid /\ r.read = <<value>>
  <2>1. c = WriteString(<<>>, value, e) \o Zeros(k)
    OBVIOUS
  <2> HIDE DEF c, k
  <2> QED BY <1>2, <1>5, <2>1, StringRead
<1> HIDE DEF r, c
<1>7. r.read[1] = value
  BY <1>6
<1>8. DecodeString(c, e) = Accept(r.read[1])
  BY <1>6 DEF DecodeString, r
<1> QED BY <1>4, <1>7, <1>8

(* The payload of a string sample.                                         *)
LEMMA StringRepresentationChosen ==
  ASSUME NEW e \in Endiannesses
  PROVE  {x \in Endiannesses : StringRepresentation(e) = StringRepresentation(x)} = {e}
<1>1. e = "little" \/ e = "big"
  BY DEF Endiannesses
<1>2. StringRepresentation("little") = <<0, 1>> /\ StringRepresentation("big") = <<0, 0>>
  BY DEF StringRepresentation
<1>3. <<0, 1>> # <<0, 0>> /\ "little" # "big"
  OBVIOUS
<1> QED BY <1>1, <1>2, <1>3 DEF Endiannesses

LEMMA BytesAssociate ==
  \A s, t, u \in Seq(Bytes) : (s \o t) \o u = s \o (t \o u)
<1> TAKE s, t, u \in Seq(Bytes)
<1> QED BY Associative

LEMMA PayloadBack ==
  ASSUME NEW value \in Seq(Bytes), NEW e \in Endiannesses, NEW k \in 0..3, NEW payload,
         payload = SerializeString(value, e) \o Zeros(k), Len(value) + 1 < Capacity(4)
  PROVE  /\ DeserializeString(payload).valid
         /\ DeserializeString(payload).read[1] = value
<1> DEFINE head == StringRepresentation(e) \o <<0, 0>>
           w == WriteString(<<>>, value, e)
           z == Zeros(k)
           c == w \o z
           n == Len(payload)
           r == OnlyZeroPadding(ReadString(Reader(c, e)))
<1>1. /\ SerializeString(value, e) = head \o w
      /\ head \in Seq(Bytes) /\ Len(head) = 4
      /\ SubSeq(head, 1, 2) = StringRepresentation(e)
  BY StringSerialized
<1>2. w \in Seq(Bytes)
  BY StringEncoded
<1>3. z \in Seq(Bytes)
  <2>1. k \in Nat
    OBVIOUS
  <2> QED BY <2>1, ZerosType
<1>4. r.valid /\ r.read = <<value>>
  <2> HIDE DEF c
  <2>1. c = WriteString(<<>>, value, e) \o Zeros(k)
    BY DEF c
  <2> QED BY <2>1, StringRead
<1> HIDE DEF head, w, z, r
<1>5. payload = head \o c
  <2>1. (head \o w) \o z = head \o (w \o z)
    <3>1. head \in Seq(Bytes)
      BY <1>1
    <3> QED BY <1>2, <1>3, <3>1, BytesAssociate, Zenon
  <2>2. payload = (head \o w) \o z
    BY <1>1 DEF z
  <2> QED BY <2>1, <2>2
<1>6. c \in Seq(Bytes)
  BY <1>2, <1>3, Concatenation
<1> HIDE DEF c
<1>7. LongerBy(head \o c, head, c, 4, Len(c)) /\ Len(c) \in Nat
  <2>1. 4 \in Nat /\ Len(c) \in Nat
    BY <1>6
  <2> QED BY <1>1, <1>6, <2>1, LongerPieces
<1>8. LongerBy(payload, head, c, 4, Len(c))
  BY <1>5, <1>7
<1>9. n = 4 + Len(c) /\ Piece(payload, 4, Len(c)) = c /\ Piece(payload, 0, 2) = Piece(head, 0, 2)
  <2>1. 0 \in Nat /\ 2 \in Nat /\ 0 + 2 <= 4
    OBVIOUS
  <2> QED BY <1>8, <2>1 DEF LongerBy
<1>10. SubSeq(payload, 1, 2) = StringRepresentation(e)
  <2>1. Piece(payload, 0, 2) = SubSeq(payload, 1, 2) /\ Piece(head, 0, 2) = SubSeq(head, 1, 2)
    BY DEF Piece
  <2> QED BY <1>1, <1>9, <2>1
<1>11. SubSeq(payload, 5, n) = c
  <2>1. Piece(payload, 4, Len(c)) = SubSeq(payload, 4 + 1, 4 + Len(c))
    BY DEF Piece
  <2> QED BY <1>9, <2>1
<1> HIDE DEF n
<1>12. {x \in Endiannesses : SubSeq(payload, 1, 2) = StringRepresentation(x)} = {e}
  BY <1>10, StringRepresentationChosen
<1>13. (CHOOSE x \in {e} : TRUE) = e
  OBVIOUS
<1>14. ~(n < 4) /\ {e} # {}
  BY <1>7, <1>9
<1>15. DeserializeString(payload) = r
  BY <1>11, <1>12, <1>13, <1>14 DEF DeserializeString, r, n
<1> QED BY <1>4, <1>15

-----------------------------------------------------------------------------
(* Each field of an announcement decodes back.                             *)

(* Each kind of value has its decoder.                                     *)
LEMMA Decoders ==
  ASSUME NEW x, NEW e
  PROVE  /\ \A n \in {"participant_guid", "endpoint_guid"} : DecodeValue(n, x, e) = DecodeGuid(x, e)
         /\ \A n \in {"metatraffic", "user", "unicast"} : DecodeValue(n, x, e) = DecodeLocator(x, e)
         /\ \A n \in {"version", "vendor"} : DecodeValue(n, x, e) = DecodePair(x, e)
         /\ \A n \in {"name", "topic", "type"} : DecodeValue(n, x, e) = DecodeString(x, e)
         /\ DecodeValue("builtin", x, e) = DecodeUint32(x, e)
         /\ DecodeValue("lease", x, e) = DecodeDuration(x, e)
         /\ DecodeValue("reliability", x, e) = DecodeReliability(x, e)
BY DEF DecodeValue

(* What the value of a parameter may come back as.                         *)
Near(d, n, v) == IF n = "lease" THEN v \in {d.lease - 1, d.lease} ELSE v = d[n]

LEMMA NearItself ==
  ASSUME NEW d, NEW n, n # "lease"
  PROVE  Near(d, n, d[n])
BY DEF Near

LEMMA ParticipantFieldBack ==
  ASSUME NEW d \in Participants, Announceable(d), NEW e \in Endiannesses,
         NEW n \in Names(d), AlignedSize(Len(FieldBytes(d, n, e))) < Capacity(2)
  PROVE  \E v : DecodeValue(n, PadBytes(FieldBytes(d, n, e)), e) = Accept(v) /\ Near(d, n, v)
<1>1. n \in {"participant_guid", "metatraffic", "user", "version", "vendor", "builtin",
             "lease", "name"}
  BY ParticipantShape DEF Names, Mandatory, Optional
<1>2. ValidLocator(d.metatraffic) /\ ValidLocator(d.user) /\ ValidDuration(d.lease)
  BY ParticipantShape DEF Announceable
<1>3. CASE n = "participant_guid"
  <2>1. FieldBytes(d, n, e) = d[n] /\ d[n] \in BytesOf(16)
    BY <1>3, ParticipantShape, FieldBytesOf
  <2>2. DecodeValue(n, PadBytes(FieldBytes(d, n, e)), e) = Accept(d[n])
    BY <1>3, <2>1, Decoders, GuidBack
  <2> QED BY <1>3, <2>2, NearItself
<1>4. CASE n \in {"metatraffic", "user"}
  <2>1. FieldBytes(d, n, e) = EncodeLocator(d[n], e) /\ d[n] \in Locators /\ ValidLocator(d[n])
    BY <1>2, <1>4, ParticipantShape, FieldBytesOf
  <2>2. DecodeValue(n, PadBytes(FieldBytes(d, n, e)), e) = Accept(d[n])
    BY <1>4, <2>1, Decoders, LocatorBack
  <2> QED BY <1>4, <2>2, NearItself
<1>5. CASE n \in {"version", "vendor"}
  <2>1. FieldBytes(d, n, e) = d[n] /\ d[n] \in BytesOf(2)
    BY <1>5, ParticipantShape, FieldBytesOf
  <2>2. DecodeValue(n, PadBytes(FieldBytes(d, n, e)), e) = Accept(d[n])
    BY <1>5, <2>1, Decoders, PairBack
  <2> QED BY <1>5, <2>2, NearItself
<1>6. CASE n = "builtin"
  <2>1. FieldBytes(d, n, e) = WriteWords(<<>>, <<d[n]>>, e) /\ d[n] \in 0..Capacity(4) - 1
    BY <1>6, ParticipantShape, FieldBytesOf
  <2>2. DecodeValue(n, PadBytes(FieldBytes(d, n, e)), e) = Accept(d[n])
    BY <1>6, <2>1, Decoders, Uint32Back
  <2> QED BY <1>6, <2>2, NearItself
<1>7. CASE n = "lease"
  <2> DEFINE back == Milliseconds(d.lease \div 1000, Fraction(d.lease))
  <2>1. DecodeDuration(PadBytes(EncodeDuration(d.lease, e)), e) = Accept(back)
        /\ back \in {d.lease - 1, d.lease}
    BY <1>2, ParticipantShape, DurationBack
  <2> HIDE DEF back
  <2>2. DecodeValue(n, PadBytes(FieldBytes(d, n, e)), e) = Accept(back)
    BY <1>7, <2>1, FieldBytesOf, Decoders
  <2> QED BY <1>7, <2>1, <2>2 DEF Near
<1>8. CASE n = "name"
  <2>1. FieldBytes(d, n, e) = EncodeString(d.name, e) /\ d.name \in Seq(Bytes) /\ d[n] = d.name
    BY <1>8, ParticipantShape, FieldBytesOf
  <2>2. DecodeValue(n, PadBytes(FieldBytes(d, n, e)), e) = Accept(d[n])
    BY <1>8, <2>1, Decoders, TextBack
  <2> QED BY <1>8, <2>2, NearItself
<1> QED BY <1>1, <1>3, <1>4, <1>5, <1>6, <1>7, <1>8

LEMMA EndpointFieldBack ==
  ASSUME NEW d \in Endpoints, Announceable(d), NEW e \in Endiannesses,
         NEW n \in Names(d), AlignedSize(Len(FieldBytes(d, n, e))) < Capacity(2)
  PROVE  \E v : DecodeValue(n, PadBytes(FieldBytes(d, n, e)), e) = Accept(v) /\ Near(d, n, v)
<1>1. n \in {"endpoint_guid", "participant_guid", "topic", "type", "unicast", "reliability"}
  BY EndpointShape DEF Names, Mandatory, Optional
<1>2. ValidLocator(d.unicast)
  BY EndpointShape DEF Announceable
<1>3. CASE n \in {"endpoint_guid", "participant_guid"}
  <2>1. FieldBytes(d, n, e) = d[n] /\ d[n] \in BytesOf(16)
    BY <1>3, EndpointShape, FieldBytesOf
  <2>2. DecodeValue(n, PadBytes(FieldBytes(d, n, e)), e) = Accept(d[n])
    BY <1>3, <2>1, Decoders, GuidBack
  <2> QED BY <1>3, <2>2, NearItself
<1>4. CASE n = "unicast"
  <2>1. FieldBytes(d, n, e) = EncodeLocator(d[n], e) /\ d[n] \in Locators /\ ValidLocator(d[n])
    BY <1>2, <1>4, EndpointShape, FieldBytesOf
  <2>2. DecodeValue(n, PadBytes(FieldBytes(d, n, e)), e) = Accept(d[n])
    BY <1>4, <2>1, Decoders, LocatorBack
  <2> QED BY <1>4, <2>2, NearItself
<1>5. CASE n \in {"topic", "type"}
  <2>1. FieldBytes(d, n, e) = EncodeString(d[n], e) /\ d[n] \in Seq(Bytes)
    BY <1>5, EndpointShape, FieldBytesOf
  <2>2. DecodeValue(n, PadBytes(FieldBytes(d, n, e)), e) = Accept(d[n])
    BY <1>5, <2>1, Decoders, TextBack
  <2> QED BY <1>5, <2>2, NearItself
<1>6. CASE n = "reliability"
  <2>1. FieldBytes(d, n, e) = EncodeReliability(d[n], e) /\ d[n] \in BOOLEAN
    BY <1>6, EndpointShape, FieldBytesOf
  <2>2. DecodeValue(n, PadBytes(FieldBytes(d, n, e)), e) = Accept(d[n])
    BY <1>6, <2>1, Decoders, ReliabilityBack
  <2> QED BY <1>6, <2>2, NearItself
<1> QED BY <1>1, <1>3, <1>4, <1>5, <1>6

(* A field of a faithful list, as the decoder finds it.                    *)
LEMMA FieldFound ==
  ASSUME NEW d \in Announcements, NEW e \in Endiannesses, NEW K, Faithful(K, d, e),
         \A p \in Elements(K), n \in Names(d) :
            p.id = Pid[n] => p.value = PadBytes(FieldBytes(d, n, e)),
         NEW n \in Names(d), FieldBytes(d, n, e) \in Seq(Bytes),
         NEW list, list = [valid |-> TRUE, endianness |-> e, parameters |-> K]
  PROVE  \/ /\ DecodeField(list, n) = DecodeValue(n, PadBytes(FieldBytes(d, n, e)), e)
            /\ AlignedSize(Len(FieldBytes(d, n, e))) < Capacity(2)
         \/ n \in Omissible(d) /\ DecodeField(list, n) = Absent
<1> DEFINE found == Matching(K, Pid[n])
<1>1. K \in Seq(Fitting) /\ Len(K) \in Nat /\ DOMAIN K = 1..Len(K)
  BY DEF Faithful
<1>2. found \subseteq 1..Len(K) /\ \A i \in found : K[i].id = Pid[n] /\ K[i] \in Elements(K)
  BY <1>1 DEF Matching, Elements
<1>3. DecodeField(list, n) = IF found = {} THEN Absent
                             ELSE DecodeValue(n, K[Min(found)].value, e)
  BY DEF DecodeField
<1>4. \A p \in Elements(K) : p \in Fitting /\ \E i \in 1..Len(K) : p = K[i]
  BY <1>1 DEF Elements
<1>5. CASE found = {}
  <2>1. \A p \in Elements(K) : p.id # Pid[n]
    BY <1>1, <1>4, <1>5 DEF Matching
  <2>2. n \in Omissible(d)
    BY <2>1 DEF Faithful
  <2> QED BY <1>3, <1>5, <2>2
<1>6. CASE found # {}
  <2> HIDE DEF found
  <2>1. Min(found) \in found
    BY <1>1, <1>2, <1>6, MinIsIn
  <2> DEFINE p == K[Min(found)]
  <2>2. p \in Elements(K) /\ p.id = Pid[n] /\ p \in Fitting
    BY <1>2, <1>4, <2>1
  <2>3. p.value = PadBytes(FieldBytes(d, n, e))
    BY <2>2
  <2>4. AlignedSize(Len(p.value)) < Capacity(2)
    BY <2>2 DEF Fitting
  <2>5. AlignedSize(Len(PadBytes(FieldBytes(d, n, e)))) = AlignedSize(Len(FieldBytes(d, n, e)))
    <3> DEFINE v == FieldBytes(d, n, e)
    <3>1. /\ PadBytes(v) \in Seq(Bytes) /\ Len(PadBytes(v)) % 4 = 0
          /\ Len(PadBytes(v)) = AlignedSize(Len(v))
      BY PadBytesType
    <3> HIDE DEF v
    <3>2. AlignedSize(Len(PadBytes(v))) = Len(PadBytes(v))
      BY <3>1, PaddedOnce
    <3> QED BY <3>1, <3>2 DEF v
  <2>6. DecodeField(list, n) = DecodeValue(n, p.value, e)
    BY <1>3, <1>6
  <2> QED BY <2>3, <2>4, <2>5, <2>6
<1> QED BY <1>5, <1>6

-----------------------------------------------------------------------------
(* A list that says what the announcement says decodes to it.              *)

LEMMA FieldBytesType ==
  ASSUME NEW d \in Announcements, NEW e \in Endiannesses, NEW n \in Names(d)
  PROVE  FieldBytes(d, n, e) \in Seq(Bytes)
<1>1. \A l \in Locators : EncodeLocator(l, e) \in Seq(Bytes)
  BY LocatorEncoded
<1>2. \A s \in Seq(Bytes) : EncodeString(s, e) \in Seq(Bytes)
  BY StringEncoded DEF EncodeString
<1>3. \A b \in BytesOf(2) \cup BytesOf(16) : b \in Seq(Bytes)
  BY DEF BytesOf
<1>4. ASSUME d \in Participants  PROVE FieldBytes(d, n, e) \in Seq(Bytes)
  <2>1. n \in {"participant_guid", "metatraffic", "user", "version", "vendor", "builtin",
               "lease", "name"}
    BY <1>4, ParticipantShape DEF Names, Mandatory, Optional
  <2>2. CASE n \in {"participant_guid", "version", "vendor"}
    <3>1. FieldBytes(d, n, e) = d[n] /\ d[n] \in BytesOf(2) \cup BytesOf(16)
      BY <1>4, <2>2, ParticipantShape, FieldBytesOf
    <3> QED BY <1>3, <3>1
  <2>3. CASE n \in {"metatraffic", "user"}
    <3>1. FieldBytes(d, n, e) = EncodeLocator(d[n], e) /\ d[n] \in Locators
      BY <1>4, <2>3, ParticipantShape, FieldBytesOf
    <3> QED BY <1>1, <3>1
  <2>4. CASE n = "builtin"
    <3>1. d.builtin \in 0..Capacity(4) - 1 /\ Capacity(4) \in Nat
      BY <1>4, ParticipantShape, FractionAssumption
    <3>2. <<d.builtin>> \in Seq(Int)
      BY <3>1
    <3>3. WriteWords(<<>>, <<d.builtin>>, e) \in Seq(Bytes)
      BY <3>2, WordsOnly
    <3> QED BY <2>4, <3>3, FieldBytesOf
  <2>5. CASE n = "lease"
    <3>1. EncodeDuration(d.lease, e) \in Seq(Bytes)
      BY <1>4, ParticipantShape, DurationEncoded
    <3> QED BY <2>5, <3>1, FieldBytesOf
  <2>6. CASE n = "name"
    <3>1. EncodeString(d.name, e) \in Seq(Bytes)
      BY <1>2, <1>4, ParticipantShape
    <3> QED BY <1>4, <2>6, <3>1, ParticipantShape, FieldBytesOf
  <2> QED BY <2>1, <2>2, <2>3, <2>4, <2>5, <2>6
<1>5. ASSUME d \in Endpoints  PROVE FieldBytes(d, n, e) \in Seq(Bytes)
  <2>1. n \in {"endpoint_guid", "participant_guid", "topic", "type", "unicast", "reliability"}
    BY <1>5, EndpointShape DEF Names, Mandatory, Optional
  <2>2. CASE n \in {"endpoint_guid", "participant_guid"}
    <3>1. FieldBytes(d, n, e) = d[n] /\ d[n] \in BytesOf(2) \cup BytesOf(16)
      BY <1>5, <2>2, EndpointShape, FieldBytesOf
    <3> QED BY <1>3, <3>1
  <2>3. CASE n = "unicast"
    <3>1. FieldBytes(d, n, e) = EncodeLocator(d[n], e) /\ d[n] \in Locators
      BY <1>5, <2>3, EndpointShape, FieldBytesOf
    <3> QED BY <1>1, <3>1
  <2>4. CASE n \in {"topic", "type"}
    <3>1. FieldBytes(d, n, e) = EncodeString(d[n], e) /\ d[n] \in Seq(Bytes)
      BY <1>5, <2>4, EndpointShape, FieldBytesOf
    <3> QED BY <1>2, <3>1
  <2>5. CASE n = "reliability"
    <3>1. EncodeReliability(d.reliability, e) \in Seq(Bytes)
      <4>1. <<IF d.reliability THEN 2 ELSE 1, 0, 0>> \in Seq(Int)
        OBVIOUS
      <4> QED BY <4>1, WordsOnly DEF EncodeReliability
    <3> QED BY <2>5, <3>1, FieldBytesOf
  <2> QED BY <2>1, <2>2, <2>3, <2>4, <2>5
<1> QED BY <1>4, <1>5 DEF Announcements

(* Fields that come back, or are left out where they have their default.   *)
Recovered(d, fields) ==
  /\ DOMAIN fields = Names(d)
  /\ \A n \in Names(d) :
       \/ \E v : fields[n] = Accept(v) /\ Near(d, n, v)
       \/ n \in Omissible(d) /\ fields[n] = Absent

LEMMA DefaultsKept ==
  ASSUME NEW d \in Announcements, NEW fields, Recovered(d, fields), NEW n \in Omissible(d)
  PROVE  Default(n, fields["endpoint_guid"].value) = d[n]
<1>1. n \in Optional[d.kind] /\ d[n] = Default(n, d.endpoint_guid)
  BY DEF Omissible
<1>2. ASSUME d \in Participants  PROVE Default(n, fields["endpoint_guid"].value) = d[n]
  <2>1. n \in {"version", "vendor", "builtin", "lease", "name"}
    BY <1>1, <1>2, ParticipantShape DEF Optional
  <2> QED BY <1>1, <2>1 DEF Default
<1>3. ASSUME d \in Endpoints  PROVE Default(n, fields["endpoint_guid"].value) = d[n]
  <2> DEFINE g == "endpoint_guid"
  <2>1. g \in Names(d) /\ g \notin Omissible(d) /\ g # "lease"
    BY <1>3, EndpointShape DEF Names, Omissible, Mandatory, Optional
  <2>2. PICK v : fields[g] = Accept(v) /\ Near(d, g, v)
    BY <2>1 DEF Recovered
  <2>3. v = d.endpoint_guid /\ fields[g].value = v
    BY <1>3, <2>1, <2>2, EndpointShape DEF Near, Accept
  <2> QED BY <1>1, <2>3
<1> QED BY <1>2, <1>3 DEF Announcements

LEMMA FieldsTaken ==
  ASSUME NEW d \in Announcements, NEW fields, Recovered(d, fields)
  PROVE  \E r : /\ Announcement(d.kind, fields) = r
                /\ r = [f \in Names(d) \cup {"kind"} |-> r[f]]
                /\ r["kind"] = d.kind
                /\ \A n \in Names(d) : Near(d, n, r[n])
<1> DEFINE r == [f \in DOMAIN fields \cup {"kind"} |->
                   IF f = "kind" THEN d.kind
                   ELSE IF fields[f].valid THEN fields[f].value
                   ELSE Default(f, fields["endpoint_guid"].value)]
<1>1. "kind" \notin Names(d) /\ Names(d) = Mandatory[d.kind] \cup Optional[d.kind]
  BY AnnouncementKind DEF Names, Mandatory, Optional
<1>2. \A n \in Mandatory[d.kind] : n \in Names(d) /\ n \notin Omissible(d)
  BY AnnouncementKind DEF Names, Omissible, Mandatory, Optional
<1>3. \A n \in Mandatory[d.kind] : fields[n].valid
  <2> SUFFICES ASSUME NEW n \in Mandatory[d.kind]  PROVE fields[n].valid
    OBVIOUS
  <2>1. PICK v : fields[n] = Accept(v)
    BY <1>2 DEF Recovered
  <2> QED BY <2>1 DEF Accept
<1>4. \A n \in Optional[d.kind] : fields[n].valid \/ fields[n] = Absent
  <2> SUFFICES ASSUME NEW n \in Optional[d.kind]  PROVE fields[n].valid \/ fields[n] = Absent
    OBVIOUS
  <2>1. ASSUME NEW v, fields[n] = Accept(v)  PROVE fields[n].valid
    BY <2>1 DEF Accept
  <2> QED BY <1>1, <2>1 DEF Recovered
<1>5. Announcement(d.kind, fields) = r
  BY <1>3, <1>4 DEF Announcement
<1>6. DOMAIN fields = Names(d)
  BY DEF Recovered
<1>7. r["kind"] = d.kind /\ r = [f \in Names(d) \cup {"kind"} |-> r[f]]
  BY <1>6
<1>8. ASSUME NEW n \in Names(d)  PROVE Near(d, n, r[n])
  <2>1. r[n] = IF fields[n].valid THEN fields[n].value
               ELSE Default(n, fields["endpoint_guid"].value)
    BY <1>1, <1>6
  <2> HIDE DEF r
  <2>2. ASSUME NEW v, fields[n] = Accept(v), Near(d, n, v)  PROVE Near(d, n, r[n])
    BY <2>1, <2>2 DEF Accept
  <2>3. ASSUME n \in Omissible(d), fields[n] = Absent  PROVE Near(d, n, r[n])
    <3>1. r[n] = d[n]
      BY <2>1, <2>3, DefaultsKept DEF Absent
    <3>2. n = "lease" => d[n] = d.lease
      OBVIOUS
    <3> QED BY <3>1, <3>2 DEF Near
  <2> QED BY <2>2, <2>3 DEF Recovered
<1> QED BY <1>5, <1>7, <1>8

(* Such fields make an announcement that means what was announced.         *)
LEMMA FieldsMean ==
  ASSUME NEW d \in Announcements, NEW fields, Recovered(d, fields)
  PROVE  Means(Announcement(d.kind, fields), d)
<1>1. PICK r : /\ Announcement(d.kind, fields) = r
               /\ r = [f \in Names(d) \cup {"kind"} |-> r[f]]
               /\ r["kind"] = d.kind
               /\ \A n \in Names(d) : Near(d, n, r[n])
  BY FieldsTaken
<1>2. ASSUME d \in Participants  PROVE Means(r, d)
  <2> DEFINE names == {"participant_guid", "metatraffic", "user", "version", "vendor",
                       "builtin", "lease", "name"}
             all == names \cup {"kind"}
             other == [f \in all |-> IF f = "lease" THEN r["lease"] ELSE d[f]]
  <2>1. d.kind = "participant" /\ Names(d) = names
    BY <1>2, ParticipantShape DEF Names, Mandatory, Optional
  <2>2. r["lease"] \in {d.lease - 1, d.lease}
    BY <1>1, <2>1 DEF Near
  <2>3. \A f \in all : r[f] = other[f]
    BY <1>1, <2>1 DEF Near
  <2>4. r = [f \in all |-> r[f]]
    BY <1>1, <2>1
  <2>5. r = other
    BY <2>3, <2>4
  <2>6. [r EXCEPT !.lease = d.lease] = d
    BY <1>2, <2>5 DEF Participants
  <2>7. r.lease = r["lease"] /\ r.kind = r["kind"]
    OBVIOUS
  <2> QED BY <1>1, <2>1, <2>2, <2>6, <2>7 DEF Means
<1>3. ASSUME d \in Endpoints  PROVE Means(r, d)
  <2> DEFINE names == {"endpoint_guid", "participant_guid", "topic", "type", "unicast",
                       "reliability"}
             all == names \cup {"kind"}
  <2>1. d.kind = "endpoint" /\ Names(d) = names
    BY <1>3, EndpointShape DEF Names, Mandatory, Optional
  <2>2. \A f \in all : r[f] = d[f]
    BY <1>1, <2>1 DEF Near
  <2>3. r = [f \in all |-> r[f]]
    BY <1>1, <2>1
  <2>4. d = [f \in all |-> d[f]]
    BY <1>3 DEF Endpoints
  <2>5. r = d
    BY <2>2, <2>3, <2>4
  <2> QED BY <2>1, <2>5 DEF Means
<1> QED BY <1>1, <1>2, <1>3 DEF Announcements

(* A list written from what may be announced means that, whatever padding  *)
(* and unknown parameters it holds and whatever default it leaves out.     *)
LEMMA ListBack ==
  ASSUME NEW d \in Announcements, Announceable(d), NEW e \in Endiannesses, NEW w,
         FaithfulWire(w, d, e)
  PROVE  Means(DecodeAnnouncement(w), d)
<1>1. d.kind \in {"participant", "endpoint"}
  BY AnnouncementKind
<1>2. PICK P : Faithful(P, d, e) /\ w = [kind |-> d.kind, bytes |-> EncodeList(P, e)]
  BY DEF FaithfulWire
<1>3. P \in Seq(Fitting) /\ P \in Seq(Parameters)
  BY <1>2, FittingParameters DEF Faithful
<1>4. PICK k : KeptChain(k, P)
  BY <1>3, KeptExists
<1> DEFINE K == k[Len(P)]
           list == [valid |-> TRUE, endianness |-> e, parameters |-> K]
           fields == [f \in Mandatory[d.kind] \cup Optional[d.kind] |-> DecodeField(list, f)]
<1>5. /\ Faithful(K, d, e)
      /\ \A p \in Elements(K), n \in Names(d) :
            p.id = Pid[n] => p.value = PadBytes(FieldBytes(d, n, e))
  BY <1>1, <1>2, <1>4, KeptFaithful
<1>6. DecodeList(EncodeList(P, e)) = list
  BY <1>3, <1>4, ListSurvives
<1>7. w.kind = d.kind /\ w.bytes = EncodeList(P, e)
  BY <1>2
<1>8. list.valid
  OBVIOUS
<1> HIDE DEF K, list
<1>9. DecodeAnnouncement(w) = Announcement(d.kind, fields)
  BY <1>6, <1>7, <1>8 DEF DecodeAnnouncement, DecodeParameters
<1>10. ASSUME NEW n \in Names(d)
       PROVE  \/ \E v : DecodeField(list, n) = Accept(v) /\ Near(d, n, v)
              \/ n \in Omissible(d) /\ DecodeField(list, n) = Absent
  <2>1. FieldBytes(d, n, e) \in Seq(Bytes)
    BY FieldBytesType
  <2>2. list = [valid |-> TRUE, endianness |-> e, parameters |-> K]
    BY DEF list
  <2>3. \/ /\ DecodeField(list, n) = DecodeValue(n, PadBytes(FieldBytes(d, n, e)), e)
           /\ AlignedSize(Len(FieldBytes(d, n, e))) < Capacity(2)
        \/ n \in Omissible(d) /\ DecodeField(list, n) = Absent
    BY <1>5, <2>1, <2>2, FieldFound
  <2>4. AlignedSize(Len(FieldBytes(d, n, e))) < Capacity(2)
          => \E v : DecodeValue(n, PadBytes(FieldBytes(d, n, e)), e) = Accept(v) /\ Near(d, n, v)
    BY ParticipantFieldBack, EndpointFieldBack DEF Announcements
  <2> QED BY <2>3, <2>4
<1>11. Recovered(d, fields)
  BY <1>10 DEF Recovered, Names
<1> QED BY <1>9, <1>11, FieldsMean

-----------------------------------------------------------------------------
(* The encoders accept every message but those that cannot be sent.        *)

LEMMA ControlNumbers ==
  /\ \A m \in Heartbeats : m.first \in Int /\ m.last \in Int /\ m.count \in Int
  /\ \A m \in AckNacks : m.count \in Int
  /\ \A m \in Gaps : m.start \in Int
<1>1. \A n \in {4, 8} : SignedNumbers(n) \subseteq Int
  BY DEF SignedNumbers
<1> QED BY <1>1 DEF Heartbeats, AckNacks, Gaps

(* What endpoints may send and what fits is encoded.                       *)
LEMMA SubmessageAccepted ==
  ASSUME NEW m \in Control \cup Datas, Valid(m), Fits(m), NEW e \in Endiannesses
  PROVE  EncodeMessage(WithBitmap(m), e).kind = m.kind
<1> DEFINE b == WithBitmap(m)
<1>1. /\ m.kind \in {"acknack", "gap"} =>
           b = [m EXCEPT !.set = Filled(m.set)] /\ m.set \in NumberSets
      /\ m.kind \notin {"acknack", "gap"} => b = m
      /\ b.kind = m.kind
  BY BitmapAdded
<1>2. m.kind \in {"heartbeat", "acknack", "gap", "data"}
  BY DEF Control, Heartbeats, AckNacks, Gaps, Datas
<1> HIDE DEF b
<1>3. m.kind \in {"acknack", "gap"} => ValidSet(b.set)
  <2> SUFFICES ASSUME m.kind \in {"acknack", "gap"}  PROVE ValidSet(b.set)
    OBVIOUS
  <2>1. m.set \in NumberSets /\ b = [m EXCEPT !.set = Filled(m.set)]
    BY <1>1
  <2>2. b.set = Filled(m.set)
    BY <2>1 DEF Control, AckNacks, Gaps, Heartbeats, Datas
  <2>3. ValidNumbers(m.set)
    BY DEF Valid
  <2>4. InRange(m.set)
    BY DEF Fits, InRange
  <2>5. m.set.base > 0 /\ m.set.num_bits <= MaxBits
    BY <2>1, <2>3, NumberSetFacts, SubmessagesAssumption DEF ValidNumbers
  <2> QED BY <2>1, <2>2, <2>4, <2>5, FittingSetValid
<1>4. Sound(b)
  <2>1. CASE m.kind = "heartbeat"
    <3>1. m \in Heartbeats
      BY <2>1 DEF Control, AckNacks, Gaps, Heartbeats, Datas
    <3>2. 1 <= m.first /\ m.first <= m.last /\ m.count >= 1
      BY <2>1 DEF Valid
    <3>3. m.first \in Int /\ m.last \in Int /\ m.count \in Int
      BY <3>1, ControlNumbers
    <3>4. m.first > 0 /\ m.last >= m.first /\ m.count > 0
      BY <3>2, <3>3
    <3> QED BY <1>1, <2>1, <3>4 DEF Sound
  <2>2. CASE m.kind = "acknack"
    <3>1. m \in AckNacks
      BY <2>2 DEF Control, AckNacks, Gaps, Heartbeats, Datas
    <3>2. m.count \in Int /\ m.count >= 1
      BY <2>2, <3>1, ControlNumbers DEF Valid
    <3>3. b.count = m.count
      BY <1>1, <2>2, <3>1 DEF AckNacks
    <3>4. b.count > 0
      BY <3>2, <3>3
    <3> QED BY <1>1, <2>2, <3>4 DEF Sound
  <2>3. CASE m.kind = "gap"
    <3>1. m \in Gaps
      BY <2>3 DEF Control, AckNacks, Gaps, Heartbeats, Datas
    <3>2. m.start \in Int /\ 1 <= m.start /\ m.start <= m.set.base /\ m.set.base \in Int
      BY <1>1, <2>3, <3>1, ControlNumbers, NumberSetFacts DEF Valid
    <3>3. b.start = m.start /\ b.set = Filled(m.set)
      BY <1>1, <2>3, <3>1 DEF Gaps
    <3>4. b.set.base = m.set.base
      BY <3>3, FilledFields
    <3>5. b.start > 0 /\ b.set.base >= b.start
      BY <3>2, <3>3, <3>4
    <3> QED BY <1>1, <2>3, <3>5 DEF Sound
  <2>4. CASE m.kind = "data"
    <3>1. m \in Datas
      BY <2>4 DEF Control, AckNacks, Gaps, Heartbeats, Datas
    <3>2. m.sn \in Int /\ m.sn >= 1
      BY <2>4, <3>1, DataFields DEF Valid
    <3>3. m.sn > 0
      BY <3>2
    <3> QED BY <1>1, <2>4, <3>3 DEF Sound
  <2> QED BY <1>2, <2>1, <2>2, <2>3, <2>4
<1>5. b.kind = "data" => Len(ContentOf(b, e)) <= MaxUint16
  <2> SUFFICES ASSUME m.kind = "data"  PROVE Len(ContentOf(b, e)) <= MaxUint16
    BY <1>1
  <2>1. m \in Datas
    BY DEF Control, AckNacks, Gaps, Heartbeats, Datas
  <2>2. Len(ContentOf(b, e)) = 20 + Len(m.payload)
    BY <2>1, DataPlain DEF b
  <2> QED BY <2>2 DEF Fits
<1>6. EncodeMessage(b, e).kind = b.kind
  BY <1>1, <1>3, <1>4, <1>5 DEF EncodeMessage
<1> QED BY <1>1, <1>6 DEF b

LEMMA SmallValues ==
  ASSUME NEW n \in Nat, n <= 24
  PROVE  AlignedSize(n) < Capacity(2)
<1>1. 4 \in Nat \ {0}
  OBVIOUS
<1>2. Padding(4, n) \in 0..3
  <2>1. Padding(4, n) \in 0..4 - 1
    BY <1>1, PaddingType
  <2> QED BY <2>1
<1>3. 28 < Capacity(2) /\ Capacity(2) \in Nat
  BY TwoByteRoom
<1> HIDE DEF Capacity
<1> QED BY <1>2, <1>3 DEF AlignedSize

LEMMA TextFits ==
  ASSUME NEW s \in Seq(Bytes), AlignedSize(4 + Len(s) + 1) <= MaxUint16, NEW e
  PROVE  AlignedSize(Len(EncodeString(s, e))) < Capacity(2)
<1>1. Len(EncodeString(s, e)) = 4 + (Len(s) + 1)
  BY StringEncoded DEF EncodeString
<1>2. 4 + (Len(s) + 1) = 4 + Len(s) + 1 /\ 4 + Len(s) + 1 \in Nat
  OBVIOUS
<1>3. MaxUint16 = Capacity(2) - 1 /\ Capacity(2) \in Nat
  BY TwoByteRoom
<1> DEFINE n == 4 + Len(s) + 1
<1>4. Len(EncodeString(s, e)) = n /\ n \in Nat
  BY <1>1, <1>2
<1> HIDE DEF n
<1>5. AlignedSize(n) \in Int
  <2>1. 4 \in Nat \ {0}
    OBVIOUS
  <2>2. Padding(4, n) \in Int
    BY <1>4, <2>1, PaddingType
  <2> QED BY <1>4, <2>2 DEF AlignedSize
<1>6. AlignedSize(n) <= MaxUint16
  BY DEF n
<1>7. AlignedSize(n) < Capacity(2)
  BY <1>3, <1>5, <1>6
<1> QED BY <1>4, <1>7

(* The values of an announcement that fits have room in their parameters.  *)
LEMMA FieldsFit ==
  ASSUME NEW d \in Announcements, Valid(d), Fits(d), NEW e \in Endiannesses, NEW n \in Names(d)
  PROVE  AlignedSize(Len(FieldBytes(d, n, e))) < Capacity(2)
<1>1. \A l \in Locators : Len(l.address) = 4 => Len(EncodeLocator(l, e)) = 24
  <2> SUFFICES ASSUME NEW l \in Locators, Len(l.address) = 4
               PROVE  Len(EncodeLocator(l, e)) = 24
    OBVIOUS
  <2>1. Len(EncodeLocator(l, e)) = 20 + Len(l.address)
    BY LocatorEncoded
  <2> QED BY <2>1
<1>2. \A b \in BytesOf(2) : Len(b) = 2
  BY DEF BytesOf
<1>3. \A b \in BytesOf(16) : Len(b) = 16
  BY DEF BytesOf
<1>4. \A x \in {2, 4, 8, 12, 16, 24} : AlignedSize(x) < Capacity(2)
  BY SmallValues
<1>5. ASSUME d \in Participants  PROVE AlignedSize(Len(FieldBytes(d, n, e))) < Capacity(2)
  <2>1. n \in {"participant_guid", "metatraffic", "user", "version", "vendor", "builtin",
               "lease", "name"}
    BY <1>5, ParticipantShape DEF Names, Mandatory, Optional
  <2>2. /\ Len(d.metatraffic.address) = 4 /\ Len(d.user.address) = 4
        /\ AlignedSize(4 + Len(d.name) + 1) <= MaxUint16
    BY <1>5, ParticipantShape DEF Fits
  <2>3. CASE n = "participant_guid"
    <3>1. FieldBytes(d, n, e) = d[n] /\ d[n] \in BytesOf(16)
      BY <1>5, <2>3, ParticipantShape, FieldBytesOf
    <3> QED BY <1>3, <1>4, <3>1
  <2>4. CASE n \in {"version", "vendor"}
    <3>1. FieldBytes(d, n, e) = d[n] /\ d[n] \in BytesOf(2)
      BY <1>5, <2>4, ParticipantShape, FieldBytesOf
    <3> QED BY <1>2, <1>4, <3>1
  <2>5. CASE n \in {"metatraffic", "user"}
    <3>1. FieldBytes(d, n, e) = EncodeLocator(d[n], e) /\ d[n] \in Locators
          /\ Len(d[n].address) = 4
      BY <1>5, <2>2, <2>5, ParticipantShape, FieldBytesOf
    <3> QED BY <1>1, <1>4, <3>1
  <2>6. CASE n = "builtin"
    <3>1. d.builtin \in 0..Capacity(4) - 1 /\ Capacity(4) \in Nat
      BY <1>5, ParticipantShape, FractionAssumption
    <3>2. <<d.builtin>> \in Seq(Int) /\ Len(<<d.builtin>>) = 1
      BY <3>1
    <3>3. Len(WriteWords(<<>>, <<d.builtin>>, e)) = 4 * Len(<<d.builtin>>)
      BY <3>2, WordsOnly
    <3>4. Len(FieldBytes(d, n, e)) = 4
      BY <2>6, <3>2, <3>3, FieldBytesOf
    <3> QED BY <1>4, <3>4
  <2>7. CASE n = "lease"
    <3>1. Len(EncodeDuration(d.lease, e)) = 8
      BY <1>5, ParticipantShape, DurationEncoded
    <3>2. FieldBytes(d, n, e) = EncodeDuration(d.lease, e)
      BY <2>7, FieldBytesOf
    <3> QED BY <1>4, <3>1, <3>2
  <2>8. CASE n = "name"
    <3>1. FieldBytes(d, n, e) = EncodeString(d.name, e) /\ d.name \in Seq(Bytes)
      BY <1>5, <2>8, ParticipantShape, FieldBytesOf
    <3> QED BY <2>2, <3>1, TextFits
  <2> QED BY <2>1, <2>3, <2>4, <2>5, <2>6, <2>7, <2>8
<1>6. ASSUME d \in Endpoints  PROVE AlignedSize(Len(FieldBytes(d, n, e))) < Capacity(2)
  <2>1. n \in {"endpoint_guid", "participant_guid", "topic", "type", "unicast", "reliability"}
    BY <1>6, EndpointShape DEF Names, Mandatory, Optional
  <2>2. /\ Len(d.unicast.address) = 4
        /\ AlignedSize(4 + Len(d.topic) + 1) <= MaxUint16
        /\ AlignedSize(4 + Len(d.type) + 1) <= MaxUint16
    BY <1>6, EndpointShape DEF Fits
  <2>3. CASE n \in {"endpoint_guid", "participant_guid"}
    <3>1. FieldBytes(d, n, e) = d[n] /\ d[n] \in BytesOf(16)
      BY <1>6, <2>3, EndpointShape, FieldBytesOf
    <3> QED BY <1>3, <1>4, <3>1
  <2>4. CASE n = "unicast"
    <3>1. FieldBytes(d, n, e) = EncodeLocator(d.unicast, e) /\ d.unicast \in Locators
      BY <1>6, <2>4, EndpointShape, FieldBytesOf
    <3> QED BY <1>1, <1>4, <2>2, <3>1
  <2>5. CASE n = "topic"
    <3>1. FieldBytes(d, n, e) = EncodeString(d.topic, e) /\ d.topic \in Seq(Bytes)
      BY <1>6, <2>5, EndpointShape, FieldBytesOf
    <3> QED BY <2>2, <3>1, TextFits
  <2>6. CASE n = "type"
    <3>1. FieldBytes(d, n, e) = EncodeString(d.type, e) /\ d.type \in Seq(Bytes)
      BY <1>6, <2>6, EndpointShape, FieldBytesOf
    <3> QED BY <2>2, <3>1, TextFits
  <2>7. CASE n = "reliability"
    <3> DEFINE words == <<IF d.reliability THEN 2 ELSE 1, 0, 0>>
    <3>1. words \in Seq(Int) /\ Len(words) = 3
      OBVIOUS
    <3>2. EncodeReliability(d.reliability, e) = WriteWords(<<>>, words, e)
      BY DEF EncodeReliability
    <3> HIDE DEF words
    <3>3. Len(WriteWords(<<>>, words, e)) = 4 * Len(words)
      BY <3>1, WordsOnly
    <3>4. FieldBytes(d, n, e) = EncodeReliability(d.reliability, e)
      BY <2>7, FieldBytesOf
    <3>5. Len(FieldBytes(d, n, e)) = 12
      BY <3>1, <3>2, <3>3, <3>4
    <3> QED BY <1>4, <3>5
  <2> QED BY <2>1, <2>3, <2>4, <2>5, <2>6, <2>7
<1> QED BY <1>5, <1>6 DEF Announcements

LEMMA AnnouncementAccepted ==
  ASSUME NEW d \in Announcements, Valid(d), Fits(d), NEW e \in Endiannesses
  PROVE  EncodeAnnouncement(d, e).kind = d.kind
<1>1. MaxUint16 \in Int
  BY TwoByteRoom
<1>2. \A l \in Locators : l.port \in 1..MaxUint16 /\ Len(l.address) = 4 => ValidLocator(l)
  BY <1>1 DEF ValidLocator
<1>3. Announceable(d)
  <2>1. ASSUME d \in Participants  PROVE Announceable(d)
    <3>1. /\ d.metatraffic.port \in 1..MaxUint16 /\ d.user.port \in 1..MaxUint16
          /\ d.lease >= 1 /\ d.lease \in Int
      BY <2>1, ParticipantShape DEF Valid
    <3>2. /\ Len(d.metatraffic.address) = 4 /\ Len(d.user.address) = 4
          /\ d.lease \div 1000 <= MaxSeconds
      BY <2>1, ParticipantShape DEF Fits
    <3>3. ValidDuration(d.lease)
      BY <3>1, <3>2 DEF ValidDuration
    <3>4. ValidLocator(d.metatraffic) /\ ValidLocator(d.user)
      BY <1>2, <2>1, <3>1, <3>2, ParticipantShape
    <3> QED BY <2>1, <3>3, <3>4, ParticipantShape DEF Announceable
  <2>2. ASSUME d \in Endpoints  PROVE Announceable(d)
    <3>1. d.unicast.port \in 1..MaxUint16
      BY <2>2, EndpointShape DEF Valid
    <3>2. Len(d.unicast.address) = 4 /\ d.topic # <<>> /\ d.type # <<>>
      BY <2>2, EndpointShape DEF Fits
    <3>3. ValidLocator(d.unicast)
      BY <1>2, <2>2, <3>1, <3>2, EndpointShape
    <3> QED BY <2>2, <3>2, <3>3, EndpointShape DEF Announceable
  <2> QED BY <2>1, <2>2 DEF Announcements
<1>4. Encodable(ParametersOf(d, e))
  <2> DEFINE P == ParametersOf(d, e)
  <2>1. P \in Seq(Parameters)
    BY ParametersOfType DEF Announcements
  <2>2. Elements(P) = Said(d, e, Written(d))
    BY OwnElements
  <2> HIDE DEF P
  <2>3. ASSUME NEW i \in DOMAIN P
        PROVE  P[i].id # Sentinel /\ AlignedSize(Len(P[i].value)) < Capacity(2)
    <3>1. P[i] \in Elements(P)
      BY <2>1, <2>3 DEF Elements
    <3>2. PICK n \in Written(d) : P[i] = Parameter(n, FieldBytes(d, n, e))
      BY <2>2, <3>1 DEF Said
    <3>3. n \in Names(d) /\ Pid[n] # Sentinel
      BY WrittenNames, NamesAreNames, AnnouncementKind
    <3>4. P[i].id = Pid[n] /\ P[i].value = FieldBytes(d, n, e)
      BY <3>2 DEF Parameter
    <3> QED BY <3>3, <3>4, FieldsFit
  <2> QED BY <2>3 DEF Encodable, P
<1> QED BY <1>3, <1>4 DEF EncodeAnnouncement

(* Nothing the encoders must take is turned away.                          *)
LEMMA OnlyUnsendableRefused ==
  ASSUME NEW m \in Messages \ Unsendable, NEW e \in Endiannesses
  PROVE  Encode(m, e).kind \notin Failures
<1>1. Valid(m) /\ Fits(m)
  BY UnsendableAssumption
<1>2. m \in Control \cup Datas \cup Announcements \cup Strings
  BY MessageKinds
<1>3. m.kind \notin Failures
  BY MessageKinds DEF Failures, Announcements, Control, Heartbeats, AckNacks, Gaps, Datas,
                      Participants, Endpoints, Strings
<1>4. CASE m \in Control \cup Datas
  BY <1>1, <1>3, <1>4, EncodeCases, SubmessageAccepted
<1>5. CASE m \in Announcements
  BY <1>1, <1>3, <1>5, EncodeCases, AnnouncementAccepted
<1>6. CASE m \in Strings
  BY <1>6, EncodeCases DEF Failures
<1> QED BY <1>2, <1>4, <1>5, <1>6

-----------------------------------------------------------------------------
(* What arrives undamaged means what was sent.                             *)

(* What reaches the other side undamaged is decoded to what it means.      *)
LEMMA SubmessageMeans ==
  ASSUME NEW m \in Messages, m \in Control \cup Datas, NEW e \in Endiannesses,
         Encode(m, e).kind \notin Failures,
         NEW w, w = Encode(m, e) \/ w \in FormsOf(m, Encode(m, e))
  PROVE  Means(Decode(w), m)
<1> DEFINE own == EncodeMessage(WithBitmap(m), e)
<1>1. Encode(m, e) = own /\ own # Rejected /\ own \in SubmessageWires
      /\ own.kind \in SubmessageKinds
  BY EncodeCases, EncodedWire
<1>2. Means(WithBitmap(m), m)
  BY <1>1, BitmapMeans
<1> HIDE DEF own
<1>3. own = EncodeMessage(WithBitmap(m), e)
  BY DEF own
<1>4. ASSUME w = own  PROVE Decode(w) = WithBitmap(m)
  <2>1. DecodeMessage(w) = WithBitmap(m)
    BY <1>1, <1>3, <1>4, OwnSubmessageBack
  <2> QED BY <1>1, <1>4, <2>1 DEF Decode, SubmessageKinds, ControlKinds
<1>5. ASSUME w \in FormsOf(m, own)  PROVE Decode(w) = WithBitmap(m)
  <2>1. w \in OtherForms(own)
    BY <1>1, <1>5, FormsCases
  <2>2. DecodeMessage(w) = WithBitmap(m)
    BY <1>1, <1>3, <2>1, OtherSubmessageBack
  <2>3. w \in SubmessageWires
    BY <1>1, <1>3, <2>1, SubmessageForms
  <2>4. w.kind \in SubmessageKinds \cup {"info"}
    BY <2>3, WireKinds
  <2> QED BY <2>2, <2>4 DEF Decode, SubmessageKinds, ControlKinds
<1> QED BY <1>1, <1>2, <1>4, <1>5

LEMMA AnnouncementMeans ==
  ASSUME NEW m \in Messages, m \in Announcements, NEW e \in Endiannesses,
         Encode(m, e).kind \notin Failures,
         NEW w, w = Encode(m, e) \/ w \in FormsOf(m, Encode(m, e))
  PROVE  Means(Decode(w), m)
<1> DEFINE own == EncodeAnnouncement(m, e)
<1>1. Encode(m, e) = own /\ own # Refused
  BY EncodeCases, EncodedWire
<1>2. /\ own = [kind |-> m.kind, bytes |-> EncodeList(ParametersOf(m, e), e)]
      /\ Announceable(m) /\ Faithful(ParametersOf(m, e), m, e)
  BY <1>1, OwnWire
<1> HIDE DEF own
<1>3. FaithfulWire(w, m, e)
  <2>1. ASSUME w = own  PROVE FaithfulWire(w, m, e)
    BY <1>2, <2>1 DEF FaithfulWire
  <2>2. ASSUME w \in FormsOf(m, own)  PROVE FaithfulWire(w, m, e)
    <3>1. w \in Rewritten(m, own, DecodeList(own.bytes))
      BY <1>1, <2>2, FormsCases
    <3>2. own = EncodeAnnouncement(m, e)
      BY DEF own
    <3> QED BY <1>1, <3>1, <3>2, RewrittenFaithful
  <2> QED BY <1>1, <2>1, <2>2
<1>4. Means(DecodeAnnouncement(w), m)
  BY <1>2, <1>3, ListBack
<1>5. w.kind \in {"participant", "endpoint"}
  BY <1>3, FaithfulWireType, AnnouncementKind
<1>6. Decode(w) = DecodeAnnouncement(w)
  BY <1>5 DEF Decode, SubmessageKinds, ControlKinds
<1> QED BY <1>4, <1>6

LEMMA PayloadValid ==
  ASSUME NEW value \in Seq(Bytes), NEW e \in Endiannesses, NEW k \in 0..3,
         Len(value) + 1 < Capacity(4)
  PROVE  DeserializeString(SerializeString(value, e) \o Zeros(k)).valid
BY PayloadBack

LEMMA PayloadValue ==
  ASSUME NEW value \in Seq(Bytes), NEW e \in Endiannesses, NEW k \in 0..3,
         Len(value) + 1 < Capacity(4)
  PROVE  DeserializeString(SerializeString(value, e) \o Zeros(k)).read[1] = value
BY PayloadBack

LEMMA StringMeans ==
  ASSUME NEW m \in Messages, m \in Strings, NEW e \in Endiannesses,
         Encode(m, e).kind \notin Failures,
         NEW w, w = Encode(m, e) \/ w \in FormsOf(m, Encode(m, e))
  PROVE  Means(Decode(w), m)
<1> DEFINE s == SerializeString(m.value, e)
           own == [kind |-> "string", bytes |-> s]
<1>1. Encode(m, e) = own
  BY EncodeCases
<1>2. m.value \in Seq(Bytes) /\ Len(m.value) + 1 < Capacity(4) /\ m.kind = "string"
      /\ m = [kind |-> "string", value |-> m.value]
  BY DEF Strings
<1>3. s \in Seq(Bytes)
  BY <1>2, StringSerialized
<1>4. \E k \in 0..3 : w.kind = "string" /\ w.bytes = s \o Zeros(k)
  <2> HIDE DEF s
  <2>1. ASSUME w = own  PROVE w.kind = "string" /\ w.bytes = s \o Zeros(0)
    <3>1. s \o <<>> = s
      BY <1>3
    <3> QED BY <2>1, <3>1, NoZeros
  <2>2. ASSUME w \in FormsOf(m, own)  PROVE \E k \in 0..3 : w.kind = "string" /\ w.bytes = s \o Zeros(k)
    <3>1. PICK k \in 0..3 : w = Trailed(own, k)
      BY <1>1, <2>2, FormsCases
    <3> QED BY <3>1 DEF Trailed
  <2>3. 0 \in 0..3
    OBVIOUS
  <2> QED BY <1>1, <2>1, <2>2, <2>3
<1>5. PICK k \in 0..3 : w.kind = "string" /\ w.bytes = s \o Zeros(k)
  BY <1>4
<1>6. w.bytes = SerializeString(m.value, e) \o Zeros(k) /\ k \in 0..3
  BY <1>5
<1>7. DeserializeString(w.bytes).valid /\ DeserializeString(w.bytes).read[1] = m.value
  BY <1>2, <1>6, PayloadValid, PayloadValue
<1>8. Decode(w) = [kind |-> "string", value |-> m.value]
  BY <1>5, <1>7 DEF Decode, SubmessageKinds, ControlKinds
<1>9. Decode(w) = m
  BY <1>2, <1>8
<1> QED BY <1>2, <1>9 DEF Means

(* RoundTrip: in either byte order, and in each form another               *)
(* implementation may choose, a decoder makes of a message what was        *)
(* encoded, or in the case of a lease a millisecond less; and what the     *)
(* encoders refuse is what the structures can hold and the format cannot.  *)
THEOREM RoundTripHolds == Spec => []RoundTrip
<1>1. ASSUME Transfer, form # "damaged", received # Nothing  PROVE Means(received, sent)
  <2>1. sent \in Messages /\ wire.kind \notin Failures /\ received = Decode(wire)
    BY <1>1 DEF Transfer
  <2>2. PICK e \in Endiannesses : Travels(sent, e)
    BY <1>1 DEF Transfer
  <2>3. /\ Encode(sent, e).kind \notin Failures
        /\ wire = Encode(sent, e) \/ wire \in FormsOf(sent, Encode(sent, e))
    BY <1>1, <2>1, <2>2 DEF Travels
  <2>4. sent \in Control \cup Datas \cup Announcements \cup Strings
    BY <2>1, MessageKinds
  <2> QED BY <2>1, <2>3, <2>4, SubmessageMeans, AnnouncementMeans, StringMeans
<1>2. ASSUME Transfer, form # "damaged", sent # Nothing, wire.kind \in Failures
      PROVE  sent \in Unsendable
  <2>1. sent \in Messages
    BY <1>2 DEF Transfer
  <2>2. PICK e \in Endiannesses : Travels(sent, e)
    BY <1>2 DEF Transfer
  <2>3. CASE form = "own" /\ wire = Encode(sent, e)
    BY <1>2, <2>1, <2>3, OnlyUnsendableRefused
  <2>4. CASE form = "another" /\ Encode(sent, e).kind \notin Failures
             /\ wire \in FormsOf(sent, Encode(sent, e))
    <3>1. wire \in Wires
      BY <2>1, <2>4, FormsType
    <3> QED BY <1>2, <3>1, WireKinds
  <2> QED BY <1>2, <2>2, <2>3, <2>4 DEF Travels
<1>3. Transfer => RoundTrip
  BY <1>1, <1>2 DEF RoundTrip
<1> QED BY <1>3, TransferHolds, PTL
=============================================================================
