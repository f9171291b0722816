------------------------------- MODULE Codecs -------------------------------
(***************************************************************************)
(* One message between two participants: it is encoded, perhaps by another *)
(* implementation that makes use of what the format allows, perhaps        *)
(* damaged, and decoded.                                                   *)
(***************************************************************************)
EXTENDS Submessages, DiscoveryData

CONSTANTS Messages,     \* what may be sent ...
          Unsendable    \* ... and of it, what the encoders must refuse
SubmessageKinds == ControlKinds \cup {"data"}

(* What the structures of the messages hold: ids of fixed lengths, 64-bit  *)
(* sequence numbers, 32-bit counts, and for a set numbers within the words *)
(* of its bitmap.  A string may be as long as its length can say.  A lease *)
(* is longer than the announcement period (DiscoveryService::start): never *)
(* the one millisecond that the conversion would cut to none.              *)
BytesOf(n) == {s \in Seq(Bytes) : Len(s) = n}
SignedNumbers(n) == -(Capacity(n) \div 2) .. Capacity(n) \div 2 - 1
Senders == [version : BytesOf(2), vendor : BytesOf(2), prefix : BytesOf(12)]
NumberSets ==
  {s \in [base : SignedNumbers(8), num_bits : 0..Capacity(4) - 1, numbers : SUBSET Int] :
     s.numbers \subseteq s.base .. s.base + WordBits * Words(s.num_bits) - 1}
Locators == [address : Seq(Bytes), port : 0..MaxUint16]

Heartbeats ==
  [kind : {"heartbeat"}, from : Senders, reader_id : BytesOf(4), writer_id : BytesOf(4),
   first : SignedNumbers(8), last : SignedNumbers(8), count : SignedNumbers(4),
   flags : SUBSET {1, 2}]
AckNacks ==
  [kind : {"acknack"}, from : Senders, reader_id : BytesOf(4), writer_id : BytesOf(4),
   set : NumberSets, count : SignedNumbers(4), flags : SUBSET {1}]
Gaps ==
  [kind : {"gap"}, from : Senders, reader_id : BytesOf(4), writer_id : BytesOf(4),
   start : SignedNumbers(8), set : NumberSets]
Datas ==
  [kind : {"data"}, from : Senders, reader_id : BytesOf(4), writer_id : BytesOf(4),
   sn : SignedNumbers(8), payload : Seq(Bytes)]
Participants ==
  [kind : {"participant"}, participant_guid : BytesOf(16), version : BytesOf(2),
   vendor : BytesOf(2), metatraffic : Locators, user : Locators, builtin : 0..Capacity(4) - 1,
   lease : Int \ {1}, name : Seq(Bytes)]
Endpoints ==
  [kind : {"endpoint"}, endpoint_guid : BytesOf(16), participant_guid : BytesOf(16),
   topic : Seq(Bytes), type : Seq(Bytes), unicast : Locators, reliability : BOOLEAN]
Strings ==
  {m \in [kind : {"string"}, value : Seq(Bytes)] : Len(m.value) + 1 < Capacity(4)}

Control == Heartbeats \cup AckNacks \cup Gaps
ASSUME MessagesAssumption ==
  Messages \subseteq Control \cup Datas \cup Participants \cup Endpoints \cup Strings

VARIABLES
  sent,      \* the message
  wire,      \* what travels
  form,      \* as encoded ("own"), in "another" form or "damaged"
  received   \* what the decoder makes of it
vars == <<sent, wire, form, received>>
Nothing == [kind |-> "nothing"]

(* A message names the numbers of its set, the endpoints fill the bitmap.  *)
WithBitmap(m) ==
  IF m.kind \in {"acknack", "gap"}
    THEN [m EXCEPT !.set = SetOf(@.base, @.num_bits, @.numbers)] ELSE m

Encode(m, endianness) ==
  CASE m.kind \in SubmessageKinds -> EncodeMessage(WithBitmap(m), endianness)
    [] m.kind \in {"participant", "endpoint"} -> EncodeAnnouncement(m, endianness)
    [] m.kind = "string" -> [kind |-> "string", bytes |-> SerializeString(m.value, endianness)]

Decode(w) ==
  CASE w.kind \in SubmessageKinds \cup {"info"} -> DecodeMessage(w)
    [] w.kind \in {"participant", "endpoint"} -> DecodeAnnouncement(w)
    [] w.kind = "string" ->
         LET r == DeserializeString(w.bytes)
         IN IF r.valid THEN [kind |-> "string", value |-> r.read[1]] ELSE Refused

Init ==
  /\ sent = Nothing /\ wire = Nothing /\ received = Nothing
  /\ form = "own"

Transmit ==
  /\ sent = Nothing
  /\ \E m \in Messages, endianness \in Endiannesses :
       sent' = m /\ wire' = Encode(m, endianness)
  /\ UNCHANGED <<form, received>>

InFlight == wire.kind \notin {"nothing", "rejected", "refused"} /\ received = Nothing

-----------------------------------------------------------------------------
(* Other forms of the same message.  A submessage may leave its length to  *)
(* the end of the datagram, have bytes behind it, or, with DATA, room for  *)
(* what a later version may add before the payload.                        *)
OtherForms(w) ==
  {[w EXCEPT !.length = <<0, 0>>],
   [w EXCEPT !.content = @ \o <<1, 2, 3>>]}
  \cup IF w.kind # "data" THEN {} ELSE
       LET e == EndiannessOf(w) IN
         {[w EXCEPT !.content = SubSeq(@, 1, 2) \o ToBytes(20, 2, e)
                                  \o SubSeq(@, 5, 20) \o <<3, 3, 3, 3>>
                                  \o SubSeq(@, 21, Len(@)),
                    !.length = <<0, 0>>]}

(* A list may hold padding and parameters nobody knows, and leave out what *)
(* has its default value.  A string may have up to three zero bytes behind *)
(* it.                                                                     *)
UnknownPids == 0..MaxUint16 \ ({Pad, Sentinel} \cup {Pid[n] : n \in PidNames})
ASSUME UnknownPidsAssumption == UnknownPids # {}
UnknownPid == CHOOSE id \in UnknownPids : TRUE

Omissible(m) == {n \in Optional[m.kind] : m[n] = Default(n, m.endpoint_guid)}

OtherLists(m, parameters) ==
  {InsertAt(parameters, i, [id |-> id, value |-> <<1, 1, 1>>]) :
      i \in 1..Len(parameters) + 1, id \in {Pad, UnknownPid}}
  \cup {RemoveAt(parameters, i) :
          i \in UNION {Matching(parameters, Pid[n]) : n \in Omissible(m)}}

Rewritten(m, w, list) ==
  {[w EXCEPT !.bytes = EncodeList(parameters, list.endianness)] :
      parameters \in OtherLists(m, list.parameters)}

FormsOf(m, w) ==
  CASE w.kind \in SubmessageKinds -> OtherForms(w)
    [] w.kind \in {"participant", "endpoint"} -> Rewritten(m, w, DecodeList(w.bytes))
    [] w.kind = "string" -> {[w EXCEPT !.bytes = @ \o Zeros(n)] : n \in 0..3}

AnotherForm ==
  /\ InFlight /\ form = "own"
  /\ wire' \in FormsOf(sent, wire)
  /\ form' = "another"
  /\ UNCHANGED <<sent, received>>

(* Damage: a byte is another, the end is missing, a flag is turned.        *)
Changed(bytes) ==
  {ReplaceAt(bytes, i, b) : i \in DOMAIN bytes, b \in Bytes}
    \cup {SubSeq(bytes, 1, n) : n \in 0..Len(bytes) - 1}

Toggled(flags) ==
  {IF f \in flags THEN flags \ {f} ELSE flags \cup {f} : f \in 0..4}

Damage ==
  /\ InFlight /\ form = "own"
  /\ IF wire.kind \in SubmessageKinds
       THEN \/ \E c \in Changed(wire.content) : wire' = [wire EXCEPT !.content = c]
            \/ \E h \in Changed(wire.header) : wire' = [wire EXCEPT !.header = h]
            \/ \E l \in Bytes \X Bytes : wire' = [wire EXCEPT !.length = l]
            \/ \E f \in Toggled(wire.flags) : wire' = [wire EXCEPT !.flags = f]
            \/ \E k \in SubmessageKinds \cup {"info"} : wire' = [wire EXCEPT !.kind = k]
       ELSE \E b \in Changed(wire.bytes) : wire' = [wire EXCEPT !.bytes = b]
  /\ form' = "damaged"
  /\ UNCHANGED <<sent, received>>

Receive ==
  /\ InFlight
  /\ received' = Decode(wire)
  /\ UNCHANGED <<sent, wire, form>>

Next == Transmit \/ AnotherForm \/ Damage \/ Receive
Spec == Init /\ [][Next]_vars

-----------------------------------------------------------------------------
Failures == {"nothing", "rejected", "refused"}
NumbersOf(set) == {n \in set.base..set.base + set.num_bits - 1 : InSet(n, set)}

(* What the endpoints take for granted of a message they are given.        *)
ValidNumbers(set) == set.base >= 1 /\ set.num_bits \in 0..MaxBits
Valid(m) ==
  CASE m.kind = "heartbeat" -> 1 <= m.first /\ m.first <= m.last /\ m.count >= 1
    [] m.kind = "acknack" -> ValidNumbers(m.set) /\ m.count >= 1
    [] m.kind = "gap" -> 1 <= m.start /\ m.start <= m.set.base /\ ValidNumbers(m.set)
    [] m.kind = "data" -> m.sn >= 1
    [] m.kind = "participant" -> /\ m.metatraffic.port \in 1..MaxUint16
                                 /\ m.user.port \in 1..MaxUint16
                                 /\ m.lease >= 1
    [] m.kind = "endpoint" -> m.unicast.port \in 1..MaxUint16
    [] m.kind = "string" -> TRUE

(* What else the encoders ask: a bitmap for its numbers, lengths their     *)
(* fields can say, IPv4 addresses, names for a topic and its type.         *)
Fits(m) ==
  CASE m.kind \in {"acknack", "gap"} ->
         m.set.numbers \subseteq m.set.base .. m.set.base + m.set.num_bits - 1
    [] m.kind = "data" -> 20 + Len(m.payload) <= MaxUint16
    [] m.kind = "participant" ->
         /\ Len(m.metatraffic.address) = 4 /\ Len(m.user.address) = 4
         /\ m.lease \div 1000 <= MaxSeconds
         /\ AlignedSize(4 + Len(m.name) + 1) <= MaxUint16
    [] m.kind = "endpoint" ->
         /\ Len(m.unicast.address) = 4
         /\ \A s \in {m.topic, m.type} : s # <<>> /\ AlignedSize(4 + Len(s) + 1) <= MaxUint16
    [] OTHER -> TRUE
ASSUME UnsendableAssumption == \A m \in Messages \ Unsendable : Valid(m) /\ Fits(m)

(* A message that is accepted satisfies what ReliableReader, the writers   *)
(* and DiscoveryService assume of it, whatever has been received: ranges   *)
(* are not empty, ports and leases are usable, and a bitmap that has a bit *)
(* (acknack_has_requests) asks for a number.                               *)
AcceptsOnlyValid ==
  received.kind \notin Failures =>
    /\ Valid(received)
    /\ received.kind \in {"acknack", "gap"} =>
         ((\E w \in DOMAIN received.set.bitmap : received.set.bitmap[w] # 0)
            => NumbersOf(received.set) # {})

(* What reaches the other side undamaged, in any form the format allows,   *)
(* means the same there: each number that is asked for or is irrelevant,   *)
(* each name, and a lease as configured or one millisecond short of it.    *)
Means(r, m) ==
  CASE m.kind \in {"acknack", "gap"} ->
         /\ r.kind = m.kind /\ NumbersOf(r.set) = m.set.numbers
         /\ [r EXCEPT !.set = m.set] = m
         /\ r.set.base = m.set.base
    [] m.kind = "participant" ->
         r.kind = m.kind /\ r.lease \in {m.lease - 1, m.lease}
           /\ [r EXCEPT !.lease = m.lease] = m
    [] OTHER -> r = m

RoundTrip ==
  form # "damaged" =>
    /\ received # Nothing => Means(received, sent)
    /\ sent # Nothing /\ wire.kind \in Failures => sent \in Unsendable
=============================================================================
