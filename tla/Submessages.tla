---------------------------- MODULE Submessages ----------------------------
(***************************************************************************)
(* The submessages writers and readers exchange (HEARTBEAT, ACKNACK, GAP   *)
(* and DATA) and the message around them.                                  *)
(*                                                                         *)
(* On the wire a submessage is a record: its kind, its flags (the numbers  *)
(* of the bits that are set), the two bytes of its length and its content. *)
(* Definitions named Bug... are mistakes one could make in what follows.   *)
(***************************************************************************)
EXTENDS Cdr, FiniteSetsExt

CONSTANTS MaxBits,   \* sequence_number_set_max_bits
          Magic      \* protocol_magic
ASSUME SubmessagesAssumption ==
  MaxBits \in Nat \ {0} /\ Magic \in Seq(Bytes) /\ Len(Magic) = 4

ControlKinds == {"heartbeat", "acknack", "gap"}
Rejected == [kind |-> "rejected"]
WordBits == 4 * ByteBits
MaxInt32 == Capacity(4) \div 2 - 1
MaxUint16 == Capacity(2) - 1

(* A sequence number crosses as a signed high and an unsigned low word.    *)
High(n) == n \div Capacity(4)
Low(n) == n % Capacity(4)
SequenceNumber(high, low) == Signed(high * Capacity(4) + low, 8)

-----------------------------------------------------------------------------
(* SequenceNumberSet: base, num_bits and a bitmap, highest bit first.      *)
Words(num_bits) == (num_bits + WordBits - 1) \div WordBits
ASSUME SizeAssumption == 28 + 4 * Words(MaxBits) <= MaxUint16

(* ... the lowest bit of a word first.                                     *)
BugBitOf(offset) == 2^(offset % WordBits)

(* The bit a sender sets for the number base + offset (send_acknack).      *)
BitOf(offset) == 2^(WordBits - 1 - (offset % WordBits))

SetOf(base, num_bits, numbers) ==
  LET In(w) == {n - base : n \in {m \in numbers : (m - base) \div WordBits = w - 1}}
  IN [base |-> base, num_bits |-> num_bits,
      bitmap |-> [w \in 1..Words(num_bits) |->
                    FoldSet(LAMBDA offset, word : word + BitOf(offset), 0, In(w))]]

(* SequenceNumberSet::contains                                             *)
InSet(n, set) ==
  LET offset == n - set.base IN
    /\ n >= set.base /\ offset < set.num_bits
    /\ offset \div WordBits < Len(set.bitmap)
    /\ (set.bitmap[offset \div WordBits + 1]
          \div 2^(WordBits - 1 - (offset % WordBits))) % 2 = 1

UnusedBits(num_bits) == (-num_bits) % WordBits

(* validate_sequence_number_set                                            *)
ValidSet(set) ==
  /\ set.base > 0
  /\ set.num_bits <= MaxBits
  /\ Len(set.bitmap) = Words(set.num_bits)
  /\ set.bitmap # <<>> => Last(set.bitmap) % 2^UnusedBits(set.num_bits) = 0

SetWords(set) == <<High(set.base), Low(set.base), set.num_bits>> \o set.bitmap

(* No bit beyond num_bits may be set.                                      *)
NoUnusedBit(r, num_bits) ==
  IF r.valid /\ num_bits > 0 /\ Last(r.read) % 2^UnusedBits(num_bits) # 0
    THEN Invalid(r) ELSE r

(* ... the bits beyond num_bits are not looked at.                         *)
BugReadBitmap(r, base, num_bits) ==
  IF r.valid /\ base > 0 /\ num_bits <= MaxBits
    THEN ReadWords(r, Words(num_bits)) ELSE Invalid(r)

ReadBitmap(r, base, num_bits) ==
  IF r.valid /\ base > 0 /\ num_bits <= MaxBits
    THEN NoUnusedBit(ReadWords(r, Words(num_bits)), num_bits) ELSE Invalid(r)

(* read_sequence_number_set                                                *)
ReadSet(r) ==
  LET set == ReadWords(r, 3)
      Back(i) == set.read[Len(set.read) - i]
  IN ReadBitmap(set, SequenceNumber(Back(2), Back(1)), Back(0))

(* The set whose words were read from position p on.                       *)
SetAt(read, p) ==
  [base |-> SequenceNumber(read[p], read[p + 1]), num_bits |-> read[p + 2],
   bitmap |-> SubSeq(read, p + 3, p + 2 + Words(read[p + 2]))]

-----------------------------------------------------------------------------
(* The checks encoders and decoders share.                                 *)

Sound(m) ==
  CASE m.kind = "heartbeat" -> m.first > 0 /\ m.last >= m.first /\ m.count > 0
    [] m.kind = "acknack"   -> m.count > 0
    [] m.kind = "gap"       -> m.start > 0 /\ m.set.base >= m.start
    [] m.kind = "data"      -> m.sn > 0

FlagsOf(m, endianness) ==
  (IF endianness = "little" THEN {0} ELSE {})
    \cup CASE m.kind = "gap"  -> {}
           [] m.kind = "data" -> {2}
           [] OTHER           -> m.flags

(* What follows the two entity ids of a control submessage.                *)
Fields(m) ==
  CASE m.kind = "heartbeat" -> <<High(m.first), Low(m.first), High(m.last), Low(m.last), m.count>>
    [] m.kind = "acknack"   -> SetWords(m.set) \o <<m.count>>
    [] m.kind = "gap"       -> <<High(m.start), Low(m.start)>> \o SetWords(m.set)

ContentOf(m, endianness) ==
  IF m.kind = "data"
    THEN WriteWords(Write(Write(<<>>, 0, 2, endianness), 16, 2, endianness)
                      \o m.reader_id \o m.writer_id,
                    <<High(m.sn), Low(m.sn)>>, endianness) \o m.payload
    ELSE WriteWords(m.reader_id \o m.writer_id, Fields(m), endianness)

EncodeMessageHeader(from) == Magic \o from.version \o from.vendor \o from.prefix

(* encode_heartbeat_message, encode_acknack_message, encode_gap_message    *)
(* and encode_data_message                                                 *)
EncodeMessage(m, endianness) ==
  LET content == ContentOf(m, endianness) IN
  IF /\ Sound(m)
     /\ m.kind \in {"acknack", "gap"} => ValidSet(m.set)
     /\ m.kind = "data" => Len(content) <= MaxUint16
    THEN [kind    |-> m.kind,
          header  |-> EncodeMessageHeader(m.from),
          flags   |-> FlagsOf(m, endianness),
          length  |-> ToBytes(Len(content), 2, endianness),
          content |-> content]
    ELSE Rejected

-----------------------------------------------------------------------------
EndiannessOf(wire) == IF 0 \in wire.flags THEN "little" ELSE "big"

(* A length of 0 means: to the end of the message.                         *)
ContentSize(wire) ==
  LET length == FromBytes(wire.length, EndiannessOf(wire))
  IN IF length = 0 THEN Len(wire.content) ELSE length

Minimum == [heartbeat |-> 28, acknack |-> 24, gap |-> 28, data |-> 20]

Supported(kind, flags) ==
  CASE kind = "heartbeat" -> flags \subseteq {0, 1, 2}
    [] kind = "acknack"   -> flags \subseteq {0, 1}
    [] kind = "gap"       -> flags \subseteq {0}
    [] kind = "data"      -> 2 \in flags /\ flags \cap {1, 3, 4} = {}

DecodeMessageHeader(bytes) ==
  [version |-> SubSeq(bytes, 5, 6), vendor |-> SubSeq(bytes, 7, 8),
   prefix |-> SubSeq(bytes, 9, 20)]

(* decode_heartbeat_submessage, decode_acknack_submessage,                 *)
(* decode_gap_submessage and decode_data_submessage: first two entity ids, *)
(* behind fields of the given sizes, then the other fields ...             *)
ReadIds(r, sizes) ==
  ReadBytes(ReadBytes(FoldLeft(Read, r, sizes), 4), 4)

ReadContent(kind, r) ==
  CASE kind = "heartbeat" -> ReadWords(ReadIds(r, <<>>), 5)
    [] kind = "acknack"   -> ReadWords(ReadSet(ReadIds(r, <<>>)), 1)
    [] kind = "gap"       -> ReadSet(ReadWords(ReadIds(r, <<>>), 2))
    [] kind = "data"      -> ReadWords(ReadIds(r, <<2, 2>>), 2)

(* ... and make a message of them.                                         *)
ControlMessage(kind, wire, read) ==
  CASE kind = "heartbeat" ->
         [kind |-> kind, from |-> DecodeMessageHeader(wire.header),
          reader_id |-> read[1], writer_id |-> read[2],
          first |-> SequenceNumber(read[3], read[4]),
          last |-> SequenceNumber(read[5], read[6]),
          count |-> Signed(read[7], 4), flags |-> wire.flags \ {0}]
    [] kind = "acknack" ->
         [kind |-> kind, from |-> DecodeMessageHeader(wire.header),
          reader_id |-> read[1], writer_id |-> read[2], set |-> SetAt(read, 3),
          count |-> Signed(Last(read), 4), flags |-> wire.flags \ {0}]
    [] kind = "gap" ->
         [kind |-> kind, from |-> DecodeMessageHeader(wire.header),
          reader_id |-> read[1], writer_id |-> read[2],
          start |-> SequenceNumber(read[3], read[4]), set |-> SetAt(read, 5)]

(* decode_data_submessage: the payload starts where octetsToInlineQos says. *)
DataMessage(wire, read, content) ==
  [kind |-> "data", from |-> DecodeMessageHeader(wire.header),
   reader_id |-> read[3], writer_id |-> read[4],
   sn |-> SequenceNumber(read[5], read[6]),
   payload |-> SubSeq(content, 4 + read[2] + 1, Len(content))]

DecodeContent(wire, content, r) ==
  LET m == IF wire.kind = "data" THEN DataMessage(wire, r.read, content)
                                 ELSE ControlMessage(wire.kind, wire, r.read)
  IN IF /\ r.valid
        /\ wire.kind = "data" =>
             r.read[1] = 0 /\ r.read[2] >= 16 /\ 4 + r.read[2] <= Len(content)
        /\ Sound(m)
       THEN m ELSE Rejected

DecodeMessage(wire) ==
  LET content == SubSeq(wire.content, 1, ContentSize(wire)) IN
  IF /\ Len(wire.header) = 20 /\ SubSeq(wire.header, 1, 4) = Magic
     /\ wire.kind \in DOMAIN Minimum /\ Supported(wire.kind, wire.flags)
     /\ ContentSize(wire) \in Minimum[wire.kind]..Len(wire.content)
    THEN DecodeContent(wire, content,
                       ReadContent(wire.kind, Reader(content, EndiannessOf(wire))))
    ELSE Rejected
=============================================================================
