--------------------------------- MODULE Cdr ---------------------------------
(***************************************************************************)
(* CDR: how numbers, byte strings and strings are laid out (CdrWriter) and *)
(* read back (CdrReader), and the payload of a string sample.              *)
(*                                                                         *)
(* A byte has ByteBits bits, 8 in the code.  All widths follow from it: a  *)
(* uint16 has 2 bytes, a uint32 has 4, and every boundary (overflow, sign, *)
(* the largest length) is where the width puts it.                         *)
(***************************************************************************)
EXTENDS Integers, SequencesExt

CONSTANT ByteBits
ASSUME ByteBitsAssumption == ByteBits \in Nat /\ ByteBits > 1

Endiannesses == {"little", "big"}
Capacity(n) == 2^(n * ByteBits)      \* how many values n bytes hold
Bytes == 0..Capacity(1) - 1
Zeros(n) == [i \in 1..n |-> 0]

-----------------------------------------------------------------------------
(* CdrWriter: its state is the data written so far.                        *)

Padding(alignment, size) == (-size) % alignment

(* The n low bytes of a number, of a negative one in two's complement.     *)
ToBytes(value, n, endianness) ==
  [i \in 1..n |-> (value \div Capacity(IF endianness = "little" THEN i - 1 ELSE n - i))
                  % Capacity(1)]

Write(data, value, n, endianness) ==
  data \o Zeros(Padding(n, Len(data))) \o ToBytes(value, n, endianness)

WriteWords(data, values, endianness) ==
  FoldLeft(LAMBDA written, v : Write(written, v, 4, endianness), data, values)

WriteString(data, value, endianness) ==
  Write(data, Len(value) + 1, 4, endianness) \o Append(value, 0)

-----------------------------------------------------------------------------
(* CdrReader: `read' are the values read so far, `valid' turns FALSE with  *)
(* the first one that is not there, for good.                              *)
Reader(bytes, endianness) ==
  [bytes |-> bytes, endianness |-> endianness, offset |-> 0, valid |-> TRUE,
   read |-> <<>>]

Requires(r, count) == r.valid /\ count <= Len(r.bytes) - r.offset
Remaining(r) == IF r.valid THEN Len(r.bytes) - r.offset ELSE 0
Invalid(r) == [r EXCEPT !.valid = FALSE]
Slice(r, count) == SubSeq(r.bytes, r.offset + 1, r.offset + count)

FromBytes(bytes, endianness) ==
  FoldLeft(LAMBDA value, b : value * Capacity(1) + b, 0,
           IF endianness = "big" THEN bytes ELSE Reverse(bytes))

Signed(value, n) ==
  IF value < Capacity(n) \div 2 THEN value ELSE value - Capacity(n)

Read(r, n) ==
  LET padding == Padding(n, r.offset)
      aligned == [r EXCEPT !.offset = @ + padding]
  IN IF Requires(r, padding + n)
       THEN [aligned EXCEPT !.offset = @ + n,
                            !.read = Append(@, FromBytes(Slice(aligned, n), r.endianness))]
       ELSE Invalid(r)

ReadWords(r, count) == FoldLeft(LAMBDA s, i : Read(s, 4), r, Zeros(count))

ReadBytes(r, count) ==
  IF Requires(r, count)
    THEN [r EXCEPT !.offset = @ + count, !.read = Append(@, Slice(r, count))]
    ELSE Invalid(r)

(* read_string: the length, which has just been read, and that many bytes, *)
(* the last of them 0.                                                     *)
StringBehind(r, length) ==
  IF r.valid /\ length # 0 /\ Requires(r, length) /\ Last(Slice(r, length)) = 0
    THEN [r EXCEPT !.offset = @ + length,
                   !.read = Append(Front(@), Front(Slice(r, length)))]
    ELSE Invalid(r)

ReadString(r) ==
  LET sized == Read(r, 4) IN StringBehind(sized, Last(sized.read))

(* Behind the last value there may be up to three zero bytes.              *)
OnlyZeroPadding(r) ==
  LET trailing == Slice(r, Remaining(r))
  IN IF r.valid /\ Len(trailing) <= 3 /\ trailing = Zeros(Len(trailing))
       THEN r ELSE Invalid(r)

-----------------------------------------------------------------------------
(* The payload of a string sample: which representation, two bytes that    *)
(* are not looked at, and the string.                                      *)
StringRepresentation(endianness) == IF endianness = "little" THEN <<0, 1>> ELSE <<0, 0>>

SerializeString(value, endianness) ==
  StringRepresentation(endianness) \o <<0, 0>> \o WriteString(<<>>, value, endianness)

DeserializeString(payload) ==
  LET choice == {e \in Endiannesses : SubSeq(payload, 1, 2) = StringRepresentation(e)}
      r == OnlyZeroPadding(ReadString(
             Reader(SubSeq(payload, 5, Len(payload)), CHOOSE e \in choice : TRUE)))
  IN IF Len(payload) < 4 \/ choice = {} THEN Invalid(Reader(payload, "little")) ELSE r
=============================================================================
