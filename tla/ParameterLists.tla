--------------------------- MODULE ParameterLists ---------------------------
(***************************************************************************)
(* Parameter lists, the payload of discovery: a representation, parameters *)
(* (id, length, value padded to a multiple of four) and a sentinel.        *)
(***************************************************************************)
EXTENDS Cdr

CONSTANTS Pad, Sentinel     \* parameter_id_pad, parameter_id_sentinel
ASSUME ParameterIdsAssumption ==
  Pad \in Nat /\ Sentinel \in Nat /\ Pad # Sentinel

ListRepresentation(endianness) == IF endianness = "little" THEN <<0, 3>> ELSE <<0, 2>>
AlignedSize(size) == size + Padding(4, size)
NoList == [valid |-> FALSE]

EncodeParameter(p, endianness) ==
  ToBytes(p.id, 2, endianness) \o ToBytes(AlignedSize(Len(p.value)), 2, endianness)
    \o p.value \o Zeros(Padding(4, Len(p.value)))

(* encode_parameter_list succeeds ...                                      *)
Encodable(parameters) ==
  \A i \in DOMAIN parameters :
    /\ parameters[i].id # Sentinel
    /\ AlignedSize(Len(parameters[i].value)) < Capacity(2)

(* ... with this payload.                                                  *)
EncodeList(parameters, endianness) ==
  ListRepresentation(endianness) \o <<0, 0>>
    \o FlattenSeq([i \in DOMAIN parameters |-> EncodeParameter(parameters[i], endianness)])
    \o ToBytes(Sentinel, 2, endianness) \o <<0, 0>>

(* One turn of the loop of decode_parameter_list, on its variables:        *)
(* `verdict' is "open" until the list ends or is found to be bad.          *)
DecodeParameter(list, payload) ==
  LET At(i) == FromBytes(SubSeq(payload, list.offset + i, list.offset + i + 1), list.endianness)
      id == At(1)
      length == At(3)
      after == list.offset + 4 + length
      value == SubSeq(payload, list.offset + 5, after)
  IN IF list.verdict # "open" THEN list
     ELSE IF list.offset + 4 > Len(payload) THEN [list EXCEPT !.verdict = "bad"]
     ELSE IF id = Sentinel
       THEN [list EXCEPT !.verdict = IF length = 0 THEN "good" ELSE "bad"]
     ELSE IF length % 4 # 0 \/ after > Len(payload) THEN [list EXCEPT !.verdict = "bad"]
     ELSE [list EXCEPT !.offset = after,
                       !.parameters = IF id = Pad THEN @
                                      ELSE Append(@, [id |-> id, value |-> value])]

DecodeList(payload) ==
  LET choice == {e \in Endiannesses : SubSeq(payload, 1, 2) = ListRepresentation(e)}
      start == [offset |-> 4, verdict |-> "open", parameters |-> <<>>,
                endianness |-> CHOOSE e \in choice : TRUE]
      list == FoldLeft(LAMBDA l, turn : DecodeParameter(l, payload),
                       start, Zeros(Len(payload) \div 4))
  IN IF Len(payload) >= 8 /\ choice # {} /\ list.verdict = "good"
       THEN [valid |-> TRUE, endianness |-> list.endianness, parameters |-> list.parameters]
       ELSE NoList

(* find_parameter: the places of an id; the first one counts.              *)
Matching(parameters, id) == {i \in DOMAIN parameters : parameters[i].id = id}
=============================================================================
