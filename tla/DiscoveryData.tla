---------------------------- MODULE DiscoveryData ----------------------------
(***************************************************************************)
(* What participants tell each other about themselves and about their      *)
(* endpoints, as parameter lists.                                          *)
(*                                                                         *)
(* An address is its four numbers, <<>> if the text is none: parsing and   *)
(* printing it are left out.                                               *)
(***************************************************************************)
EXTENDS ParameterLists

CONSTANTS Pid,                  \* Pid[name]: the id of a parameter
          ParticipantEntity     \* entity_id_participant
PidNames == {"participant_guid", "endpoint_guid", "metatraffic", "user", "unicast",
             "lease", "version", "vendor", "builtin", "name", "topic", "type", "reliability"}
ASSUME FractionAssumption == Capacity(4) \in Nat /\ Capacity(4) >= 1000
ASSUME DiscoveryDataAssumption ==
  /\ Pid \in [PidNames -> Nat \ {Pad, Sentinel}]
  /\ {Pad, Sentinel} \cup {Pid[n] : n \in PidNames} \subseteq 0..Capacity(2) - 1
  /\ \A a, b \in PidNames : Pid[a] = Pid[b] => a = b
  /\ ParticipantEntity \in Seq(Bytes) /\ Len(ParticipantEntity) = 4

Refused == [kind |-> "refused"]
Parameter(name, value) == [id |-> Pid[name], value |-> value]
Accept(value) == [valid |-> TRUE, value |-> value]
Deny == [valid |-> FALSE]
Absent == [valid |-> FALSE, value |-> "absent"]

-----------------------------------------------------------------------------
(* The values of single parameters.                                        *)
MaxSeconds == Capacity(4) \div 2 - 1
ValidLocator(locator) == locator.port > 0 /\ Len(locator.address) = 4
ValidDuration(ms) == ms > 0 /\ ms \div 1000 <= MaxSeconds

EncodeString(value, e) == WriteString(<<>>, value, e)
EncodeLocator(locator, e) ==
  WriteWords(<<>>, <<1, locator.port>>, e) \o Zeros(12) \o locator.address
EncodeReliability(reliable, e) ==
  WriteWords(<<>>, <<IF reliable THEN 2 ELSE 1, 0, 0>>, e)

(* A lease crosses as seconds and 2^-32 fractions of a second; both ways   *)
(* are cut to whole units.                                                 *)
Fraction(ms) == ((ms % 1000) * Capacity(4)) \div 1000
Milliseconds(seconds, fraction) == seconds * 1000 + (fraction * 1000) \div Capacity(4)
EncodeDuration(ms, e) == WriteWords(<<>>, <<ms \div 1000, Fraction(ms)>>, e)

DecodeGuid(value, e) == IF Len(value) >= 16 THEN Accept(SubSeq(value, 1, 16)) ELSE Deny
DecodePair(value, e) == IF Len(value) >= 2 THEN Accept(SubSeq(value, 1, 2)) ELSE Deny
DecodeUint32(value, e) ==
  LET r == Read(Reader(value, e), 4) IN IF r.valid THEN Accept(r.read[1]) ELSE Deny
DecodeString(value, e) ==
  LET r == OnlyZeroPadding(ReadString(Reader(value, e)))
  IN IF r.valid THEN Accept(r.read[1]) ELSE Deny

DecodeLocator(value, e) ==
  LET r == ReadBytes(ReadWords(Reader(value, e), 2), 16)
  IN IF r.valid /\ r.read[1] = 1 /\ r.read[2] \in 1..Capacity(2) - 1
        /\ SubSeq(r.read[3], 1, 12) = Zeros(12)
       THEN Accept([address |-> SubSeq(r.read[3], 13, 16), port |-> r.read[2]])
       ELSE Deny

DecodeDuration(value, e) ==
  LET r == ReadWords(Reader(value, e), 2)
      ms == Milliseconds(r.read[1], r.read[2])
  IN IF r.valid /\ r.read[1] <= MaxSeconds /\ ms > 0 THEN Accept(ms) ELSE Deny

DecodeReliability(value, e) ==
  LET r == Read(Reader(value, e), 4)
  IN IF r.valid /\ r.read[1] \in {1, 2} THEN Accept(r.read[1] = 2) ELSE Deny

-----------------------------------------------------------------------------
(* The lists.                                                              *)
ParticipantParameters(d, e) ==
  <<Parameter("version", d.version), Parameter("vendor", d.vendor),
    Parameter("participant_guid", d.participant_guid),
    Parameter("builtin", WriteWords(<<>>, <<d.builtin>>, e)),
    Parameter("metatraffic", EncodeLocator(d.metatraffic, e)),
    Parameter("user", EncodeLocator(d.user, e)),
    Parameter("lease", EncodeDuration(d.lease, e))>>
  \o (IF d.name = <<>> THEN <<>> ELSE <<Parameter("name", EncodeString(d.name, e))>>)

EndpointParameters(d, e) ==
  <<Parameter("endpoint_guid", d.endpoint_guid), Parameter("participant_guid", d.participant_guid),
    Parameter("topic", EncodeString(d.topic, e)), Parameter("type", EncodeString(d.type, e)),
    Parameter("unicast", EncodeLocator(d.unicast, e)),
    Parameter("reliability", EncodeReliability(d.reliability, e))>>

(* What the encoders ask of the data ...                                   *)
Announceable(d) ==
  CASE d.kind = "participant" ->
         ValidLocator(d.metatraffic) /\ ValidLocator(d.user) /\ ValidDuration(d.lease)
    [] d.kind = "endpoint" ->
         d.topic # <<>> /\ d.type # <<>> /\ ValidLocator(d.unicast)

ParametersOf(d, e) ==
  IF d.kind = "participant" THEN ParticipantParameters(d, e) ELSE EndpointParameters(d, e)

(* ... encode_participant_discovery_data, encode_endpoint_discovery_data.  *)
EncodeAnnouncement(d, e) ==
  IF Announceable(d) /\ Encodable(ParametersOf(d, e))
    THEN [kind |-> d.kind, bytes |-> EncodeList(ParametersOf(d, e), e)]
    ELSE Refused

DecodeValue(name, value, e) ==
  CASE name \in {"participant_guid", "endpoint_guid"}  -> DecodeGuid(value, e)
    [] name \in {"metatraffic", "user", "unicast"}     -> DecodeLocator(value, e)
    [] name \in {"version", "vendor"}                  -> DecodePair(value, e)
    [] name \in {"name", "topic", "type"}              -> DecodeString(value, e)
    [] name = "builtin"                                -> DecodeUint32(value, e)
    [] name = "lease"                                  -> DecodeDuration(value, e)
    [] name = "reliability"                            -> DecodeReliability(value, e)

(* What an announcement must have and what it may have ...                 *)
Mandatory == [participant |-> {"participant_guid", "metatraffic", "user"},
              endpoint    |-> {"endpoint_guid", "topic", "type", "unicast"}]
Optional == [participant |-> {"version", "vendor", "builtin", "lease", "name"},
             endpoint    |-> {"participant_guid", "reliability"}]

(* ... with the values taken for what it leaves out.                       *)
Default(name, endpoint_guid) ==
  CASE name = "version"          -> <<2, 3>>
    [] name = "vendor"           -> <<0, 0>>
    [] name = "builtin"          -> 63
    [] name = "lease"            -> 100000
    [] name = "name"             -> <<>>
    [] name = "reliability"      -> FALSE
    [] name = "participant_guid" -> SubSeq(endpoint_guid, 1, 12) \o ParticipantEntity

(* The first parameter of this name counts.                                *)
DecodeField(list, name) ==
  LET found == Matching(list.parameters, Pid[name])
  IN IF found = {} THEN Absent
     ELSE DecodeValue(name, list.parameters[Min(found)].value, list.endianness)

(* The result, from what has been decoded of each parameter.               *)
Announcement(kind, fields) ==
  IF /\ \A f \in Mandatory[kind] : fields[f].valid
     /\ \A f \in Optional[kind] : fields[f].valid \/ fields[f] = Absent
    THEN [f \in DOMAIN fields \cup {"kind"} |->
            IF f = "kind" THEN kind
            ELSE IF fields[f].valid THEN fields[f].value
            ELSE Default(f, fields["endpoint_guid"].value)]
    ELSE Refused

DecodeParameters(kind, list) ==
  IF list.valid
    THEN Announcement(kind, [f \in Mandatory[kind] \cup Optional[kind] |-> DecodeField(list, f)])
    ELSE Refused

(* decode_participant_discovery_data, decode_endpoint_discovery_data       *)
DecodeAnnouncement(wire) == DecodeParameters(wire.kind, DecodeList(wire.bytes))
=============================================================================
