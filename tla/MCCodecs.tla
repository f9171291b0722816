------------------------------ MODULE MCCodecs ------------------------------
EXTENDS Codecs

MCMagic == <<5, 4, 3, 2>>
MCPid == [name \in PidNames |->
  CASE name = "lease" -> 2 [] name = "topic" -> 5 [] name = "type" -> 7
    [] name = "version" -> 21 [] name = "vendor" -> 22 [] name = "reliability" -> 26
    [] name = "unicast" -> 47 [] name = "user" -> 49 [] name = "metatraffic" -> 50
    [] name = "participant_guid" -> 51 [] name = "builtin" -> 56
    [] name = "endpoint_guid" -> 58 [] name = "name" -> 60]
MCParticipantEntity == <<0, 0, 1, 7>>

From == [version |-> <<2, 3>>, vendor |-> <<0, 1>>, prefix |-> [i \in 1..12 |-> i % 8]]
Ids == [from |-> From, reader_id |-> <<0, 0, 1, 4>>, writer_id |-> <<0, 0, 1, 2>>]
MaxSn == Capacity(8) \div 2 - 1
Word == Capacity(4)

Heartbeat(first, last, count, flags) ==
  Ids @@ [kind |-> "heartbeat", first |-> first, last |-> last, count |-> count, flags |-> flags]
Set(base, num_bits, numbers) == [base |-> base, num_bits |-> num_bits, numbers |-> numbers]
AckNack(set, count, flags) ==
  Ids @@ [kind |-> "acknack", set |-> set, count |-> count, flags |-> flags]
Gap(start, set) == Ids @@ [kind |-> "gap", start |-> start, set |-> set]
Data(sn, payload) == Ids @@ [kind |-> "data", sn |-> sn, payload |-> payload]

Locator(port) == [address |-> <<7, 0, 0, 1>>, port |-> port]
Guid(entity) == From.prefix \o <<0, 0, 1, entity>>
Participant(port, lease, name) ==
  [kind |-> "participant", participant_guid |-> Guid(7), version |-> <<2, 3>>, vendor |-> <<0, 1>>,
   metatraffic |-> Locator(port), user |-> Locator(11), builtin |-> 63,
   lease |-> lease, name |-> name]
Endpoint(topic, reliable) ==
  [kind |-> "endpoint", endpoint_guid |-> Guid(4), participant_guid |-> Guid(7), topic |-> topic,
   type |-> <<1, 0, 2>>, unicast |-> Locator(63), reliability |-> reliable]

Sendable ==
  {Heartbeat(1, 1, 1, {}), Heartbeat(Word - 1, Word, 2047, {1}), Heartbeat(Word, MaxSn, 1, {1, 2})}
  \cup {AckNack(Set(1, 0, {}), 1, {1}), AckNack(Set(Word - 2, 5, {Word - 2, Word + 1}), 2, {}),
        AckNack(Set(1, 13, {1, 12, 13}), 1, {}), AckNack(Set(7, 24, 8..30), 1, {})}
  \cup {Gap(1, Set(1, 0, {})), Gap(1, Set(2, 3, {2, 4})), Gap(Word, Set(MaxSn - 12, 12, {MaxSn - 1}))}
  \cup {Data(1, <<>>), Data(Word, <<1, 2, 3, 4, 5>>), Data(MaxSn, [i \in 1..43 |-> 6])}
  \cup {Participant(10, 2, <<>>), Participant(63, 1999, <<3>>), Participant(1, 2047999, <<3, 0, 4>>)}
  \cup {Endpoint(<<1>>, TRUE), Endpoint(<<1, 2, 3, 4>>, FALSE)}
  \cup {[kind |-> "string", value |-> v] : v \in {<<>>, <<1>>, <<1, 0, 5>>}}

MCUnsendable ==
  {Heartbeat(0, 1, 1, {}), Heartbeat(2, 1, 1, {}), Heartbeat(1, 1, 0, {}), AckNack(Set(0, 0, {}), 1, {}),
   AckNack(Set(1, 25, {1}), 1, {}), AckNack(Set(1, 2, {1, 3}), 1, {}), AckNack(Set(1, 1, {}), 0, {}),
   Gap(0, Set(1, 0, {})), Gap(3, Set(2, 0, {})), Data(0, <<>>), Data(1, [i \in 1..44 |-> 6]),
   Participant(0, 2, <<>>), Participant(10, 0, <<>>), Participant(10, 2048000, <<>>),
   Endpoint(<<>>, TRUE), Endpoint([i \in 1..56 |-> 1], TRUE)}

MCMessages == Sendable \cup MCUnsendable
=============================================================================
