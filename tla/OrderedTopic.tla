----------------------------- MODULE OrderedTopic -----------------------------
(***************************************************************************)
(* What a Reliable topic with one writer promises, without any protocol:   *)
(* samples are published to a set of readers, readers take them over in    *)
(* publication order and at most once, and the writer settles them one     *)
(* after the other as confirmed or failed.                                 *)
(***************************************************************************)
EXTENDS Integers

CONSTANTS Readers,      \* the readers a sample can be addressed to
          MaxSequence   \* bound: the number of samples published

VARIABLES addressed,  \* addressed[n]: the readers sample n is published to
          outcome,    \* outcome[n]: what the writer says of sample n
          delivered   \* delivered[r]: the samples handed to reader r

topicVars == <<addressed, outcome, delivered>>

Samples == 1..MaxSequence

Published(n) == outcome[n] # "unwritten"
Settled(n)   == outcome[n] \in {"confirmed", "failed"}

(* Samples are settled in order: n is due when all before it are settled.  *)
Due(n) == Published(n) /\ \A m \in 1..(n - 1) : Settled(m)

TopicInit ==
  /\ addressed = [n \in Samples |-> {}]
  /\ outcome = [n \in Samples |-> "unwritten"]
  /\ delivered = [r \in Readers |-> {}]

Publish(n, S) ==
  /\ ~Published(n)
  /\ \A m \in 1..(n - 1) : Published(m)
  /\ addressed' = [addressed EXCEPT ![n] = S]
  /\ outcome' = [outcome EXCEPT ![n] = "pending"]
  /\ UNCHANGED delivered

(* Reader r takes over the new samples D, all of them later than what it   *)
(* has; it passes over a sample addressed to it only if that one failed.   *)
HandOver(r, D) ==
  /\ \A n \in D : /\ Due(n)
                  /\ r \in addressed[n]
                  /\ \A m \in delivered[r] : m < n
                  /\ \A m \in 1..(n - 1) :
                        \/ r \notin addressed[m]
                        \/ m \in delivered[r] \cup D
                        \/ outcome[m] = "failed"
  /\ delivered' = [delivered EXCEPT ![r] = @ \cup D]
  /\ UNCHANGED <<addressed, outcome>>

Confirm(n) ==
  /\ Due(n)
  /\ outcome[n] = "pending"
  /\ \A r \in addressed[n] : n \in delivered[r]
  /\ outcome' = [outcome EXCEPT ![n] = "confirmed"]
  /\ UNCHANGED <<addressed, delivered>>

Fail(n) ==
  /\ Due(n)
  /\ outcome[n] = "pending"
  /\ outcome' = [outcome EXCEPT ![n] = "failed"]
  /\ UNCHANGED <<addressed, delivered>>

TopicNext ==
  \/ \E n \in Samples :
        \/ \E S \in SUBSET Readers : Publish(n, S)
        \/ Confirm(n)
        \/ Fail(n)
  \/ \E r \in Readers, D \in SUBSET Samples : HandOver(r, D)

TopicSpec == TopicInit /\ [][TopicNext]_topicVars
=============================================================================
