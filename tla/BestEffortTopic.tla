--------------------------- MODULE BestEffortTopic ---------------------------
(***************************************************************************)
(* What a Best-Effort topic with one writer promises each reader, without  *)
(* queues or datagrams.  Samples are offered in publication order, each    *)
(* once.  An offered sample may arrive never, late, or again after the     *)
(* application has dealt with it.  The application gets what arrives in    *)
(* order of arrival, and of what it has not yet taken only the last Depth  *)
(* arrivals (KeepLast).                                                    *)
(***************************************************************************)
EXTENDS Integers, Sequences

CONSTANTS Readers,     \* the readers of the topic
          Samples,     \* the numbers samples can have
          Depth        \* how many untaken samples a reader keeps

VARIABLES
  offered,   \* offered[r]: the samples sent to r, in order
  arrived,   \* arrived[r]: what the reader has accepted, in order
  position,  \* position[r]: how many of those are taken or passed over
  latest     \* latest[r]: the sample the application got last, 0 for none

topicVars == <<offered, arrived, position, latest>>

TopicInit ==
  /\ offered = [r \in Readers |-> <<>>]
  /\ arrived = [r \in Readers |-> <<>>]
  /\ position = [r \in Readers |-> 0]
  /\ latest = [r \in Readers |-> 0]

Offer(r, n) ==
  /\ \A i \in 1..Len(offered[r]) : offered[r][i] < n
  /\ offered' = [offered EXCEPT ![r] = Append(@, n)]
  /\ UNCHANGED <<arrived, position, latest>>

(* One more arrival passes over the oldest of Depth untaken samples.       *)
Arrive(r, n) ==
  /\ \E i \in 1..Len(offered[r]) : offered[r][i] = n
  /\ \A i \in (position[r] + 1)..Len(arrived[r]) : arrived[r][i] # n
  /\ arrived' = [arrived EXCEPT ![r] = Append(@, n)]
  /\ position' = [position EXCEPT ![r] =
       IF Len(arrived[r]) - @ = Depth THEN @ + 1 ELSE @]
  /\ UNCHANGED <<offered, latest>>

TakeNext(r) ==
  /\ position[r] < Len(arrived[r])
  /\ position' = [position EXCEPT ![r] = @ + 1]
  /\ latest' = [latest EXCEPT ![r] = arrived[r][position[r] + 1]]
  /\ UNCHANGED <<offered, arrived>>

TopicNext ==
  \E r \in Readers : TakeNext(r) \/ \E n \in Samples : Offer(r, n) \/ Arrive(r, n)

TopicSpec == TopicInit /\ [][TopicNext]_topicVars
=============================================================================
