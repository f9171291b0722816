------------------------------ MODULE Entities ------------------------------
(***************************************************************************)
(* The life of the DataWriters and DataReaders of one participant: the     *)
(* constructor takes an EntityId, registers a channel with the             *)
(* ParticipantMessageRouter, builds the RTPS endpoint and has it announced *)
(* by the DiscoveryService; the destructor takes these steps back.  Each   *)
(* entity is used by one thread; the threads share the id counters, the    *)
(* registrations, the error text of the router and the announcements.      *)
(*                                                                         *)
(* The router and the DiscoveryService appear here as far as the entities  *)
(* see them; ParticipantRouter and Discovery model them in full.           *)
(***************************************************************************)
EXTENDS Integers, FiniteSets

CONSTANTS Entities,     \* one per thread: the entity it makes and destroys
          Kind,         \* Kind[e]: "writer" or "reader"
          ExplicitIds,  \* the ids applications may ask for
          KeySpace      \* how many keys there are (2^24 in the code)

ASSUME KindAssumption == Kind \in [Entities -> {"writer", "reader"}]
ASSUME KeyAssumption == KeySpace \in Nat \ {0, 1}

Keys == 1..(KeySpace - 1)
Ids == [key : Keys, kind : {"writer", "reader"}] \cup ExplicitIds
NoId == [key |-> 0, kind |-> "none"]

Refusals == {"duplicate", "not running"}
RouterErrors == Refusals \cup {"broken", "not open"}
Errors == {""} \cup RouterErrors \cup
          {"no router", "no transport", "needs a fixed remote"}

VARIABLES
  router,      \* message_router: "none", "running", "failing" or "failed"
  last_error,  \* ParticipantMessageRouter: last_error
  discovery,   \* discovery && discovery->is_valid()
  next_key,    \* ParticipantState: next_writer_key, next_reader_key, of
               \* which the bits that are used
  pc,          \* pc[e]: the step of the constructor or destructor e is at
  refusal,     \* refusal[e]: add_channel: registration_error
  id,          \* id[e]: writer_id_, reader_id_
  discovers,   \* the DataWriters with uses_discovery_
  error,       \* error[e]: initialization_error_
  registered,  \* the entities that hold an active channel
  object,      \* those whose RTPS writer or reader exists
  owes,        \* those with registered_with_discovery_
  local        \* DiscoveryService: local_endpoints, as [id, owner]

shared == <<router, last_error, discovery, next_key, local>>
own == <<pc, refusal, id, discovers, error, registered, object, owes>>
entities_vars == <<shared, own>>

Steps == {"absent", "register", "refused", "ask", "build", "alive", "closing"}

EntitiesTypeOK ==
  /\ router \in {"none", "running", "failing", "failed"}
  /\ last_error \in {""} \cup RouterErrors
  /\ discovery \in BOOLEAN
  /\ next_key \in [{"writer", "reader"} -> 0..(KeySpace - 1)]
  /\ pc \in [Entities -> Steps]
  /\ refusal \in [Entities -> {""} \cup Refusals]
  /\ id \in [Entities -> Ids \cup {NoId}]
  /\ error \in [Entities -> Errors]
  /\ discovers \subseteq Entities /\ registered \subseteq Entities
  /\ object \subseteq registered  /\ owes \subseteq Entities
  /\ local \subseteq [id : Ids, owner : Entities]

(* DomainParticipant: without a socket there is no router, a router that   *)
(* is not open leaves discovery out, and discovery may be disabled or fail *)
(* to start.                                                               *)
EntitiesInit ==
  /\ router \in {"none", "running", "failed"}
  /\ last_error = IF router = "failed" THEN "not open" ELSE ""
  /\ discovery \in {FALSE, router = "running"}
  /\ next_key = [k \in {"writer", "reader"} |-> 1]
  /\ pc = [e \in Entities |-> "absent"]
  /\ refusal = [e \in Entities |-> ""]
  /\ id = [e \in Entities |-> NoId]
  /\ error = [e \in Entities |-> ""]
  /\ discovers = {} /\ registered = {} /\ object = {} /\ owes = {}
  /\ local = {}

-----------------------------------------------------------------------------
(* Definitions named Bug... are not part of the model: each is a mistake    *)
(* one could make in the definition that follows it.                       *)

Goto(e, from, to) == pc[e] = from /\ pc' = [pc EXCEPT ![e] = to]

(* ... the key 0, which the wrap produces, is given out.                   *)
BugUserKey(n) == n % KeySpace

(* make_user_entity_id: 24 bits of the counter, but never key 0.           *)
UserKey(n) == IF n % KeySpace = 0 THEN 1 ELSE n % KeySpace

(* The constructor begins: the id is the one asked for, or allocated.      *)
Begin(e, fixed) ==
  /\ Goto(e, "absent", "register")
  /\ discovers' = IF Kind[e] = "writer" /\ ~fixed
                  THEN discovers \cup {e} ELSE discovers \ {e}
  /\ \/ \E i \in ExplicitIds :
          id' = [id EXCEPT ![e] = i] /\ UNCHANGED next_key
     \/ LET n == next_key[Kind[e]] IN
          /\ id' = [id EXCEPT ![e] = [key |-> UserKey(n), kind |-> Kind[e]]]
          /\ next_key' = [next_key EXCEPT ![Kind[e]] = (n + 1) % KeySpace]
  /\ UNCHANGED <<router, last_error, discovery, local, refusal, error,
                 registered, object, owes>>

Taken(e) == \E d \in registered : Kind[d] = Kind[e] /\ id[d] = id[e]

Refuse(e, reason) ==
  /\ Goto(e, "register", "refused")
  /\ refusal' = [refusal EXCEPT ![e] = reason]
  /\ UNCHANGED <<error, registered>>

Grant(e) ==
  /\ Goto(e, "register", "build")
  /\ registered' = registered \cup {e}
  /\ UNCHANGED <<refusal, error>>

(* ... a registration that works out clears the error of the router.       *)
BugRegister(e) ==
  /\ \/ router # "running" /\ Refuse(e, "not running") /\ UNCHANGED last_error
     \/ router = "running" /\ Taken(e) /\ Refuse(e, "duplicate") /\ UNCHANGED last_error
     \/ router = "running" /\ ~Taken(e) /\ Grant(e) /\ last_error' = ""
  /\ UNCHANGED <<router, discovery, next_key, local, id, discovers, object, owes>>

(* ParticipantMessageRouter::add_channel, the part under channels_mutex.   *)
Register(e) ==
  /\ \/ /\ router = "none"
        /\ Goto(e, "register", "build")
        /\ error' = [error EXCEPT ![e] = "no router"]
        /\ UNCHANGED <<refusal, registered>>
     \/ router \in {"failing", "failed"} /\ Refuse(e, "not running")
     \/ router = "running" /\ Taken(e) /\ Refuse(e, "duplicate")
     \/ router = "running" /\ ~Taken(e) /\ Grant(e)
  /\ UNCHANGED <<shared, id, discovers, object, owes>>

(* The refusal is stored for all to see once the mutex is released, and    *)
(* read back by the constructor, after other threads may have been there.  *)
StoreError(e) ==
  /\ Goto(e, "refused", "ask")
  /\ last_error' = refusal[e]
  /\ UNCHANGED <<router, discovery, next_key, local, refusal, id, discovers,
                 error, registered, object, owes>>

AskError(e) ==
  /\ Goto(e, "ask", "build")
  /\ error' = [error EXCEPT ![e] = last_error]
  /\ refusal' = [refusal EXCEPT ![e] = ""]
  /\ UNCHANGED <<shared, id, discovers, registered, object, owes>>

Announce(e) ==
  /\ local' = {a \in local : a.id # id[e]} \cup {[id |-> id[e], owner |-> e]}
  /\ owes' = owes \cup {e}

(* ... an entity that could not be set up is announced as well.            *)
BugComplete(e) ==
  /\ Goto(e, "build", "alive")
  /\ object' = IF error[e] = "" /\ e \notin discovers THEN object \cup {e} ELSE object
  /\ IF discovery THEN Announce(e) ELSE UNCHANGED <<local, owes>>
  /\ UNCHANGED <<router, last_error, discovery, next_key, refusal, id,
                 discovers, error, registered>>

(* The RTPS endpoint, which a DataWriter that matches its readers through  *)
(* discovery builds with its first write only, and the announcement        *)
(* (announce_local_endpoint: one record for each Guid, the latest).        *)
Complete(e) ==
  /\ Goto(e, "build", "alive")
  /\ error' = IF error[e] = "" /\ e \in discovers /\ ~discovery
              THEN [error EXCEPT ![e] = "needs a fixed remote"] ELSE error
  /\ object' = IF error[e] = "" /\ e \notin discovers THEN object \cup {e} ELSE object
  /\ IF error[e] = "" /\ discovery THEN Announce(e) ELSE UNCHANGED <<local, owes>>
  /\ UNCHANGED <<router, last_error, discovery, next_key, refusal, id,
                 discovers, registered>>

(* write, when discovery has matched readers for the first time:           *)
(* create_writer.                                                          *)
FirstMatch(e) ==
  /\ pc[e] = "alive" /\ error[e] = "" /\ e \in discovers \ object
  /\ IF e \in registered
       THEN object' = object \cup {e} /\ UNCHANGED error
       ELSE error' = [error EXCEPT ![e] = "no transport"] /\ UNCHANGED object
  /\ UNCHANGED <<shared, pc, refusal, id, discovers, registered, owes>>

(* The destructor: the endpoint and its channel go first, which frees the  *)
(* id for others ...                                                       *)
Release(e) ==
  /\ Goto(e, "alive", "closing")
  /\ object' = object \ {e}
  /\ registered' = registered \ {e}
  /\ UNCHANGED <<shared, refusal, id, discovers, error, owes>>

(* ... then whatever is announced under the id.                            *)
Withdraw(e) ==
  /\ Goto(e, "closing", "absent")
  /\ local' = IF e \in owes THEN {a \in local : a.id # id[e]} ELSE local
  /\ owes' = owes \ {e}
  /\ id' = [id EXCEPT ![e] = NoId]
  /\ error' = [error EXCEPT ![e] = ""]
  /\ UNCHANGED <<router, last_error, discovery, next_key, refusal, discovers,
                 registered, object>>

(* The receiver thread of the router: fail.                                *)
RouterFails ==
  /\ \/ router = "running" /\ router' = "failing" /\ UNCHANGED last_error
     \/ router = "failing" /\ router' = "failed" /\ last_error' = "broken"
  /\ UNCHANGED <<discovery, next_key, local, own>>

EntitiesNext ==
  \/ RouterFails
  \/ \E e \in Entities :
       \/ \E fixed \in BOOLEAN : Begin(e, fixed)
       \/ Register(e) \/ StoreError(e) \/ AskError(e) \/ Complete(e)
       \/ FirstMatch(e) \/ Release(e) \/ Withdraw(e)

EntitiesSpec == EntitiesInit /\ [][EntitiesNext]_entities_vars

-----------------------------------------------------------------------------
(* An entity that reports no error can be used: it has its transport, and  *)
(* the endpoint write and take dereference without a test.  This rests on  *)
(* the shared error text, which other threads replace between a refusal    *)
(* and its report, never being empty by then.                              *)
UsableOrError ==
  \A e \in Entities : pc[e] = "alive" /\ error[e] = "" =>
    e \in registered /\ (e \in object \/ e \in discovers)

(* What is announced can be reached, or is about to be withdrawn: behind   *)
(* every record stands an entity with that id and a channel, and its       *)
(* destructor will remove the record.                                      *)
AnnouncementsAreBacked ==
  \A a \in local :
    /\ id[a.owner] = a.id /\ a.owner \in owes
    /\ a.owner \in registered \/ pc[a.owner] = "closing"

(* An entity that discovery was told of stays announced while it lives.    *)
LiveIsAnnounced ==
  \A e \in owes : pc[e] = "alive" => [id |-> id[e], owner |-> e] \in local
=============================================================================
