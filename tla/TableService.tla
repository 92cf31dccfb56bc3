---------------------------- MODULE TableService ----------------------------
(***************************************************************************)
(* What a table store promises its clients: tables, and in each at most    *)
(* one entity per key.  A request changes one table: it creates or deletes *)
(* it, or it writes, as one step, any number of its entities (one for an   *)
(* entity operation, several for an entity group transaction).  What it    *)
(* writes carries an etag that no request before was given; the entities   *)
(* of one request may share one.                                           *)
(***************************************************************************)
CONSTANTS Tables, Keys, Etags, NoEntity

VARIABLES
    tables,     \* the tables that exist
    entities,   \* table |-> key |-> its entity, or NoEntity
    used        \* the etags given out so far

vars == <<tables, entities, used>>

Init ==
    /\ tables = {}
    /\ entities = [t \in Tables |-> [k \in Keys |-> NoEntity]]
    /\ used = {}

Create(t) ==
    /\ t \notin tables
    /\ tables' = tables \cup {t}
    /\ UNCHANGED <<entities, used>>

Delete(t) ==
    /\ t \in tables
    /\ tables' = tables \ {t}
    /\ entities' = [entities EXCEPT ![t] = [k \in Keys |-> NoEntity]]
    /\ UNCHANGED used

\* A failed transaction may have spent etags and leaves the entities alone.
Write(t) ==
    /\ t \in tables
    /\ used' \in SUBSET Etags
    /\ used \subseteq used'
    /\ \A s \in Tables \ {t} : entities'[s] = entities[s]
    /\ \A k \in Keys :
          \/ entities'[t][k] = entities[t][k]
          \/ entities'[t][k] = NoEntity
          \/ entities'[t][k].etag \in used' \ used
    /\ UNCHANGED tables

Next == \E t \in Tables : Create(t) \/ Delete(t) \/ Write(t)

Spec == Init /\ [][Next]_vars
=============================================================================
