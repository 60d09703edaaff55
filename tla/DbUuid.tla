------------------------------- MODULE DbUuid -------------------------------
(***************************************************************************)
(* DatabaseUuidModule (services/service_module): how the services of a     *)
(* kind (the worlds for role ids, the logins for user ids) draw unique ids *)
(* from one counter in the database.  Each service takes the ids in        *)
(* batches into a pool of its own and hands them out one by one; when the  *)
(* pool runs low it queries the database for the next batch.               *)
(*                                                                         *)
(* The database increments the counter atomically and returns the new      *)
(* value (find_one_and_update with $inc, upsert and return_after); a query *)
(* that fails may or may not have incremented it.  The first upsert is     *)
(* assumed to create one document only.                                    *)
(***************************************************************************)
EXTENDS Integers, FiniteSets

CONSTANTS
    Services,               \* the services that share one counter
    Hold_Uuid_Min_Count,    \* at or below this a pool is refilled
    Apply_Uuid_Count,       \* ids per batch (.._From_Database)
    MaxId,                  \* bound on the counter in the database
    MaxStops                \* bound on stops and crashes of services

ASSUME UuidAssumption ==
    /\ Hold_Uuid_Min_Count \in Nat /\ Apply_Uuid_Count \in Nat
    /\ Hold_Uuid_Min_Count < Apply_Uuid_Count
    /\ MaxId \in Nat /\ MaxStops \in Nat

VARIABLES
    last_id,    \* the counter in the database
    state,      \* curr_state of each module; "failed" when error_num is set
    ids,        \* uuid_pool.ids
    ids_count,  \* uuid_pool.ids_count
    querying,   \* uuid_pool.querying
    task,       \* the query at the database client, if any
    to_id,      \* what a query that is done returned: the counter's new value
    stops,      \* stops and crashes so far
    handed,     \* history: how often each id was handed out
    erred       \* history: a query of this pool failed

uuidVars == <<last_id, state, ids, ids_count, querying, task, to_id, stops, handed, erred>>

Ids == 1..MaxId
States == {"free", "starting", "started", "failed"}
QueryStates == {"none", "sent", "done", "error"}

UuidTypeOK ==
    /\ last_id \in 0..MaxId
    /\ state \in [Services -> States]
    /\ ids \in [Services -> SUBSET Ids]
    /\ ids_count \in [Services -> Nat]
    /\ querying \in [Services -> BOOLEAN]
    /\ task \in [Services -> QueryStates]
    /\ to_id \in [Services -> 0..MaxId]
    /\ stops \in 0..MaxStops
    /\ handed \in [Ids -> Nat]
    /\ erred \in [Services -> BOOLEAN]

UuidInit ==
    /\ last_id = 0
    /\ state = [s \in Services |-> "free"]
    /\ ids = [s \in Services |-> {}]
    /\ ids_count = [s \in Services |-> 0]
    /\ querying = [s \in Services |-> FALSE]
    /\ task = [s \in Services |-> "none"]
    /\ to_id = [s \in Services |-> 0]
    /\ stops = 0
    /\ handed = [i \in Ids |-> 0]
    /\ erred = [s \in Services |-> FALSE]

\* The batch a query returned: ids from to - apply_num + 1 to to.  (An operator
\* marked "slip" is a variant the code does not have: a mistake that one of
\* the properties catches.)
BatchFromLastTo(to) == (to - Apply_Uuid_Count)..to          \* slip
Batch(to) == (to - Apply_Uuid_Count + 1)..to

\* _apply_uuids_from_database, unless a query is out.
Query(s) ==
    IF querying[s] THEN UNCHANGED <<querying, task>>
    ELSE /\ querying' = [querying EXCEPT ![s] = TRUE]
         /\ task' = [task EXCEPT ![s] = "sent"]

\* start: without a connection to the database the module fails, else it
\* queries its first batch.
StartModule(s) ==
    /\ state[s] = "free"
    /\ \/ /\ state' = [state EXCEPT ![s] = "failed"]
          /\ UNCHANGED <<querying, task>>
       \/ /\ state' = [state EXCEPT ![s] = "starting"]
          /\ Query(s)
    /\ UNCHANGED <<last_id, ids, ids_count, to_id, stops, handed, erred>>

\* check_start_success: the module is started once its pool holds an id, and
\* fails when that takes longer than Wait_Start_Max_Second.
CheckStartSuccess(s) ==
    /\ state[s] = "starting"
    /\ \/ ids[s] # {} /\ state' = [state EXCEPT ![s] = "started"]
       \/ state' = [state EXCEPT ![s] = "failed"]
    /\ UNCHANGED <<last_id, ids, ids_count, querying, task, to_id, stops, handed, erred>>

\* The database runs the query of s, or reports an error for it.
DbRuns(s) ==
    /\ task[s] = "sent"
    /\ \/ /\ last_id + Apply_Uuid_Count <= MaxId
          /\ last_id' = last_id + Apply_Uuid_Count
          /\ \/ /\ task' = [task EXCEPT ![s] = "done"]
                /\ to_id' = [to_id EXCEPT ![s] = last_id']
             \/ /\ task' = [task EXCEPT ![s] = "error"]
                /\ UNCHANGED to_id
       \/ /\ task' = [task EXCEPT ![s] = "error"]
          /\ UNCHANGED <<last_id, to_id>>
    /\ UNCHANGED <<state, ids, ids_count, querying, stops, handed, erred>>

\* _apply_uuids_from_database_cb with an error: it queries again while
\* querying is still set, so no query goes out.
QueryFailed(s) ==
    /\ task[s] = "error"
    /\ task' = [task EXCEPT ![s] = "none"]
    /\ erred' = [erred EXCEPT ![s] = TRUE]
    /\ UNCHANGED <<last_id, state, ids, ids_count, querying, to_id, stops, handed>>

\* _apply_uuids_from_database_cb with a batch, each id by revert.
QueryDone(s) ==
    /\ task[s] = "done"
    /\ task' = [task EXCEPT ![s] = "none"]
    /\ querying' = [querying EXCEPT ![s] = FALSE]
    /\ ids' = [ids EXCEPT ![s] = @ \cup Batch(to_id[s])]
    /\ ids_count' = [ids_count EXCEPT ![s] = @ + Cardinality(Batch(to_id[s]) \ ids[s])]
    /\ UNCHANGED <<last_id, state, to_id, stops, handed, erred>>

\* apply: hands out any id of the pool; with an empty pool it returns nil
\* and changes nothing.
ApplyBelowMin(s, id) ==                                     \* slip
    /\ id \in ids[s]
    /\ ids' = [ids EXCEPT ![s] = @ \ {id}]
    /\ ids_count' = [ids_count EXCEPT ![s] = @ - 1]
    /\ handed' = [handed EXCEPT ![id] = @ + 1]
    /\ IF ids_count'[s] < Hold_Uuid_Min_Count THEN Query(s) ELSE UNCHANGED <<querying, task>>
    /\ UNCHANGED <<last_id, state, to_id, stops, erred>>
Apply(s, id) ==
    /\ id \in ids[s]
    /\ ids' = [ids EXCEPT ![s] = @ \ {id}]
    /\ ids_count' = [ids_count EXCEPT ![s] = @ - 1]
    /\ handed' = [handed EXCEPT ![id] = @ + 1]
    /\ IF ids_count'[s] <= Hold_Uuid_Min_Count THEN Query(s) ELSE UNCHANGED <<querying, task>>
    /\ UNCHANGED <<last_id, state, to_id, stops, erred>>

\* The service stops, or crashes, and is started afresh: pool and answer are
\* lost, and a query at the database may still be run.
StopModule(s) ==
    /\ state[s] # "free" /\ stops < MaxStops
    /\ stops' = stops + 1
    /\ \/ UNCHANGED last_id
       \/ /\ task[s] = "sent" /\ last_id + Apply_Uuid_Count <= MaxId
          /\ last_id' = last_id + Apply_Uuid_Count
    /\ state' = [state EXCEPT ![s] = "free"]
    /\ ids' = [ids EXCEPT ![s] = {}]
    /\ ids_count' = [ids_count EXCEPT ![s] = 0]
    /\ querying' = [querying EXCEPT ![s] = FALSE]
    /\ task' = [task EXCEPT ![s] = "none"]
    /\ erred' = [erred EXCEPT ![s] = FALSE]
    /\ UNCHANGED <<to_id, handed>>

UuidNext ==
    \E s \in Services :
        \/ StartModule(s) \/ CheckStartSuccess(s) \/ StopModule(s)
        \/ DbRuns(s) \/ QueryFailed(s) \/ QueryDone(s)
        \/ \E id \in Ids : Apply(s, id)

UuidSpec == UuidInit /\ [][UuidNext]_uuidVars

-----------------------------------------------------------------------------
\* No id is handed out twice, by one service or by two, across failed
\* queries, stops and crashes (role ids of create_role, user ids of
\* process_req_login_game).
NeverTwice == \A i \in Ids : handed[i] <= 1

\* A pool that is down to Hold_Uuid_Min_Count has its next batch on the way,
\* unless a query of it failed: then none is ever sent again.
LowPoolRefills ==
    \A s \in Services :
        state[s] = "started" /\ ~ erred[s] /\ Cardinality(ids[s]) <= Hold_Uuid_Min_Count
            => task[s] # "none"
=============================================================================
