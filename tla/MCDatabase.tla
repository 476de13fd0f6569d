----------------------------- MODULE MCDatabase ----------------------------
(* The usage database, filling in one process, and its file being brought   *)
(* up to date by two.  A behaviour is one of them, and the other rests.  No  *)
(* row depends on the aggregates that are cached: three rows are followed    *)
(* with the caches left empty, and two with all of them in use.             *)
EXTENDS UsageDb, Schema, TLC

CONSTANTS r1, r2, r3, k1

(* Three rows: two requests and a probe of one key. *)
MCKeyOf == r1 :> k1 @@ r2 :> k1 @@ r3 :> k1

VARIABLE focus

MCInit ==
    /\ Init /\ SchemaInit /\ focus \in {"rows", "views", "schema"}
    /\ focus # "schema" => tables = {} /\ columns = {}

MCNext ==
    /\ \/ focus = "rows" /\ Next /\ UNCHANGED <<cache, schemaVars>>
       \/ focus = "views" /\ Next /\ r3 \notin ended' /\ UNCHANGED schemaVars
       \/ focus = "schema" /\ SchemaNext /\ UNCHANGED vars
    /\ UNCHANGED focus

(* The fairness is that of UsageDb. *)
MCSpec ==
    /\ MCInit /\ [][MCNext]_<<vars, schemaVars, focus>>
    /\ WF_vars(focus # "schema" /\ TimerFires)

=============================================================================
