------------------------------- MODULE Schema -------------------------------
(***************************************************************************)
(* How a process opens the usage database and brings an older file up to    *)
(* date (the constructor of UsageDb and migrate(), src/usagedb.ts): create  *)
(* the tables that are missing, look at the columns of those that are there *)
(* and add the missing ones, prepare the statements the process lives on.   *)
(* While a deployment changes over, the old and the new process may do so   *)
(* at once; either may end at any point; any statement may be refused by a  *)
(* locked database or a full disk.                                          *)
(*                                                                          *)
(* Each table stands for its group of ensure...() calls, and one column for *)
(* all that are treated alike: path for path, ua, client, ip, token_fp and  *)
(* cost_micro_cents; one of accounts for its five; one of tokens for its    *)
(* thirteen.  The index on token_fp, the totals and the settings of the     *)
(* connection decide nothing here.                                          *)
(***************************************************************************)
EXTENDS Naturals, Sequences

CONSTANT Processes

(* In the order they are brought up to date. *)
Groups == <<"accounts", "requests", "tokens", "admin_audit">>
Columns == [accounts |-> {"oauth_refresh_enc"},
            requests |-> {"path", "api_key_fp"},
            tokens |-> {"quota_usd"},
            admin_audit |-> {"audit ip"}]
Tables == DOMAIN Columns
AllColumns == UNION {Columns[t] : t \in Tables}

(* Of the missing ones, the path is added first. *)
First(missing) == IF "path" \in missing THEN "path" ELSE CHOOSE c \in missing : TRUE

VARIABLES
    tables,     \* the tables in the file
    columns,    \* their columns
    opening     \* per process: see Off

schemaVars == <<tables, columns, opening>>

(* group: the one it is at; missing: the columns it has seen missing and    *)
(* not dealt with; again: it tries the first one a second time; wide: the   *)
(* statement it writes requests with has api_key_fp; cause: history, what   *)
(* was refused since it started.                                            *)
Off == [pc |-> "off", group |-> 1, missing |-> {}, again |-> FALSE,
        wide |-> FALSE, cause |-> "none"]

(* A file of any version, or one that a process died over. *)
SchemaInit ==
    /\ tables \in SUBSET Tables
    /\ columns \in SUBSET UNION {Columns[t] : t \in tables}
    /\ opening = [p \in Processes |-> Off]

At(p, pc) == opening[p].pc = pc
Goes(p, rec) == opening' = [opening EXCEPT ![p] = rec]
Given(p, pc, cause) ==
    Goes(p, [opening[p] EXCEPT !.pc = pc, !.cause = cause])

----------------------------------------------------------------------------
(* The tables *)

Open(p) ==
    /\ At(p, "off")
    /\ Given(p, "tables", "none") \/ Given(p, "disabled", "file")
    /\ UNCHANGED <<tables, columns>>

(* CREATE TABLE IF NOT EXISTS: a new table has all its columns. *)
CreateTable(p, t) ==
    /\ At(p, "tables") /\ t \notin tables
    /\ \/ /\ tables' = tables \cup {t} /\ columns' = columns \cup Columns[t]
          /\ UNCHANGED opening
       \/ Given(p, "disabled", "file") /\ UNCHANGED <<tables, columns>>

TablesThere(p) ==
    /\ At(p, "tables") /\ tables = Tables
    /\ Goes(p, [opening[p] EXCEPT !.pc = "look"])
    /\ UNCHANGED <<tables, columns>>

----------------------------------------------------------------------------
(* The columns *)

NextGroup(rec) ==
    IF rec.group = Len(Groups) THEN [rec EXCEPT !.pc = "prepare", !.missing = {}]
    ELSE [rec EXCEPT !.pc = "look", !.group = @ + 1, !.missing = {}]

(* pragma_table_info(), or it is refused and the group is left as it is. *)
Look(p) ==
    LET me == opening[p]
        seen == Columns[Groups[me.group]] \ columns IN
    /\ At(p, "look")
    /\ \/ Goes(p, IF seen = {} THEN NextGroup(me) ELSE [me EXCEPT !.pc = "add", !.missing = seen])
       \/ Goes(p, [NextGroup(me) EXCEPT !.cause = "column"])
    /\ UNCHANGED <<tables, columns>>

Dealt(rec) ==
    LET rest == rec.missing \ {First(rec.missing)} IN
    IF rest = {} THEN NextGroup([rec EXCEPT !.again = FALSE])
    ELSE [rec EXCEPT !.missing = rest, !.again = FALSE]

(* Mutant: one try around the columns of a table. *)
OneTry(rec) == NextGroup([rec EXCEPT !.again = FALSE])

(* What a failed ALTER leads to: the next column, but for api_key_fp, which *)
(* is tried once more.                                                      *)
AfterFailure(rec) ==
    IF First(rec.missing) = "api_key_fp" /\ ~rec.again THEN [rec EXCEPT !.again = TRUE]
    ELSE Dealt(rec)

AddColumn(p) ==
    LET me == opening[p]
        c  == First(me.missing) IN
    /\ At(p, "add") /\ c \notin columns
    /\ columns' = columns \cup {c}
    /\ Goes(p, Dealt(me))
    /\ UNCHANGED tables

(* ALTER TABLE is refused: the other process was faster, or for another     *)
(* reason.                                                                  *)
ColumnRefused(p) ==
    LET me == opening[p]
        c  == First(me.missing) IN
    /\ At(p, "add")
    /\ Goes(p, [AfterFailure(me) EXCEPT !.cause = IF c \in columns THEN @ ELSE "column"])
    /\ UNCHANGED <<tables, columns>>

----------------------------------------------------------------------------
(* The statements *)

(* A statement that names a column the table does not have is refused, and  *)
(* with it the database for the life of the process; that of the requests   *)
(* has a shorter form.                                                      *)
Prepare(p) ==
    /\ At(p, "prepare")
    /\ IF {"path", "audit ip"} \subseteq columns
       THEN Goes(p, [opening[p] EXCEPT !.pc = "serving", !.wide = "api_key_fp" \in columns])
       ELSE Goes(p, [opening[p] EXCEPT !.pc = "disabled"])
    /\ UNCHANGED <<tables, columns>>

(* It stops or is killed, at any point. *)
Stop(p) ==
    /\ ~At(p, "off")
    /\ Goes(p, Off)
    /\ UNCHANGED <<tables, columns>>

SchemaNext ==
    \E p \in Processes :
        \/ Open(p) \/ TablesThere(p) \/ Look(p) \/ AddColumn(p) \/ ColumnRefused(p)
        \/ Prepare(p) \/ Stop(p)
        \/ \E t \in Tables : CreateTable(p, t)

SchemaSpec == SchemaInit /\ [][SchemaNext]_schemaVars

----------------------------------------------------------------------------

(* Two processes that bring the same file up to date do each other no harm: *)
(* one that serves without a column, or without a database, was refused a   *)
(* statement for another reason than that the other one was faster, however *)
(* their steps fall and whatever file a crash has left (src/usagedb.ts:     *)
(* 876-879, each column by itself).                                         *)
RaceLosesNothing ==
    \A p \in Processes :
        opening[p].cause = "none" => ~At(p, "disabled") /\ (At(p, "serving") => opening[p].wide)

(* src/usagedb.ts:774-776: when a column of the requests cannot be added it *)
(* is only logged, the proxy and the totals of the panel are not affected;  *)
(* 781-782 says the same of the audit's address.                            *)
ColumnFailureLocal == \A p \in Processes : At(p, "disabled") => opening[p].cause = "file"

=============================================================================
