------------------------------- MODULE Panel -------------------------------
(***************************************************************************)
(* What the operator changes in the panel while the gateway runs, and what  *)
(* a restart makes of it: the settings (src/settings.ts), the model aliases *)
(* (src/modelmap.ts), the sessions (AdminSessions) and the lists of the     *)
(* keys (ModelAccess).                                                      *)
(*                                                                          *)
(* A handler changes the database, then the configuration in memory, in     *)
(* one turn of the event loop, after its body has come.  Of the settings,   *)
(* the password and the list of models are kept: the others go the way of   *)
(* the password.  A start that cannot read a table, because a query fails   *)
(* or there is no database, goes on with what the environment and the code  *)
(* say; what cannot be written in such a life is a step not taken.          *)
(***************************************************************************)
EXTENDS AdminSessions, ModelAccess

CONSTANTS
    EnvPassword,        \* ADMIN_PASS, or its default
    CodeList,           \* ALLOWED_MODELS
    Aliases, Targets,
    EnvTarget,          \* per alias: what MODEL_MAP says
    NoTarget,
    Unset,              \* no row in the settings
    Null                \* a row that says null

ASSUME PanelAssumption ==
    /\ EnvPassword \in Passwords /\ CodeList \in Lists
    /\ EnvTarget \in [Aliases -> Targets \cup {NoTarget}]

VARIABLES
    allowed,    \* cfg.globalAllowedModels
    stored,     \* the settings table
    aliasRow,   \* the model_aliases table
    modelMap,   \* cfg.modelMap
    unread,         \* history: the settings this start could not read, not set since
    unreadAliases   \* history: the aliases, likewise

settingVars == <<pass, allowed, stored, aliasRow, modelMap, unread, unreadAliases>>
vars == <<settingVars, sessionVars, accessVars>>

----------------------------------------------------------------------------
(* What a start makes of the tables, and what the panel makes of a value *)

PasswordOf(value) == IF value = Unset THEN EnvPassword ELSE value
ListOf(value) == IF value \in {Unset, Null} THEN CodeList ELSE value
TargetOf(alias, target) == IF target = NoTarget THEN EnvTarget[alias] ELSE target

Given(value, old) == IF value = Unset THEN old ELSE value

(* What a start runs with that has not read what is "lost". *)
PasswordLoaded(lost) == IF "pass" \in lost THEN EnvPassword ELSE PasswordOf(stored.pass)
ListLoaded(lost) == IF "list" \in lost THEN CodeList ELSE ListOf(stored.list)
TargetLoaded(alias, lost) ==
    IF alias \in lost THEN EnvTarget[alias] ELSE TargetOf(alias, aliasRow[alias])

Init ==
    /\ stored = [pass |-> Unset, list |-> Unset]
    /\ pass = EnvPassword /\ allowed = CodeList
    /\ aliasRow = [a \in Aliases |-> NoTarget]
    /\ modelMap = EnvTarget
    /\ unread = {} /\ unreadAliases = {}
    /\ SessionsInit
    /\ AccessInit

----------------------------------------------------------------------------
GivenFields(password, list) ==
    {f \in {"pass"} : password # Unset} \cup {f \in {"list"} : list # Unset}

(* Mutant: null is not stored. *)
PatchUnlessNull(password, list) ==
    /\ stored' = [pass |-> Given(password, stored.pass),
                  list |-> IF list = Null THEN stored.list ELSE Given(list, stored.list)]
    /\ pass' = Given(password, pass)
    /\ allowed' = IF list = Unset THEN allowed ELSE ListOf(list)
    /\ unread' = unread \ GivenFields(password, list)
    /\ UNCHANGED <<aliasRow, modelMap, unreadAliases, sessionVars, accessVars>>

(* handlePatchSettings(): one transaction, then applySettingsToConfig().    *)
Patch(password, list) ==
    /\ stored' = [pass |-> Given(password, stored.pass), list |-> Given(list, stored.list)]
    /\ pass' = Given(password, pass)
    /\ allowed' = IF list = Unset THEN allowed ELSE ListOf(list)
    /\ unread' = unread \ GivenFields(password, list)
    /\ UNCHANGED <<aliasRow, modelMap, unreadAliases, sessionVars, accessVars>>

(* handlePutModelAccessGlobal(): no list deletes the row. *)
PutGlobal(list) ==
    /\ stored' = [stored EXCEPT !.list = list]
    /\ allowed' = ListOf(list)
    /\ unread' = unread \ {"list"}
    /\ UNCHANGED <<pass, aliasRow, modelMap, unreadAliases, sessionVars, accessVars>>

SetAlias(alias, target) ==
    /\ aliasRow' = [aliasRow EXCEPT ![alias] = target]
    /\ modelMap' = [modelMap EXCEPT ![alias] = target]
    /\ unreadAliases' = unreadAliases \ {alias}
    /\ UNCHANGED <<pass, allowed, stored, unread, sessionVars, accessVars>>

(* handleSaveModelAlias(), handlePutModelAlias() for a row there is,        *)
(* handleDeleteModelAlias() whether there is one or not                     *)
SaveAlias(alias, target) == SetAlias(alias, target)
PutAlias(alias, target) == aliasRow[alias] # NoTarget /\ SetAlias(alias, target)
DeleteAlias(alias) == SetAlias(alias, NoTarget)

(* The process ends, and main() starts another, which reads both tables,    *)
(* one, or neither: all() and loadModelAliases() are then empty.            *)
Restart ==
    /\ unread' \in {{}, {"pass", "list"}}
    /\ unreadAliases' \in {{}, Aliases}
    /\ pass' = PasswordLoaded(unread')
    /\ allowed' = ListLoaded(unread')
    /\ modelMap' = [a \in Aliases |-> TargetLoaded(a, unreadAliases')]
    /\ SessionsRestart
    /\ AccessRestart
    /\ UNCHANGED <<stored, aliasRow>>

SettingsNext ==
    \/ \E password \in Passwords \cup {Unset}, list \in Lists \cup {Null, Unset} :
            Patch(password, list)
    \/ \E list \in Lists \cup {Unset} : PutGlobal(list)
    \/ \E a \in Aliases, target \in Targets : SaveAlias(a, target) \/ PutAlias(a, target)
    \/ \E a \in Aliases : DeleteAlias(a)

Next ==
    \/ SettingsNext
    \/ SessionsNext /\ UNCHANGED <<settingVars, accessVars>>
    \/ AccessNext /\ UNCHANGED <<settingVars, sessionVars>>
    \/ Restart

Spec == Init /\ [][Next]_vars

----------------------------------------------------------------------------
(* What the gateway runs with is what the tables say, whichever of the two  *)
(* handlers wrote the list (server.ts:1306 "or the configuration rolls      *)
(* back"), over any number of restarts; what the start could not read is as *)
(* the environment and the code have it until it is set again, and an alias *)
(* of the environment that was deleted in the panel comes back.             *)
RestartKeeps ==
    /\ pass = PasswordLoaded(unread)
    /\ allowed = ListLoaded(unread)
    /\ \A a \in Aliases :
        \/ modelMap[a] = TargetLoaded(a, unreadAliases)
        \/ modelMap[a] = NoTarget /\ aliasRow[a] = NoTarget
=============================================================================
