------------------------------ MODULE MCPanel ------------------------------
(* The operator's panel.  Its parts share no state, but for the sign-ins    *)
(* and the handlers that move and delete the accounts they go into, and the  *)
(* password that the sessions are signed under: a behaviour is that of one   *)
(* part, and the others rest.  Environments that change and tables that      *)
(* cannot be read belong to the part of the keys and that of the settings.   *)
(* Of the sign-ins, one code with two polls at once is followed, and two     *)
(* codes with one poll at a time; of the old console, two requests at once   *)
(* for one workspace, and one for an account that moves.                    *)
EXTENDS Panel, DeviceLogin, Legacy, TLC

CONSTANTS a1, t1

VARIABLE focus

panelVars == <<vars, accountVars, loginVars, legacyVars, focus>>

MCInit ==
    /\ Init /\ AccountsInit /\ LoginInit /\ LegacyInit
    /\ focus \in {"settings", "sessions", "lists", "keys", "polls", "codes", "pages", "moves"}
    /\ focus \notin {"pages", "moves"} => linked = NoLegacyWorkspace
    /\ focus # "keys" => env = Keys /\ rows[1].there /\ missing = {}
    /\ focus # "lists" => inPool = {}

SignIns ==
    \/ LoginNext
    \/ \E id \in Ids :
        \/ Delete(id) /\ UNCHANGED loginVars
        \/ \E ws \in Workspaces : PatchWorkspace(id, ws) /\ UNCHANGED loginVars
    \/ AccountsRestart /\ LoginRestart

AtMostOne(S) == \A x, y \in S : x = y

MCNext ==
    /\ \/ /\ focus \in {"settings", "sessions", "lists"} /\ Next
          /\ focus # "lists" => UNCHANGED <<inPool, owned, row, orphans>>
          /\ focus # "settings" => UNCHANGED <<allowed, aliasRow, modelMap, unreadAliases>>
          /\ focus # "sessions" => UNCHANGED left
          /\ focus = "lists" => UNCHANGED <<pass, stored, unread>>
          /\ UNCHANGED <<accountVars, loginVars, legacyVars>>
       \/ /\ focus = "keys" /\ AccountsNext
          /\ UNCHANGED <<vars, loginVars, legacyVars>>
       \/ /\ focus \in {"polls", "codes"} /\ SignIns
          /\ focus = "polls" => AtMostOne({x \in Codes : grant'[x].st # "unused"})
          /\ focus = "codes" => AtMostOne({x \in Polls : poll'[x].pc # "idle"})
          /\ UNCHANGED <<vars, legacyVars, env, sealed, missing>>
       \/ /\ focus \in {"pages", "moves"} /\ LegacyNext
          /\ focus = "pages" => linked' = linked
          /\ focus = "moves" => AtMostOne({x \in Handlers : handler'[x].pc # "idle"})
          /\ UNCHANGED <<vars, accountVars, loginVars>>
    /\ UNCHANGED focus

MCSpec == MCInit /\ [][MCNext]_panelVars

MCEnvTarget == [a \in Aliases |-> t1]

(* The sessions, the device codes and the requests to the old console are   *)
(* the same two values, the polls and its workspaces two others.            *)
Symmetry == Permutations(Sessions) \cup Permutations(Polls) \cup Permutations(Keys)
=============================================================================
