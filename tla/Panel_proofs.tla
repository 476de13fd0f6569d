---------------------------- MODULE Panel_proofs ----------------------------
(***************************************************************************)
(* What the parts of the operator's panel keep, for any number of keys,     *)
(* accounts, sessions, sign-ins, requests and workspaces: the settings and  *)
(* the lists of the keys, the sessions, the accounts and their pool, the    *)
(* sign-ins that go into them, and the pages of the old console.            *)
(*                                                                          *)
(* Each part has an inductive invariant of its own, which says besides the  *)
(* property where the data on their way are: on the list of a logout and in *)
(* the file, in which session or poll the newest token is, what an answer   *)
(* that has not reached its cache would say.                                *)
(***************************************************************************)
EXTENDS Panel, DeviceLogin, Legacy, FiniteSetTheorems, TLAPS

----------------------------------------------------------------------------
(* Settings, aliases and the lists of the keys *)

(* The tables have their shape, and a PUT that nothing has overtaken is for *)
(* a key there is.                                                          *)
PanelShape ==
    /\ stored = [pass |-> stored.pass, list |-> stored.list]
    /\ DOMAIN aliasRow = Aliases /\ DOMAIN modelMap = Aliases
    /\ DOMAIN row = UpstreamKeys /\ DOMAIN cached = UpstreamKeys
    /\ put \in [UpstreamKeys -> {"none", "open", "overtaken"}]
    /\ \A k \in UpstreamKeys : put[k] = "open" => k \in inPool

PanelInv == PanelShape /\ RestartKeeps /\ GateSeesRow /\ RowsOwned

(* What one setting is worth afterwards, whether it was given or not.       *)
LEMMA GivenIsKept ==
    ASSUME NEW password, NEW list, Patch(password, list),
           pass = PasswordLoaded(unread), allowed = ListLoaded(unread),
           stored'.pass = Given(password, stored.pass), stored'.list = Given(list, stored.list)
    PROVE  pass' = PasswordLoaded(unread)' /\ allowed' = ListLoaded(unread)'
<1>1. /\ pass' = Given(password, pass)
      /\ allowed' = IF list = Unset THEN allowed ELSE ListOf(list)
      /\ unread' = unread \ GivenFields(password, list)
  BY DEF Patch
<1>2. /\ "pass" \in GivenFields(password, list) <=> password # Unset
      /\ "list" \in GivenFields(password, list) <=> list # Unset
  BY DEF GivenFields
<1>3. pass' = PasswordLoaded(unread)'
  BY <1>1, <1>2 DEF Given, PasswordLoaded, PasswordOf
<1>4. allowed' = ListLoaded(unread)'
  BY <1>1, <1>2 DEF Given, ListLoaded, ListOf
<1> QED BY <1>3, <1>4

LEMMA SettingsKeep ==
    ASSUME PanelInv, SettingsNext
    PROVE  PanelInv'
<1>1. stored = [pass |-> stored.pass, list |-> stored.list]
  BY DEF PanelInv, PanelShape
<1>2. ASSUME NEW password \in Passwords \cup {Unset}, NEW list \in Lists \cup {Null, Unset},
             Patch(password, list)
      PROVE  PanelInv'
  <2>1. /\ stored'.pass = Given(password, stored.pass)
        /\ stored'.list = Given(list, stored.list)
        /\ stored' = [pass |-> stored'.pass, list |-> stored'.list]
    BY <1>2 DEF Patch
  <2>2. pass' = PasswordLoaded(unread)' /\ allowed' = ListLoaded(unread)'
    BY <1>2, <2>1, GivenIsKept DEF PanelInv, RestartKeeps
  <2>3. RestartKeeps'
    BY <1>2, <2>2 DEF Patch, PanelInv, RestartKeeps, TargetLoaded, TargetOf
  <2> QED BY <1>2, <2>1, <2>3 DEF Patch, accessVars, PanelInv, PanelShape, GateSeesRow,
                 RowsOwned
<1>3. ASSUME NEW list \in Lists \cup {Unset}, PutGlobal(list)
      PROVE  PanelInv'
  <2>1. /\ stored'.pass = stored.pass /\ stored'.list = list
        /\ stored' = [pass |-> stored'.pass, list |-> stored'.list]
    BY <1>1, <1>3 DEF PutGlobal
  <2>2. RestartKeeps'
    BY <1>3, <2>1 DEF PutGlobal, PanelInv, RestartKeeps, PasswordLoaded, PasswordOf,
                      ListLoaded, ListOf, TargetLoaded, TargetOf
  <2> QED BY <1>3, <2>1, <2>2 DEF PutGlobal, accessVars, PanelInv, PanelShape, GateSeesRow,
                 RowsOwned
<1>4. ASSUME NEW a \in Aliases, NEW target, SetAlias(a, target)
      PROVE  PanelInv'
  <2>1. RestartKeeps'
    BY <1>4 DEF SetAlias, PanelInv, PanelShape, RestartKeeps, PasswordLoaded, PasswordOf,
                ListLoaded, ListOf, TargetLoaded, TargetOf
  <2> QED BY <1>4, <2>1 DEF SetAlias, accessVars, PanelInv, PanelShape, GateSeesRow, RowsOwned
<1> QED BY <1>2, <1>3, <1>4 DEF SettingsNext, SaveAlias, PutAlias, DeleteAlias

LEMMA AccessKeeps ==
    ASSUME PanelInv, AccessNext, UNCHANGED settingVars
    PROVE  PanelInv'
<1>1. RestartKeeps'
  BY DEF settingVars, PanelInv, RestartKeeps, TargetLoaded, TargetOf, PasswordLoaded,
         PasswordOf, ListLoaded, ListOf
<1>2. PICK k \in UpstreamKeys :
        \/ GateReads(k) \/ KeyAdded(k) \/ KeyRemoved(k) \/ PutChecked(k) \/ PutAbandoned(k)
        \/ \E list \in Lists \cup {NoList} : PutWritten(k, list)
  BY DEF AccessNext
<1>3. CASE GateReads(k)
  BY <1>1, <1>3 DEF GateReads, GetCustom, settingVars, PanelInv, PanelShape, GateSeesRow,
                    RowsOwned
<1>4. CASE KeyAdded(k)
  BY <1>1, <1>4 DEF KeyAdded, settingVars, PanelInv, PanelShape, GateSeesRow, RowsOwned
<1>5. CASE KeyRemoved(k)
  BY <1>1, <1>5 DEF KeyRemoved, Disowned, OvertakePut, SetCustom, settingVars, PanelInv,
                    PanelShape, GateSeesRow, RowsOwned
<1>6. CASE PutChecked(k) \/ PutAbandoned(k)
  BY <1>1, <1>6 DEF PutChecked, PutAbandoned, settingVars, PanelInv, PanelShape, GateSeesRow,
                    RowsOwned
<1>7. ASSUME NEW list \in Lists \cup {NoList}, PutWritten(k, list)
      PROVE  PanelInv'
  BY <1>1, <1>7 DEF PutWritten, SetCustom, settingVars, PanelInv, PanelShape, GateSeesRow,
                    RowsOwned
<1> QED BY <1>2, <1>3, <1>4, <1>5, <1>6, <1>7

LEMMA PanelKeeps == PanelInv /\ [Next]_vars => PanelInv'
<1> SUFFICES ASSUME PanelInv, [Next]_vars PROVE PanelInv'
  OBVIOUS
<1>1. CASE SettingsNext
  BY <1>1, SettingsKeep
<1>2. CASE AccessNext /\ UNCHANGED <<settingVars, sessionVars>>
  BY <1>2, AccessKeeps
<1>3. CASE \/ SessionsNext /\ UNCHANGED <<settingVars, accessVars>>
           \/ UNCHANGED vars
  BY <1>3 DEF vars, settingVars, accessVars, PanelInv, PanelShape, RestartKeeps, TargetLoaded,
              TargetOf, PasswordLoaded, PasswordOf, ListLoaded, ListOf, GateSeesRow, RowsOwned
<1>4. CASE Restart
  <2>1. RestartKeeps'
    BY <1>4 DEF Restart, RestartKeeps, TargetLoaded, TargetOf, PasswordLoaded, PasswordOf,
                ListLoaded, ListOf
  <2>2. GateSeesRow' /\ RowsOwned'
    BY <1>4 DEF Restart, AccessRestart, PanelInv, PanelShape, GateSeesRow, RowsOwned
  <2> QED BY <1>4, <2>1, <2>2 DEF Restart, AccessRestart, PanelInv, PanelShape
<1> QED BY <1>1, <1>2, <1>3, <1>4 DEF Next

LEMMA PanelInvHolds == Spec => []PanelInv
<1>1. Init => PanelInv
  BY PanelAssumption DEF Init, AccessInit, PanelInv, PanelShape, RestartKeeps, TargetLoaded,
         TargetOf, PasswordLoaded, PasswordOf, ListLoaded, ListOf, GateSeesRow, RowsOwned
<1> QED BY <1>1, PanelKeeps, PTL DEF Spec

(* What the gateway runs with is what the tables say, whichever handler     *)
(* wrote the setting (settings.ts, server.ts:1306), but for what the start  *)
(* could not read and nobody has set since (settings.ts:352).               *)
THEOREM RestartKeepsHolds == Spec => []RestartKeeps
<1>1. PanelInv => RestartKeeps
  BY DEF PanelInv
<1> QED BY <1>1, PanelInvHolds, PTL

(* The gate holds a request against the list the table has for the key, or  *)
(* reads it first (modelaccess.ts:77).                                      *)
THEOREM GateSeesRowHolds == Spec => []GateSeesRow
<1>1. PanelInv => GateSeesRow
  BY DEF PanelInv
<1> QED BY <1>1, PanelInvHolds, PTL

(* No key comes back to the list of its previous life, unless a write that  *)
(* its removal overtook, a failed deletion, or a restart that did without   *)
(* the key has left the row behind (admin.ts:706, main.ts:125).             *)
THEOREM RowsOwnedHolds == Spec => []RowsOwned
<1>1. PanelInv => RowsOwned
  BY DEF PanelInv
<1> QED BY <1>1, PanelInvHolds, PTL

----------------------------------------------------------------------------
(* The list of who has logged out.  What a recursive function computes is   *)
(* got from the least number at which it would not.                         *)

(* A set of numbers has a least one. *)
LEMMA LeastOfNat ==
    ASSUME NEW S \in SUBSET Nat, S # {}
    PROVE  \E i \in S : \A j \in S : i <= j
<1>1. PICK i \in S : \A j \in S : <<j, i>> \notin OpToRel(<, Nat)
  BY NatLessThanWellFounded, WFMin, Zenon
<1>2. \A j \in S : j \in Nat /\ i \in Nat
  OBVIOUS
<1>3. \A j \in S : ~(j < i)
  BY <1>1, <1>2, Zenon DEF OpToRel
<1>4. \A j \in S : i <= j
  BY <1>2, <1>3
<1> QED BY <1>4

(* The step of Pruned, and a function that takes all of them. *)
KeptAt(f, list, n) ==
    IF n = 0 THEN <<>>
    ELSE IF Alive(list[n]) THEN Append(f[n - 1], list[n]) ELSE f[n - 1]

LEMMA KeptExists ==
    ASSUME NEW list, NEW len \in Nat
    PROVE  \E f : f = [n \in 0 .. len |-> KeptAt(f, list, n)]
<1> DEFINE Missing == {m \in Nat : ~ \E f : f = [n \in 0 .. m |-> KeptAt(f, list, n)]}
<1>1. SUFFICES ASSUME Missing # {} PROVE FALSE
  OBVIOUS
<1>2. PICK m \in Missing : \A j \in Missing : m <= j
  BY <1>1, LeastOfNat
<1>3. CASE m = 0
  <2> DEFINE f == [n \in 0 .. 0 |-> <<>>]
  <2>1. f = [n \in 0 .. 0 |-> KeptAt(f, list, n)]
    BY DEF KeptAt
  <2> QED BY <1>2, <1>3, <2>1
<1>4. CASE m # 0
  <2>1. m - 1 \in Nat /\ m - 1 \notin Missing
    BY <1>2, <1>4
  <2>2. PICK f : f = [n \in 0 .. m - 1 |-> KeptAt(f, list, n)]
    BY <2>1
  <2> DEFINE g == [n \in 0 .. m |-> IF n = m THEN KeptAt(f, list, m) ELSE f[n]]
  <2>3. \A n \in 0 .. m : g[n] = KeptAt(g, list, n)
    <3> SUFFICES ASSUME NEW n \in 0 .. m PROVE g[n] = KeptAt(g, list, n)
      OBVIOUS
    <3>1. n \in Nat /\ (n # 0 => n - 1 \in 0 .. m - 1 /\ g[n - 1] = f[n - 1])
      BY <1>2, <2>1
    <3>2. CASE n = m
      BY <1>4, <3>1, <3>2 DEF KeptAt
    <3>3. CASE n # m
      <4>1. n \in 0 .. m - 1 /\ g[n] = f[n]
        BY <1>2, <3>1, <3>3
      <4>2. f[n] = KeptAt(f, list, n)
        BY <2>2, <4>1
      <4> QED BY <3>1, <4>1, <4>2 DEF KeptAt
    <3> QED BY <3>2, <3>3
  <2> HIDE DEF g
  <2>4. g = [n \in 0 .. m |-> KeptAt(g, list, n)]
    <3>1. g = [n \in 0 .. m |-> g[n]]
      BY DEF g
    <3> QED BY <2>3, <3>1
  <2> QED BY <1>2, <2>4
<1> QED BY <1>3, <1>4

LEMMA AppendContains ==
    ASSUME NEW S, NEW list \in Seq(S), NEW x \in S
    PROVE  \A s : Contains(Append(list, x), s) <=> Contains(list, s) \/ s = x
<1>1. /\ Len(list) \in Nat /\ Len(Append(list, x)) = Len(list) + 1
      /\ \A i \in 1 .. Len(list) : Append(list, x)[i] = list[i]
      /\ Append(list, x)[Len(list) + 1] = x
  OBVIOUS
<1> QED BY <1>1 DEF Contains

(* What is pruned from a list is who is over. *)
LEMMA PrunedShape ==
    ASSUME NEW list \in Seq(Sessions)
    PROVE  /\ Pruned(list) \in Seq(Sessions)
           /\ \A s : Contains(Pruned(list), s) <=> Contains(list, s) /\ Alive(s)
<1> DEFINE kept == CHOOSE f : f = [n \in 0 .. Len(list) |-> KeptAt(f, list, n)]
           Right(n) == /\ kept[n] \in Seq(Sessions)
                       /\ \A s : Contains(kept[n], s) <=>
                                    \E i \in 1 .. n : list[i] = s /\ Alive(s)
           Wrong == {n \in 0 .. Len(list) : ~Right(n)}
<1>1. Pruned(list) = kept[Len(list)]
  BY DEF Pruned, KeptAt
<1>2. Len(list) \in Nat /\ Wrong \subseteq Nat
  OBVIOUS
<1>3. kept = [n \in 0 .. Len(list) |-> KeptAt(kept, list, n)]
  BY <1>2, KeptExists
<1> HIDE DEF kept
<1>4. \A n \in 0 .. Len(list) : kept[n] = KeptAt(kept, list, n)
  BY <1>3
<1>5. Right(0)
  <2>1. kept[0] = <<>>
    BY <1>2, <1>4 DEF KeptAt
  <2>2. kept[0] \in Seq(Sessions) /\ \A s : ~Contains(kept[0], s)
    BY <2>1 DEF Contains
  <2>3. 1 .. 0 = {}
    OBVIOUS
  <2> QED BY <2>2, <2>3
<1>6. ASSUME NEW n \in 1 .. Len(list), Right(n - 1)
      PROVE  Right(n)
  <2>1. n \in Nat /\ n \in 0 .. Len(list) /\ n # 0 /\ list[n] \in Sessions
    BY <1>2
  <2>2. kept[n] = IF Alive(list[n]) THEN Append(kept[n - 1], list[n]) ELSE kept[n - 1]
    BY <1>4, <2>1 DEF KeptAt
  <2>3. kept[n - 1] \in Seq(Sessions)
    BY <1>6
  <2> DEFINE before == kept[n - 1]
  <2>4. \A s : Contains(Append(before, list[n]), s) <=> Contains(before, s) \/ s = list[n]
    BY <2>1, <2>3, AppendContains
  <2>5. \A s : (\E i \in 1 .. n : list[i] = s /\ Alive(s)) <=>
               (\E i \in 1 .. n - 1 : list[i] = s /\ Alive(s)) \/ (s = list[n] /\ Alive(s))
    <3>1. 1 .. n = 1 .. (n - 1) \cup {n}
      BY <2>1
    <3> QED BY <3>1
  <2>6. kept[n] \in Seq(Sessions)
    BY <2>1, <2>2, <2>3
  <2>7. \A s : Contains(kept[n], s) <=> Contains(before, s) \/ (s = list[n] /\ Alive(s))
    BY <2>2, <2>4
  <2> QED BY <1>6, <2>5, <2>6, <2>7
<1>7. Wrong = {}
  <2>1. SUFFICES ASSUME Wrong # {} PROVE FALSE
    OBVIOUS
  <2>2. PICK n \in Wrong : \A j \in Wrong : n <= j
    BY <1>2, <2>1, LeastOfNat
  <2>3. n \in 0 .. Len(list) /\ n # 0 /\ ~Right(n)
    BY <1>5, <2>2
  <2> HIDE DEF Wrong
  <2>4. n \in 1 .. Len(list) /\ n - 1 \in 0 .. Len(list) /\ n - 1 \notin Wrong
    BY <1>2, <2>2, <2>3
  <2> USE DEF Wrong
  <2> HIDE DEF Right
  <2>5. Right(n - 1)
    BY <2>4
  <2> QED BY <1>6, <2>3, <2>4, <2>5
<1>8. Right(Len(list))
  <2> HIDE DEF Right
  <2>1. Len(list) \in 0 .. Len(list) /\ Len(list) \notin Wrong
    BY <1>2, <1>7
  <2> QED BY <2>1
<1> QED BY <1>1, <1>8 DEF Contains

----------------------------------------------------------------------------
(* The sessions of the panel *)

(* Who has logged out is on the list, and in the file once it was written. *)
SessionsInv ==
    /\ left \in [Sessions -> Nat]
    /\ revoked \in Seq(Sessions) /\ file \in Seq(Sessions)
    /\ out \subseteq {s \in Sessions : Alive(s)}
    /\ \A s \in out \ excused : Contains(revoked, s)
    /\ \A s \in out \ (excused \cup unsaved) : Contains(file, s)

LEMMA LogoutLastsFollows == SessionsInv => LogoutLasts
BY DEF SessionsInv, LogoutLasts, Accepted

LEMMA ToSetContains ==
    ASSUME NEW list \in Seq(Sessions)
    PROVE  \A s : s \in ToSet(list) <=> Contains(list, s)
BY DEF ToSet, Contains

LEMMA AddedShape ==
    ASSUME NEW list \in Seq(Sessions), NEW s \in Sessions
    PROVE  Added(list, s) \in Seq(Sessions) /\ Contains(Added(list, s), s)
<1> DEFINE kept == IF Len(list) >= MaxRevoked THEN Tail(list) ELSE list
<1>1. kept \in Seq(Sessions)
  <2>1. Len(list) >= MaxRevoked => list # <<>>
    BY SessionsAssumption
  <2> QED BY <2>1
<1> HIDE DEF kept
<1>2. Append(kept, s) \in Seq(Sessions) /\ Contains(Append(kept, s), s)
  BY <1>1 DEF Contains
<1> QED BY <1>1, <1>2 DEF Added, kept

LEMMA LogoutKeeps ==
    ASSUME SessionsInv, NEW s \in Sessions, Logout(s)
    PROVE  SessionsInv'
<1> DEFINE added == Added(revoked, s)
           after == Pruned(added)
<1>1. /\ added \in Seq(Sessions) /\ Contains(added, s)
      /\ revoked \in Seq(Sessions) /\ file \in Seq(Sessions)
  BY AddedShape DEF SessionsInv
<1> HIDE DEF added
<1>2. /\ after \in Seq(Sessions)
      /\ \A t : Contains(after, t) <=> Contains(added, t) /\ Alive(t)
  BY <1>1, PrunedShape
<1> HIDE DEF after
<1>3. /\ Alive(s) /\ revoked' = after /\ out' = out \cup {s} /\ left' = left
      /\ \/ file' \in {added, after} /\ unsaved' = {}
         \/ file' = file /\ unsaved' = unsaved \cup {s}
      /\ excused' = (excused \cup (ToSet(revoked) \ ToSet(added))) \ {s}
  BY DEF Logout, added, after
<1>4. \A t \in out' \ excused' : Contains(added, t) /\ Alive(t)
  BY <1>1, <1>3, ToSetContains DEF SessionsInv
<1>5. \A t \in out' \ (excused' \cup unsaved') : Contains(file', t)
  BY <1>2, <1>3, <1>4 DEF SessionsInv
<1> QED BY <1>1, <1>2, <1>3, <1>4, <1>5 DEF SessionsInv, Alive

LEMMA SessionsKeep ==
    ASSUME SessionsInv, SessionsNext \/ SessionsRestart \/ UNCHANGED sessionVars
    PROVE  SessionsInv'
<1>1. revoked \in Seq(Sessions) /\ file \in Seq(Sessions) /\ left \in [Sessions -> Nat]
  BY DEF SessionsInv
<1>2. ASSUME NEW s \in Sessions, Login(s)
      PROVE  SessionsInv'
  <2>1. /\ left' = [left EXCEPT ![s] = TTL] /\ TTL \in Nat /\ left[s] \in Nat /\ ~(left[s] > 0)
        /\ UNCHANGED <<revoked, file, out, unsaved, excused>>
    BY <1>1, <1>2, SessionsAssumption DEF Login, Alive
  <2>2. s \notin out
    BY <2>1 DEF SessionsInv, Alive
  <2> QED BY <1>1, <2>1, <2>2 DEF SessionsInv, Alive
<1>3. CASE CookieSeen
  <2>1. /\ Pruned(revoked) \in Seq(Sessions)
        /\ \A s : Contains(Pruned(revoked), s) <=> Contains(revoked, s) /\ Alive(s)
    BY <1>1, PrunedShape
  <2>2. /\ revoked' = Pruned(revoked) /\ UNCHANGED <<left, out, excused>>
        /\ (file' = Pruned(revoked) /\ unsaved' = {}) \/ UNCHANGED <<file, unsaved>>
    BY <1>3 DEF CookieSeen
  <2> HIDE DEF SessionsInv
  <2> QED BY <1>1, <2>1, <2>2 DEF SessionsInv, Alive
<1>4. CASE Tick
  <2> DEFINE over == {s \in Sessions : left[s] = 1}
  <2>1. /\ left' = [s \in Sessions |-> IF Alive(s) THEN left[s] - 1 ELSE 0]
        /\ out' = out \ over /\ unsaved' = unsaved \ over /\ excused' = excused \ over
        /\ UNCHANGED <<revoked, file>>
    BY <1>4 DEF Tick
  <2>2. left' \in [Sessions -> Nat] /\ \A s \in out' : s \in Sessions /\ left'[s] > 0
    BY <1>1, <2>1 DEF SessionsInv, Alive
  <2> QED BY <1>1, <2>1, <2>2 DEF SessionsInv, Alive
<1>5. CASE SessionsRestart
  <2>1. /\ Pruned(file) \in Seq(Sessions)
        /\ \A s : Contains(Pruned(file), s) <=> Contains(file, s) /\ Alive(s)
    BY <1>1, PrunedShape
  <2>2. UNCHANGED <<left, out>> /\ unsaved' = {}
    BY <1>5 DEF SessionsRestart
  <2>3. CASE /\ revoked' = Pruned(file) /\ excused' = excused \cup unsaved
             /\ file' \in {file, Pruned(file)}
    BY <1>1, <2>1, <2>2, <2>3 DEF SessionsInv, Alive
  <2>4. CASE revoked' = <<>> /\ excused' = excused \cup out /\ file' = file
    BY <1>1, <2>2, <2>4 DEF SessionsInv, Alive
  <2> QED BY <1>5, <2>3, <2>4 DEF SessionsRestart
<1>6. CASE UNCHANGED sessionVars
  BY <1>6 DEF sessionVars, SessionsInv, Alive
<1> QED BY <1>2, <1>3, <1>4, <1>5, <1>6, LogoutKeeps DEF SessionsNext

LEMMA SessionsInvHolds == Spec => []SessionsInv
<1>1. Init => SessionsInv
  BY DEF Init, SessionsInit, SessionsInv, Contains
<1>2. SessionsInv /\ [Next]_vars => SessionsInv'
  <2>1. SettingsNext => UNCHANGED sessionVars
    BY DEF SettingsNext, Patch, PutGlobal, SaveAlias, PutAlias, DeleteAlias, SetAlias
  <2> QED BY <2>1, SessionsKeep DEF Next, Restart, vars
<1> QED BY <1>1, <1>2, PTL DEF Spec

(* Who has logged out of the panel is not let in again, over restarts, but  *)
(* for what the list, the file or the start has lost (server.ts:390).       *)
THEOREM LogoutLastsHolds == Spec => []LogoutLasts
BY SessionsInvHolds, LogoutLastsFollows, PTL

----------------------------------------------------------------------------
(* The accounts, their keys and their lists *)

RowTokens == {NoToken} \cup [code : Codes, turn : Nat]

AccountRecs == [there : BOOLEAN, keys : SUBSET Keys, ws : Workspaces \cup {NoWorkspace},
                list : AccountLists \cup {Unlimited}, tok : RowTokens]

AccountsShape ==
    /\ rows \in [Ids -> AccountRecs]
    /\ nextId \in Nat \ {0}
    /\ DOMAIN pool = Keys /\ DOMAIN cache = Ids
    /\ missing \subseteq Keys
    /\ \A id \in Ids : rows[id].there \/ rows[id] = NoRow
    /\ \A id \in Ids : id >= nextId => ~rows[id].there

(* What cannot be decrypted was left out when the process started. *)
SealedOut ==
    /\ sealed \subseteq There
    /\ \A id \in sealed : rows[id].keys \subseteq missing \cup torn

(* A key that is not torn is in one row at most, and one that was left out  *)
(* is in some row.                                                          *)
KeysHeld ==
    /\ \A k \in Keys \ torn : \A i, j \in Holders(k) : i = j
    /\ \A k \in missing : Holders(k) # {}

AccountsInv == AccountsShape /\ SealedOut /\ KeysHeld /\ PoolIsRows /\ ListsInForce

LEMMA NoRowShape ==
    /\ NoRow \in AccountRecs /\ ~NoRow.there /\ NoRow.keys = {} /\ NoRow.list = Unlimited
    /\ NoRow.tok = NoToken
BY DEF NoRow, AccountRecs, RowTokens

LEMMA NewRowShape ==
    ASSUME NEW keys \in SUBSET Keys, NEW ws \in Workspaces \cup {NoWorkspace}
    PROVE  /\ NewRow(keys, ws) \in AccountRecs /\ NewRow(keys, ws).there
           /\ NewRow(keys, ws).keys = keys /\ NewRow(keys, ws).list = Unlimited
           /\ NewRow(keys, ws).tok = NoToken
BY DEF NewRow, NoRow, AccountRecs, RowTokens

LEMMA IdsShape ==
    /\ MaxId \in Nat /\ Ids \subseteq Nat /\ Unpooled \notin Ids /\ Nobody \notin Ids
    /\ Unpooled # Nobody /\ 1 \in Ids
BY AccountsAssumption DEF Ids, Unpooled, Nobody

(* Steps that leave the keys of every account, and the pool, alone. *)
LEMMA SameHolders ==
    ASSUME \A id \in Ids : /\ rows'[id].there = rows[id].there
                           /\ rows'[id].keys = rows[id].keys
    PROVE  \A k : Holders(k)' = Holders(k)
BY DEF Holders, There

(* A row that joins the table holds its keys, besides those who held them. *)
LEMMA InsertHolds ==
    ASSUME AccountsShape, NEW new \in AccountRecs, new.there, Insert(new)
    PROVE  /\ nextId \in Ids /\ rows' \in [Ids -> AccountRecs]
           /\ nextId \notin There /\ nextId' \in Nat \ {0}
           /\ \A id \in Ids : rows'[id] = IF id = nextId THEN new ELSE rows[id]
           /\ \A id \in Ids : rows'[id].there \/ rows'[id] = NoRow
           /\ \A id \in Ids : id >= nextId' => ~rows'[id].there
           /\ \A k : Holders(k)' = Holders(k) \cup (IF k \in new.keys THEN {nextId} ELSE {})
<1>1. /\ nextId \in Ids /\ nextId \in Nat /\ rows' = [rows EXCEPT ![nextId] = new]
      /\ nextId' = nextId + 1 /\ rows \in [Ids -> AccountRecs] /\ Ids \subseteq Nat
  BY IdsShape DEF Insert, AccountsShape
<1>2. \A id \in Ids : rows'[id] = IF id = nextId THEN new ELSE rows[id]
  BY <1>1
<1>3. nextId \notin There
  BY <1>1 DEF There, AccountsShape
<1>4. /\ \A id \in Ids : rows'[id].there \/ rows'[id] = NoRow
      /\ \A id \in Ids : id >= nextId' => ~rows'[id].there
  BY <1>1, <1>2 DEF AccountsShape
<1>5. \A k : Holders(k)' = Holders(k) \cup (IF k \in new.keys THEN {nextId} ELSE {})
  BY <1>1, <1>2, <1>3 DEF Holders, There
<1> QED BY <1>1, <1>2, <1>3, <1>4, <1>5

LEMMA CreateKeeps ==
    ASSUME AccountsInv, NEW keys \in SUBSET Keys, NEW ws \in Workspaces \cup {NoWorkspace},
           Create(keys, ws)
    PROVE  AccountsInv'
<1> DEFINE new == NewRow(keys, ws)
<1>1. /\ new \in AccountRecs /\ new.there /\ new.keys = keys /\ new.list = Unlimited
  BY NewRowShape
<1> HIDE DEF new
<1>2. Insert(new)
  BY DEF Create, new
<1>3. /\ nextId \in Ids /\ rows' \in [Ids -> AccountRecs]
      /\ nextId \notin There /\ nextId' \in Nat \ {0}
      /\ \A id \in Ids : rows'[id] = IF id = nextId THEN new ELSE rows[id]
      /\ \A id \in Ids : rows'[id].there \/ rows'[id] = NoRow
      /\ \A id \in Ids : id >= nextId' => ~rows'[id].there
      /\ \A k : Holders(k)' = Holders(k) \cup (IF k \in keys THEN {nextId} ELSE {})
  BY <1>1, <1>2, InsertHolds DEF AccountsInv
<1>4. DOMAIN pool' = Keys /\ UNCHANGED <<env, cache, sealed, missing, misread>>
  BY DEF Create, Pooled, AccountsInv, AccountsShape
<1>5. PoolIsRows'
  <2> SUFFICES ASSUME NEW k \in Keys, k \notin torn'
               PROVE  IF Holders(k)' = {} \/ k \in missing'
                      THEN pool'[k] = Unpooled \/ (pool'[k] = Nobody /\ k \in env')
                      ELSE \E id \in Ids : Holders(k)' = {id} /\
                              (pool'[k] = id \/ (pool'[k] = Nobody /\ k \in env'))
    BY DEF PoolIsRows
  <2>1. /\ k \notin torn
        /\ k \in keys => Holders(k) = {} /\ pool' = Pooled(keys, nextId)
        /\ k \notin keys => pool'[k] = pool[k]
        /\ k \in missing => Holders(k) # {}
    BY DEF Create, Doubled, Pooled, AccountsInv, KeysHeld
  <2>2. CASE k \in keys
    <3>1. pool[k] = Unpooled \/ (pool[k] = Nobody /\ k \in env)
      BY <2>1, <2>2 DEF AccountsInv, PoolIsRows
    <3>2. pool'[k] = IF pool[k] = Unpooled THEN nextId ELSE pool[k]
      BY <2>1, <2>2 DEF Pooled
    <3> QED BY <1>3, <1>4, <2>1, <2>2, <3>1, <3>2
  <2>3. CASE k \notin keys
    BY <1>3, <1>4, <2>1, <2>3 DEF AccountsInv, PoolIsRows
  <2> QED BY <2>2, <2>3
<1>6. ListsInForce'
  BY <1>1, <1>3, <1>4, NoRowShape DEF AccountsInv, AccountsShape, ListsInForce
<1>7. SealedOut'
  <2>1. torn \subseteq torn'
    BY DEF Create
  <2>2. \A id \in sealed : id \in There /\ id \in Ids /\ id # nextId
    BY <1>3 DEF AccountsInv, SealedOut, There
  <2> QED BY <1>3, <1>4, <2>1, <2>2 DEF AccountsInv, SealedOut, There
<1>8. KeysHeld'
  <2>1. \A k \in Keys \ torn' : k \notin torn /\ (k \in keys => Holders(k) = {})
    BY DEF Create, Doubled
  <2> QED BY <1>3, <1>4, <2>1 DEF AccountsInv, KeysHeld
<1> QED BY <1>3, <1>4, <1>5, <1>6, <1>7, <1>8 DEF AccountsInv, AccountsShape

LEMMA AddKeyKeeps ==
    ASSUME AccountsInv, NEW id \in Ids, NEW k \in Keys, AddKey(id, k)
    PROVE  AccountsInv'
<1>1. /\ rows \in [Ids -> AccountRecs] /\ rows[id].there /\ k \notin rows[id].keys
      /\ rows' = [rows EXCEPT ![id] = [rows[id] EXCEPT !.keys = rows[id].keys \cup {k}]]
  BY DEF AddKey, There, AccountsInv, AccountsShape
<1>2. rows[id] \in AccountRecs
  BY <1>1
<1>3. /\ [rows[id] EXCEPT !.keys = rows[id].keys \cup {k}] \in AccountRecs
      /\ rows'[id].keys = rows[id].keys \cup {k} /\ rows'[id].there = rows[id].there
      /\ rows'[id].list = rows[id].list
  BY <1>1, <1>2 DEF AccountRecs
<1>4. rows' \in [Ids -> AccountRecs] /\ \A j \in Ids : j # id => rows'[j] = rows[j]
  BY <1>1, <1>3
<1>5. /\ Holders(k)' = Holders(k) \cup {id}
      /\ \A x \in Keys : x # k => Holders(x)' = Holders(x)
  BY <1>1, <1>3, <1>4 DEF Holders, There
<1>6. AccountsShape'
  BY <1>1, <1>4, NoRowShape DEF AddKey, Pooled, AccountsInv, AccountsShape
<1>7. PoolIsRows'
  <2> SUFFICES ASSUME NEW x \in Keys, x \notin torn'
               PROVE  IF Holders(x)' = {} \/ x \in missing'
                      THEN pool'[x] = Unpooled \/ (pool'[x] = Nobody /\ x \in env')
                      ELSE \E j \in Ids : Holders(x)' = {j} /\
                              (pool'[x] = j \/ (pool'[x] = Nobody /\ x \in env'))
    BY DEF PoolIsRows
  <2>1. /\ x \notin torn /\ (x = k => Holders(k) = {})
        /\ pool'[x] = IF x = k /\ pool[x] = Unpooled THEN id ELSE pool[x]
        /\ UNCHANGED <<env, missing>>
    BY DEF AddKey, Doubled, Pooled
  <2>2. x = k => x \notin missing
    BY <2>1 DEF AccountsInv, KeysHeld
  <2> QED BY <1>5, <2>1, <2>2 DEF AccountsInv, PoolIsRows
<1>8. ListsInForce'
  BY <1>3, <1>4 DEF AddKey, AccountsInv, ListsInForce
<1>9. SealedOut'
  BY <1>1, <1>3, <1>4 DEF AddKey, AccountsInv, SealedOut, There
<1>10. KeysHeld'
  <2>1. /\ \A x \in Keys \ torn' : x \notin torn /\ (x = k => Holders(k) = {})
        /\ missing' = missing
    BY DEF AddKey, Doubled
  <2>2. missing \subseteq Keys
    BY DEF AccountsInv, AccountsShape
  <2> QED BY <1>5, <2>1, <2>2 DEF AccountsInv, KeysHeld
<1> QED BY <1>6, <1>7, <1>8, <1>9, <1>10 DEF AccountsInv

LEMMA RemoveKeyKeeps ==
    ASSUME AccountsInv, NEW id \in Ids, NEW k \in Keys, RemoveKey(id, k)
    PROVE  AccountsInv'
<1>1. /\ rows \in [Ids -> AccountRecs] /\ k \in rows[id].keys
      /\ rows' = [rows EXCEPT ![id] = [rows[id] EXCEPT !.keys = rows[id].keys \ {k}]]
  BY DEF RemoveKey, AccountsInv, AccountsShape
<1>2. rows[id] \in AccountRecs
  BY <1>1
<1>3. /\ [rows[id] EXCEPT !.keys = rows[id].keys \ {k}] \in AccountRecs
      /\ rows'[id].keys = rows[id].keys \ {k} /\ rows'[id].there = rows[id].there
      /\ rows'[id].list = rows[id].list
  BY <1>1, <1>2 DEF AccountRecs
<1>4. rows' \in [Ids -> AccountRecs] /\ \A j \in Ids : j # id => rows'[j] = rows[j]
  BY <1>1, <1>3
<1>5. /\ Holders(k)' = Holders(k) \ {id}
      /\ \A x \in Keys : x # k => Holders(x)' = Holders(x)
  BY <1>1, <1>3, <1>4 DEF Holders, There
<1>6. AccountsShape'
  BY <1>1, <1>4, NoRowShape DEF RemoveKey, Unpool, AccountsInv, AccountsShape
<1>7. PoolIsRows'
  <2> SUFFICES ASSUME NEW x \in Keys, x \notin torn'
               PROVE  IF Holders(x)' = {} \/ x \in missing'
                      THEN pool'[x] = Unpooled \/ (pool'[x] = Nobody /\ x \in env')
                      ELSE \E j \in Ids : Holders(x)' = {j} /\
                              (pool'[x] = j \/ (pool'[x] = Nobody /\ x \in env'))
    BY DEF PoolIsRows
  <2>1. /\ x \notin torn /\ pool'[x] = IF x = k THEN Unpooled ELSE pool[x]
        /\ env' = env /\ missing' = missing \ {k}
    BY DEF RemoveKey, Unpool
  <2>2. CASE x = k
    <3>1. id \in Holders(k)
      <4>1. rows[id].there
        BY <1>1, NoRowShape DEF AccountsInv, AccountsShape
      <4> QED BY <1>1, <4>1 DEF Holders, There
    <3>2. Holders(k)' = {}
      BY <1>5, <2>1, <2>2, <3>1 DEF AccountsInv, KeysHeld
    <3> QED BY <2>1, <2>2, <3>2
  <2>3. CASE x # k
    BY <1>5, <2>1, <2>3 DEF AccountsInv, PoolIsRows
  <2> QED BY <2>2, <2>3
<1>8. ListsInForce'
  BY <1>3, <1>4 DEF RemoveKey, AccountsInv, ListsInForce
<1>9. SealedOut' /\ KeysHeld'
  <2>1. /\ id \notin sealed /\ sealed' = sealed /\ torn' = torn
        /\ missing' = missing \ {k}
    BY DEF RemoveKey
  <2>2. id \in Holders(k)
    BY <1>1, NoRowShape DEF AccountsInv, AccountsShape, Holders, There
  <2>3. \A j \in sealed : k \in rows[j].keys => k \in torn
    <3> SUFFICES ASSUME NEW j \in sealed, k \in rows[j].keys, k \notin torn PROVE FALSE
      OBVIOUS
    <3>1. j \in Holders(k) /\ j # id
      BY <2>1 DEF AccountsInv, SealedOut, Holders
    <3> QED BY <2>2, <3>1 DEF AccountsInv, KeysHeld
  <2>4. SealedOut'
    BY <1>1, <1>3, <1>4, <2>1, <2>3 DEF AccountsInv, SealedOut, There
  <2>5. KeysHeld'
    <3>1. missing \subseteq Keys
      BY DEF AccountsInv, AccountsShape
    <3> QED BY <1>5, <2>1, <3>1 DEF AccountsInv, KeysHeld
  <2> QED BY <2>4, <2>5
<1> QED BY <1>6, <1>7, <1>8, <1>9 DEF AccountsInv

LEMMA DeleteKeeps ==
    ASSUME AccountsInv, NEW id \in Ids, Delete(id)
    PROVE  AccountsInv'
<1>1. /\ rows \in [Ids -> AccountRecs] /\ rows[id].there
      /\ rows' = [rows EXCEPT ![id] = NoRow]
  BY DEF Delete, There, AccountsInv, AccountsShape
<1>2. /\ rows' \in [Ids -> AccountRecs] /\ rows'[id] = NoRow
      /\ \A j \in Ids : j # id => rows'[j] = rows[j]
  BY <1>1, NoRowShape
<1>3. AccountsShape'
  BY <1>1, <1>2, NoRowShape DEF Delete, Unpool, AccountsInv, AccountsShape
<1>4. PoolIsRows'
  <2> SUFFICES ASSUME NEW x \in Keys, x \notin torn'
               PROVE  IF Holders(x)' = {} \/ x \in missing'
                      THEN pool'[x] = Unpooled \/ (pool'[x] = Nobody /\ x \in env')
                      ELSE \E j \in Ids : Holders(x)' = {j} /\
                              (pool'[x] = j \/ (pool'[x] = Nobody /\ x \in env'))
    BY DEF PoolIsRows
  <2>1. /\ x \notin torn /\ env' = env /\ missing' = missing \ rows[id].keys
        /\ pool'[x] = IF x \in rows[id].keys /\ id \notin sealed THEN Unpooled ELSE pool[x]
    BY DEF Delete, Unpool
  <2>2. Holders(x)' = Holders(x) \ {id} /\ (id \in Holders(x) <=> x \in rows[id].keys)
    BY <1>1, <1>2, NoRowShape DEF Holders, There
  <2>3. CASE x \in rows[id].keys
    <3>1. Holders(x)' = {}
      BY <2>1, <2>2, <2>3 DEF AccountsInv, KeysHeld
    <3>2. id \in sealed => x \in missing
      BY <2>1, <2>3 DEF AccountsInv, SealedOut
    <3> QED BY <2>1, <2>3, <3>1, <3>2 DEF AccountsInv, PoolIsRows
  <2>4. CASE x \notin rows[id].keys
    BY <2>1, <2>2, <2>4 DEF AccountsInv, PoolIsRows
  <2> QED BY <2>3, <2>4
<1>5. ListsInForce'
  BY <1>2 DEF Delete, AccountsInv, AccountsShape, ListsInForce
<1>6. SealedOut' /\ KeysHeld'
  <2>1. sealed' = sealed \ {id} /\ missing' = missing \ rows[id].keys /\ torn' = torn
    BY DEF Delete
  <2>2. \A k : Holders(k)' = Holders(k) \ {id} /\ (id \in Holders(k) <=> k \in rows[id].keys)
    BY <1>1, <1>2, NoRowShape DEF Holders, There
  <2>3. KeysHeld'
    BY <2>1, <2>2 DEF AccountsInv, KeysHeld
  <2>4. ASSUME NEW j \in sealed'
        PROVE  j \in There' /\ rows'[j].keys \subseteq missing' \cup torn'
    <3>1. j \in sealed /\ j # id /\ j \in There /\ j \in Ids
      BY <2>1, <2>4 DEF AccountsInv, SealedOut, There
    <3>2. j \in There' /\ rows'[j] = rows[j]
      BY <1>2, <3>1 DEF There
    <3>3. ASSUME NEW k \in rows[j].keys, k \notin torn
          PROVE  k \in missing'
      <4>1. k \in missing /\ j \in Holders(k) /\ k \in Keys
        BY <3>1, <3>3, <1>1 DEF AccountsInv, AccountsShape, SealedOut, Holders
      <4>2. id \notin Holders(k)
        BY <3>1, <3>3, <4>1 DEF AccountsInv, KeysHeld
      <4> QED BY <2>1, <2>2, <4>1, <4>2
    <3> QED BY <2>1, <3>2, <3>3
  <2>5. SealedOut'
    BY <2>4 DEF SealedOut
  <2> QED BY <2>3, <2>5
<1> QED BY <1>3, <1>4, <1>5, <1>6 DEF AccountsInv

LEMMA PatchKeeps ==
    ASSUME AccountsInv, NEW id \in Ids, NEW ws \in Workspaces \cup {NoWorkspace},
           NEW list \in AccountLists \cup {Unlimited},
           PatchWorkspace(id, ws) \/ PatchList(id, list)
    PROVE  AccountsInv'
<1>1. /\ rows \in [Ids -> AccountRecs] /\ rows[id].there
      /\ rows' \in {[rows EXCEPT ![id] = [rows[id] EXCEPT !.ws = ws]],
                    [rows EXCEPT ![id] = [rows[id] EXCEPT !.list = list]]}
  BY DEF PatchWorkspace, PatchList, There, AccountsInv, AccountsShape
<1>2. rows[id] \in AccountRecs
  BY <1>1
<1>3. /\ [rows[id] EXCEPT !.ws = ws] \in AccountRecs
      /\ [rows[id] EXCEPT !.list = list] \in AccountRecs
      /\ rows'[id].keys = rows[id].keys /\ rows'[id].there = rows[id].there
  BY <1>1, <1>2 DEF AccountRecs
<1>4. rows' \in [Ids -> AccountRecs] /\ \A j \in Ids : j # id => rows'[j] = rows[j]
  BY <1>1, <1>3
<1>5. \A k : Holders(k)' = Holders(k)
  BY <1>3, <1>4, SameHolders
<1>6. UNCHANGED <<env, nextId, pool, sealed, missing, torn>>
  BY DEF PatchWorkspace, PatchList
<1>7. AccountsShape'
  BY <1>1, <1>3, <1>4, <1>6 DEF PatchWorkspace, PatchList, AccountsInv, AccountsShape
<1>8. PoolIsRows'
  BY <1>5, <1>6 DEF AccountsInv, PoolIsRows
<1>9. ListsInForce'
  <2>1. CASE PatchWorkspace(id, ws)
    <3>1. rows'[id].list = rows[id].list
      BY <1>1, <1>2, <2>1 DEF PatchWorkspace, AccountRecs
    <3> QED BY <1>4, <2>1, <3>1 DEF PatchWorkspace, AccountsInv, ListsInForce
  <2>2. CASE PatchList(id, list)
    <3>1. rows'[id].list = list
      BY <1>1, <1>2, <2>2 DEF PatchList, AccountRecs
    <3> QED BY <1>4, <2>2, <3>1 DEF PatchList, AccountsInv, AccountsShape, ListsInForce
  <2> QED BY <2>1, <2>2
<1>10. SealedOut' /\ KeysHeld'
  BY <1>1, <1>3, <1>4, <1>5, <1>6 DEF AccountsInv, SealedOut, KeysHeld, There
<1> QED BY <1>7, <1>8, <1>9, <1>10 DEF AccountsInv

LEMMA GateKeeps ==
    ASSUME AccountsInv, NEW id \in Ids, AccountGateReads(id)
    PROVE  AccountsInv'
<1>1. AccountsShape'
  BY DEF AccountGateReads, AccountsInv, AccountsShape
<1>2. PoolIsRows'
  BY DEF AccountGateReads, AccountsInv, PoolIsRows, Holders, There
<1>3. ListsInForce'
  BY DEF AccountGateReads, AccountsInv, AccountsShape, ListsInForce
<1>4. SealedOut' /\ KeysHeld'
  BY DEF AccountGateReads, AccountsInv, SealedOut, KeysHeld, Holders, There
<1> QED BY <1>1, <1>2, <1>3, <1>4 DEF AccountsInv

LEMMA EditsKeep ==
    ASSUME AccountsInv, AccountsEdited
    PROVE  AccountsInv'
<1> NoWorkspace \in Workspaces \cup {NoWorkspace} /\ Unlimited \in AccountLists \cup {Unlimited}
  OBVIOUS
<1> QED BY CreateKeeps, AddKeyKeeps, RemoveKeyKeeps, DeleteKeeps, PatchKeeps, GateKeeps
        DEF AccountsEdited

(* The first of those who hold a key, when there is but one. *)
LEMMA OnlyHolder ==
    ASSUME NEW id \in Nat
    PROVE  Min({id}) = id
BY DEF Min

(* What a start makes of a key that has at most one holder: as much as it   *)
(* has loaded.                                                              *)
LEMMA PoolOfKey ==
    ASSUME NEW table \in [Ids -> AccountRecs], NEW loaded \in SUBSET Ids, NEW named,
           NEW k \in Keys, NEW H, H = {id \in Ids : k \in table[id].keys},
           H = {} \/ \E id \in Ids : H = {id}
    PROVE  IF H = {} \/ k \in KeysIn(table, Ids) \ KeysIn(table, loaded)
           THEN PoolOf(table, loaded, named)[k] = (IF k \in named THEN Nobody ELSE Unpooled)
           ELSE \E id \in Ids : H = {id} /\ PoolOf(table, loaded, named)[k] = id
<1> DEFINE held == {id \in loaded : k \in table[id].keys}
<1>1. PoolOf(table, loaded, named)[k] =
         IF held # {} THEN Min(held) ELSE IF k \in named THEN Nobody ELSE Unpooled
  BY DEF PoolOf
<1>2. held \subseteq H
  OBVIOUS
<1>3. held = {} <=> k \notin KeysIn(table, loaded)
  BY DEF KeysIn
<1>4. H = {} <=> k \notin KeysIn(table, Ids)
  BY DEF KeysIn
<1> HIDE DEF held
<1>5. CASE held = {}
  BY <1>1, <1>3, <1>4, <1>5
<1>6. ASSUME held # {}, NEW id \in Ids, H = {id}
      PROVE  PoolOf(table, loaded, named)[k] = id
  <2>1. held = {id}
    BY <1>2, <1>6
  <2>2. Min({id}) = id
    BY OnlyHolder, IdsShape
  <2> QED BY <1>1, <2>1, <2>2
<1>7. CASE held # {}
  BY <1>2, <1>3, <1>6, <1>7
<1> QED BY <1>5, <1>7

(* What a start makes of a table in which a key that is not torn has at     *)
(* most one holder, and nobody who holds one is sealed but from before.     *)
LEMMA StartedKeeps ==
    ASSUME NEW table \in [Ids -> AccountRecs], NEW next \in Nat \ {0},
           \A id \in Ids : table[id].there \/ table[id] = NoRow,
           \A id \in Ids : id >= next => ~table[id].there,
           \A id \in There : table[id].there,
           \A k \in Keys \ torn : \A i, j \in Ids :
              k \in table[i].keys /\ k \in table[j].keys => i = j,
           Started(table, next)
    PROVE  AccountsInv'
<1>1. PICK loaded \in Loads(table) :
         /\ pool' = PoolOf(table, loaded, env')
         /\ missing' = KeysIn(table, Ids) \ KeysIn(table, loaded)
  BY DEF Started
<1>2. rows' = table /\ nextId' = next /\ cache' = [id \in Ids |-> Unasked]
  BY DEF Started
<1>3. loaded \in SUBSET Ids /\ loaded \cap sealed' = {}
  BY DEF Loads
<1>4. AccountsShape'
  BY <1>1, <1>2 DEF AccountsShape, PoolOf, KeysIn
<1>5. ListsInForce'
  BY <1>2 DEF ListsInForce
<1>6. \A k : Holders(k)' = {id \in Ids : k \in table[id].keys}
  BY <1>2, NoRowShape DEF Holders, There
<1>7. ASSUME NEW k \in Keys, k \notin torn', NEW H, H = {id \in Ids : k \in table[id].keys}
      PROVE  H = {} \/ \E id \in Ids : H = {id}
  <2>1. IsFiniteSet(H) /\ Cardinality(H) \in Nat
    <3>1. IsFiniteSet(Ids)
      BY IdsShape, FS_Interval DEF Ids
    <3>2. H \subseteq Ids
      BY <1>7
    <3> QED BY <3>1, <3>2, FS_Subset, FS_CardinalityType
  <2>2. CASE k \notin torn
    BY <1>7, <2>2
  <2>3. CASE k \in torn
    <3>1. ~(Cardinality(H) > 1)
      BY <1>7, <2>3 DEF Started
    <3>2. Cardinality(H) = 0 \/ Cardinality(H) = 1
      BY <2>1, <3>1
    <3>3. H = {} \/ \E x : H = {x}
      BY <2>1, <3>2, FS_EmptySet, FS_Singleton
    <3> QED BY <1>7, <3>3
  <2> QED BY <2>2, <2>3
<1>8. KeysHeld'
  <2>1. \A k \in missing' : Holders(k)' # {}
    BY <1>1, <1>6 DEF KeysIn
  <2>2. \A k \in Keys \ torn' : \A i, j \in Holders(k)' : i = j
    BY <1>6, <1>7
  <2> QED BY <2>1, <2>2 DEF KeysHeld
<1>9. PoolIsRows'
  <2> SUFFICES ASSUME NEW k \in Keys, k \notin torn'
               PROVE  IF Holders(k)' = {} \/ k \in missing'
                      THEN pool'[k] = Unpooled \/ (pool'[k] = Nobody /\ k \in env')
                      ELSE \E id \in Ids : Holders(k)' = {id} /\
                              (pool'[k] = id \/ (pool'[k] = Nobody /\ k \in env'))
    BY DEF PoolIsRows
  <2>0. PICK H : H = {id \in Ids : k \in table[id].keys}
    OBVIOUS
  <2>1. H = {} \/ \E id \in Ids : H = {id}
    BY <1>7, <2>0
  <2>2. IF H = {} \/ k \in missing'
        THEN pool'[k] = (IF k \in env' THEN Nobody ELSE Unpooled)
        ELSE \E id \in Ids : H = {id} /\ pool'[k] = id
    <3>1. PICK named : named = env'
      OBVIOUS
    <3>2. pool' = PoolOf(table, loaded, named)
      BY <1>1, <3>1 DEF PoolOf
    <3>3. IF H = {} \/ k \in KeysIn(table, Ids) \ KeysIn(table, loaded)
          THEN PoolOf(table, loaded, named)[k] = (IF k \in named THEN Nobody ELSE Unpooled)
          ELSE \E id \in Ids : H = {id} /\ PoolOf(table, loaded, named)[k] = id
      BY <1>3, <2>0, <2>1, PoolOfKey
    <3> QED BY <1>1, <3>1, <3>2, <3>3
  <2>3. Holders(k)' = H
    BY <1>6, <2>0
  <2> QED BY <2>2, <2>3
<1>10. SealedOut'
  <2>1. sealed' \subseteq There'
    BY <1>2 DEF Started, There
  <2>2. ASSUME NEW id \in sealed', NEW k \in table[id].keys, k \notin torn'
        PROVE  k \in missing'
    <3>1. id \in Ids /\ k \in Keys /\ id \notin loaded
      BY <1>3, <2>1, <2>2 DEF There, AccountRecs
    <3>2. \A j \in Ids : k \in table[j].keys => j = id
      BY <1>6, <1>8, <2>2, <3>1 DEF KeysHeld
    <3> QED BY <1>1, <1>3, <2>2, <3>1, <3>2 DEF KeysIn
  <2> QED BY <1>2, <2>1, <2>2 DEF SealedOut
<1> QED BY <1>4, <1>5, <1>8, <1>9, <1>10 DEF AccountsInv

LEMMA StartKeeps ==
    ASSUME AccountsInv, AccountsRestart
    PROVE  AccountsInv'
<1>1. rows \in [Ids -> AccountRecs] /\ nextId \in Nat \ {0}
  BY DEF AccountsInv, AccountsShape
<1>2. \A k \in Keys \ torn : \A i, j \in Ids :
         k \in rows[i].keys /\ k \in rows[j].keys => i = j
  <2> SUFFICES ASSUME NEW k \in Keys \ torn, NEW i \in Ids, NEW j \in Ids,
                      k \in rows[i].keys, k \in rows[j].keys
               PROVE  i = j
    OBVIOUS
  <2>1. i \in Holders(k) /\ j \in Holders(k)
    BY NoRowShape DEF Holders, There, AccountsInv, AccountsShape
  <2> QED BY <2>1 DEF AccountsInv, KeysHeld
<1>3. CASE Started(rows, nextId)
  BY <1>1, <1>2, <1>3, StartedKeeps DEF AccountsInv, AccountsShape, There
<1>4. CASE Seeded /\ Started([rows EXCEPT ![nextId] = NewRow(env', NoWorkspace)], nextId + 1)
  <2> DEFINE new == NewRow(env', NoWorkspace)
             table == [rows EXCEPT ![nextId] = new]
  <2>1. /\ new \in AccountRecs /\ new.there /\ nextId \in Ids
        /\ \A id \in Ids : ~rows[id].there /\ rows[id].keys = {}
    BY <1>4, NewRowShape, NoRowShape
       DEF AccountsRestart, Seeded, There, AccountsInv, AccountsShape
  <2> HIDE DEF new
  <2>2. /\ table \in [Ids -> AccountRecs]
        /\ \A id \in Ids : table[id] = IF id = nextId THEN new ELSE rows[id]
    BY <1>1, <2>1
  <2>3. nextId + 1 \in Nat \ {0} /\ \A id \in Ids : id >= nextId + 1 => id # nextId
    BY <1>1, IdsShape
  <2>4. Started(table, nextId + 1)
    BY <1>4 DEF new
  <2> HIDE DEF table
  <2>5. \A k \in Keys \ torn : \A i, j \in Ids :
           k \in table[i].keys /\ k \in table[j].keys => i = j
    BY <2>1, <2>2
  <2>6. \A id \in Ids : table[id].there \/ table[id] = NoRow
    BY <2>1, <2>2 DEF AccountsInv, AccountsShape
  <2>7. \A id \in Ids : id >= nextId + 1 => ~table[id].there
    BY <2>1, <2>2, <2>3
  <2>8. \A id \in There : table[id].there
    BY <2>1, <2>2 DEF There
  <2> QED BY <2>2, <2>3, <2>4, <2>5, <2>6, <2>7, <2>8, StartedKeeps
<1> QED BY <1>3, <1>4 DEF AccountsRestart

LEMMA AccountsInitial == AccountsInit => AccountsInv
<1> SUFFICES ASSUME AccountsInit PROVE AccountsInv
  OBVIOUS
<1> DEFINE new == NewRow(env, NoWorkspace)
<1>1. new \in AccountRecs /\ new.there /\ 1 \in Ids
  BY NewRowShape, IdsShape DEF AccountsInit
<1>2. /\ rows \in {[id \in Ids |-> NoRow], [[id \in Ids |-> NoRow] EXCEPT ![1] = new]}
      /\ rows # [id \in Ids |-> NoRow] => nextId = 2
      /\ nextId \in {1, 2}
  BY DEF AccountsInit
<1> HIDE DEF new
<1>3. /\ rows \in [Ids -> AccountRecs] /\ rows[1] \in {new, NoRow}
      /\ \A id \in Ids : id # 1 => rows[id] = NoRow
  BY <1>1, <1>2, NoRowShape
<1>4. PICK loaded \in {{}, There} :
        /\ pool = PoolOf(rows, loaded, env)
        /\ missing = KeysIn(rows, Ids) \ KeysIn(rows, loaded)
  BY DEF AccountsInit
<1>5. loaded \in SUBSET Ids
  BY DEF There
<1>6. rows[1].there => nextId = 2
  BY <1>1, <1>2, NoRowShape
<1>7. AccountsShape
  BY <1>1, <1>2, <1>3, <1>4, <1>6, IdsShape, NoRowShape DEF AccountsInit, AccountsShape,
     PoolOf, KeysIn
<1>8. ListsInForce
  BY DEF AccountsInit, ListsInForce
<1>9. \A k : Holders(k) = {id \in Ids : k \in rows[id].keys}
  BY <1>7, NoRowShape DEF Holders, There, AccountsShape
<1>10. \A k : Holders(k) = {} \/ Holders(k) = {1}
  BY <1>3, <1>9, NoRowShape
<1>11. KeysHeld
  BY <1>4, <1>9, <1>10 DEF KeysHeld, KeysIn
<1>12. PoolIsRows
  <2> SUFFICES ASSUME NEW k \in Keys
               PROVE  IF Holders(k) = {} \/ k \in missing
                      THEN pool[k] = Unpooled \/ (pool[k] = Nobody /\ k \in env)
                      ELSE \E id \in Ids : Holders(k) = {id} /\
                              (pool[k] = id \/ (pool[k] = Nobody /\ k \in env))
    BY DEF PoolIsRows
  <2> DEFINE H == {id \in Ids : k \in rows[id].keys}
  <2>1. Holders(k) = H /\ (H = {} \/ \E id \in Ids : H = {id})
    BY <1>1, <1>9, <1>10
  <2>2. IF H = {} \/ k \in missing
        THEN pool[k] = (IF k \in env THEN Nobody ELSE Unpooled)
        ELSE \E id \in Ids : H = {id} /\ pool[k] = id
    BY <1>3, <1>4, <1>5, <2>1, PoolOfKey
  <2> HIDE DEF H
  <2> QED BY <2>1, <2>2
<1>13. SealedOut
  BY DEF AccountsInit, SealedOut
<1> QED BY <1>7, <1>8, <1>11, <1>12, <1>13 DEF AccountsInv

----------------------------------------------------------------------------
(* Signing in *)

Turns == Nat

SessionRecs == [open : BOOLEAN, late : BOOLEAN, tok : Turns]

PollRecs == [pc : {"idle", "exchange", "refresh", "answered", "orgs"},
             code : Codes \cup {NoToken}, prev : Turns, tok : Turns,
             res : {"none", "ok", "wait", "failed", "over"}]

GrantRecs == [st : {"unused", "pending", "agreed", "denied", "spent"},
              ws : Workspaces \cup {NoWorkspace}]

LoginShape ==
    /\ session \in [Codes -> SessionRecs] /\ poll \in [Polls -> PollRecs]
    /\ grant \in [Codes -> GrantRecs] /\ live \in [Codes -> Turns]
    /\ \A p \in Polls : poll[p].pc = "idle" <=> poll[p].code = NoToken

Polled(c) == \E p \in Polls : poll[p].code = c
HasToken(id, c) == rows[id].there /\ rows[id].tok # NoToken /\ rows[id].tok.code = c

(* A code that was never given is nowhere. *)
Unused(c) ==
    grant[c].st = "unused" =>
        /\ ~session[c].open /\ session[c].tok = 0 /\ ~Polled(c)
        /\ \A id \in Ids : ~HasToken(id, c)

(* A code two polls were never about at once is in an account only when its *)
(* sign-in is over.                                                         *)
OneByOne(c) ==
    c \notin overlapped =>
        /\ \A p, q \in Polls : poll[p].code = c /\ poll[q].code = c => p = q
        /\ \A id \in Ids : HasToken(id, c) => ~session[c].open /\ ~Polled(c)

(* Where the newest token of such a code is. *)
Carries(p, c) ==
    /\ poll[p].pc = "exchange" => poll[p].prev = 0 /\ session[c].tok = 0
    /\ poll[p].pc = "refresh" =>
         poll[p].prev = session[c].tok /\ session[c].tok = live[c] /\ poll[p].prev # 0
    /\ poll[p].pc = "answered" =>
         /\ poll[p].res = "ok" => poll[p].tok = live[c]
         /\ poll[p].prev = 0 => session[c].tok = 0
    /\ poll[p].pc = "orgs" =>
         session[c].tok = live[c] /\ (poll[p].prev = 0 => poll[p].tok = live[c])

NewestKept(c) ==
    c \notin overlapped \cup lost =>
        /\ \A p \in Polls : poll[p].code = c => Carries(p, c)
        /\ session[c].open /\ ~Polled(c) => session[c].tok \in {0, live[c]}
        /\ \A id \in Ids : HasToken(id, c) => rows[id].tok.turn = live[c]

CodeInv(c) == Unused(c) /\ OneByOne(c) /\ NewestKept(c)

LoginInv == LoginShape /\ \A c \in Codes : CodeInv(c)

SignInInv == AccountsInv /\ LoginInv

LEMMA SignInKeptFollows == SignInInv => SignInKept
<1> SUFFICES ASSUME SignInInv PROVE SignInKept
  OBVIOUS
<1>1. ASSUME NEW c \in Open
      PROVE  session[c].tok = 0 \/ Current(c, session[c].tok) \/ \E p \in Polls : poll[p].code = c
  BY <1>1 DEF Open, SignInInv, LoginInv, CodeInv, NewestKept, Polled, Current
<1>2. ASSUME NEW id \in There, rows[id].tok # NoToken
      PROVE  Current(rows[id].tok.code, rows[id].tok.turn)
  <2>1. rows[id].tok.code \in Codes /\ HasToken(id, rows[id].tok.code)
    BY <1>2 DEF There, SignInInv, AccountsInv, AccountsShape, AccountRecs, RowTokens, HasToken
  <2> QED BY <1>2, <2>1 DEF There, SignInInv, LoginInv, CodeInv, NewestKept, Current
<1> QED BY <1>1, <1>2 DEF SignInKept

(* What a step may do to a code and break nothing: close its session, give  *)
(* up its polls when the session is closed, take its token out of a row.    *)
Calm(c) ==
    /\ session'[c].tok = session[c].tok /\ (session'[c].open => session[c].open)
    /\ grant'[c].st = "unused" => grant[c].st = "unused"
    /\ live'[c] = live[c]
    /\ c \in overlapped <=> c \in overlapped'
    /\ c \in lost => c \in lost'
    /\ \A p \in Polls : poll'[p].code = c => poll'[p] = poll[p]
    /\ \A p \in Polls : poll[p].code = c => poll'[p] = poll[p] \/ ~session'[c].open
    /\ \A id \in Ids : HasToken(id, c)' => HasToken(id, c) /\ rows'[id].tok = rows[id].tok

LEMMA CalmKeeps ==
    ASSUME NEW c \in Codes, CodeInv(c), Calm(c)
    PROVE  CodeInv(c)'
<1>1. Polled(c)' => Polled(c)
  BY DEF Calm, Polled
<1>2. Unused(c)'
  BY <1>1 DEF Calm, CodeInv, Unused
<1>3. OneByOne(c)'
  BY <1>1 DEF Calm, CodeInv, OneByOne
<1>4. NewestKept(c)'
  <2> SUFFICES ASSUME c \notin overlapped' \cup lost'
               PROVE  /\ \A p \in Polls : poll'[p].code = c => Carries(p, c)'
                      /\ session'[c].open /\ ~Polled(c)' => session'[c].tok \in {0, live'[c]}
                      /\ \A id \in Ids : HasToken(id, c)' => rows'[id].tok.turn = live'[c]
    BY DEF NewestKept
  <2>1. /\ \A p \in Polls : poll[p].code = c => Carries(p, c)
        /\ session[c].open /\ ~Polled(c) => session[c].tok \in {0, live[c]}
        /\ \A id \in Ids : HasToken(id, c) => rows[id].tok.turn = live[c]
    BY DEF Calm, CodeInv, NewestKept
  <2>2. ASSUME NEW p \in Polls, poll'[p].code = c
        PROVE  Carries(p, c)'
    <3>1. poll'[p] = poll[p] /\ Carries(p, c)
      BY <2>1, <2>2 DEF Calm
    <3> QED BY <3>1 DEF Calm, Carries
  <2>3. session'[c].open /\ ~Polled(c)' => session'[c].tok \in {0, live'[c]}
    BY <2>1 DEF Calm, Polled
  <2>4. \A id \in Ids : HasToken(id, c)' => rows'[id].tok.turn = live'[c]
    BY <2>1 DEF Calm
  <2> QED BY <2>2, <2>3, <2>4
<1> QED BY <1>2, <1>3, <1>4 DEF CodeInv

(* The operator's work, and a start, give no account a token. *)
TokensStay ==
    \A id \in Ids : rows'[id].there /\ rows'[id].tok # NoToken =>
                        rows[id].there /\ rows'[id].tok = rows[id].tok

LEMMA EditsGiveNoToken ==
    ASSUME AccountsInv, AccountsEdited \/ AccountsRestart
    PROVE  TokensStay
<1> USE DEF AccountsInv, AccountsShape
<1>1. ASSUME NEW keys \in SUBSET Keys, NEW ws \in Workspaces \cup {NoWorkspace},
             Create(keys, ws)
      PROVE  TokensStay
  BY <1>1, NewRowShape, IdsShape DEF Create, Insert, TokensStay
<1>2. ASSUME NEW id \in Ids, Delete(id)
      PROVE  TokensStay
  BY <1>2, NoRowShape DEF Delete, TokensStay
<1>3. ASSUME NEW id \in Ids, AccountGateReads(id)
      PROVE  TokensStay
  BY <1>3 DEF AccountGateReads, TokensStay
<1>4. ASSUME NEW id \in Ids, NEW k \in Keys, AddKey(id, k) \/ RemoveKey(id, k)
      PROVE  TokensStay
  BY <1>4 DEF AddKey, RemoveKey, There, TokensStay, AccountRecs
<1>5. ASSUME NEW id \in Ids, NEW ws \in Workspaces \cup {NoWorkspace},
             NEW list \in AccountLists \cup {Unlimited},
             PatchWorkspace(id, ws) \/ PatchList(id, list)
      PROVE  TokensStay
  BY <1>5 DEF PatchWorkspace, PatchList, There, TokensStay, AccountRecs
<1>6. ASSUME AccountsRestart
      PROVE  TokensStay
  BY <1>6, NewRowShape, IdsShape
     DEF AccountsRestart, Started, Seeded, There, TokensStay
<1>7. NoWorkspace \in Workspaces \cup {NoWorkspace} /\ Unlimited \in AccountLists \cup {Unlimited}
  OBVIOUS
<1> QED BY <1>1, <1>2, <1>3, <1>4, <1>5, <1>6, <1>7 DEF AccountsEdited

LEMMA EditsKeepLogin ==
    ASSUME AccountsInv, LoginInv, AccountsEdited, UNCHANGED loginVars
    PROVE  LoginInv'
<1>1. TokensStay
  BY EditsGiveNoToken
<1>2. ASSUME NEW c \in Codes
      PROVE  CodeInv(c)'
  <2>1. Calm(c)
    BY <1>1 DEF Calm, loginVars, TokensStay, HasToken
  <2> QED BY <2>1, CalmKeeps DEF LoginInv
<1>3. LoginShape'
  BY DEF LoginInv, LoginShape, loginVars
<1> QED BY <1>2, <1>3 DEF LoginInv

LEMMA RestartKeepsLogin ==
    ASSUME AccountsInv, LoginInv, AccountsRestart, LoginRestart
    PROVE  LoginInv'
<1>1. TokensStay
  BY EditsGiveNoToken
<1>2. Idle \in PollRecs /\ Idle.code = NoToken /\ Idle.pc = "idle"
  BY DEF Idle, PollRecs, Turns
<1>3. \A p \in Polls : poll'[p] = Idle
  BY DEF LoginRestart
<1>4. \A c \in Codes : /\ session'[c] = [session[c] EXCEPT !.open = FALSE]
                       /\ session[c] \in SessionRecs
  BY DEF LoginRestart, LoginInv, LoginShape
<1>5. \A c \in Codes : /\ session'[c].tok = session[c].tok /\ ~session'[c].open
                       /\ session'[c] \in SessionRecs
  BY <1>4 DEF SessionRecs
<1>6. ASSUME NEW c \in Codes
      PROVE  CodeInv(c)'
  <2>1. Calm(c)
    BY <1>1, <1>2, <1>3, <1>5, LoginAssumption DEF LoginRestart, Calm, TokensStay, HasToken
  <2> QED BY <2>1, CalmKeeps DEF LoginInv
<1>7. LoginShape'
  BY <1>2, <1>3, <1>5 DEF LoginRestart, LoginInv, LoginShape
<1> QED BY <1>6, <1>7 DEF LoginInv

(* A step about one code, that leaves every other one calm. *)
LEMMA OneCode ==
    ASSUME LoginInv, LoginShape', NEW c \in Codes, CodeInv(c)',
           \A d \in Codes \ {c} : Calm(d)
    PROVE  LoginInv'
BY CalmKeeps DEF LoginInv

LEMMA SessionSteps ==
    ASSUME LoginInv, UNCHANGED accountVars,
           \/ StartAsks \/ StartFails
           \/ \E c \in Codes : \/ SessionAges(c) \/ PollLate(c)
                               \/ \E ws \in Workspaces \cup {NoWorkspace} : Decide(c, ws)
    PROVE  LoginInv'
<1> USE DEF LoginInv, LoginShape
<1>1. UNCHANGED <<live, lost, overlapped, poll, rows>>
  BY DEF accountVars, StartAsks, StartFails, SessionAges, PollLate, Decide
<1>2. \A c \in Codes : session[c] \in SessionRecs /\ grant[c] \in GrantRecs
  OBVIOUS
<1>3. /\ session' \in [Codes -> SessionRecs]
      /\ \A c \in Codes : session'[c].tok = session[c].tok /\ (session'[c].open => session[c].open)
  <2>1. CASE StartAsks
    BY <1>2, <2>1 DEF StartAsks, Purged, SessionRecs
  <2>2. CASE StartFails \/ \E c \in Codes, ws \in Workspaces \cup {NoWorkspace} : Decide(c, ws)
    BY <2>2 DEF StartFails, Decide
  <2>3. ASSUME NEW c \in Codes, SessionAges(c)
        PROVE  <1>3!:
    BY <1>2, <2>3 DEF SessionAges, SessionRecs
  <2>4. ASSUME NEW c \in Codes, PollLate(c)
        PROVE  <1>3!:
    BY <1>2, <2>4 DEF PollLate, Drop, SessionRecs
  <2> QED BY <2>1, <2>2, <2>3, <2>4
<1>4. /\ grant' \in [Codes -> GrantRecs]
      /\ \A c \in Codes : grant'[c].st = "unused" => grant[c].st = "unused"
  <2>1. ASSUME NEW c \in Codes, NEW ws \in Workspaces \cup {NoWorkspace}, Decide(c, ws)
        PROVE  <1>4!:
    BY <1>2, <2>1 DEF Decide, GrantRecs
  <2> QED BY <2>1 DEF StartAsks, StartFails, SessionAges, PollLate
<1>5. ASSUME NEW c \in Codes
      PROVE  CodeInv(c)'
  <2>1. Calm(c)
    BY <1>1, <1>3, <1>4 DEF Calm, HasToken
  <2> QED BY <2>1, CalmKeeps
<1> QED BY <1>1, <1>3, <1>4, <1>5

LEMMA StartAnsweredKeeps ==
    ASSUME LoginInv, UNCHANGED accountVars, NEW c \in Codes, StartAnswered(c)
    PROVE  LoginInv'
<1> USE DEF LoginInv, LoginShape
<1>1. /\ UNCHANGED <<live, lost, overlapped, poll, rows>>
      /\ session' = [session EXCEPT ![c] = [session[c] EXCEPT !.open = TRUE]]
      /\ grant' = [grant EXCEPT ![c] = [grant[c] EXCEPT !.st = "pending"]]
      /\ grant[c].st = "unused"
  BY DEF accountVars, StartAnswered
<1>2. session[c] \in SessionRecs /\ grant[c] \in GrantRecs
  OBVIOUS
<1>3. /\ session' \in [Codes -> SessionRecs] /\ grant' \in [Codes -> GrantRecs]
      /\ session'[c].tok = session[c].tok /\ grant'[c].st = "pending"
      /\ \A d \in Codes \ {c} : session'[d] = session[d] /\ grant'[d] = grant[d]
  BY <1>1, <1>2 DEF SessionRecs, GrantRecs
<1>4. \A d \in Codes \ {c} : Calm(d)
  BY <1>1, <1>3 DEF Calm, HasToken
<1>5. ~Polled(c) /\ session[c].tok = 0 /\ \A id \in Ids : ~HasToken(id, c)
  BY <1>1 DEF CodeInv, Unused
<1>6. CodeInv(c)'
  BY <1>1, <1>3, <1>5
     DEF CodeInv, Unused, OneByOne, NewestKept, Polled, HasToken
<1>7. LoginShape'
  BY <1>1, <1>3
<1> QED BY <1>4, <1>6, <1>7, OneCode

LEMMA PollAsksKeeps ==
    ASSUME LoginInv, UNCHANGED accountVars, NEW c \in Codes, NEW p \in Polls, PollAsks(p, c)
    PROVE  LoginInv'
<1> USE DEF LoginInv, LoginShape
<1> DEFINE me == [Idle EXCEPT !.pc = IF session[c].tok = 0 THEN "exchange" ELSE "refresh",
                              !.code = c, !.prev = session[c].tok]
<1>1. /\ UNCHANGED <<live, lost, session, grant, rows>>
      /\ poll' = [poll EXCEPT ![p] = me]
      /\ overlapped' = IF Polled(c) THEN overlapped \cup {c} ELSE overlapped
      /\ poll[p].code = NoToken /\ session[c].open
  BY DEF accountVars, PollAsks, Polled
<1>2. session[c] \in SessionRecs
  OBVIOUS
<1>3. /\ me \in PollRecs /\ me.code = c /\ me.prev = session[c].tok
      /\ me.pc = IF session[c].tok = 0 THEN "exchange" ELSE "refresh"
  BY <1>2 DEF Idle, PollRecs, SessionRecs, Turns
<1> HIDE DEF me
<1>4. /\ poll' \in [Polls -> PollRecs] /\ poll'[p] = me
      /\ \A q \in Polls : q # p => poll'[q] = poll[q]
  BY <1>1, <1>3
<1>5. c # NoToken
  BY LoginAssumption
<1>6. LoginShape'
  BY <1>1, <1>3, <1>4, <1>5
<1>7. \A d \in Codes \ {c} : Calm(d)
  BY <1>1, <1>3, <1>4, LoginAssumption DEF Calm, HasToken
<1>8. Unused(c)'
  BY <1>1 DEF CodeInv, Unused
<1>9. ASSUME c \notin overlapped'
      PROVE  ~Polled(c) /\ c \notin overlapped /\ \A id \in Ids : ~HasToken(id, c)
  BY <1>1, <1>9 DEF CodeInv, OneByOne
<1>10. OneByOne(c)'
  BY <1>1, <1>3, <1>4, <1>9 DEF OneByOne, Polled, HasToken
<1>11. NewestKept(c)'
  BY <1>1, <1>3, <1>4, <1>9 DEF CodeInv, NewestKept, Polled, HasToken, Carries
<1> QED BY <1>6, <1>7, <1>8, <1>10, <1>11, OneCode DEF CodeInv

(* A poll goes, or takes its next step: what it does to its own code.       *)
LEMMA PollMoves ==
    ASSUME LoginInv, NEW p \in Polls, poll[p].code # NoToken,
           NEW me \in PollRecs, poll' = [poll EXCEPT ![p] = me],
           me = Idle \/ (me.code = poll[p].code /\ me.pc # "idle")
    PROVE  /\ poll[p].code \in Codes
           /\ poll' \in [Polls -> PollRecs] /\ poll'[p] = me
           /\ \A q \in Polls : q # p => poll'[q] = poll[q]
           /\ \A q \in Polls : poll'[q].pc = "idle" <=> poll'[q].code = NoToken
           /\ \A d \in Codes, q \in Polls :
                 d # poll[p].code /\ (poll[q].code = d \/ poll'[q].code = d) => poll'[q] = poll[q]
<1>1. poll[p] \in PollRecs /\ poll \in [Polls -> PollRecs]
  BY DEF LoginInv, LoginShape
<1>2. Idle.pc = "idle" /\ Idle.code = NoToken
  BY DEF Idle
<1>3. poll[p].code \in Codes
  BY <1>1 DEF PollRecs
<1>4. poll'[p] = me /\ \A q \in Polls : q # p => poll'[q] = poll[q]
  BY <1>1
<1> QED BY <1>1, <1>2, <1>3, <1>4, LoginAssumption DEF LoginInv, LoginShape

(* What the upstream's answer to a poll has to do with its newest token. *)
LEMMA AnswerBrings ==
    ASSUME LoginInv, NEW p \in Polls, NEW c \in Codes, c = poll[p].code,
           ServeExchange(p) \/ ServeRefresh(p)
    PROVE  \E res \in {"ok", "wait", "failed", "over"}, tok \in Nat :
              /\ Answer(p, res, tok)
              /\ res = "ok" => tok = live'[c]
              /\ live' \in [Codes -> Nat] /\ \A d \in Codes \ {c} : live'[d] = live[d]
              /\ lost' \in {lost, lost \cup {c}}
              /\ res # "ok" /\ c \notin lost' => live'[c] = live[c]
              /\ grant' \in [Codes -> GrantRecs] /\ \A d \in Codes \ {c} : grant'[d] = grant[d]
              /\ grant'[c].st = "unused" => grant[c].st = "unused"
<1> DEFINE Goal ==
      \E res \in {"ok", "wait", "failed", "over"}, tok \in Nat :
         /\ Answer(p, res, tok)
         /\ res = "ok" => tok = live'[c]
         /\ live' \in [Codes -> Nat] /\ \A d \in Codes \ {c} : live'[d] = live[d]
         /\ lost' \in {lost, lost \cup {c}}
         /\ res # "ok" /\ c \notin lost' => live'[c] = live[c]
         /\ grant' \in [Codes -> GrantRecs] /\ \A d \in Codes \ {c} : grant'[d] = grant[d]
         /\ grant'[c].st = "unused" => grant[c].st = "unused"
<1> USE DEF LoginInv, LoginShape, Turns
<1>1. live[c] \in Nat /\ live[c] + 1 \in Nat /\ grant[c] \in GrantRecs
  OBVIOUS
<1>2. CASE ServeExchange(p)
  <2>1. CASE /\ grant' = [grant EXCEPT ![c].st = "spent"]
             /\ live' = [live EXCEPT ![c] = 1]
             /\ Brings(p, c, 1)
    <3>1. /\ grant' \in [Codes -> GrantRecs] /\ grant'[c].st = "spent"
          /\ \A d \in Codes \ {c} : grant'[d] = grant[d]
          /\ live' \in [Codes -> Nat] /\ live'[c] = 1
          /\ \A d \in Codes \ {c} : live'[d] = live[d]
      BY <1>1, <2>1 DEF GrantRecs
    <3>2. CASE Answer(p, "ok", 1) /\ UNCHANGED lost
      BY <3>1, <3>2
    <3>3. ASSUME NEW res \in {"failed", "over"}, Answer(p, res, 0), lost' = lost \cup {c}
          PROVE  Goal
      BY <3>1, <3>3
    <3> QED BY <2>1, <3>2, <3>3 DEF Brings
  <2>2. CASE /\ \E res \in {"wait", "over", "failed"} : Answer(p, res, 0)
             /\ UNCHANGED <<grant, live, lost>>
    BY <2>2
  <2> QED BY <1>2, <2>1, <2>2 DEF ServeExchange
<1>3. CASE ServeRefresh(p)
  <2>1. UNCHANGED grant
    BY <1>3 DEF ServeRefresh
  <2>2. CASE live' = [live EXCEPT ![c] = @ + 1] /\ Brings(p, c, live[c] + 1)
    <3>1. /\ live' \in [Codes -> Nat] /\ live'[c] = live[c] + 1
          /\ \A d \in Codes \ {c} : live'[d] = live[d]
      BY <1>1, <2>2
    <3>2. CASE Answer(p, "ok", live[c] + 1) /\ UNCHANGED lost
      BY <1>1, <2>1, <3>1, <3>2
    <3>3. ASSUME NEW res \in {"failed", "over"}, Answer(p, res, 0), lost' = lost \cup {c}
          PROVE  Goal
      BY <2>1, <3>1, <3>3
    <3> QED BY <2>2, <3>2, <3>3 DEF Brings
  <2>3. CASE Answer(p, "ok", live[c]) /\ UNCHANGED <<live, lost>>
    BY <1>1, <2>1, <2>3
  <2>4. CASE Answer(p, "failed", 0) /\ UNCHANGED <<live, lost>>
    BY <2>1, <2>4
  <2> QED BY <1>3, <2>2, <2>3, <2>4 DEF ServeRefresh
<1> QED BY <1>2, <1>3

LEMMA ServeKeeps ==
    ASSUME LoginInv, UNCHANGED accountVars, NEW p \in Polls, ServeExchange(p) \/ ServeRefresh(p)
    PROVE  LoginInv'
<1> USE DEF LoginInv, LoginShape
<1>1. PICK c \in Codes : /\ c = poll[p].code /\ poll[p] \in PollRecs
                        /\ poll[p].pc \in {"exchange", "refresh"}
  BY DEF ServeExchange, ServeRefresh, PollRecs
<1>2. UNCHANGED <<session, overlapped, rows>>
  BY DEF accountVars, ServeExchange, ServeRefresh
<1>3. PICK res \in {"ok", "wait", "failed", "over"}, tok \in Nat :
        /\ Answer(p, res, tok)
        /\ res = "ok" => tok = live'[c]
        /\ live' \in [Codes -> Nat] /\ \A d \in Codes \ {c} : live'[d] = live[d]
        /\ lost' \in {lost, lost \cup {c}}
        /\ res # "ok" /\ c \notin lost' => live'[c] = live[c]
        /\ grant' \in [Codes -> GrantRecs] /\ \A d \in Codes \ {c} : grant'[d] = grant[d]
        /\ grant'[c].st = "unused" => grant[c].st = "unused"
  BY <1>1, AnswerBrings
<1> DEFINE me == [poll[p] EXCEPT !.pc = "answered", !.res = res, !.tok = tok]
<1>4. poll' = [poll EXCEPT ![p] = me]
  BY <1>1, <1>3 DEF Answer
<1>5. /\ me \in PollRecs /\ me.code = c /\ me.pc = "answered" /\ me.res = res /\ me.tok = tok
      /\ me.prev = poll[p].prev
  BY <1>1, <1>3 DEF PollRecs, Turns
<1> HIDE DEF me
<1>6. /\ poll' \in [Polls -> PollRecs] /\ poll'[p] = me
      /\ \A q \in Polls : q # p => poll'[q] = poll[q]
      /\ \A q \in Polls : poll'[q].pc = "idle" <=> poll'[q].code = NoToken
      /\ \A d \in Codes, q \in Polls :
            d # c /\ (poll[q].code = d \/ poll'[q].code = d) => poll'[q] = poll[q]
  <2>1. c # NoToken /\ LoginInv /\ poll[p].code = c
    BY <1>1, LoginAssumption
  <2>2. me = Idle \/ (me.code = poll[p].code /\ me.pc # "idle")
    BY <1>5, <2>1
  <2> HIDE DEF LoginInv, LoginShape
  <2> QED BY <1>4, <1>5, <2>1, <2>2, PollMoves
<1>7. LoginShape'
  BY <1>2, <1>3, <1>6 DEF Turns
<1>8. \A d \in Codes \ {c} : Calm(d)
  BY <1>2, <1>3, <1>6 DEF Calm, HasToken
<1>9. Polled(c) /\ grant[c].st # "unused"
  BY <1>1 DEF Polled, CodeInv, Unused
<1>10. Unused(c)'
  BY <1>1, <1>3, <1>9 DEF Unused
<1>11. OneByOne(c)'
  BY <1>1, <1>2, <1>5, <1>6, <1>9 DEF CodeInv, OneByOne, Polled, HasToken
<1>12. NewestKept(c)'
  <2> SUFFICES ASSUME c \notin overlapped' \cup lost'
               PROVE  /\ \A q \in Polls : poll'[q].code = c => Carries(q, c)'
                      /\ session'[c].open /\ ~Polled(c)' => session'[c].tok \in {0, live'[c]}
                      /\ \A id \in Ids : HasToken(id, c)' => rows'[id].tok.turn = live'[c]
    BY <1>1 DEF NewestKept
  <2>1. /\ Carries(p, c) /\ \A q \in Polls : poll[q].code = c => q = p
        /\ \A id \in Ids : ~HasToken(id, c)
    BY <1>1, <1>2, <1>3, <1>9 DEF CodeInv, NewestKept, OneByOne
  <2>2. Carries(p, c)'
    BY <1>1, <1>2, <1>3, <1>5, <1>6, <2>1 DEF Carries
  <2>3. Polled(c)' /\ \A q \in Polls : poll'[q].code = c => q = p
    BY <1>5, <1>6, <2>1 DEF Polled
  <2>4. \A id \in Ids : ~HasToken(id, c)'
    BY <1>2, <2>1 DEF HasToken
  <2> QED BY <2>2, <2>3, <2>4
<1> QED BY <1>1, <1>7, <1>8, <1>10, <1>11, <1>12, OneCode DEF CodeInv

(* A poll goes, and nothing else happens but that its session may close.    *)
LEMMA PollGoesKeeps ==
    ASSUME LoginInv, UNCHANGED accountVars, NEW p \in Polls, PollWaits(p) \/ PollEnds(p)
    PROVE  LoginInv'
<1> USE DEF LoginInv, LoginShape
<1>1. PICK c \in Codes : c = poll[p].code /\ poll[p].pc = "answered"
  BY DEF PollWaits, PollEnds, Answered, PollRecs
<1>2. /\ UNCHANGED <<grant, live, lost, overlapped, rows>>
      /\ poll' = [poll EXCEPT ![p] = Idle]
  BY DEF accountVars, PollWaits, PollEnds, Done
<1>3. session[c] \in SessionRecs
  OBVIOUS
<1>4. /\ session' \in [Codes -> SessionRecs]
      /\ session'[c].tok = session[c].tok /\ (session'[c].open => session[c].open)
      /\ \A d \in Codes \ {c} : session'[d] = session[d]
      /\ session'[c].open => poll[p].prev = 0
  <2>1. CASE PollWaits(p)
    BY <2>1 DEF PollWaits, Refreshing
  <2>2. CASE PollEnds(p)
    BY <1>1, <1>3, <2>2 DEF PollEnds, Drop, SessionRecs
  <2> QED BY <2>1, <2>2
<1>5. Idle \in PollRecs /\ Idle.code = NoToken /\ Idle.pc = "idle"
  BY DEF Idle, PollRecs, Turns
<1>6. /\ poll' \in [Polls -> PollRecs] /\ poll'[p] = Idle
      /\ \A q \in Polls : q # p => poll'[q] = poll[q]
  BY <1>2, <1>5
<1>7. LoginShape'
  BY <1>2, <1>4, <1>5, <1>6
<1>8. \A d \in Codes \ {c} : Calm(d)
  BY <1>1, <1>2, <1>4, <1>5, <1>6, LoginAssumption DEF Calm, HasToken
<1>9. Polled(c) /\ grant[c].st # "unused" /\ c # NoToken
  BY <1>1, LoginAssumption DEF Polled, CodeInv, Unused
<1>10. Unused(c)'
  BY <1>1, <1>2, <1>9 DEF Unused
<1>11. OneByOne(c)'
  BY <1>2, <1>4, <1>5, <1>6, <1>9 DEF CodeInv, OneByOne, Polled, HasToken
<1>12. NewestKept(c)'
  BY <1>1, <1>2, <1>4, <1>5, <1>6, <1>9
     DEF CodeInv, OneByOne, NewestKept, Polled, HasToken, Carries
<1> QED BY <1>7, <1>8, <1>10, <1>11, <1>12, OneCode DEF CodeInv

LEMMA PollHasTokenKeeps ==
    ASSUME LoginInv, UNCHANGED accountVars, NEW p \in Polls, PollHasToken(p)
    PROVE  LoginInv'
<1> USE DEF LoginInv, LoginShape
<1>1. PICK c \in Codes : /\ c = poll[p].code /\ poll[p].pc = "answered" /\ poll[p].res = "ok"
                        /\ poll[p] \in PollRecs
  BY DEF PollHasToken, Answered, PollRecs
<1> DEFINE me == [poll[p] EXCEPT !.pc = "orgs"]
<1>2. /\ UNCHANGED <<grant, live, lost, overlapped, rows>>
      /\ poll' = [poll EXCEPT ![p] = me]
      /\ session' = [session EXCEPT ![c] = [session[c] EXCEPT !.tok = poll[p].tok]]
  BY <1>1 DEF accountVars, PollHasToken, TokenKept
<1>3. /\ session[c] \in SessionRecs /\ poll[p].tok \in Turns
      /\ me \in PollRecs /\ me.code = c /\ me.pc = "orgs" /\ me.prev = poll[p].prev
      /\ me.tok = poll[p].tok
  BY <1>1 DEF PollRecs
<1> HIDE DEF me
<1>4. /\ session' \in [Codes -> SessionRecs]
      /\ session'[c].tok = poll[p].tok /\ session'[c].open = session[c].open
      /\ \A d \in Codes \ {c} : session'[d] = session[d]
  BY <1>2, <1>3 DEF SessionRecs
<1>5. /\ poll' \in [Polls -> PollRecs] /\ poll'[p] = me
      /\ \A q \in Polls : q # p => poll'[q] = poll[q]
  BY <1>2, <1>3
<1>6. c # NoToken
  BY LoginAssumption
<1>7. LoginShape'
  BY <1>2, <1>3, <1>4, <1>5, <1>6
<1>8. \A d \in Codes \ {c} : Calm(d)
  BY <1>1, <1>2, <1>3, <1>4, <1>5 DEF Calm, HasToken
<1>9. Polled(c) /\ grant[c].st # "unused"
  BY <1>1 DEF Polled, CodeInv, Unused
<1>10. Unused(c)'
  BY <1>1, <1>2, <1>9 DEF Unused
<1>11. OneByOne(c)'
  BY <1>1, <1>2, <1>3, <1>4, <1>5, <1>9 DEF CodeInv, OneByOne, Polled, HasToken
<1>12. NewestKept(c)'
  BY <1>1, <1>2, <1>3, <1>4, <1>5, <1>9
     DEF CodeInv, OneByOne, NewestKept, Polled, HasToken, Carries
<1> QED BY <1>7, <1>8, <1>10, <1>11, <1>12, OneCode DEF CodeInv

----------------------------------------------------------------------------
(* The token goes into a row *)

(* The first of a set of ids is one of them. *)
LEMMA FirstIsOne ==
    ASSUME NEW S \in SUBSET Nat, S # {}
    PROVE  Min(S) \in S
BY LeastOfNat DEF Min

LEMMA TokenKeepsAccounts ==
    ASSUME AccountsInv, NEW id \in There, NEW tok \in RowTokens,
           rows' = [rows EXCEPT ![id].tok = tok],
           UNCHANGED <<env, nextId, pool, cache, sealed, missing, torn, misread>>
    PROVE  /\ AccountsInv'
           /\ rows'[id].tok = tok /\ \A j \in Ids \ {id} : rows'[j] = rows[j]
<1>1. /\ rows \in [Ids -> AccountRecs] /\ rows[id].there /\ id \in Ids
      /\ rows' = [rows EXCEPT ![id] = [rows[id] EXCEPT !.tok = tok]]
  BY DEF There, AccountsInv, AccountsShape
<1>2. rows[id] \in AccountRecs
  BY <1>1
<1>3. /\ [rows[id] EXCEPT !.tok = tok] \in AccountRecs
      /\ rows'[id].keys = rows[id].keys /\ rows'[id].there = rows[id].there
      /\ rows'[id].list = rows[id].list /\ rows'[id].tok = tok
  <2> DEFINE new == [rows[id] EXCEPT !.tok = tok]
  <2>1. /\ new \in AccountRecs /\ new.keys = rows[id].keys /\ new.there = rows[id].there
        /\ new.list = rows[id].list /\ new.tok = tok
    BY <1>2 DEF AccountRecs
  <2>2. rows' = [rows EXCEPT ![id] = new]
    BY <1>1
  <2> HIDE DEF new
  <2>3. rows'[id] = new
    BY <1>1, <2>2
  <2> QED BY <2>1, <2>3 DEF new
<1>4. rows' \in [Ids -> AccountRecs] /\ \A j \in Ids : j # id => rows'[j] = rows[j]
  BY <1>1, <1>3
<1>5. \A k : Holders(k)' = Holders(k)
  <2>1. \A j \in Ids : rows'[j].there = rows[j].there /\ rows'[j].keys = rows[j].keys
    BY <1>1, <1>3, <1>4
  <2> QED BY <2>1, SameHolders
<1>6. AccountsShape'
  BY <1>1, <1>3, <1>4 DEF AccountsInv, AccountsShape
<1>7. PoolIsRows'
  BY <1>5 DEF AccountsInv, PoolIsRows
<1>8. ListsInForce'
  BY <1>3, <1>4 DEF AccountsInv, ListsInForce
<1>9. SealedOut' /\ KeysHeld'
  BY <1>1, <1>3, <1>4, <1>5 DEF AccountsInv, SealedOut, KeysHeld, There
<1> QED BY <1>3, <1>4, <1>6, <1>7, <1>8, <1>9 DEF AccountsInv

LEMMA InsertKeepsAccounts ==
    ASSUME AccountsInv, NEW new \in AccountRecs, new.there, new.keys = {}, new.list = Unlimited,
           Insert(new), UNCHANGED <<env, pool, cache, sealed, missing, torn, misread>>
    PROVE  /\ AccountsInv' /\ nextId \in Ids /\ ~rows[nextId].there
           /\ rows'[nextId] = new /\ \A j \in Ids \ {nextId} : rows'[j] = rows[j]
<1>1. /\ nextId \in Ids /\ rows' \in [Ids -> AccountRecs]
      /\ nextId \notin There /\ nextId' \in Nat \ {0}
      /\ \A id \in Ids : rows'[id] = IF id = nextId THEN new ELSE rows[id]
      /\ \A id \in Ids : rows'[id].there \/ rows'[id] = NoRow
      /\ \A id \in Ids : id >= nextId' => ~rows'[id].there
      /\ \A k : Holders(k)' = Holders(k) \cup (IF k \in new.keys THEN {nextId} ELSE {})
  BY InsertHolds DEF AccountsInv
<1>2. AccountsShape'
  BY <1>1 DEF AccountsInv, AccountsShape
<1>3. PoolIsRows'
  <2>1. \A k : Holders(k)' = Holders(k)
    BY <1>1
  <2> QED BY <2>1 DEF AccountsInv, PoolIsRows
<1>4. ~rows[nextId].there /\ rows[nextId] = NoRow
  BY <1>1 DEF There, AccountsInv, AccountsShape
<1>5. ListsInForce'
  BY <1>1, <1>4, NoRowShape DEF AccountsInv, ListsInForce
<1>6. SealedOut' /\ KeysHeld'
  BY <1>1 DEF AccountsInv, SealedOut, KeysHeld, There
<1> QED BY <1>1, <1>2, <1>3, <1>4, <1>5, <1>6 DEF AccountsInv

LEMMA TokenShape ==
    ASSUME NEW c \in Codes, NEW turn \in Nat
    PROVE  /\ Token(c, turn) \in RowTokens /\ Token(c, turn) # NoToken
           /\ Token(c, turn).code = c /\ Token(c, turn).turn = turn
BY LoginAssumption DEF Token, RowTokens

LEMMA OrgsFailKeeps ==
    ASSUME AccountsInv, LoginInv, NEW p \in Polls, OrgsFail(p)
    PROVE  AccountsInv' /\ LoginInv'
<1>1. PICK c \in Codes : /\ c = poll[p].code /\ poll[p].pc = "orgs"
                        /\ session[c].tok \in Nat /\ poll[p].prev \in Nat
  BY DEF OrgsFail, LoginInv, LoginShape, PollRecs, SessionRecs, Turns
<1>2. /\ UNCHANGED <<session, grant, live, lost, overlapped>>
      /\ UNCHANGED <<env, nextId, pool, cache, sealed, missing, torn, misread>>
      /\ poll' = [poll EXCEPT ![p] = Idle]
  BY DEF OrgsFail, Done
<1> DEFINE had == {id \in There : rows[id].tok = Token(c, poll[p].prev)}
           new == Token(c, session[c].tok)
<1>3. /\ new \in RowTokens /\ new.code = c
      /\ Token(c, poll[p].prev).code = c /\ Token(c, poll[p].prev) # NoToken
  BY <1>1, TokenShape
<1>4. rows' = rows \/ (had # {} /\ rows' = [rows EXCEPT ![Min(had)].tok = new])
  BY <1>1 DEF OrgsFail, Rotated
<1>5. ASSUME NEW id \in had
      PROVE  id \in There /\ id \in Ids /\ HasToken(id, c) /\ rows[id].tok.code = c
  BY <1>3, <1>5 DEF There, HasToken
<1> HIDE DEF new
<1>6. /\ AccountsInv'
      /\ rows' = rows \/ \E id \in had : /\ rows'[id].tok = new
                                        /\ \A j \in Ids \ {id} : rows'[j] = rows[j]
  <2>1. CASE rows' = rows
    BY <1>2, <2>1 DEF AccountsInv, AccountsShape, SealedOut, KeysHeld, PoolIsRows, ListsInForce,
                     Holders, There
  <2>2. CASE had # {} /\ rows' = [rows EXCEPT ![Min(had)].tok = new]
    <3>1. Min(had) \in had
      BY <1>5, <2>2, FirstIsOne, IdsShape
    <3> QED BY <1>2, <1>3, <1>5, <2>2, <3>1, TokenKeepsAccounts
  <2> QED BY <1>4, <2>1, <2>2
<1> HIDE DEF had
<1>7. Idle \in PollRecs /\ Idle.code = NoToken /\ Idle.pc = "idle"
  BY DEF Idle, PollRecs, Turns
<1>8. /\ poll' \in [Polls -> PollRecs] /\ poll'[p] = Idle
      /\ \A q \in Polls : q # p => poll'[q] = poll[q]
  BY <1>2, <1>7 DEF LoginInv, LoginShape
<1>9. LoginShape'
  BY <1>2, <1>7, <1>8 DEF LoginInv, LoginShape
<1>10. \A d \in Codes \ {c}, id \in Ids :
          HasToken(id, d)' => HasToken(id, d) /\ rows'[id].tok = rows[id].tok
  BY <1>3, <1>6 DEF HasToken
<1>11. \A d \in Codes \ {c} : Calm(d)
  BY <1>1, <1>2, <1>7, <1>8, <1>10, LoginAssumption DEF Calm
<1>12. Polled(c) /\ grant[c].st # "unused" /\ CodeInv(c)
  BY <1>1 DEF Polled, LoginInv, CodeInv, Unused
<1>13. c \notin overlapped => rows' = rows /\ \A id \in Ids : ~HasToken(id, c)'
  BY <1>5, <1>6, <1>12 DEF CodeInv, OneByOne, HasToken
<1>14. Unused(c)'
  BY <1>2, <1>12 DEF Unused
<1>15. OneByOne(c)'
  BY <1>2, <1>7, <1>8, <1>12, <1>13, LoginAssumption DEF CodeInv, OneByOne, Polled
<1>16. NewestKept(c)'
  BY <1>1, <1>2, <1>7, <1>8, <1>12, <1>13, LoginAssumption
     DEF CodeInv, OneByOne, NewestKept, Polled, Carries
<1> QED BY <1>6, <1>9, <1>11, <1>14, <1>15, <1>16, OneCode DEF CodeInv

LEMMA OrgsArriveKeeps ==
    ASSUME AccountsInv, LoginInv, NEW p \in Polls, OrgsArrive(p)
    PROVE  AccountsInv' /\ LoginInv'
<1>1. PICK c \in Codes : /\ c = poll[p].code /\ poll[p].pc = "orgs"
                        /\ session[c] \in SessionRecs /\ grant[c] \in GrantRecs
                        /\ session[c].tok \in Nat /\ poll[p].tok \in Nat
  BY DEF OrgsArrive, LoginInv, LoginShape, PollRecs, SessionRecs, Turns
<1>2. /\ UNCHANGED <<grant, live, lost, overlapped>>
      /\ UNCHANGED <<env, pool, cache, sealed, missing, torn, misread>>
      /\ poll' = [poll EXCEPT ![p] = Idle]
      /\ session' = [session EXCEPT ![c] = [session[c] EXCEPT !.open = FALSE]]
  BY <1>1 DEF OrgsArrive, Done, Drop
<1> DEFINE turn == IF poll[p].prev # 0 THEN session[c].tok ELSE poll[p].tok
           ident == Token(c, turn)
           ws == grant[c].ws
           own == {id \in There : rows[id].ws = ws}
<1>3. Identity(p) = ident
  BY <1>1 DEF Identity, Refreshing
<1>4. ident \in RowTokens /\ ident.code = c /\ ident.turn = turn
  BY <1>1, TokenShape
<1>5. /\ ws \in Workspaces \cup {NoWorkspace}
      /\ \/ own # {} /\ rows' = [rows EXCEPT ![Min(own)].tok = ident] /\ UNCHANGED nextId
         \/ \E tok \in {ident, NoToken} : Insert([NewRow({}, ws) EXCEPT !.tok = tok])
         \/ UNCHANGED <<rows, nextId>>
  BY <1>1, <1>3 DEF OrgsArrive, GrantRecs
<1> HIDE DEF ident, ws
<1>6. /\ AccountsInv'
      /\ \/ rows' = rows
         \/ \E id \in Ids : /\ ~rows'[id].there \/ rows'[id].tok \in {ident, NoToken}
                            /\ \A j \in Ids \ {id} : rows'[j] = rows[j]
  <2>1. CASE UNCHANGED <<rows, nextId>>
    BY <1>2, <2>1 DEF AccountsInv, AccountsShape, SealedOut, KeysHeld, PoolIsRows, ListsInForce,
                     Holders, There
  <2>2. CASE own # {} /\ rows' = [rows EXCEPT ![Min(own)].tok = ident] /\ UNCHANGED nextId
    <3>1. Min(own) \in own /\ own \subseteq There /\ There \subseteq Ids
      BY <2>2, FirstIsOne, IdsShape DEF There
    <3> HIDE DEF own
    <3> QED BY <1>2, <1>4, <2>2, <3>1, TokenKeepsAccounts
  <2>3. ASSUME NEW tok \in {ident, NoToken}, Insert([NewRow({}, ws) EXCEPT !.tok = tok])
        PROVE  <1>6!:
    <3> DEFINE born == [NewRow({}, ws) EXCEPT !.tok = tok]
    <3>1. /\ NewRow({}, ws) \in AccountRecs /\ NewRow({}, ws).there
          /\ NewRow({}, ws).keys = {} /\ NewRow({}, ws).list = Unlimited
      BY <1>5, NewRowShape
    <3>2. tok \in RowTokens
      BY <1>4 DEF RowTokens
    <3>3. /\ born \in AccountRecs /\ born.there /\ born.keys = {} /\ born.list = Unlimited
          /\ born.tok = tok
      BY <3>1, <3>2 DEF AccountRecs
    <3>4. Insert(born)
      BY <2>3
    <3> HIDE DEF born
    <3> QED BY <1>2, <3>3, <3>4, InsertKeepsAccounts
  <2> QED BY <1>5, <2>1, <2>2, <2>3
<1> HIDE DEF own
<1>7. Idle \in PollRecs /\ Idle.code = NoToken /\ Idle.pc = "idle"
  BY DEF Idle, PollRecs, Turns
<1>8. /\ poll' \in [Polls -> PollRecs] /\ poll'[p] = Idle
      /\ \A q \in Polls : q # p => poll'[q] = poll[q]
  BY <1>2, <1>7 DEF LoginInv, LoginShape
<1>9. /\ session' \in [Codes -> SessionRecs] /\ ~session'[c].open
      /\ \A d \in Codes \ {c} : session'[d] = session[d]
  BY <1>1, <1>2 DEF LoginInv, LoginShape, SessionRecs
<1>10. LoginShape'
  BY <1>2, <1>7, <1>8, <1>9 DEF LoginInv, LoginShape
<1>11. \A d \in Codes \ {c}, id \in Ids :
          HasToken(id, d)' => HasToken(id, d) /\ rows'[id].tok = rows[id].tok
  BY <1>4, <1>6 DEF HasToken
<1>12. \A d \in Codes \ {c} : Calm(d)
  BY <1>1, <1>2, <1>7, <1>8, <1>9, <1>11, LoginAssumption DEF Calm
<1>13. Polled(c) /\ grant[c].st # "unused" /\ CodeInv(c)
  BY <1>1 DEF Polled, LoginInv, CodeInv, Unused
<1>14. c \notin overlapped =>
          /\ \A q \in Polls : poll[q].code = c => q = p
          /\ \A id \in Ids : HasToken(id, c)' => rows'[id].tok = ident
  BY <1>1, <1>6, <1>13 DEF CodeInv, OneByOne, HasToken
<1>15. Unused(c)'
  BY <1>2, <1>13 DEF Unused
<1>16. c \notin overlapped => ~Polled(c)' /\ \A q \in Polls : poll'[q].code # c
  BY <1>7, <1>8, <1>14, LoginAssumption DEF Polled
<1>17. OneByOne(c)'
  BY <1>2, <1>9, <1>16 DEF OneByOne
<1>18. c \notin overlapped \cup lost => turn = live[c]
  BY <1>1, <1>13 DEF CodeInv, NewestKept, Carries
<1>19. NewestKept(c)'
  BY <1>2, <1>4, <1>9, <1>14, <1>16, <1>18 DEF NewestKept
<1> QED BY <1>6, <1>10, <1>12, <1>15, <1>17, <1>19, OneCode DEF CodeInv

----------------------------------------------------------------------------
(* The whole *)

LEMMA LoginInitial ==
    ASSUME AccountsInit, LoginInit
    PROVE  LoginInv
<1>1. /\ NoSession \in SessionRecs /\ ~NoSession.open /\ NoSession.tok = 0
      /\ Idle \in PollRecs /\ Idle.pc = "idle" /\ Idle.code = NoToken
      /\ [st |-> "unused", ws |-> NoWorkspace] \in GrantRecs
  BY DEF NoSession, SessionRecs, Idle, PollRecs, GrantRecs, Turns
<1>2. LoginShape
  BY <1>1 DEF LoginInit, LoginShape, Turns
<1>3. \A id \in Ids : rows[id].tok = NoToken
  <2>1. /\ NewRow(env, NoWorkspace).tok = NoToken /\ NoRow.tok = NoToken
    BY NoRowShape, NewRowShape DEF AccountsInit
  <2> QED BY <2>1, IdsShape DEF AccountsInit
<1>4. \A c \in Codes : /\ session[c] = NoSession /\ live[c] = 0 /\ ~Polled(c)
                       /\ \A p \in Polls : poll[p].code # c
                       /\ \A id \in Ids : ~HasToken(id, c)
  BY <1>1, <1>3, LoginAssumption DEF LoginInit, Polled, HasToken
<1>5. \A c \in Codes : CodeInv(c)
  BY <1>1, <1>4 DEF CodeInv, Unused, OneByOne, NewestKept
<1> QED BY <1>2, <1>5 DEF LoginInv

LEMMA FlowKeeps ==
    ASSUME LoginInv, FlowNext, UNCHANGED accountVars
    PROVE  LoginInv'
BY SessionSteps, StartAnsweredKeeps, PollAsksKeeps, ServeKeeps, PollGoesKeeps, PollHasTokenKeeps
   DEF FlowNext

LEMMA StillAccounts ==
    ASSUME AccountsInv, UNCHANGED accountVars
    PROVE  AccountsInv'
BY DEF accountVars, AccountsInv, AccountsShape, SealedOut, KeysHeld, PoolIsRows, ListsInForce,
       Holders, There

LEMMA SignInInvHolds == SignInSpec => []SignInInv
<1>1. AccountsInit /\ LoginInit => SignInInv
  BY AccountsInitial, LoginInitial DEF SignInInv
<1>2. SignInInv /\ [SignInNext]_<<accountVars, loginVars>> => SignInInv'
  <2> SUFFICES ASSUME SignInInv, [SignInNext]_<<accountVars, loginVars>>
               PROVE  AccountsInv' /\ LoginInv'
    BY DEF SignInInv
  <2> USE DEF SignInInv
  <2>1. CASE FlowNext /\ UNCHANGED accountVars
    BY <2>1, FlowKeeps, StillAccounts
  <2>2. ASSUME NEW p \in Polls, OrgsFail(p) \/ OrgsArrive(p)
        PROVE  AccountsInv' /\ LoginInv'
    BY <2>2, OrgsFailKeeps, OrgsArriveKeeps
  <2>3. CASE AccountsEdited /\ UNCHANGED loginVars
    BY <2>3, EditsKeep, EditsKeepLogin
  <2>4. CASE AccountsRestart /\ LoginRestart
    BY <2>4, StartKeeps, RestartKeepsLogin
  <2>5. CASE UNCHANGED <<accountVars, loginVars>>
    <3>1. \A c \in Codes : Calm(c)
      BY <2>5 DEF accountVars, loginVars, Calm, HasToken
    <3>2. LoginShape'
      BY <2>5 DEF loginVars, LoginInv, LoginShape
    <3>3. UNCHANGED accountVars
      BY <2>5
    <3> QED BY <3>1, <3>2, <3>3, CalmKeeps, StillAccounts DEF LoginInv
  <2> QED BY <2>1, <2>2, <2>3, <2>4, <2>5 DEF SignInNext, LoginNext
<1> QED BY <1>1, <1>2, PTL DEF SignInSpec

(* The keys the pool uses are those of the table's rows, however the        *)
(* operator, the sign-ins and the restarts follow each other.               *)
THEOREM PoolIsRowsHolds == SignInSpec => []PoolIsRows
<1>1. SignInInv => PoolIsRows
  BY DEF SignInInv, AccountsInv
<1> QED BY <1>1, SignInInvHolds, PTL

(* The list a key is chosen by is the list of its account's row.            *)
THEOREM ListsInForceHolds == SignInSpec => []ListsInForce
<1>1. SignInInv => ListsInForce
  BY DEF SignInInv, AccountsInv
<1> QED BY <1>1, SignInInvHolds, PTL

(* A sign-in ends with the newest refresh token in the account, and keeps   *)
(* it in the session until then, unless the answer that brought it was lost *)
(* or two polls were about the same code at once.                           *)
THEOREM SignInKeptHolds == SignInSpec => []SignInKept
BY SignInInvHolds, SignInKeptFollows, PTL

----------------------------------------------------------------------------
(* The pages of the old console *)

Counts == [LegacyWorkspaces -> [Pages -> Nat]]

CacheEntries ==
    {None} \cup {e \in [ws : LegacyWorkspaces, from : LegacyWorkspaces, seen : Nat] : e.ws = e.from}

HandlerRecs == [pc : {"idle", "asked", "answered"}, kind : Reads \cup Writes,
                ws : LegacyWorkspaces \cup {NoLegacyWorkspace},
                res : {"none", "ok", "failed"}, seen : Nat]

LegacyShape ==
    /\ linked \in LegacyWorkspaces \cup {NoLegacyWorkspace, Gone}
    /\ page \in Counts /\ acknowledged \in Counts
    /\ quiet \in [LegacyWorkspaces -> [Pages -> BOOLEAN]]
    /\ ttl \in [Pages -> CacheEntries] /\ plain \in CacheEntries
    /\ handler \in [Handlers -> HandlerRecs]
    /\ \A h \in Handlers : handler[h].pc # "idle" => handler[h].ws \in LegacyWorkspaces

(* What is acknowledged has been carried out. *)
CarriedFirst ==
    /\ \A w \in LegacyWorkspaces, t \in Pages : acknowledged[w][t] <= page[w][t]
    /\ \A h \in Handlers :
         handler[h].pc = "answered" /\ handler[h].res = "ok" /\ handler[h].kind \in Writes =>
            handler[h].seen <= page[handler[h].ws][Topic(handler[h].kind)]

(* An answer on its way to a cache is as good as the entry it will be. *)
FetchTrue(h) ==
    LET me == handler[h] IN
    me.pc = "answered" /\ me.res = "ok" /\ me.kind \in Reads =>
        \/ ~quiet[me.ws][Topic(me.kind)]
        \/ me.seen = Blank
        \/ me.seen >= acknowledged[me.ws][Topic(me.kind)]

LegacyInv ==
    /\ LegacyShape /\ CarriedFirst /\ NoStalePage
    /\ \A h \in Handlers : FetchTrue(h)

LEMMA TopicShape ==
    /\ \A kind \in Reads \cup Writes : Topic(kind) \in Pages
    /\ Reads \cap Writes = {} /\ "keys" \in Pages /\ Pages \subseteq Reads
    /\ Topic("plain") = "keys" /\ Topic("change") = "keys" /\ Topic("toggle") = "go"
    /\ Topic("keys") = "keys" /\ Topic("go") = "go" /\ Topic("billing") = "billing"
    /\ \A k \in Pages : Topic(k) = k
    /\ Blank \in Nat
BY LegacyAssumption DEF Reads, Writes, Topic, Blank

LEMMA PagesTrueFollows == LegacyInv => PagesTrue
BY DEF LegacyInv, LegacyShape, CacheEntries, PagesTrue, OwnWorkspace, Entries, None

(* The account changes, or a cache loses entries. *)
LEMMA EntriesGo ==
    ASSUME LegacyInv, UNCHANGED <<page, handler, acknowledged, quiet>>,
           linked' \in LegacyWorkspaces \cup {NoLegacyWorkspace, Gone},
           ttl' \in [Pages -> CacheEntries], plain' \in {plain, None},
           \A k \in Pages : ttl'[k] \in {ttl[k], None}
    PROVE  LegacyInv'
<1>1. LegacyShape'
  BY DEF LegacyInv, LegacyShape, CacheEntries
<1>2. CarriedFirst' /\ \A h \in Handlers : FetchTrue(h)'
  BY DEF LegacyInv, CarriedFirst, FetchTrue
<1>3. NoStalePage'
  BY DEF LegacyInv, NoStalePage, Covers
<1> QED BY <1>1, <1>2, <1>3 DEF LegacyInv

LEMMA AccountMoves ==
    ASSUME LegacyInv,
           \/ PatchAccount \/ DeleteAccount \/ GuardClears \/ PlainExpires
           \/ \E k \in Pages : PageExpires(k)
           \/ \E h \in Handlers : NoCookieLeft(h)
    PROVE  LegacyInv'
<1>1. None \in CacheEntries
  BY DEF CacheEntries
<1>2. "keys" \in Pages
  BY TopicShape
<1> QED BY <1>1, <1>2, EntriesGo
        DEF LegacyInv, LegacyShape, PatchAccount, DeleteAccount, GuardClears, PlainExpires,
            PageExpires, NoCookieLeft

LEMMA AskKeeps ==
    ASSUME LegacyInv, NEW h \in Handlers, NEW kind \in Reads \cup Writes, Ready(h),
           Ask(h, kind), UNCHANGED <<linked, page, plain, acknowledged, quiet>>,
           ttl' \in [Pages -> CacheEntries], \A k \in Pages : ttl'[k] \in {ttl[k], None}
    PROVE  LegacyInv'
<1> DEFINE me == [NotBusy EXCEPT !.pc = "asked", !.kind = kind, !.ws = linked]
<1>1. /\ handler' = [handler EXCEPT ![h] = me] /\ linked \in LegacyWorkspaces
  BY DEF Ask, Ready
<1>2. me \in HandlerRecs /\ me.pc = "asked" /\ me.ws \in LegacyWorkspaces
  BY <1>1, TopicShape DEF NotBusy, HandlerRecs
<1> HIDE DEF me
<1>3. /\ handler' \in [Handlers -> HandlerRecs] /\ handler'[h] = me
      /\ \A g \in Handlers : g # h => handler'[g] = handler[g]
  BY <1>1, <1>2 DEF LegacyInv, LegacyShape
<1>4. LegacyShape'
  BY <1>2, <1>3 DEF LegacyInv, LegacyShape
<1>5. CarriedFirst' /\ \A g \in Handlers : FetchTrue(g)'
  BY <1>2, <1>3 DEF LegacyInv, CarriedFirst, FetchTrue
<1>6. NoStalePage'
  BY DEF LegacyInv, NoStalePage, Covers
<1> QED BY <1>4, <1>5, <1>6 DEF LegacyInv

LEMMA EntryKeeps ==
    ASSUME LegacyInv, NEW h \in Handlers,
           \/ \E k \in Pages : ReadPage(h, k)
           \/ ReadPlain(h) \/ ChangeKeys(h) \/ TurnSwitch(h)
    PROVE  LegacyInv'
<1>1. /\ "plain" \in Reads \cup Writes /\ "change" \in Reads \cup Writes
      /\ "toggle" \in Reads \cup Writes /\ Pages \subseteq Reads \cup Writes
      /\ None \in CacheEntries /\ ttl \in [Pages -> CacheEntries]
  BY DEF Reads, Writes, CacheEntries, LegacyInv, LegacyShape
<1>2. ASSUME NEW k \in Pages, ReadPage(h, k)
      PROVE  LegacyInv'
  BY <1>1, <1>2, AskKeeps DEF ReadPage
<1>3. ASSUME ReadPlain(h) \/ ChangeKeys(h) \/ TurnSwitch(h)
      PROVE  LegacyInv'
  BY <1>1, <1>3, AskKeeps DEF ReadPlain, ChangeKeys, TurnSwitch, Write
<1> QED BY <1>2, <1>3

(* An answer, and the page as it is after it. *)
LEMMA SettleKeeps ==
    ASSUME LegacyInv, NEW h \in Handlers, handler[h].pc = "asked",
           UNCHANGED <<linked, ttl, plain, acknowledged, quiet>>,
           page' \in Counts,
           \A w \in LegacyWorkspaces, t \in Pages : page[w][t] <= page'[w][t],
           NEW res \in {"ok", "failed"}, NEW seen \in Nat, Settle(h, res, seen),
           LET w == handler[h].ws  t == Topic(handler[h].kind) IN
           res = "ok" => /\ handler[h].kind \in Reads => seen = Blank \/ seen >= page[w][t]
                         /\ handler[h].kind \in Writes => seen <= page'[w][t]
    PROVE  LegacyInv'
<1> DEFINE me == [handler[h] EXCEPT !.pc = "answered", !.res = res, !.seen = seen]
           w == handler[h].ws
           t == Topic(handler[h].kind)
<1>1. /\ handler[h] \in HandlerRecs /\ handler[h].ws \in LegacyWorkspaces
      /\ handler' = [handler EXCEPT ![h] = me]
  BY DEF Settle, LegacyInv, LegacyShape
<1>2. /\ me \in HandlerRecs /\ me.pc = "answered" /\ me.kind = handler[h].kind
      /\ me.ws = handler[h].ws /\ me.res = res /\ me.seen = seen
  BY <1>1 DEF HandlerRecs
<1>3. t \in Pages /\ handler[h].kind \in Reads \cup Writes
  BY <1>1, TopicShape DEF HandlerRecs
<1> HIDE DEF me
<1>4. /\ handler' \in [Handlers -> HandlerRecs] /\ handler'[h] = me
      /\ \A g \in Handlers : g # h => handler'[g] = handler[g]
  BY <1>1, <1>2 DEF LegacyInv, LegacyShape
<1>5. LegacyShape'
  BY <1>1, <1>2, <1>4 DEF LegacyInv, LegacyShape
<1>6. \A x \in LegacyWorkspaces, k \in Pages :
         /\ page[x][k] \in Nat /\ page'[x][k] \in Nat /\ acknowledged[x][k] \in Nat
         /\ acknowledged[x][k] <= page[x][k]
  BY DEF LegacyInv, LegacyShape, CarriedFirst, Counts
<1>7. CarriedFirst'
  <2>1. \A x \in LegacyWorkspaces, k \in Pages : acknowledged'[x][k] <= page'[x][k]
    BY <1>6
  <2>2. ASSUME NEW g \in Handlers, handler'[g].pc = "answered", handler'[g].res = "ok",
               handler'[g].kind \in Writes
        PROVE  handler'[g].seen <= page'[handler'[g].ws][Topic(handler'[g].kind)]
    <3>1. CASE g = h
      BY <1>2, <1>4, <2>2, <3>1
    <3>2. CASE g # h
      <4>1. handler'[g] = handler[g] /\ handler[g] \in HandlerRecs
            /\ handler[g].ws \in LegacyWorkspaces
        BY <1>4, <2>2, <3>2 DEF LegacyInv, LegacyShape
      <4>2. handler[g].seen \in Nat /\ Topic(handler[g].kind) \in Pages
        BY <4>1, TopicShape DEF HandlerRecs
      <4>3. handler[g].seen <= page[handler[g].ws][Topic(handler[g].kind)]
        BY <2>2, <4>1 DEF LegacyInv, CarriedFirst
      <4> QED BY <1>6, <4>1, <4>2, <4>3
    <3> QED BY <3>1, <3>2
  <2> QED BY <2>1, <2>2 DEF CarriedFirst
<1>8. \A g \in Handlers : FetchTrue(g)'
  <2>1. FetchTrue(h)'
    BY <1>1, <1>2, <1>3, <1>4, <1>6 DEF FetchTrue, Blank
  <2>2. ASSUME NEW g \in Handlers, g # h
        PROVE  FetchTrue(g)'
    BY <1>4, <2>2 DEF LegacyInv, FetchTrue, Blank
  <2> QED BY <2>1, <2>2
<1>9. NoStalePage'
  BY DEF LegacyInv, NoStalePage, Covers
<1> QED BY <1>5, <1>7, <1>8, <1>9 DEF LegacyInv

LEMMA ServeReadKeeps ==
    ASSUME LegacyInv, NEW h \in Handlers, ServeRead(h)
    PROVE  LegacyInv'
<1>1. /\ handler[h].pc = "asked" /\ handler[h].kind \in Reads /\ handler[h].ws \in LegacyWorkspaces
      /\ UNCHANGED <<linked, page, ttl, plain, acknowledged, quiet>>
      /\ page \in Counts
  BY DEF ServeRead, LegacyInv, LegacyShape
<1>2. \A w \in LegacyWorkspaces, t \in Pages : page[w][t] \in Nat
  BY <1>1 DEF Counts
<1>3. ASSUME NEW res \in {"ok", "failed"}, NEW seen \in Nat, Settle(h, res, seen),
             res = "ok" => \/ seen = Blank
                           \/ seen >= page[handler[h].ws][Topic(handler[h].kind)]
      PROVE  LegacyInv'
  <2>1. handler[h].kind \notin Writes
    BY <1>1, TopicShape
  <2>2. \A w \in LegacyWorkspaces, t \in Pages : page[w][t] <= page'[w][t]
    BY <1>1, <1>2
  <2> QED BY <1>1, <1>3, <2>1, <2>2, SettleKeeps
<1>4. PICK t \in Pages : t = Topic(handler[h].kind)
  BY <1>1, TopicShape
<1>5. KeysRead(h) \/ GoRead(h) \/ BillingRead(h) => Settle(h, "ok", page[handler[h].ws][t])
  BY <1>4, TopicShape DEF KeysRead, GoRead, BillingRead, Shows
<1>6. page[handler[h].ws][t] \in Nat /\ page[handler[h].ws][t] >= page[handler[h].ws][t]
  BY <1>1, <1>2
<1>7. CASE Settle(h, "ok", page[handler[h].ws][t])
  BY <1>3, <1>4, <1>6, <1>7
<1>8. CASE WindowsRead(h) \/ Settle(h, "failed", 0)
  BY <1>3, <1>8, TopicShape DEF WindowsRead
<1> QED BY <1>5, <1>7, <1>8 DEF ServeRead

LEMMA ServeWriteKeeps ==
    ASSUME LegacyInv, NEW h \in Handlers, ServeWrite(h)
    PROVE  LegacyInv'
<1>1. /\ handler[h].pc = "asked" /\ handler[h].kind \in Writes /\ handler[h].ws \in LegacyWorkspaces
      /\ UNCHANGED <<linked, ttl, plain, acknowledged, quiet>>
      /\ page \in Counts /\ handler[h].kind \notin Reads
  BY TopicShape DEF ServeWrite, LegacyInv, LegacyShape
<1>2. \A w \in LegacyWorkspaces, t \in Pages : page[w][t] \in Nat
  BY <1>1 DEF Counts
<1>3. PICK w \in LegacyWorkspaces : w = handler[h].ws
  BY <1>1
<1>4. PICK t \in Pages : t = Topic(handler[h].kind)
  BY <1>1, TopicShape
<1>5. ASSUME NEW res \in {"ok", "failed"}, Settle(h, res, page[w][t] + 1),
             page' = [page EXCEPT ![w][t] = @ + 1]
      PROVE  LegacyInv'
  <2>1. PICK seen \in Nat : seen = page[w][t] + 1
    BY <1>2
  <2>2. /\ page' \in Counts /\ page'[w][t] = seen
        /\ \A x \in LegacyWorkspaces, k \in Pages : page[x][k] <= page'[x][k]
    BY <1>1, <1>2, <1>5, <2>1 DEF Counts
  <2>3. Settle(h, res, seen) /\ seen <= seen
    BY <1>5, <2>1
  <2>4. seen <= page'[handler[h].ws][Topic(handler[h].kind)]
    BY <1>3, <1>4, <2>2, <2>3
  <2> QED BY <1>1, <2>2, <2>3, <2>4, SettleKeeps
<1>6. CASE Settle(h, "failed", 0) /\ UNCHANGED page
  <2>1. /\ page' \in Counts
        /\ \A x \in LegacyWorkspaces, k \in Pages : page[x][k] <= page'[x][k]
    BY <1>1, <1>2, <1>6
  <2> QED BY <1>1, <1>6, <2>1, SettleKeeps
<1>7. CASE KeysChanged(h) \/ SwitchTurned(h)
  <2>1. \/ t = "keys" /\ CarriedOut(h, "change", "keys")
        \/ t = "go" /\ CarriedOut(h, "toggle", "go")
    BY <1>4, <1>7, TopicShape DEF KeysChanged, SwitchTurned, CarriedOut
  <2> QED BY <1>3, <1>5, <2>1 DEF CarriedOut
<1> QED BY <1>6, <1>7 DEF ServeWrite

(* A request is over: its handler is free. *)
LEMMA ReleasedShape ==
    ASSUME LegacyInv, NEW h \in Handlers, Released(h)
    PROVE  /\ handler' \in [Handlers -> HandlerRecs] /\ handler'[h].pc = "idle"
           /\ \A g \in Handlers : g # h => handler'[g] = handler[g]
           /\ \A g \in Handlers : handler'[g].pc # "idle" =>
                  g # h /\ handler'[g] = handler[g] /\ handler[g].ws \in LegacyWorkspaces
                  /\ handler[g] \in HandlerRecs
<1>1. NotBusy \in HandlerRecs /\ NotBusy.pc = "idle"
  BY TopicShape DEF NotBusy, HandlerRecs
<1> QED BY <1>1 DEF Released, LegacyInv, LegacyShape

(* What a read brought is cached. *)
LEMMA CachedKeeps ==
    ASSUME LegacyInv, NEW h \in Handlers, Released(h),
           UNCHANGED <<linked, page, acknowledged, quiet>>,
           handler[h].pc = "answered", handler[h].kind \in Reads,
           LET me == handler[h] IN
           /\ \A k \in Pages : ttl'[k] = ttl[k] \/ (me.res = "ok" /\ k = me.kind /\ ttl'[k] = Entry(me))
           /\ ttl' \in [Pages -> CacheEntries]
           /\ plain' \in {plain, None} \/ (/\ me.res = "ok" /\ me.kind \in {"keys", "plain"}
                                           /\ plain' = Entry(me))
    PROVE  LegacyInv'
<1>1. /\ handler[h] \in HandlerRecs /\ handler[h].ws \in LegacyWorkspaces
      /\ handler[h].seen \in Nat
  BY DEF LegacyInv, LegacyShape, HandlerRecs
<1>2. /\ Entry(handler[h]) \in CacheEntries /\ Entry(handler[h]).ws = handler[h].ws
      /\ Entry(handler[h]).seen = handler[h].seen /\ None \in CacheEntries
  BY <1>1 DEF Entry, CacheEntries
<1>3. LegacyShape'
  BY <1>2, ReleasedShape DEF LegacyInv, LegacyShape
<1>4. CarriedFirst' /\ \A g \in Handlers : FetchTrue(g)'
  BY ReleasedShape DEF LegacyInv, CarriedFirst, FetchTrue
<1>5. handler[h].res = "ok" => Covers(Entry(handler[h]), Topic(handler[h].kind))
  BY <1>2 DEF LegacyInv, FetchTrue, Covers
<1>6. NoStalePage'
  <2>1. \A k \in Pages : Covers(ttl'[k], Topic(k))
    BY <1>5 DEF LegacyInv, NoStalePage
  <2>2. Covers(plain', "keys")
    <3>1. Covers(plain, "keys") /\ Covers(None, "keys")
      BY DEF LegacyInv, NoStalePage, Covers
    <3> QED BY <1>5, <3>1, TopicShape
  <2>3. UNCHANGED <<quiet, acknowledged>>
    OBVIOUS
  <2> QED BY <2>1, <2>2, <2>3 DEF NoStalePage, Covers
<1> QED BY <1>3, <1>4, <1>6 DEF LegacyInv

LEMMA ReadReturnsKeeps ==
    ASSUME LegacyInv, NEW h \in Handlers, PageReturns(h) \/ PlainReturns(h)
    PROVE  LegacyInv'
<1>1. /\ Released(h) /\ UNCHANGED <<linked, page, acknowledged, quiet>>
      /\ handler[h].pc = "answered" /\ handler[h].kind \in Reads
  BY DEF PageReturns, PlainReturns, HasAnswer, Reads
<1>2. Entry(handler[h]) \in CacheEntries
  BY <1>1 DEF Entry, CacheEntries, LegacyInv, LegacyShape, HandlerRecs
<1>3. ttl \in [Pages -> CacheEntries]
  BY DEF LegacyInv, LegacyShape
<1>4. CASE PageReturns(h)
  <2>1. /\ handler[h].kind \in Pages
        /\ IF handler[h].res = "ok" THEN ttl' = [ttl EXCEPT ![handler[h].kind] = Entry(handler[h])]
           ELSE UNCHANGED ttl
        /\ plain' = IF handler[h].res = "ok" /\ handler[h].kind = "keys"
                    THEN Entry(handler[h]) ELSE plain
    BY <1>4 DEF PageReturns, HasAnswer, CachePage
  <2>2. /\ ttl' \in [Pages -> CacheEntries]
        /\ \A k \in Pages : \/ ttl'[k] = ttl[k]
                            \/ /\ handler[h].res = "ok" /\ k = handler[h].kind
                               /\ ttl'[k] = Entry(handler[h])
    BY <1>2, <1>3, <2>1
  <2> QED BY <1>1, <2>1, <2>2, CachedKeeps
<1>5. CASE PlainReturns(h)
  BY <1>1, <1>3, <1>5, CachedKeeps DEF PlainReturns, HasAnswer
<1> QED BY <1>4, <1>5

LEMMA PostReturnsKeeps ==
    ASSUME LegacyInv, NEW h \in Handlers, PostReturns(h)
    PROVE  LegacyInv'
<1>1. /\ Released(h) /\ UNCHANGED <<linked, page>>
      /\ handler[h].pc = "answered" /\ handler[h].kind \in Writes
      /\ handler[h] \in HandlerRecs /\ handler[h].seen \in Nat
  BY DEF PostReturns, HasAnswer, LegacyInv, LegacyShape, HandlerRecs
<1>2. PICK w \in LegacyWorkspaces, t \in Pages :
        w = handler[h].ws /\ t = Topic(handler[h].kind)
  BY <1>1, TopicShape DEF LegacyInv, LegacyShape
<1>3. None \in CacheEntries
  BY DEF CacheEntries
<1>4. CASE handler[h].res # "ok"
  <2>1. UNCHANGED <<ttl, plain, acknowledged, quiet>>
    BY <1>4 DEF PostReturns
  <2>2. LegacyShape'
    BY <1>1, <2>1, ReleasedShape DEF LegacyInv, LegacyShape
  <2>3. CarriedFirst' /\ \A g \in Handlers : FetchTrue(g)'
    BY <1>1, <2>1, ReleasedShape DEF LegacyInv, CarriedFirst, FetchTrue
  <2>4. NoStalePage'
    BY <2>1 DEF LegacyInv, NoStalePage, Covers
  <2> QED BY <2>2, <2>3, <2>4 DEF LegacyInv
<1>5. CASE handler[h].res = "ok"
  <2> DEFINE most == IF handler[h].seen > acknowledged[w][t]
                     THEN handler[h].seen ELSE acknowledged[w][t]
  <2>1. /\ ttl' = [k \in Pages |-> None]
        /\ plain' = IF handler[h].kind = "change" THEN None ELSE plain
        /\ acknowledged' = [acknowledged EXCEPT ![w][t] = most]
        /\ quiet' = [quiet EXCEPT ![w][t] = ~Fetching(w, t)]
    BY <1>2, <1>5 DEF PostReturns, VoidAfter
  <2>2. /\ acknowledged[w][t] \in Nat /\ page[w][t] \in Nat
        /\ acknowledged[w][t] <= page[w][t] /\ handler[h].seen <= page[w][t]
        /\ acknowledged \in Counts
    BY <1>1, <1>2, <1>5 DEF LegacyInv, LegacyShape, CarriedFirst, Counts
  <2>3. most \in Nat /\ most <= page[w][t]
    BY <1>1, <2>2
  <2>4. Fetching(w, t) \in BOOLEAN
    BY DEF Fetching
  <2> HIDE DEF most
  <2>5. /\ acknowledged' \in Counts /\ acknowledged'[w][t] = most
        /\ \A x \in LegacyWorkspaces, k \in Pages :
              <<x, k>> # <<w, t>> => acknowledged'[x][k] = acknowledged[x][k]
    BY <2>1, <2>2, <2>3 DEF Counts
  <2>6. /\ quiet' \in [LegacyWorkspaces -> [Pages -> BOOLEAN]]
        /\ quiet'[w][t] = ~Fetching(w, t)
        /\ \A x \in LegacyWorkspaces, k \in Pages :
              <<x, k>> # <<w, t>> => quiet'[x][k] = quiet[x][k]
    BY <2>1, <2>4 DEF LegacyInv, LegacyShape
  <2>7. LegacyShape'
    BY <1>1, <1>3, <2>1, <2>5, <2>6, ReleasedShape DEF LegacyInv, LegacyShape
  <2>8. CarriedFirst'
    BY <1>1, <2>3, <2>5, ReleasedShape DEF LegacyInv, CarriedFirst
  <2>9. ASSUME NEW g \in Handlers
        PROVE  FetchTrue(g)'
    <3> SUFFICES ASSUME handler'[g].pc = "answered", handler'[g].res = "ok",
                        handler'[g].kind \in Reads
                 PROVE  \/ ~quiet'[handler'[g].ws][Topic(handler'[g].kind)]
                        \/ handler'[g].seen = Blank
                        \/ handler'[g].seen >= acknowledged'[handler'[g].ws][Topic(handler'[g].kind)]
      BY DEF FetchTrue, Blank
    <3>1. handler'[g] = handler[g] /\ handler[g].ws \in LegacyWorkspaces
      BY <1>1, ReleasedShape
    <3>2. Topic(handler[g].kind) \in Pages
      BY <3>1, TopicShape
    <3>3. CASE <<handler[g].ws, Topic(handler[g].kind)>> = <<w, t>>
      <4>1. Fetching(w, t)
        BY <3>1, <3>3 DEF Fetching
      <4> QED BY <2>6, <3>1, <3>3, <4>1
    <3>4. CASE <<handler[g].ws, Topic(handler[g].kind)>> # <<w, t>>
      BY <2>5, <2>6, <3>1, <3>2, <3>4 DEF LegacyInv, FetchTrue
    <3> QED BY <3>3, <3>4
  <2>10. NoStalePage'
    <3>1. Covers(plain, "keys")
      BY DEF LegacyInv, NoStalePage
    <3>2. CASE handler[h].kind = "change"
      BY <2>1, <3>2 DEF NoStalePage, Covers
    <3>3. CASE handler[h].kind = "toggle"
      <4>1. t = "go" /\ "keys" \in Pages /\ plain' = plain
        BY <1>2, <2>1, <3>3, TopicShape
      <4>2. plain = None \/ plain.ws \in LegacyWorkspaces
        BY DEF LegacyInv, LegacyShape, CacheEntries
      <4>3. plain # None => /\ quiet'[plain.ws]["keys"] = quiet[plain.ws]["keys"]
                            /\ acknowledged'[plain.ws]["keys"] = acknowledged[plain.ws]["keys"]
        BY <2>5, <2>6, <4>1, <4>2
      <4>4. Covers(plain, "keys")'
        BY <3>1, <4>1, <4>3 DEF Covers, Blank
      <4> QED BY <2>1, <4>4 DEF NoStalePage, Covers
    <3> QED BY <1>1, <3>2, <3>3 DEF Writes
  <2> QED BY <2>7, <2>8, <2>9, <2>10 DEF LegacyInv
<1> QED BY <1>4, <1>5

LEMMA LegacyInvHolds == LegacySpec => []LegacyInv
<1>1. LegacyInit => LegacyInv
  <2> SUFFICES ASSUME LegacyInit PROVE LegacyInv
    OBVIOUS
  <2>1. Zero \in Counts /\ \A w \in LegacyWorkspaces, t \in Pages : Zero[w][t] = 0
    BY DEF Zero, Counts
  <2>2. NotBusy \in HandlerRecs /\ NotBusy.pc = "idle" /\ None \in CacheEntries
    BY TopicShape DEF NotBusy, HandlerRecs, CacheEntries
  <2>3. LegacyShape
    BY <2>1, <2>2 DEF LegacyInit, LegacyShape
  <2>4. CarriedFirst /\ \A h \in Handlers : FetchTrue(h)
    BY <2>1, <2>2 DEF LegacyInit, CarriedFirst, FetchTrue
  <2>5. NoStalePage
    BY DEF LegacyInit, NoStalePage, Covers
  <2> QED BY <2>3, <2>4, <2>5 DEF LegacyInv
<1>2. LegacyInv /\ [LegacyNext]_legacyVars => LegacyInv'
  <2> SUFFICES ASSUME LegacyInv, [LegacyNext]_legacyVars PROVE LegacyInv'
    OBVIOUS
  <2>1. CASE UNCHANGED legacyVars
    <3>1. ttl \in [Pages -> CacheEntries]
          /\ linked \in LegacyWorkspaces \cup {NoLegacyWorkspace, Gone}
      BY DEF LegacyInv, LegacyShape
    <3> QED BY <2>1, <3>1, EntriesGo DEF legacyVars
  <2>2. CASE LegacyNext
    BY <2>2, AccountMoves, EntryKeeps, ServeReadKeeps, ServeWriteKeeps, ReadReturnsKeeps,
       PostReturnsKeeps DEF LegacyNext
  <2> QED BY <2>1, <2>2
<1> QED BY <1>1, <1>2, PTL DEF LegacySpec

(* The panel is shown the pages of the account's own workspace, with every  *)
(* acknowledged write in them, but for those that were on their way when    *)
(* the write was acknowledged.                                              *)
THEOREM PagesTrueHolds == LegacySpec => []PagesTrue
BY LegacyInvHolds, PagesTrueFollows, PTL
=============================================================================
