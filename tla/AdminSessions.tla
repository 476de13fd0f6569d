--------------------------- MODULE AdminSessions ---------------------------
(***************************************************************************)
(* The sessions of the panel (src/server.ts): signed cookies that the       *)
(* gateway does not store, and the list of those that were logged out,      *)
(* capped, in memory and in revoked-sessions.json.                          *)
(*                                                                          *)
(* A session is a value of its own: two logins never share a millisecond.   *)
(* Time is kept as what is left of each session.  A write of the file may   *)
(* fail, a file may be unreadable at the start, and nobody is told.         *)
(***************************************************************************)
EXTENDS Naturals, Sequences, SequencesExt

CONSTANTS
    Sessions,
    Passwords,
    NoPassword,     \* of a session that is over
    TTL,            \* adminSessionTtlMs
    MaxRevoked      \* MAX_REVOKED_SESSIONS

ASSUME SessionsAssumption == TTL \in Nat \ {0} /\ MaxRevoked \in Nat \ {0}

VARIABLES
    pass,       \* cfg.adminPass
    left,       \* per session: until it expires; 0 when there is none
    signed,     \* per session: the password it was signed under
    revoked,    \* revokedSessions, in order of insertion
    file,       \* revoked-sessions.json
    out,        \* history: sessions that were logged out
    unsaved,    \* history: ... of which no write has reached the file
    excused     \* history: ... that the list has lost

sessionVars == <<left, signed, revoked, file, out, unsaved, excused>>

SessionsInit ==
    /\ left = [s \in Sessions |-> 0]
    /\ signed = [s \in Sessions |-> NoPassword]
    /\ revoked = <<>> /\ file = <<>>
    /\ out = {} /\ unsaved = {} /\ excused = {}

Alive(s) == left[s] > 0

(* adminSessionValid(), of a cookie that its browser still has *)
Accepted(s) == Alive(s) /\ signed[s] = pass /\ ~Contains(revoked, s)

(* pruneRevokedSessions() goes through the list and keeps who is alive. *)
Pruned(list) ==
    LET kept[n \in 0 .. Len(list)] ==
            IF n = 0 THEN <<>>
            ELSE IF Alive(list[n]) THEN Append(kept[n - 1], list[n]) ELSE kept[n - 1]
    IN  kept[Len(list)]

(* addRevokedSession(): the first to be inserted makes room.  *)
Added(list, s) ==
    LET kept == IF Len(list) >= MaxRevoked THEN Tail(list) ELSE list
    IN  IF Contains(kept, s) THEN kept ELSE Append(kept, s)

(* handleAdminLogin(), with the right credentials *)
Login(s) ==
    /\ ~Alive(s) /\ ~Contains(revoked, s) /\ ~Contains(file, s)
    /\ left' = [left EXCEPT ![s] = TTL]
    /\ signed' = [signed EXCEPT ![s] = pass]
    /\ UNCHANGED <<revoked, file, out, unsaved, excused>>

(* Every request with a cookie prunes first, and saves what has changed. *)
CookieSeen ==
    /\ revoked # Pruned(revoked)
    /\ revoked' = Pruned(revoked)
    /\ \/ file' = Pruned(revoked) /\ unsaved' = {}
       \/ UNCHANGED <<file, unsaved>>
    /\ UNCHANGED <<left, signed, out, excused>>

(* Mutant: saved before it is added. *)
LogoutSavedFirst(s) ==
    /\ Alive(s)
    /\ revoked' = Pruned(Added(revoked, s))
    /\ file' = revoked
    /\ out' = out \cup {s}
    /\ excused' = (excused \cup (ToSet(revoked) \ ToSet(Added(revoked, s)))) \ {s}
    /\ UNCHANGED <<left, signed, unsaved>>

(* handleAdminLogout(): saved once with the session added and, if others    *)
(* have expired, once more without them.                                    *)
Logout(s) ==
    LET added == Added(revoked, s)
        after == Pruned(added)
        saves == {added, after}
    IN  /\ Alive(s)
        /\ revoked' = after
        /\ \/ file' \in saves /\ unsaved' = {}
           \/ file' = file /\ unsaved' = unsaved \cup {s}
        /\ out' = out \cup {s}
        /\ excused' = (excused \cup (ToSet(revoked) \ ToSet(added))) \ {s}
        /\ UNCHANGED <<left, signed>>

Tick ==
    LET over == {s \in Sessions : left[s] = 1}
    IN  /\ \E s \in Sessions : Alive(s)
        /\ left' = [s \in Sessions |-> IF Alive(s) THEN left[s] - 1 ELSE 0]
        /\ signed' = [s \in Sessions |-> IF s \in over THEN NoPassword ELSE signed[s]]
        /\ out' = out \ over
        /\ unsaved' = unsaved \ over
        /\ excused' = excused \ over
        /\ UNCHANGED <<revoked, file>>

SessionsNext ==
    \/ \E s \in Sessions : Login(s) \/ Logout(s)
    \/ CookieSeen
    \/ Tick

(* configureRevokedSessions(): what has not expired is taken from the file, *)
(* which is then written once; a file that cannot be read is an empty one.  *)
SessionsRestart ==
    /\ \/ /\ revoked' = Pruned(file)
          /\ excused' = excused \cup unsaved
          /\ file' \in {file} \cup {list \in {Pruned(file)} : list # <<>>}
       \/ /\ revoked' = <<>>
          /\ excused' = excused \cup out
          /\ file' = file
    /\ unsaved' = {}
    /\ UNCHANGED <<left, signed, out>>

(* Who has logged out stays out, over restarts (the "P0" comment of         *)
(* server.ts:390): unless the full list made room, the write failed before  *)
(* a restart, or the restart could not read the file.                       *)
LogoutLasts == \A s \in out \ excused : ~Accepted(s)
=============================================================================
