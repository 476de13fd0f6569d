--------------------------- MODULE Console_proofs ---------------------------
(***************************************************************************)
(* The console channel for any number of tokens, calls and cookies: the     *)
(* row never falls behind the rotation of its token, a read never shows     *)
(* what was there before an acknowledged write, and no caller waits for     *)
(* something that is not under way.                                         *)
(***************************************************************************)
EXTENDS Console, TLAPS

----------------------------------------------------------------------------
(* The inductive invariant *)

(* A refresh that has brought a token and not yet written it. *)
Got(r) == job[r].pc = "answered" /\ job[r].res = "ok"

(* Such a token is known to its refresher alone: nobody else can rotate it  *)
(* before it is in the row.                                                 *)
Lineage ==
    \A r \in Refreshers : Got(r) =>
        /\ job[r].new \in live \cup dead
        /\ job[r].new # stored
        /\ \A q \in Refreshers :
              job[r].new # job[q].tok /\ (q # r => job[r].new # job[q].new)

TokenInv == TokensTypeOK /\ Lineage /\ TokenLives

CallsShape ==
    \A c \in Calls :
        /\ call[c].pc = "idle" => call[c] = Rest
        /\ call[c].pc = "following" => call[c].with \in Calls
        /\ call[c].pc # "following" => call[c].with = NoCall
        /\ call[c].pc = "sent" \/ call[c].res = "denied" => call[c].via # "none"
        /\ call[c].pc # "answered" => call[c].res = "none"

(* What a call of the current generation was answered is no older than what *)
(* has been acknowledged, now or when one of those who share it began.      *)
Generations ==
    /\ acked <= data
    /\ \A c \in Calls :
        /\ call[c].data <= data /\ call[c].floor <= acked
        /\ call[c].res = "ok" /\ call[c].kind = "read" /\ ~call[c].old
              => call[c].data >= acked

CallInv == CallsShape /\ Generations /\ ReadSeesWrites /\ NobodyForgotten

Inv == TypeOK /\ TokenInv /\ CallInv

----------------------------------------------------------------------------
(* The rotating token *)

SomeToken == Tokens \cup {NoToken}

JobRecs == [pc : {"idle", "sent", "answered"}, tok : SomeToken, again : BOOLEAN,
            res : {"none", "ok", "denied", "failed"}, new : SomeToken]

LEMMA TokensShape ==
    TokensTypeOK <=>
        /\ stored \in SomeToken /\ access \in SomeToken
        /\ live \subseteq Tokens /\ dead \subseteq Tokens
        /\ job \in [Refreshers -> JobRecs]
BY DEF TokensTypeOK, SomeToken, JobRecs

LEMMA FreshIsSpare ==
    ASSUME NEW held, Spare(held) # {}
    PROVE  Fresh(held) \in Tokens /\ Fresh(held) \notin Known
BY DEF Fresh, Spare

LEMMA KnownTokens ==
    /\ stored \in Known /\ access \in Known
    /\ \A r \in Refreshers : job[r].tok \in Known /\ job[r].new \in Known
BY DEF Known

(* A token somebody knows stays live, or dead, while another one rotates. *)
LEMMA RotationKeeps ==
    ASSUME NEW tok, NEW held, Rotated(tok, held), NEW t \in Known, t # tok,
           t \in live \cup dead
    PROVE  t \in live' \cup dead'
BY DEF Rotated, Issued

LEMMA LossKeeps ==
    ASSUME NEW tok, Lost(tok), NEW t \in Known, t \in live \cup dead
    PROVE  t \in live' \cup dead'
BY DEF Lost

LEMMA ServedKeeps ==
    ASSUME TokenInv, NEW held, NEW r \in Refreshers, RefreshServed(r, held)
    PROVE  TokenInv'
<1> DEFINE tok == job[r].tok
           new == Fresh(held)
<1>1. /\ stored \in SomeToken /\ access \in SomeToken
      /\ live \subseteq Tokens /\ dead \subseteq Tokens
      /\ job \in [Refreshers -> JobRecs]
  BY TokensShape DEF TokenInv
<1>2. /\ Rotated(tok, held) /\ Spare(held) # {} /\ tok \in live
      /\ live' = Issued(held) \ {tok} /\ dead' = dead \cap Known
      /\ stored' = stored /\ access' = access
  BY DEF RefreshServed, Rotated
<1>3. new \in Tokens /\ new \notin Known /\ new # tok
  BY <1>2, FreshIsSpare, KnownTokens
<1>4. new \in live'
  BY <1>2, <1>3 DEF Issued
<1>5. /\ job' \in [Refreshers -> JobRecs]
      /\ job'[r] = [job[r] EXCEPT !.pc = "answered", !.res = "ok", !.new = new]
      /\ \A q \in Refreshers : q # r => job'[q] = job[q]
  BY <1>1, <1>3 DEF RefreshServed, AnswerJob, JobRecs, SomeToken
<1>6. /\ job'[r].pc = "answered" /\ job'[r].res = "ok" /\ job'[r].new = new
      /\ \A q \in Refreshers : job'[q].tok = job[q].tok
  <2>1. /\ job'[r].pc = "answered" /\ job'[r].res = "ok" /\ job'[r].new = new
        /\ job'[r].tok = job[r].tok
    <3>1. job[r] \in JobRecs
      BY <1>1
    <3> QED BY <1>5, <3>1 DEF JobRecs
  <2> QED BY <1>5, <2>1
<1>7. TokensTypeOK'
  <2>1. live' \subseteq Tokens /\ dead' \subseteq Tokens
    BY <1>1, <1>2, <1>3 DEF Issued
  <2> QED BY <1>1, <1>2, <1>5, <2>1 DEF TokensTypeOK, JobRecs, SomeToken
<1>8. Lineage'
  <2> SUFFICES ASSUME NEW q \in Refreshers, Got(q)'
               PROVE  /\ job'[q].new \in live' \cup dead'
                      /\ job'[q].new # stored
                      /\ \A p \in Refreshers :
                            job'[q].new # job'[p].tok /\ (p # q => job'[q].new # job'[p].new)
    BY <1>2 DEF Lineage
  <2>0. stored \in Known /\ \A p \in Refreshers : job[p].tok \in Known /\ job[p].new \in Known
    BY KnownTokens
  <2>1. CASE q = r
    <3>1. job'[q].new = new /\ new # stored
      BY <1>3, <1>6, <2>0, <2>1
    <3>2. ASSUME NEW p \in Refreshers
          PROVE  new # job'[p].tok /\ (p # q => new # job'[p].new)
      BY <1>3, <1>5, <1>6, <2>0, <2>1
    <3> QED BY <1>4, <3>1, <3>2
  <2>2. CASE q # r
    <3>1. Got(q)
      BY <1>5, <2>2 DEF Got
    <3>2. /\ job[q].new \in live \cup dead /\ job[q].new # stored /\ job[q].new # tok
          /\ \A p \in Refreshers :
                job[q].new # job[p].tok /\ (p # q => job[q].new # job[p].new)
      BY <3>1 DEF TokenInv, Lineage
    <3>3. job[q].new \in live' \cup dead'
      BY <1>2, <3>2, RotationKeeps, KnownTokens
    <3>4. job'[q].new = job[q].new
      BY <1>5, <2>2
    <3>5. ASSUME NEW p \in Refreshers
          PROVE  job[q].new # job'[p].tok /\ (p # q => job[q].new # job'[p].new)
      <4>1. job'[p].tok = job[p].tok
        BY <1>6
      <4>2. job'[p].new \in {new, job[p].new} /\ (p # r => job'[p].new = job[p].new)
        BY <1>5, <1>6
      <4>3. job[q].new # new
        BY <1>3, <2>0
      <4> QED BY <3>2, <4>1, <4>2, <4>3
    <3> QED BY <3>2, <3>3, <3>4, <3>5
  <2> QED BY <2>1, <2>2
<1>9. TokenLives'
  <2>1. CASE stored = tok
    BY <1>2, <1>6, <2>1 DEF TokenLives, Succeeding
  <2>2. CASE stored # tok /\ stored \in live \cup dead
    BY <1>2, <2>2, RotationKeeps, KnownTokens DEF TokenLives
  <2>3. CASE stored = NoToken
    BY <1>2, <2>3 DEF TokenLives
  <2>4. CASE \E q \in Refreshers : Succeeding(q)
    <3>1. PICK q \in Refreshers : Succeeding(q)
      BY <2>4
    <3>2. q # r
      BY <3>1 DEF Succeeding, RefreshServed
    <3> QED BY <1>2, <1>5, <3>1, <3>2 DEF TokenLives, Succeeding
  <2> QED BY <2>1, <2>2, <2>3, <2>4 DEF TokenInv, TokenLives
<1> QED BY <1>7, <1>8, <1>9 DEF TokenInv

(* A refresh that gives back nothing, begins, or begins again: no token is  *)
(* in its hands afterwards, and none was before.                            *)
LEMMA EmptyHandedKeeps ==
    ASSUME TokenInv, NEW r \in Refreshers, ~Got(r),
           NEW rec \in JobRecs, ~(rec.pc = "answered" /\ rec.res = "ok"),
           rec.tok \in {NoToken, stored, job[r].tok}, rec.new = NoToken,
           job' = [job EXCEPT ![r] = rec],
           UNCHANGED stored, access' \in SomeToken,
           \/ UNCHANGED upstream
           \/ \E t : Lost(t)
    PROVE  TokenInv'
<1>1. /\ stored \in SomeToken /\ live \subseteq Tokens /\ dead \subseteq Tokens
      /\ job \in [Refreshers -> JobRecs]
  BY TokensShape DEF TokenInv
<1>2. job' \in [Refreshers -> JobRecs] /\ job'[r] = rec
      /\ \A q \in Refreshers : q # r => job'[q] = job[q]
  BY <1>1
<1>3. live' \subseteq Tokens /\ dead' \subseteq Tokens
  BY <1>1 DEF upstream, Lost
<1>4. \A t \in Known : t \in live \cup dead => t \in live' \cup dead'
  BY LossKeeps DEF upstream
<1>5. TokensTypeOK'
  BY <1>1, <1>2, <1>3 DEF TokensTypeOK, JobRecs, SomeToken
<1>6. Lineage'
  <2> SUFFICES ASSUME NEW q \in Refreshers, Got(q)'
               PROVE  /\ job'[q].new \in live' \cup dead'
                      /\ job'[q].new # stored
                      /\ \A p \in Refreshers :
                            job'[q].new # job'[p].tok /\ (p # q => job'[q].new # job'[p].new)
    BY DEF Lineage
  <2>1. q # r /\ Got(q)
    BY <1>2 DEF Got
  <2>2. /\ job[q].new \in live \cup dead /\ job[q].new # stored
        /\ \A p \in Refreshers :
              job[q].new # job[p].tok /\ (p # q => job[q].new # job[p].new)
    BY <2>1 DEF TokenInv, Lineage
  <2>3. job[q].new # NoToken
    BY <1>1, <2>2, TokensAssumption
  <2>4. job'[q].new = job[q].new /\ job[q].new \in live' \cup dead'
    BY <1>2, <1>4, <2>1, <2>2, KnownTokens
  <2> QED BY <1>2, <2>1, <2>2, <2>3, <2>4
<1>7. TokenLives'
  <2>1. CASE stored \in live \cup dead \cup {NoToken}
    BY <1>4, <2>1, KnownTokens DEF TokenLives
  <2>2. CASE \E q \in Refreshers : Succeeding(q)
    <3>1. PICK q \in Refreshers : Succeeding(q)
      BY <2>2
    <3>2. q # r
      BY <3>1 DEF Succeeding, Got
    <3> QED BY <1>2, <3>1, <3>2 DEF TokenLives, Succeeding
  <2> QED BY <2>1, <2>2 DEF TokenInv, TokenLives
<1> QED BY <1>5, <1>6, <1>7 DEF TokenInv

(* The token a refresh brought goes into the row. *)
LEMMA WrittenKeeps ==
    ASSUME TokenInv, NEW r \in Refreshers, Got(r),
           stored' = job[r].new, job' = [job EXCEPT ![r] = Idle],
           UNCHANGED upstream, access' \in SomeToken
    PROVE  TokenInv'
<1>1. /\ live \subseteq Tokens /\ dead \subseteq Tokens
      /\ job \in [Refreshers -> JobRecs]
  BY TokensShape DEF TokenInv
<1>2. Idle \in JobRecs
  BY DEF Idle, JobRecs, SomeToken
<1>3. job' \in [Refreshers -> JobRecs] /\ job'[r] = Idle
      /\ \A q \in Refreshers : q # r => job'[q] = job[q]
  BY <1>1, <1>2
<1>4. /\ job[r].new \in live \cup dead
      /\ job[r].new \in SomeToken
      /\ \A q \in Refreshers :
            job[r].new # job[q].tok /\ (q # r => job[r].new # job[q].new)
  BY <1>1 DEF TokenInv, Lineage, JobRecs
<1>5. TokensTypeOK'
  BY <1>1, <1>3, <1>4 DEF TokensTypeOK, JobRecs, SomeToken, upstream
<1>6. Lineage'
  <2> SUFFICES ASSUME NEW q \in Refreshers, Got(q)'
               PROVE  /\ job'[q].new \in live \cup dead
                      /\ job'[q].new # stored'
                      /\ \A p \in Refreshers :
                            job'[q].new # job'[p].tok /\ (p # q => job'[q].new # job'[p].new)
    BY DEF Lineage, upstream
  <2>1. q # r /\ Got(q)
    BY <1>3 DEF Got, Idle
  <2>2. /\ job[q].new \in live \cup dead
        /\ \A p \in Refreshers :
              job[q].new # job[p].tok /\ (p # q => job[q].new # job[p].new)
    BY <2>1 DEF TokenInv, Lineage
  <2>3. job[q].new # NoToken
    BY <1>1, <2>2, TokensAssumption
  <2> QED BY <1>3, <2>1, <2>2, <2>3 DEF Idle
<1>7. TokenLives'
  BY <1>4 DEF TokenLives, upstream
<1> QED BY <1>5, <1>6, <1>7 DEF TokenInv

(* The row refuses it: what a refresher had spent for it stays there.       *)
LEMMA RefusedKeeps ==
    ASSUME TokenInv, NEW r \in Refreshers, Got(r),
           dead' = dead \cup ({job[r].tok} \cap {stored} \cap Tokens),
           UNCHANGED <<stored, live>>, job' = [job EXCEPT ![r] = Idle],
           access' \in SomeToken
    PROVE  TokenInv'
<1>1. /\ stored \in SomeToken /\ live \subseteq Tokens /\ dead \subseteq Tokens
      /\ job \in [Refreshers -> JobRecs]
  BY TokensShape DEF TokenInv
<1>2. Idle \in JobRecs /\ Idle.pc = "idle" /\ Idle.tok = NoToken /\ Idle.new = NoToken
  BY DEF Idle, JobRecs, SomeToken
<1>3. job' \in [Refreshers -> JobRecs] /\ job'[r] = Idle
      /\ \A q \in Refreshers : q # r => job'[q] = job[q]
  BY <1>1, <1>2
<1>4. dead \subseteq dead' /\ dead' \subseteq Tokens
  BY <1>1
<1>5. TokensTypeOK'
  BY <1>1, <1>3, <1>4 DEF TokensTypeOK, JobRecs, SomeToken
<1>6. Lineage'
  <2> SUFFICES ASSUME NEW q \in Refreshers, Got(q)'
               PROVE  /\ job'[q].new \in live \cup dead'
                      /\ job'[q].new # stored
                      /\ \A p \in Refreshers :
                            job'[q].new # job'[p].tok /\ (p # q => job'[q].new # job'[p].new)
    BY DEF Lineage
  <2>1. q # r /\ Got(q)
    BY <1>2, <1>3 DEF Got
  <2>2. /\ job[q].new \in live \cup dead /\ job[q].new # stored
        /\ \A p \in Refreshers :
              job[q].new # job[p].tok /\ (p # q => job[q].new # job[p].new)
    BY <2>1 DEF TokenInv, Lineage
  <2>3. job[q].new # NoToken
    BY <1>1, <2>2, TokensAssumption
  <2> QED BY <1>2, <1>3, <1>4, <2>1, <2>2, <2>3
<1>7. TokenLives'
  <2>1. CASE stored \in live \cup dead \cup {NoToken}
    BY <1>4, <2>1 DEF TokenLives
  <2>2. CASE \E q \in Refreshers : Succeeding(q)
    <3>1. PICK q \in Refreshers : Succeeding(q)
      BY <2>2
    <3>2. CASE q = r
      BY <1>1, <3>1, <3>2 DEF TokenLives, Succeeding, SomeToken
    <3>3. CASE q # r
      BY <1>3, <3>1, <3>3 DEF TokenLives, Succeeding
    <3> QED BY <3>2, <3>3
  <2> QED BY <2>1, <2>2 DEF TokenInv, TokenLives
<1> QED BY <1>5, <1>6, <1>7 DEF TokenInv

(* Either way. *)
LEMMA RowKeeps ==
    ASSUME TokenInv, NEW r \in Refreshers, Got(r), RowWritten(r),
           job' = [job EXCEPT ![r] = Idle], access' \in SomeToken
    PROVE  TokenInv'
<1>1. CASE stored' = job[r].new /\ UNCHANGED upstream
  BY <1>1, WrittenKeeps
<1>2. CASE /\ dead' = dead \cup ({job[r].tok} \cap {stored} \cap Tokens)
           /\ UNCHANGED <<stored, live>>
  BY <1>2, RefusedKeeps
<1> QED BY <1>1, <1>2 DEF RowWritten

LEMMA RevokeKeeps ==
    ASSUME TokenInv, \/ UNCHANGED upstream
                     \/ \E t \in Known : Lost(t),
           UNCHANGED <<stored, job>>, access' \in SomeToken
    PROVE  TokenInv'
<1>1. /\ stored \in SomeToken /\ live \subseteq Tokens /\ dead \subseteq Tokens
      /\ job \in [Refreshers -> JobRecs]
  BY TokensShape DEF TokenInv
<1>2. \A t \in Known : t \in live \cup dead => t \in live' \cup dead'
  BY LossKeeps DEF upstream
<1>3. live' \subseteq Tokens /\ dead' \subseteq Tokens
  BY <1>1 DEF Lost, upstream
<1>4. TokensTypeOK'
  BY <1>1, <1>3 DEF TokensTypeOK, JobRecs, SomeToken
<1>5. Lineage'
  BY <1>2, KnownTokens DEF TokenInv, Lineage, Got
<1>6. TokenLives'
  BY <1>2, KnownTokens DEF TokenInv, TokenLives, Succeeding
<1> QED BY <1>4, <1>5, <1>6 DEF TokenInv

LEMMA LoginKeeps ==
    ASSUME TokenInv, NEW held, LoginDone(held)
    PROVE  TokenInv'
<1>1. /\ access \in SomeToken /\ live \subseteq Tokens /\ dead \subseteq Tokens
      /\ job \in [Refreshers -> JobRecs]
  BY TokensShape DEF TokenInv
<1>2. /\ Spare(held) # {}
      /\ live' = Issued(held) /\ dead' = dead \cap Known /\ stored' = Fresh(held)
      /\ job' = job /\ access' = access
  BY DEF LoginDone
<1>3. Fresh(held) \in Tokens /\ Fresh(held) \notin Known
  BY <1>2, FreshIsSpare
<1>4. live' \subseteq Tokens /\ dead' \subseteq Tokens
  BY <1>1, <1>2, <1>3 DEF Issued
<1>5. TokensTypeOK'
  BY <1>1, <1>2, <1>3, <1>4 DEF TokensTypeOK, JobRecs, SomeToken
<1>6. \A t \in Known : t \in live \cup dead => t \in live' \cup dead'
  BY <1>2 DEF Issued
<1>7. Lineage'
  BY <1>2, <1>3, <1>6, KnownTokens DEF TokenInv, Lineage, Got
<1>8. TokenLives'
  BY <1>2 DEF TokenLives, Issued
<1> QED BY <1>5, <1>7, <1>8 DEF TokenInv

LEMMA AskingShape ==
    ASSUME NEW tok \in SomeToken, NEW again \in BOOLEAN
    PROVE  /\ Asking(tok, again) \in JobRecs /\ Asking(tok, again).pc = "sent"
           /\ Asking(tok, again).tok = tok /\ Asking(tok, again).new = NoToken
BY DEF Asking, JobRecs, SomeToken

LEMMA IdleShape ==
    /\ Idle \in JobRecs /\ Idle.pc = "idle" /\ Idle.tok = NoToken /\ Idle.new = NoToken
BY DEF Idle, JobRecs, SomeToken

(* Every step of the tokens keeps their invariant, and none but the channel *)
(* itself ends the refresh of the channel.                                  *)
LEMMA TokensKeep ==
    ASSUME TokenInv, NEW held, TokensNext(held)
    PROVE  /\ TokenInv'
           /\ job["console"].pc # "idle" => job'["console"].pc # "idle"
<1>1. /\ stored \in SomeToken /\ access \in SomeToken
      /\ job \in [Refreshers -> JobRecs]
      /\ "console" \in Refreshers /\ "probe" \in Refreshers
  BY TokensShape DEF TokenInv, Refreshers
<1>2. CASE Revoke
  BY <1>1, <1>2, RevokeKeeps DEF Revoke
<1>3. CASE ProbeStarts
  <2>1. job' = [job EXCEPT !["probe"] = Asking(stored, FALSE)] /\ ~Got("probe")
        /\ UNCHANGED <<stored, upstream, access>>
    BY <1>3 DEF ProbeStarts, Got
  <2>2. TokenInv'
    BY <1>1, <2>1, AskingShape, EmptyHandedKeeps
  <2> QED BY <1>1, <2>1, <2>2
<1>4. CASE ProbeRefreshed
  <2>1. /\ job' = [job EXCEPT !["probe"] = Idle] /\ Got("probe") /\ RowWritten("probe")
        /\ access' = access
    BY <1>4 DEF ProbeRefreshed, Got
  <2>2. TokenInv'
    BY <1>1, <2>1, RowKeeps
  <2> QED BY <1>1, <2>1, <2>2
<1>5. CASE ProbeRefused
  <2>1. job' = [job EXCEPT !["probe"] = Idle] /\ ~Got("probe")
        /\ UNCHANGED <<stored, upstream, access>>
    BY <1>5 DEF ProbeRefused, Refused, Got
  <2>2. TokenInv'
    BY <1>1, <2>1, IdleShape, EmptyHandedKeeps
  <2> QED BY <1>1, <2>1, <2>2
<1>6. CASE LoginDone(held)
  BY <1>6, LoginKeeps DEF LoginDone
<1>7. ASSUME NEW r \in Refreshers, RefreshServed(r, held)
      PROVE  TokenInv' /\ (job["console"].pc # "idle" => job'["console"].pc # "idle")
  <2>1. TokenInv'
    BY <1>7, ServedKeeps
  <2>2. job' = [job EXCEPT ![r] = [job[r] EXCEPT !.pc = "answered", !.res = "ok",
                                                  !.new = Fresh(held)]]
    BY <1>7 DEF RefreshServed, AnswerJob
  <2> QED BY <1>1, <2>1, <2>2 DEF JobRecs
<1>8. ASSUME NEW r \in Refreshers, RefreshDenied(r) \/ RefreshFails(r)
      PROVE  TokenInv' /\ (job["console"].pc # "idle" => job'["console"].pc # "idle")
  <2>1. PICK res \in {"denied", "failed"} : AnswerJob(r, res, NoToken)
    BY <1>8 DEF RefreshDenied, RefreshFails
  <2> DEFINE rec == [job[r] EXCEPT !.pc = "answered", !.res = res, !.new = NoToken]
  <2>2. job' = [job EXCEPT ![r] = rec]
    BY <2>1 DEF AnswerJob
  <2>3. /\ rec \in JobRecs /\ rec.pc = "answered" /\ rec.res = res /\ rec.new = NoToken
        /\ rec.tok = job[r].tok
    <3>1. job[r] \in JobRecs
      BY <1>1
    <3> QED BY <3>1 DEF JobRecs, SomeToken
  <2>4. ~Got(r) /\ UNCHANGED <<stored, access>> /\ (UNCHANGED upstream \/ \E t : Lost(t))
    BY <1>8 DEF Got, RefreshDenied, RefreshFails
  <2> HIDE DEF rec
  <2>5. TokenInv'
    BY <1>1, <2>2, <2>3, <2>4, EmptyHandedKeeps
  <2> QED BY <1>1, <2>2, <2>3, <2>5
<1>9. ASSUME NEW r \in Refreshers, RefreshRetries(r)
      PROVE  TokenInv' /\ (job["console"].pc # "idle" => job'["console"].pc # "idle")
  <2>1. /\ job' = [job EXCEPT ![r] = Asking(stored, TRUE)] /\ ~Got(r)
        /\ UNCHANGED <<stored, upstream, access>>
    BY <1>9 DEF RefreshRetries, MayRetry, Refused, Got
  <2>2. TokenInv'
    BY <1>1, <2>1, AskingShape, EmptyHandedKeeps
  <2> QED BY <1>1, <2>1, <2>2, AskingShape
<1> QED BY <1>2, <1>3, <1>4, <1>5, <1>6, <1>7, <1>8, <1>9 DEF TokensNext

----------------------------------------------------------------------------
(* The calls *)

CallRecs ==
    [pc : {"idle", "refreshing", "sent", "answered", "following"},
     kind : {"read", "write"}, old : BOOLEAN, via : {"none", "cookie", "oauth"},
     cookie : Cookies \cup {NoCookie}, token : SomeToken,
     with : Calls \cup {NoCall}, res : {"none", "ok", "denied", "failed"},
     data : 0..MaxWrites, floor : 0..MaxWrites]

LEMMA TypeShape ==
    TypeOK <=>
        /\ TokensTypeOK
        /\ cookie \in Cookies \cup {NoCookie}
        /\ data \in 0..MaxWrites /\ acked \in 0..MaxWrites /\ cache \in 0..Stale
        /\ health \in {"ok", "cookie", "oauth"}
        /\ leader \in Calls \cup {NoCall}
        /\ call \in [Calls -> CallRecs]
BY DEF TypeOK, CallRecs, SomeToken

LEMMA RestShape ==
    /\ Rest \in CallRecs /\ Rest.pc = "idle" /\ Rest.with = NoCall /\ Rest.res = "none"
    /\ Rest.data = 0 /\ Rest.floor = 0 /\ Rest.old = FALSE /\ Rest.kind = "read"
    /\ Rest.via = "none" /\ Rest.token = NoToken /\ Rest.cookie = NoCookie
<1>1. 0 \in 0..MaxWrites
  BY ConsoleAssumption
<1> QED BY <1>1 DEF Rest, CallRecs, SomeToken

(* The next generation: but for that, every call is what it was. *)
LEMMA OutdatedCalls ==
    ASSUME NEW calls \in [Calls -> CallRecs],
           \A c \in Calls : calls[c].pc = "idle" => calls[c] = Rest
    PROVE  /\ Outdated(calls) \in [Calls -> CallRecs]
           /\ \A c \in Calls :
                /\ Outdated(calls)[c].pc = calls[c].pc /\ Outdated(calls)[c].kind = calls[c].kind
                /\ Outdated(calls)[c].via = calls[c].via /\ Outdated(calls)[c].with = calls[c].with
                /\ Outdated(calls)[c].res = calls[c].res /\ Outdated(calls)[c].data = calls[c].data
                /\ Outdated(calls)[c].floor = calls[c].floor
                /\ calls[c].pc = "idle" => Outdated(calls)[c] = Rest
                /\ calls[c].pc # "idle" => Outdated(calls)[c].old = TRUE
<1>1. ASSUME NEW c \in Calls, calls[c].pc = "idle"
      PROVE  Outdated(calls)[c] = calls[c] /\ calls[c] = Rest
  BY <1>1 DEF Outdated
<1>2. ASSUME NEW c \in Calls, calls[c].pc # "idle"
      PROVE  Outdated(calls)[c] = [calls[c] EXCEPT !.old = TRUE]
  BY <1>2 DEF Outdated
<1>3. ASSUME NEW c \in Calls, calls[c].pc # "idle"
      PROVE  /\ Outdated(calls)[c] \in CallRecs
             /\ Outdated(calls)[c].pc = calls[c].pc /\ Outdated(calls)[c].kind = calls[c].kind
             /\ Outdated(calls)[c].via = calls[c].via /\ Outdated(calls)[c].with = calls[c].with
             /\ Outdated(calls)[c].res = calls[c].res /\ Outdated(calls)[c].data = calls[c].data
             /\ Outdated(calls)[c].floor = calls[c].floor /\ Outdated(calls)[c].old = TRUE
  <2> DEFINE r == calls[c]
             q == Outdated(calls)[c]
  <2>1. r \in CallRecs
    OBVIOUS
  <2>2. q = [r EXCEPT !.old = TRUE]
    BY <1>2, <1>3
  <2> HIDE DEF r, q
  <2>3. q \in CallRecs /\ q.old = TRUE
    BY <2>1, <2>2 DEF CallRecs
  <2>4. /\ q.pc = r.pc /\ q.kind = r.kind /\ q.via = r.via /\ q.with = r.with
        /\ q.res = r.res /\ q.data = r.data /\ q.floor = r.floor
    BY <2>1, <2>2 DEF CallRecs
  <2> QED BY <2>3, <2>4 DEF r, q
<1>4. ASSUME NEW c \in Calls PROVE Outdated(calls)[c] \in CallRecs
  BY <1>1, <1>3
<1>5. Outdated(calls) = [c \in Calls |-> Outdated(calls)[c]]
  BY DEF Outdated
<1> QED BY <1>1, <1>3, <1>4, <1>5

(* Those of S end, with all who share them; the others stay as they are. *)
LEMMA EndedCalls ==
    ASSUME NEW S \in SUBSET Calls, call \in [Calls -> CallRecs]
    PROVE  /\ Ended(S) \in [Calls -> CallRecs]
           /\ \A c \in Calls :
                /\ c \in S \/ call[c].with \in S => Ended(S)[c] = Rest
                /\ ~(c \in S \/ call[c].with \in S) => Ended(S)[c] = call[c]
BY RestShape DEF Ended

LEMMA InvShape ==
    ASSUME Inv
    PROVE  /\ call \in [Calls -> CallRecs] /\ leader \in Calls \cup {NoCall}
           /\ acked \in 0..MaxWrites /\ data \in 0..MaxWrites /\ cache \in 0..Stale
           /\ stored \in SomeToken /\ access \in SomeToken /\ job \in [Refreshers -> JobRecs]
           /\ cookie \in Cookies \cup {NoCookie} /\ health \in {"ok", "cookie", "oauth"}
           /\ NoCall \notin Calls /\ MaxWrites \in Nat /\ Stale = MaxWrites + 1
           /\ "console" \in Refreshers
BY TypeShape, TokensShape, ConsoleAssumption DEF Inv, TokenInv, Stale, Refreshers

(* getCredentials() gives a call what it is sent with, or lets it wait for  *)
(* a refresh, which is then under way.                                      *)
LEMMA EquipEffect ==
    ASSUME Inv, NEW c \in Calls, NEW kind \in {"read", "write"}, Equip(c, Begun(kind)),
           UNCHANGED <<stored, upstream, access>>
    PROVE  /\ TokenInv'
           /\ job["console"].pc # "idle" => job'["console"].pc # "idle"
           /\ \E rec \in CallRecs :
                /\ call' = [call EXCEPT ![c] = rec]
                /\ rec.pc \in {"sent", "refreshing"} /\ rec.kind = kind /\ rec.old = FALSE
                /\ rec.with = NoCall /\ rec.res = "none" /\ rec.data = 0
                /\ rec.floor = (IF kind = "read" THEN acked ELSE 0)
                /\ rec.pc = "sent" => rec.via # "none"
                /\ rec.pc = "refreshing" => job'["console"].pc # "idle"
<1> DEFINE begun == Begun(kind)
<1>0. /\ acked \in 0..MaxWrites /\ 0 \in 0..MaxWrites
      /\ stored \in SomeToken /\ access \in SomeToken /\ job \in [Refreshers -> JobRecs]
      /\ cookie \in Cookies \cup {NoCookie} /\ "console" \in Refreshers
  BY InvShape
<1>1. /\ begun \in CallRecs /\ begun.kind = kind /\ begun.old = FALSE /\ begun.with = NoCall
      /\ begun.res = "none" /\ begun.data = 0
      /\ begun.floor = (IF kind = "read" THEN acked ELSE 0)
  <2>1. (IF kind = "read" THEN acked ELSE 0) \in 0..MaxWrites
    BY <1>0
  <2> QED BY <2>1, RestShape DEF Begun, CallRecs
<1>2. CASE UsableCookie /\ call' = [call EXCEPT ![c] = WithCookie(begun)] /\ UNCHANGED job
  <2>1. TokenInv'
    BY <1>2 DEF Inv, TokenInv, TokensTypeOK, Lineage, TokenLives, Got, Succeeding, upstream
  <2>2. /\ WithCookie(begun) \in CallRecs /\ WithCookie(begun).pc = "sent"
        /\ WithCookie(begun).via = "cookie" /\ WithCookie(begun).kind = kind
        /\ WithCookie(begun).old = FALSE /\ WithCookie(begun).with = NoCall
        /\ WithCookie(begun).res = "none" /\ WithCookie(begun).data = 0
        /\ WithCookie(begun).floor = begun.floor
    BY <1>0, <1>1 DEF WithCookie, CallRecs
  <2> QED BY <1>1, <1>2, <2>1, <2>2
<1>3. CASE call' = [call EXCEPT ![c] = WithToken(begun, access)] /\ UNCHANGED job
  <2>1. TokenInv'
    BY <1>3 DEF Inv, TokenInv, TokensTypeOK, Lineage, TokenLives, Got, Succeeding, upstream
  <2>2. /\ WithToken(begun, access) \in CallRecs /\ WithToken(begun, access).pc = "sent"
        /\ WithToken(begun, access).via = "oauth" /\ WithToken(begun, access).kind = kind
        /\ WithToken(begun, access).old = FALSE /\ WithToken(begun, access).with = NoCall
        /\ WithToken(begun, access).res = "none" /\ WithToken(begun, access).data = 0
        /\ WithToken(begun, access).floor = begun.floor
    BY <1>0, <1>1 DEF WithToken, CallRecs
  <2> QED BY <1>1, <1>3, <2>1, <2>2
<1>4. CASE /\ call' = [call EXCEPT ![c] = [begun EXCEPT !.pc = "refreshing"]]
           /\ job' = IF job["console"].pc = "idle"
                     THEN [job EXCEPT !["console"] = Asking(stored, FALSE)] ELSE job
  <2> DEFINE rec == [begun EXCEPT !.pc = "refreshing"]
  <2>1. /\ rec \in CallRecs /\ rec.pc = "refreshing" /\ rec.kind = kind
        /\ rec.old = FALSE /\ rec.with = NoCall /\ rec.res = "none" /\ rec.data = 0
        /\ rec.floor = begun.floor
    BY <1>1 DEF CallRecs
  <2>2. CASE job["console"].pc = "idle"
    <3>1. job' = [job EXCEPT !["console"] = Asking(stored, FALSE)] /\ ~Got("console")
      BY <1>4, <2>2 DEF Got
    <3>2. TokenInv'
      BY <1>0, <3>1, AskingShape, EmptyHandedKeeps DEF Inv
    <3>3. job'["console"].pc = "sent"
      BY <1>0, <3>1, AskingShape
    <3> QED BY <1>1, <1>4, <2>1, <3>2, <3>3
  <2>3. CASE job["console"].pc # "idle"
    <3>1. job' = job
      BY <1>4, <2>3
    <3>2. TokenInv'
      BY <3>1 DEF Inv, TokenInv, TokensTypeOK, Lineage, TokenLives, Got, Succeeding, upstream
    <3> QED BY <1>1, <1>4, <2>1, <2>3, <3>1, <3>2
  <2> QED BY <2>2, <2>3
<1> QED BY <1>2, <1>3, <1>4 DEF Equip

(* A call that begins joins the others. *)
LEMMA BeginKeeps ==
    ASSUME Inv, NEW c \in Calls, call[c].pc = "idle", NEW kind \in {"read", "write"},
           Equip(c, Begun(kind)), UNCHANGED <<stored, upstream, access>>,
           UNCHANGED <<cookie, data, cache, health, acked>>,
           leader' = leader \/ (leader' = c /\ kind = "read")
    PROVE  Inv'
<1>1. /\ TokenInv'
      /\ job["console"].pc # "idle" => job'["console"].pc # "idle"
  BY EquipEffect
<1>2. PICK rec \in CallRecs :
        /\ call' = [call EXCEPT ![c] = rec]
        /\ rec.pc \in {"sent", "refreshing"} /\ rec.kind = kind /\ rec.old = FALSE
        /\ rec.with = NoCall /\ rec.res = "none" /\ rec.data = 0
        /\ rec.floor = (IF kind = "read" THEN acked ELSE 0)
        /\ rec.pc = "sent" => rec.via # "none"
        /\ rec.pc = "refreshing" => job'["console"].pc # "idle"
  BY EquipEffect
<1>3. /\ call \in [Calls -> CallRecs] /\ leader \in Calls \cup {NoCall}
      /\ acked \in Nat /\ data \in Nat /\ NoCall \notin Calls
  BY InvShape
<1>4. /\ call' \in [Calls -> CallRecs] /\ call'[c] = rec
      /\ \A e \in Calls : e # c => call'[e] = call[e]
  BY <1>2, <1>3
<1>5. TypeOK'
  <2>1. TokensTypeOK'
    BY <1>1 DEF TokenInv
  <2> QED BY <1>4, <2>1 DEF Inv, TypeOK, CallRecs, SomeToken, Stale
<1>6. CallsShape'
  BY <1>2, <1>4 DEF Inv, CallInv, CallsShape
<1>7. Generations'
  BY <1>2, <1>3, <1>4 DEF Inv, CallInv, Generations
<1>8. ReadSeesWrites'
  BY <1>2, <1>3, <1>4 DEF Inv, CallInv, CallsShape, ReadSeesWrites
<1>9. NobodyForgotten'
  <2>1. \A e \in Calls : call'[e].pc = "refreshing" => job'["console"].pc # "idle"
    BY <1>1, <1>2, <1>4 DEF Inv, CallInv, NobodyForgotten
  <2>2. \A e \in Calls : call'[e].pc = "following" =>
            call'[call'[e].with].pc \in {"refreshing", "sent", "answered"}
    BY <1>2, <1>4 DEF Inv, CallInv, CallsShape, NobodyForgotten
  <2>3. leader' # NoCall =>
            call'[leader'].pc \in {"refreshing", "sent", "answered"} /\ ~call'[leader'].old
    BY <1>2, <1>3, <1>4 DEF Inv, CallInv, NobodyForgotten
  <2> QED BY <2>1, <2>2, <2>3 DEF NobodyForgotten
<1> QED BY <1>1, <1>5, <1>6, <1>7, <1>8, <1>9 DEF Inv, CallInv

(* A read that shares another one's call. *)
LEMMA FollowKeeps ==
    ASSUME Inv, NEW c \in Calls, ReadFollows(c)
    PROVE  Inv'
<1> DEFINE rec == [Begun("read") EXCEPT !.pc = "following", !.with = leader]
<1>1. /\ call \in [Calls -> CallRecs] /\ leader \in Calls /\ call[c].pc = "idle"
      /\ acked \in 0..MaxWrites /\ data \in Nat /\ NoCall \notin Calls
      /\ MaxWrites \in Nat
  BY InvShape DEF ReadFollows, ReadAsked
<1>2. /\ rec \in CallRecs /\ rec.pc = "following" /\ rec.kind = "read" /\ rec.old = FALSE
      /\ rec.with = leader /\ rec.res = "none" /\ rec.data = 0 /\ rec.floor = acked
  BY <1>1, RestShape DEF Begun, CallRecs
<1> HIDE DEF rec
<1>3. call' = [call EXCEPT ![c] = rec]
  BY DEF ReadFollows, rec
<1>4. /\ call' \in [Calls -> CallRecs] /\ call'[c] = rec
      /\ \A e \in Calls : e # c => call'[e] = call[e]
      /\ UNCHANGED <<stored, access, live, dead, job, cookie, data, cache, leader, health, acked>>
  BY <1>1, <1>2, <1>3 DEF ReadFollows, tokenVars, upstream
<1>5. TokenInv'
  BY <1>4 DEF Inv, TokenInv, TokensTypeOK, Lineage, TokenLives, Got, Succeeding
<1>6. TypeOK'
  <2>1. TokensTypeOK'
    BY <1>5 DEF TokenInv
  <2> QED BY <1>4, <2>1 DEF Inv, TypeOK, CallRecs, SomeToken, Stale
<1>7. call[leader].pc \in {"refreshing", "sent", "answered"} /\ ~call[leader].old /\ leader # c
  BY <1>1 DEF Inv, CallInv, NobodyForgotten
<1>8. CallsShape'
  BY <1>1, <1>2, <1>4 DEF Inv, CallInv, CallsShape
<1>9. Generations'
  BY <1>1, <1>2, <1>4 DEF Inv, CallInv, Generations
<1>10. ReadSeesWrites'
  <2> SUFFICES ASSUME NEW e \in Calls, NEW f \in Calls,
                      call'[e].res = "ok", call'[e].kind = "read",
                      f = e \/ call'[f].with = e
               PROVE  call'[e].data >= call'[f].floor
    BY <1>4 DEF Inv, CallInv, ReadSeesWrites
  <2>1. e # c /\ call'[e] = call[e]
    BY <1>2, <1>4
  <2>2. CASE f = c
    BY <1>1, <1>2, <1>4, <1>7, <2>1, <2>2 DEF Inv, CallInv, Generations
  <2>3. CASE f # c
    BY <1>4, <2>1, <2>3 DEF Inv, CallInv, ReadSeesWrites
  <2> QED BY <2>2, <2>3
<1>11. NobodyForgotten'
  <2>1. ASSUME NEW e \in Calls, call'[e].pc = "following"
        PROVE  call'[call'[e].with].pc \in {"refreshing", "sent", "answered"}
    <3>1. CASE e = c
      BY <1>1, <1>2, <1>4, <1>7, <3>1
    <3>2. CASE e # c
      BY <1>1, <1>4, <2>1, <3>2 DEF Inv, CallInv, CallsShape, NobodyForgotten
    <3> QED BY <3>1, <3>2
  <2>2. \A e \in Calls : call'[e].pc = "refreshing" => job'["console"].pc # "idle"
    BY <1>2, <1>4 DEF Inv, CallInv, NobodyForgotten
  <2> QED BY <1>1, <1>4, <1>7, <2>1, <2>2 DEF NobodyForgotten
<1> QED BY <1>5, <1>6, <1>8, <1>9, <1>10, <1>11 DEF Inv, CallInv

(* The upstream answers with what it knows by then. *)
LEMMA AnswerKeeps ==
    ASSUME Inv, NEW c \in Calls, call[c].pc = "sent",
           NEW res \in {"ok", "denied", "failed"}, NEW seen \in 0..MaxWrites,
           Answer(c, res, seen), data' \in 0..MaxWrites, data' >= data, seen <= data',
           res = "ok" => seen = data',
           UNCHANGED <<tokenVars, cookie, cache, leader, health, acked>>
    PROVE  Inv'
<1> DEFINE rec == [call[c] EXCEPT !.pc = "answered", !.res = res, !.data = seen,
                        !.token = NoToken,
                        !.via = IF res = "denied" THEN @ ELSE "none",
                        !.cookie = IF res = "denied" THEN @ ELSE NoCookie]
<1>1. /\ call \in [Calls -> CallRecs] /\ leader \in Calls \cup {NoCall}
      /\ acked \in Nat /\ data \in Nat /\ NoCall \notin Calls /\ MaxWrites \in Nat
  BY InvShape
<1>2. /\ rec \in CallRecs /\ rec.pc = "answered" /\ rec.kind = call[c].kind
      /\ rec.old = call[c].old /\ rec.with = call[c].with /\ rec.res = res
      /\ rec.data = seen /\ rec.floor = call[c].floor
      /\ res = "denied" => rec.via = call[c].via
  <2>1. call[c] \in CallRecs
    BY <1>1
  <2> QED BY <2>1 DEF CallRecs, SomeToken
<1> HIDE DEF rec
<1>3. call' = [call EXCEPT ![c] = rec]
  BY DEF Answer, rec
<1>4. /\ call' \in [Calls -> CallRecs] /\ call'[c] = rec
      /\ \A e \in Calls : e # c => call'[e] = call[e]
      /\ UNCHANGED <<stored, access, live, dead, job>>
  BY <1>1, <1>2, <1>3 DEF tokenVars, upstream
<1>5. TokenInv'
  BY <1>4 DEF Inv, TokenInv, TokensTypeOK, Lineage, TokenLives, Got, Succeeding
<1>6. TypeOK'
  <2>1. TokensTypeOK'
    BY <1>5 DEF TokenInv
  <2> QED BY <1>4, <2>1 DEF Inv, TypeOK, CallRecs, SomeToken, Stale
<1>7. call[c].with = NoCall /\ call[c].via # "none"
  BY DEF Inv, CallInv, CallsShape
<1>8. CallsShape'
  BY <1>2, <1>4, <1>7 DEF Inv, CallInv, CallsShape
<1>9. Generations'
  <2>1. acked <= data'
    BY <1>1 DEF Inv, CallInv, Generations
  <2>2. ASSUME NEW e \in Calls
        PROVE  /\ call'[e].data <= data' /\ call'[e].floor <= acked
               /\ call'[e].res = "ok" /\ call'[e].kind = "read" /\ ~call'[e].old
                     => call'[e].data >= acked
    <3>1. CASE e = c
      BY <1>1, <1>2, <1>4, <2>1, <3>1 DEF Inv, CallInv, Generations
    <3>2. CASE e # c
      <4>1. call[e].data \in Nat
        BY <1>1 DEF CallRecs
      <4> QED BY <1>1, <1>4, <3>2, <4>1 DEF Inv, CallInv, Generations
    <3> QED BY <3>1, <3>2
  <2> QED BY <2>1, <2>2 DEF Generations
<1>10. ReadSeesWrites'
  <2> SUFFICES ASSUME NEW e \in Calls, NEW f \in Calls,
                      call'[e].res = "ok", call'[e].kind = "read",
                      f = e \/ call'[f].with = e
               PROVE  call'[e].data >= call'[f].floor
    BY DEF Inv, CallInv, ReadSeesWrites
  <2>1. call'[f].floor = call[f].floor /\ call'[f].with = call[f].with
    BY <1>2, <1>4
  <2>2. CASE e = c
    <3>1. call[f].floor <= acked /\ acked <= data /\ call[f].floor \in Nat
      BY <1>1 DEF Inv, CallInv, Generations, CallRecs
    <3> QED BY <1>1, <1>2, <1>4, <2>1, <2>2, <3>1
  <2>3. CASE e # c
    BY <1>4, <2>1, <2>3 DEF Inv, CallInv, ReadSeesWrites
  <2> QED BY <2>2, <2>3
<1>11. NobodyForgotten'
  <2>1. ASSUME NEW e \in Calls, call'[e].pc = "following"
        PROVE  call'[call'[e].with].pc \in {"refreshing", "sent", "answered"}
    BY <1>1, <1>2, <1>4, <2>1 DEF Inv, CallInv, CallsShape, NobodyForgotten
  <2> QED BY <1>1, <1>2, <1>4, <2>1 DEF Inv, CallInv, NobodyForgotten
<1> QED BY <1>5, <1>6, <1>8, <1>9, <1>10, <1>11 DEF Inv, CallInv

(* Calls end, and those who shared them with them. *)
LEMMA EndKeeps ==
    ASSUME Inv, NEW S \in SUBSET Calls,
           \A c \in S : call[c].pc \in {"refreshing", "answered"},
           call' = Ended(S), leader' = (IF leader \in S THEN NoCall ELSE leader),
           TokenInv', job'["console"] = job["console"] \/ Waiting \subseteq S,
           cache' \in 0..Stale, cache' # Stale => cache' >= acked,
           health' \in {"ok", "cookie", "oauth"},
           UNCHANGED <<cookie, data, acked>>
    PROVE  Inv'
<1>1. /\ call \in [Calls -> CallRecs] /\ leader \in Calls \cup {NoCall}
      /\ acked \in Nat /\ data \in Nat /\ NoCall \notin Calls
  BY InvShape
<1>2. /\ call' \in [Calls -> CallRecs]
      /\ \A c \in Calls : call'[c] = Rest \/ call'[c] = call[c]
      /\ \A c \in Calls : c \in S => call'[c] = Rest
      /\ \A c \in Calls : call[c].with \in S => call'[c] = Rest
      /\ \A c \in Calls : c \notin S /\ call[c].with \notin S => call'[c] = call[c]
  BY <1>1, EndedCalls
<1>3. \A c \in Calls : call[c].pc # "following" /\ c \notin S => call'[c] = call[c]
  BY <1>1, <1>2 DEF Inv, CallInv, CallsShape
<1>4. TypeOK'
  <2>1. TokensTypeOK'
    BY DEF TokenInv
  <2> QED BY <1>1, <1>2, <2>1 DEF Inv, TypeOK, CallRecs, SomeToken, Stale
<1>5. CallsShape'
  BY <1>2, RestShape DEF Inv, CallInv, CallsShape
<1>6. Generations'
  BY <1>1, <1>2, RestShape DEF Inv, CallInv, Generations
<1>7. ReadSeesWrites'
  <2> SUFFICES ASSUME NEW e \in Calls, NEW f \in Calls,
                      call'[e].res = "ok", call'[e].kind = "read",
                      f = e \/ call'[f].with = e
               PROVE  call'[e].data >= call'[f].floor
    BY DEF ReadSeesWrites
  <2>1. call'[e] = call[e]
    BY <1>2, RestShape
  <2>2. call'[f] = call[f]
    BY <1>1, <1>2, RestShape
  <2> QED BY <2>1, <2>2 DEF Inv, CallInv, ReadSeesWrites
<1>8. NobodyForgotten'
  <2>1. ASSUME NEW e \in Calls, call'[e].pc = "following"
        PROVE  call'[call'[e].with].pc \in {"refreshing", "sent", "answered"}
    <3>1. call'[e] = call[e] /\ call[e].with \notin S
      BY <1>2, <2>1, RestShape
    <3>2. /\ call[e].with \in Calls
          /\ call[call[e].with].pc \in {"refreshing", "sent", "answered"}
      BY <2>1, <3>1 DEF Inv, CallInv, CallsShape, NobodyForgotten
    <3> QED BY <1>3, <3>1, <3>2
  <2>2. ASSUME NEW e \in Calls, call'[e].pc = "refreshing"
        PROVE  job'["console"].pc # "idle"
    <3>1. call'[e] = call[e] /\ e \notin S
      BY <1>2, <2>2, RestShape
    <3>2. e \in Waiting /\ job["console"].pc # "idle"
      BY <2>2, <3>1 DEF Waiting, Inv, CallInv, NobodyForgotten
    <3> QED BY <3>1, <3>2
  <2>3. leader' # NoCall =>
            call'[leader'].pc \in {"refreshing", "sent", "answered"} /\ ~call'[leader'].old
    BY <1>1, <1>3 DEF Inv, CallInv, NobodyForgotten
  <2> QED BY <2>1, <2>2, <2>3 DEF NobodyForgotten
<1> QED BY <1>4, <1>5, <1>6, <1>7, <1>8 DEF Inv, CallInv

(* A new generation: of those that go on nothing may be cached any more. *)
LEMMA OutdateKeeps ==
    ASSUME Inv, NEW S \in SUBSET Calls, \A c \in S : call[c].pc = "answered",
           call' = Outdated(Ended(S)), leader' = NoCall, cache' = Stale,
           TokenInv', UNCHANGED <<job, data>>,
           acked' \in 0..MaxWrites, acked' >= acked, acked' <= data,
           cookie' \in Cookies \cup {NoCookie}, health' \in {"ok", "cookie", "oauth"}
    PROVE  Inv'
<1> DEFINE calls == Ended(S)
<1>1. /\ call \in [Calls -> CallRecs] /\ acked \in Nat /\ data \in 0..MaxWrites
      /\ NoCall \notin Calls /\ MaxWrites \in Nat
  BY InvShape
<1>2. /\ calls \in [Calls -> CallRecs]
      /\ \A c \in Calls : c \in S \/ call[c].with \in S => calls[c] = Rest
      /\ \A c \in Calls : ~(c \in S \/ call[c].with \in S) => calls[c] = call[c]
  BY <1>1, EndedCalls
<1> HIDE DEF calls
<1>3. \A c \in Calls : calls[c].pc = "idle" => calls[c] = Rest
  BY <1>2 DEF Inv, CallInv, CallsShape
<1>4. call' = Outdated(calls)
  BY DEF calls
<1>5. /\ call' \in [Calls -> CallRecs]
      /\ \A c \in Calls :
            /\ call'[c].pc = calls[c].pc /\ call'[c].kind = calls[c].kind
            /\ call'[c].via = calls[c].via /\ call'[c].with = calls[c].with
            /\ call'[c].res = calls[c].res /\ call'[c].data = calls[c].data
            /\ call'[c].floor = calls[c].floor
            /\ calls[c].pc = "idle" => call'[c] = Rest
            /\ calls[c].pc # "idle" => call'[c].old = TRUE
  <2>1. /\ Outdated(calls) \in [Calls -> CallRecs]
        /\ \A c \in Calls :
              /\ Outdated(calls)[c].pc = calls[c].pc /\ Outdated(calls)[c].kind = calls[c].kind
              /\ Outdated(calls)[c].via = calls[c].via /\ Outdated(calls)[c].with = calls[c].with
              /\ Outdated(calls)[c].res = calls[c].res /\ Outdated(calls)[c].data = calls[c].data
              /\ Outdated(calls)[c].floor = calls[c].floor
              /\ calls[c].pc = "idle" => Outdated(calls)[c] = Rest
              /\ calls[c].pc # "idle" => Outdated(calls)[c].old = TRUE
    BY <1>2, <1>3, OutdatedCalls
  <2> QED BY <1>4, <2>1
<1>6. \A c \in Calls : call[c].pc # "following" /\ c \notin S => calls[c] = call[c]
  BY <1>1, <1>2 DEF Inv, CallInv, CallsShape
<1>7. TypeOK'
  <2>1. TokensTypeOK'
    BY DEF TokenInv
  <2> QED BY <1>1, <1>5, <2>1 DEF Inv, TypeOK, CallRecs, SomeToken, Stale
<1>8. CallsShape'
  <2> SUFFICES ASSUME NEW c \in Calls
               PROVE  /\ call'[c].pc = "idle" => call'[c] = Rest
                      /\ call'[c].pc = "following" => call'[c].with \in Calls
                      /\ call'[c].pc # "following" => call'[c].with = NoCall
                      /\ call'[c].pc = "sent" \/ call'[c].res = "denied" => call'[c].via # "none"
                      /\ call'[c].pc # "answered" => call'[c].res = "none"
    BY DEF CallsShape
  <2>1. CASE calls[c] = Rest
    BY <1>5, <2>1, RestShape
  <2>2. CASE calls[c] = call[c]
    BY <1>5, <2>2 DEF Inv, CallInv, CallsShape
  <2> QED BY <1>2, <2>1, <2>2
<1>9. Generations'
  <2> SUFFICES ASSUME NEW c \in Calls
               PROVE  /\ call'[c].data <= data /\ call'[c].floor <= acked'
                      /\ call'[c].res = "ok" => call'[c].old
    BY DEF Generations
  <2>1. CASE calls[c] = Rest
    BY <1>1, <1>5, <2>1, RestShape
  <2>2. CASE calls[c] = call[c]
    <3>1. call[c].data <= data /\ call[c].floor <= acked /\ call[c].floor \in Nat
      BY <1>1 DEF Inv, CallInv, Generations, CallRecs
    <3>2. call[c].res = "ok" => call[c].pc = "answered"
      BY DEF Inv, CallInv, CallsShape
    <3> QED BY <1>1, <1>5, <2>2, <3>1, <3>2
  <2> QED BY <1>2, <2>1, <2>2
<1>10. ReadSeesWrites'
  <2> SUFFICES ASSUME NEW e \in Calls, NEW f \in Calls,
                      call'[e].res = "ok", call'[e].kind = "read",
                      f = e \/ call'[f].with = e
               PROVE  call'[e].data >= call'[f].floor
    BY DEF ReadSeesWrites
  <2>1. calls[e] = call[e]
    BY <1>2, <1>5, RestShape
  <2>2. calls[f] = call[f]
    BY <1>1, <1>2, <1>5, RestShape
  <2> QED BY <1>5, <2>1, <2>2 DEF Inv, CallInv, ReadSeesWrites
<1>11. NobodyForgotten'
  <2>1. ASSUME NEW e \in Calls, call'[e].pc = "following"
        PROVE  call'[call'[e].with].pc \in {"refreshing", "sent", "answered"}
    <3>1. calls[e] = call[e] /\ call[e].with \notin S
      BY <1>2, <1>5, <2>1, RestShape
    <3>2. /\ call[e].with \in Calls /\ call'[e].with = call[e].with
          /\ call[call[e].with].pc \in {"refreshing", "sent", "answered"}
      BY <1>5, <2>1, <3>1 DEF Inv, CallInv, CallsShape, NobodyForgotten
    <3> QED BY <1>5, <1>6, <3>1, <3>2
  <2>2. ASSUME NEW e \in Calls, call'[e].pc = "refreshing"
        PROVE  job["console"].pc # "idle"
    BY <1>2, <1>5, <2>2, RestShape DEF Inv, CallInv, NobodyForgotten
  <2> QED BY <2>1, <2>2 DEF NobodyForgotten
<1> QED BY <1>7, <1>8, <1>9, <1>10, <1>11 DEF Inv, CallInv

(* The refresh of the channel ends. *)
LEMMA RefreshKeeps ==
    ASSUME Inv, RefreshEnding
    PROVE  Inv'
<1>1. /\ call \in [Calls -> CallRecs] /\ leader \in Calls \cup {NoCall}
      /\ acked \in Nat /\ data \in Nat /\ cache \in 0..Stale /\ NoCall \notin Calls
      /\ stored \in SomeToken /\ access \in SomeToken
      /\ job \in [Refreshers -> JobRecs] /\ "console" \in Refreshers
      /\ health \in {"ok", "cookie", "oauth"}
      /\ UNCHANGED <<cookie, data, cache, acked>>
  BY InvShape DEF RefreshEnding
<1>2. CASE /\ ConsoleRefreshed /\ health' = "ok" /\ UNCHANGED leader
           /\ call' = [c \in Calls |-> IF c \in Waiting
                     THEN WithToken(call[c], job["console"].new) ELSE call[c]]
  <2>1. job["console"].new \in SomeToken
    BY <1>1 DEF JobRecs
  <2>2. TokenInv'
    <3>1. /\ Got("console") /\ RowWritten("console") /\ access' \in SomeToken
          /\ job' = [job EXCEPT !["console"] = Idle]
      BY <1>2, <2>1 DEF ConsoleRefreshed, Got
    <3> QED BY <1>1, <3>1, RowKeeps DEF Inv
  <2>3. ASSUME NEW c \in Calls, call[c].pc = "refreshing"
        PROVE  /\ call'[c] \in CallRecs /\ call'[c].pc = "sent" /\ call'[c].via = "oauth"
               /\ call'[c].kind = call[c].kind /\ call'[c].old = call[c].old
               /\ call'[c].with = call[c].with /\ call'[c].res = call[c].res
               /\ call'[c].data = call[c].data /\ call'[c].floor = call[c].floor
    <3>1. call[c] \in CallRecs /\ call'[c] = WithToken(call[c], job["console"].new)
      BY <1>1, <1>2, <2>3 DEF Waiting
    <3> QED BY <2>1, <3>1 DEF WithToken, CallRecs
  <2>4. ASSUME NEW c \in Calls, call[c].pc # "refreshing" PROVE call'[c] = call[c]
    BY <1>2, <2>4 DEF Waiting
  <2>5. call' \in [Calls -> CallRecs]
    <3>1. \A c \in Calls : call'[c] \in CallRecs
      BY <1>1, <2>3, <2>4
    <3>2. call' = [c \in Calls |-> call'[c]]
      BY <1>2
    <3> QED BY <3>1, <3>2
  <2>6. TypeOK'
    <3>1. TokensTypeOK'
      BY <2>2 DEF TokenInv
    <3> QED BY <1>1, <1>2, <2>5, <3>1 DEF Inv, TypeOK, CallRecs, SomeToken, Stale
  <2>7. CallsShape'
    <3> SUFFICES ASSUME NEW c \in Calls
                 PROVE  /\ call'[c].pc = "idle" => call'[c] = Rest
                        /\ call'[c].pc = "following" => call'[c].with \in Calls
                        /\ call'[c].pc # "following" => call'[c].with = NoCall
                        /\ call'[c].pc = "sent" \/ call'[c].res = "denied" => call'[c].via # "none"
                        /\ call'[c].pc # "answered" => call'[c].res = "none"
      BY DEF CallsShape
    <3>1. CASE call[c].pc = "refreshing"
      BY <2>3, <3>1 DEF Inv, CallInv, CallsShape
    <3>2. CASE call[c].pc # "refreshing"
      BY <2>4, <3>2 DEF Inv, CallInv, CallsShape
    <3> QED BY <3>1, <3>2
  <2>8. \A c \in Calls :
           /\ call'[c].kind = call[c].kind /\ call'[c].old = call[c].old
           /\ call'[c].with = call[c].with /\ call'[c].res = call[c].res
           /\ call'[c].data = call[c].data /\ call'[c].floor = call[c].floor
           /\ call'[c].pc = (IF call[c].pc = "refreshing" THEN "sent" ELSE call[c].pc)
    BY <2>3, <2>4
  <2>9. Generations'
    BY <1>1, <2>8 DEF Inv, CallInv, Generations
  <2>10. ReadSeesWrites'
    BY <1>1, <2>8 DEF Inv, CallInv, ReadSeesWrites, Stale
  <2>11. NobodyForgotten'
    <3>1. ASSUME NEW e \in Calls, call'[e].pc = "following"
          PROVE  call'[call'[e].with].pc \in {"refreshing", "sent", "answered"}
      BY <2>8, <3>1 DEF Inv, CallInv, CallsShape, NobodyForgotten
    <3>2. leader' # NoCall =>
              call'[leader'].pc \in {"refreshing", "sent", "answered"} /\ ~call'[leader'].old
      BY <1>1, <1>2, <2>8 DEF Inv, CallInv, NobodyForgotten
    <3> QED BY <2>8, <3>1, <3>2 DEF NobodyForgotten
  <2> QED BY <2>2, <2>6, <2>7, <2>9, <2>10, <2>11 DEF Inv, CallInv
<1>3. CASE /\ ConsoleRefreshFailed /\ health' = HealthAfterRefresh /\ call' = Ended(Waiting)
           /\ leader' = IF leader \in Waiting THEN NoCall ELSE leader
  <2>1. TokenInv'
    <3>1. /\ ~Got("console") /\ job' = [job EXCEPT !["console"] = Idle]
          /\ UNCHANGED <<stored, upstream, access>>
      BY <1>3 DEF ConsoleRefreshFailed, Refused, Got
    <3> QED BY <1>1, <3>1, IdleShape, EmptyHandedKeeps DEF Inv
  <2>2. Waiting \in SUBSET Calls /\ \A c \in Waiting : call[c].pc \in {"refreshing", "answered"}
    BY DEF Waiting
  <2>3. health' \in {"ok", "cookie", "oauth"}
    BY <1>1, <1>3 DEF HealthAfterRefresh
  <2>4. cache' # Stale => cache' >= acked
    BY <1>1 DEF Inv, CallInv, ReadSeesWrites
  <2> QED BY <1>1, <1>3, <2>1, <2>2, <2>3, <2>4, EndKeeps
<1> QED BY <1>2, <1>3 DEF RefreshEnding, RefreshEnds

(* A call hands its answer on. *)
LEMMA ReturnKeeps ==
    ASSUME Inv, NEW c \in Calls, Returns(c)
    PROVE  Inv'
<1>1. /\ call \in [Calls -> CallRecs] /\ leader \in Calls \cup {NoCall}
      /\ acked \in 0..MaxWrites /\ data \in 0..MaxWrites /\ cache \in 0..Stale
      /\ MaxWrites \in Nat /\ Stale = MaxWrites + 1 /\ access \in SomeToken
      /\ health \in {"ok", "cookie", "oauth"} /\ cookie \in Cookies \cup {NoCookie}
  BY InvShape
<1>2. call[c].pc = "answered" /\ UNCHANGED <<stored, upstream, job, cookie, data>>
  BY DEF Returns
<1>3. {c} \in SUBSET Calls /\ \A e \in {c} : call[e].pc \in {"refreshing", "answered"}
  BY <1>2
<1>4. access' \in SomeToken => TokenInv'
  BY <1>2, RevokeKeeps DEF Inv
<1>5. cache # Stale => cache >= acked
  BY DEF Inv, CallInv, ReadSeesWrites
<1>6. /\ call[c].data \in 0..MaxWrites /\ call[c].data <= data
      /\ call[c].via \in {"none", "cookie", "oauth"}
  BY <1>1 DEF Inv, CallInv, Generations, CallRecs
<1>7. CASE ReadReturns(c)
  <2>1. cache' \in 0..Stale /\ (cache' # Stale => cache' >= acked)
    BY <1>1, <1>5, <1>6, <1>7 DEF ReadReturns, CacheIfCurrent, Inv, CallInv, Generations
  <2>2. /\ call' = Ended({c}) /\ leader' = (IF leader \in {c} THEN NoCall ELSE leader)
        /\ health' \in {"ok", "cookie", "oauth"} /\ UNCHANGED <<access, acked>>
    BY <1>7 DEF ReadReturns, Left
  <2> QED BY <1>1, <1>2, <1>3, <1>4, <2>1, <2>2, EndKeeps
<1>8. CASE WriteReturns(c)
  <2>1. /\ call' = Outdated(Ended({c})) /\ leader' = NoCall /\ cache' = Stale
        /\ health' = "ok" /\ access' = access /\ acked' = Higher(acked, call[c].data)
    BY <1>8 DEF WriteReturns, Invalidate
  <2>2. acked' \in 0..MaxWrites /\ acked' >= acked /\ acked' <= data
    BY <1>1, <1>6, <2>1 DEF Higher, Inv, CallInv, Generations
  <2> QED BY <1>1, <1>2, <1>3, <1>4, <2>1, <2>2, OutdateKeeps
<1>9. CASE DeniedReturns(c)
  <2>1. /\ call' = Ended({c}) /\ leader' = (IF leader \in {c} THEN NoCall ELSE leader)
        /\ UNCHANGED <<cache, acked>>
    BY <1>9 DEF DeniedReturns, Left
  <2>2. access' \in SomeToken
    BY <1>1, <1>9 DEF DeniedReturns, SomeToken
  <2>3. health' \in {"ok", "cookie", "oauth"}
    BY <1>6, <1>9 DEF DeniedReturns, Inv, CallInv, CallsShape
  <2> QED BY <1>1, <1>2, <1>3, <1>4, <1>5, <2>1, <2>2, <2>3, EndKeeps
<1>10. CASE FailedReturns(c)
  <2>1. /\ call' = Ended({c}) /\ leader' = (IF leader \in {c} THEN NoCall ELSE leader)
        /\ UNCHANGED <<access, health, cache, acked>>
    BY <1>10 DEF FailedReturns, Left
  <2> QED BY <1>1, <1>2, <1>3, <1>4, <1>5, <2>1, EndKeeps
<1> QED BY <1>7, <1>8, <1>9, <1>10 DEF Returns

----------------------------------------------------------------------------
(* The steps *)

LEMMA InitEstablishes == Init => Inv
<1> SUFFICES ASSUME Init PROVE Inv
  OBVIOUS
<1>1. MaxWrites \in Nat /\ NoCall \notin Calls
  BY ConsoleAssumption
<1>2. TokenInv
  <2>1. TokensTypeOK
    BY IdleShape DEF Init, TokensInit, TokensTypeOK, JobRecs, SomeToken
  <2>2. Lineage
    BY IdleShape DEF Init, TokensInit, Lineage, Got
  <2>3. TokenLives
    BY DEF Init, TokensInit, TokenLives
  <2> QED BY <2>1, <2>2, <2>3 DEF TokenInv
<1>3. call \in [Calls -> CallRecs] /\ \A c \in Calls : call[c] = Rest
  BY RestShape DEF Init
<1>4. TypeOK
  BY <1>1, <1>2, <1>3, TypeShape DEF Init, TokenInv, Stale
<1>5. CallsShape
  BY <1>3, RestShape DEF CallsShape
<1>6. Generations
  BY <1>1, <1>3, RestShape DEF Init, Generations
<1>7. ReadSeesWrites
  BY <1>3, RestShape DEF Init, ReadSeesWrites
<1>8. NobodyForgotten
  BY <1>3, RestShape DEF Init, NobodyForgotten
<1> QED BY <1>2, <1>4, <1>5, <1>6, <1>7, <1>8 DEF Inv, CallInv

(* The tokens change, or nothing but the clock: the calls are what they were. *)
LEMMA CallsRest ==
    ASSUME Inv, TokenInv', UNCHANGED <<cookie, data, leader, health, call, acked>>,
           cache' \in {cache, Stale},
           job["console"].pc # "idle" => job'["console"].pc # "idle"
    PROVE  Inv'
<1>1. cache' \in 0..Stale
  BY InvShape
<1>2. TypeOK'
  <2>1. TokensTypeOK'
    BY DEF TokenInv
  <2> QED BY <1>1, <2>1 DEF Inv, TypeOK, Stale
<1>3. CallsShape' /\ Generations'
  BY DEF Inv, CallInv, CallsShape, Generations
<1>4. ReadSeesWrites'
  BY DEF Inv, CallInv, ReadSeesWrites, Stale
<1>5. NobodyForgotten'
  BY DEF Inv, CallInv, NobodyForgotten
<1> QED BY <1>2, <1>3, <1>4, <1>5 DEF Inv, CallInv

LEMMA StepKeeps == Inv /\ [Next]_vars => Inv'
<1> SUFFICES ASSUME Inv, [Next]_vars PROVE Inv'
  OBVIOUS
<1>1. /\ MaxWrites \in Nat /\ Stale = MaxWrites + 1 /\ acked \in 0..MaxWrites
      /\ data \in 0..MaxWrites /\ access \in SomeToken /\ cache \in 0..Stale
      /\ call \in [Calls -> CallRecs]
  BY InvShape
<1>2. CASE TokenStep
  <2>1. TokensNext(HeldByCalls) /\ UNCHANGED consoleVars
    BY <1>2 DEF TokenStep
  <2>2. TokenInv' /\ (job["console"].pc # "idle" => job'["console"].pc # "idle")
    BY <2>1, TokensKeep DEF Inv
  <2> QED BY <2>1, <2>2, CallsRest DEF consoleVars
<1>3. CASE RefreshEnding
  BY <1>3, RefreshKeeps
<1>4. CASE CacheExpires \/ AccessExpires
  <2>1. /\ UNCHANGED <<stored, upstream, job, cookie, data, leader, health, call, acked>>
        /\ cache' \in {cache, Stale} /\ access' \in SomeToken
    BY <1>1, <1>4 DEF CacheExpires, AccessExpires, tokenVars, consoleVars, SomeToken
  <2>2. TokenInv'
    BY <2>1, RevokeKeeps DEF Inv
  <2> QED BY <2>1, <2>2, CallsRest
<1>5. ASSUME NEW v \in Cookies \cup {NoCookie}, CookiePasted(v) \/ CookieImported(v)
      PROVE  Inv'
  <2>1. /\ UNCHANGED <<stored, upstream, job, data, acked>> /\ access' \in SomeToken
        /\ cookie' \in Cookies \cup {NoCookie} /\ health' = "ok"
        /\ leader' = NoCall /\ cache' = Stale /\ call' = Outdated(call)
    BY <1>5 DEF CookiePasted, CookieImported, CredentialChanged, Invalidate, SomeToken
  <2>2. TokenInv'
    BY <2>1, RevokeKeeps DEF Inv
  <2>3. call = Ended({})
    BY <1>1 DEF Ended
  <2>4. acked <= data
    BY DEF Inv, CallInv, Generations
  <2> QED BY <1>1, <2>1, <2>2, <2>3, <2>4, OutdateKeeps
<1>6. ASSUME NEW c \in Calls, ReadLeads(c)
      PROVE  Inv'
  BY <1>6, BeginKeeps DEF ReadLeads, ReadAsked
<1>7. ASSUME NEW c \in Calls, ReadFollows(c)
      PROVE  Inv'
  BY <1>7, FollowKeeps
<1>8. ASSUME NEW c \in Calls, WriteBegins(c)
      PROVE  Inv'
  BY <1>8, BeginKeeps DEF WriteBegins, WriteAsked
<1>9. ASSUME NEW c \in Calls, CallServed(c) \/ CallDenied(c) \/ CallFails(c)
      PROVE  Inv'
  <2>1. PICK res \in {"ok", "denied", "failed"}, seen \in {0, data'} :
           Answer(c, res, seen) /\ (res = "ok" => seen = data')
    BY <1>9 DEF CallServed, CallDenied, CallFails
  <2>2. /\ call[c].pc = "sent" /\ data' \in 0..MaxWrites /\ data' >= data
        /\ UNCHANGED <<tokenVars, cookie, cache, leader, health, acked>>
    BY <1>1, <1>9 DEF CallServed, CallDenied, CallFails
  <2> QED BY <1>1, <2>1, <2>2, AnswerKeeps
<1>10. ASSUME NEW c \in Calls, Returns(c)
       PROVE  Inv'
  BY <1>10, ReturnKeeps
<1>11. CASE UNCHANGED vars
  <2>1. /\ UNCHANGED <<stored, upstream, job, access>>
        /\ UNCHANGED <<cookie, data, cache, leader, health, call, acked>>
    BY <1>11 DEF vars, tokenVars, consoleVars
  <2>2. TokenInv'
    BY <1>1, <2>1, RevokeKeeps DEF Inv
  <2> QED BY <2>1, <2>2, CallsRest
<1> QED BY <1>2, <1>3, <1>4, <1>5, <1>6, <1>7, <1>8, <1>9, <1>10, <1>11 DEF Next, ConsoleRoute

LEMMA Invariant == Spec => []Inv
BY InitEstablishes, StepKeeps, PTL DEF Spec

----------------------------------------------------------------------------
(* What is kept *)

(* The types of the channel and of the tokens it shares. *)
THEOREM TypeCorrect == Spec => []TypeOK
<1>1. Inv => TypeOK
  BY DEF Inv
<1> QED BY <1>1, Invariant, PTL

(* However the refreshes of the channel, of the probe and a login overlap,  *)
(* the token of the row works, unless it was revoked, its answer was lost   *)
(* or the database refused its successor: setOauthRefresh() of doRefresh()  *)
(* (src/console.ts), probeOauthAccount() (src/keyprobe.ts) and              *)
(* handleOauthPoll() (src/server.ts).                                       *)
THEOREM TokenLivesHolds == Spec => []TokenLives
<1>1. Inv => TokenLives
  BY DEF Inv, TokenInv
<1> QED BY <1>1, Invariant, PTL

(* Read your writes through the cache and the shared calls: invalidate()    *)
(* and the generations of cachedGet() (src/console.ts).                     *)
THEOREM ReadSeesWritesHolds == Spec => []ReadSeesWrites
<1>1. Inv => ReadSeesWrites
  BY DEF Inv, CallInv
<1> QED BY <1>1, Invariant, PTL

(* Whoever waits for a refresh or a shared read waits for one under way:    *)
(* refreshInflight and inflight (src/console.ts) lead nobody astray.        *)
THEOREM NobodyForgottenHolds == Spec => []NobodyForgotten
<1>1. Inv => NobodyForgotten
  BY DEF Inv, CallInv
<1> QED BY <1>1, Invariant, PTL
=============================================================================
