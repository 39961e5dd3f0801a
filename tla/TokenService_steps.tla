------------------------- MODULE TokenService_steps -------------------------
(***************************************************************************)
(* What a step of TokenService may do, proved from the inductive invariant *)
(* of TokenService_proofs: the action properties of the runs, and the      *)
(* refinement of SessionLifecycle.                                         *)
(***************************************************************************)
EXTENDS TokenService_proofs

(* A step that neither inserts nor deletes a row, nor closes a session. *)
Unstored == UNCHANGED <<row, whitelist, closed>>

-----------------------------------------------------------------------------
(* The steps, by what they do to the database. *)

LEMMA ArriveStoresNothing ==
    ASSUME NEW r \in Requests, Arrive(r)
    PROVE  Unstored
  BY DEF Arrive, Sign, Refresh, Present, Unstored, db

LEMMA ServeWithoutStoring ==
    ASSUME NEW r \in Requests,
           \/ Respond(r) \/ RefreshLookup(r) \/ RefreshVerify(r)
           \/ GuardLookup(r) \/ GuardVerify(r) \/ LogoutLookup(r) \/ DbError(r)
    PROVE  Unstored
  BY DEF Respond, RefreshLookup, RefreshVerify, GuardLookup, GuardVerify,
         LogoutLookup, DbError, Unstored, db

LEMMA OtherStepsStoreNothing ==
    ASSUME Crash \/ Tick \/ UNCHANGED vars
    PROVE  Unstored
  BY DEF Crash, Tick, vars, Unstored, db

(* Every step stores nothing, or is one of the three that do. *)
LEMMA StoringSteps ==
    ASSUME [Next]_vars
    PROVE  \/ Unstored
           \/ \E r \in Requests : SaveRefresh(r) \/ SaveAccess(r)
           \/ \E r \in Requests : \E kind \in Kinds : LogoutDelete(r, kind)
           \/ \E id \in RowIds : TtlSweep(id)
  BY ArriveStoresNothing, ServeWithoutStoring, OtherStepsStoreNothing
  DEF Next, Serve

-----------------------------------------------------------------------------
(* Rows are removed by their owner or by expiry. *)

LEMMA InsertsRemoveNothing ==
    ASSUME NEW r \in Requests, SaveRefresh(r) \/ SaveAccess(r)
    PROVE  whitelist \subseteq whitelist'
  BY DEF SaveRefresh, SaveAccess, SaveRefreshTokenToWhitelist,
         SaveAccessTokenToWhitelist, Insert

LEMMA DeleteRemovesVictim ==
    ASSUME NEW r \in Requests, NEW kind \in Kinds, LogoutDelete(r, kind)
    PROVE  /\ UNCHANGED row
           /\ whitelist' \in {whitelist, whitelist \ {Victim(r, kind)}}
  BY DEF LogoutDelete, DeleteHit, DeleteMiss, DeleteError,
         DeleteFromWhitelist, Missing, db

LEMMA LogoutRemovesOwnRows ==
    ASSUME IInv, NEW r \in Requests, NEW kind \in Kinds, LogoutDelete(r, kind),
           NEW id \in whitelist \ whitelist'
    PROVE  LoggedOutByOwner(id)
<1> DEFINE t == req[r].target
           s == row[t].refreshTokenId
<1>1. req[r].pc = "logoutDelete"
  BY DEF LogoutDelete, At
<1>2. /\ t \in Created
      /\ Victim(r, "access") = t /\ Victim(r, "refresh") = s
      /\ row[t].accessToken = req[r].token
      /\ row[t].userId = req[r].token.user
      /\ row[s].userId = req[r].token.user
      /\ req[r].op = "logout"
  BY <1>1, DeletingFacts
<1>3. id = Victim(r, kind)
  BY DeleteRemovesVictim
<1>4. id \in {t, s}
  BY <1>2, <1>3 DEF Kinds
<1>5. row[id].userId = req[r].token.user
  BY <1>2, <1>4
<1> HIDE DEF s, t
<1>6. QED
  BY <1>1, <1>2, <1>4, <1>5 DEF LoggedOutByOwner, s

LEMMA StepJustifiesRemovals ==
    IInv /\ [Next]_vars => [RemovalsAreJustified]_vars
<1> SUFFICES ASSUME IInv, [Next]_vars PROVE RemovalsAreJustified
  OBVIOUS
<1>1. CASE Unstored
  BY <1>1 DEF Unstored, RemovalsAreJustified
<1>2. CASE \E r \in Requests : SaveRefresh(r) \/ SaveAccess(r)
  BY <1>2, InsertsRemoveNothing DEF RemovalsAreJustified
<1>3. CASE \E r \in Requests : \E kind \in Kinds : LogoutDelete(r, kind)
  BY <1>3, LogoutRemovesOwnRows DEF RemovalsAreJustified
<1>4. CASE \E id \in RowIds : TtlSweep(id)
  BY <1>4 DEF TtlSweep, TtlExpired, RemovalsAreJustified
<1>5. QED
  BY <1>1, <1>2, <1>3, <1>4, StoringSteps

(* Whatever runs concurrently and whatever fails, a row disappears only    *)
(* because it expired or because its own user logged its session out.      *)
THEOREM RemovalsAreByOwnerOrExpiry == Spec => OnlyOwnerOrExpiryRemoves
<1>1. IInv /\ [Next]_vars => [RemovalsAreJustified]_vars
  BY StepJustifiesRemovals
<1>2. QED
  BY <1>1, Invariance, PTL DEF Spec, OnlyOwnerOrExpiryRemoves

-----------------------------------------------------------------------------
(* Tokens of sessions that were logged out do not pass. *)

(* A row that the guard finds belongs to a session that is still open. *)
LEMMA AccessRowIsOpen ==
    ASSUME IInv, NEW tok \in Tokens,
           NEW a \in GetAccessTokenFromWhitelist(tok)
    PROVE  \E s \in Created \ closed : a \in AccessRowsOf(s)
<1> DEFINE s == row[a].refreshTokenId
<1>1. a \in whitelist /\ a \in Created /\ row[a].accessToken # Null
  BY NullAssumption
  DEF GetAccessTokenFromWhitelist, IInv, TypeOK, RepositoryTypeOK
<1>2. Linked(a)
  BY <1>1 DEF IInv, DataInv, PairsAreLinked
<1>3. s \in Created /\ a \in AccessRowsOf(s)
  BY <1>2 DEF Linked
<1>4. s \notin closed
  BY <1>1, <1>3 DEF IInv, DataInv, ClosedSessionsHaveNoRows
<1>5. QED
  BY <1>3, <1>4

(* A row that token/refresh finds is a session that is still open. *)
LEMMA RefreshRowIsOpen ==
    ASSUME IInv, NEW tok, NEW s \in GetRefreshTokenFromWhitelist(tok)
    PROVE  s \in Created \ closed /\ row[s].refreshToken = tok
  BY DEF GetRefreshTokenFromWhitelist, IInv, TypeOK, RepositoryTypeOK, DataInv,
         ClosedSessionsHaveNoRows

(* A step of one request changes the memory of no other. *)
LEMMA OneRequestMoves ==
    ASSUME TypeOK, NEW q \in Requests, Arrive(q) \/ Serve(q),
           NEW r \in Requests, r # q
    PROVE  req'[r] = req[r]
<1>1. CASE Arrive(q)
  BY <1>1 DEF Arrive, Sign, Refresh, Present, TypeOK
<1>2. CASE SaveRefresh(q) \/ SaveAccess(q) \/ Respond(q)
  BY <1>2 DEF SaveRefresh, SaveAccess, Respond, Goto, Answer, TypeOK
<1>3. CASE RefreshLookup(q) \/ RefreshVerify(q)
  BY <1>3 DEF RefreshLookup, RefreshVerify, Goto, Answer, TypeOK
<1>4. CASE GuardLookup(q) \/ GuardVerify(q)
  BY <1>4 DEF GuardLookup, GuardVerify, Goto, Answer, TypeOK
<1>5. CASE LogoutLookup(q)
  BY <1>5 DEF LogoutLookup, Answer, TypeOK
<1>6. CASE \E kind \in Kinds : LogoutDelete(q, kind)
  BY <1>6 DEF LogoutDelete, DeleteHit, DeleteMiss, DeleteError, Settle, TypeOK
<1>7. CASE DbError(q)
  BY <1>7 DEF DbError, Answer, TypeOK
<1>8. QED
  BY <1>1, <1>2, <1>3, <1>4, <1>5, <1>6, <1>7 DEF Serve

(* A response ends the request. *)
LEMMA AnswerEnds ==
    ASSUME TypeOK, NEW r \in Requests, NEW code, Answer(r, code)
    PROVE  req'[r].pc = "idle"
<1>1. [NoRequest EXCEPT !.status = code].pc = "idle"
  BY DEF NoRequest
<1>2. req'[r] = [NoRequest EXCEPT !.status = code]
  BY DEF Answer, TypeOK
<1>3. QED
  BY <1>1, <1>2

(* A request that waits for a lookup gets on by that lookup only. *)
LEMMA LookupsAreTheWayIn ==
    ASSUME IInv, [Next]_vars, NEW r \in Requests,
           req[r].pc \in {"guardLookup", "refreshLookup"},
           req'[r].pc \notin {"idle", req[r].pc}
    PROVE  GuardLookup(r) \/ RefreshLookup(r)
<1>1. ~Arrive(r)
  BY DEF Arrive, Sign, Refresh, Present, Idle
<1>2. ~DbError(r)
  BY AnswerEnds DEF DbError, IInv
<1>3. CASE Serve(r)
  BY <1>2, <1>3
  DEF Serve, SaveRefresh, SaveAccess, Respond, RefreshVerify, GuardVerify,
      LogoutLookup, LogoutDelete, At
<1>4. ASSUME NEW q \in Requests, q # r, Arrive(q) \/ Serve(q) PROVE FALSE
  BY <1>4, OneRequestMoves DEF IInv
<1>5. ~Crash /\ ~Tick /\ ~UNCHANGED vars
  BY NoRequestType DEF Crash, Tick, vars, IInv, TypeOK
<1>6. ~(\E id \in RowIds : TtlSweep(id))
  BY DEF TtlSweep
<1>7. QED
  BY <1>1, <1>3, <1>4, <1>5, <1>6 DEF Next

LEMMA StepPassesOpenTokens ==
    IInv /\ [Next]_vars => [\A r \in Requests : PassesWhileOpen(r)]_vars
<1> SUFFICES ASSUME IInv, [Next]_vars, NEW r \in Requests
             PROVE  PassesWhileOpen(r)
  OBVIOUS
<1>1. ASSUME At(r, "guardLookup"), At(r, "guardVerify")'
      PROVE  \E s \in Created \ closed : \E a \in AccessRowsOf(s) :
               row[a].accessToken = req[r].token
  <2>1. GuardLookup(r) /\ req[r].token \in Tokens
    BY <1>1, LookupsAreTheWayIn
    DEF At, RefreshLookup, IInv, RequestOK, Presenting
  <2>2. GetAccessTokenFromWhitelist(req[r].token) # {}
    BY <1>1, <2>1, AnswerEnds DEF GuardLookup, At, IInv
  <2>3. PICK a \in GetAccessTokenFromWhitelist(req[r].token) : TRUE
    BY <2>2
  <2>4. row[a].accessToken = req[r].token
    BY DEF GetAccessTokenFromWhitelist
  <2>5. QED
    BY <2>1, <2>4, AccessRowIsOpen
<1>2. ASSUME At(r, "refreshLookup"), At(r, "refreshVerify")'
      PROVE  \E s \in Created \ closed : row[s].refreshToken = req[r].token
  <2>1. RefreshLookup(r)
    BY <1>2, LookupsAreTheWayIn DEF At, GuardLookup
  <2>2. GetRefreshTokenFromWhitelist(req[r].token) # {}
    BY <1>2, <2>1, AnswerEnds DEF RefreshLookup, At, IInv
  <2>3. QED
    BY <2>2, RefreshRowIsOpen
<1>3. QED
  BY <1>1, <1>2 DEF PassesWhileOpen

(* No lookup lets a token on whose every session was logged out, whatever  *)
(* the logouts, refreshes, sweeps and crashes around it.                   *)
THEOREM ClosedSessionsAreRefused == Spec => LoggedOutTokensDoNotPass
<1>1. IInv /\ [Next]_vars => [\A r \in Requests : PassesWhileOpen(r)]_vars
  BY StepPassesOpenTokens
<1>2. QED
  BY <1>1, Invariance, PTL DEF Spec, LoggedOutTokensDoNotPass

(* A logged out token passes only as a twin: another row, that was not     *)
(* logged out, carries the very same token.                                *)
UniqueTokensAreRefused ==
    \A r \in Requests : \A s \in closed : \A a \in AccessRowsOf(s) :
        /\ At(r, "guardLookup") /\ req[r].token = row[a].accessToken
        /\ \A b \in Created : row[b].accessToken = row[a].accessToken => b = a
        => ~At(r, "guardVerify")'

LEMMA StepRefusesUniqueTokens ==
    IInv /\ [Next]_vars => [UniqueTokensAreRefused]_vars
<1> SUFFICES ASSUME IInv, [Next]_vars, NEW r \in Requests,
                    NEW s \in closed, NEW a \in AccessRowsOf(s),
                    At(r, "guardLookup"), req[r].token = row[a].accessToken,
                    \A b \in Created : row[b].accessToken = row[a].accessToken => b = a,
                    At(r, "guardVerify")'
             PROVE  FALSE
  BY DEF UniqueTokensAreRefused
<1>1. PassesWhileOpen(r)
  BY StepPassesOpenTokens DEF At, vars
<1>2. PICK z \in Created \ closed : \E b \in AccessRowsOf(z) :
        row[b].accessToken = req[r].token
  BY <1>1 DEF PassesWhileOpen
<1>3. a \in AccessRowsOf(z)
  BY <1>2 DEF AccessRowsOf
<1>4. QED
  BY <1>2, <1>3 DEF AccessRowsOf

(* The promise that LoggedOutTokenIsRefused makes and the code breaks is   *)
(* kept wherever no two sign-ins of a user mint the same token: the twin   *)
(* of one second is the only way in.                                       *)
THEOREM OnlyTwinsPass == Spec => [][UniqueTokensAreRefused]_vars
<1>1. IInv /\ [Next]_vars => [UniqueTokensAreRefused]_vars
  BY StepRefusesUniqueTokens
<1>2. QED
  BY <1>1, Invariance, PTL DEF Spec

-----------------------------------------------------------------------------
(* The refinement: what a session looks like before and after each step. *)

LEMMA UnstoredStutters ==
    ASSUME Unstored
    PROVE  UNCHANGED Lifecycle!vars
<1>1. /\ \A s \in RowIds : RefreshStage(s)' = RefreshStage(s)
      /\ \A s \in RowIds : AccessStage(s)' = AccessStage(s)
      /\ \A s \in RowIds : Owner(s)' = Owner(s)
      /\ closed' = closed
  BY DEF Unstored, RefreshStage, AccessStage, AccessRowsOf, Owner, Created
<1>2. QED
  BY <1>1 DEF Lifecycle!vars

LEMMA InitRefines == Init => Lifecycle!Init
<1> SUFFICES ASSUME Init PROVE Lifecycle!Init
  OBVIOUS
<1>1. Created = {} /\ closed = {}
  BY DEF Init, RepositoryInit, Created
<1>2. \A s \in RowIds : /\ RefreshStage(s) = "none"
                        /\ AccessStage(s) = "none" /\ Owner(s) = Null
  BY <1>1 DEF RefreshStage, AccessStage, AccessRowsOf, Owner
<1>3. QED
  BY <1>1, <1>2 DEF Lifecycle!Init

(* The session of a new refresh row. *)
LEMMA SaveRefreshRefines ==
    ASSUME IInv, NEW r \in Requests, SaveRefresh(r)
    PROVE  Lifecycle!Next
<1> DEFINE u   == req[r].user
           tok == RefreshToken(u, req[r].minted)
           doc == [userId |-> u, accessToken |-> Null, refreshToken |-> tok,
                   refreshTokenId |-> Null, expiredAt |-> req[r].expiry]
<1>1. /\ u \in Users /\ req[r].minted \in Int /\ req[r].expiry \in Int
      /\ RepositoryTypeOK
  BY DEF SaveRefresh, At, IInv, RequestOK, Minting, TypeOK, Request
<1>2. tok \in Tokens /\ tok # Null
  BY <1>1, MintedTokens, NullAssumption
<1>3. doc \in Rows /\ Insert(doc) /\ UNCHANGED closed
  BY <1>1, <1>2 DEF SaveRefresh, SaveRefreshTokenToWhitelist, Rows
<1> HIDE DEF tok
<1>0. PICK n \in RowIds : n = NewId
  BY <1>1, <1>3, InsertEffect
<1>4. /\ n \in RowIds \ Created /\ Created' = Created \cup {n}
      /\ row'[n] = doc /\ whitelist' = whitelist \cup {n}
      /\ \A id \in Created : row'[id] = row[id]
  BY <1>1, <1>3, <1>0, InsertEffect DEF Created
<1>5. \A a \in Created : row[a].refreshTokenId # n
  BY <1>4, NullAssumption DEF IInv, DataInv, RowsOK, PairsAreLinked, Linked
<1>6. n # Null
  BY <1>4, NullAssumption
<1>7. \A s \in RowIds : AccessRowsOf(s)' = AccessRowsOf(s)
  BY <1>4, NullAssumption DEF AccessRowsOf
<1>8. AccessRowsOf(n) = {} /\ RefreshStage(n) = "none"
  BY <1>4, <1>5 DEF AccessRowsOf, RefreshStage
<1>9. /\ \A s \in RowIds : s # n => RefreshStage(s)' = RefreshStage(s)
      /\ RefreshStage(n)' = "valid"
  <2>1. row'[n].refreshToken = tok /\ n \in Created' /\ n \in whitelist'
    BY <1>4
  <2>2. RefreshStage(n)' = "valid"
    BY <1>2, <2>1 DEF RefreshStage
  <2>3. ASSUME NEW s \in RowIds, s # n
        PROVE  RefreshStage(s)' = RefreshStage(s)
    BY <1>4, <2>3 DEF RefreshStage
  <2>4. QED BY <2>2, <2>3
<1>10. /\ \A s \in RowIds : AccessStage(s)' = AccessStage(s)
       /\ AccessStage(n) = "none"
  <2>1. \A s \in RowIds : AccessRowsOf(s) \cap {n} = {}
    BY <1>4 DEF AccessRowsOf
  <2>2. QED
    BY <1>4, <1>7, <1>8, <2>1 DEF AccessStage
<1>11. /\ \A s \in RowIds : s # n => Owner(s)' = Owner(s)
       /\ Owner(n)' = u
  <2>1. Owner(n)' = u
    BY <1>4, <1>9 DEF Owner
  <2>2. ASSUME NEW s \in RowIds, s # n PROVE Owner(s)' = Owner(s)
    <3>1. CASE s \in Created
      BY <1>4, <1>9, <2>2, <3>1 DEF Owner
    <3>2. CASE s \notin Created
      BY <1>4, <1>9, <2>2, <3>2 DEF Owner, RefreshStage
    <3>3. QED BY <3>1, <3>2
  <2>3. QED BY <2>1, <2>2
<1>12. Lifecycle!GrantRefresh(n, u)
  BY <1>3, <1>4, <1>8, <1>9, <1>10, <1>11 DEF Lifecycle!GrantRefresh
<1>13. QED
  BY <1>1, <1>4, <1>12 DEF Lifecycle!Next

(* The access row completes the session that its refresh row began. *)
LEMMA SaveAccessRefines ==
    ASSUME IInv, NEW r \in Requests, SaveAccess(r)
    PROVE  Lifecycle!Next
<1> DEFINE u   == req[r].user
           tok == AccessToken(u, req[r].minted)
           doc == [userId |-> u, accessToken |-> tok, refreshToken |-> Null,
                   refreshTokenId |-> req[r].saved, expiredAt |-> req[r].expiry]
<1>1. /\ u \in Users /\ req[r].minted \in Int /\ req[r].expiry \in Int
      /\ RepositoryTypeOK
      /\ req[r].saved \in Created
      /\ row[req[r].saved].refreshToken = RefreshToken(u, req[r].minted)
      /\ \A a \in Created : row[a].refreshTokenId # req[r].saved
  BY DEF SaveAccess, At, IInv, RequestOK, Minting, Attaching, TypeOK, Request
<1>2. tok \in Tokens /\ RefreshToken(u, req[r].minted) # Null
  BY <1>1, MintedTokens, NullAssumption
<1>3. doc \in Rows /\ Insert(doc) /\ UNCHANGED closed
  BY <1>1, <1>2 DEF SaveAccess, SaveAccessTokenToWhitelist, Rows, Created
<1> HIDE DEF tok
<1>4. PICK s \in RowIds : s = req[r].saved
  BY <1>1 DEF Created
<1>5. PICK n \in RowIds : n = NewId
  BY <1>1, <1>3, InsertEffect
<1>6. /\ n \in RowIds \ Created /\ Created' = Created \cup {n}
      /\ row'[n].refreshToken = Null /\ row'[n].refreshTokenId = s
      /\ whitelist' = whitelist \cup {n}
      /\ \A id \in Created : row'[id] = row[id]
  BY <1>1, <1>3, <1>4, <1>5, InsertEffect DEF Created
<1>7. AccessRowsOf(s) = {} /\ AccessRowsOf(s)' = {n}
  BY <1>1, <1>4, <1>6 DEF AccessRowsOf
<1>8. \A z \in RowIds : z # s => AccessRowsOf(z)' = AccessRowsOf(z)
  BY <1>6 DEF AccessRowsOf
<1>9. \A z \in RowIds : RefreshStage(z)' = RefreshStage(z)
  BY <1>6 DEF RefreshStage
<1>10. RefreshStage(s) # "none"
  BY <1>1, <1>2, <1>4 DEF RefreshStage
<1>11. /\ AccessStage(s) = "none" /\ AccessStage(s)' = "valid"
       /\ \A z \in RowIds : z # s => AccessStage(z)' = AccessStage(z)
  <2>1. AccessStage(s) = "none" /\ AccessStage(s)' = "valid"
    BY <1>6, <1>7 DEF AccessStage
  <2>2. ASSUME NEW z \in RowIds, z # s PROVE AccessStage(z)' = AccessStage(z)
    <3>1. AccessRowsOf(z)' = AccessRowsOf(z) /\ n \notin AccessRowsOf(z)
      BY <1>6, <1>8, <2>2 DEF AccessRowsOf
    <3>2. AccessRowsOf(z) \cap whitelist' = AccessRowsOf(z) \cap whitelist
      BY <1>6, <3>1
    <3>3. QED BY <3>1, <3>2 DEF AccessStage
  <2>3. QED BY <2>1, <2>2
<1>12. \A z \in RowIds : Owner(z)' = Owner(z)
  <2>1. ASSUME NEW z \in RowIds PROVE Owner(z)' = Owner(z)
    <3>1. CASE z \in Created
      BY <1>6, <1>9, <3>1 DEF Owner
    <3>2. CASE z \notin Created
      BY <1>6, <1>9, <3>2 DEF Owner, RefreshStage
    <3>3. QED BY <3>1, <3>2
  <2>2. QED BY <2>1
<1>13. Lifecycle!GrantAccess(s)
  BY <1>3, <1>9, <1>10, <1>11, <1>12 DEF Lifecycle!GrantAccess
<1>14. QED
  BY <1>13 DEF Lifecycle!Next

(* The removal of one stored row revokes one capability of one session. *)
LEMMA RemovalEffect ==
    ASSUME IInv, NEW x \in whitelist, whitelist' = whitelist \ {x},
           UNCHANGED row
    PROVE  /\ \A s \in RowIds : Owner(s)' = Owner(s)
           /\ \/ /\ RefreshStage(x) = "valid" /\ RefreshStage(x)' = "revoked"
                 /\ \A s \in RowIds : /\ s # x => RefreshStage(s)' = RefreshStage(s)
                                      /\ AccessStage(s)' = AccessStage(s)
              \/ \E z \in RowIds :
                   /\ row[x].refreshTokenId = z
                   /\ AccessStage(z) = "valid" /\ AccessStage(z)' = "revoked"
                   /\ \A s \in RowIds : /\ RefreshStage(s)' = RefreshStage(s)
                                        /\ s # z => AccessStage(s)' = AccessStage(s)
<1>1. /\ x \in Created /\ Created' = Created
      /\ \A s : AccessRowsOf(s)' = AccessRowsOf(s)
  BY DEF IInv, TypeOK, RepositoryTypeOK, Created, AccessRowsOf
<1>2. \A s \in RowIds : Owner(s)' = Owner(s)
  <2>1. ASSUME NEW s \in RowIds
        PROVE  RefreshStage(s)' = "none" <=> RefreshStage(s) = "none"
    BY <1>1 DEF RefreshStage
  <2>2. QED BY <2>1 DEF Owner
<1>3. CASE /\ row[x].refreshToken \in Tokens /\ row[x].refreshTokenId = Null
  <2>1. RefreshStage(x) = "valid" /\ RefreshStage(x)' = "revoked"
    BY <1>1, <1>3, NullAssumption DEF RefreshStage
  <2>2. \A s \in RowIds : s # x => RefreshStage(s)' = RefreshStage(s)
    BY <1>1 DEF RefreshStage
  <2>3. \A s \in RowIds : AccessStage(s)' = AccessStage(s)
    <3>1. ASSUME NEW s \in RowIds PROVE x \notin AccessRowsOf(s)
      BY <1>3, NullAssumption DEF AccessRowsOf
    <3>2. QED BY <1>1, <3>1 DEF AccessStage
  <2>4. QED BY <1>2, <2>1, <2>2, <2>3
<1>4. CASE /\ row[x].refreshToken = Null /\ row[x].refreshTokenId \in RowIds
           /\ row[x].accessToken \in Tokens
  <2>1. PICK z \in RowIds : z = row[x].refreshTokenId
    BY <1>4
  <2>2. AccessRowsOf(z) = {x}
    BY <1>1, <1>4, <2>1, NullAssumption
    DEF IInv, DataInv, PairsAreLinked, Linked
  <2>3. AccessStage(z) = "valid" /\ AccessStage(z)' = "revoked"
    BY <1>1, <2>2 DEF AccessStage
  <2>4. \A s \in RowIds : RefreshStage(s)' = RefreshStage(s)
    BY <1>1, <1>4 DEF RefreshStage
  <2>5. \A s \in RowIds : s # z => AccessStage(s)' = AccessStage(s)
    <3>1. ASSUME NEW s \in RowIds, s # z PROVE x \notin AccessRowsOf(s)
      BY <2>1, <3>1 DEF AccessRowsOf
    <3>2. QED BY <1>1, <3>1 DEF AccessStage
  <2>6. QED BY <1>2, <2>1, <2>3, <2>4, <2>5
<1>5. QED
  BY <1>1, <1>3, <1>4 DEF IInv, DataInv, RowsOK

(* A removal that closes no session revokes one capability. *)
LEMMA RemovalRefines ==
    ASSUME IInv, NEW x \in whitelist, whitelist' = whitelist \ {x},
           UNCHANGED <<row, closed>>
    PROVE  Lifecycle!Next
<1>1. x \in RowIds
  BY DEF IInv, TypeOK, RepositoryTypeOK, Created
<1>2. \A s \in RowIds : Owner(s)' = Owner(s)
  BY RemovalEffect
<1>3. CASE /\ RefreshStage(x) = "valid" /\ RefreshStage(x)' = "revoked"
           /\ \A s \in RowIds : /\ s # x => RefreshStage(s)' = RefreshStage(s)
                                /\ AccessStage(s)' = AccessStage(s)
  <2>1. Lifecycle!RevokeRefresh(x)
    BY <1>1, <1>2, <1>3 DEF Lifecycle!RevokeRefresh
  <2>2. QED BY <1>1, <2>1 DEF Lifecycle!Next
<1>4. ASSUME NEW z \in RowIds,
             AccessStage(z) = "valid", AccessStage(z)' = "revoked",
             \A s \in RowIds : /\ RefreshStage(s)' = RefreshStage(s)
                               /\ s # z => AccessStage(s)' = AccessStage(s)
      PROVE  Lifecycle!Next
  <2>1. Lifecycle!RevokeAccess(z)
    BY <1>2, <1>4 DEF Lifecycle!RevokeAccess
  <2>2. QED BY <2>1 DEF Lifecycle!Next
<1>5. QED
  BY <1>3, <1>4, RemovalEffect

(* The two capabilities of a session end and the session is closed. *)
LEMMA StagesClose ==
    ASSUME NEW s \in RowIds, s \notin closed, closed' = closed \cup {s},
           \/ RefreshStage(s) = "valid" /\ AccessStage(s) = "revoked"
           \/ RefreshStage(s) = "revoked" /\ AccessStage(s) = "valid",
           RefreshStage(s)' = "revoked", AccessStage(s)' = "revoked",
           \A z \in RowIds : Owner(z)' = Owner(z),
           \A z \in RowIds : z # s => /\ RefreshStage(z)' = RefreshStage(z)
                                     /\ AccessStage(z)' = AccessStage(z)
    PROVE  Lifecycle!Next
<1>1. [z \in RowIds |-> RefreshStage(z)]' =
        [[z \in RowIds |-> RefreshStage(z)] EXCEPT ![s] = "revoked"]
  OBVIOUS
<1>2. [z \in RowIds |-> AccessStage(z)]' =
        [[z \in RowIds |-> AccessStage(z)] EXCEPT ![s] = "revoked"]
  OBVIOUS
<1>3. UNCHANGED [z \in RowIds |-> Owner(z)]
  OBVIOUS
<1>4. Lifecycle!Close(s)
  BY <1>1, <1>2, <1>3 DEF Lifecycle!Close
<1>5. QED
  BY <1>4 DEF Lifecycle!Next

(* The delete that completes a logout closes its session. *)
LEMMA ClosingRefines ==
    ASSUME IInv, NEW r \in Requests, NEW kind \in Kinds,
           req[r].pc = "logoutDelete", kind \in req[r].pending,
           DeleteHit(r, kind), Outcome(r, kind, 204) = 204
    PROVE  Lifecycle!Next
<1>1. PICK t \in RowIds, s \in RowIds :
        /\ t = req[r].target /\ s = row[t].refreshTokenId
        /\ t \in Created /\ s \in Created /\ AccessRowsOf(s) = {t}
        /\ Victim(r, "access") = t /\ Victim(r, "refresh") = s
        /\ row[t].accessToken \in Tokens /\ req[r].status # 204
  BY DeletingFacts DEF Created
<1>2. req[r].status = 0 /\ req[r].pending = {kind}
  BY <1>1 DEF Outcome
<1>3. PICK x \in whitelist :
        /\ x = Victim(r, kind) /\ whitelist' = whitelist \ {x}
        /\ UNCHANGED row /\ closed' = closed \cup {s}
  BY <1>1 DEF DeleteHit, DeleteFromWhitelist
<1>5. s \notin closed
  BY <1>1, <1>3 DEF IInv, DataInv, ClosedSessionsHaveNoRows, Kinds
<1>6. AccessStage(s) # "none" /\ RefreshStage(s) # "none"
  <2>1. AccessStage(s) # "none"
    BY <1>1 DEF AccessStage
  <2>2. row[s].refreshToken = [row[t].accessToken EXCEPT !.kind = "refresh"]
    BY <1>1, NullAssumption DEF IInv, DataInv, PairsAreLinked, Linked
  <2>3. row[s].refreshToken \in Tokens
    BY <1>1, <2>2 DEF Tokens, Kinds
  <2>4. QED
    BY <1>1, <2>1, <2>3, NullAssumption DEF RefreshStage
<1>7. CASE kind = "access"
  <2>1. x = t /\ s \notin whitelist
    BY <1>1, <1>2, <1>3, <1>7 DEF IInv, RequestOK, Deleting
  <2>2. RefreshStage(s) = "revoked" /\ AccessStage(s) = "valid"
    BY <1>1, <1>6, <2>1 DEF RefreshStage, AccessStage
  <2>3. /\ AccessStage(s)' = "revoked"
        /\ \A z \in RowIds : Owner(z)' = Owner(z)
        /\ \A z \in RowIds : /\ RefreshStage(z)' = RefreshStage(z)
                             /\ z # s => AccessStage(z)' = AccessStage(z)
    BY <1>1, <1>3, <2>1, RemovalEffect, NullAssumption DEF RefreshStage, IInv, DataInv, RowsOK
  <2>4. QED BY <1>3, <1>5, <2>2, <2>3, StagesClose
<1>8. CASE kind = "refresh"
  <2>1. x = s /\ t \notin whitelist
    BY <1>1, <1>2, <1>3, <1>8 DEF IInv, RequestOK, Deleting
  <2>2. RefreshStage(s) = "valid" /\ AccessStage(s) = "revoked"
    BY <1>1, <1>6, <2>1 DEF RefreshStage, AccessStage
  <2>0. row[s].refreshTokenId \notin RowIds
    BY <1>1, <1>6, NullAssumption DEF RefreshStage, IInv, DataInv, RowsOK
  <2>3. /\ RefreshStage(s)' = "revoked"
        /\ \A z \in RowIds : Owner(z)' = Owner(z)
        /\ \A z \in RowIds : /\ z # s => RefreshStage(z)' = RefreshStage(z)
                             /\ AccessStage(z)' = AccessStage(z)
    BY <1>1, <1>3, <1>6, <2>1, <2>0, RemovalEffect
  <2>4. QED BY <1>3, <1>5, <2>2, <2>3, StagesClose
<1>9. QED
  BY <1>7, <1>8 DEF Kinds

LEMMA LogoutDeleteRefines ==
    ASSUME IInv, NEW r \in Requests, NEW kind \in Kinds, LogoutDelete(r, kind)
    PROVE  Lifecycle!Next \/ UNCHANGED Lifecycle!vars
<1>1. req[r].pc = "logoutDelete" /\ kind \in req[r].pending
  BY DEF LogoutDelete, At
<1>2. CASE DeleteHit(r, kind) /\ Outcome(r, kind, 204) = 204
  BY <1>1, <1>2, ClosingRefines
<1>3. CASE DeleteHit(r, kind) /\ Outcome(r, kind, 204) # 204
  <2>1. PICK x \in whitelist : whitelist' = whitelist \ {x}
    BY <1>3 DEF DeleteHit, DeleteFromWhitelist
  <2>2. UNCHANGED <<row, closed>>
    BY <1>3 DEF DeleteHit, DeleteFromWhitelist
  <2>3. QED BY <2>1, <2>2, RemovalRefines
<1>4. CASE DeleteMiss(r, kind)
  <2>1. Unstored
    BY <1>4 DEF DeleteMiss, Missing, db, Unstored
  <2>2. QED BY <2>1, UnstoredStutters
<1>5. CASE DeleteError(r, kind)
  <2>1. UNCHANGED <<row, closed>>
    BY <1>5 DEF DeleteError
  <2>2. CASE whitelist' = whitelist
    BY <2>1, <2>2, UnstoredStutters DEF Unstored
  <2>3. CASE \E x \in whitelist : whitelist' = whitelist \ {x}
    BY <2>1, <2>3, RemovalRefines
  <2>4. QED BY <1>5, <2>2, <2>3 DEF DeleteError
<1>6. QED
  BY <1>2, <1>3, <1>4, <1>5 DEF LogoutDelete

LEMMA StepRefines == IInv /\ [Next]_vars => [Lifecycle!Next]_(Lifecycle!vars)
<1> SUFFICES ASSUME IInv, [Next]_vars
             PROVE  Lifecycle!Next \/ UNCHANGED Lifecycle!vars
  OBVIOUS
<1>1. CASE Unstored
  BY <1>1, UnstoredStutters
<1>2. CASE \E r \in Requests : SaveRefresh(r) \/ SaveAccess(r)
  BY <1>2, SaveRefreshRefines, SaveAccessRefines
<1>3. CASE \E r \in Requests : \E kind \in Kinds : LogoutDelete(r, kind)
  BY <1>3, LogoutDeleteRefines
<1>4. CASE \E id \in RowIds : TtlSweep(id)
  <2>1. PICK x \in whitelist : whitelist' = whitelist \ {x}
    BY <1>4 DEF TtlSweep, TtlExpired
  <2>2. UNCHANGED <<row, closed>>
    BY <1>4 DEF TtlSweep
  <2>3. QED BY <2>1, <2>2, RemovalRefines
<1>5. QED
  BY <1>1, <1>2, <1>3, <1>4, StoringSteps

(* TokenService implements SessionLifecycle: with any number of requests,  *)
(* crashes and sweeps, the rows behave like sessions whose capabilities    *)
(* are granted once, in order, and never come back after a revocation.     *)
THEOREM WhitelistRefinesLifecycle == Spec => ImplementsLifecycle
<1>1. Init => Lifecycle!Init
  BY InitRefines
<1>2. IInv /\ [Next]_vars => [Lifecycle!Next]_(Lifecycle!vars)
  BY StepRefines
<1>3. QED
  BY <1>1, <1>2, Invariance, PTL DEF Spec, ImplementsLifecycle, Lifecycle!Spec

-----------------------------------------------------------------------------
(* Rows in time. *)

(* What an insert adds, whichever half of a pair it stores. *)
LEMMA StoredRow ==
    ASSUME IInv, NEW r \in Requests, SaveRefresh(r) \/ SaveAccess(r)
    PROVE  \E n \in RowIds \ Created :
             /\ Created' = Created \cup {n} /\ whitelist' = whitelist \cup {n}
             /\ \A id \in Created : row'[id] = row[id]
             /\ row'[n].expiredAt = req[r].expiry
             /\ SaveRefresh(r) <=> row'[n].refreshToken # Null
<1> DEFINE u == req[r].user
           refreshTok == RefreshToken(u, req[r].minted)
           accessTok  == AccessToken(u, req[r].minted)
           refreshDoc == [userId |-> u, accessToken |-> Null,
                          refreshToken |-> refreshTok, refreshTokenId |-> Null,
                          expiredAt |-> req[r].expiry]
           accessDoc  == [userId |-> u, accessToken |-> accessTok,
                          refreshToken |-> Null, refreshTokenId |-> req[r].saved,
                          expiredAt |-> req[r].expiry]
<1>1. /\ u \in Users /\ req[r].minted \in Int /\ req[r].expiry \in Int
      /\ RepositoryTypeOK
  BY DEF SaveRefresh, SaveAccess, At, IInv, RequestOK, Minting, TypeOK, Request
<1>2. /\ refreshTok \in Tokens /\ refreshTok # Null
      /\ accessTok \in Tokens
  BY <1>1, MintedTokens, NullAssumption
<1>3. CASE SaveRefresh(r)
  <2>1. refreshDoc \in Rows /\ Insert(refreshDoc)
    BY <1>1, <1>2, <1>3 DEF SaveRefresh, SaveRefreshTokenToWhitelist, Rows
  <2> HIDE DEF refreshTok
  <2>2. PICK n \in RowIds : n = NewId
    BY <1>1, <2>1, InsertEffect
  <2>3. /\ n \in RowIds \ Created /\ Created' = Created \cup {n}
        /\ row'[n] = refreshDoc /\ whitelist' = whitelist \cup {n}
        /\ \A id \in Created : row'[id] = row[id]
    BY <1>1, <2>1, <2>2, InsertEffect DEF Created
  <2>4. row'[n].expiredAt = req[r].expiry /\ row'[n].refreshToken = refreshTok
    BY <2>3
  <2>5. QED
    BY <1>2, <1>3, <2>3, <2>4
<1>4. CASE SaveAccess(r)
  <2>1. req[r].saved \in RowIds /\ ~SaveRefresh(r)
    BY <1>4 DEF SaveAccess, SaveRefresh, At, IInv, RequestOK, Attaching, Created
  <2>2. accessDoc \in Rows /\ Insert(accessDoc)
    BY <1>1, <1>2, <1>4, <2>1 DEF SaveAccess, SaveAccessTokenToWhitelist, Rows
  <2> HIDE DEF accessTok
  <2>3. PICK n \in RowIds : n = NewId
    BY <1>1, <2>2, InsertEffect
  <2>4. /\ n \in RowIds \ Created /\ Created' = Created \cup {n}
        /\ row'[n] = accessDoc /\ whitelist' = whitelist \cup {n}
        /\ \A id \in Created : row'[id] = row[id]
    BY <1>1, <2>2, <2>3, InsertEffect DEF Created
  <2>5. row'[n].expiredAt = req[r].expiry /\ row'[n].refreshToken = Null
    BY <2>4
  <2>6. QED
    BY <2>1, <2>4, <2>5
<1>5. QED
  BY <1>3, <1>4

LEMMA ClockRuns ==
    ASSUME IInv, [Next]_vars
    PROVE  now \in Int /\ now' \in Int /\ now <= now'
<1>1. now \in Int
  BY DEF IInv, TypeOK
<1>2. now' = now \/ now' = now + 1
  BY DEF Next, Arrive, Serve, Sign, Refresh, Present, SaveRefresh, SaveAccess,
         Respond, RefreshLookup, RefreshVerify, GuardLookup, GuardVerify,
         LogoutLookup, LogoutDelete, DbError, TtlSweep, Crash, Tick, vars
<1>3. QED
  BY <1>1, <1>2

(* A row is written once, a row that is gone does not come back, and a row *)
(* that the TTL monitor may remove stays removable until it is gone: what  *)
(* is left to ExpiredRowsAreSwept is that the monitor runs.                *)
RowsAreFinal ==
    \A id \in Created :
        /\ row'[id] = row[id]
        /\ id \notin whitelist => id \notin whitelist'
        /\ TtlExpired(id, now) => id \notin whitelist' \/ row'[id].expiredAt <= now'

LEMMA StepKeepsRowsFinal == IInv /\ [Next]_vars => [RowsAreFinal]_vars
<1> SUFFICES ASSUME IInv, [Next]_vars, NEW id \in Created
             PROVE  /\ row'[id] = row[id]
                    /\ id \notin whitelist => id \notin whitelist'
                    /\ row[id].expiredAt <= now => row'[id].expiredAt <= now'
  BY DEF RowsAreFinal, TtlExpired
<1>1. row'[id] = row[id] /\ (id \notin whitelist => id \notin whitelist')
  <2>1. CASE Unstored
    BY <2>1 DEF Unstored
  <2>2. CASE \E r \in Requests : SaveRefresh(r) \/ SaveAccess(r)
    BY <2>2, StoredRow
  <2>3. CASE \E r \in Requests : \E kind \in Kinds : LogoutDelete(r, kind)
    BY <2>3, DeleteRemovesVictim
  <2>4. CASE \E x \in RowIds : TtlSweep(x)
    BY <2>4 DEF TtlSweep
  <2>5. QED
    BY <2>1, <2>2, <2>3, <2>4, StoringSteps
<1>2. row[id] \in Rows
  BY DEF IInv, TypeOK, RepositoryTypeOK, Created
<1>3. row[id].expiredAt \in Int
  BY <1>2 DEF Rows
<1>4. QED
  BY <1>1, <1>3, ClockRuns

(* No request, crash or failed call rewrites a row or brings one back.     *)
THEOREM StoredRowsAreFinal == Spec => [][RowsAreFinal]_vars
<1>1. IInv /\ [Next]_vars => [RowsAreFinal]_vars
  BY StepKeepsRowsFinal
<1>2. QED
  BY <1>1, Invariance, PTL DEF Spec

(* How long a row of this kind is meant to live. *)
Lifetime(doc) == IF doc.refreshToken # Null THEN JwtExpRefresh ELSE JwtExpAccess

(* An insert in flight carries an expiry of its own kind, not too late. *)
ExpiryOK(r) ==
    /\ req[r].pc = "saveRefresh" => req[r].expiry <= now + JwtExpRefresh
    /\ req[r].pc = "saveAccess"  => req[r].expiry <= now + JwtExpAccess

(* No row is stored for longer than the lifetime of its kind, though the   *)
(* expiry of a row was computed before the insert was sent.                *)
RowsExpireInTime ==
    \A id \in Created : row[id].expiredAt <= now + Lifetime(row[id])

ExpiryInv == RowsExpireInTime /\ \A r \in Requests : ExpiryOK(r)

LEMMA ExpiryStaysOK ==
    ASSUME IInv, [Next]_vars, NEW r \in Requests, ExpiryOK(r)
    PROVE  ExpiryOK(r)'
<1>0. /\ TypeOK /\ req[r] \in Request /\ req \in [Requests -> Request]
      /\ req[r].expiry \in Int
  BY DEF IInv, TypeOK, Request
<1>1. now \in Int /\ now' \in Int /\ now <= now'
  BY ClockRuns
<1>11. /\ now + JwtExpRefresh <= now' + JwtExpRefresh
       /\ now + JwtExpAccess <= now' + JwtExpAccess
  <2>1. \A a, b, d \in Int : a <= b => a + d <= b + d
    OBVIOUS
  <2>2. JwtExpRefresh \in Int /\ JwtExpAccess \in Int
    BY ExpAssumption
  <2>3. QED
    BY <1>1, <2>1, <2>2, Zenon
<1>2. CASE req'[r] = req[r]
  BY <1>0, <1>1, <1>2, ExpAssumption DEF ExpiryOK
<1>3. CASE req'[r].pc \notin {"saveRefresh", "saveAccess"}
  BY <1>3 DEF ExpiryOK
<1>4. ASSUME req'[r].pc = "saveRefresh", req'[r].expiry = now + JwtExpRefresh
      PROVE  ExpiryOK(r)'
  BY <1>4, <1>11 DEF ExpiryOK
<1>5. CASE Arrive(r)
  <2>1. CASE \E u \in Users : Sign(r, u)
    BY <1>0, <1>4, <2>1 DEF Sign, NoRequest
  <2>2. CASE \E tok \in delivered : Refresh(r, tok)
    BY <1>0, <1>3, <2>2 DEF Refresh, NoRequest
  <2>3. CASE \E tok \in delivered : Present(r, "use", tok) \/ Present(r, "logout", tok)
    BY <1>0, <1>3, <2>3 DEF Present, NoRequest
  <2>4. QED
    BY <1>5, <2>1, <2>2, <2>3 DEF Arrive
<1>6. CASE Serve(r)
  <2>0. ASSUME NEW code, Answer(r, code) PROVE ExpiryOK(r)'
    BY <1>0, <1>3, <2>0, AnswerEnds
  <2>1. CASE SaveRefresh(r)
    <3>1. req'[r].pc = "saveAccess" /\ req'[r].expiry = now + JwtExpAccess
      BY <1>0, <2>1 DEF SaveRefresh, Request
    <3>2. QED
      BY <3>1, <1>11 DEF ExpiryOK
  <2>2. CASE SaveAccess(r)
    BY <1>0, <1>3, <2>2 DEF SaveAccess, Goto, Request
  <2>3. CASE Respond(r) \/ DbError(r)
    BY <2>0, <2>3 DEF Respond, DbError
  <2>4. CASE RefreshLookup(r) \/ GuardLookup(r)
    <3>1. \/ \E code : Answer(r, code)
          \/ req'[r].pc \in {"guardVerify", "refreshVerify"}
      BY <1>0, <2>4 DEF RefreshLookup, GuardLookup, Goto, Request
    <3>2. QED
      BY <1>3, <2>0, <3>1
  <2>5. CASE RefreshVerify(r)
    <3>1. \/ \E code : Answer(r, code)
          \/ req'[r].pc = "saveRefresh" /\ req'[r].expiry = now + JwtExpRefresh
      BY <1>0, <2>5 DEF RefreshVerify, Request
    <3>2. QED
      BY <1>4, <2>0, <3>1
  <2>6. CASE GuardVerify(r) \/ LogoutLookup(r)
    <3>1. \/ \E code : Answer(r, code)
          \/ req'[r].pc \in {"logoutLookup", "logoutDelete"}
      BY <1>0, <2>6 DEF GuardVerify, LogoutLookup, Request
    <3>2. QED
      BY <1>3, <2>0, <3>1
  <2>7. CASE \E kind \in Kinds : LogoutDelete(r, kind)
    <3>1. PICK kind \in Kinds : LogoutDelete(r, kind)
      BY <2>7
    <3>2. PICK code : Settle(r, kind, code)
      BY <3>1 DEF LogoutDelete, DeleteHit, DeleteMiss, DeleteError
    <3>3. req[r].pc = "logoutDelete"
      BY <3>1 DEF LogoutDelete, At
    <3>4. req'[r].pc \in {"idle", "logoutDelete"}
      BY <1>0, <3>2, <3>3 DEF Settle, NoRequest, Request
    <3>5. QED
      BY <1>3, <3>4
  <2>8. QED
    BY <1>6, <2>1, <2>2, <2>3, <2>4, <2>5, <2>6, <2>7 DEF Serve
<1>7. ASSUME NEW q \in Requests, q # r, Arrive(q) \/ Serve(q) PROVE req'[r] = req[r]
  BY <1>0, <1>7, OneRequestMoves
<1>8. CASE Crash
  BY <1>0, <1>2, <1>3, <1>8, NoRequestType DEF Crash
<1>9. CASE Tick \/ UNCHANGED vars \/ \E id \in RowIds : TtlSweep(id)
  BY <1>2, <1>9 DEF Tick, TtlSweep, vars
<1>10. QED
  BY <1>2, <1>5, <1>6, <1>7, <1>8, <1>9 DEF Next

LEMMA RowsStillExpire ==
    ASSUME IInv, [Next]_vars, ExpiryInv
    PROVE  RowsExpireInTime'
<1>0. ASSUME NEW id \in RowIds, row[id] \in Rows
      PROVE  Lifetime(row[id]) \in Nat /\ row[id].expiredAt \in Int
  BY <1>0, ExpAssumption DEF Lifetime, Rows
<1>1. now \in Int /\ now' \in Int /\ now <= now'
  BY ClockRuns
<1>2. ASSUME NEW id \in Created
      PROVE  row'[id].expiredAt <= now' + Lifetime(row'[id])
  <2>1. row'[id] = row[id]
    BY StepKeepsRowsFinal DEF RowsAreFinal, vars
  <2>2. row[id].expiredAt \in Int /\ Lifetime(row[id]) \in Nat
    BY <1>0 DEF IInv, TypeOK, RepositoryTypeOK, Created
  <2>3. row[id].expiredAt <= now + Lifetime(row[id])
    BY DEF ExpiryInv, RowsExpireInTime
  <2>4. row[id].expiredAt <= now' + Lifetime(row[id])
    BY <1>1, <2>2, <2>3
  <2>5. QED
    BY <2>1, <2>4
<1>3. CASE Created' = Created
  BY <1>2, <1>3 DEF RowsExpireInTime
<1>4. CASE \E r \in Requests : SaveRefresh(r) \/ SaveAccess(r)
  <2>1. PICK r \in Requests : SaveRefresh(r) \/ SaveAccess(r)
    BY <1>4
  <2>2. PICK n \in RowIds \ Created :
          /\ Created' = Created \cup {n}
          /\ row'[n].expiredAt = req[r].expiry
          /\ SaveRefresh(r) <=> row'[n].refreshToken # Null
    BY <2>1, StoredRow
  <2>3. /\ req[r].pc = "saveRefresh" <=> SaveRefresh(r)
        /\ req[r].pc \in {"saveRefresh", "saveAccess"}
    BY <2>1 DEF SaveRefresh, SaveAccess, At
  <2>4. req[r].expiry <= now + Lifetime(row'[n])
    BY <2>2, <2>3 DEF ExpiryInv, ExpiryOK, Lifetime
  <2>5. req[r].expiry \in Int /\ Lifetime(row'[n]) \in Nat
    BY ExpAssumption DEF IInv, TypeOK, Request, Lifetime
  <2>6. row'[n].expiredAt <= now' + Lifetime(row'[n])
    BY <1>1, <2>2, <2>4, <2>5
  <2>7. QED
    BY <1>2, <2>2, <2>6 DEF RowsExpireInTime
<1>5. QED
  BY <1>3, <1>4, StoringSteps, DeleteRemovesVictim DEF Unstored, TtlSweep, Created

(* Every row that is stored becomes one the TTL monitor may remove, once   *)
(* the clock has run for the lifetime of its kind: however long a request  *)
(* waits between computing an expiry and storing it, none lives longer.    *)
THEOREM RowsLiveNoLonger == Spec => []RowsExpireInTime
<1>1. Init => ExpiryInv
  BY DEF Init, RepositoryInit, Created, ExpiryInv, RowsExpireInTime, ExpiryOK, NoRequest
<1>2. ExpiryInv /\ IInv /\ [Next]_vars => ExpiryInv'
  BY ExpiryStaysOK, RowsStillExpire DEF ExpiryInv
<1>3. ExpiryInv => RowsExpireInTime
  BY DEF ExpiryInv
<1>4. QED
  BY <1>1, <1>2, <1>3, Invariance, PTL DEF Spec

-----------------------------------------------------------------------------
(* Getting on: what EveryRequestEnds rests on besides fairness.  A request *)
(* takes at most five steps, one for each call it awaits.                  *)
StepsLeft(r) ==
    CASE req[r].pc = "idle"                             -> 0
      [] req[r].pc \in {"guardLookup", "refreshLookup"} -> 5
      [] req[r].pc \in {"guardVerify", "refreshVerify"} -> 4
      [] req[r].pc \in {"logoutLookup", "saveRefresh"}  -> 3
      [] req[r].pc = "saveAccess"                       -> 2
      [] req[r].pc = "respond"                          -> 1
      [] req[r].pc = "logoutDelete" -> IF req[r].pending = Kinds THEN 2 ELSE 1

LEMMA StepsLeftIsNat ==
    ASSUME NEW r \in Requests, req[r].pc \in Pcs
    PROVE  StepsLeft(r) \in 0..5
BY DEF StepsLeft, Pcs

LEMMA AnswerDraws ==
    ASSUME TypeOK, NEW r \in Requests, ~Idle(r), NEW code, Answer(r, code)
    PROVE  StepsLeft(r)' < StepsLeft(r)
<1>1. req'[r].pc = "idle"
  BY AnswerEnds
<1>2. StepsLeft(r)' = 0
  BY <1>1 DEF StepsLeft
<1>3. req[r].pc \in Pcs
  BY DEF TypeOK, Request
<1>4. StepsLeft(r) \in 1..5
  BY <1>3 DEF StepsLeft, Pcs, Idle
<1>5. QED
  BY <1>2, <1>4

LEMMA DeleteDraws ==
    ASSUME IInv, NEW r \in Requests, NEW kind \in Kinds, LogoutDelete(r, kind)
    PROVE  StepsLeft(r)' < StepsLeft(r)
<1>1. req[r].pc = "logoutDelete" /\ kind \in req[r].pending /\ req[r].pending \subseteq Kinds
  BY DEF LogoutDelete, At, IInv, TypeOK, Request
<1>2. PICK code : Settle(r, kind, code)
  BY DEF LogoutDelete, DeleteHit, DeleteMiss, DeleteError
<1>3. req[r] \in Request /\ req \in [Requests -> Request]
  BY DEF IInv, TypeOK
<1>4. CASE req[r].pending = {kind}
  <2>1. req'[r].pc = "idle"
    BY <1>2, <1>3, <1>4 DEF Settle, NoRequest
  <2>2. QED
    BY <1>1, <2>1 DEF StepsLeft
<1>5. CASE req[r].pending # {kind}
  <2>1. req[r].pending = Kinds /\ Kinds \ {kind} # Kinds
    BY <1>1, <1>5 DEF Kinds
  <2>2. req'[r].pc = "logoutDelete" /\ req'[r].pending = Kinds \ {kind}
    BY <1>1, <1>2, <1>3, <1>5, <2>1 DEF Settle, Request
  <2>3. StepsLeft(r) = 2 /\ StepsLeft(r)' = 1
    BY <1>1, <2>1, <2>2 DEF StepsLeft
  <2>4. QED
    BY <2>3
<1>6. QED
  BY <1>4, <1>5

LEMMA ServeDraws ==
    ASSUME IInv, NEW r \in Requests, Serve(r)
    PROVE  StepsLeft(r)' < StepsLeft(r)
<1>1. TypeOK /\ req \in [Requests -> Request] /\ req[r] \in Request
  BY DEF IInv, TypeOK
<1>2. CASE SaveRefresh(r)
  <2>1. req[r].pc = "saveRefresh" /\ req'[r].pc = "saveAccess"
    BY <1>1, <1>2 DEF SaveRefresh, At, Request
  <2>2. QED
    BY <2>1 DEF StepsLeft
<1>3. CASE SaveAccess(r)
  <2>1. req[r].pc = "saveAccess" /\ req'[r].pc = "respond"
    BY <1>1, <1>3 DEF SaveAccess, At, Goto, Request
  <2>2. QED
    BY <2>1 DEF StepsLeft
<1>4. CASE Respond(r) \/ DbError(r)
  BY <1>1, <1>4, AnswerDraws DEF Respond, DbError, At, Idle
<1>5. CASE RefreshLookup(r) \/ GuardLookup(r)
  <2>1. req[r].pc \in {"guardLookup", "refreshLookup"} /\ ~Idle(r)
    BY <1>5 DEF RefreshLookup, GuardLookup, At, Idle
  <2>2. \/ \E code : Answer(r, code)
        \/ req'[r].pc \in {"guardVerify", "refreshVerify"}
    BY <1>1, <1>5 DEF RefreshLookup, GuardLookup, Goto, Request
  <2>3. CASE req'[r].pc \in {"guardVerify", "refreshVerify"}
    BY <2>1, <2>3 DEF StepsLeft
  <2>4. QED
    BY <1>1, <2>1, <2>2, <2>3, AnswerDraws
<1>6. CASE RefreshVerify(r) \/ GuardVerify(r)
  <2>1. req[r].pc \in {"guardVerify", "refreshVerify"} /\ ~Idle(r)
    BY <1>6 DEF RefreshVerify, GuardVerify, At, Idle
  <2>2. \/ \E code : Answer(r, code)
        \/ req'[r].pc \in {"logoutLookup", "saveRefresh"}
    BY <1>1, <1>6 DEF RefreshVerify, GuardVerify, Request
  <2>3. CASE req'[r].pc \in {"logoutLookup", "saveRefresh"}
    BY <2>1, <2>3 DEF StepsLeft
  <2>4. QED
    BY <1>1, <2>1, <2>2, <2>3, AnswerDraws
<1>7. CASE LogoutLookup(r)
  <2>1. req[r].pc = "logoutLookup" /\ ~Idle(r)
    BY <1>7 DEF LogoutLookup, At, Idle
  <2>2. \/ \E code : Answer(r, code)
        \/ req'[r].pc = "logoutDelete"
    BY <1>1, <1>7 DEF LogoutLookup, Request
  <2>3. CASE req'[r].pc = "logoutDelete"
    BY <2>1, <2>3 DEF StepsLeft
  <2>4. QED
    BY <1>1, <2>1, <2>2, <2>3, AnswerDraws
<1>8. CASE \E kind \in Kinds : LogoutDelete(r, kind)
  BY <1>8, DeleteDraws
<1>9. QED
  BY <1>2, <1>3, <1>4, <1>5, <1>6, <1>7, <1>8 DEF Serve

LEMMA OnlyArrivalAdds ==
    ASSUME IInv, [Next]_vars, NEW r \in Requests
    PROVE  Idle(r) \/ StepsLeft(r)' <= StepsLeft(r)
<1> SUFFICES ASSUME ~Idle(r) PROVE StepsLeft(r)' <= StepsLeft(r)
  OBVIOUS
<1>0. req[r] \in Request /\ req \in [Requests -> Request] /\ req[r].pc \in Pcs
  BY DEF IInv, TypeOK, Request
<1>1. StepsLeft(r) \in 1..5
  BY <1>0 DEF StepsLeft, Pcs, Idle
<1>2. ASSUME req'[r] = req[r] PROVE StepsLeft(r)' <= StepsLeft(r)
  <2>1. StepsLeft(r)' = StepsLeft(r)
    BY <1>2 DEF StepsLeft
  <2>2. QED
    BY <1>1, <2>1
<1>3. CASE Serve(r)
  <2>1. req'[r].pc \in Pcs
    BY <1>3, NextIInv DEF Next, IInv, TypeOK, Request
  <2>2. StepsLeft(r)' \in 0..5
    BY <2>1 DEF StepsLeft, Pcs
  <2>3. QED
    BY <1>1, <1>3, <2>2, ServeDraws
<1>4. CASE Arrive(r)
  BY <1>4 DEF Arrive, Sign, Refresh, Present
<1>5. ASSUME NEW q \in Requests, q # r, Arrive(q) \/ Serve(q)
      PROVE  StepsLeft(r)' <= StepsLeft(r)
  BY <1>2, <1>5, OneRequestMoves DEF IInv
<1>6. CASE Crash
  <2>1. req'[r].pc = "idle"
    BY <1>0, <1>6, NoRequestType DEF Crash
  <2>2. StepsLeft(r)' = 0
    BY <2>1 DEF StepsLeft
  <2>3. QED
    BY <1>1, <2>2
<1>7. CASE Tick \/ UNCHANGED vars \/ \E id \in RowIds : TtlSweep(id)
  BY <1>2, <1>7 DEF Tick, TtlSweep, vars
<1>8. QED
  BY <1>3, <1>4, <1>5, <1>6, <1>7 DEF Next

(* No stage of a request is a dead end: of the guard that has found the    *)
(* token it is known what it guards, and a logout that deletes has a       *)
(* delete that is still to settle.                                         *)
NoDeadEnd(r) ==
    /\ req[r].pc \in {"guardLookup", "guardVerify"} => req[r].op \in {"use", "logout"}
    /\ req[r].pc = "logoutDelete" => \E kind \in Kinds : kind \in req[r].pending

LEMMA NoDeadEndStep ==
    ASSUME IInv, IInv', [Next]_vars, NEW r \in Requests, NoDeadEnd(r)
    PROVE  NoDeadEnd(r)'
<1>0. TypeOK /\ req[r] \in Request /\ req \in [Requests -> Request]
  BY DEF IInv, TypeOK
<1>1. (req[r].pc = "logoutDelete" => \E kind \in Kinds : kind \in req[r].pending)'
  <2>1. req'[r] \in Request
    BY DEF IInv, TypeOK
  <2>2. QED
    BY <2>1 DEF IInv, RequestOK, Deleting, Request
<1> SUFFICES ASSUME req'[r].pc \in {"guardLookup", "guardVerify"}
             PROVE  req'[r].op \in {"use", "logout"}
  BY <1>1 DEF NoDeadEnd
<1>2. CASE req'[r] = req[r]
  BY <1>2 DEF NoDeadEnd
<1>3. CASE Arrive(r)
  <2>1. CASE \E u \in Users : Sign(r, u)
    BY <1>0, <2>1 DEF Sign, NoRequest
  <2>2. CASE \E tok \in delivered : Refresh(r, tok)
    BY <1>0, <2>2 DEF Refresh, NoRequest
  <2>3. CASE \E tok \in delivered : Present(r, "use", tok) \/ Present(r, "logout", tok)
    BY <1>0, <2>3 DEF Present, NoRequest
  <2>4. QED
    BY <1>3, <2>1, <2>2, <2>3 DEF Arrive
<1>4. CASE Serve(r)
  <2>1. CASE GuardLookup(r)
    BY <1>0, <2>1, AnswerEnds DEF GuardLookup, At, Goto, NoDeadEnd, Request
  <2>2. CASE Respond(r) \/ DbError(r)
    BY <1>0, <2>2, AnswerEnds DEF Respond, DbError
  <2>3. CASE SaveRefresh(r)
    BY <1>0, <2>3 DEF SaveRefresh, At, Request
  <2>4. CASE SaveAccess(r)
    BY <1>0, <2>4 DEF SaveAccess, At, Goto, Request
  <2>5. CASE RefreshLookup(r) \/ RefreshVerify(r)
    <3>1. \/ \E code : Answer(r, code)
          \/ req'[r].pc \in {"refreshVerify", "saveRefresh"}
      BY <1>0, <2>5 DEF RefreshLookup, RefreshVerify, Goto, Request
    <3>2. QED
      BY <1>0, <3>1, AnswerEnds
  <2>6. CASE GuardVerify(r) \/ LogoutLookup(r)
    <3>1. \/ \E code : Answer(r, code)
          \/ req'[r].pc \in {"logoutLookup", "logoutDelete"}
      BY <1>0, <2>6 DEF GuardVerify, LogoutLookup, Request
    <3>2. QED
      BY <1>0, <3>1, AnswerEnds
  <2>7. CASE \E kind \in Kinds : LogoutDelete(r, kind)
    <3>1. PICK kind \in Kinds : LogoutDelete(r, kind)
      BY <2>7
    <3>2. PICK code : Settle(r, kind, code)
      BY <3>1 DEF LogoutDelete, DeleteHit, DeleteMiss, DeleteError
    <3>3. req[r].pc = "logoutDelete"
      BY <3>1 DEF LogoutDelete, At
    <3>4. req'[r].pc \in {"idle", "logoutDelete"}
      BY <1>0, <3>2, <3>3 DEF Settle, NoRequest, Request
    <3>5. QED
      BY <3>4
  <2>8. QED
    BY <1>4, <2>1, <2>2, <2>3, <2>4, <2>5, <2>6, <2>7 DEF Serve
<1>5. ASSUME NEW q \in Requests, q # r, Arrive(q) \/ Serve(q) PROVE req'[r] = req[r]
  BY <1>5, OneRequestMoves DEF IInv
<1>6. CASE Crash
  BY <1>0, <1>6, <1>2, NoRequestType DEF Crash
<1>7. CASE Tick \/ UNCHANGED vars \/ \E id \in RowIds : TtlSweep(id)
  BY <1>2, <1>7 DEF Tick, TtlSweep, vars
<1>8. QED
  BY <1>2, <1>3, <1>4, <1>5, <1>6, <1>7 DEF Next

(* Every step of a request brings it nearer to its end, and nothing but a  *)
(* new request in its place takes it away from there.                      *)
RequestsDraw ==
    [][\A r \in Requests : /\ Serve(r) => StepsLeft(r)' < StepsLeft(r)
                           /\ Idle(r) \/ StepsLeft(r)' <= StepsLeft(r)]_vars

(* A request ends after at most five steps of its own, whatever the others *)
(* do meanwhile, and none of its stages is a dead end: what is left to     *)
(* EveryRequestEnds is that the calls it awaits settle.                    *)
THEOREM RequestsAreShort ==
    Spec => [](\A r \in Requests : NoDeadEnd(r) /\ StepsLeft(r) \in 0..5) /\ RequestsDraw
<1> DEFINE Ends == \A r \in Requests : NoDeadEnd(r)
           Left == \A r \in Requests : StepsLeft(r) \in 0..5
<1>1. Init => Ends
  BY DEF Init, NoRequest, NoDeadEnd
<1>2. Ends /\ IInv /\ IInv' /\ [Next]_vars => Ends'
  BY NoDeadEndStep
<1>3. IInv => Left
  BY StepsLeftIsNat DEF IInv, TypeOK, Request
<1>4. IInv /\ [Next]_vars =>
         [\A r \in Requests : /\ Serve(r) => StepsLeft(r)' < StepsLeft(r)
                              /\ Idle(r) \/ StepsLeft(r)' <= StepsLeft(r)]_vars
  BY ServeDraws, OnlyArrivalAdds
<1>5. Ends /\ Left <=> \A r \in Requests : NoDeadEnd(r) /\ StepsLeft(r) \in 0..5
  OBVIOUS
<1> HIDE DEF Ends, Left
<1>6. QED
  BY <1>1, <1>2, <1>3, <1>4, <1>5, Invariance, PTL DEF Spec, RequestsDraw

=============================================================================
