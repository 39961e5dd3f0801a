---------------------------- MODULE TokenService ----------------------------
(***************************************************************************)
(* TokenService, the AuthGuard in front of it and the routes of            *)
(* AuthController that reach it, served concurrently by one Node process   *)
(* over one database.                                                      *)
(*                                                                         *)
(* A request runs without interruption from one database call to the next: *)
(* each action is the execution of one awaited call by the database        *)
(* together with the synchronous code that resumes on its answer.  Between *)
(* two actions of a request any other request may run, the clock may       *)
(* advance, the TTL monitor may delete a row, the call may fail and the    *)
(* process may crash.                                                      *)
(***************************************************************************)
EXTENDS TokenRepository, FiniteSets

CONSTANTS
    Requests,   \* request slots: how many requests run at the same time
    MaxTime,    \* bound: the clock stops here
    TtlIndex    \* whether the migration that creates the TTL index was run

ASSUME MaxTimeAssumption == MaxTime \in Nat
ASSUME TtlAssumption     == TtlIndex \in BOOLEAN

VARIABLES
    now,        \* the clock, in ticks
    req,        \* req[r]: the request in slot r, see Request
    delivered,  \* the tokens that a response has handed to a client
    closed      \* history: the sessions whose logout was answered 204

vars == <<row, whitelist, now, req, delivered, closed>>

Ops == {"none", "sign", "refresh", "logout", "use"}

Pcs == {"idle", "guardLookup", "guardVerify", "saveRefresh", "saveAccess",
        "respond", "refreshLookup", "refreshVerify", "logoutLookup",
        "logoutDelete"}

Codes == {0, 200, 201, 204, 401, 404, 500}

(***************************************************************************)
(* The memory of a request.  status is the code of its response, 0 while   *)
(* there is none.  A logout that failed is answered while its other delete *)
(* is still running, so status may be set before pc is back to "idle".     *)
(***************************************************************************)
Request ==
    [pc      : Pcs,
     op      : Ops,
     user    : Users \cup {Null},     \* payload.id
     token   : Tokens \cup {Null},    \* the token presented by the client
     minted  : Int,                   \* when the new pair was minted
     expiry  : Int,                   \* expiredAt of the insert in flight
     saved   : RowIds \cup {Null},    \* _savedRefreshToken.id
     target  : RowIds \cup {Null},    \* logout: _accessToken.id
     pending : SUBSET Kinds,          \* logout: the deletes still running
     status  : Codes]

NoRequest ==
    [pc |-> "idle", op |-> "none", user |-> Null, token |-> Null,
     minted |-> 0, expiry |-> 0, saved |-> Null, target |-> Null,
     pending |-> {}, status |-> 0]

TypeOK ==
    /\ RepositoryTypeOK
    /\ now \in 0..MaxTime
    /\ req \in [Requests -> Request]
    /\ delivered \in SUBSET Tokens
    /\ closed \in SUBSET RowIds

Init ==
    /\ RepositoryInit
    /\ now = 0
    /\ req = [r \in Requests |-> NoRequest]
    /\ delivered = {}
    /\ closed = {}

-----------------------------------------------------------------------------
Idle(r)     == req[r].pc = "idle"
At(r, label) == req[r].pc = label

Goto(r, label) == req' = [req EXCEPT ![r].pc = label]

(* The response ends the request: only what it answered stays visible. *)
Answer(r, code) ==
    req' = [req EXCEPT ![r] = [NoRequest EXCEPT !.status = code]]

(* Bound: a request that may store a pair starts only when ids are left. *)
Saving(r) == ~Idle(r) /\ req[r].op \in {"sign", "refresh"}
RoomForPair ==
    Cardinality(Unused) >= 2 + 2 * Cardinality({r \in Requests : Saving(r)})

-----------------------------------------------------------------------------
(* tokenService.sign and the tail of refreshTokens: both tokens are minted *)
(* synchronously, then the refresh row is written, then the access row     *)
(* that points to it, then the pair is returned.                           *)

(* Mutant: the payload of the tokens is built without the id of the user. *)
SignWithoutId(r, u) ==
    /\ Idle(r)
    /\ RoomForPair
    /\ req' = [req EXCEPT ![r] = [NoRequest EXCEPT
                 !.pc = "saveRefresh", !.op = "sign",
                 !.minted = now, !.expiry = now + JwtExpRefresh]]
    /\ UNCHANGED <<db, now, delivered, closed>>

(* POST /auth/sign-in once the credentials are accepted. *)
Sign(r, u) ==
    /\ Idle(r)
    /\ RoomForPair
    /\ req' = [req EXCEPT ![r] = [NoRequest EXCEPT
                 !.pc = "saveRefresh", !.op = "sign", !.user = u,
                 !.minted = now, !.expiry = now + JwtExpRefresh]]
    /\ UNCHANGED <<db, now, delivered, closed>>

(* Mutant: the insert of the access row is not awaited. *)
SaveRefreshThenRespond(r) ==
    /\ At(r, "saveRefresh")
    /\ SaveRefreshTokenToWhitelist(req[r].user,
         RefreshToken(req[r].user, req[r].minted), req[r].expiry)
    /\ Goto(r, "respond")
    /\ UNCHANGED <<now, delivered, closed>>

SaveRefresh(r) ==
    /\ At(r, "saveRefresh")
    /\ SaveRefreshTokenToWhitelist(req[r].user,
         RefreshToken(req[r].user, req[r].minted), req[r].expiry)
    /\ req' = [req EXCEPT ![r] = [@ EXCEPT
         !.pc = "saveAccess", !.saved = NewId,
         !.expiry = now + JwtExpAccess]]
    /\ UNCHANGED <<now, delivered, closed>>

(* Mutant: _savedRefreshToken is a field of the service, which all requests *)
(* share, and may be the row of another request by now.                     *)
SaveAccessSharedField(r) ==
    /\ At(r, "saveAccess")
    /\ \E s \in Created :
         /\ row[s].refreshToken # Null
         /\ SaveAccessTokenToWhitelist(req[r].user, s,
              AccessToken(req[r].user, req[r].minted), req[r].expiry)
    /\ Goto(r, "respond")
    /\ UNCHANGED <<now, delivered, closed>>

SaveAccess(r) ==
    /\ At(r, "saveAccess")
    /\ SaveAccessTokenToWhitelist(req[r].user, req[r].saved,
         AccessToken(req[r].user, req[r].minted), req[r].expiry)
    /\ Goto(r, "respond")
    /\ UNCHANGED <<now, delivered, closed>>

(* 201 with the pair.  The response may be lost on its way. *)
Respond(r) ==
    /\ At(r, "respond")
    /\ Answer(r, 201)
    /\ \/ delivered' = delivered \cup
                         {AccessToken(req[r].user, req[r].minted),
                          RefreshToken(req[r].user, req[r].minted)}
       \/ UNCHANGED delivered
    /\ UNCHANGED <<db, now, closed>>

-----------------------------------------------------------------------------
(* POST /auth/token/refresh: the presented row is checked and kept. *)

Refresh(r, tok) ==
    /\ Idle(r)
    /\ RoomForPair
    /\ req' = [req EXCEPT ![r] = [NoRequest EXCEPT
                 !.pc = "refreshLookup", !.op = "refresh", !.token = tok]]
    /\ UNCHANGED <<db, now, delivered, closed>>

RefreshLookup(r) ==
    /\ At(r, "refreshLookup")
    /\ IF GetRefreshTokenFromWhitelist(req[r].token) # {}
         THEN Goto(r, "refreshVerify")
         ELSE Answer(r, 401)
    /\ UNCHANGED <<db, now, delivered, closed>>

(* verifyAsync rejects with a JsonWebTokenError, which no filter knows: 500. *)
RefreshVerify(r) ==
    /\ At(r, "refreshVerify")
    /\ IF Verifies(req[r].token, "refresh", now)
         THEN req' = [req EXCEPT ![r] = [@ EXCEPT
                        !.pc = "saveRefresh", !.user = req[r].token.user,
                        !.minted = now, !.expiry = now + JwtExpRefresh]]
         ELSE Answer(r, 500)
    /\ UNCHANGED <<db, now, delivered, closed>>

-----------------------------------------------------------------------------
(* AuthGuard: whitelist lookup, then verification.  A request behind the   *)
(* guard is a logout or the use of any other route.                        *)

Present(r, op, tok) ==
    /\ Idle(r)
    /\ req' = [req EXCEPT ![r] = [NoRequest EXCEPT
                 !.pc = "guardLookup", !.op = op, !.token = tok]]
    /\ UNCHANGED <<db, now, delivered, closed>>

(* Mutant: the usual JWT guard, which trusts the signature alone. *)
GuardLookupSkipped(r) ==
    /\ At(r, "guardLookup")
    /\ Goto(r, "guardVerify")
    /\ UNCHANGED <<db, now, delivered, closed>>

GuardLookup(r) ==
    /\ At(r, "guardLookup")
    /\ IF GetAccessTokenFromWhitelist(req[r].token) # {}
         THEN Goto(r, "guardVerify")
         ELSE Answer(r, 401)
    /\ UNCHANGED <<db, now, delivered, closed>>

GuardVerify(r) ==
    /\ At(r, "guardVerify")
    /\ \/ ~Verifies(req[r].token, "access", now) /\ Answer(r, 401)
       \/ /\ Verifies(req[r].token, "access", now)
          /\ req[r].op = "use"
          /\ Answer(r, 200)
       \/ /\ Verifies(req[r].token, "access", now)
          /\ req[r].op = "logout"
          /\ req' = [req EXCEPT ![r] = [@ EXCEPT
                       !.pc = "logoutLookup", !.user = req[r].token.user]]
    /\ UNCHANGED <<db, now, delivered, closed>>

-----------------------------------------------------------------------------
(* POST /auth/logout behind the guard. *)

(* findFirst returns one matching row; on null, reading its id throws: 500. *)
LogoutLookup(r) ==
    /\ At(r, "logoutLookup")
    /\ LET found == GetUserAccessTokenFromWhitelist(req[r].user, req[r].token)
       IN \/ \E id \in found :
               req' = [req EXCEPT ![r] = [@ EXCEPT
                 !.pc = "logoutDelete", !.target = id, !.pending = Kinds]]
          \/ found = {} /\ Answer(r, 500)
    /\ UNCHANGED <<db, now, delivered, closed>>

(* The row that the delete of this kind names. *)
Victim(r, kind) ==
    IF kind = "access" THEN req[r].target
                       ELSE row[req[r].target].refreshTokenId

(* Mutant: Promise.race, the first delete to settle decides. *)
OutcomeOfRace(r, kind, code) ==
    IF req[r].status # 0 THEN req[r].status ELSE code

(* Promise.all: 204 when both deletes have succeeded, the code of the first *)
(* failure at once when one fails; the other delete keeps running.          *)
Outcome(r, kind, code) ==
    IF req[r].status # 0 THEN req[r].status
    ELSE IF code = 204 /\ req[r].pending # {kind} THEN 0 ELSE code

(* Mutant: a delete that failed is tried again until it succeeds. *)
SettleWithRetries(r, kind, code) ==
    req' = [req EXCEPT ![r] =
      IF code # 204 THEN @
      ELSE IF req[r].pending = {kind}
        THEN [NoRequest EXCEPT !.status = Outcome(r, kind, code),
                               !.target = req[r].target]
        ELSE [req[r] EXCEPT !.status = Outcome(r, kind, code),
                            !.pending = req[r].pending \ {kind}]]

Settle(r, kind, code) ==
    req' = [req EXCEPT ![r] =
      IF req[r].pending = {kind}
        THEN [NoRequest EXCEPT !.status = Outcome(r, kind, code),
                               !.target = req[r].target]
        ELSE [req[r] EXCEPT !.status = Outcome(r, kind, code),
                            !.pending = req[r].pending \ {kind}]]

DeleteHit(r, kind) ==
    /\ DeleteFromWhitelist(Victim(r, kind))
    /\ Settle(r, kind, 204)
    /\ closed' = IF Outcome(r, kind, 204) = 204
                   THEN closed \cup {Victim(r, "refresh")} ELSE closed

(* Mutant: deleteMany, which does not mind that there is nothing to delete. *)
DeleteMissIgnored(r, kind) ==
    /\ Missing(Victim(r, kind))
    /\ Settle(r, kind, 204)
    /\ UNCHANGED closed

DeleteMiss(r, kind) ==
    /\ Missing(Victim(r, kind))
    /\ Settle(r, kind, 404)
    /\ UNCHANGED closed

(* The call fails, before or after the database has executed it. *)
DeleteError(r, kind) ==
    /\ UNCHANGED row
    /\ whitelist' \in {whitelist, whitelist \ {Victim(r, kind)}}
    /\ Settle(r, kind, 500)
    /\ UNCHANGED closed

LogoutDelete(r, kind) ==
    /\ At(r, "logoutDelete")
    /\ kind \in req[r].pending
    /\ DeleteHit(r, kind) \/ DeleteMiss(r, kind) \/ DeleteError(r, kind)
    /\ UNCHANGED <<now, delivered>>

-----------------------------------------------------------------------------
(* A lookup or an insert fails: the guard turns every error into 401, the  *)
(* handlers let it become 500.  An insert that fails after it was executed *)
(* is an insert followed by the failure of the next step.                  *)
DbError(r) ==
    /\ \/ At(r, "guardLookup") /\ Answer(r, 401)
       \/ /\ req[r].pc \in {"refreshLookup", "logoutLookup",
                            "saveRefresh", "saveAccess", "respond"}
          /\ Answer(r, 500)
    /\ UNCHANGED <<db, now, delivered, closed>>

(* The process dies: the requests in flight are never answered. *)
Crash ==
    /\ \E r \in Requests : ~Idle(r)
    /\ req' = [r \in Requests |-> IF Idle(r) THEN req[r] ELSE NoRequest]
    /\ UNCHANGED <<db, now, delivered, closed>>

Tick ==
    /\ now < MaxTime
    /\ now' = now + 1
    /\ UNCHANGED <<db, req, delivered, closed>>

TtlSweep(id) ==
    /\ TtlIndex
    /\ TtlExpired(id, now)
    /\ whitelist' = whitelist \ {id}
    /\ UNCHANGED <<row, now, req, delivered, closed>>

-----------------------------------------------------------------------------
Arrive(r) ==
    \/ \E u \in Users : Sign(r, u)
    \/ \E tok \in delivered :
         Refresh(r, tok) \/ Present(r, "use", tok) \/ Present(r, "logout", tok)

Serve(r) ==
    \/ SaveRefresh(r) \/ SaveAccess(r) \/ Respond(r)
    \/ RefreshLookup(r) \/ RefreshVerify(r)
    \/ GuardLookup(r) \/ GuardVerify(r)
    \/ LogoutLookup(r) \/ (\E kind \in Kinds : LogoutDelete(r, kind))
    \/ DbError(r)

Next ==
    \/ \E r \in Requests : Arrive(r) \/ Serve(r)
    \/ \E id \in RowIds : TtlSweep(id)
    \/ Crash
    \/ Tick

Spec == Init /\ [][Next]_vars

(* Every awaited call settles, the clock runs, mongod runs its TTL monitor. *)
Fairness ==
    /\ \A r \in Requests : WF_vars(Serve(r))
    /\ \A id \in RowIds : WF_vars(TtlSweep(id))
    /\ WF_vars(Tick)

FairSpec == Spec /\ Fairness

-----------------------------------------------------------------------------
(* A session is named by its refresh row. *)

AccessRowsOf(s) == {a \in Created : row[a].refreshTokenId = s}

RefreshStage(s) ==
    IF s \notin Created \/ row[s].refreshToken = Null THEN "none"
    ELSE IF s \in whitelist THEN "valid" ELSE "revoked"

AccessStage(s) ==
    LET rows == AccessRowsOf(s)
    IN  IF rows = {} THEN "none"
        ELSE IF rows \cap whitelist # {} THEN "valid" ELSE "revoked"

Owner(s) == IF RefreshStage(s) = "none" THEN Null ELSE row[s].userId

Lifecycle == INSTANCE SessionLifecycle WITH
    Sessions <- RowIds,
    refresh  <- [s \in RowIds |-> RefreshStage(s)],
    access   <- [s \in RowIds |-> AccessStage(s)],
    owner    <- [s \in RowIds |-> Owner(s)]

(* The whitelist implements the life cycle of sessions: capabilities are   *)
(* granted once, in order, and never return; a 204 closes a session once.  *)
ImplementsLifecycle == Lifecycle!Spec

-----------------------------------------------------------------------------
(* Safety. *)

Linked(a) ==
    LET s == row[a].refreshTokenId
    IN  /\ s \in Created
        /\ row[s].refreshToken = [row[a].accessToken EXCEPT !.kind = "refresh"]
        /\ row[s].userId = row[a].userId
        /\ row[a].accessToken.user = row[a].userId
        /\ AccessRowsOf(s) = {a}

(* Every access row points to the refresh row that was stored just before  *)
(* it by the same sign-in or refresh (same user, same second of minting),  *)
(* and no two access rows share a refresh row: logout can follow           *)
(* refreshTokenId without ending somebody else's session.                  *)
PairsAreLinked ==
    \A a \in Created : row[a].accessToken # Null => Linked(a)

(* Once a logout was answered 204, neither row of its session is in the    *)
(* whitelist, whatever other logouts, refreshes, sweeps, database errors   *)
(* and crashes happened in between: "should delete tokens from whitelist". *)
ClosedSessionsHaveNoRows ==
    \A s \in closed :
        /\ s \in Created \ whitelist
        /\ AccessRowsOf(s) # {} /\ AccessRowsOf(s) \cap whitelist = {}

(* Of the logouts that race for one session, at most one is answered 204:  *)
(* each of the two deletes succeeds for one of them only.                  *)
OneLogoutWins ==
    \A r1, r2 \in Requests :
        /\ r1 # r2
        /\ req[r1].status = 204 /\ req[r2].status = 204
        => req[r1].target # req[r2].target

(* A client never holds a token that was not stored first, and never half  *)
(* of a pair: for each token it was given, a row of the token's user was   *)
(* inserted, and the row of the other half of the pair as well.            *)
DeliveredPairsWereStored ==
    \A tok \in delivered : \E a, s \in Created :
        /\ row[a].refreshTokenId = s
        /\ row[a].userId = tok.user /\ row[s].userId = tok.user
        /\ row[a].accessToken  = [tok EXCEPT !.kind = "access"]
        /\ row[s].refreshToken = [tok EXCEPT !.kind = "refresh"]

PassesWhileOpen(r) ==
    /\ At(r, "guardLookup") /\ At(r, "guardVerify")' =>
         \E s \in Created \ closed : \E a \in AccessRowsOf(s) :
           row[a].accessToken = req[r].token
    /\ At(r, "refreshLookup") /\ At(r, "refreshVerify")' =>
         \E s \in Created \ closed : row[s].refreshToken = req[r].token

(* A lookup lets a token pass, at the guard or at token/refresh, only if   *)
(* some session that carries the token has not been logged out.            *)
LoggedOutTokensDoNotPass == [][\A r \in Requests : PassesWhileOpen(r)]_vars

LoggedOutByOwner(id) ==
    \E r \in Requests :
        /\ req[r].op = "logout" /\ req[r].pc = "logoutDelete"
        /\ req[r].token.user = row[id].userId
        /\ \E a \in Created : /\ row[a].accessToken = req[r].token
                               /\ id \in {a, row[a].refreshTokenId}

RemovalsAreJustified ==
    \A id \in whitelist \ whitelist' :
        row[id].expiredAt <= now \/ LoggedOutByOwner(id)

(* A row leaves the whitelist only when it has expired, or by a logout     *)
(* that presented the access token of its pair and belongs to its user.    *)
OnlyOwnerOrExpiryRemoves == [][RemovalsAreJustified]_vars

-----------------------------------------------------------------------------
(* Liveness, under Fairness. *)

(* Every request ends, also a logout whose second delete outlives its      *)
(* response.                                                               *)
EveryRequestEnds == \A r \in Requests : ~Idle(r) ~> Idle(r)

(* README: expired tokens are deleted from the database automatically.     *)
ExpiredRowsAreSwept ==
    \A id \in RowIds :
        (id \in whitelist /\ row[id].expiredAt <= MaxTime)
            ~> id \notin whitelist

-----------------------------------------------------------------------------
(* Statements of the repository that the code does not keep. *)

(* e2e auth-logout: after a logout answered 204 its access token is        *)
(* refused.                                                                *)
LoggedOutTokenIsRefused ==
    [][\A r \in Requests : \A s \in closed : \A a \in AccessRowsOf(s) :
        At(r, "guardLookup") /\ req[r].token = row[a].accessToken
            => ~At(r, "guardVerify")']_vars

(* jwt.config: an access token lives for jwtExpAccessToken milliseconds    *)
(* ("5m"): the signature check refuses it once they are over, give or take *)
(* the second in which it was signed.                                      *)
AccessTokenLivesAsConfigured ==
    [][\A r \in Requests :
        /\ At(r, "guardVerify")
        /\ now >= (req[r].token.iat + 1) * TicksPerSecond + JwtExpAccess
        => req[r].status' # 200]_vars
=============================================================================
