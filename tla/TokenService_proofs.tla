------------------------ MODULE TokenService_proofs ------------------------
(***************************************************************************)
(* Proofs about TokenService, for any sets of users, row ids and requests  *)
(* and any expiry times.  The bound RoomForPair plays no part in them.     *)
(***************************************************************************)
EXTENDS TokenService, TLAPS

(***************************************************************************)
(* The inductive invariant.  A row is either a refresh row or an access    *)
(* row; what a request remembers of the database between two calls is      *)
(* still true when it resumes; no two requests are about to attach an      *)
(* access row to the same refresh row.                                     *)
(***************************************************************************)
RowsOK ==
    \A id \in Created :
        \/ /\ row[id].accessToken = Null /\ row[id].refreshTokenId = Null
           /\ row[id].refreshToken \in Tokens
        \/ /\ row[id].refreshToken = Null /\ row[id].refreshTokenId \in RowIds
           /\ row[id].accessToken \in Tokens

Minting(r) ==
    req[r].pc \in {"saveRefresh", "saveAccess", "respond"} =>
        req[r].user \in Users

Presenting(r) ==
    /\ req[r].pc \in {"refreshLookup", "refreshVerify", "guardLookup",
                      "guardVerify", "logoutLookup", "logoutDelete"} =>
         req[r].token \in Tokens
    /\ req[r].pc \in {"logoutLookup", "logoutDelete"} =>
         req[r].op = "logout" /\ req[r].user = req[r].token.user

Attaching(r) ==
    req[r].pc = "saveAccess" =>
        /\ req[r].saved \in Created
        /\ row[req[r].saved].userId = req[r].user
        /\ row[req[r].saved].refreshToken =
             RefreshToken(req[r].user, req[r].minted)
        /\ \A a \in Created : row[a].refreshTokenId # req[r].saved

Attached(r) ==
    req[r].pc = "respond" => \E a, s \in Created :
        /\ row[a].refreshTokenId = s
        /\ row[a].userId = req[r].user /\ row[s].userId = req[r].user
        /\ row[a].accessToken = AccessToken(req[r].user, req[r].minted)
        /\ row[s].refreshToken = RefreshToken(req[r].user, req[r].minted)

Deleting(r) ==
    req[r].pc = "logoutDelete" =>
        /\ req[r].target \in Created
        /\ row[req[r].target].accessToken = req[r].token
        /\ req[r].pending # {}
        /\ req[r].status # 204
        /\ req[r].status = 0 /\ "access" \notin req[r].pending =>
             req[r].target \notin whitelist
        /\ req[r].status = 0 /\ "refresh" \notin req[r].pending =>
             row[req[r].target].refreshTokenId \notin whitelist

(* A logout answered 204 is idle, and its session is closed. *)
LoggedOut(r) ==
    req[r].status = 204 =>
        /\ req[r].pc = "idle"
        /\ req[r].target \in Created
        /\ row[req[r].target].accessToken # Null
        /\ row[req[r].target].refreshTokenId \in closed

(* Only a logout whose deletes still run may have been answered already. *)
Unanswered(r) ==
    req[r].pc \notin {"idle", "logoutDelete"} => req[r].status = 0

RequestOK(r) ==
    /\ Unanswered(r)
    /\ Minting(r) /\ Presenting(r) /\ Attaching(r) /\ Attached(r)
    /\ Deleting(r) /\ LoggedOut(r)

SavedDistinct ==
    \A q, r \in Requests :
        /\ q # r
        /\ req[q].pc = "saveAccess" /\ req[r].pc = "saveAccess"
        => req[q].saved # req[r].saved

DataInv ==
    /\ RowsOK /\ PairsAreLinked
    /\ ClosedSessionsHaveNoRows /\ DeliveredPairsWereStored

IInv ==
    /\ TypeOK /\ DataInv
    /\ \A r \in Requests : RequestOK(r)
    /\ SavedDistinct /\ OneLogoutWins

-----------------------------------------------------------------------------
(* Tokens, identifiers and documents. *)

(* A generated id was not in use. *)
LEMMA NewIdIsUnused ==
    ASSUME Unused # {}
    PROVE  NewId \in RowIds /\ row[NewId] = Null
<1>1. PICK id \in RowIds : row[id] = Null
  BY DEF Unused
<1>2. QED
  BY <1>1 DEF NewId

(* A minted pair is two tokens of one user that differ in their kind only. *)
LEMMA MintedTokens ==
    ASSUME NEW u \in Users, NEW t \in Int
    PROVE  /\ AccessToken(u, t) \in Tokens /\ RefreshToken(u, t) \in Tokens
           /\ AccessToken(u, t).user = u /\ RefreshToken(u, t).user = u
           /\ AccessToken(u, t).kind = "access"
           /\ RefreshToken(u, t).kind = "refresh"
           /\ RefreshToken(u, t) = [AccessToken(u, t) EXCEPT !.kind = "refresh"]
           /\ AccessToken(u, t) = [RefreshToken(u, t) EXCEPT !.kind = "access"]
           /\ AccessToken(u, t) = [AccessToken(u, t) EXCEPT !.kind = "access"]
           /\ RefreshToken(u, t) = [RefreshToken(u, t) EXCEPT !.kind = "refresh"]
<1>1. Second(t) \in Int
  BY TicksAssumption DEF Second
<1>2. QED
  BY <1>1 DEF AccessToken, RefreshToken, Tokens, Kinds

(* An insert adds one document under a new id and changes no other. *)
LEMMA InsertEffect ==
    ASSUME RepositoryTypeOK, NEW doc \in Rows, Insert(doc)
    PROVE  /\ NewId \in RowIds \ Created
           /\ Created' = Created \cup {NewId}
           /\ row'[NewId] = doc
           /\ \A id \in RowIds : id # NewId => row'[id] = row[id]
           /\ whitelist' = whitelist \cup {NewId}
           /\ RepositoryTypeOK'
  BY NewIdIsUnused, NullAssumption DEF RepositoryTypeOK, Insert, Created

-----------------------------------------------------------------------------
(* Initial states. *)

LEMMA NoRequestType ==
    /\ NoRequest \in Request
    /\ NoRequest.pc = "idle" /\ NoRequest.status = 0
  BY DEF NoRequest, Request, Pcs, Ops, Codes

LEMMA InitIInv == Init => IInv
<1> SUFFICES ASSUME Init PROVE IInv
  OBVIOUS
<1>1. Created = {} /\ whitelist = {} /\ closed = {} /\ delivered = {}
  BY DEF Init, RepositoryInit, Created
<1>2. TypeOK
  BY <1>1, NoRequestType, MaxTimeAssumption
  DEF Init, TypeOK, RepositoryInit, RepositoryTypeOK
<1>3. DataInv
  BY <1>1 DEF DataInv, RowsOK, PairsAreLinked, ClosedSessionsHaveNoRows,
              DeliveredPairsWereStored
<1>4. \A r \in Requests : req[r].pc = "idle" /\ req[r].status = 0
  BY DEF Init, NoRequest
<1>5. \A r \in Requests : RequestOK(r)
  BY <1>4 DEF RequestOK, Unanswered, Minting, Presenting, Attaching, Attached,
              Deleting, LoggedOut
<1>6. SavedDistinct /\ OneLogoutWins
  BY <1>4 DEF SavedDistinct, OneLogoutWins
<1>7. QED
  BY <1>2, <1>3, <1>5, <1>6 DEF IInv

-----------------------------------------------------------------------------
(* What other steps leave true of a request that does not move. *)

LEMMA RequestStable ==
    ASSUME IInv, NEW q \in Requests, req'[q] = req[q],
           Created \subseteq Created',
           \A id \in Created : row'[id] = row[id],
           \A id \in Created : id \in whitelist' => id \in whitelist,
           closed \subseteq closed',
           req[q].pc = "saveAccess" =>
             \A a \in Created' \ Created :
               row'[a].refreshTokenId # req[q].saved
    PROVE  RequestOK(q)'
<1>1. RequestOK(q)
  BY DEF IInv
<1>2. Minting(q)' /\ Presenting(q)'
  BY <1>1 DEF RequestOK, Unanswered, Minting, Presenting
<1>3. Attaching(q)'
  BY <1>1 DEF RequestOK, Attaching
<1>4. Attached(q)'
  BY <1>1 DEF RequestOK, Attached
<1>5. Deleting(q)'
  <2>1. req[q].pc = "logoutDelete" =>
          row[req[q].target].refreshTokenId \in Created
    <3> SUFFICES ASSUME req[q].pc = "logoutDelete"
                 PROVE  row[req[q].target].refreshTokenId \in Created
      OBVIOUS
    <3>1. /\ req[q].target \in Created
          /\ row[req[q].target].accessToken \in Tokens
      BY <1>1 DEF RequestOK, Deleting, Presenting
    <3>2. row[req[q].target].accessToken # Null
      BY <3>1, NullAssumption
    <3>3. PairsAreLinked
      BY DEF IInv, DataInv
    <3>4. QED BY <3>1, <3>2, <3>3 DEF PairsAreLinked, Linked
  <2>2. QED BY <1>1, <2>1 DEF RequestOK, Deleting
<1>6. LoggedOut(q)' /\ Unanswered(q)'
  BY <1>1 DEF RequestOK, LoggedOut, Unanswered
<1>7. QED
  BY <1>2, <1>3, <1>4, <1>5, <1>6 DEF RequestOK

(* The data invariant is a statement about rows, ids and handed-out tokens. *)
LEMMA DataFrozen ==
    ASSUME DataInv, UNCHANGED <<db, closed, delivered>>
    PROVE  DataInv'
<1>1. Created' = Created
  BY DEF Created, db
<1>2. UNCHANGED <<row, whitelist, closed, delivered>>
  BY DEF db
<1>3. \A s : AccessRowsOf(s)' = AccessRowsOf(s)
  BY <1>1, <1>2 DEF AccessRowsOf
<1>4. RowsOK'
  BY <1>1, <1>2 DEF DataInv, RowsOK
<1>5. PairsAreLinked'
  BY <1>1, <1>2, <1>3 DEF DataInv, PairsAreLinked, Linked
<1>6. ClosedSessionsHaveNoRows'
  BY <1>1, <1>2, <1>3 DEF DataInv, ClosedSessionsHaveNoRows
<1>7. DeliveredPairsWereStored'
  BY <1>1, <1>2 DEF DataInv, DeliveredPairsWereStored
<1>8. QED
  BY <1>4, <1>5, <1>6, <1>7 DEF DataInv

(* A step in which r is the only request that moves. *)
Moves(r) ==
    /\ req' \in [Requests -> Request]
    /\ \A q \in Requests : q # r => req'[q] = req[q]

LEMMA MovesTo ==
    ASSUME TypeOK, NEW r \in Requests, NEW x \in Request,
           req' = [req EXCEPT ![r] = x]
    PROVE  Moves(r) /\ req'[r] = x
  BY DEF Moves, TypeOK

LEMMA OthersStay ==
    ASSUME SavedDistinct, OneLogoutWins, NEW r \in Requests, Moves(r),
           req'[r].pc # "saveAccess", req'[r].status # 204
    PROVE  SavedDistinct' /\ OneLogoutWins'
<1>1. \A q \in Requests : q # r => req'[q] = req[q]
  BY DEF Moves
<1>2. SavedDistinct'
  BY <1>1 DEF SavedDistinct
<1>3. OneLogoutWins'
  BY <1>1 DEF OneLogoutWins
<1>4. QED BY <1>2, <1>3

(* A step that only moves one request, to a state that remembers nothing   *)
(* false and neither attaches an access row nor reports a logout.          *)
LEMMA QuietStep ==
    ASSUME IInv, NEW r \in Requests,
           Moves(r),
           UNCHANGED <<db, now, delivered, closed>>,
           req'[r].pc # "saveAccess", req'[r].status # 204,
           RequestOK(r)'
    PROVE  IInv'
<1>1. /\ req' \in [Requests -> Request]
      /\ \A q \in Requests : q # r => req'[q] = req[q]
  BY DEF Moves
<1>2. UNCHANGED <<row, whitelist, now, delivered, closed>> /\ Created' = Created
  BY DEF db, Created
<1>3. TypeOK'
  BY <1>1, <1>2 DEF IInv, TypeOK, RepositoryTypeOK
<1>4. DataInv'
  BY DataFrozen DEF IInv
<1>5. \A q \in Requests : RequestOK(q)'
  BY <1>1, <1>2, RequestStable
<1>6. SavedDistinct' /\ OneLogoutWins'
  BY OthersStay DEF IInv
<1>7. QED
  BY <1>3, <1>4, <1>5, <1>6 DEF IInv

(* Every answer of Answer but a 204 is such a step. *)
LEMMA AnswerStep ==
    ASSUME IInv, NEW r \in Requests, NEW code \in {200, 201, 401, 404, 500},
           Answer(r, code), UNCHANGED <<db, now, delivered, closed>>
    PROVE  IInv'
<1> DEFINE x == [NoRequest EXCEPT !.status = code]
<1>1. x \in Request /\ x.pc = "idle" /\ x.status = code
  BY DEF NoRequest, Request, Pcs, Ops, Codes
<1>2. Moves(r) /\ req'[r] = x
  BY <1>1, MovesTo DEF Answer, IInv
<1> HIDE DEF x
<1>3. RequestOK(r)'
  BY <1>1, <1>2 DEF RequestOK, Unanswered, Minting, Presenting, Attaching,
                    Attached, Deleting, LoggedOut
<1>4. QED
  BY <1>1, <1>2, <1>3, QuietStep

-----------------------------------------------------------------------------
(* The steps that leave the database alone. *)

LEMMA SignStep ==
    ASSUME IInv, NEW r \in Requests, NEW u \in Users, Sign(r, u)
    PROVE  IInv'
<1> DEFINE x == [NoRequest EXCEPT !.pc = "saveRefresh", !.op = "sign",
                   !.user = u, !.minted = now, !.expiry = now + JwtExpRefresh]
<1>1. now \in Int /\ now + JwtExpRefresh \in Int
  BY MaxTimeAssumption, ExpAssumption DEF IInv, TypeOK
<1>2. /\ x \in Request /\ x.pc = "saveRefresh" /\ x.status = 0 /\ x.user = u
  BY <1>1, NoRequestType DEF Request, Pcs, Ops
<1>3. req' = [req EXCEPT ![r] = x] /\ UNCHANGED <<db, now, delivered, closed>>
  BY DEF Sign
<1> HIDE DEF x
<1>4. Moves(r) /\ req'[r] = x
  BY <1>2, <1>3 DEF Moves, IInv, TypeOK
<1>5. RequestOK(r)'
  BY <1>2, <1>4 DEF RequestOK, Unanswered, Minting, Presenting, Attaching,
                    Attached, Deleting, LoggedOut
<1>6. QED
  BY <1>2, <1>3, <1>4, <1>5, QuietStep

(* A request that holds a token and has seen no row yet. *)
LEMMA HoldingToken ==
    ASSUME IInv, NEW r \in Requests, Moves(r),
           UNCHANGED <<db, now, delivered, closed>>,
           req'[r].pc \in {"refreshLookup", "refreshVerify", "guardLookup",
                           "guardVerify"},
           req'[r].token \in Tokens, req'[r].status = 0
    PROVE  IInv'
<1>1. RequestOK(r)'
  BY DEF RequestOK, Unanswered, Minting, Presenting, Attaching, Attached,
         Deleting, LoggedOut
<1>2. QED
  BY <1>1, QuietStep

LEMMA ArriveWithToken ==
    ASSUME TypeOK, NEW r \in Requests, NEW tok \in Tokens,
           NEW label \in {"refreshLookup", "guardLookup"},
           NEW act \in {"refresh", "use", "logout"},
           req' = [req EXCEPT ![r] = [NoRequest EXCEPT
                     !.pc = label, !.op = act, !.token = tok]]
    PROVE  Moves(r) /\ req'[r].pc = label /\ req'[r].token = tok
                    /\ req'[r].status = 0
<1> DEFINE x == [NoRequest EXCEPT !.pc = label, !.op = act, !.token = tok]
<1>1. label \in Pcs /\ act \in Ops
  BY DEF Pcs, Ops
<1>2. x \in Request /\ x.pc = label /\ x.status = 0 /\ x.token = tok
  BY <1>1, NoRequestType DEF Request
<1>3. req' = [req EXCEPT ![r] = x]
  OBVIOUS
<1> HIDE DEF x
<1>4. Moves(r) /\ req'[r] = x
  BY <1>2, <1>3 DEF Moves, TypeOK
<1>5. QED
  BY <1>2, <1>4

LEMMA RefreshStep ==
    ASSUME IInv, NEW r \in Requests, NEW tok \in delivered, Refresh(r, tok)
    PROVE  IInv'
<1>1. tok \in Tokens /\ TypeOK
  BY DEF IInv, TypeOK
<1>2. Moves(r) /\ req'[r].pc = "refreshLookup" /\ req'[r].token = tok
               /\ req'[r].status = 0
  BY <1>1, ArriveWithToken DEF Refresh
<1>3. QED
  BY <1>1, <1>2, HoldingToken DEF Refresh

LEMMA PresentStep ==
    ASSUME IInv, NEW r \in Requests, NEW tok \in delivered,
           NEW act \in {"use", "logout"}, Present(r, act, tok)
    PROVE  IInv'
<1>1. tok \in Tokens /\ TypeOK
  BY DEF IInv, TypeOK
<1>2. Moves(r) /\ req'[r].pc = "guardLookup" /\ req'[r].token = tok
               /\ req'[r].status = 0
  BY <1>1, ArriveWithToken DEF Present
<1>3. QED
  BY <1>1, <1>2, HoldingToken DEF Present

(* Goto changes the label only. *)
LEMMA GotoMoves ==
    ASSUME TypeOK, NEW r \in Requests, NEW label \in Pcs, Goto(r, label)
    PROVE  /\ Moves(r)
           /\ req'[r] = [req[r] EXCEPT !.pc = label]
           /\ req'[r].pc = label
  BY DEF Goto, Moves, TypeOK, Request

LEMMA RefreshLookupStep ==
    ASSUME IInv, NEW r \in Requests, RefreshLookup(r)
    PROVE  IInv'
<1>1. CASE Answer(r, 401)
  BY <1>1, AnswerStep DEF RefreshLookup
<1>2. CASE Goto(r, "refreshVerify")
  <2>1. /\ Moves(r) /\ req'[r] = [req[r] EXCEPT !.pc = "refreshVerify"]
        /\ req'[r].pc = "refreshVerify"
    BY <1>2, GotoMoves DEF IInv, Pcs
  <2>2. req[r] \in Request /\ req[r].token \in Tokens
    BY DEF IInv, TypeOK, RequestOK, Presenting, RefreshLookup, At
  <2>3. req[r].status = 0
    BY DEF IInv, RequestOK, Unanswered, RefreshLookup, At
  <2>4. QED
    BY <2>1, <2>2, <2>3, HoldingToken DEF RefreshLookup, Request
<1>3. QED
  BY <1>1, <1>2 DEF RefreshLookup

LEMMA RefreshVerifyStep ==
    ASSUME IInv, NEW r \in Requests, RefreshVerify(r)
    PROVE  IInv'
<1>1. CASE Answer(r, 500)
  BY <1>1, AnswerStep DEF RefreshVerify
<1>2. CASE req' = [req EXCEPT ![r] = [@ EXCEPT
                     !.pc = "saveRefresh", !.user = req[r].token.user,
                     !.minted = now, !.expiry = now + JwtExpRefresh]]
  <2> DEFINE u == req[r].token.user
             x == [req[r] EXCEPT !.pc = "saveRefresh", !.user = u,
                     !.minted = now, !.expiry = now + JwtExpRefresh]
  <2>1. now \in Int /\ now + JwtExpRefresh \in Int
    BY MaxTimeAssumption, ExpAssumption DEF IInv, TypeOK
  <2>2. req[r] \in Request /\ req[r].token \in Tokens /\ req[r].status = 0
    BY DEF IInv, TypeOK, RequestOK, Unanswered, Presenting, RefreshVerify, At
  <2>3. u \in Users
    BY <2>2 DEF Tokens
  <2>4. x \in Request /\ x.pc = "saveRefresh" /\ x.status = 0 /\ x.user = u
    BY <2>1, <2>2, <2>3 DEF Request, Pcs
  <2>5. req' = [req EXCEPT ![r] = x]
    BY <1>2
  <2> HIDE DEF x, u
  <2>6. Moves(r) /\ req'[r] = x
    BY <2>4, <2>5 DEF Moves, IInv, TypeOK
  <2>7. RequestOK(r)'
    BY <2>3, <2>4, <2>6
    DEF RequestOK, Unanswered, Minting, Presenting, Attaching, Attached,
        Deleting, LoggedOut
  <2>8. QED
    BY <2>4, <2>6, <2>7, QuietStep DEF RefreshVerify
<1>3. QED
  BY <1>1, <1>2 DEF RefreshVerify

LEMMA GuardLookupStep ==
    ASSUME IInv, NEW r \in Requests, GuardLookup(r)
    PROVE  IInv'
<1>1. CASE Answer(r, 401)
  BY <1>1, AnswerStep DEF GuardLookup
<1>2. CASE Goto(r, "guardVerify")
  <2>1. /\ Moves(r) /\ req'[r] = [req[r] EXCEPT !.pc = "guardVerify"]
        /\ req'[r].pc = "guardVerify"
    BY <1>2, GotoMoves DEF IInv, Pcs
  <2>2. req[r] \in Request /\ req[r].token \in Tokens /\ req[r].status = 0
    BY DEF IInv, TypeOK, RequestOK, Unanswered, Presenting, GuardLookup, At
  <2>3. QED
    BY <2>1, <2>2, HoldingToken DEF GuardLookup, Request
<1>3. QED
  BY <1>1, <1>2 DEF GuardLookup

LEMMA GuardVerifyStep ==
    ASSUME IInv, NEW r \in Requests, GuardVerify(r)
    PROVE  IInv'
<1>1. CASE Answer(r, 401) \/ Answer(r, 200)
  BY <1>1, AnswerStep DEF GuardVerify
<1>2. CASE /\ req[r].op = "logout"
           /\ req' = [req EXCEPT ![r] = [@ EXCEPT
                        !.pc = "logoutLookup", !.user = req[r].token.user]]
  <2> DEFINE u == req[r].token.user
             x == [req[r] EXCEPT !.pc = "logoutLookup", !.user = u]
  <2>1. req[r] \in Request /\ req[r].token \in Tokens /\ req[r].status = 0
    BY DEF IInv, TypeOK, RequestOK, Unanswered, Presenting, GuardVerify, At
  <2>2. u \in Users
    BY <2>1 DEF Tokens
  <2>3. /\ x \in Request /\ x.pc = "logoutLookup" /\ x.status = 0
        /\ x.token = req[r].token /\ x.op = "logout"
        /\ x.user = req[r].token.user
    BY <1>2, <2>1, <2>2 DEF Request, Pcs
  <2>4. req' = [req EXCEPT ![r] = x]
    BY <1>2
  <2> HIDE DEF x, u
  <2>5. Moves(r) /\ req'[r] = x
    BY <2>3, <2>4 DEF Moves, IInv, TypeOK
  <2>6. RequestOK(r)'
    BY <2>1, <2>3, <2>5
    DEF RequestOK, Unanswered, Minting, Presenting, Attaching, Attached,
        Deleting, LoggedOut
  <2>7. QED
    BY <2>3, <2>5, <2>6, QuietStep DEF GuardVerify
<1>3. QED
  BY <1>1, <1>2 DEF GuardVerify

LEMMA LogoutLookupStep ==
    ASSUME IInv, NEW r \in Requests, LogoutLookup(r)
    PROVE  IInv'
<1>0. UNCHANGED <<db, now, delivered, closed>>
  BY DEF LogoutLookup
<1>1. CASE Answer(r, 500)
  BY <1>0, <1>1, AnswerStep
<1>2. ASSUME NEW id \in whitelist,
             row[id].accessToken = req[r].token,
             req' = [req EXCEPT ![r] = [@ EXCEPT
               !.pc = "logoutDelete", !.target = id, !.pending = Kinds]]
      PROVE  IInv'
  <2> DEFINE x == [req[r] EXCEPT
                     !.pc = "logoutDelete", !.target = id, !.pending = Kinds]
  <2>1. /\ req[r] \in Request /\ req[r].token \in Tokens /\ req[r].status = 0
        /\ req[r].op = "logout" /\ req[r].user = req[r].token.user
    BY DEF IInv, TypeOK, RequestOK, Unanswered, Presenting, LogoutLookup, At
  <2>2. id \in Created
    BY DEF IInv, TypeOK, RepositoryTypeOK
  <2>3. /\ x \in Request /\ x.pc = "logoutDelete" /\ x.status = 0
        /\ x.token = req[r].token /\ x.op = "logout"
        /\ x.user = req[r].token.user /\ x.target = id /\ x.pending = Kinds
    BY <2>1, <2>2 DEF Request, Pcs, Created
  <2>4. req' = [req EXCEPT ![r] = x]
    BY <1>2
  <2> HIDE DEF x
  <2>5. Moves(r) /\ req'[r] = x
    BY <2>3, <2>4 DEF Moves, IInv, TypeOK
  <2>6. UNCHANGED <<row, whitelist>> /\ Created' = Created
    BY DEF LogoutLookup, db, Created
  <2>7. RequestOK(r)'
    BY <1>2, <2>1, <2>2, <2>3, <2>5, <2>6
    DEF RequestOK, Unanswered, Minting, Presenting, Attaching, Attached,
        Deleting, LoggedOut, Kinds
  <2>8. QED
    BY <1>0, <2>3, <2>5, <2>7, QuietStep
<1>3. QED
  BY <1>1, <1>2 DEF LogoutLookup, GetUserAccessTokenFromWhitelist

LEMMA DbErrorStep ==
    ASSUME IInv, NEW r \in Requests, DbError(r)
    PROVE  IInv'
  BY AnswerStep DEF DbError

LEMMA TickStep == ASSUME IInv, Tick PROVE IInv'
<1>1. UNCHANGED <<row, whitelist, req, delivered, closed>> /\ Created' = Created
  BY DEF Tick, db, Created
<1>2. TypeOK'
  BY <1>1, MaxTimeAssumption DEF IInv, TypeOK, RepositoryTypeOK, Tick
<1>3. DataInv'
  BY DataFrozen DEF IInv, Tick
<1>4. \A q \in Requests : RequestOK(q)'
  BY <1>1, RequestStable
<1>5. QED
  BY <1>1, <1>2, <1>3, <1>4 DEF IInv, SavedDistinct, OneLogoutWins

LEMMA CrashStep == ASSUME IInv, Crash PROVE IInv'
<1>1. UNCHANGED <<row, whitelist, now, delivered, closed>> /\ Created' = Created
  BY DEF Crash, db, Created
<1>2. \A q \in Requests : req'[q] = IF Idle(q) THEN req[q] ELSE NoRequest
  BY DEF Crash
<1>3. req' \in [Requests -> Request]
  BY NoRequestType DEF Crash, IInv, TypeOK
<1>4. TypeOK'
  BY <1>1, <1>3 DEF IInv, TypeOK, RepositoryTypeOK
<1>5. DataInv'
  BY DataFrozen DEF IInv, Crash
<1>6. ASSUME NEW q \in Requests PROVE RequestOK(q)'
  <2>1. CASE Idle(q)
    BY <1>1, <1>2, <2>1, RequestStable DEF Idle
  <2>2. CASE ~Idle(q)
    <3>1. req'[q].pc = "idle" /\ req'[q].status = 0
      BY <1>2, <2>2, NoRequestType
    <3>2. QED
      BY <3>1 DEF RequestOK, Unanswered, Minting, Presenting, Attaching,
                  Attached, Deleting, LoggedOut
  <2>3. QED BY <2>1, <2>2
<1>7. SavedDistinct'
  BY <1>2, NoRequestType DEF SavedDistinct, Idle
<1>8. OneLogoutWins'
  BY <1>2, NoRequestType DEF OneLogoutWins, IInv
<1>9. QED
  BY <1>4, <1>5, <1>6, <1>7, <1>8 DEF IInv

-----------------------------------------------------------------------------
(* Storing a pair. *)

LEMMA RefreshRowInserted ==
    ASSUME TypeOK, DataInv, NEW doc \in Rows, Insert(doc),
           doc.accessToken = Null, doc.refreshTokenId = Null,
           doc.refreshToken \in Tokens, UNCHANGED <<closed, delivered>>
    PROVE  /\ DataInv'
           /\ \A a \in Created' : row'[a].refreshTokenId # NewId
<1>1. /\ NewId \in RowIds \ Created
      /\ Created' = Created \cup {NewId}
      /\ row'[NewId] = doc
      /\ \A id \in Created : row'[id] = row[id] /\ row[id] \in Rows
      /\ whitelist' = whitelist \cup {NewId}
      /\ whitelist \subseteq Created
      /\ Null \notin RowIds
  BY InsertEffect, NullAssumption DEF TypeOK, RepositoryTypeOK, Created
<1>2. RowsOK'
  BY <1>1 DEF DataInv, RowsOK
<1>3. \A s \in RowIds : AccessRowsOf(s)' = AccessRowsOf(s)
  BY <1>1 DEF AccessRowsOf
<1>4. PairsAreLinked'
  <2> SUFFICES ASSUME NEW a \in Created, row[a].accessToken # Null
               PROVE  Linked(a)'
    BY <1>1 DEF PairsAreLinked
  <2> DEFINE s == row[a].refreshTokenId
  <2>1. Linked(a) /\ s \in Created /\ AccessRowsOf(s) = {a}
    BY DEF DataInv, PairsAreLinked, Linked
  <2>2. row'[s] = row[s] /\ row'[a] = row[a] /\ AccessRowsOf(s)' = {a}
    BY <1>1, <1>3, <2>1 DEF Created
  <2>3. QED BY <1>1, <2>1, <2>2 DEF Linked
<1>5. ClosedSessionsHaveNoRows'
  BY <1>1, <1>3 DEF DataInv, ClosedSessionsHaveNoRows, AccessRowsOf, TypeOK
<1>6. DeliveredPairsWereStored'
  BY <1>1 DEF DataInv, DeliveredPairsWereStored
<1>7. \A a \in Created' : row'[a].refreshTokenId # NewId
  <2>1. \A a \in Created : row[a].refreshTokenId # NewId
    <3> SUFFICES ASSUME NEW a \in Created, row[a].refreshTokenId = NewId
                 PROVE  FALSE
      OBVIOUS
    <3>1. row[a].accessToken # Null
      BY <1>1, NullAssumption DEF DataInv, RowsOK
    <3>2. QED BY <1>1, <3>1 DEF DataInv, PairsAreLinked, Linked
  <2>2. QED BY <1>1, <2>1
<1>8. QED
  BY <1>2, <1>4, <1>5, <1>6, <1>7 DEF DataInv

LEMMA SaveRefreshStep ==
    ASSUME IInv, NEW r \in Requests, SaveRefresh(r)
    PROVE  IInv'
<1> DEFINE u   == req[r].user
           tok == RefreshToken(u, req[r].minted)
           doc == [userId |-> u, accessToken |-> Null, refreshToken |-> tok,
                   refreshTokenId |-> Null, expiredAt |-> req[r].expiry]
           x   == [req[r] EXCEPT !.pc = "saveAccess", !.saved = NewId,
                                 !.expiry = now + JwtExpAccess]
<1>1. /\ req[r] \in Request /\ req[r].minted \in Int /\ req[r].expiry \in Int
      /\ u \in Users /\ req[r].status = 0
  BY DEF IInv, TypeOK, RequestOK, Unanswered, Minting, SaveRefresh, At, Request
<1>2. tok \in Tokens
  BY <1>1, MintedTokens
<1>3. doc \in Rows
  BY <1>1, <1>2 DEF Rows
<1>4. Insert(doc) /\ UNCHANGED <<now, delivered, closed>>
  BY DEF SaveRefresh, SaveRefreshTokenToWhitelist
<1>5. req' = [req EXCEPT ![r] = x]
  BY DEF SaveRefresh
<1>6. /\ doc.accessToken = Null /\ doc.refreshTokenId = Null
      /\ doc.refreshToken = tok /\ doc.userId = u
  OBVIOUS
<1> HIDE DEF doc
<1>7. /\ DataInv'
      /\ \A a \in Created' : row'[a].refreshTokenId # NewId
  BY <1>2, <1>3, <1>4, <1>6, RefreshRowInserted DEF IInv
<1>8. /\ NewId \in RowIds \ Created
      /\ Created' = Created \cup {NewId}
      /\ row'[NewId] = doc
      /\ \A id \in Created : row'[id] = row[id]
      /\ whitelist' = whitelist \cup {NewId}
      /\ RepositoryTypeOK'
  BY <1>3, <1>4, InsertEffect DEF IInv, TypeOK, Created
<1>9. now + JwtExpAccess \in Int
  BY MaxTimeAssumption, ExpAssumption DEF IInv, TypeOK
<1>10. /\ x \in Request /\ x.pc = "saveAccess" /\ x.status = 0
       /\ x.user = u /\ x.minted = req[r].minted /\ x.saved = NewId
  BY <1>1, <1>8, <1>9 DEF Request, Pcs
<1> HIDE DEF x
<1>11. Moves(r) /\ req'[r] = x
  BY <1>5, <1>10 DEF Moves, IInv, TypeOK
<1>12. TypeOK'
  BY <1>4, <1>8, <1>11 DEF IInv, TypeOK, Moves
<1>13. ASSUME NEW q \in Requests PROVE RequestOK(q)'
  <2>1. CASE q = r
    <3>1. Attaching(r)'
      BY <1>1, <1>6, <1>7, <1>8, <1>10, <1>11 DEF Attaching
    <3>2. Unanswered(r)' /\ Minting(r)' /\ Presenting(r)'
      BY <1>1, <1>10, <1>11 DEF Unanswered, Minting, Presenting
    <3>3. Attached(r)' /\ Deleting(r)' /\ LoggedOut(r)'
      BY <1>10, <1>11 DEF Attached, Deleting, LoggedOut
    <3>4. QED BY <2>1, <3>1, <3>2, <3>3 DEF RequestOK
  <2>2. CASE q # r
    <3>1. req'[q] = req[q]
      BY <1>11, <2>2 DEF Moves
    <3>2. req[q].pc = "saveAccess" => req[q].saved # Null
      BY NullAssumption DEF IInv, RequestOK, Attaching, Created
    <3>3. QED
      BY <1>4, <1>6, <1>8, <3>1, <3>2, RequestStable
  <2>3. QED BY <2>1, <2>2
<1>14. SavedDistinct'
  BY <1>8, <1>10, <1>11
  DEF SavedDistinct, IInv, Moves, RequestOK, Attaching
<1>15. OneLogoutWins'
  BY <1>10, <1>11 DEF OneLogoutWins, IInv, Moves
<1>16. QED
  BY <1>7, <1>12, <1>13, <1>14, <1>15 DEF IInv

LEMMA AccessRowInserted ==
    ASSUME TypeOK, DataInv, NEW doc \in Rows, Insert(doc),
           NEW s0 \in Created, doc.refreshTokenId = s0,
           doc.accessToken \in Tokens, doc.refreshToken = Null,
           row[s0].refreshToken = [doc.accessToken EXCEPT !.kind = "refresh"],
           row[s0].userId = doc.userId, doc.accessToken.user = doc.userId,
           \A a \in Created : row[a].refreshTokenId # s0,
           UNCHANGED <<closed, delivered>>
    PROVE  DataInv'
<1>1. /\ NewId \in RowIds \ Created
      /\ Created' = Created \cup {NewId}
      /\ row'[NewId] = doc
      /\ \A id \in Created : row'[id] = row[id] /\ row[id] \in Rows
      /\ whitelist' = whitelist \cup {NewId}
      /\ whitelist \subseteq Created
      /\ Null \notin RowIds
  BY InsertEffect, NullAssumption DEF TypeOK, RepositoryTypeOK, Created
<1>2. RowsOK'
  BY <1>1 DEF DataInv, RowsOK, Created
<1>3. /\ AccessRowsOf(s0)' = {NewId}
      /\ \A s \in RowIds : s # s0 => AccessRowsOf(s)' = AccessRowsOf(s)
  BY <1>1 DEF AccessRowsOf
<1>4. PairsAreLinked'
  <2>1. ASSUME NEW n, n = NewId PROVE Linked(n)'
    BY <1>1, <1>3, <2>1 DEF Linked
  <2>2. ASSUME NEW a \in Created, row[a].accessToken # Null
        PROVE  Linked(a)'
    <3> DEFINE s == row[a].refreshTokenId
    <3>1. Linked(a) /\ s \in Created /\ AccessRowsOf(s) = {a} /\ s # s0
      BY <2>2 DEF DataInv, PairsAreLinked, Linked
    <3>2. row'[s] = row[s] /\ row'[a] = row[a] /\ AccessRowsOf(s)' = {a}
      BY <1>1, <1>3, <3>1 DEF Created
    <3>3. QED BY <1>1, <3>1, <3>2 DEF Linked
  <2>3. QED BY <1>1, <2>1, <2>2 DEF PairsAreLinked
<1>5. ClosedSessionsHaveNoRows'
  <2>1. s0 \notin closed
    BY DEF DataInv, ClosedSessionsHaveNoRows, AccessRowsOf
  <2>2. QED
    BY <1>1, <1>3, <2>1
    DEF DataInv, ClosedSessionsHaveNoRows, AccessRowsOf, TypeOK
<1>6. DeliveredPairsWereStored'
  BY <1>1 DEF DataInv, DeliveredPairsWereStored
<1>7. QED
  BY <1>2, <1>4, <1>5, <1>6 DEF DataInv

LEMMA SaveAccessStep ==
    ASSUME IInv, NEW r \in Requests, SaveAccess(r)
    PROVE  IInv'
<1> DEFINE u   == req[r].user
           s0  == req[r].saved
           tok == AccessToken(u, req[r].minted)
           doc == [userId |-> u, accessToken |-> tok, refreshToken |-> Null,
                   refreshTokenId |-> s0, expiredAt |-> req[r].expiry]
<1>1. /\ req[r] \in Request /\ req[r].minted \in Int /\ req[r].expiry \in Int
      /\ u \in Users /\ req[r].status = 0 /\ req[r].pc = "saveAccess"
      /\ s0 \in Created /\ row[s0].userId = u
      /\ row[s0].refreshToken = RefreshToken(u, req[r].minted)
      /\ \A a \in Created : row[a].refreshTokenId # s0
  BY DEF IInv, TypeOK, RequestOK, Unanswered, Minting, Attaching, SaveAccess,
         At, Request
<1>2. /\ tok \in Tokens /\ tok.user = u
      /\ row[s0].refreshToken = [tok EXCEPT !.kind = "refresh"]
  BY <1>1, MintedTokens
<1>3. doc \in Rows
  BY <1>1, <1>2 DEF Rows, Created
<1>4. /\ Insert(doc) /\ Goto(r, "respond")
      /\ UNCHANGED <<now, delivered, closed>>
  BY DEF SaveAccess, SaveAccessTokenToWhitelist
<1>5. /\ doc.accessToken = tok /\ doc.refreshTokenId = s0
      /\ doc.refreshToken = Null /\ doc.userId = u
  OBVIOUS
<1> HIDE DEF doc, tok
<1>6. DataInv'
  BY <1>1, <1>2, <1>3, <1>4, <1>5, AccessRowInserted DEF IInv
<1>7. /\ NewId \in RowIds \ Created
      /\ Created' = Created \cup {NewId}
      /\ row'[NewId] = doc
      /\ \A id \in Created : row'[id] = row[id]
      /\ whitelist' = whitelist \cup {NewId}
      /\ RepositoryTypeOK'
  BY <1>3, <1>4, InsertEffect DEF IInv, TypeOK, Created
<1>8. /\ Moves(r) /\ req'[r] = [req[r] EXCEPT !.pc = "respond"]
      /\ req'[r].pc = "respond"
  BY <1>4, GotoMoves DEF IInv, Pcs
<1>9. /\ req'[r].status = 0 /\ req'[r].user = u
      /\ req'[r].minted = req[r].minted
  BY <1>1, <1>8 DEF Request
<1>10. TypeOK'
  BY <1>4, <1>7, <1>8 DEF IInv, TypeOK, Moves
<1>11. ASSUME NEW q \in Requests PROVE RequestOK(q)'
  <2>1. CASE q = r
    <3>1. Attached(r)'
      BY <1>1, <1>5, <1>7, <1>9 DEF Attached, tok
    <3>2. /\ Unanswered(r)' /\ Minting(r)' /\ Presenting(r)'
      BY <1>1, <1>8, <1>9 DEF Unanswered, Minting, Presenting
    <3>3. Attaching(r)' /\ Deleting(r)' /\ LoggedOut(r)'
      BY <1>8, <1>9 DEF Attaching, Deleting, LoggedOut
    <3>4. QED BY <2>1, <3>1, <3>2, <3>3 DEF RequestOK
  <2>2. CASE q # r
    <3>1. req'[q] = req[q]
      BY <1>8, <2>2 DEF Moves
    <3>2. req[q].pc = "saveAccess" => req[q].saved # s0
      BY <1>1, <2>2 DEF IInv, SavedDistinct
    <3>3. QED
      BY <1>4, <1>5, <1>7, <3>1, <3>2, RequestStable
  <2>3. QED BY <2>1, <2>2
<1>12. SavedDistinct' /\ OneLogoutWins'
  <2>1. req'[r].pc # "saveAccess" /\ req'[r].status # 204
    BY <1>8, <1>9
  <2>2. QED BY <1>8, <2>1, OthersStay DEF IInv
<1>13. QED
  BY <1>6, <1>10, <1>11, <1>12 DEF IInv

LEMMA RespondStep ==
    ASSUME IInv, NEW r \in Requests, Respond(r)
    PROVE  IInv'
<1> DEFINE u == req[r].user
           at == AccessToken(u, req[r].minted)
           rt == RefreshToken(u, req[r].minted)
<1>1. /\ req[r].minted \in Int /\ u \in Users
      /\ \E a, s \in Created :
           /\ row[a].refreshTokenId = s
           /\ row[a].userId = u /\ row[s].userId = u
           /\ row[a].accessToken = at /\ row[s].refreshToken = rt
  BY DEF IInv, TypeOK, RequestOK, Minting, Attached, Respond, At, Request
<1>2. /\ at \in Tokens /\ rt \in Tokens /\ at.user = u /\ rt.user = u
      /\ rt = [at EXCEPT !.kind = "refresh"]
      /\ at = [rt EXCEPT !.kind = "access"]
      /\ at = [at EXCEPT !.kind = "access"]
      /\ rt = [rt EXCEPT !.kind = "refresh"]
  BY <1>1, MintedTokens
<1>3. /\ delivered' \subseteq delivered \cup {at, rt}
      /\ UNCHANGED <<row, whitelist, now, closed>> /\ Created' = Created
      /\ Answer(r, 201)
  BY DEF Respond, db, Created
<1> HIDE DEF at, rt
<1>4. /\ Moves(r) /\ req'[r] = [NoRequest EXCEPT !.status = 201]
  <2>1. [NoRequest EXCEPT !.status = 201] \in Request
    BY NoRequestType DEF Request, Codes
  <2>2. QED BY <1>3, <2>1 DEF Answer, Moves, IInv, TypeOK
<1>5. req'[r].pc = "idle" /\ req'[r].status = 201
  BY <1>4, NoRequestType DEF Request
<1>6. TypeOK'
  BY <1>2, <1>3, <1>4 DEF IInv, TypeOK, RepositoryTypeOK, Moves
<1>7. DataInv'
  <2>1. RowsOK' /\ PairsAreLinked' /\ ClosedSessionsHaveNoRows'
    BY <1>3 DEF IInv, DataInv, RowsOK, PairsAreLinked, Linked,
                ClosedSessionsHaveNoRows, AccessRowsOf
  <2>2. PICK a \in Created, s \in Created :
          /\ row[a].refreshTokenId = s
          /\ row[a].userId = u /\ row[s].userId = u
          /\ row[a].accessToken = at /\ row[s].refreshToken = rt
    BY <1>1
  <2>3. ASSUME NEW tok \in delivered'
        PROVE  \E b, t \in Created :
                 /\ row[b].refreshTokenId = t
                 /\ row[b].userId = tok.user /\ row[t].userId = tok.user
                 /\ row[b].accessToken  = [tok EXCEPT !.kind = "access"]
                 /\ row[t].refreshToken = [tok EXCEPT !.kind = "refresh"]
    <3>1. CASE tok \in delivered
      BY <3>1 DEF IInv, DataInv, DeliveredPairsWereStored
    <3>2. CASE tok \in {at, rt}
      <4>1. /\ tok.user = u /\ at = [tok EXCEPT !.kind = "access"]
            /\ rt = [tok EXCEPT !.kind = "refresh"]
        BY <1>2, <3>2
      <4>2. QED BY <2>2, <4>1
    <3>3. QED BY <1>3, <3>1, <3>2
  <2>4. DeliveredPairsWereStored'
    BY <1>3, <2>3 DEF DeliveredPairsWereStored
  <2>5. QED BY <2>1, <2>4 DEF DataInv
<1>8. ASSUME NEW q \in Requests PROVE RequestOK(q)'
  <2>1. CASE q = r
    BY <1>5, <2>1 DEF RequestOK, Unanswered, Minting, Presenting, Attaching,
                      Attached, Deleting, LoggedOut
  <2>2. CASE q # r
    BY <1>3, <1>4, <2>2, RequestStable DEF Moves
  <2>3. QED BY <2>1, <2>2
<1>9. SavedDistinct' /\ OneLogoutWins'
  <2>1. req'[r].pc # "saveAccess" /\ req'[r].status # 204
    BY <1>5
  <2>2. QED BY <1>4, <2>1, OthersStay DEF IInv
<1>10. QED
  BY <1>6, <1>7, <1>8, <1>9 DEF IInv

-----------------------------------------------------------------------------
(* Deleting rows. *)

LEMMA WhitelistShrinks ==
    ASSUME TypeOK, DataInv, whitelist' \subseteq whitelist,
           UNCHANGED <<row, closed, delivered>>
    PROVE  DataInv' /\ RepositoryTypeOK' /\ Created' = Created
<1>1. Created' = Created /\ RepositoryTypeOK'
  BY DEF Created, TypeOK, RepositoryTypeOK
<1>2. \A s : AccessRowsOf(s)' = AccessRowsOf(s)
  BY <1>1 DEF AccessRowsOf
<1>3. RowsOK' /\ DeliveredPairsWereStored'
  BY <1>1 DEF DataInv, RowsOK, DeliveredPairsWereStored
<1>4. PairsAreLinked'
  BY <1>1, <1>2 DEF DataInv, PairsAreLinked, Linked
<1>5. ClosedSessionsHaveNoRows'
  BY <1>1, <1>2 DEF DataInv, ClosedSessionsHaveNoRows
<1>6. QED
  BY <1>1, <1>3, <1>4, <1>5 DEF DataInv

LEMMA TtlSweepStep ==
    ASSUME IInv, NEW id \in RowIds, TtlSweep(id)
    PROVE  IInv'
<1>1. /\ whitelist' \subseteq whitelist
      /\ UNCHANGED <<row, now, req, delivered, closed>>
  BY DEF TtlSweep
<1>2. DataInv' /\ RepositoryTypeOK' /\ Created' = Created
  BY <1>1, WhitelistShrinks DEF IInv
<1>3. TypeOK'
  BY <1>1, <1>2 DEF IInv, TypeOK
<1>4. \A q \in Requests : RequestOK(q)'
  BY <1>1, <1>2, RequestStable
<1>5. QED
  BY <1>1, <1>2, <1>3, <1>4 DEF IInv, SavedDistinct, OneLogoutWins

(* The memory of a logout after a delete settles, the last one or not. *)
Settled(o, t)        == [NoRequest EXCEPT !.status = o, !.target = t]
HalfSettled(q, o, p) == [q EXCEPT !.status = o, !.pending = p]

LEMMA SettledRequest ==
    ASSUME NEW o \in Codes, NEW t \in RowIds \cup {Null}
    PROVE  /\ Settled(o, t) \in Request
           /\ Settled(o, t).status = o /\ Settled(o, t).target = t
           /\ Settled(o, t).pc = "idle"
  BY NoRequestType DEF Request, Settled

LEMMA HalfSettledRequest ==
    ASSUME NEW q \in Request, NEW o \in Codes, NEW p \in SUBSET Kinds
    PROVE  LET y == HalfSettled(q, o, p)
           IN  /\ y \in Request /\ y.status = o /\ y.pending = p
               /\ y.target = q.target /\ y.pc = q.pc /\ y.op = q.op
               /\ y.user = q.user /\ y.token = q.token
  BY DEF Request, HalfSettled

LEMMA SettleMoves ==
    ASSUME TypeOK, NEW r \in Requests, NEW kind \in Kinds,
           NEW code \in {204, 404, 500}, Settle(r, kind, code),
           kind \in req[r].pending, req[r].pc = "logoutDelete"
    PROVE  /\ Moves(r)
           /\ req'[r].status = Outcome(r, kind, code)
           /\ req'[r].target = req[r].target
           /\ req[r].pending = {kind} => req'[r].pc = "idle"
           /\ req[r].pending # {kind} =>
                /\ req'[r].pc = "logoutDelete" /\ req'[r].op = req[r].op
                /\ req'[r].user = req[r].user /\ req'[r].token = req[r].token
                /\ req'[r].pending = req[r].pending \ {kind}
                /\ req'[r].pending # {}
<1> DEFINE t == req[r].target
           o == Outcome(r, kind, code)
           p == req[r].pending \ {kind}
<1>1. req[r] \in Request
  BY DEF TypeOK
<1>2. /\ t \in RowIds \cup {Null} /\ o \in Codes /\ p \in SUBSET Kinds
      /\ req[r].pending # {kind} => p # {}
  BY <1>1 DEF Outcome, Request, Codes
<1>3. req' = [req EXCEPT ![r] = IF req[r].pending = {kind}
                                  THEN Settled(o, t)
                                  ELSE HalfSettled(req[r], o, p)]
  BY DEF Settle, Settled, HalfSettled
<1> HIDE DEF t, o, p
<1>4. CASE req[r].pending = {kind}
  <2>1. /\ Settled(o, t) \in Request /\ Settled(o, t).status = o
        /\ Settled(o, t).target = t /\ Settled(o, t).pc = "idle"
    BY <1>2, SettledRequest
  <2>2. Moves(r) /\ req'[r] = Settled(o, t)
    BY <1>3, <1>4, <2>1 DEF Moves, TypeOK
  <2>3. QED BY <1>4, <2>1, <2>2 DEF o, t
<1>5. CASE req[r].pending # {kind}
  <2> DEFINE y == HalfSettled(req[r], o, p)
  <2>1. /\ y \in Request /\ y.status = o /\ y.pending = p
        /\ y.target = req[r].target /\ y.pc = req[r].pc /\ y.op = req[r].op
        /\ y.user = req[r].user /\ y.token = req[r].token
    BY <1>1, <1>2, HalfSettledRequest
  <2> HIDE DEF y
  <2>2. Moves(r) /\ req'[r] = y
    BY <1>3, <1>5, <2>1 DEF Moves, TypeOK, y
  <2>3. QED BY <1>2, <1>5, <2>1, <2>2 DEF o, p
<1>6. QED BY <1>4, <1>5

(* What a logout knows when one of its deletes is executed. *)
LEMMA DeletingFacts ==
    ASSUME IInv, NEW r \in Requests, req[r].pc = "logoutDelete"
    PROVE  LET t == req[r].target
               s == row[t].refreshTokenId
           IN  /\ t \in Created /\ s \in Created /\ AccessRowsOf(s) = {t}
               /\ Victim(r, "access") = t /\ Victim(r, "refresh") = s
               /\ row[t].accessToken = req[r].token
               /\ row[t].accessToken # Null
               /\ row[t].userId = req[r].token.user
               /\ row[s].userId = req[r].token.user
               /\ req[r].op = "logout" /\ req[r].user = req[r].token.user
               /\ req[r].token \in Tokens /\ req[r].status # 204
<1> DEFINE t == req[r].target
           s == row[t].refreshTokenId
<1>1. /\ t \in Created /\ row[t].accessToken = req[r].token
      /\ req[r].status # 204 /\ req[r].token \in Tokens
      /\ req[r].op = "logout" /\ req[r].user = req[r].token.user
  BY DEF IInv, RequestOK, Deleting, Presenting
<1>2. row[t].accessToken # Null
  BY <1>1, NullAssumption
<1>3. Linked(t)
  BY <1>1, <1>2 DEF IInv, DataInv, PairsAreLinked
<1>4. QED
  BY <1>1, <1>2, <1>3 DEF Linked, Victim

(* A delete that does not complete a logout: it only takes rows away. *)
LEMMA UnacknowledgedDelete ==
    ASSUME IInv, NEW r \in Requests, NEW kind \in Kinds,
           NEW code \in {204, 404, 500}, Settle(r, kind, code),
           kind \in req[r].pending, req[r].pc = "logoutDelete",
           Outcome(r, kind, code) # 204,
           whitelist' \subseteq whitelist,
           code = 204 => Victim(r, kind) \notin whitelist',
           UNCHANGED <<row, now, delivered, closed>>
    PROVE  IInv'
<1>1. /\ Moves(r)
      /\ req'[r].status = Outcome(r, kind, code)
      /\ req'[r].target = req[r].target
      /\ req[r].pending = {kind} => req'[r].pc = "idle"
      /\ req[r].pending # {kind} =>
           /\ req'[r].pc = "logoutDelete" /\ req'[r].op = req[r].op
           /\ req'[r].user = req[r].user /\ req'[r].token = req[r].token
           /\ req'[r].pending = req[r].pending \ {kind}
           /\ req'[r].pending # {}
  BY SettleMoves DEF IInv
<1>2. DataInv' /\ RepositoryTypeOK' /\ Created' = Created
  BY WhitelistShrinks DEF IInv
<1>3. TypeOK'
  BY <1>1, <1>2 DEF IInv, TypeOK, Moves
<1>4. RequestOK(r)'
  <2>1. CASE req[r].pending = {kind}
    BY <1>1, <2>1 DEF RequestOK, Unanswered, Minting, Presenting, Attaching,
                      Attached, Deleting, LoggedOut
  <2>2. CASE req[r].pending # {kind}
    <3>1. Deleting(r) /\ Presenting(r)
      BY DEF IInv, RequestOK
    <3>2. Outcome(r, kind, code) = 0 => req[r].status = 0 /\ code = 204
      BY DEF Outcome
    <3>3. Deleting(r)'
      BY <1>1, <1>2, <2>2, <3>1, <3>2 DEF Deleting, Victim, Kinds
    <3>4. Presenting(r)'
      BY <1>1, <2>2, <3>1 DEF Presenting
    <3>5. Unanswered(r)' /\ Minting(r)' /\ Attaching(r)' /\ Attached(r)'
      BY <1>1, <2>2 DEF Unanswered, Minting, Attaching, Attached
    <3>6. LoggedOut(r)'
      BY <1>1, <2>2 DEF LoggedOut
    <3>7. QED BY <3>3, <3>4, <3>5, <3>6 DEF RequestOK
  <2>3. QED BY <2>1, <2>2
<1>5. ASSUME NEW q \in Requests, q # r PROVE RequestOK(q)'
  BY <1>1, <1>2, <1>5, RequestStable DEF Moves
<1>6. SavedDistinct' /\ OneLogoutWins'
  <2>1. req'[r].pc # "saveAccess" /\ req'[r].status # 204
    BY <1>1
  <2>2. QED BY <1>1, <2>1, OthersStay DEF IInv
<1>7. QED
  BY <1>2, <1>3, <1>4, <1>5, <1>6 DEF IInv

(* The delete that completes a logout: both rows of the session are gone,  *)
(* and no other logout of this session can have been completed before.     *)
LEMMA AcknowledgedDelete ==
    ASSUME IInv, NEW r \in Requests, NEW kind \in Kinds,
           req[r].pc = "logoutDelete", kind \in req[r].pending,
           DeleteHit(r, kind), Outcome(r, kind, 204) = 204,
           UNCHANGED <<now, delivered>>
    PROVE  IInv'
<1> DEFINE t == req[r].target
           s == row[t].refreshTokenId
<1>1. /\ t \in Created /\ s \in Created /\ AccessRowsOf(s) = {t}
      /\ Victim(r, "access") = t /\ Victim(r, "refresh") = s
      /\ row[t].accessToken # Null /\ req[r].status # 204
  BY DeletingFacts
<1>2. req[r].status = 0 /\ req[r].pending = {kind}
  BY <1>1 DEF Outcome
<1>3. /\ Settle(r, kind, 204) /\ UNCHANGED row
      /\ Victim(r, kind) \in whitelist
      /\ whitelist' = whitelist \ {Victim(r, kind)}
      /\ closed' = closed \cup {s}
  BY <1>1 DEF DeleteHit, DeleteFromWhitelist
<1> HIDE DEF s, t
<1>4. /\ Moves(r) /\ req'[r].status = 204 /\ req'[r].target = t
      /\ req'[r].pc = "idle"
  BY <1>2, <1>3, SettleMoves DEF IInv, t
<1>5. s \notin whitelist' /\ t \notin whitelist'
  BY <1>1, <1>2, <1>3 DEF IInv, RequestOK, Deleting, Kinds, s, t
<1>6. Created' = Created /\ RepositoryTypeOK'
  BY <1>3 DEF IInv, TypeOK, RepositoryTypeOK, Created
<1>7. TypeOK'
  BY <1>1, <1>3, <1>4, <1>6 DEF IInv, TypeOK, Moves, Created
<1>8. DataInv'
  <2>1. \A z : AccessRowsOf(z)' = AccessRowsOf(z)
    BY <1>3, <1>6 DEF AccessRowsOf
  <2>2. RowsOK' /\ DeliveredPairsWereStored'
    BY <1>3, <1>6 DEF IInv, DataInv, RowsOK, DeliveredPairsWereStored
  <2>3. PairsAreLinked'
    BY <1>3, <1>6, <2>1 DEF IInv, DataInv, PairsAreLinked, Linked
  <2>4. ClosedSessionsHaveNoRows'
    BY <1>1, <1>3, <1>5, <1>6, <2>1
    DEF IInv, DataInv, ClosedSessionsHaveNoRows
  <2>5. QED BY <2>2, <2>3, <2>4 DEF DataInv
<1>9. RequestOK(r)'
  <2>1. LoggedOut(r)'
    BY <1>1, <1>3, <1>4, <1>6 DEF LoggedOut, s
  <2>2. Unanswered(r)' /\ Minting(r)' /\ Presenting(r)' /\ Attaching(r)'
    BY <1>4 DEF Unanswered, Minting, Presenting, Attaching
  <2>3. Attached(r)' /\ Deleting(r)'
    BY <1>4 DEF Attached, Deleting
  <2>4. QED BY <2>1, <2>2, <2>3 DEF RequestOK
<1>10. ASSUME NEW q \in Requests, q # r PROVE RequestOK(q)'
  BY <1>3, <1>4, <1>6, <1>10, RequestStable DEF Moves
<1>11. ASSUME NEW q \in Requests, q # r, req[q].status = 204
       PROVE  req[q].target # t
  <2> SUFFICES ASSUME req[q].target = t PROVE FALSE
    OBVIOUS
  <2>1. s \in closed
    BY <1>11 DEF IInv, RequestOK, LoggedOut, s
  <2>2. s \notin whitelist /\ t \notin whitelist
    BY <1>1, <2>1 DEF IInv, DataInv, ClosedSessionsHaveNoRows
  <2>3. QED BY <1>1, <1>3, <2>2 DEF Kinds
<1>12. OneLogoutWins'
  BY <1>4, <1>11 DEF OneLogoutWins, Moves, IInv
<1>13. SavedDistinct'
  <2>1. \A q \in Requests : q # r => req'[q] = req[q]
    BY <1>4 DEF Moves
  <2>2. QED BY <1>4, <2>1 DEF SavedDistinct, IInv
<1>14. QED
  BY <1>7, <1>8, <1>9, <1>10, <1>12, <1>13 DEF IInv

LEMMA LogoutDeleteStep ==
    ASSUME IInv, NEW r \in Requests, NEW kind \in Kinds, LogoutDelete(r, kind)
    PROVE  IInv'
<1>1. /\ req[r].pc = "logoutDelete" /\ kind \in req[r].pending
      /\ UNCHANGED <<now, delivered>>
  BY DEF LogoutDelete, At
<1>2. CASE DeleteHit(r, kind) /\ Outcome(r, kind, 204) = 204
  BY <1>1, <1>2, AcknowledgedDelete
<1>3. CASE DeleteHit(r, kind) /\ Outcome(r, kind, 204) # 204
  <2>1. /\ Settle(r, kind, 204) /\ UNCHANGED <<row, closed>>
        /\ whitelist' \subseteq whitelist /\ Victim(r, kind) \notin whitelist'
    BY <1>3 DEF DeleteHit, DeleteFromWhitelist
  <2>2. QED BY <1>1, <1>3, <2>1, UnacknowledgedDelete
<1>4. req[r].status # 204
  BY <1>1 DEF IInv, RequestOK, Deleting
<1>5. CASE DeleteMiss(r, kind)
  <2>1. /\ Settle(r, kind, 404) /\ UNCHANGED <<row, whitelist, closed>>
    BY <1>5 DEF DeleteMiss, Missing, db
  <2>2. Outcome(r, kind, 404) # 204
    BY <1>4 DEF Outcome
  <2>3. QED BY <1>1, <2>1, <2>2, UnacknowledgedDelete
<1>6. CASE DeleteError(r, kind)
  <2>1. /\ Settle(r, kind, 500) /\ UNCHANGED <<row, closed>>
        /\ whitelist' \subseteq whitelist
    BY <1>6 DEF DeleteError
  <2>2. Outcome(r, kind, 500) # 204
    BY <1>4 DEF Outcome
  <2>3. QED BY <1>1, <2>1, <2>2, UnacknowledgedDelete
<1>7. QED
  BY <1>2, <1>3, <1>5, <1>6 DEF LogoutDelete

-----------------------------------------------------------------------------
(* The invariant is inductive. *)

LEMMA StutterStep == ASSUME IInv, UNCHANGED vars PROVE IInv'
<1>1. UNCHANGED <<row, whitelist, now, req, delivered, closed>>
      /\ Created' = Created
  BY DEF vars, Created
<1>2. TypeOK'
  BY <1>1 DEF IInv, TypeOK, RepositoryTypeOK
<1>3. DataInv'
  BY <1>1, DataFrozen DEF IInv, db
<1>4. \A q \in Requests : RequestOK(q)'
  BY <1>1, RequestStable
<1>5. QED
  BY <1>1, <1>2, <1>3, <1>4 DEF IInv, SavedDistinct, OneLogoutWins

LEMMA NextIInv == IInv /\ [Next]_vars => IInv'
<1> SUFFICES ASSUME IInv, [Next]_vars PROVE IInv'
  OBVIOUS
<1>1. ASSUME NEW r \in Requests, Arrive(r) PROVE IInv'
  <2>1. CASE \E u \in Users : Sign(r, u)
    BY <2>1, SignStep
  <2>2. CASE \E tok \in delivered : Refresh(r, tok)
    BY <2>2, RefreshStep
  <2>3. CASE \E tok \in delivered :
               Present(r, "use", tok) \/ Present(r, "logout", tok)
    BY <2>3, PresentStep
  <2>4. QED BY <1>1, <2>1, <2>2, <2>3 DEF Arrive
<1>2. ASSUME NEW r \in Requests, Serve(r) PROVE IInv'
  <2>1. CASE SaveRefresh(r) \/ SaveAccess(r) \/ Respond(r)
    BY <2>1, SaveRefreshStep, SaveAccessStep, RespondStep
  <2>2. CASE RefreshLookup(r) \/ RefreshVerify(r)
    BY <2>2, RefreshLookupStep, RefreshVerifyStep
  <2>3. CASE GuardLookup(r) \/ GuardVerify(r)
    BY <2>3, GuardLookupStep, GuardVerifyStep
  <2>4. CASE LogoutLookup(r) \/ \E kind \in Kinds : LogoutDelete(r, kind)
    BY <2>4, LogoutLookupStep, LogoutDeleteStep
  <2>5. CASE DbError(r)
    BY <2>5, DbErrorStep
  <2>6. QED BY <1>2, <2>1, <2>2, <2>3, <2>4, <2>5 DEF Serve
<1>3. ASSUME NEW id \in RowIds, TtlSweep(id) PROVE IInv'
  BY <1>3, TtlSweepStep
<1>4. CASE Crash
  BY <1>4, CrashStep
<1>5. CASE Tick
  BY <1>5, TickStep
<1>6. CASE UNCHANGED vars
  BY <1>6, StutterStep
<1>7. QED
  BY <1>1, <1>2, <1>3, <1>4, <1>5, <1>6 DEF Next

(* In every reachable state the data is well linked and every request      *)
(* remembers only what still holds.                                        *)
THEOREM Invariance == Spec => []IInv
<1>1. Init => IInv
  BY InitIInv
<1>2. IInv /\ [Next]_vars => IInv'
  BY NextIInv
<1>3. QED
  BY <1>1, <1>2, PTL DEF Spec

-----------------------------------------------------------------------------
(* The invariants of the runs. *)

(* Every variable keeps its type, for all constants. *)
THEOREM TypeCorrectness == Spec => []TypeOK
<1>1. IInv => TypeOK
  BY DEF IInv
<1>2. QED
  BY <1>1, Invariance, PTL

(* Access rows always point to the refresh row of their own sign-in. *)
THEOREM PairsStayLinked == Spec => []PairsAreLinked
<1>1. IInv => PairsAreLinked
  BY DEF IInv, DataInv
<1>2. QED
  BY <1>1, Invariance, PTL

(* A 204 from logout means that both rows are gone, for good, whatever     *)
(* runs concurrently and whatever fails.                                   *)
THEOREM LogoutRevokesBothTokens == Spec => []ClosedSessionsHaveNoRows
<1>1. IInv => ClosedSessionsHaveNoRows
  BY DEF IInv, DataInv
<1>2. QED
  BY <1>1, Invariance, PTL

(* At most one of several racing logouts of a session is answered 204. *)
THEOREM AtMostOneLogoutWins == Spec => []OneLogoutWins
<1>1. IInv => OneLogoutWins
  BY DEF IInv
<1>2. QED
  BY <1>1, Invariance, PTL

(* Clients hold only tokens whose whole pair was stored. *)
THEOREM NoUnstoredTokenIsDelivered == Spec => []DeliveredPairsWereStored
<1>1. IInv => DeliveredPairsWereStored
  BY DEF IInv, DataInv
<1>2. QED
  BY <1>1, Invariance, PTL
=============================================================================
