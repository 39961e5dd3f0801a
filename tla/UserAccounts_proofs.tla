------------------------ MODULE UserAccounts_proofs ------------------------
(***************************************************************************)
(* Proofs about UserAccounts, for any emails, passwords, ids and requests. *)
(***************************************************************************)
EXTENDS UserAccounts, TLAPS

(***************************************************************************)
(* The inductive invariant: what a request carries has the form its next   *)
(* call expects, and no answer yet; a sign-in past its lookup holds the    *)
(* account of its email, and past the comparison its password; whoever was *)
(* acknowledged owns the account of the email.                             *)
(***************************************************************************)
Carries(r) ==
    /\ req[r].pc # "idle" => req[r].email \in Emails /\ req[r].status = 0
    /\ req[r].pc \in {"signUpLookup", "hash", "signInLookup", "compare", "sign"}
         => req[r].password \in Passwords
    /\ req[r].pc = "insert" => req[r].password \in Hashes

Recognised(r) ==
    /\ req[r].pc \in {"compare", "sign"} =>
         req[r].testUser \in ByEmail(req[r].email)
    /\ req[r].pc = "sign" => IsPasswordCorrect(r)

AcknowledgedIsStored ==
    \A e \in Emails, p \in Passwords :
        <<e, p>> \in acknowledged =>
            \E id \in ByEmail(e) : account[id].password = Hash(p)

IInv ==
    /\ TypeOK /\ EmailsAreUnique /\ AcknowledgedIsStored
    /\ \A r \in Requests : Carries(r) /\ Recognised(r)

-----------------------------------------------------------------------------
(* Ids, hashes and requests. *)

LEMMA NewIdIsUnused ==
    ASSUME Unused # {}
    PROVE  NewId \in UserIds /\ account[NewId] = Null
<1>1. PICK id \in UserIds : account[id] = Null
  BY DEF Unused
<1>2. QED
  BY <1>1 DEF NewId

(* A hash is made from one password only. *)
LEMMA HashIsInjective ==
    ASSUME NEW p, NEW q
    PROVE  /\ Hash(p) = Hash(q) => p = q
           /\ Hash(p).bcrypt = p
           /\ p \in Passwords => Hash(p) \in Hashes
  BY DEF Hash, Hashes

LEMMA HashOfPassword ==
    ASSUME NEW h \in Hashes
    PROVE  h.bcrypt \in Passwords /\ h = Hash(h.bcrypt)
  BY DEF Hash, Hashes

LEMMA NoRequestType ==
    /\ NoRequest \in Request
    /\ NoRequest.pc = "idle" /\ NoRequest.status = 0
  BY DEF NoRequest, Request, Pcs, Codes

(* The step of request r, and of no other. *)
Moves(r) ==
    /\ req' \in [Requests -> Request]
    /\ \A q \in Requests : q # r => req'[q] = req[q]

LEMMA AnswerMoves ==
    ASSUME TypeOK, NEW r \in Requests, NEW code \in Codes, Answer(r, code)
    PROVE  Moves(r) /\ req'[r].pc = "idle" /\ req'[r].status = code
<1> DEFINE x == [NoRequest EXCEPT !.status = code]
<1>1. x \in Request /\ x.pc = "idle" /\ x.status = code
  BY DEF NoRequest, Request, Pcs
<1> HIDE DEF x
<1>2. req' = [req EXCEPT ![r] = x]
  BY DEF Answer, x
<1>3. QED
  BY <1>1, <1>2 DEF Moves, TypeOK

LEMMA BeginMoves ==
    ASSUME TypeOK, NEW r \in Requests, NEW e \in Emails, NEW p \in Passwords,
           NEW label \in {"signUpLookup", "signInLookup"}, Begin(r, label, e, p)
    PROVE  /\ Moves(r) /\ req'[r].pc = label /\ req'[r].status = 0
           /\ req'[r].email = e /\ req'[r].password = p
<1> DEFINE x == [NoRequest EXCEPT !.pc = label, !.email = e, !.password = p]
<1>1. /\ x \in Request /\ x.pc = label /\ x.status = 0
      /\ x.email = e /\ x.password = p
  BY DEF NoRequest, Request, Pcs, Codes
<1> HIDE DEF x
<1>2. req' = [req EXCEPT ![r] = x]
  BY DEF Begin, x
<1>3. QED
  BY <1>1, <1>2 DEF Moves, TypeOK

-----------------------------------------------------------------------------
(* Steps that change no account and acknowledge nothing. *)

LEMMA Resting ==
    ASSUME NEW r \in Requests, req'[r].pc = "idle"
    PROVE  Carries(r)' /\ Recognised(r)'
  BY DEF Carries, Recognised

LEMMA QuietStep ==
    ASSUME IInv, NEW r \in Requests, Moves(r),
           UNCHANGED <<account, acknowledged>>,
           granted' \in SUBSET (Emails \X Passwords),
           Carries(r)', Recognised(r)'
    PROVE  IInv'
<1>1. TypeOK' /\ EmailsAreUnique' /\ AcknowledgedIsStored'
  BY DEF IInv, TypeOK, EmailsAreUnique, AcknowledgedIsStored, Moves,
         ByEmail, Stored
<1>2. \A q \in Requests : Carries(q)' /\ Recognised(q)'
  <2>1. SUFFICES ASSUME NEW q \in Requests, q # r
                 PROVE  Carries(q)' /\ Recognised(q)'
    OBVIOUS
  <2>2. req'[q] = req[q] /\ Carries(q) /\ Recognised(q)
    BY <2>1 DEF Moves, IInv
  <2>3. QED
    BY <2>2 DEF Carries, Recognised, ByEmail, Stored, IsPasswordCorrect
<1>3. QED
  BY <1>1, <1>2 DEF IInv

LEMMA AnswerKeeps ==
    ASSUME IInv, NEW r \in Requests, NEW code \in Codes, Answer(r, code),
           UNCHANGED <<account, acknowledged>>,
           granted' \in SUBSET (Emails \X Passwords)
    PROVE  IInv'
<1>1. Moves(r) /\ req'[r].pc = "idle"
  BY AnswerMoves DEF IInv
<1>2. QED
  BY <1>1, Resting, QuietStep

LEMMA BeginKeeps ==
    ASSUME IInv, NEW r \in Requests, NEW e \in Emails, NEW p \in Passwords,
           NEW label \in {"signUpLookup", "signInLookup"}, Begin(r, label, e, p)
    PROVE  IInv'
<1>1. /\ Moves(r) /\ req'[r].pc = label /\ req'[r].status = 0
      /\ req'[r].email = e /\ req'[r].password = p
  BY BeginMoves DEF IInv
<1>2. Carries(r)' /\ Recognised(r)'
  BY <1>1 DEF Carries, Recognised
<1>3. UNCHANGED <<account, acknowledged, granted>>
  BY DEF Begin
<1>4. QED
  BY <1>1, <1>2, <1>3, QuietStep DEF IInv, TypeOK

LEMMA SignUpLookupKeeps ==
    ASSUME IInv, NEW r \in Requests, SignUpLookup(r)
    PROVE  IInv'
<1>1. UNCHANGED <<account, acknowledged, granted>>
  BY DEF SignUpLookup
<1>2. CASE Answer(r, 409)
  BY <1>1, <1>2, AnswerKeeps DEF IInv, TypeOK, Codes
<1>3. CASE Goto(r, "hash")
  <2>1. Carries(r) /\ req[r].pc = "signUpLookup" /\ req[r] \in Request
    BY DEF IInv, TypeOK, SignUpLookup, At
  <2>2. req' = [req EXCEPT ![r].pc = "hash"]
    BY <1>3 DEF Goto
  <2>3. /\ Moves(r) /\ req'[r].pc = "hash"
        /\ req'[r].status = req[r].status
        /\ req'[r].email = req[r].email /\ req'[r].password = req[r].password
    BY <2>1, <2>2 DEF Moves, IInv, TypeOK, Request, Pcs
  <2>4. Carries(r)' /\ Recognised(r)'
    BY <2>1, <2>3 DEF Carries, Recognised
  <2>5. QED
    BY <1>1, <2>3, <2>4, QuietStep DEF IInv, TypeOK
<1>4. QED
  BY <1>2, <1>3 DEF SignUpLookup

LEMMA HashPasswordKeeps ==
    ASSUME IInv, NEW r \in Requests, HashPassword(r)
    PROVE  IInv'
<1>1. UNCHANGED <<account, acknowledged, granted>>
  BY DEF HashPassword
<1>2. /\ Carries(r) /\ req[r].pc = "hash" /\ req[r] \in Request
      /\ Hash(req[r].password) \in Hashes
  BY HashIsInjective DEF IInv, TypeOK, HashPassword, At, Carries
<1>3. /\ Moves(r) /\ req'[r].pc = "insert"
      /\ req'[r].status = req[r].status
      /\ req'[r].email = req[r].email
      /\ req'[r].password = Hash(req[r].password)
  BY <1>2 DEF HashPassword, Moves, IInv, TypeOK, Request, Pcs
<1>4. Carries(r)' /\ Recognised(r)'
  BY <1>2, <1>3 DEF Carries, Recognised
<1>5. QED
  BY <1>1, <1>3, <1>4, QuietStep DEF IInv, TypeOK

LEMMA SignInLookupKeeps ==
    ASSUME IInv, NEW r \in Requests, SignInLookup(r)
    PROVE  IInv'
<1>1. UNCHANGED <<account, acknowledged, granted>>
  BY DEF SignInLookup
<1>2. CASE Answer(r, 404)
  BY <1>1, <1>2, AnswerKeeps DEF IInv, TypeOK, Codes
<1>3. ASSUME NEW id \in ByEmail(req[r].email),
             req' = [req EXCEPT ![r] = [@ EXCEPT
                       !.pc = "compare", !.testUser = id]]
      PROVE  IInv'
  <2>1. /\ Carries(r) /\ req[r].pc = "signInLookup" /\ req[r] \in Request
        /\ id \in UserIds
    BY <1>3 DEF IInv, TypeOK, SignInLookup, At, ByEmail, Stored
  <2>2. /\ Moves(r) /\ req'[r].pc = "compare" /\ req'[r].testUser = id
        /\ req'[r].status = req[r].status
        /\ req'[r].email = req[r].email /\ req'[r].password = req[r].password
    BY <1>3, <2>1 DEF Moves, IInv, TypeOK, Request, Pcs
  <2>3. Carries(r)'
    BY <2>1, <2>2 DEF Carries
  <2>4. ByEmail(req[r].email)' = ByEmail(req[r].email)
    BY <1>1, <2>2 DEF ByEmail, Stored
  <2>5. Recognised(r)'
    BY <1>3, <2>2, <2>4 DEF Recognised
  <2>6. QED
    BY <1>1, <2>2, <2>3, <2>5, QuietStep DEF IInv, TypeOK
<1>4. QED
  BY <1>2, <1>3 DEF SignInLookup

LEMMA CompareKeeps ==
    ASSUME IInv, NEW r \in Requests, Compare(r)
    PROVE  IInv'
<1>1. UNCHANGED <<account, acknowledged, granted>>
  BY DEF Compare
<1>2. CASE Answer(r, 401)
  BY <1>1, <1>2, AnswerKeeps DEF IInv, TypeOK, Codes
<1>3. CASE IsPasswordCorrect(r) /\ Goto(r, "sign")
  <2>1. /\ Carries(r) /\ Recognised(r) /\ req[r].pc = "compare"
        /\ req[r] \in Request
    BY DEF IInv, TypeOK, Compare, At
  <2>2. req' = [req EXCEPT ![r].pc = "sign"]
    BY <1>3 DEF Goto
  <2>3. /\ Moves(r) /\ req'[r].pc = "sign"
        /\ req'[r].status = req[r].status
        /\ req'[r].email = req[r].email /\ req'[r].password = req[r].password
        /\ req'[r].testUser = req[r].testUser
    BY <2>1, <2>2 DEF Moves, IInv, TypeOK, Request, Pcs
  <2>4. Carries(r)'
    BY <2>1, <2>3 DEF Carries
  <2>5. Recognised(r)'
    BY <1>1, <1>3, <2>1, <2>3
       DEF Recognised, ByEmail, Stored, IsPasswordCorrect
  <2>6. QED
    BY <1>1, <2>3, <2>4, <2>5, QuietStep DEF IInv, TypeOK
<1>4. QED
  BY <1>2, <1>3 DEF Compare

LEMMA SignTokensKeeps ==
    ASSUME IInv, NEW r \in Requests, SignTokens(r)
    PROVE  IInv' /\ <<req[r].email, req[r].password>> \in Emails \X Passwords
<1>1. req[r].email \in Emails /\ req[r].password \in Passwords
  BY DEF IInv, Carries, SignTokens, At
<1>2. granted' \in SUBSET (Emails \X Passwords)
  BY <1>1 DEF SignTokens, IInv, TypeOK
<1>3. QED
  BY <1>1, <1>2, AnswerKeeps DEF SignTokens, Codes

LEMMA CrashKeeps ==
    ASSUME IInv, Crash
    PROVE  IInv'
<1>1. UNCHANGED <<account, acknowledged, granted>>
  BY DEF Crash
<1>2. \A q \in Requests : req'[q] \in Request /\ req'[q].pc = "idle"
  BY NoRequestType DEF Crash, At, IInv, TypeOK
<1>3. req' \in [Requests -> Request]
  BY <1>2 DEF Crash
<1>4. \A q \in Requests : Carries(q)' /\ Recognised(q)'
  BY <1>2, Resting
<1>5. TypeOK' /\ EmailsAreUnique' /\ AcknowledgedIsStored'
  BY <1>1, <1>3 DEF IInv, TypeOK, EmailsAreUnique, AcknowledgedIsStored,
                    ByEmail, Stored
<1>6. QED
  BY <1>4, <1>5 DEF IInv

-----------------------------------------------------------------------------
(* The insert: one new account, whose email had none. *)

(* What an executed insert does, the id it chose named. *)
Inserts(r, n) ==
    /\ n \in UserIds /\ account[n] = Null
    /\ req[r].email \in Emails /\ req[r].password \in Hashes
    /\ ByEmail(req[r].email) = {}
    /\ account' = [account EXCEPT ![n] =
                     [email |-> req[r].email, password |-> req[r].password]]

LEMMA InsertNamesId ==
    ASSUME IInv, NEW r \in Requests, At(r, "insert"), InsertUser(r)
    PROVE  \E n \in UserIds : Inserts(r, n)
<1>1. PICK n \in UserIds : n = NewId /\ account[n] = Null
  BY NewIdIsUnused DEF InsertUser
<1>2. QED
  BY <1>1 DEF InsertUser, Inserts, Taken, IInv, Carries, At

LEMMA InsertEffect ==
    ASSUME IInv, NEW r \in Requests, NEW n \in UserIds, Inserts(r, n)
    PROVE  /\ account' \in [UserIds -> Accounts \cup {Null}]
           /\ account'[n].email = req[r].email
           /\ account'[n].password = req[r].password
           /\ \A id \in UserIds : id # n => account'[id] = account[id]
           /\ Stored' = Stored \cup {n} /\ n \notin Stored
<1> DEFINE x == [email |-> req[r].email, password |-> req[r].password]
<1>1. /\ x \in Accounts /\ x.email = req[r].email
      /\ x.password = req[r].password
  BY DEF Inserts, Accounts
<1>2. x # Null
  BY <1>1, NullAssumption
<1> HIDE DEF x
<1>3. account' = [account EXCEPT ![n] = x]
  BY DEF Inserts, x
<1>4. account \in [UserIds -> Accounts \cup {Null}]
  BY DEF IInv, TypeOK
<1>5. account'[n] = x /\ \A id \in UserIds : id # n => account'[id] = account[id]
  BY <1>3, <1>4
<1>6. Stored' = Stored \cup {n} /\ n \notin Stored
  BY <1>2, <1>5 DEF Stored, Inserts
<1>7. QED
  BY <1>1, <1>3, <1>4, <1>5, <1>6

LEMMA InsertByEmail ==
    ASSUME IInv, NEW r \in Requests, NEW n \in UserIds, Inserts(r, n),
           NEW CONSTANT e
    PROVE  /\ e = req[r].email => ByEmail(e)' = {n}
           /\ e # req[r].email => ByEmail(e)' = ByEmail(e)
<1>1. /\ account'[n].email = req[r].email
      /\ \A id \in UserIds : id # n => account'[id] = account[id]
      /\ Stored' = Stored \cup {n} /\ n \notin Stored
  BY InsertEffect
<1>2. \A id \in Stored : account[id].email # req[r].email
  BY DEF Inserts, ByEmail
<1>3. Stored \subseteq UserIds
  BY DEF Stored
<1>4. QED
  BY <1>1, <1>2, <1>3 DEF ByEmail

LEMMA InsertKeeps ==
    ASSUME IInv, NEW r \in Requests, NEW n \in UserIds, Inserts(r, n),
           Moves(r), req'[r].pc = "idle", UNCHANGED granted,
           \/ UNCHANGED acknowledged
           \/ acknowledged' = acknowledged \cup
                                {<<req[r].email, req[r].password.bcrypt>>}
    PROVE  IInv'
<1>1. /\ account' \in [UserIds -> Accounts \cup {Null}]
      /\ account'[n].email = req[r].email
      /\ account'[n].password = req[r].password
      /\ \A id \in UserIds : id # n => account'[id] = account[id]
      /\ Stored' = Stored \cup {n} /\ n \notin Stored
  BY InsertEffect
<1>2. /\ req[r].email \in Emails /\ req[r].password \in Hashes
      /\ \A id \in Stored : account[id].email # req[r].email
  BY DEF Inserts, ByEmail
<1>3. /\ req[r].password.bcrypt \in Passwords
      /\ req[r].password = Hash(req[r].password.bcrypt)
  BY <1>2, HashOfPassword
<1>4. Stored \subseteq UserIds
  BY DEF Stored
<1>5. TypeOK'
  BY <1>1, <1>2, <1>3 DEF IInv, TypeOK, Moves
<1>6. EmailsAreUnique'
  BY <1>1, <1>2, <1>4 DEF IInv, EmailsAreUnique
<1>7. \A id \in Stored : id \in Stored' /\ account'[id] = account[id]
  BY <1>1, <1>4
<1>8. AcknowledgedIsStored'
  <2>1. SUFFICES ASSUME NEW e \in Emails, NEW p \in Passwords,
                        <<e, p>> \in acknowledged'
                 PROVE  \E id \in Stored' : /\ account'[id].email = e
                                            /\ account'[id].password = Hash(p)
    BY DEF AcknowledgedIsStored, ByEmail
  <2>2. CASE <<e, p>> \in acknowledged
    <3>1. PICK id \in Stored : /\ account[id].email = e
                               /\ account[id].password = Hash(p)
      BY <2>2 DEF IInv, AcknowledgedIsStored, ByEmail
    <3>2. QED
      BY <3>1, <1>7
  <2>3. CASE <<e, p>> = <<req[r].email, req[r].password.bcrypt>>
    BY <2>3, <1>1, <1>3
  <2>4. QED
    BY <2>1, <2>2, <2>3
<1>9. \A q \in Requests : Carries(q)' /\ Recognised(q)'
  <2>2. SUFFICES ASSUME NEW q \in Requests, q # r
                 PROVE  Carries(q)' /\ Recognised(q)'
    BY Resting
  <2>3. req'[q] = req[q] /\ Carries(q) /\ Recognised(q)
    BY <2>2 DEF Moves, IInv
  <2>4. Carries(q)'
    BY <2>3 DEF Carries
  <2>5. Recognised(q)'
    BY <2>3, <1>7 DEF Recognised, ByEmail, IsPasswordCorrect
  <2>6. QED
    BY <2>4, <2>5
<1>10. QED
  BY <1>5, <1>6, <1>8, <1>9 DEF IInv

-----------------------------------------------------------------------------
LEMMA InitEstablishes == Init => IInv
<1> SUFFICES ASSUME Init PROVE IInv
  OBVIOUS
<1>2. Stored = {}
  BY DEF Init, Stored
<1>3. \A r \in Requests : req[r] \in Request /\ req[r].pc = "idle"
  BY NoRequestType DEF Init
<1>4. TypeOK
  BY <1>3 DEF Init, TypeOK
<1>5. EmailsAreUnique /\ AcknowledgedIsStored
  BY <1>2 DEF Init, EmailsAreUnique, AcknowledgedIsStored
<1>6. \A r \in Requests : Carries(r) /\ Recognised(r)
  BY <1>3 DEF Carries, Recognised
<1>7. QED
  BY <1>4, <1>5, <1>6 DEF IInv

LEMMA NextPreserves == IInv /\ [Next]_vars => IInv'
<1> SUFFICES ASSUME IInv, [Next]_vars PROVE IInv'
  OBVIOUS
<1>2. CASE UNCHANGED vars
  BY <1>2 DEF vars, IInv, TypeOK, EmailsAreUnique, AcknowledgedIsStored,
              ByEmail, Stored, Carries, Recognised, IsPasswordCorrect
<1>3. CASE Crash
  BY <1>3, CrashKeeps
<1>4. ASSUME NEW r \in Requests, Arrive(r) PROVE IInv'
  BY <1>4, BeginKeeps DEF Arrive, SignUp, SignIn
<1>5. ASSUME NEW r \in Requests, Serve(r) PROVE IInv'
  <2>1. CASE SignUpLookup(r)
    BY <2>1, SignUpLookupKeeps
  <2>2. CASE HashPassword(r)
    BY <2>2, HashPasswordKeeps
  <2>3. CASE Create(r)
    <3>1. PICK n \in UserIds : Inserts(r, n)
      BY <2>3, InsertNamesId DEF Create
    <3>2. Moves(r) /\ req'[r].pc = "idle"
      BY <2>3, AnswerMoves DEF Create, IInv, Codes
    <3>3. QED
      BY <2>3, <3>1, <3>2, InsertKeeps DEF Create, InsertUser
  <2>4. CASE CreateConflict(r)
    BY <2>4, AnswerKeeps DEF CreateConflict, Codes, IInv, TypeOK
  <2>5. CASE CreateUnanswered(r)
    <3>1. PICK n \in UserIds : Inserts(r, n)
      BY <2>5, InsertNamesId DEF CreateUnanswered
    <3>2. Moves(r) /\ req'[r].pc = "idle"
      BY <2>5, AnswerMoves DEF CreateUnanswered, IInv, Codes
    <3>3. QED
      BY <2>5, <3>1, <3>2, InsertKeeps DEF CreateUnanswered, InsertUser
  <2>6. CASE SignInLookup(r)
    BY <2>6, SignInLookupKeeps
  <2>7. CASE Compare(r)
    BY <2>7, CompareKeeps
  <2>8. CASE SignTokens(r)
    BY <2>8, SignTokensKeeps
  <2>9. CASE DbError(r)
    BY <2>9, AnswerKeeps DEF DbError, Codes, IInv, TypeOK
  <2>10. QED
    BY <1>5, <2>1, <2>2, <2>3, <2>4, <2>5, <2>6, <2>7, <2>8, <2>9 DEF Serve
<1>6. QED
  BY <1>2, <1>3, <1>4, <1>5 DEF Next

LEMMA Invariance == Spec => []IInv
  BY InitEstablishes, NextPreserves, PTL DEF Spec

-----------------------------------------------------------------------------
(* Which steps give which answers. *)

LEMMA ServesOnlyOne ==
    ASSUME NEW r \in Requests, NEW q \in Requests, Serve(r), q # r,
           req \in [Requests -> Request]
    PROVE  req'[q] = req[q]
<1>1. CASE \E code \in Codes : Answer(r, code)
  BY <1>1 DEF Answer
<1>2. CASE \E label \in Pcs : Goto(r, label)
  BY <1>2 DEF Goto
<1>3. CASE HashPassword(r)
  BY <1>3 DEF HashPassword
<1>4. CASE SignInLookup(r)
  <2>1. ASSUME NEW id \in ByEmail(req[r].email),
               req' = [req EXCEPT ![r] = [@ EXCEPT
                         !.pc = "compare", !.testUser = id]]
        PROVE  req'[q] = req[q]
    BY <2>1
  <2>2. CASE Answer(r, 404)
    BY <1>1, <2>2 DEF Codes
  <2>3. QED
    BY <1>4, <2>1, <2>2 DEF SignInLookup
<1>5. QED
  BY <1>1, <1>2, <1>3, <1>4
     DEF Serve, SignUpLookup, Create, CreateConflict, CreateUnanswered,
         Compare, SignTokens, DbError, Codes, Pcs

LEMMA AnswersOfStep ==
    ASSUME IInv, [Next]_vars, NEW q \in Requests, ~At(q, "idle")
    PROVE  /\ req'[q].status = 404 =>
                SignInLookup(q) /\ ByEmail(req[q].email) = {}
           /\ req'[q].status = 401 => Compare(q) /\ ~IsPasswordCorrect(q)
<1>1. /\ req[q].status = 0 /\ req[q] \in Request
      /\ req \in [Requests -> Request]
  BY DEF IInv, Carries, At, TypeOK
<1>2. CASE req'[q].status = 0
  BY <1>2
<1>3. CASE UNCHANGED vars
  BY <1>1, <1>3 DEF vars
<1>4. CASE Crash
  BY <1>1, <1>4, NoRequestType DEF Crash
<1>5. ASSUME NEW r \in Requests, Arrive(r) PROVE req'[q].status = 0
  <2>1. q # r
    BY <1>5 DEF Arrive, SignUp, SignIn, Begin
  <2>2. req'[q] = req[q]
    BY <1>1, <1>5, <2>1 DEF Arrive, SignUp, SignIn, Begin
  <2>3. QED
    BY <1>1, <2>2
<1>6. ASSUME NEW r \in Requests, Serve(r), r # q PROVE req'[q].status = 0
  BY <1>1, <1>6, ServesOnlyOne
<1>7. CASE Serve(q)
  <2>1. ASSUME NEW code \in Codes, Answer(q, code)
        PROVE  req'[q].status = code
    BY <2>1, AnswerMoves DEF IInv
  <2>2. ASSUME NEW label \in Pcs, Goto(q, label)
        PROVE  req'[q].status = 0
    BY <1>1, <2>2 DEF Goto, Request
  <2>3. CASE SignUpLookup(q)
    BY <2>1, <2>2, <2>3 DEF SignUpLookup, Codes, Pcs
  <2>4. CASE HashPassword(q)
    BY <1>1, <2>4 DEF HashPassword, Request
  <2>5. CASE Create(q)
    BY <2>1, <2>5 DEF Create, Codes
  <2>6. CASE CreateConflict(q)
    BY <2>1, <2>6 DEF CreateConflict, Codes, Taken
  <2>7. CASE CreateUnanswered(q)
    BY <2>1, <2>7 DEF CreateUnanswered, Codes
  <2>8. CASE SignInLookup(q)
    <3>1. ASSUME NEW id \in ByEmail(req[q].email),
                 req' = [req EXCEPT ![q] = [@ EXCEPT
                           !.pc = "compare", !.testUser = id]]
          PROVE  req'[q].status = 0
      BY <1>1, <3>1 DEF Request
    <3>2. CASE ByEmail(req[q].email) = {} /\ Answer(q, 404)
      <4>1. req'[q].status = 404
        BY <2>1, <3>2 DEF Codes
      <4>2. QED
        BY <2>8, <3>2, <4>1
    <3>3. req'[q].status = 0 \/ (ByEmail(req[q].email) = {} /\ Answer(q, 404))
      BY <2>8, <3>1 DEF SignInLookup
    <3>4. QED
      BY <1>2, <3>2, <3>3
  <2>9. CASE Compare(q)
    BY <2>1, <2>2, <2>9 DEF Compare, Codes, Pcs
  <2>10. CASE SignTokens(q)
    BY <2>1, <2>10 DEF SignTokens, Codes
  <2>11. CASE DbError(q)
    BY <2>1, <2>11 DEF DbError, Codes
  <2>12. QED
    BY <1>7, <2>3, <2>4, <2>5, <2>6, <2>7, <2>8, <2>9, <2>10, <2>11 DEF Serve
<1>8. QED
  BY <1>2, <1>3, <1>4, <1>5, <1>6, <1>7 DEF Next

-----------------------------------------------------------------------------
(* Theorems. *)

(* The variables keep their types: a stored password is always a hash, and *)
(* a hash of a password, never of a hash.                                  *)
THEOREM TypeCorrect == Spec => []TypeOK
  BY Invariance, PTL DEF IInv

(* However many sign-ups race past the lookup, no email gets two accounts. *)
THEOREM UniqueEmails == Spec => []EmailsAreUnique
  BY Invariance, PTL DEF IInv

(* A sign-up that was answered 201 can be signed in with, for ever. *)
THEOREM AcknowledgedAreRecognised == Spec => AcknowledgedUsersCanSignIn
<1>1. ASSUME IInv, [Next]_vars, NEW r \in Requests, Rejected(r)
      PROVE  <<req[r].email, req[r].password>> \notin acknowledged
  <2>1. SUFFICES ASSUME <<req[r].email, req[r].password>> \in acknowledged
                 PROVE  FALSE
    OBVIOUS
  <2>2. PICK id \in ByEmail(req[r].email) :
               account[id].password = Hash(req[r].password)
    <3>1. req[r].email \in Emails /\ req[r].password \in Passwords
      BY <1>1, <2>1 DEF IInv, TypeOK
    <3>2. QED
      BY <1>1, <2>1, <3>1 DEF IInv, AcknowledgedIsStored
  <2>3. req'[r].status \in {401, 404} /\ ~At(r, "idle")
    BY <1>1 DEF Rejected
  <2>4. Compare(r) /\ ~IsPasswordCorrect(r)
    BY <1>1, <2>2, <2>3, AnswersOfStep
  <2>5. req[r].testUser \in ByEmail(req[r].email)
    BY <1>1, <2>4 DEF IInv, Recognised, Compare, At
  <2>6. req[r].testUser = id
    BY <1>1, <2>2, <2>5 DEF IInv, EmailsAreUnique, ByEmail
  <2>7. QED
    BY <2>2, <2>4, <2>6 DEF IsPasswordCorrect
<1>2. IInv /\ [Next]_vars =>
        [\A r \in Requests :
           Rejected(r) => <<req[r].email, req[r].password>> \notin acknowledged
        ]_vars
  BY <1>1
<1>3. QED
  BY <1>2, Invariance, PTL DEF Spec, AcknowledgedUsersCanSignIn

-----------------------------------------------------------------------------
(* The refinement of AccountRegistry. *)

RegisteredOK ==
    \A e \in Emails :
        /\ ByEmail(e) = {} => Registered(e) = Null
        /\ \A id \in ByEmail(e) :
              /\ Registered(e) \in Passwords
              /\ account[id].password = Hash(Registered(e))

LEMMA RegisteredIsStored == IInv => RegisteredOK
<1> SUFFICES ASSUME IInv, NEW e \in Emails
             PROVE  /\ ByEmail(e) = {} => Registered(e) = Null
                    /\ \A id \in ByEmail(e) :
                          /\ Registered(e) \in Passwords
                          /\ account[id].password = Hash(Registered(e))
  BY DEF RegisteredOK
<1>1. ByEmail(e) = {} => Registered(e) = Null
  BY DEF Registered
<1>2. ASSUME NEW id \in ByEmail(e)
      PROVE  /\ Registered(e) \in Passwords
             /\ account[id].password = Hash(Registered(e))
  <2>1. PICK i \in ByEmail(e) : Registered(e) = account[i].password.bcrypt
    BY <1>2 DEF Registered
  <2>2. i = id
    BY <1>2, <2>1 DEF IInv, EmailsAreUnique, ByEmail
  <2>3. account[id].password \in Hashes
    BY <1>2 DEF IInv, TypeOK, ByEmail, Stored, Accounts
  <2>4. QED
    BY <2>1, <2>2, <2>3, HashOfPassword
<1>3. QED
  BY <1>1, <1>2

(* What RegisteredIsStored says before and after a step. *)
LEMMA RegisteredKept ==
    ASSUME RegisteredOK, RegisteredOK', NEW CONSTANT e \in Emails,
           ByEmail(e)' = ByEmail(e),
           \A id \in ByEmail(e) : account'[id] = account[id]
    PROVE  Registered(e)' = Registered(e)
<1>1. CASE ByEmail(e) = {}
  BY <1>1 DEF RegisteredOK
<1>2. ASSUME NEW id \in ByEmail(e)
      PROVE  Registered(e)' = Registered(e)
  <2>1. account[id].password = Hash(Registered(e))
    BY <1>2 DEF RegisteredOK
  <2>2. account'[id].password = Hash(Registered(e)')
    BY <1>2 DEF RegisteredOK
  <2>3. Hash(Registered(e)) = Hash(Registered(e)')
    BY <1>2, <2>1, <2>2
  <2>4. QED
    BY <2>3 DEF Hash
<1>3. QED
  BY <1>1, <1>2

LEMMA SameAccountsSameRegistry ==
    ASSUME RegisteredOK, RegisteredOK', UNCHANGED account
    PROVE  \A e \in Emails : Registered(e)' = Registered(e)
<1>1. SUFFICES ASSUME NEW CONSTANT e \in Emails
               PROVE  Registered(e)' = Registered(e)
  OBVIOUS
<1>2. ByEmail(e)' = ByEmail(e)
  BY DEF ByEmail, Stored
<1>3. QED
  BY <1>2, RegisteredKept

LEMMA InsertRegisters ==
    ASSUME IInv, RegisteredOK, RegisteredOK',
           NEW r \in Requests, NEW n \in UserIds, Inserts(r, n),
           NEW CONSTANT e \in Emails, NEW CONSTANT p \in Passwords,
           e = req[r].email, p = req[r].password.bcrypt,
           UNCHANGED granted,
           \/ UNCHANGED acknowledged
           \/ acknowledged' = acknowledged \cup {<<e, p>>}
    PROVE  Registry!Register(e, p)
<1>1. ByEmail(e) = {} /\ req[r].password \in Hashes
  BY DEF Inserts
<1>2. Registered(e) = Null
  BY <1>1 DEF RegisteredOK
<1>3. Registered(e)' = p
  <2>1. ByEmail(e)' = {n}
    BY InsertByEmail
  <2>2. account'[n].password = Hash(p)
    BY <1>1, InsertEffect, HashOfPassword
  <2>3. account'[n].password = Hash(Registered(e)')
    BY <2>1 DEF RegisteredOK
  <2>4. QED
    BY <2>2, <2>3 DEF Hash
<1>4. ASSUME NEW CONSTANT d \in Emails, d # e
      PROVE  Registered(d)' = Registered(d)
  <2>1. ByEmail(d)' = ByEmail(d)
    BY <1>4, InsertByEmail
  <2>2. \A id \in ByEmail(d) : account'[id] = account[id]
    BY InsertEffect DEF ByEmail, Stored
  <2>3. QED
    BY <2>1, <2>2, RegisteredKept
<1>5. [d \in Emails |-> Registered(d)]' =
        [[d \in Emails |-> Registered(d)] EXCEPT ![e] = p]
  BY <1>3, <1>4
<1>6. QED
  BY <1>2, <1>5 DEF Registry!Register

LEMMA SignTokensGrants ==
    ASSUME IInv, RegisteredOK, RegisteredOK', NEW r \in Requests, SignTokens(r)
    PROVE  \E e \in Emails, p \in Passwords : Registry!Grant(e, p)
<1>1. /\ req[r].email \in Emails /\ req[r].password \in Passwords
      /\ req[r].testUser \in ByEmail(req[r].email)
      /\ account[req[r].testUser].password = Hash(req[r].password)
  BY DEF IInv, Carries, Recognised, IsPasswordCorrect, SignTokens, At
<1>2. PICK e \in Emails, p \in Passwords :
             e = req[r].email /\ p = req[r].password
  BY <1>1
<1>3. Registered(e) = p
  <2>1. PICK id \in ByEmail(e) : account[id].password = Hash(p)
    BY <1>1, <1>2
  <2>2. account[id].password = Hash(Registered(e))
    BY <2>1 DEF RegisteredOK
  <2>3. QED
    BY <2>1, <2>2 DEF Hash
<1>4. [d \in Emails |-> Registered(d)]' = [d \in Emails |-> Registered(d)]
  BY SameAccountsSameRegistry DEF SignTokens
<1>5. Registry!Grant(e, p)
  BY <1>2, <1>3, <1>4 DEF Registry!Grant, SignTokens
<1>6. QED
  BY <1>5

LEMMA QuietIsStutter ==
    ASSUME RegisteredOK, RegisteredOK',
           UNCHANGED <<account, acknowledged, granted>>
    PROVE  UNCHANGED Registry!vars
<1>1. [d \in Emails |-> Registered(d)]' = [d \in Emails |-> Registered(d)]
  BY SameAccountsSameRegistry
<1>2. QED
  BY <1>1 DEF Registry!vars

LEMMA InitRefines == Init => Registry!Init
<1> SUFFICES ASSUME Init PROVE Registry!Init
  OBVIOUS
<1>1. \A e \in Emails : Registered(e) = Null
  BY DEF Init, Registered, ByEmail, Stored
<1>2. QED
  BY <1>1 DEF Init, Registry!Init

LEMMA StepRefines ==
    IInv /\ RegisteredOK /\ RegisteredOK' /\ [Next]_vars
      => [Registry!Next]_(Registry!vars)
<1> SUFFICES ASSUME IInv, RegisteredOK, RegisteredOK', [Next]_vars
             PROVE  Registry!Next \/ UNCHANGED Registry!vars
  OBVIOUS
<1>1. CASE UNCHANGED <<account, acknowledged, granted>>
  BY <1>1, QuietIsStutter
<1>2. ASSUME NEW r \in Requests, SignTokens(r) PROVE Registry!Next
  BY <1>2, SignTokensGrants DEF Registry!Next
<1>3. ASSUME NEW r \in Requests, Create(r) \/ CreateUnanswered(r)
      PROVE  Registry!Next
  <2>1. PICK n \in UserIds : Inserts(r, n)
    BY <1>3, InsertNamesId DEF Create, CreateUnanswered
  <2>2. PICK e \in Emails, p \in Passwords :
               e = req[r].email /\ p = req[r].password.bcrypt
    BY <2>1, HashOfPassword DEF Inserts
  <2>3. UNCHANGED granted
    BY <1>3 DEF Create, CreateUnanswered, InsertUser
  <2>4. UNCHANGED acknowledged \/ acknowledged' = acknowledged \cup {<<e, p>>}
    BY <1>3, <2>2 DEF Create, CreateUnanswered
  <2>5. Registry!Register(e, p)
    BY <2>1, <2>2, <2>3, <2>4, InsertRegisters
  <2>6. QED
    BY <2>5 DEF Registry!Next
<1>4. CASE UNCHANGED vars
  BY <1>1, <1>4 DEF vars
<1>5. CASE Crash
  BY <1>1, <1>5 DEF Crash
<1>6. ASSUME NEW r \in Requests, Arrive(r)
      PROVE  UNCHANGED <<account, acknowledged, granted>>
  BY <1>6 DEF Arrive, SignUp, SignIn, Begin
<1>7. ASSUME NEW r \in Requests, Serve(r)
      PROVE  Registry!Next \/ UNCHANGED Registry!vars
  BY <1>1, <1>2, <1>3, <1>7
     DEF Serve, SignUpLookup, HashPassword, CreateConflict, SignInLookup,
         Compare, DbError
<1>8. QED
  BY <1>1, <1>4, <1>5, <1>6, <1>7 DEF Next

(* Sign-up and sign-in implement the registry of write-once passwords.     *)
THEOREM AccountsRefineRegistry == Spec => ImplementsRegistry
<1>1. IInv => RegisteredOK
  BY RegisteredIsStored
<1>2. IInv /\ RegisteredOK /\ RegisteredOK' /\ [Next]_vars
        => [Registry!Next]_(Registry!vars)
  BY StepRefines
<1>3. QED
  BY <1>1, <1>2, InitRefines, Invariance, PTL
     DEF Spec, ImplementsRegistry, Registry!Spec

-----------------------------------------------------------------------------
(* Consequences for the clients. *)

(* Credentials that were given tokens are those of a stored account. *)
GrantedIsStored ==
    \A e \in Emails, p \in Passwords :
        <<e, p>> \in granted =>
            \E id \in ByEmail(e) : account[id].password = Hash(p)

(* Accounts are never changed or removed. *)
AccountsAreFinal == \A id \in Stored : id \in Stored' /\ account'[id] = account[id]

LEMMA StepKeepsAccounts == IInv /\ [Next]_vars => [AccountsAreFinal]_vars
<1> SUFFICES ASSUME IInv, [Next]_vars PROVE AccountsAreFinal
  OBVIOUS
<1>1. CASE UNCHANGED account
  BY <1>1 DEF AccountsAreFinal, Stored
<1>2. ASSUME NEW r \in Requests, Create(r) \/ CreateUnanswered(r)
      PROVE  AccountsAreFinal
  <2>1. PICK n \in UserIds : Inserts(r, n)
    BY <1>2, InsertNamesId DEF Create, CreateUnanswered
  <2>2. QED
    BY <2>1, InsertEffect DEF AccountsAreFinal, Stored
<1>3. QED
  BY <1>1, <1>2 DEF Next, vars, Crash, Arrive, SignUp, SignIn, Begin, Serve,
     SignUpLookup, HashPassword, CreateConflict, SignInLookup, Compare,
     SignTokens, DbError

LEMMA GrantedStep == IInv /\ GrantedIsStored /\ [Next]_vars => GrantedIsStored'
<1> SUFFICES ASSUME IInv, GrantedIsStored, [Next]_vars,
                    NEW e \in Emails, NEW p \in Passwords, <<e, p>> \in granted'
             PROVE  \E id \in ByEmail(e)' : account'[id].password = Hash(p)
  BY DEF GrantedIsStored
<1>1. AccountsAreFinal
  BY StepKeepsAccounts DEF AccountsAreFinal, Stored, vars
<1>2. ASSUME NEW id \in ByEmail(e), account[id].password = Hash(p)
      PROVE  \E i \in ByEmail(e)' : account'[i].password = Hash(p)
  BY <1>1, <1>2 DEF AccountsAreFinal, ByEmail
<1>3. CASE <<e, p>> \in granted
  BY <1>2, <1>3 DEF GrantedIsStored
<1>4. CASE <<e, p>> \notin granted
  <2>1. PICK r \in Requests : SignTokens(r)
    BY <1>4 DEF Next, vars, Crash, Arrive, SignUp, SignIn, Begin, Serve,
       SignUpLookup, HashPassword, Create, CreateUnanswered, InsertUser,
       CreateConflict, SignInLookup, Compare, DbError
  <2>2. e = req[r].email /\ p = req[r].password
    BY <1>4, <2>1 DEF SignTokens
  <2>3. /\ req[r].testUser \in ByEmail(e)
        /\ account[req[r].testUser].password = Hash(p)
    BY <2>1, <2>2 DEF IInv, Recognised, IsPasswordCorrect, SignTokens, At
  <2>4. QED
    BY <1>2, <2>3
<1>5. QED
  BY <1>3, <1>4

(* Of the sign-ups that race for an email, whatever passwords they bring,  *)
(* one password is acknowledged, and tokens are given for no other.        *)
OnePasswordPerEmail ==
    \A e \in Emails, p, q \in Passwords :
        /\ <<e, p>> \in acknowledged \cup granted
        /\ <<e, q>> \in acknowledged \cup granted
        => p = q

(* All answers 201 for an email, of sign-ups and of sign-ins, before and   *)
(* after any crash, were given for one and the same password, and tokens   *)
(* only for one that is stored.                                            *)
THEOREM OneOwnerPerEmail == Spec => [](OnePasswordPerEmail /\ GrantedIsStored)
<1>1. Init => GrantedIsStored
  BY DEF Init, GrantedIsStored
<1>2. IInv /\ GrantedIsStored => OnePasswordPerEmail
  <2> SUFFICES ASSUME IInv, GrantedIsStored,
                      NEW e \in Emails, NEW p \in Passwords, NEW q \in Passwords,
                      <<e, p>> \in acknowledged \cup granted,
                      <<e, q>> \in acknowledged \cup granted
               PROVE  p = q
    BY DEF OnePasswordPerEmail
  <2>1. PICK i \in ByEmail(e) : account[i].password = Hash(p)
    BY DEF IInv, AcknowledgedIsStored, GrantedIsStored
  <2>2. PICK j \in ByEmail(e) : account[j].password = Hash(q)
    BY DEF IInv, AcknowledgedIsStored, GrantedIsStored
  <2>3. i = j
    BY <2>1, <2>2 DEF IInv, EmailsAreUnique, ByEmail
  <2>4. QED
    BY <2>1, <2>2, <2>3, HashIsInjective
<1>3. QED
  BY <1>1, <1>2, GrantedStep, Invariance, PTL DEF Spec

(* No request, failure or crash changes the password of an account or      *)
(* frees its email.                                                        *)
THEOREM StoredAccountsAreFinal == Spec => [][AccountsAreFinal]_vars
<1>1. IInv /\ [Next]_vars => [AccountsAreFinal]_vars
  BY StepKeepsAccounts
<1>2. QED
  BY <1>1, Invariance, PTL DEF Spec
=============================================================================
