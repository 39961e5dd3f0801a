---------------------------- MODULE UserAccounts ----------------------------
(***************************************************************************)
(* Sign-up and sign-in: AuthService.singUp and signIn over the User        *)
(* collection, with the Prisma middleware that hashes passwords.           *)
(*                                                                         *)
(* As in TokenService, an action is one awaited call with the code that    *)
(* resumes on its answer; several requests are served at the same time.    *)
(* Accounts are created here and never changed or deleted by the program.  *)
(* DTO validation is in front of every route and changes no state: the     *)
(* requests modelled here are those that passed it.                        *)
(***************************************************************************)
EXTENDS FiniteSets, Integers

CONSTANTS
    Emails, Passwords,
    UserIds,       \* the ObjectIds the database can generate
    Requests,      \* request slots
    Null

(* bcrypt: what a stored password is.  Salts tell no two hashes apart here. *)
Hash(p) == [bcrypt |-> p]
Hashes  == [bcrypt : Passwords]

Accounts == [email : Emails, password : Hashes]

ASSUME NullAssumption ==
    Null \notin Accounts \cup Hashes \cup Passwords \cup Emails \cup UserIds

VARIABLES
    account,        \* account[id]: the document stored under id, or Null
    req,            \* req[r]: the request in slot r
    acknowledged,   \* history: the credentials of sign-ups answered 201
    granted         \* history: the credentials of sign-ins answered 201

vars == <<account, req, acknowledged, granted>>

Pcs == {"idle", "signUpLookup", "hash", "insert",
        "signInLookup", "compare", "sign"}

Codes == {0, 201, 401, 404, 409, 500}

Request ==
    [pc       : Pcs,
     email    : Emails \cup {Null},
     password : Passwords \cup Hashes \cup {Null},   \* dto.password
     testUser : UserIds \cup {Null},
     status   : Codes]

NoRequest == [pc |-> "idle", email |-> Null, password |-> Null,
              testUser |-> Null, status |-> 0]

TypeOK ==
    /\ account \in [UserIds -> Accounts \cup {Null}]
    /\ req \in [Requests -> Request]
    /\ acknowledged \in SUBSET (Emails \X Passwords)
    /\ granted \in SUBSET (Emails \X Passwords)

Init ==
    /\ account = [id \in UserIds |-> Null]
    /\ req = [r \in Requests |-> NoRequest]
    /\ acknowledged = {}
    /\ granted = {}

-----------------------------------------------------------------------------
Stored      == {id \in UserIds : account[id] # Null}
Unused      == {id \in UserIds : account[id] = Null}
ByEmail(e)  == {id \in Stored : account[id].email = e}

At(r, label)   == req[r].pc = label
Goto(r, label) == req' = [req EXCEPT ![r].pc = label]

Answer(r, code) ==
    req' = [req EXCEPT ![r] = [NoRequest EXCEPT !.status = code]]

Begin(r, label, e, p) ==
    /\ At(r, "idle")
    /\ req' = [req EXCEPT ![r] = [NoRequest EXCEPT
                 !.pc = label, !.email = e, !.password = p]]
    /\ UNCHANGED <<account, acknowledged, granted>>

(* Bound: a sign-up starts only when an id is left for it. *)
SigningUp == {r \in Requests : req[r].pc \in {"signUpLookup", "hash", "insert"}}
RoomForAccount == Cardinality(Unused) > Cardinality(SigningUp)

-----------------------------------------------------------------------------
(* POST /auth/sign-up *)

SignUp(r, e, p) == RoomForAccount /\ Begin(r, "signUpLookup", e, p)

SignUpLookup(r) ==
    /\ At(r, "signUpLookup")
    /\ IF ByEmail(req[r].email) # {} THEN Answer(r, 409) ELSE Goto(r, "hash")
    /\ UNCHANGED <<account, acknowledged, granted>>

(* Mutant: the middleware is registered twice, and hashes the hash. *)
HashPasswordTwice(r) ==
    /\ At(r, "hash")
    /\ req' = [req EXCEPT ![r] = [@ EXCEPT
                 !.pc = "insert", !.password = Hash(Hash(req[r].password))]]
    /\ UNCHANGED <<account, acknowledged, granted>>

(* The middleware overwrites the password in the arguments of the query. *)
HashPassword(r) ==
    /\ At(r, "hash")
    /\ req' = [req EXCEPT ![r] = [@ EXCEPT
                 !.pc = "insert", !.password = Hash(req[r].password)]]
    /\ UNCHANGED <<account, acknowledged, granted>>

(* Mutant: prisma db push was not run, the collection has no unique index. *)
TakenNever(e) == FALSE

(* email String @unique *)
Taken(e) == ByEmail(e) # {}

(* @default(auto()): an ObjectId that was never generated before. *)
NewId == CHOOSE id \in UserIds : account[id] = Null

InsertUser(r) ==
    /\ Unused # {} /\ ~Taken(req[r].email)
    /\ account' = [account EXCEPT ![NewId] =
                     [email |-> req[r].email, password |-> req[r].password]]
    /\ UNCHANGED granted

Create(r) ==
    /\ At(r, "insert")
    /\ InsertUser(r)
    /\ Answer(r, 201)
    /\ acknowledged' = acknowledged \cup
                         {<<req[r].email, req[r].password.bcrypt>>}

(* The unique index refuses the insert: P2002, which the filter maps to 409. *)
CreateConflict(r) ==
    /\ At(r, "insert")
    /\ Taken(req[r].email)
    /\ Answer(r, 409)
    /\ UNCHANGED <<account, acknowledged, granted>>

(* The insert is executed, its answer is lost, the client is told 500. *)
CreateUnanswered(r) ==
    /\ At(r, "insert")
    /\ InsertUser(r)
    /\ Answer(r, 500)
    /\ UNCHANGED acknowledged

-----------------------------------------------------------------------------
(* POST /auth/sign-in *)

SignIn(r, e, p) == Begin(r, "signInLookup", e, p)

SignInLookup(r) ==
    /\ At(r, "signInLookup")
    /\ \/ \E id \in ByEmail(req[r].email) :
            req' = [req EXCEPT ![r] = [@ EXCEPT
                      !.pc = "compare", !.testUser = id]]
       \/ ByEmail(req[r].email) = {} /\ Answer(r, 404)
    /\ UNCHANGED <<account, acknowledged, granted>>

(* bcrypt.compare with the hash that the lookup has returned; it is still   *)
(* the one stored, since no account is ever changed.                        *)
IsPasswordCorrect(r) ==
    account[req[r].testUser].password = Hash(req[r].password)

(* Mutant: isPasswordCorrect is not awaited, and a promise is truthy. *)
CompareNotAwaited(r) ==
    /\ At(r, "compare")
    /\ Goto(r, "sign")
    /\ UNCHANGED <<account, acknowledged, granted>>

Compare(r) ==
    /\ At(r, "compare")
    /\ IF IsPasswordCorrect(r) THEN Goto(r, "sign") ELSE Answer(r, 401)
    /\ UNCHANGED <<account, acknowledged, granted>>

(* tokenService.sign, which TokenService models call by call. *)
SignTokens(r) ==
    /\ At(r, "sign")
    /\ Answer(r, 201)
    /\ granted' = granted \cup {<<req[r].email, req[r].password>>}
    /\ UNCHANGED <<account, acknowledged>>

-----------------------------------------------------------------------------
(* A database call fails: 500. *)
DbError(r) ==
    /\ req[r].pc \in {"signUpLookup", "insert", "signInLookup", "sign"}
    /\ Answer(r, 500)
    /\ UNCHANGED <<account, acknowledged, granted>>

Crash ==
    /\ \E r \in Requests : ~At(r, "idle")
    /\ req' = [r \in Requests |-> IF At(r, "idle") THEN req[r] ELSE NoRequest]
    /\ UNCHANGED <<account, acknowledged, granted>>

Serve(r) ==
    \/ SignUpLookup(r) \/ HashPassword(r)
    \/ Create(r) \/ CreateConflict(r) \/ CreateUnanswered(r)
    \/ SignInLookup(r) \/ Compare(r) \/ SignTokens(r)
    \/ DbError(r)

Arrive(r) == \E e \in Emails, p \in Passwords : SignUp(r, e, p) \/ SignIn(r, e, p)

Next == Crash \/ \E r \in Requests : Arrive(r) \/ Serve(r)

Spec == Init /\ [][Next]_vars

-----------------------------------------------------------------------------
Registered(e) ==
    LET ids == ByEmail(e)
    IN  IF ids = {} THEN Null
        ELSE account[CHOOSE id \in ids : TRUE].password.bcrypt

Registry == INSTANCE AccountRegistry WITH
    Free <- Null,
    registry <- [e \in Emails |-> Registered(e)]

(* However sign-ups of one email race, fail or crash, its first insert     *)
(* decides the password for good, only that one is answered 201, and       *)
(* tokens go to nobody who does not know the password.                     *)
ImplementsRegistry == Registry!Spec

(* Two accounts never share an email. *)
EmailsAreUnique ==
    \A i, j \in Stored : account[i].email = account[j].email => i = j

Rejected(r) == ~At(r, "idle") /\ req[r].status' \in {401, 404}

(* Whoever was told 201 by sign-up is never refused by a sign-in that      *)
(* presents the same credentials.                                          *)
AcknowledgedUsersCanSignIn ==
    [][\A r \in Requests :
        Rejected(r) => <<req[r].email, req[r].password>> \notin acknowledged
      ]_vars
=============================================================================
