----------------------------- MODULE CaslAccess -----------------------------
(***************************************************************************)
(* One request on its way through AccessGuard and the handler behind it.   *)
(*                                                                         *)
(* The guard and the handler share request.casl, in which the proxies      *)
(* remember the user and the subject that the hooks have returned.  Hooks  *)
(* read the database, and the database may change between two of them.     *)
(***************************************************************************)
EXTENDS CaslAbility

CONSTANTS
    Ids,            \* of users, and of the instances they own
    Types,          \* subject classes
    RoleLists,      \* the lists of roles a user can have
    Configs,        \* options of CaslModule: permissions, superuserRole, userHook
    Abilities       \* @UseAbility: action, subject, subjectHook, usesConditions

ASSUME AbilitiesAssumption ==
    \A a \in Abilities : a.subject \in Types /\ a.subjectHook \in BOOLEAN

Users     == [id : Ids, roles : RoleLists]
Instances == [type : Types, id : Ids]

ASSUME NullAssumption ==
    /\ Null \notin Users \cup Instances \cup Abilities
    /\ \A query \in SUBSET Instances : query # Null

(* Permissions define lists of rules, of any length. *)
ASSUME RulesAssumption ==
    \A c \in Configs, u \in Users :
        LET rules == CreateForUser(c.permissions, u)
        IN  Len(rules) \in Nat /\ DOMAIN rules = 1..Len(rules)

VARIABLES
    config,         \* the options of the application
    request,        \* user (Null: none), ability (Null: no @UseAbility), target
    stored,         \* what the hooks find now: stored.user, stored.subject
    casl,           \* request.casl: user, subject, conditions
    pc,
    status,         \* the response, 0 before it
    checked,        \* history: the instance the guard has matched, or Null
    handled         \* history: the subject the handler was given, or Null

vars == <<config, request, stored, casl, pc, status, checked, handled>>

Requests == [user : Users \cup {Null}, ability : Abilities \cup {Null}, target : Ids]

(* Nothing ever assigns config. *)
TypeOK ==
    /\ request \in Requests
    /\ stored \in [user : Users \cup {Null}, subject : BOOLEAN]
    /\ casl \in [user : Users \cup {Null}, subject : Instances \cup {Null},
                 conditions : BOOLEAN]
    /\ pc \in {"guard", "subjectHook", "userHook",
               "handlerUser", "handlerSubject", "done"}
    /\ status \in {0, 200, 403, 500}
    /\ checked \in Instances \cup {Null}
    /\ handled \in Instances \cup {Null}

Init ==
    /\ config \in Configs
    /\ request \in Requests
    /\ stored = [user |-> request.user, subject |-> TRUE]
    /\ casl = [user |-> Null, subject |-> Null, conditions |-> FALSE]
    /\ pc = "guard"
    /\ status = 0
    /\ checked = Null
    /\ handled = Null

-----------------------------------------------------------------------------
ability == request.ability

Target == [type |-> ability.subject, id |-> request.target]

StoredInstances == {s \in Instances : s.type = ability.subject}

RulesOf(user) == CreateForUser(config.permissions, user)

MayClass(user) == CanClass(RulesOf(user), ability.action, ability.subject)

Relevant == {RulesOf(request.user)[i] : i \in
                RulesFor(RulesOf(request.user), ability.action, ability.subject)}

Goto(label) == pc' = label /\ UNCHANGED status

Respond(code) == pc' = "done" /\ status' = code

(* Mutant: the guard throws UnauthorizedException. *)
DecideUnauthorized(allowed) ==
    IF allowed THEN Goto("handlerUser") ELSE Respond(401)

(* A guard that returns false is answered 403 by the framework. *)
Decide(allowed) == IF allowed THEN Goto("handlerUser") ELSE Respond(403)

(* What a run of the hooks returns. *)
HookedUser    == IF config.userHook THEN stored.user ELSE Null
HookedSubject == IF ability.subjectHook /\ stored.subject THEN Target ELSE Null

(* The proxies run a hook until it has returned something. *)
GetUser    == IF casl.user # Null THEN casl.user ELSE HookedUser
GetSubject == IF casl.subject # Null THEN casl.subject ELSE HookedSubject

-----------------------------------------------------------------------------
(* AccessService.canActivateAbility *)

NoAccess ==
    /\ pc = "guard"
    /\ request.user = Null \/ ability = Null
    /\ Respond(403)
    /\ UNCHANGED <<config, request, stored, casl, checked, handled>>

Guarded ==
    /\ pc = "guard"
    /\ request.user # Null /\ ability # Null

(* Mutant: the shortcut was dropped, the superuser is matched like anyone. *)
NoSuperuser(user) == FALSE

Superuser(user) == IsSuperuser(config.superuserRole, user)

Always ==
    /\ Guarded /\ Superuser(request.user)
    /\ Goto("handlerUser")
    /\ UNCHANGED <<config, request, stored, casl, checked, handled>>

ClassSuffices ==
    \/ \E rule \in Relevant : ~Conditional(rule)
    \/ ~ability.subjectHook

CheckClass ==
    /\ Guarded /\ ~Superuser(request.user) /\ ClassSuffices
    /\ casl' = [casl EXCEPT !.conditions = TRUE]
    /\ Decide(MayClass(request.user))
    /\ UNCHANGED <<config, request, stored, checked, handled>>

AwaitSubject ==
    /\ Guarded /\ ~Superuser(request.user) /\ ~ClassSuffices
    /\ casl' = [casl EXCEPT !.conditions = TRUE]
    /\ Goto("subjectHook")
    /\ UNCHANGED <<config, request, stored, checked, handled>>

(* Mutant: a request without subject is waved through. *)
SubjectHookWaves ==
    /\ pc = "subjectHook"
    /\ casl' = [casl EXCEPT !.subject = HookedSubject]
    /\ Goto(IF HookedSubject = Null THEN "handlerUser" ELSE "userHook")
    /\ UNCHANGED <<config, request, stored, checked, handled>>

SubjectHook ==
    /\ pc = "subjectHook"
    /\ casl' = [casl EXCEPT !.subject = HookedSubject]
    /\ IF HookedSubject = Null THEN Decide(MayClass(request.user))
                               ELSE Goto("userHook")
    /\ UNCHANGED <<config, request, stored, checked, handled>>

(* Mutant: the abilities of the user in the token are kept. *)
MatchStaleUser ==
    /\ pc = "userHook"
    /\ casl' = [casl EXCEPT !.user = GetUser]
    /\ checked' = casl.subject
    /\ Decide(CanInstance(RulesOf(request.user), ability.action, casl.subject))
    /\ UNCHANGED <<config, request, stored, handled>>

Match ==
    /\ pc = "userHook"
    /\ casl' = [casl EXCEPT !.user = GetUser]
    /\ checked' = casl.subject
    /\ LET finalUser == IF GetUser # Null THEN GetUser ELSE request.user
       IN  Decide(CanInstance(RulesOf(finalUser), ability.action, casl.subject))
    /\ UNCHANGED <<config, request, stored, handled>>

-----------------------------------------------------------------------------
(* The handler: it asks for the user, then for the subject, then uses the  *)
(* conditions if its route does.                                           *)

HandlerUser ==
    /\ pc = "handlerUser"
    /\ casl' = [casl EXCEPT !.user = GetUser]
    /\ Goto("handlerSubject")
    /\ UNCHANGED <<config, request, stored, checked, handled>>

(* Conditions that were never set are undefined, and undefined has no      *)
(* toMongo.                                                                *)
Served == IF ability.usesConditions /\ ~casl.conditions THEN 500 ELSE 200

(* Mutant: SubjectProxy.get runs the hook again. *)
HandlerSubjectAgain ==
    /\ pc = "handlerSubject"
    /\ casl' = [casl EXCEPT !.subject = HookedSubject]
    /\ handled' = HookedSubject
    /\ Respond(Served)
    /\ UNCHANGED <<config, request, stored, checked>>

HandlerSubject ==
    /\ pc = "handlerSubject"
    /\ casl' = [casl EXCEPT !.subject = GetSubject]
    /\ handled' = GetSubject
    /\ Respond(Served)
    /\ UNCHANGED <<config, request, stored, checked>>

-----------------------------------------------------------------------------
Awaiting == pc \in {"subjectHook", "userHook", "handlerUser", "handlerSubject"}

(* A hook rejects: its query has failed. *)
HookFails ==
    /\ \/ pc = "subjectHook"
       \/ pc = "handlerSubject" /\ ability.subjectHook /\ casl.subject = Null
       \/ pc \in {"userHook", "handlerUser"} /\ config.userHook /\ casl.user = Null
    /\ Respond(500)
    /\ UNCHANGED <<config, request, stored, casl, checked, handled>>

(* The account or the subject is changed, deleted or created meanwhile     *)
(* (what no hook of this request reads may stay as it is).                 *)
Elsewhere ==
    /\ Awaiting
    /\ \/ /\ config.userHook
          /\ \E u \in {v \in Users : v.id = request.user.id} \cup {Null} :
               stored' = [stored EXCEPT !.user = u]
       \/ /\ ability.subjectHook
          /\ stored' = [stored EXCEPT !.subject = ~@]
    /\ UNCHANGED <<config, request, casl, pc, status, checked, handled>>

Next ==
    \/ NoAccess \/ Always \/ CheckClass \/ AwaitSubject \/ SubjectHook \/ Match
    \/ HandlerUser \/ HandlerSubject
    \/ HookFails \/ Elsewhere

Spec == Init /\ [][Next]_vars

-----------------------------------------------------------------------------
(* The user in whose name the guard has decided. *)
FinalUser == IF casl.user # Null THEN casl.user ELSE request.user

Admitted == pc = "handlerUser"

(* Nobody but a superuser reaches a handler with an instance that the      *)
(* rules of the user, as the user hook has just read it, do not allow.     *)
AdmittedInstanceIsAllowed ==
    Admitted /\ checked # Null =>
        CanInstance(RulesOf(FinalUser), ability.action, checked)

(* However the guard decides, it never admits a user whom hasAbility would *)
(* refuse the action on the class: matching an instance only narrows.      *)
AdmittedUserMayClass ==
    Admitted =>
        \/ Superuser(request.user)
        \/ HasAbility(config, FinalUser, ability.action, ability.subject, Null)

(* Without a subject hook, canActivateAbility and hasAbility, written      *)
(* separately, give one answer.                                            *)
GuardAgreesWithHasAbility ==
    request.user # Null /\ ability # Null /\ ~ability.subjectHook =>
        LET may == HasAbility(config, request.user, ability.action, ability.subject, Null)
        IN  /\ Admitted => may
            /\ status = 403 => ~may

(* The handler works on the very instance the guard has matched, whatever  *)
(* happens to the data in between.                                         *)
HandlerGetsCheckedSubject ==
    checked # Null /\ (handled # Null \/ status = 200) => handled = checked

(* A find with the conditions that the guard has left for the handler,     *)
(* those of the token's user, finds nothing that canActivateAbility would  *)
(* refuse that user.  Only a hook that returned a user of other rules lets *)
(* a request in whose conditions are undefined and would find everything.  *)
ConditionsSelectAllowed ==
    Admitted /\ casl.conditions =>
        LET rules == RulesOf(request.user)
            query == ToMongo(rules, ability.action, ability.subject, StoredInstances)
        IN  IF query = Null
            THEN casl.user # Null /\ RulesOf(casl.user) # rules
            ELSE \A s \in query : CanInstance(rules, ability.action, s)

(* "Role to grant full access": a superuser's request is served once the   *)
(* hooks have answered.                                                    *)
SuperuserIsServed ==
    [][request.user # Null /\ Superuser(request.user) /\ HandlerSubject
         => status' = 200]_vars
=============================================================================
