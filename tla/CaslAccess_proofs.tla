-------------------------- MODULE CaslAccess_proofs --------------------------
(***************************************************************************)
(* Proofs about CaslAbility and CaslAccess, for any permissions, options,  *)
(* users and routes.                                                       *)
(***************************************************************************)
EXTENDS CaslAccess, WellFoundedInduction, TLAPS

-----------------------------------------------------------------------------
(* Rules. *)

(* Whoever may do an action to an instance may do it to its class: a rule  *)
(* that allows the instance allows the class, and a rule that forbids the  *)
(* class has no conditions, so it would have forbidden the instance.       *)
THEOREM InstanceImpliesClass ==
    ASSUME NEW rules, NEW action, NEW s, CanInstance(rules, action, s)
    PROVE  CanClass(rules, action, s.type)
<1> DEFINE R == RulesFor(rules, action, s.type)
           I == {i \in R : MatchesInstance(rules[i], s)}
           C == {i \in R : MatchesClass(rules[i])}
<1>1. PICK i \in I : /\ ~rules[i].inverted
                     /\ \A j \in I : j > i => ~rules[j].inverted
  BY DEF CanInstance, LastOneAllows
<1>2. i \in C
  BY <1>1 DEF MatchesClass
<1>3. ASSUME NEW j \in C, j > i, rules[j].inverted PROVE FALSE
  <2>1. j \in I
    BY <1>3 DEF MatchesClass, MatchesInstance
  <2>2. QED
    BY <1>1, <1>3, <2>1
<1>4. LastOneAllows(rules, C)
  BY <1>1, <1>2, <1>3 DEF LastOneAllows
<1>5. QED
  BY <1>4 DEF CanClass

-----------------------------------------------------------------------------
(* Queries. *)

(* A set of positions in a list has a last one. *)
LEMMA LastOf ==
    ASSUME NEW n \in Nat, NEW T, T \subseteq 1..n, T # {}
    PROVE  \E i \in T : \A j \in T : j <= i
<1> DEFINE R == OpToRel(<, Nat)
           M == {n - i : i \in T}
<1>1. M \subseteq Nat /\ M # {}
  <2>1. \A i \in T : n - i \in Nat
    OBVIOUS
  <2>2. PICK i \in T : TRUE
    OBVIOUS
  <2>3. n - i \in M
    BY <2>2
  <2>4. \A y \in M : \E k \in T : y = n - k
    OBVIOUS
  <2>5. QED
    BY <2>1, <2>3, <2>4
<1>2. PICK x \in M : \A y \in M : ~(<<y, x>> \in R)
  <2>1. IsWellFoundedOn(R, Nat)
    BY NatLessThanWellFounded
  <2> HIDE DEF R, M
  <2>2. QED
    BY <1>1, <2>1, WFMin
<1>3. \A y \in M : ~(y < x)
  BY <1>1, <1>2 DEF OpToRel
<1>4. PICK i \in T : x = n - i
  BY <1>2
<1>5. ASSUME NEW j \in T PROVE j <= i
  <2>1. n - j \in M
    OBVIOUS
  <2>2. ~(n - j < n - i)
    BY <1>3, <1>4, <2>1
  <2>3. i \in 1..n /\ j \in 1..n
    OBVIOUS
  <2>4. QED
    BY <2>2, <2>3
<1>6. QED
  BY <1>5

(* Everything a query selects is allowed: the rules that could forbid an   *)
(* instance are all asked, in whatever order the query puts them.          *)
THEOREM QuerySelectsAllowed ==
    ASSUME NEW rules, NEW n \in Nat, DOMAIN rules = 1..n,
           NEW action, NEW type, NEW all,
           NEW s \in ToMongo(rules, action, type, all),
           ToMongo(rules, action, type, all) # Null, s.type = type
    PROVE  CanInstance(rules, action, s)
<1> DEFINE R == RulesFor(rules, action, type)
           asked == Unshadowed(rules, R)
           either == {i \in asked : ~rules[i].inverted}
           query(i) == ConvertToMongoQuery(rules[i], all)
           I == {i \in R : MatchesInstance(rules[i], s)}
<1> SUFFICES LastOneAllows(rules, I)
  BY DEF CanInstance
<1>1. R \subseteq 1..n
  BY DEF RulesFor
<1>2. /\ s \in all
      /\ Opens(rules, R) \/ \E i \in either : s \in query(i)
      /\ \A i \in asked \ either : s \in query(i)
  BY DEF ToMongo, RulesToQuery
<1>3. ASSUME NEW i \in R, ~rules[i].inverted, MatchesInstance(rules[i], s),
             \A j \in R : j > i => Conditional(rules[j])
      PROVE  LastOneAllows(rules, I)
  <2>1. ASSUME NEW j \in I, j > i, rules[j].inverted PROVE FALSE
    <3>1. Conditional(rules[j]) /\ s \in rules[j].conditions
      BY <1>3, <2>1 DEF MatchesInstance
    <3>2. \A k \in R : k > j => Conditional(rules[k])
      BY <1>1, <1>3, <2>1
    <3>3. j \in asked \ either
      BY <2>1, <3>1, <3>2 DEF Unshadowed
    <3>4. s \notin query(j)
      BY <2>1, <3>1 DEF ConvertToMongoQuery
    <3>5. QED
      BY <1>2, <3>3, <3>4
  <2>2. i \in I
    BY <1>3
  <2>3. QED
    BY <1>3, <2>1, <2>2 DEF LastOneAllows
<1>4. CASE Opens(rules, R)
  BY <1>3, <1>4 DEF Opens, MatchesInstance
<1>5. CASE \E i \in either : s \in query(i)
  <2>1. PICK i \in either : s \in query(i)
    BY <1>5
  <2>2. s \in rules[i].conditions
    BY <2>1 DEF ConvertToMongoQuery
  <2>3. QED
    BY <1>3, <2>1, <2>2 DEF Unshadowed, MatchesInstance
<1>6. QED
  BY <1>2, <1>4, <1>5

(* The conditions are undefined only for those who may not do the action   *)
(* to the class: who may do it has a rule that is asked, or that opens.    *)
THEOREM QueryIsDefined ==
    ASSUME NEW rules, NEW n \in Nat, DOMAIN rules = 1..n,
           NEW action, NEW type, NEW all, Null \notin SUBSET all,
           CanClass(rules, action, type)
    PROVE  ToMongo(rules, action, type, all) # Null
<1> DEFINE R == RulesFor(rules, action, type)
           asked == Unshadowed(rules, R)
           either == {i \in asked : ~rules[i].inverted}
           query(i) == ConvertToMongoQuery(rules[i], all)
           C == {i \in R : MatchesClass(rules[i])}
<1>1. PICK i \in C : /\ ~rules[i].inverted
                     /\ \A j \in C : j > i => ~rules[j].inverted
  BY DEF CanClass, LastOneAllows
<1> DEFINE U == {j \in R : ~Conditional(rules[j])}
<1>2. U \subseteq 1..n /\ i \in 1..n
  BY DEF RulesFor
<1>3. Opens(rules, R) \/ either # {}
  <2>1. CASE \A j \in U : ~(j > i)
    <3>1. \A j \in R : j > i => Conditional(rules[j])
      BY <2>1
    <3>2. CASE Conditional(rules[i])
      <4>1. i \in either
        BY <1>1, <3>1, <3>2 DEF Unshadowed
      <4>2. QED
        BY <4>1
    <3>3. CASE ~Conditional(rules[i])
      BY <1>1, <3>1, <3>3 DEF Opens
    <3>4. QED
      BY <3>2, <3>3
  <2>2. CASE \E j \in U : j > i
    <3>1. U # {}
      BY <2>2
    <3>2. PICK k \in U : \A j \in U : j <= k
      BY <1>2, <3>1, LastOf
    <3>3. k > i
      BY <1>2, <2>2, <3>2
    <3>4. ~rules[k].inverted
      BY <1>1, <3>2, <3>3 DEF MatchesClass
    <3>5. \A j \in R : j > k => Conditional(rules[j])
      <4>1. ASSUME NEW j \in R, j > k, ~Conditional(rules[j]) PROVE FALSE
        <5>1. j \in U
          BY <4>1
        <5>2. j <= k
          BY <3>2, <5>1
        <5>3. j \in Int /\ k \in Int
          BY <1>2, <5>1
        <5>4. QED
          BY <4>1, <5>2, <5>3
      <4>2. QED
        BY <4>1
    <3>6. QED
      BY <3>2, <3>4, <3>5 DEF Opens
  <2>3. QED
    BY <2>1, <2>2
<1>4. ToMongo(rules, action, type, all) \in SUBSET all
  BY <1>3 DEF ToMongo, RulesToQuery
<1>5. QED
  BY <1>4

(* A query finds every stored instance that is allowed, as long as the     *)
(* rules with conditions that forbid are defined after those that allow:   *)
(* the query takes every exception for the last word.                      *)
THEOREM QueryFindsAllowed ==
    ASSUME NEW rules, NEW n \in Nat, DOMAIN rules = 1..n,
           NEW action, NEW type, NEW all, Null \notin SUBSET all,
           \A i, j \in Unshadowed(rules, RulesFor(rules, action, type)) :
             ~rules[i].inverted /\ rules[j].inverted => i < j,
           NEW s \in all, s.type = type, CanInstance(rules, action, s)
    PROVE  /\ ToMongo(rules, action, type, all) # Null
           /\ s \in ToMongo(rules, action, type, all)
<1> DEFINE R == RulesFor(rules, action, type)
           asked == Unshadowed(rules, R)
           either == {i \in asked : ~rules[i].inverted}
           query(i) == ConvertToMongoQuery(rules[i], all)
           I == {i \in R : MatchesInstance(rules[i], s)}
           U == {j \in R : ~Conditional(rules[j])}
<1>1. PICK i \in I : /\ ~rules[i].inverted
                     /\ \A j \in I : j > i => ~rules[j].inverted
  BY DEF CanInstance, LastOneAllows
<1>2. R \subseteq 1..n /\ U \subseteq 1..n /\ i \in 1..n
  BY DEF RulesFor
<1>3. Opens(rules, R) \/ (i \in either /\ s \in query(i))
  <2>1. CASE \A j \in U : ~(j > i)
    <3>1. \A j \in R : j > i => Conditional(rules[j])
      BY <2>1
    <3>2. CASE Conditional(rules[i])
      <4>1. i \in either /\ s \in rules[i].conditions
        BY <1>1, <3>1, <3>2 DEF Unshadowed, MatchesInstance
      <4>2. QED
        BY <1>1, <4>1 DEF ConvertToMongoQuery
    <3>3. CASE ~Conditional(rules[i])
      BY <1>1, <3>1, <3>3 DEF Opens
    <3>4. QED
      BY <3>2, <3>3
  <2>2. CASE \E j \in U : j > i
    <3>1. U # {}
      BY <2>2
    <3>2. PICK k \in U : \A j \in U : j <= k
      BY <1>2, <3>1, LastOf
    <3>3. k > i
      BY <1>2, <2>2, <3>2
    <3>4. ~rules[k].inverted
      BY <1>1, <3>2, <3>3 DEF MatchesInstance
    <3>5. \A j \in R : j > k => Conditional(rules[j])
      <4>1. ASSUME NEW j \in R, j > k, ~Conditional(rules[j]) PROVE FALSE
        <5>1. j <= k /\ j \in Int /\ k \in Int
          BY <1>2, <3>2, <4>1
        <5>2. QED
          BY <4>1, <5>1
      <4>2. QED
        BY <4>1
    <3>6. QED
      BY <3>2, <3>4, <3>5 DEF Opens
  <2>3. QED
    BY <2>1, <2>2
<1>4. ASSUME NEW k \in asked \ either, s \notin query(k) PROVE FALSE
  <2>1. k \in R /\ rules[k].inverted /\ Conditional(rules[k])
    BY <1>4 DEF Unshadowed
  <2>2. s \in rules[k].conditions /\ k \in I
    BY <1>4, <2>1 DEF ConvertToMongoQuery, MatchesInstance
  <2>3. i > k
    BY <1>1, <1>2, <2>1, <2>2
  <2>4. i \in asked
    BY <1>1, <1>2, <1>4, <2>1, <2>3 DEF Unshadowed
  <2>5. i < k
    BY <1>1, <1>4, <2>1, <2>4
  <2>6. QED
    BY <1>2, <2>1, <2>3, <2>5
<1>5. Opens(rules, R) \/ either # {}
  BY <1>3
<1>6. ToMongo(rules, action, type, all) =
        {x \in all : /\ Opens(rules, R) \/ \E j \in either : x \in query(j)
                     /\ \A j \in asked \ either : x \in query(j)}
  BY <1>5 DEF ToMongo, RulesToQuery
<1>7. QED
  BY <1>3, <1>4, <1>6

-----------------------------------------------------------------------------
(***************************************************************************)
(* The inductive invariant: what the guard and the handler rely on at each *)
(* await.  The subject that was fetched is remembered until the handler    *)
(* asks for it, and a user is remembered only from the match on.           *)
(***************************************************************************)
InFlight == pc \notin {"guard", "done"} => request.user # Null /\ ability # Null

Unanswered == pc # "done" => status = 0 /\ handled = Null

Unmatched ==
    pc \in {"guard", "subjectHook", "userHook"} => casl.user = Null /\ checked = Null

Fetched ==
    /\ pc \in {"subjectHook", "userHook"} => ability.subjectHook
    /\ pc = "subjectHook" => ~Superuser(request.user)
    /\ pc = "userHook" =>
         casl.subject \in Instances /\ casl.subject.type = ability.subject
    /\ pc \in {"handlerUser", "handlerSubject"} /\ checked # Null =>
         casl.subject = checked

Control == InFlight /\ Unanswered /\ Unmatched /\ Fetched

(* Conditions are left for those who must go by rules, and whoever of them *)
(* is admitted may do the action to the class.                             *)
Conditions ==
    /\ config \in Configs
    /\ pc = "guard" => ~casl.conditions
    /\ pc # "guard" /\ casl.conditions =>
         request.user # Null /\ ability # Null /\ ~Superuser(request.user)
    /\ Admitted /\ casl.conditions => MayClass(FinalUser)

Results ==
    /\ AdmittedInstanceIsAllowed
    /\ AdmittedUserMayClass
    /\ GuardAgreesWithHasAbility
    /\ HandlerGetsCheckedSubject

IInv == TypeOK /\ Control /\ Conditions /\ Results

-----------------------------------------------------------------------------
LEMMA HasAbilityOfClass ==
    ASSUME NEW user
    PROVE  HasAbility(config, user, ability.action, ability.subject, Null)
             <=> Superuser(user) \/ MayClass(user)
  BY DEF HasAbility, Superuser, MayClass, RulesOf

LEMMA HookTypes ==
    ASSUME TypeOK
    PROVE  /\ GetUser \in Users \cup {Null}
           /\ HookedUser \in Users \cup {Null}
           /\ ability # Null =>
                /\ Target \in Instances /\ Target.type = ability.subject
                /\ HookedSubject \in Instances \cup {Null}
                /\ HookedSubject # Null => HookedSubject = Target
                /\ GetSubject \in Instances \cup {Null}
<1>1. HookedUser \in Users \cup {Null}
  BY DEF HookedUser, TypeOK
<1>2. GetUser \in Users \cup {Null}
  BY <1>1 DEF GetUser, TypeOK
<1>3. ASSUME ability # Null
      PROVE  /\ Target \in Instances /\ Target.type = ability.subject
             /\ HookedSubject \in Instances \cup {Null}
             /\ HookedSubject # Null => HookedSubject = Target
             /\ GetSubject \in Instances \cup {Null}
  <2>1. ability \in Abilities
    BY <1>3 DEF TypeOK, Requests, ability
  <2>2. ability.subject \in Types
    BY <2>1, AbilitiesAssumption
  <2>3. Target \in Instances /\ Target.type = ability.subject
    BY <2>2 DEF Target, Instances, TypeOK, Requests
  <2>4. QED
    BY <2>3 DEF HookedSubject, GetSubject, TypeOK
<1>4. QED
  BY <1>1, <1>2, <1>3

LEMMA TypeStep == TypeOK /\ InFlight /\ [Next]_vars => TypeOK'
<1> SUFFICES ASSUME TypeOK, InFlight, [Next]_vars PROVE TypeOK'
  OBVIOUS
<1>1. CASE UNCHANGED vars
  BY <1>1 DEF TypeOK, vars
<1>2. CASE NoAccess \/ Always
  BY <1>2 DEF NoAccess, Always, Goto, Respond, TypeOK
<1>3. CASE CheckClass \/ AwaitSubject
  <2>1. casl' = [casl EXCEPT !.conditions = TRUE]
    BY <1>3 DEF CheckClass, AwaitSubject
  <2>2. casl' \in [user : Users \cup {Null}, subject : Instances \cup {Null},
                   conditions : BOOLEAN]
    BY <2>1 DEF TypeOK
  <2>3. QED
    BY <1>3, <2>2 DEF CheckClass, AwaitSubject, Decide, Goto, Respond, TypeOK
<1>4. CASE SubjectHook
  <2>1. casl' = [casl EXCEPT !.subject = HookedSubject]
    BY <1>4 DEF SubjectHook
  <2>2. HookedSubject \in Instances \cup {Null}
    BY <1>4, HookTypes DEF SubjectHook, InFlight
  <2>3. casl' \in [user : Users \cup {Null}, subject : Instances \cup {Null},
                   conditions : BOOLEAN]
    BY <2>1, <2>2 DEF TypeOK
  <2>4. QED
    BY <1>4, <2>3 DEF SubjectHook, Decide, Goto, Respond, TypeOK
<1>5. CASE Match
  BY <1>5, HookTypes DEF Match, Decide, Goto, Respond, TypeOK, InFlight
<1>6. CASE HandlerUser
  BY <1>6, HookTypes DEF HandlerUser, Goto, TypeOK
<1>7. CASE HandlerSubject
  BY <1>7, HookTypes DEF HandlerSubject, Respond, Served, TypeOK, InFlight
<1>8. CASE HookFails
  BY <1>8 DEF HookFails, Respond, TypeOK
<1>9. CASE Elsewhere
  <2>1. stored \in [user : Users \cup {Null}, subject : BOOLEAN]
    BY DEF TypeOK
  <2>2. ASSUME NEW u \in Users \cup {Null}, stored' = [stored EXCEPT !.user = u]
        PROVE  stored' \in [user : Users \cup {Null}, subject : BOOLEAN]
    BY <2>1, <2>2
  <2>3. ASSUME stored' = [stored EXCEPT !.subject = ~@]
        PROVE  stored' \in [user : Users \cup {Null}, subject : BOOLEAN]
    BY <2>1, <2>3
  <2>4. stored' \in [user : Users \cup {Null}, subject : BOOLEAN]
    BY <1>9, <2>2, <2>3 DEF Elsewhere
  <2>5. QED
    BY <1>9, <2>4 DEF Elsewhere, TypeOK
<1>10. QED
  BY <1>1, <1>2, <1>3, <1>4, <1>5, <1>6, <1>7, <1>8, <1>9 DEF Next

LEMMA ControlStep == TypeOK /\ Control /\ [Next]_vars => Control'
<1> SUFFICES ASSUME TypeOK, Control, [Next]_vars PROVE Control'
  OBVIOUS
<1> USE DEF Control, InFlight, Unanswered, Unmatched, Fetched, ability, Superuser
<1>1. CASE UNCHANGED vars
  BY <1>1 DEF vars
<1>2. CASE NoAccess
  BY <1>2 DEF NoAccess, Respond
<1>3. CASE Always
  BY <1>3 DEF Always, Guarded, Goto
<1>4. CASE CheckClass
  BY <1>4 DEF CheckClass, Guarded, Decide, Goto, Respond, TypeOK
<1>5. CASE AwaitSubject
  BY <1>5 DEF AwaitSubject, Guarded, Goto, TypeOK, ClassSuffices
<1>6. CASE SubjectHook
  <2>1. casl'.subject = HookedSubject /\ casl'.user = casl.user
    BY <1>6 DEF SubjectHook, TypeOK
  <2>2. HookedSubject # Null =>
          HookedSubject \in Instances /\ HookedSubject.type = ability.subject
    BY <1>6, HookTypes DEF SubjectHook
  <2>3. QED
    BY <1>6, <2>1, <2>2 DEF SubjectHook, Decide, Goto, Respond
<1>7. CASE Match
  <2>1. casl'.subject = casl.subject
    BY <1>7 DEF Match, TypeOK
  <2>2. QED
    BY <1>7, <2>1 DEF Match, Decide, Goto, Respond
<1>8. CASE HandlerUser
  <2>1. casl'.subject = casl.subject
    BY <1>8 DEF HandlerUser, TypeOK
  <2>2. QED
    BY <1>8, <2>1 DEF HandlerUser, Goto
<1>9. CASE HandlerSubject
  BY <1>9 DEF HandlerSubject, Respond
<1>10. CASE HookFails
  BY <1>10 DEF HookFails, Respond
<1>11. CASE Elsewhere
  BY <1>11 DEF Elsewhere
<1>12. QED
  BY <1>1, <1>2, <1>3, <1>4, <1>5, <1>6, <1>7, <1>8, <1>9, <1>10, <1>11
     DEF Next

-----------------------------------------------------------------------------
(* A step that leaves the guard's decision behind it keeps the results.    *)
LEMMA SettledStep ==
    ASSUME Results, UNCHANGED <<config, request, checked>>, pc' # "handlerUser",
           status' = 403 => status = 403,
           checked # Null /\ (handled' # Null \/ status' = 200) => handled' = checked
    PROVE  Results'
<1>1. AdmittedInstanceIsAllowed' /\ AdmittedUserMayClass'
  BY DEF AdmittedInstanceIsAllowed, AdmittedUserMayClass, Admitted
<1>2. GuardAgreesWithHasAbility'
  BY DEF Results, GuardAgreesWithHasAbility, Admitted, ability
<1>3. HandlerGetsCheckedSubject'
  BY DEF HandlerGetsCheckedSubject
<1>4. QED
  BY <1>1, <1>2, <1>3 DEF Results

(* The guard decides by the class.                                         *)
LEMMA DecideByClass ==
    ASSUME Control, UNCHANGED <<config, request, checked, handled>>,
           pc \in {"guard", "subjectHook"}, casl'.user = casl.user,
           ~Superuser(request.user), Decide(MayClass(request.user))
    PROVE  Results'
<1>1. checked' = Null /\ casl'.user = Null /\ handled' = Null /\ status' # 200
  BY DEF Control, Unmatched, Unanswered, Decide, Goto, Respond
<1>2. /\ pc' = "handlerUser" => MayClass(request.user)
      /\ status' = 403 => ~MayClass(request.user)
  BY DEF Decide, Goto, Respond, Control, Unanswered
<1>3. AdmittedInstanceIsAllowed'
  BY <1>1 DEF AdmittedInstanceIsAllowed
<1>4. AdmittedUserMayClass'
  BY <1>1, <1>2
     DEF AdmittedUserMayClass, Admitted, FinalUser, MayClass, RulesOf,
         HasAbility, ability
<1>5. GuardAgreesWithHasAbility'
  BY <1>1, <1>2
     DEF GuardAgreesWithHasAbility, Admitted, MayClass, RulesOf, HasAbility,
         Superuser, ability
<1>6. HandlerGetsCheckedSubject'
  BY <1>1 DEF HandlerGetsCheckedSubject
<1>7. QED
  BY <1>3, <1>4, <1>5, <1>6 DEF Results

LEMMA AlwaysResults ==
    ASSUME Control, Always
    PROVE  Results'
<1>1. /\ Superuser(request.user) /\ UNCHANGED <<config, request>>
      /\ checked' = Null /\ handled' = Null /\ status' = 0
  BY DEF Always, Guarded, Goto, Control, Unmatched, Unanswered
<1>2. AdmittedInstanceIsAllowed' /\ HandlerGetsCheckedSubject'
  BY <1>1 DEF AdmittedInstanceIsAllowed, HandlerGetsCheckedSubject
<1>3. AdmittedUserMayClass' /\ GuardAgreesWithHasAbility'
  BY <1>1 DEF AdmittedUserMayClass, GuardAgreesWithHasAbility, HasAbility,
              Superuser, ability
<1>4. QED
  BY <1>2, <1>3 DEF Results

LEMMA MatchResults ==
    ASSUME TypeOK, Control, Match
    PROVE  Results'
<1> DEFINE finalUser == IF GetUser # Null THEN GetUser ELSE request.user
           allowed == CanInstance(RulesOf(finalUser), ability.action, casl.subject)
<1>1. /\ UNCHANGED <<config, request, handled>> /\ checked' = casl.subject
      /\ Decide(allowed) /\ casl' = [casl EXCEPT !.user = GetUser]
  BY DEF Match
<1>2. /\ casl'.user = GetUser /\ casl'.subject = casl.subject
      /\ casl.subject.type = ability.subject /\ ability.subjectHook
      /\ handled' = Null /\ status' # 200
  BY <1>1 DEF TypeOK, Match, Control, Fetched, Unanswered, Decide, Goto, Respond
<1>3. pc' = "handlerUser" => allowed
  BY <1>1 DEF Decide, Goto, Respond
<1>4. FinalUser' = finalUser
  BY <1>1, <1>2 DEF FinalUser
<1> HIDE DEF finalUser
<1>5. RulesOf(finalUser) = CreateForUser(config'.permissions, finalUser)
  BY <1>1 DEF RulesOf
<1>6. AdmittedInstanceIsAllowed'
  BY <1>1, <1>3, <1>4, <1>5
     DEF AdmittedInstanceIsAllowed, Admitted, RulesOf, ability
<1>7. pc' = "handlerUser" => CanClass(RulesOf(finalUser), ability.action, ability.subject)
  BY <1>2, <1>3, InstanceImpliesClass
<1>8. AdmittedUserMayClass'
  BY <1>1, <1>4, <1>5, <1>7 DEF AdmittedUserMayClass, Admitted, HasAbility, ability
<1>9. GuardAgreesWithHasAbility'
  BY <1>1, <1>2 DEF GuardAgreesWithHasAbility, ability
<1>10. HandlerGetsCheckedSubject'
  BY <1>2 DEF HandlerGetsCheckedSubject
<1>11. QED
  BY <1>6, <1>8, <1>9, <1>10 DEF Results

LEMMA ResultsStep == TypeOK /\ Control /\ Results /\ [Next]_vars => Results'
<1> SUFFICES ASSUME TypeOK, Control, Results, [Next]_vars PROVE Results'
  OBVIOUS
<1>1. CASE UNCHANGED <<config, request, casl, pc, status, checked, handled>>
  BY <1>1 DEF Results, AdmittedInstanceIsAllowed, AdmittedUserMayClass,
              GuardAgreesWithHasAbility, HandlerGetsCheckedSubject, Admitted,
              FinalUser, RulesOf, Superuser, ability
<1>2. CASE NoAccess
  <2>1. GuardAgreesWithHasAbility'
    BY <1>2 DEF NoAccess, GuardAgreesWithHasAbility, ability
  <2>2. checked' = Null /\ pc' = "done"
    BY <1>2 DEF NoAccess, Respond, Control, Unmatched
  <2>3. QED
    BY <2>1, <2>2 DEF Results, AdmittedInstanceIsAllowed, AdmittedUserMayClass,
                      HandlerGetsCheckedSubject, Admitted
<1>3. CASE Always
  BY <1>3, AlwaysResults
<1>4. CASE CheckClass
  <2>1. casl'.user = casl.user
    BY <1>4 DEF CheckClass, TypeOK
  <2>2. QED
    BY <1>4, <2>1, DecideByClass DEF CheckClass, Guarded
<1>5. CASE AwaitSubject
  BY <1>5, SettledStep DEF AwaitSubject, Guarded, Goto, Control, Unmatched
<1>6. CASE SubjectHook
  <2>1. casl'.user = casl.user
    BY <1>6 DEF SubjectHook, TypeOK
  <2>2. CASE Goto("userHook")
    BY <1>6, <2>2, SettledStep DEF SubjectHook, Goto, Control, Unmatched
  <2>3. CASE Decide(MayClass(request.user)) /\ ~Superuser(request.user)
    BY <1>6, <2>1, <2>3, DecideByClass DEF SubjectHook
  <2>4. QED
    BY <1>6, <2>2, <2>3 DEF SubjectHook, Control, Fetched
<1>7. CASE Match
  BY <1>7, MatchResults
<1>8. CASE HandlerUser
  BY <1>8, SettledStep DEF HandlerUser, Goto, Control, Unanswered
<1>9. CASE HandlerSubject
  <2>1. checked # Null => handled' = checked
    BY <1>9 DEF HandlerSubject, GetSubject, Control, Fetched
  <2>2. QED
    BY <1>9, <2>1, SettledStep DEF HandlerSubject, Respond, Served
<1>10. CASE HookFails
  BY <1>10, SettledStep DEF HookFails, Respond, Control, Unanswered
<1>11. QED
  BY <1>1, <1>2, <1>3, <1>4, <1>5, <1>6, <1>7, <1>8, <1>9, <1>10
     DEF Next, Elsewhere, vars

-----------------------------------------------------------------------------
(* A step that does not admit anyone.                                      *)
LEMMA NotAdmitting ==
    ASSUME Conditions, UNCHANGED <<config, request>>, pc' \notin {"guard", "handlerUser"},
           casl'.conditions = casl.conditions \/
             (request.user # Null /\ ability # Null /\ ~Superuser(request.user))
    PROVE  Conditions'
  BY DEF Conditions, Admitted, Superuser, ability

(* A step that admits by the class.                                        *)
LEMMA AdmittingByClass ==
    ASSUME Conditions, UNCHANGED <<config, request>>, pc' # "guard",
           request.user # Null, ability # Null, ~Superuser(request.user),
           casl'.user = Null, pc' = "handlerUser" => MayClass(request.user)
    PROVE  Conditions'
  BY DEF Conditions, Admitted, Superuser, FinalUser, MayClass, RulesOf, ability

LEMMA MatchConditions ==
    ASSUME TypeOK, Control, Conditions, Match
    PROVE  Conditions'
<1> DEFINE finalUser == IF GetUser # Null THEN GetUser ELSE request.user
           allowed == CanInstance(RulesOf(finalUser), ability.action, casl.subject)
<1>1. /\ UNCHANGED <<config, request>> /\ pc' # "guard"
      /\ pc' = "handlerUser" => allowed
  BY DEF Match, Decide, Goto, Respond
<1>2. /\ casl'.user = GetUser /\ casl'.conditions = casl.conditions
      /\ casl.subject.type = ability.subject
  BY DEF TypeOK, Match, Control, Fetched
<1>3. FinalUser' = finalUser
  BY <1>1, <1>2 DEF FinalUser
<1> HIDE DEF finalUser
<1>4. pc' = "handlerUser" => MayClass(finalUser)
  BY <1>1, <1>2, InstanceImpliesClass DEF MayClass
<1>5. (Admitted => MayClass(FinalUser))'
  BY <1>1, <1>3, <1>4 DEF Admitted, MayClass, RulesOf, ability
<1>6. QED
  BY <1>1, <1>2, <1>5 DEF Conditions, Superuser, ability, Match

LEMMA ConditionsStep == TypeOK /\ Control /\ Conditions /\ [Next]_vars => Conditions'
<1> SUFFICES ASSUME TypeOK, Control, Conditions, [Next]_vars PROVE Conditions'
  OBVIOUS
<1>1. CASE UNCHANGED <<config, request, casl, pc>>
  BY <1>1 DEF Conditions, Admitted, FinalUser, MayClass, RulesOf, Superuser, ability
<1>2. CASE NoAccess
  BY <1>2 DEF NoAccess, Respond, Conditions, Admitted
<1>3. CASE Always
  BY <1>3 DEF Always, Guarded, Goto, Conditions
<1>4. CASE CheckClass
  <2>1. casl'.user = Null
    BY <1>4 DEF CheckClass, Guarded, Control, Unmatched, TypeOK
  <2>2. pc' # "guard" /\ (pc' = "handlerUser" => MayClass(request.user))
    BY <1>4 DEF CheckClass, Decide, Goto, Respond
  <2>3. QED
    BY <1>4, <2>1, <2>2, AdmittingByClass DEF CheckClass, Guarded
<1>5. CASE AwaitSubject
  BY <1>5, NotAdmitting DEF AwaitSubject, Guarded, Goto
<1>6. CASE SubjectHook
  <2>1. casl'.user = Null
    BY <1>6 DEF SubjectHook, Control, Unmatched, TypeOK
  <2>2. pc' # "guard" /\ (pc' = "handlerUser" => MayClass(request.user))
    BY <1>6 DEF SubjectHook, Decide, Goto, Respond
  <2>3. QED
    BY <1>6, <2>1, <2>2, AdmittingByClass
       DEF SubjectHook, Control, InFlight, Fetched
<1>7. CASE Match
  BY <1>7, MatchConditions
<1>8. CASE HandlerUser
  <2>1. casl'.conditions = casl.conditions
    BY <1>8 DEF HandlerUser, TypeOK
  <2>2. QED
    BY <1>8, <2>1, NotAdmitting DEF HandlerUser, Goto
<1>9. CASE HandlerSubject
  <2>1. casl'.conditions = casl.conditions
    BY <1>9 DEF HandlerSubject, TypeOK
  <2>2. QED
    BY <1>9, <2>1, NotAdmitting DEF HandlerSubject, Respond
<1>10. CASE HookFails
  BY <1>10, NotAdmitting DEF HookFails, Respond
<1>11. QED
  BY <1>1, <1>2, <1>3, <1>4, <1>5, <1>6, <1>7, <1>8, <1>9, <1>10
     DEF Next, Elsewhere, vars

-----------------------------------------------------------------------------
LEMMA InitEstablishes == Init => IInv
<1> SUFFICES ASSUME Init PROVE IInv
  OBVIOUS
<1>1. TypeOK
  BY DEF Init, TypeOK, Requests
<1>2. Control
  BY DEF Init, Control, InFlight, Unanswered, Unmatched, Fetched
<1>3. Results
  BY DEF Init, Results, AdmittedInstanceIsAllowed, AdmittedUserMayClass,
         GuardAgreesWithHasAbility, HandlerGetsCheckedSubject, Admitted
<1>4. Conditions
  BY DEF Init, Conditions, Admitted
<1>5. QED
  BY <1>1, <1>2, <1>3, <1>4 DEF IInv

LEMMA Invariance == Spec => []IInv
<1>1. IInv /\ [Next]_vars => IInv'
  BY TypeStep, ControlStep, ConditionsStep, ResultsStep DEF IInv, Control
<1>2. QED
  BY <1>1, InitEstablishes, PTL DEF Spec

(* An instance is only handed to a user whose own rules, as the user hook  *)
(* has just read them, allow it.                                           *)
THEOREM InstancesAreMatched == Spec => []AdmittedInstanceIsAllowed
  BY Invariance, PTL DEF IInv, Results

(* The guard admits nobody whom hasAbility would refuse the class.         *)
THEOREM GuardNarrowsClass == Spec => []AdmittedUserMayClass
  BY Invariance, PTL DEF IInv, Results

(* Without a subject hook the guard and hasAbility give one answer.        *)
THEOREM GuardIsHasAbility == Spec => []GuardAgreesWithHasAbility
  BY Invariance, PTL DEF IInv, Results

(* The handler gets the instance that was matched, whatever happens to the *)
(* data in between.                                                        *)
THEOREM MatchedSubjectIsHandled == Spec => []HandlerGetsCheckedSubject
  BY Invariance, PTL DEF IInv, Results

(* What a handler finds with the conditions it is given, its token's user  *)
(* may access; they are undefined only for a user whom a hook has replaced *)
(* by one of other rules.                                                  *)
THEOREM ConditionsAreSound == Spec => []ConditionsSelectAllowed
<1>1. IInv => ConditionsSelectAllowed
  <2> SUFFICES ASSUME TypeOK, Conditions, Admitted, casl.conditions
               PROVE  ConditionsSelectAllowed
    BY DEF IInv, ConditionsSelectAllowed
  <2> DEFINE rules == RulesOf(request.user)
             all == StoredInstances
             query == ToMongo(rules, ability.action, ability.subject, all)
  <2>1. Len(rules) \in Nat /\ DOMAIN rules = 1..Len(rules)
    BY RulesAssumption DEF RulesOf, Conditions, Admitted, TypeOK, Requests
  <2>2. \A s \in all : s.type = ability.subject
    BY DEF StoredInstances
  <2>3. Null \notin SUBSET all
    BY NullAssumption DEF StoredInstances
  <2>4. query # Null => query \subseteq all
    BY DEF ToMongo, RulesToQuery
  <2>5. MayClass(FinalUser)
    BY DEF Conditions
  <2>6. CASE query = Null
    <3>1. ~CanClass(rules, ability.action, ability.subject)
      <4> HIDE DEF rules, all
      <4>1. QED
        BY <2>1, <2>3, <2>6, QueryIsDefined
    <3>2. casl.user # Null /\ RulesOf(casl.user) # rules
      BY <2>5, <3>1 DEF MayClass, FinalUser
    <3>3. QED
      BY <2>6, <3>2 DEF ConditionsSelectAllowed
  <2>7. CASE query # Null
    <3> HIDE DEF rules, all
    <3>1. \A s \in query : CanInstance(rules, ability.action, s)
      BY <2>1, <2>2, <2>4, <2>7, QuerySelectsAllowed
    <3> USE DEF rules, all
    <3>2. QED
      BY <2>7, <3>1 DEF ConditionsSelectAllowed
  <2>8. QED
    BY <2>6, <2>7
<1>2. QED
  BY <1>1, Invariance, PTL

-----------------------------------------------------------------------------
(* What the guard leaves the handler: conditions, unless for a superuser.  *)
ConditionsLeft ==
    /\ pc = "guard" => ~casl.conditions
    /\ pc \notin {"guard", "done"} =>
         (casl.conditions <=> ~Superuser(request.user))

LEMMA ConditionsLeftStep ==
    TypeOK /\ ConditionsLeft /\ [Next]_vars => ConditionsLeft'
<1> SUFFICES ASSUME TypeOK, ConditionsLeft, [Next]_vars
             PROVE  ConditionsLeft'
  OBVIOUS
<1>1. CASE UNCHANGED <<config, request, casl, pc>>
  BY <1>1 DEF ConditionsLeft, Superuser
<1>2. CASE pc' = "done"
  BY <1>2 DEF ConditionsLeft
<1>3. CASE Always
  BY <1>3 DEF Always, Guarded, Goto, ConditionsLeft, Superuser
<1>4. CASE CheckClass \/ AwaitSubject
  <2>1. casl'.conditions
    BY <1>4 DEF CheckClass, AwaitSubject, TypeOK
  <2>2. QED
    BY <1>4, <2>1 DEF CheckClass, AwaitSubject, Decide, Goto, Respond,
                      ConditionsLeft, Superuser
<1>5. CASE SubjectHook \/ Match \/ HandlerUser
  <2>1. casl'.conditions = casl.conditions
    BY <1>5 DEF SubjectHook, Match, HandlerUser, TypeOK
  <2>2. pc \in {"subjectHook", "userHook", "handlerUser"} /\ pc' # "guard"
    BY <1>5 DEF SubjectHook, Match, HandlerUser, Decide, Goto, Respond
  <2>3. UNCHANGED <<config, request>>
    BY <1>5 DEF SubjectHook, Match, HandlerUser
  <2>4. QED
    BY <2>1, <2>2, <2>3 DEF ConditionsLeft, Superuser
<1>6. QED
  BY <1>1, <1>2, <1>3, <1>4, <1>5
     DEF Next, NoAccess, HandlerSubject, HookFails, Elsewhere, Respond, vars

(* The handler of an admitted request fails for exactly one reason.        *)
OnlySuperusersLackConditions ==
    HandlerSubject =>
        (status' = 500 <=> Superuser(request.user) /\ ability.usesConditions)

(* The failure that SuperuserIsServed runs into is the only one behind the *)
(* guard: of those who are admitted, superusers on routes that use the     *)
(* conditions are answered 500, and everybody else is served.              *)
THEOREM AdmittedAreServed == Spec => [][OnlySuperusersLackConditions]_vars
<1>1. Init => ConditionsLeft
  BY DEF Init, ConditionsLeft
<1>2. TypeOK /\ ConditionsLeft /\ [Next]_vars => ConditionsLeft'
  BY ConditionsLeftStep
<1>3. ConditionsLeft => OnlySuperusersLackConditions
  BY DEF ConditionsLeft, OnlySuperusersLackConditions, HandlerSubject, Respond, Served
<1>4. IInv => TypeOK
  BY DEF IInv
<1>5. QED
  BY <1>1, <1>2, <1>3, <1>4, Invariance, PTL DEF Spec

(* Every variable keeps its type, for any options and routes.              *)
THEOREM TypesOfAccess == Spec => []TypeOK
  BY Invariance, PTL DEF IInv
=============================================================================
