----------------------------- MODULE CaslAbility -----------------------------
(***************************************************************************)
(* Abilities: the list of rules that AbilityFactory builds for a user, and *)
(* what @casl/ability answers from it.                                     *)
(*                                                                         *)
(* A rule is a record [action, subject, inverted, conditions].  Conditions *)
(* are the set of subject instances they match, Null when the rule has     *)
(* none.  What a permission function defines depends on its user, so       *)
(* permissions[role][id] is the list it defines for the user id.           *)
(***************************************************************************)
EXTENDS Integers, SequencesExt

CONSTANT Null

-----------------------------------------------------------------------------
(* AbilityFactory *)

PermissionsFor(permissions, role, user) ==
    IF role \in DOMAIN permissions THEN permissions[role][user.id] ELSE <<>>

Everyone(permissions) ==
    IF "everyone" \in DOMAIN permissions THEN "everyone" ELSE "every"

CreateForUser(permissions, user) ==
    PermissionsFor(permissions, Everyone(permissions), user)
      \o FlattenSeq([i \in DOMAIN user.roles |->
                       PermissionsFor(permissions, user.roles[i], user)])

-----------------------------------------------------------------------------
(* @casl/ability: of the rules that match, the one defined last decides:   *)
(* some rule allows, and none of those after it forbids.                   *)

Conditional(rule) == rule.conditions # Null

RulesFor(rules, action, type) ==
    {i \in DOMAIN rules :
        /\ rules[i].action \in {action, "manage"}
        /\ rules[i].subject \in {type, "all"}}

(* A class is matched by conditions as far as some instance of it may be.  *)
MatchesClass(rule) == Conditional(rule) => ~rule.inverted

MatchesInstance(rule, s) == Conditional(rule) => s \in rule.conditions

LastOneAllows(rules, matching) ==
    \E i \in matching :
        /\ ~rules[i].inverted
        /\ \A j \in matching : j > i => ~rules[j].inverted

CanClass(rules, action, type) ==
    LastOneAllows(rules,
        {i \in RulesFor(rules, action, type) : MatchesClass(rules[i])})

CanInstance(rules, action, s) ==
    LastOneAllows(rules,
        {i \in RulesFor(rules, action, s.type) : MatchesInstance(rules[i], s)})

-----------------------------------------------------------------------------
(* ConditionsProxy.  A query is the set of the instances it selects, out   *)
(* of all those that are stored; Null is the undefined query, which        *)
(* selects nothing in particular: a find with it finds everything.         *)

(* Mutant: the conditions of an inverted rule without $nor. *)
ConvertToMongoQueryPlain(rule, all) == rule.conditions \cap all

ConvertToMongoQuery(rule, all) ==
    IF rule.inverted THEN all \ rule.conditions ELSE rule.conditions \cap all

(* rulesToQuery goes back from the rule defined last to the first one that *)
(* has no conditions: those before that are shadowed.                      *)
Unshadowed(rules, relevant) ==
    {i \in relevant : /\ Conditional(rules[i])
                      /\ \A j \in relevant : j > i => Conditional(rules[j])}

(* That one opens everything the inverted rules behind it do not exclude,  *)
(* or it closes.                                                           *)
Opens(rules, relevant) ==
    \E i \in relevant : /\ ~Conditional(rules[i]) /\ ~rules[i].inverted
                        /\ \A j \in relevant : j > i => Conditional(rules[j])

RulesToQuery(rules, relevant, all) ==
    LET asked  == Unshadowed(rules, relevant)
        either == {i \in asked : ~rules[i].inverted}
        query(i) == ConvertToMongoQuery(rules[i], all)
    IN  IF ~Opens(rules, relevant) /\ either = {} THEN Null
        ELSE {s \in all :
                /\ Opens(rules, relevant) \/ \E i \in either : s \in query(i)
                /\ \A i \in asked \ either : s \in query(i)}

ToMongo(rules, action, type, all) ==
    RulesToQuery(rules, RulesFor(rules, action, type), all)

-----------------------------------------------------------------------------
(* AccessService, the part that needs no request.                          *)

IsSuperuser(superuserRole, user) ==
    superuserRole # Null /\ \E i \in DOMAIN user.roles : user.roles[i] = superuserRole

(* A subject is an instance (it has a type) or, with s = Null, its class.  *)
HasAbility(config, user, action, type, s) ==
    \/ IsSuperuser(config.superuserRole, user)
    \/ LET rules == CreateForUser(config.permissions, user)
       IN  IF s = Null THEN CanClass(rules, action, type)
                       ELSE CanInstance(rules, action, s)
=============================================================================
