---------------------------- MODULE MCCaslAccess ----------------------------
(***************************************************************************)
(* Instances of CaslAccess for TLC: the options and routes of this         *)
(* application, and every small set of permissions.                        *)
(***************************************************************************)
EXTENDS CaslAccess, TLC

Symmetry == Permutations(Ids)

Rule(action, subject, inverted, conditions) ==
    [action |-> action, subject |-> subject,
     inverted |-> inverted, conditions |-> conditions]

Own(id) == {[type |-> "User", id |-> id]}

Route(action, subject, hook, uses) ==
    [action |-> action, subject |-> subject,
     subjectHook |-> hook, usesConditions |-> uses]

MCRoleLists == {<<>>, <<"customer">>, <<"customer", "editor">>, <<"admin">>}

(* user.permissions.ts and auth.permissions.ts (each route sees those of   *)
(* its own module, which are about its own subject), app.module.ts, and    *)
(* the routes.  UserHook returns the user's own account: one id is enough. *)
AppPermissions ==
    [everyone |-> [id \in Ids |-> <<Rule("read", "User", FALSE, Null)>>],
     customer |-> [id \in Ids |-> <<Rule("update", "User", FALSE, Own(id)),
                                     Rule("delete", "Tokens", FALSE, Null)>>]]

AppConfigs ==
    {[permissions |-> AppPermissions, superuserRole |-> "admin", userHook |-> FALSE]}

AppAbilities ==
    {Route("read", "User", FALSE, FALSE),
     Route("update", "User", TRUE, TRUE),
     Route("delete", "Tokens", FALSE, FALSE)}

-----------------------------------------------------------------------------
(* Every list of at most n rules about updating users.                     *)
RuleLists(n) ==
    LET rules == {Rule("update", "User", b, c) : b \in BOOLEAN, c \in {Null, "own"}}
                   \cup {Rule("manage", "all", FALSE, Null)}
    IN  UNION {[1..k -> rules] : k \in 0..n}

(* "own" stands for the instance of the user the rules are defined for.    *)
For(list) ==
    [id \in Ids |-> [i \in DOMAIN list |->
        IF list[i].conditions = "own" THEN [list[i] EXCEPT !.conditions = Own(id)]
                                      ELSE list[i]]]

EditorLists ==
    {<<>>, <<Rule("update", "User", FALSE, "own")>>,
     <<Rule("update", "User", TRUE, "own")>>}

AnyConfigs ==
    {[permissions |-> [every |-> For(a), customer |-> For(b), editor |-> For(c)],
      superuserRole |-> "admin", userHook |-> hook] :
        a \in RuleLists(1), b \in RuleLists(2), c \in EditorLists, hook \in BOOLEAN}

AnyAbilities ==
    {Route("update", "User", TRUE, FALSE), Route("update", "User", FALSE, TRUE)}
=============================================================================
