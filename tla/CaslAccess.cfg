\* Every permission set of up to one rule for everyone, two for customers
\* and one for editors, with and without a user hook.
CONSTANTS
    Null = Null
    Ids = {i1, i2}
    Types = {"User"}
    RoleLists <- MCRoleLists
    Configs <- AnyConfigs
    Abilities <- AnyAbilities
SYMMETRY Symmetry
SPECIFICATION Spec
INVARIANTS
    TypeOK
    AdmittedInstanceIsAllowed
    AdmittedUserMayClass
    GuardAgreesWithHasAbility
    HandlerGetsCheckedSubject
    ConditionsSelectAllowed
\* A request ends.
CHECK_DEADLOCK FALSE
