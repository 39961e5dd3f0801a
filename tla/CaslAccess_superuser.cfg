\* The permissions, options and routes of this application.
CONSTANTS
    Null = Null
    Ids = {i1}
    Types = {"User", "Tokens"}
    RoleLists <- MCRoleLists
    Configs <- AppConfigs
    Abilities <- AppAbilities
SPECIFICATION Spec
PROPERTIES SuperuserIsServed
CHECK_DEADLOCK FALSE
