---------------------------- MODULE Application ----------------------------
(***************************************************************************)
(* main.ts as a whole: the application starts (Startup), and once it       *)
(* listens a request goes through it (HttpPipeline).  The two share the    *)
(* Prisma client, which the request may query.                             *)
(***************************************************************************)
EXTENDS HttpPipeline, Startup

CONSTANT Registered     \* the registrations to start with

appVars == <<vars, boot>>

AppInit == Init /\ registration \in Registered /\ BootInit

(* AuthGuard looks for the token in the whitelist, the hooks of updateUser *)
(* and every handler but that of health for what they need.                *)
MayQuery ==
    \/ pc = "authGuard" /\ route \notin SkipAuth
    \/ pc = "accessGuard" /\ route = "updateUser"
    \/ pc = "handler" /\ route # "health"

(* Node's server takes requests from app.listen to app.close, which waits  *)
(* for those it has taken.                                                 *)
Serve ==
    /\ phase \in {"listening", "closed"}
    /\ phase = "closed" => pc # "parser"
    /\ Next
    /\ \/ UNCHANGED boot
       \/ MayQuery /\ Query

Boot == BootNext /\ UNCHANGED vars

AppNext == Serve \/ Boot

(* The injector and the hooks get on while they can: what they await       *)
(* resolves or rejects.                                                    *)
AppSpec == AppInit /\ [][AppNext]_appVars /\ WF_appVars(Bootstrap /\ UNCHANGED vars)
=============================================================================
