-------------------------- MODULE SessionLifecycle --------------------------
(***************************************************************************)
(* What the token whitelist promises, without database, tokens or clock.   *)
(*                                                                         *)
(* A session is what one sign-in or one refresh creates: two capabilities, *)
(* to refresh and to access, each of which is granted once and revoked     *)
(* once.  The access capability is granted after the refresh one, to the   *)
(* same user.  A logout is acknowledged (204) at most once per session,    *)
(* together with the revocation of its last capability.                    *)
(***************************************************************************)
CONSTANTS
    Sessions,   \* the sessions that can ever exist
    Users,      \* their possible owners
    Null        \* no owner yet

Stage == {"none", "valid", "revoked"}

VARIABLES
    refresh,   \* refresh[s]: the stage of the capability to refresh
    access,    \* access[s]: the stage of the capability to access
    owner,     \* owner[s]: whom the session was granted to
    closed     \* the sessions whose logout was acknowledged

vars == <<refresh, access, owner, closed>>

TypeOK ==
    /\ refresh \in [Sessions -> Stage]
    /\ access \in [Sessions -> Stage]
    /\ owner \in [Sessions -> Users \cup {Null}]
    /\ closed \subseteq Sessions

Init ==
    /\ refresh = [s \in Sessions |-> "none"]
    /\ access = [s \in Sessions |-> "none"]
    /\ owner = [s \in Sessions |-> Null]
    /\ closed = {}

(* The refresh token is stored: the session exists and has an owner. *)
GrantRefresh(s, u) ==
    /\ refresh[s] = "none" /\ access[s] = "none"
    /\ refresh' = [refresh EXCEPT ![s] = "valid"]
    /\ owner' = [owner EXCEPT ![s] = u]
    /\ UNCHANGED <<access, closed>>

(* The access token is stored; the refresh token may have expired already. *)
GrantAccess(s) ==
    /\ refresh[s] # "none" /\ access[s] = "none"
    /\ access' = [access EXCEPT ![s] = "valid"]
    /\ UNCHANGED <<refresh, owner, closed>>

(* One capability ends: it expired, or a logout has begun or got stuck. *)
RevokeRefresh(s) ==
    /\ refresh[s] = "valid"
    /\ refresh' = [refresh EXCEPT ![s] = "revoked"]
    /\ UNCHANGED <<access, owner, closed>>

RevokeAccess(s) ==
    /\ access[s] = "valid"
    /\ access' = [access EXCEPT ![s] = "revoked"]
    /\ UNCHANGED <<refresh, owner, closed>>

(* The last capability ends and the logout is acknowledged. *)
Close(s) ==
    /\ access[s] # "none" /\ s \notin closed
    /\ "valid" \in {refresh[s], access[s]}
    /\ ~(refresh[s] = "valid" /\ access[s] = "valid")
    /\ refresh' = [refresh EXCEPT ![s] = "revoked"]
    /\ access' = [access EXCEPT ![s] = "revoked"]
    /\ closed' = closed \cup {s}
    /\ UNCHANGED owner

Next == \E s \in Sessions :
    \/ \E u \in Users : GrantRefresh(s, u)
    \/ GrantAccess(s)
    \/ RevokeRefresh(s)
    \/ RevokeAccess(s)
    \/ Close(s)

Spec == Init /\ [][Next]_vars

-----------------------------------------------------------------------------
(* A session whose logout was acknowledged gives no access of any kind. *)
ClosedMeansRevoked ==
    \A s \in closed : refresh[s] = "revoked" /\ access[s] = "revoked"
=============================================================================
