--------------------------- MODULE AccountRegistry ---------------------------
(***************************************************************************)
(* What sign-up and sign-in promise: every email address is a write-once   *)
(* register that holds a password, a sign-up is acknowledged only to the   *)
(* one who wrote it, and only who knows its content gets tokens.           *)
(***************************************************************************)
CONSTANTS Emails, Passwords, Free   \* Free: nobody has registered the email

VARIABLES
    registry,       \* registry[e]: the password registered for e, or Free
    acknowledged,   \* the credentials whose registration was acknowledged
    granted         \* the credentials that were given tokens

vars == <<registry, acknowledged, granted>>

Init ==
    /\ registry = [e \in Emails |-> Free]
    /\ acknowledged = {}
    /\ granted = {}

(* The answer may be lost, never given twice or for somebody else's write. *)
Register(e, p) ==
    /\ registry[e] = Free
    /\ registry' = [registry EXCEPT ![e] = p]
    /\ \/ acknowledged' = acknowledged \cup {<<e, p>>}
       \/ UNCHANGED acknowledged
    /\ UNCHANGED granted

Grant(e, p) ==
    /\ registry[e] = p
    /\ granted' = granted \cup {<<e, p>>}
    /\ UNCHANGED <<registry, acknowledged>>

Next == \E e \in Emails, p \in Passwords : Register(e, p) \/ Grant(e, p)

Spec == Init /\ [][Next]_vars
=============================================================================
