\* Three concurrent requests: two sign-ups of one email race while a third
\* request signs in, or signs up with another email.
CONSTANTS
    Emails = {e1, e2}
    Passwords = {p1, p2}
    UserIds = {u1, u2, u3, u4}
    Requests = {r1, r2, r3}
    Null = Null
SYMMETRY Symmetry
SPECIFICATION Spec
INVARIANTS
    TypeOK
    EmailsAreUnique
PROPERTIES
    ImplementsRegistry
    AcknowledgedUsersCanSignIn
\* The model stops when its ids are used up.
CHECK_DEADLOCK FALSE
