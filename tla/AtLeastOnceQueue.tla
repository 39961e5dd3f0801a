-------------------------- MODULE AtLeastOnceQueue --------------------------
(***************************************************************************)
(* What a message queue with handlers promises its clients: a message that *)
(* is put stays until a handler of its queue has done it or the queue is   *)
(* purged.  It may stay longer, and be done again.                         *)
(***************************************************************************)
CONSTANTS Queues, Messages, Unsent

VARIABLES
    sentTo,         \* the queue of each message
    present,        \* messages in their queues
    done,           \* messages that some handler has done
    purged

vars == <<sentTo, present, done, purged>>

Init ==
    /\ sentTo = [m \in Messages |-> Unsent]
    /\ present = {} /\ done = {} /\ purged = {}

Of(q) == {m \in Messages : sentTo[m] = q}

Put(m, q) ==
    /\ sentTo[m] = Unsent
    /\ sentTo' = [sentTo EXCEPT ![m] = q]
    /\ present' = present \cup {m}
    /\ UNCHANGED <<done, purged>>

(* One message, or what a batch handler was called with; some of it may    *)
(* stay there for another time.                                            *)
Finish(call) ==
    /\ done' = done \cup call
    /\ \E gone \in SUBSET call : present' = present \ gone
    /\ UNCHANGED <<sentTo, purged>>

Purge(q) ==
    /\ present' = present \ Of(q)
    /\ purged' = purged \cup (present \cap Of(q))
    /\ UNCHANGED <<sentTo, done>>

Next ==
    \E q \in Queues :
        \/ \E m \in Messages : Put(m, q)
        \/ \E call \in SUBSET Of(q) : Finish(call)
        \/ Purge(q)

Spec == Init /\ [][Next]_vars
=============================================================================
