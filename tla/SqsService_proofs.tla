-------------------------- MODULE SqsService_proofs --------------------------
(* At-least-once delivery and an orderly stop, for any queues, messages and *)
(* options.                                                                *)
EXTENDS SqsService, TLAPS

Placed ==
    /\ queueOf \in [Messages -> Queues \cup {Unsent}]
    /\ place \in [Messages -> {"nowhere", "visible", "held"}]
    /\ working \subseteq SUBSET Messages

IInv == Placed /\ NothingIsLost

LEMMA InitEstablishes == Init => IInv
BY DEF Init, IInv, Placed, NothingIsLost

LEMMA StepPreserves == IInv /\ [Next]_vars => IInv'
<1> SUFFICES ASSUME IInv, [Next]_vars PROVE IInv'
  OBVIOUS
<1> USE DEF IInv, Placed, NothingIsLost, process, queue, history
<1>1. CASE InitFails
  BY <1>1 DEF InitFails
<1>2. CASE OnModuleInit
  BY <1>2 DEF OnModuleInit
<1>3. CASE OnModuleDestroy
  BY <1>3 DEF OnModuleDestroy
<1>4. CASE Restart
  BY <1>4 DEF Restart
<1>5. ASSUME NEW m \in Messages, Reappear(m) PROVE IInv'
  BY <1>5 DEF Reappear
<1>6. ASSUME NEW m \in Messages, NEW q \in Queues, Send(m, q) PROVE IInv'
  BY <1>6 DEF Send
<1>7. ASSUME NEW q \in Queues, PurgeQueue(q) PROVE IInv'
  BY <1>7 DEF PurgeQueue
<1>8. ASSUME NEW q \in Queues, Poll(q) \/ Answered(q) PROVE IInv'
  <2>1. CASE Poll(q)
    BY <2>1 DEF Poll
  <2>2. CASE Answered(q)
    <3>1. PICK taken \in SUBSET Of(q) : Taking(q, taken) /\ working' \subseteq SUBSET Messages
      BY <2>2 DEF Answered, Receive, Unanswered, Of
    <3>2. QED
      BY <3>1 DEF Taking, Of
  <2>3. QED
    BY <1>8, <2>1, <2>2
<1>9. ASSUME NEW call \in working, NEW acked \in SUBSET call, HandlerResolves(call, acked)
      PROVE  IInv'
  <2>1. working' \subseteq SUBSET Messages
    BY <1>9 DEF HandlerResolves
  <2>2. place' \in [Messages -> {"nowhere", "visible", "held"}]
    BY <1>9 DEF HandlerResolves
  <2>3. NothingIsLost'
    BY <1>9 DEF HandlerResolves
  <2>4. QED
    BY <1>9, <2>1, <2>2, <2>3 DEF HandlerResolves
<1>10. ASSUME NEW call \in working, HandlerRejects(call) PROVE IInv'
  BY <1>10 DEF HandlerRejects
<1>11. CASE UNCHANGED vars
  BY <1>11 DEF vars
<1>12. QED
  BY <1>1, <1>2, <1>3, <1>4, <1>5, <1>6, <1>7, <1>8, <1>9, <1>10, <1>11 DEF Next

(* A message that was sent is in its queue until it is processed or purged. *)
THEOREM AtLeastOnce == Spec => []NothingIsLost
<1>1. IInv => NothingIsLost
  BY DEF IInv
<1>2. QED
  BY <1>1, InitEstablishes, StepPreserves, PTL DEF Spec

-----------------------------------------------------------------------------
NoneStarted == service = "stopped" => polling = {}

LEMMA NoneStartedStep == NoneStarted /\ [Next]_vars => NoneStarted'
BY DEF NoneStarted, Next, vars, process, queue, history, InitFails, OnModuleInit,
   OnModuleDestroy, Restart, Reappear, Send, PurgeQueue, Poll, Answered, Receive,
   Unanswered, Taking, HandlerResolves, HandlerRejects

LEMMA StopEnds == Spec => []NoneStarted
<1>1. Init => NoneStarted
  BY DEF Init, NoneStarted
<1>2. QED
  BY <1>1, NoneStartedStep, PTL DEF Spec

(* After onModuleDestroy nothing is asked for any more, and a handler is   *)
(* only called with the answer to a poll that was under way at the stop.   *)
THEOREM StopIsOrderly == Spec => StoppedAsksNoMore
<1>1. ASSUME NoneStarted, Next, service = "stopped"
      PROVE  /\ requested' \subseteq requested
             /\ \A call \in working' \ working :
                   \E q \in requested \ requested' : call \subseteq Of(q)
  <2>1. CASE UNCHANGED requested /\ working' \subseteq working
    BY <2>1
  <2>2. ASSUME NEW q \in Queues, Answered(q)
        PROVE  /\ requested' \subseteq requested
               /\ \A call \in working' \ working :
                     \E z \in requested \ requested' : call \subseteq Of(z)
    <3>1. PICK taken \in SUBSET Of(q) : Receive(q, taken) \/ Unanswered(q, taken)
      BY <2>2 DEF Answered
    <3>2. q \in requested /\ requested' = requested \ {q}
      BY <3>1 DEF Receive, Unanswered, Taking
    <3>3. \A call \in working' \ working : call \subseteq taken
      BY <3>1 DEF Receive, Unanswered
    <3>4. QED
      BY <3>2, <3>3
  <2>3. \A q \in Queues : ~Poll(q)
    BY <1>1 DEF NoneStarted, Poll
  <2>4. CASE Restart
    BY <2>4 DEF Restart
  <2>5. QED
    BY <1>1, <2>1, <2>2, <2>3, <2>4 DEF Next, process, queue, history, InitFails,
       OnModuleInit, OnModuleDestroy, Reappear, Send, PurgeQueue, HandlerResolves,
       HandlerRejects
<1>2. QED
  BY <1>1, StopEnds, PTL DEF Spec, StoppedAsksNoMore

-----------------------------------------------------------------------------
(* Types.  A consumer polls only when it was built, and is built only for a *)
(* name of the options: the names in them are those of queues.             *)
LEMMA OptionTypes ==
    ASSUME config \in Configs
    PROVE  Consumed \subseteq Queues /\ ToSet(config.producers) \subseteq Queues
BY ConfigsAssumption DEF Consumed, ToSet

(* Every variable keeps its type; in particular no queue is polled that has *)
(* no consumer.                                                            *)
THEOREM TypesOfSqsService == Spec => []TypeOK
<1>1. Init => TypeOK
  BY DEF Init, TypeOK
<1>2. TypeOK /\ IInv /\ [Next]_vars /\ IInv' => TypeOK'
  <2> SUFFICES ASSUME TypeOK, IInv, IInv', [Next]_vars PROVE TypeOK'
    OBVIOUS
  <2>1. config' = config
    BY DEF Next, vars, InitFails, OnModuleInit, OnModuleDestroy, Restart, Reappear,
       Send, PurgeQueue, Poll, Answered, Receive, Unanswered, Taking, HandlerResolves,
       HandlerRejects
  <2>2. service' \in {"down", "running", "stopped", "failed"}
    BY DEF TypeOK, Next, vars, InitFails, OnModuleInit, OnModuleDestroy, Restart,
       Reappear, Send, PurgeQueue, Poll, Answered, Receive, Unanswered, Taking,
       HandlerResolves, HandlerRejects
  <2>3. /\ consumers' \subseteq Queues /\ producers' \subseteq Queues
        /\ polling' \subseteq consumers' /\ requested' \subseteq consumers'
    BY OptionTypes DEF TypeOK, Next, vars, process, InitFails, OnModuleInit,
       OnModuleDestroy, Restart, Reappear, Send, PurgeQueue, Poll, Answered, Receive,
       Unanswered, Taking, HandlerResolves, HandlerRejects
  <2>4. processed' \subseteq Messages /\ purged' \subseteq Messages
    BY DEF TypeOK, Next, vars, history, InitFails, OnModuleInit, OnModuleDestroy,
       Restart, Reappear, Send, PurgeQueue, Poll, Answered, Receive, Unanswered,
       Taking, HandlerResolves, HandlerRejects
  <2>5. QED
    BY <2>1, <2>2, <2>3, <2>4 DEF TypeOK, IInv, Placed
<1>3. QED
  BY <1>1, <1>2, InitEstablishes, StepPreserves, PTL DEF Spec

-----------------------------------------------------------------------------
(* A handler is called with messages that were sent to one queue.          *)
OneQueue ==
    \A call \in working : \E q \in Queues : call \subseteq {m \in Messages : queueOf[m] = q}

LEMMA InitOneQueue == Init => OneQueue
BY DEF Init, OneQueue

LEMMA StepOneQueue == IInv /\ OneQueue /\ [Next]_vars => OneQueue'
<1> SUFFICES ASSUME IInv, OneQueue, [Next]_vars PROVE OneQueue'
  OBVIOUS
<1>1. CASE UNCHANGED <<working, queueOf>>
  BY <1>1 DEF OneQueue
<1>2. ASSUME NEW m \in Messages, NEW q \in Queues, Send(m, q) PROVE OneQueue'
  <2>1. working' = working /\ queueOf' = [queueOf EXCEPT ![m] = q] /\ queueOf[m] = Unsent
    BY <1>2 DEF Send, process
  <2> SUFFICES ASSUME NEW call \in working
               PROVE  \E r \in Queues : call \subseteq {n \in Messages : queueOf'[n] = r}
    BY <2>1 DEF OneQueue
  <2>2. PICK r \in Queues : call \subseteq {n \in Messages : queueOf[n] = r}
    BY DEF OneQueue
  <2>3. m \notin call
    BY <2>1, <2>2, UnsentAssumption
  <2>4. call \subseteq {n \in Messages : queueOf'[n] = r}
    BY <2>1, <2>2, <2>3 DEF IInv, Placed
  <2>5. QED
    BY <2>4
<1>3. ASSUME NEW q \in Queues, Answered(q) PROVE OneQueue'
  <2>1. PICK taken \in SUBSET Of(q) : Receive(q, taken) \/ Unanswered(q, taken)
    BY <1>3 DEF Answered
  <2>2. queueOf' = queueOf /\ \A call \in working' : call \in working \/ call \subseteq taken
    BY <2>1 DEF Receive, Unanswered, Taking
  <2>3. QED
    BY <2>2 DEF OneQueue, Of
<1>4. ASSUME NEW call \in working, NEW acked \in SUBSET call,
             HandlerResolves(call, acked) \/ HandlerRejects(call)
      PROVE  OneQueue'
  BY <1>4 DEF HandlerResolves, HandlerRejects, queue, OneQueue
<1>5. CASE Restart
  BY <1>5 DEF Restart, OneQueue
<1>6. QED
  BY <1>1, <1>2, <1>3, <1>4, <1>5 DEF Next, vars, process, queue, InitFails,
     OnModuleInit, OnModuleDestroy, Reappear, PurgeQueue, Poll

Present == {m \in Messages : place[m] # "nowhere"}

LEMMA StepImplements ==
    IInv /\ OneQueue /\ [Next]_vars => [Contract!Next]_(Contract!vars)
<1> SUFFICES ASSUME IInv, OneQueue, [Next]_vars
             PROVE  Contract!Next \/ UNCHANGED Contract!vars
  OBVIOUS
<1>0. \A q : Contract!Of(q) = {m \in Messages : queueOf[m] = q}
  BY DEF Contract!Of
<1>1. CASE UNCHANGED <<queueOf, place, processed, purged>>
  BY <1>1 DEF Contract!vars
<1>2. ASSUME NEW m \in Messages, NEW q \in Queues, Send(m, q) PROVE Contract!Next
  <2>1. Present' = Present \cup {m}
    BY <1>2 DEF Send, IInv, Placed, Present
  <2>2. Contract!Put(m, q)
    BY <1>2, <2>1 DEF Send, history, Present, Contract!Put
  <2>3. QED
    BY <2>2 DEF Contract!Next
<1>3. ASSUME NEW q \in Queues, PurgeQueue(q) PROVE Contract!Next
  <2>1. Present' = Present \ Contract!Of(q)
    BY <1>0, <1>3 DEF PurgeQueue, Present
  <2>2. purged' = purged \cup (Present \cap Contract!Of(q))
    BY <1>0, <1>3 DEF PurgeQueue, Present
  <2>3. Contract!Purge(q)
    BY <1>3, <2>1, <2>2 DEF PurgeQueue, Present, Contract!Purge
  <2>4. QED
    BY <2>3 DEF Contract!Next
<1>4. ASSUME NEW q \in Queues, Answered(q) PROVE UNCHANGED Contract!vars
  <2>1. PICK taken \in SUBSET Of(q) : Taking(q, taken)
    BY <1>4 DEF Answered, Receive, Unanswered
  <2>2. Present' = Present
    BY <2>1 DEF Taking, Of, Present
  <2>3. QED
    BY <2>1, <2>2 DEF Taking, history, Present, Contract!vars
<1>5. ASSUME NEW m \in Messages, Reappear(m) PROVE UNCHANGED Contract!vars
  <2>1. Present' = Present
    BY <1>5 DEF Reappear, IInv, Placed, Present
  <2>2. QED
    BY <1>5, <2>1 DEF Reappear, history, Present, Contract!vars
<1>6. ASSUME NEW call \in working, NEW acked \in SUBSET call, HandlerResolves(call, acked)
      PROVE  Contract!Next
  <2>1. PICK q \in Queues : call \subseteq {m \in Messages : queueOf[m] = q}
    BY DEF OneQueue
  <2>2. PICK deleted \in SUBSET acked :
            place' = [m \in Messages |-> IF m \in deleted THEN "nowhere" ELSE place[m]]
    BY <1>6 DEF HandlerResolves
  <2>3. Present' = Present \ deleted
    BY <2>2 DEF Present
  <2>4. Contract!Finish(acked)
    BY <1>6, <2>3 DEF HandlerResolves, Present, Contract!Finish
  <2>5. acked \in SUBSET Contract!Of(q)
    BY <1>0, <2>1
  <2>6. QED
    BY <2>4, <2>5 DEF Contract!Next
<1>7. QED
  BY <1>1, <1>2, <1>3, <1>4, <1>5, <1>6 DEF Next, vars, process, queue, history,
     InitFails, OnModuleInit, OnModuleDestroy, Restart, Poll, HandlerRejects

(* SqsService, with its consumers, its stops and restarts and the queue's  *)
(* timeouts, implements the queue of the abstract specification.           *)
THEOREM Implements == Spec => ImplementsQueue
<1>1. Init => Contract!Init
  BY DEF Init, Contract!Init
<1>2. QED
  BY <1>1, InitEstablishes, StepPreserves, InitOneQueue, StepOneQueue, StepImplements, PTL
     DEF Spec, ImplementsQueue, Contract!Spec
-----------------------------------------------------------------------------
(* What the life cycle of the process leaves true of its consumers: only a *)
(* running service polls, and then all that have a handler; what ever sent *)
(* a message has started without a duplicate.                              *)
Started ==
    /\ config \in Configs
    /\ polling = IF service = "running" THEN Consumed ELSE {}
    /\ requested \subseteq Consumed
    /\ service \in {"running", "stopped"} => ~Duplicate
    /\ \A m \in Messages : queueOf[m] # Unsent => ~Duplicate /\ service # "failed"
    /\ service = "failed" => Duplicate

LEMMA StartedStep == IInv /\ Started /\ [Next]_vars => Started'
<1> SUFFICES ASSUME IInv, Started, [Next]_vars PROVE Started'
  OBVIOUS
<1>1. config' = config
  BY DEF Next, vars, InitFails, OnModuleInit, OnModuleDestroy, Restart, Reappear,
     Send, PurgeQueue, Poll, Answered, Receive, Unanswered, Taking, HandlerResolves,
     HandlerRejects
<1>2. Consumed' = Consumed /\ (Duplicate' <=> Duplicate)
  BY <1>1 DEF Consumed, Duplicate
<1>3. CASE UNCHANGED <<service, polling, queueOf>> /\ requested' \subseteq requested \cup polling
  BY <1>1, <1>2, <1>3 DEF Started
<1>4. CASE InitFails \/ OnModuleInit \/ OnModuleDestroy \/ Restart
  <2>1. queueOf' = queueOf
    BY <1>4 DEF InitFails, OnModuleInit, OnModuleDestroy, Restart, queue
  <2>2. CASE InitFails
    <3>1. service' = "failed" /\ Duplicate /\ service = "down" /\ UNCHANGED <<polling, requested>>
      BY <2>2 DEF InitFails, process
    <3>2. QED
      BY <1>1, <1>2, <2>1, <3>1 DEF Started
  <2>3. CASE OnModuleInit
    <3>1. /\ service' = "running" /\ ~Duplicate
            /\ polling' = Consumed /\ requested' = Consumed
      BY <2>3 DEF OnModuleInit
    <3>2. QED
      BY <1>1, <1>2, <2>1, <3>1 DEF Started
  <2>4. CASE OnModuleDestroy
    <3>1. /\ service = "running" /\ service' = "stopped"
          /\ polling' = {} /\ requested' = requested
      BY <2>4 DEF OnModuleDestroy
    <3>2. QED
      BY <1>1, <1>2, <2>1, <3>1 DEF Started
  <2>5. CASE Restart
    <3>1. service' = "down" /\ polling' = {} /\ requested' = {}
      BY <2>5 DEF Restart
    <3>2. QED
      BY <1>1, <1>2, <2>1, <3>1 DEF Started
  <2>6. QED
    BY <1>4, <2>2, <2>3, <2>4, <2>5
<1>5. ASSUME NEW m \in Messages, NEW q \in Queues, Send(m, q) PROVE Started'
  <2>1. /\ service \in {"running", "stopped"}
        /\ UNCHANGED <<service, polling, requested>>
    BY <1>5 DEF Send, process
  <2>2. QED
    BY <1>1, <1>2, <2>1 DEF Started
<1>6. ASSUME NEW q \in Queues, Poll(q) \/ Answered(q) PROVE Started'
  <2>1. UNCHANGED <<service, polling, queueOf>> /\ requested' \subseteq requested \cup polling
    BY <1>6 DEF Poll, Answered, Receive, Unanswered, Taking, queue
  <2>2. QED
    BY <1>3, <2>1
<1>7. QED
  BY <1>3, <1>4, <1>5, <1>6 DEF Next, vars, process, queue, Reappear, PurgeQueue,
     HandlerResolves, HandlerRejects

(* A message that was sent to a handled queue and is neither processed nor *)
(* purged can still get there: its process can start, its queue is polled  *)
(* whenever one runs, and it is visible in it or will be again.            *)
NoMessageIsStuck ==
    \A m \in Messages :
        queueOf[m] \in Consumed /\ m \notin processed \cup purged =>
            /\ place[m] \in {"visible", "held"}
            /\ service # "failed" /\ ~Duplicate
            /\ service = "running" => queueOf[m] \in polling

(* What is left to SentIsProcessed is that someone receives the message    *)
(* and its handler resolves: no order of rejections, failed deletions,     *)
(* timeouts, stops and restarts puts it out of reach.                      *)
THEOREM MessagesStayReachable == Spec => []NoMessageIsStuck
<1>1. Init => Started
  BY DEF Init, Started
<1>2. IInv /\ Started => NoMessageIsStuck
  <2> SUFFICES ASSUME IInv, Started, NEW m \in Messages,
                      queueOf[m] \in Consumed, m \notin processed \cup purged
               PROVE  /\ place[m] \in {"visible", "held"}
                      /\ service # "failed" /\ ~Duplicate
                      /\ service = "running" => queueOf[m] \in polling
    BY DEF NoMessageIsStuck
  <2>1. queueOf[m] # Unsent
    BY OptionTypes, UnsentAssumption DEF Started
  <2>2. place[m] \in {"visible", "held"}
    BY <2>1 DEF IInv, Placed, NothingIsLost
  <2>3. QED
    BY <2>1, <2>2 DEF Started
<1>3. QED
  BY <1>1, <1>2, StartedStep, InitEstablishes, StepPreserves, PTL DEF Spec

-----------------------------------------------------------------------------
(* A call of a handler gets messages of one queue that it handles, and a   *)
(* handler without batch gets them one by one.                             *)
OwnCall(call, q) ==
    /\ q \in Consumed
    /\ call \subseteq {m \in Messages : queueOf[m] = q}
    /\ q \notin config.batch => \E m \in Messages : call = {m}

HandlersGetTheirOwn ==
    /\ \A call \in working : \E q \in Queues : OwnCall(call, q)
    /\ \A m \in processed : queueOf[m] \in Consumed

LEMMA OwnStep ==
    IInv /\ Started /\ HandlersGetTheirOwn /\ [Next]_vars => HandlersGetTheirOwn'
<1> SUFFICES ASSUME IInv, Started, HandlersGetTheirOwn, [Next]_vars
             PROVE  HandlersGetTheirOwn'
  OBVIOUS
<1>1. config' = config
  BY DEF Next, vars, InitFails, OnModuleInit, OnModuleDestroy, Restart, Reappear,
     Send, PurgeQueue, Poll, Answered, Receive, Unanswered, Taking, HandlerResolves,
     HandlerRejects
<1>2. Consumed' = Consumed /\ Consumed \subseteq Queues
  BY <1>1, OptionTypes DEF Consumed, Started
<1>3. CASE working' \subseteq working /\ UNCHANGED <<queueOf, processed>>
  BY <1>1, <1>2, <1>3 DEF HandlersGetTheirOwn, OwnCall
<1>4. ASSUME NEW m \in Messages, NEW q \in Queues, Send(m, q)
      PROVE  HandlersGetTheirOwn'
  <2>1. /\ UNCHANGED <<working, processed>>
        /\ queueOf' = [queueOf EXCEPT ![m] = q] /\ queueOf[m] = Unsent
    BY <1>4 DEF Send, process, history
  <2>2. \A n \in Messages : queueOf[n] \in Queues => queueOf'[n] = queueOf[n]
    BY <2>1, UnsentAssumption DEF IInv, Placed
  <2>3. ASSUME NEW call \in working, NEW z \in Queues, OwnCall(call, z)
        PROVE  OwnCall(call, z)'
    BY <1>1, <1>2, <2>2, <2>3 DEF OwnCall
  <2>4. ASSUME NEW n \in processed PROVE queueOf'[n] \in Consumed
    <3>1. queueOf[n] \in Consumed
      BY DEF HandlersGetTheirOwn
    <3>2. n # m
      BY <1>2, <2>1, <3>1, UnsentAssumption
    <3>3. QED
      BY <2>1, <3>1, <3>2 DEF IInv, Placed
  <2>5. QED
    BY <1>2, <2>1, <2>3, <2>4 DEF HandlersGetTheirOwn
<1>5. ASSUME NEW q \in Queues, NEW taken \in SUBSET Of(q), Receive(q, taken)
      PROVE  HandlersGetTheirOwn'
  <2>1. /\ UNCHANGED <<queueOf, processed>> /\ q \in Consumed
        /\ taken \subseteq {m \in Messages : queueOf[m] = q}
    BY <1>5 DEF Receive, Taking, Of, history, Started
  <2>2. ASSUME NEW call \in working' \ working PROVE OwnCall(call, q)
    <3>1. CASE q \in config.batch
      BY <1>5, <2>1, <2>2, <3>1 DEF Receive, OwnCall
    <3>2. CASE q \notin config.batch
      <4>1. \E m \in taken : call = {m}
        BY <1>5, <2>2, <3>2 DEF Receive
      <4>2. QED
        BY <2>1, <4>1 DEF OwnCall
    <3>3. QED
      BY <3>1, <3>2
  <2>3. ASSUME NEW call, NEW z \in Queues, OwnCall(call, z) PROVE OwnCall(call, z)'
    BY <1>1, <1>2, <2>1, <2>3 DEF OwnCall
  <2>4. \A call \in working' : \E z \in Queues : OwnCall(call, z)'
    BY <2>2, <2>3 DEF HandlersGetTheirOwn
  <2>5. QED
    BY <1>2, <2>1, <2>4 DEF HandlersGetTheirOwn
<1>6. ASSUME NEW call \in working, NEW acked \in SUBSET call, HandlerResolves(call, acked)
      PROVE  HandlersGetTheirOwn'
  <2>1. /\ working' \subseteq working /\ queueOf' = queueOf
        /\ processed' = processed \cup acked
    BY <1>6 DEF HandlerResolves
  <2>2. \A m \in acked : queueOf[m] \in Consumed
    BY DEF HandlersGetTheirOwn, OwnCall
  <2>3. QED
    BY <1>1, <1>2, <2>1, <2>2 DEF HandlersGetTheirOwn, OwnCall
<1>7. QED
  BY <1>3, <1>4, <1>5, <1>6 DEF Next, vars, process, queue, history, InitFails,
     OnModuleInit, OnModuleDestroy, Restart, Reappear, PurgeQueue, Poll, Answered,
     Unanswered, Taking, HandlerRejects

(* No handler is ever called with a message of another queue, or with more *)
(* than one message unless it is a batch handler, and nothing counts as    *)
(* processed that was not sent to a queue with a handler.                  *)
THEOREM CallsAreOwn == Spec => []HandlersGetTheirOwn
<1>1. Init => Started /\ HandlersGetTheirOwn
  BY DEF Init, Started, HandlersGetTheirOwn
<1>2. QED
  BY <1>1, StartedStep, OwnStep, InitEstablishes, StepPreserves, PTL DEF Spec
=============================================================================
