----------------------------- MODULE SqsService -----------------------------
(***************************************************************************)
(* SqsService: the consumers and producers it builds from the options and  *)
(* the decorated handlers, and the life of a message between send and the  *)
(* handler that resolves for it.                                           *)
(*                                                                         *)
(* The queue hides a message while a consumer holds it, shows it again     *)
(* after a timeout, and forgets it when the consumer deletes it.  The      *)
(* consumer asks for messages by a long poll, and deletes what its handler *)
(* has acknowledged: the message it was called with or, for a batch        *)
(* handler, all of them or those it names.                                 *)
(***************************************************************************)
EXTENDS FiniteSets, SequencesExt

CONSTANTS
    Queues,         \* names, of consumers and producers alike
    Messages,
    Configs         \* options that sqs-consumer and sqs-producer accept, and
                    \* the decorated methods of an application

(* handlers: the names in @SqsMessageHandler; batch: those with batch true. *)
ASSUME ConfigsAssumption ==
    Configs \subseteq [consumers : Seq(Queues), producers : Seq(Queues),
                       handlers : SUBSET Queues, batch : SUBSET Queues]

VARIABLES
    config,
    service,        \* "down", "running", "stopped" or, for ever, "failed"
    consumers,      \* this.consumers: the names that have one
    producers,      \* this.producers
    polling,        \* the consumers that are started
    requested,      \* the consumers whose long poll is still unanswered
    working,        \* the handler calls in progress: the messages of each
    queueOf,        \* where a message was sent, or to no queue yet
    place,          \* of a message: "nowhere", "visible" or "held" in its queue
    processed,      \* history: messages some handler has acknowledged
    purged          \* history: messages removed by purgeQueue

process == <<consumers, producers, polling, requested>>
queue   == <<queueOf, place>>
history == <<processed, purged>>
vars    == <<config, service, process, working, queue, history>>

Unsent == "unsent"

ASSUME UnsentAssumption == Unsent \notin Queues

TypeOK ==
    /\ config \in Configs
    /\ service \in {"down", "running", "stopped", "failed"}
    /\ consumers \subseteq Queues /\ producers \subseteq Queues
    /\ polling \subseteq consumers /\ requested \subseteq consumers
    /\ working \subseteq SUBSET Messages
    /\ queueOf \in [Messages -> Queues \cup {Unsent}]
    /\ place \in [Messages -> {"nowhere", "visible", "held"}]
    /\ processed \subseteq Messages /\ purged \subseteq Messages

Init ==
    /\ config \in Configs
    /\ service = "down"
    /\ consumers = {} /\ producers = {} /\ polling = {} /\ requested = {} /\ working = {}
    /\ queueOf = [m \in Messages |-> Unsent]
    /\ place = [m \in Messages |-> "nowhere"]
    /\ processed = {} /\ purged = {}

-----------------------------------------------------------------------------
Repeats(names, name) == \E i, j \in DOMAIN names : i # j /\ names[i] = name /\ names[j] = name

(* A consumer without a handler is skipped with a warning, so its name is  *)
(* free for another one.                                                   *)
Consumed == ToSet(config.consumers) \cap config.handlers

Duplicate ==
    \/ \E q \in Consumed : Repeats(config.consumers, q)
    \/ \E q \in Queues : Repeats(config.producers, q)

(* An error of onModuleInit ends the process.                              *)
InitFails ==
    /\ service = "down" /\ Duplicate
    /\ service' = "failed"
    /\ UNCHANGED <<config, process, working, queue, history>>

(* Mutant: consumers without a handler are started as well.                *)
OnModuleInitUnhandled ==
    /\ service = "down" /\ ~Duplicate
    /\ service' = "running"
    /\ consumers' = Consumed
    /\ producers' = ToSet(config.producers)
    /\ polling' = ToSet(config.consumers) /\ requested' = polling'
    /\ UNCHANGED <<config, working, queue, history>>

(* Mutant: the consumers are built, and never started.                     *)
OnModuleInitIdle ==
    /\ service = "down" /\ ~Duplicate
    /\ service' = "running"
    /\ consumers' = Consumed
    /\ producers' = ToSet(config.producers)
    /\ UNCHANGED <<config, polling, requested, working, queue, history>>

(* start polls at once.                                                    *)
OnModuleInit ==
    /\ service = "down" /\ ~Duplicate
    /\ service' = "running"
    /\ consumers' = Consumed
    /\ producers' = ToSet(config.producers)
    /\ polling' = Consumed /\ requested' = Consumed
    /\ UNCHANGED <<config, working, queue, history>>

(* Mutant: one of the consumers is forgotten.                              *)
OnModuleDestroyMissesOne ==
    /\ service = "running"
    /\ service' = "stopped"
    /\ \E q \in polling \cup {Unsent} : polling' = polling \cap {q}
    /\ UNCHANGED <<config, consumers, producers, requested, working, queue, history>>

(* stop() without abort: no poll follows, but the one that is under way is *)
(* answered, and the calls in progress are finished.                       *)
OnModuleDestroy ==
    /\ service = "running"
    /\ service' = "stopped"
    /\ polling' = {}
    /\ UNCHANGED <<config, consumers, producers, requested, working, queue, history>>

(* The process ends, in order after a stop or not, and is started again.   *)
Restart ==
    /\ service \in {"running", "stopped"}
    /\ service' = "down"
    /\ consumers' = {} /\ producers' = {} /\ polling' = {} /\ requested' = {}
    /\ working' = {}
    /\ UNCHANGED <<config, queue, history>>

-----------------------------------------------------------------------------
(* send throws for a name without producer, and nothing is sent then.      *)
Send(m, q) ==
    /\ service \in {"running", "stopped"}
    /\ q \in producers /\ queueOf[m] = Unsent
    /\ queueOf' = [queueOf EXCEPT ![m] = q]
    /\ place' = [place EXCEPT ![m] = "visible"]
    /\ UNCHANGED <<config, service, process, working, history>>

(* Mutant: all queues of the client are purged.                            *)
PurgeQueueOfClient(q) ==
    /\ service \in {"running", "stopped"}
    /\ q \in consumers \cup producers
    /\ place' = [m \in Messages |-> "nowhere"]
    /\ purged' = purged \cup {m \in Messages : place[m] # "nowhere"}
    /\ UNCHANGED <<config, service, process, working, queueOf, processed>>

(* The queue is looked up among the consumers first, then the producers.   *)
PurgeQueue(q) ==
    /\ service \in {"running", "stopped"}
    /\ q \in consumers \cup producers
    /\ place' = [m \in Messages |-> IF queueOf[m] = q THEN "nowhere" ELSE place[m]]
    /\ purged' = purged \cup {m \in Messages : queueOf[m] = q /\ place[m] # "nowhere"}
    /\ UNCHANGED <<config, service, process, working, queueOf, processed>>

Of(q) == {m \in Messages : queueOf[m] = q}

Idle(q) == \A call \in working : call \cap Of(q) = {}

(* A consumer asks again when the last poll was answered and the handlers  *)
(* called for it are done.                                                 *)
Poll(q) ==
    /\ q \in polling \ requested /\ Idle(q)
    /\ requested' = requested \cup {q}
    /\ UNCHANGED <<config, service, consumers, producers, polling, working, queue, history>>

(* What the queue gives for a poll is hidden, known to arrive or not.      *)
Taking(q, taken) ==
    /\ q \in requested
    /\ taken \subseteq {m \in Of(q) : place[m] = "visible"}
    /\ requested' = requested \ {q}
    /\ place' = [m \in Messages |-> IF m \in taken THEN "held" ELSE place[m]]
    /\ UNCHANGED <<config, service, consumers, producers, polling, queueOf, history>>

(* handleMessageBatch is called once, handleMessage for each message.      *)
Receive(q, taken) ==
    /\ taken # {} /\ Taking(q, taken)
    /\ working' = working \cup IF q \in config.batch THEN {taken}
                                                   ELSE {{m} : m \in taken}

(* The poll ends without a message, or with an error, after which the      *)
(* queue may take some for delivered.                                      *)
Unanswered(q, taken) == Taking(q, taken) /\ UNCHANGED working

(* Mutant: the handler is not awaited, its message deleted before.         *)
HandlerUnawaited(call, acked) ==
    /\ working' = working \ {call}
    /\ place' = [m \in Messages |-> IF m \in acked THEN "nowhere" ELSE place[m]]
    /\ \/ processed' = processed \cup acked
       \/ UNCHANGED processed
    /\ UNCHANGED <<config, service, process, queueOf, purged>>

(* What the handler has acknowledged is deleted, as far as that request    *)
(* does not fail.                                                          *)
HandlerResolves(call, acked) ==
    /\ working' = working \ {call}
    /\ processed' = processed \cup acked
    /\ \E deleted \in SUBSET acked :
         place' = [m \in Messages |-> IF m \in deleted THEN "nowhere" ELSE place[m]]
    /\ UNCHANGED <<config, service, process, queueOf, purged>>

HandlerRejects(call) ==
    /\ working' = working \ {call}
    /\ UNCHANGED <<config, service, process, queue, history>>

(* The visibility timeout, which may come while the handler still works.   *)
Reappear(m) ==
    /\ place[m] = "held"
    /\ place' = [place EXCEPT ![m] = "visible"]
    /\ UNCHANGED <<config, service, process, working, queueOf, history>>

Answered(q) == \E taken \in SUBSET Of(q) : Receive(q, taken) \/ Unanswered(q, taken)

Next ==
    \/ InitFails \/ OnModuleInit \/ OnModuleDestroy \/ Restart
    \/ \E m \in Messages : Reappear(m) \/ \E q \in Queues : Send(m, q)
    \/ \E q \in Queues : PurgeQueue(q) \/ Poll(q) \/ Answered(q)
    \/ \E call \in working :
          HandlerRejects(call) \/ \E acked \in SUBSET call : HandlerResolves(call, acked)

Spec == Init /\ [][Next]_vars

(* The service is started again, its consumers poll and their polls end,   *)
(* hidden messages reappear; a message that is there again and again is    *)
(* received some time, and a handler called with it again and again        *)
(* acknowledges it some time.                                              *)
Fairness ==
    /\ WF_vars(OnModuleInit)
    /\ \A q \in Queues : WF_vars(Poll(q)) /\ WF_vars(Answered(q))
    /\ \A m \in Messages :
          /\ WF_vars(Reappear(m))
          /\ SF_vars(\E q \in Queues, taken \in SUBSET Messages :
                        m \in taken /\ Receive(q, taken))
          /\ SF_vars(\E call \in working : \E acked \in SUBSET call :
                        m \in acked /\ HandlerResolves(call, acked))

FairSpec == Spec /\ Fairness

-----------------------------------------------------------------------------
(* At least once: a message that was sent stays in its queue until some    *)
(* handler has resolved for it, whatever rejections, failed deletions,     *)
(* timeouts and restarts come in between, or until someone purges it.      *)
NothingIsLost ==
    \A m \in Messages :
        queueOf[m] # Unsent => place[m] # "nowhere" \/ m \in processed \cup purged

(* Consumers, timeouts, stops and restarts are hidden from a client: what  *)
(* it sees is a queue that keeps a message until a handler has done it or  *)
(* the queue, and no other one, is purged.                                 *)
Contract == INSTANCE AtLeastOnceQueue
              WITH sentTo  <- queueOf,
                   present <- {m \in Messages : place[m] # "nowhere"},
                   done    <- processed

ImplementsQueue == Contract!Spec

(* After onModuleDestroy nothing is asked for any more.  A handler may     *)
(* still be called, with the answer to the one poll of its consumer that   *)
(* was under way at the stop.                                              *)
StoppedAsksNoMore ==
    [][service = "stopped" =>
        /\ requested' \subseteq requested
        /\ \A call \in working' \ working :
              \E q \in requested \ requested' : call \subseteq Of(q)]_vars

(* So a service that stays stopped falls silent: in the end no poll is     *)
(* under way and no handler is at work, for good.                          *)
StoppedFallsSilent ==
    <>[](service = "stopped") => <>[](requested = {} /\ working = {})

(* What is sent to a queue with consumer and handler is processed, unless  *)
(* it is purged or the service stopped for good.                           *)
SentIsProcessed ==
    \A m \in Messages :
        queueOf[m] \in Consumed
            ~> m \in processed \cup purged \/ service = "stopped"
=============================================================================
