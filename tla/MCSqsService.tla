---------------------------- MODULE MCSqsService ----------------------------
(* SqsService with the queue of the example in sqs.module.ts, a second one  *)
(* without a handler, and options that repeat a name.                      *)
EXTENDS SqsService

CONSTANTS aggregate, other

MCQueues == {aggregate, other}

Options(consumed, produced, handled, batched) ==
    [consumers |-> consumed, producers |-> produced, handlers |-> handled, batch |-> batched]

MCConfigs ==
    {Options(<<aggregate, other>>, <<other, aggregate>>, {aggregate}, batched) :
        batched \in {{}, {aggregate}}} \cup
    {Options(<<aggregate, aggregate>>, <<aggregate>>, {aggregate}, {}),
     Options(<<other, other>>, <<other>>, {aggregate}, {}),
     Options(<<aggregate>>, <<other, other>>, {aggregate}, {})}
=============================================================================
