------------------------------ MODULE Messaging ------------------------------
(***************************************************************************)
(* message/LocalMessagingService: processors are told of every message by  *)
(* a single thread, in the order of sending.                               *)
(***************************************************************************)
EXTENDS Naturals, Sequences

CONSTANT Register   \* the registers that messages name

VARIABLES
    processors,  \* the processors, in the order in which they were added
    queue        \* the executor's tasks: a message's target and its processor

messagingVars == <<processors, queue>>

MessagingInit == processors = <<>> /\ queue = <<>>

\* A task for each processor registered now.
sendMessage_OneProcessor(target) ==
    /\ queue' = queue \o [i \in 1..(IF processors = <<>> THEN 0 ELSE 1) |->
                            [target |-> target, processor |-> processors[1]]]
    /\ UNCHANGED processors

sendMessage(target) ==
    /\ queue' = queue \o [i \in 1..Len(processors) |-> [target |-> target, processor |-> processors[i]]]
    /\ UNCHANGED processors

processMessages(p) ==
    /\ processors' = Append(processors, p)
    /\ UNCHANGED queue

\* ProcessIfChanges: a processor acts on the messages of its own register.
Concerns(task) == task.target = task.processor

TaskDone == queue' = Tail(queue) /\ UNCHANGED processors
==============================================================================
