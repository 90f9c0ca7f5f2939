---------------------------- MODULE MessageQueue ----------------------------
(***************************************************************************)
(* One message_queue of ztask_mq.c: a ring buffer that doubles when it is  *)
(* full, the overload watermark of the consumer, and the in_global flag    *)
(* that decides who must link the queue into the global list of queues     *)
(* with work.  Every function of the source runs under the queue's         *)
(* spinlock, so each is one atomic action here.  Any number of threads     *)
(* push; the thread that took the queue off the global list pops.          *)
(*                                                                         *)
(* The life of a queue after its service died (mark_release, drop) and the *)
(* list of all queues are in Dispatch.                                     *)
(***************************************************************************)
EXTENDS Integers, Sequences

CONSTANTS Msg,          \* messages
          NoMsg,        \* an unwritten cell, and the result of an empty pop
          InitCap,      \* DEFAULT_QUEUE_SIZE
          OverloadBase, \* MQ_OVERLOAD
          MaxLen        \* bound: no push beyond this length

ASSUME MessageQueueAssumption ==
    /\ NoMsg \notin Msg
    /\ InitCap \in Nat \ {0}
    /\ OverloadBase \in Nat \ {0}
    /\ MaxLen \in Nat

VARIABLES cap, head, tail, \* the ring: capacity and the two indices
          queue,           \* its cells, 0..cap-1
          inGlobal,        \* in_global
          place,           \* who has the queue: its creator, the global
                           \* list, the dispatching worker, or nobody
          threshold,       \* overload_threshold
          overload,        \* the length to warn about, 0 for none
          warned,          \* ghost: last length warned about since empty
          popped           \* ghost: result of the latest ztask_mq_pop

ring == <<cap, head, tail, queue>>
queueVars == <<cap, head, tail, queue, inGlobal, place, threshold, overload, warned, popped>>

-----------------------------------------------------------------------------

\* ztask_mq_length: the number of messages between head and tail.
Length == IF head <= tail THEN tail - head ELSE tail + cap - head

\* Mutant: the index runs one cell past the ring before it starts over.
Wrap_Late(i) == IF i > cap THEN 0 ELSE i

\* An index of the ring stepped past its last cell starts over at 0.
Wrap(i) == IF i >= cap THEN 0 ELSE i

\* The cell holding the i-th oldest message, i counted from 0.
Cell(i) == (head + i) % cap

\* The messages in the ring, oldest first.
Contents == [i \in 1..Length |-> queue[Cell(i - 1)]]

\* Mutant: an "if" where the source has a "while": one doubling at most.
Raised_Once(len) == IF len > threshold THEN 2 * threshold ELSE threshold

\* Mutant: a queue exactly at the threshold counts as overloaded.
Raised_AtLimit(len) ==
    LET raised[k \in 0..(len + 1)] ==
            IF k = 0 THEN threshold
            ELSE IF len >= raised[k - 1] THEN 2 * raised[k - 1] ELSE raised[k - 1]
    IN  raised[len + 1]

\* The loop of ztask_mq_pop: the threshold is doubled while the queue is longer.
\* It ends within len rounds, as a threshold is at least 1.
Raised(len) ==
    LET raised[k \in 0..len] ==
            IF k = 0 THEN threshold
            ELSE IF len > raised[k - 1] THEN 2 * raised[k - 1] ELSE raised[k - 1]
    IN  raised[len]

-----------------------------------------------------------------------------

\* ztask_mq_create: the creator has the queue until it lists it.
QueueInit ==
    /\ cap = InitCap /\ head = 0 /\ tail = 0
    /\ queue = [i \in 0..(InitCap - 1) |-> NoMsg]
    /\ inGlobal = TRUE /\ place = "creator"
    /\ threshold = OverloadBase /\ overload = 0 /\ warned = 0
    /\ popped = NoMsg

\* Mutant: the cells are copied without turning the ring to its head.
Expanded_Unrotated(q) == [i \in 0..(2 * cap - 1) |->
                              IF i < cap THEN q[i] ELSE NoMsg]

\* expand_queue: a ring twice as large, the oldest message in cell 0.
Expanded(q) == [i \in 0..(2 * cap - 1) |->
                    IF i < cap THEN q[Cell(i)] ELSE NoMsg]

\* The storing half of ztask_mq_push; a ring that fills up is expanded.
Store(m) ==
    LET q == [queue EXCEPT ![tail] = m]
        t == Wrap(tail + 1)
    IN  IF t = head
        THEN /\ queue' = Expanded(q)
             /\ head' = 0
             /\ tail' = cap
             /\ cap' = 2 * cap
        ELSE /\ queue' = q
             /\ tail' = t
             /\ UNCHANGED <<cap, head>>

\* ztask_mq_push: store, and list the queue if nobody has it.
Push(m) ==
    /\ Length < MaxLen
    /\ Store(m)
    /\ inGlobal' = TRUE
    /\ place' = IF inGlobal THEN place ELSE "global"
    /\ UNCHANGED <<threshold, overload, warned, popped>>

\* ztask_mq_pop on a queue with messages.  The dispatcher has read the warning
\* of its previous pop by now (ztask_context_message_dispatch).
PopMessage ==
    /\ place = "worker"
    /\ overload = 0
    /\ head # tail
    /\ popped' = queue[head]
    /\ head' = Wrap(head + 1)
    /\ LET len == IF tail - head' < 0 THEN tail - head' + cap ELSE tail - head'
       IN  /\ threshold' = Raised(len)
           /\ overload' = IF threshold' = threshold THEN overload ELSE len
    /\ UNCHANGED <<cap, tail, queue, inGlobal, place, warned>>

\* Mutant: the flag stays set although the worker gives the queue up.
PopEmpty_KeepFlag ==
    /\ place = "worker"
    /\ overload = 0
    /\ head = tail
    /\ popped' = NoMsg
    /\ threshold' = OverloadBase
    /\ place' = "nobody"
    /\ warned' = 0
    /\ UNCHANGED <<cap, head, tail, queue, inGlobal, overload>>

\* ztask_mq_pop on an empty queue: the worker leaves it to the next push.
PopEmpty ==
    /\ place = "worker"
    /\ overload = 0
    /\ head = tail
    /\ popped' = NoMsg
    /\ threshold' = OverloadBase
    /\ inGlobal' = FALSE
    /\ place' = "nobody"
    /\ warned' = 0
    /\ UNCHANGED <<cap, head, tail, queue, overload>>

\* ztask_mq_overload: the dispatching worker reads and clears the warning.
ReadOverload ==
    /\ place = "worker"
    /\ overload # 0
    /\ warned' = overload
    /\ overload' = 0
    /\ UNCHANGED <<ring, inGlobal, place, threshold, popped>>

\* ztask_globalmq_pop returns this queue to a worker.
TakeFromGlobal ==
    /\ place = "global"
    /\ place' = "worker"
    /\ UNCHANGED <<ring, inGlobal, threshold, overload, warned, popped>>

\* ztask_globalmq_push by the creator, or by the worker between two batches.
PutIntoGlobal ==
    /\ place \in {"creator", "worker"}
    /\ overload = 0
    /\ place' = "global"
    /\ UNCHANGED <<ring, inGlobal, threshold, overload, warned, popped>>

QueueNext == \/ \E m \in Msg : Push(m)
             \/ PopMessage
             \/ PopEmpty
             \/ ReadOverload
             \/ TakeFromGlobal
             \/ PutIntoGlobal

QueueSpec == QueueInit /\ [][QueueNext]_queueVars

-----------------------------------------------------------------------------

\* Types of the fields of struct message_queue; both indices stay inside the
\* ring, so no cell is written or read out of bounds.
QueueTypeOK ==
    /\ cap \in Nat \ {0}
    /\ head \in 0..(cap - 1)
    /\ tail \in 0..(cap - 1)
    /\ queue \in [0..(cap - 1) -> Msg \cup {NoMsg}]
    /\ inGlobal \in BOOLEAN
    /\ place \in {"creator", "global", "worker", "nobody"}
    /\ threshold \in Nat
    /\ overload \in Nat
    /\ warned \in Nat
    /\ popped \in Msg \cup {NoMsg}

\* The comment above MQ_IN_GLOBAL: the flag is set exactly while the queue is
\* on the global list or in the hands of its creator or dispatcher, and a
\* queue that nobody has is empty, so no message waits for a worker that
\* will never come.
NoLostWork ==
    /\ inGlobal <=> place # "nobody"
    /\ place = "nobody" => Length = 0

\* Overload warnings are honest.  ztask_mq_pop records a length only when it passed
\* the current threshold, which is at least MQ_OVERLOAD, and raises the threshold to
\* that length and no doubling further.  And until the
\* queue runs empty each warning that reaches the log reports a longer queue than the
\* one before, so a backlog that shrinks without emptying is not reported again.
OverloadHonest ==
    /\ [](overload # 0 => /\ OverloadBase < overload
                          /\ overload <= threshold /\ threshold < 2 * overload)
    /\ [][warned' # 0 /\ warned' # warned => warned' > warned]_queueVars

\* The ring implements a first-in first-out queue: wrapping, expanding and
\* popping never lose, duplicate or reorder a message, nor hand out a cell
\* that was not written.
Abstract == INSTANCE Fifo WITH fifo <- Contents, popped <- popped
ImplementsFifo == Abstract!FifoSpec
=============================================================================
