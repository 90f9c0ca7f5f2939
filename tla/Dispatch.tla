------------------------------ MODULE Dispatch ------------------------------
(***************************************************************************)
(* The scheduler core of ztask: worker threads take message queues off the *)
(* global list, run the callback of the owning service for a batch of      *)
(* messages, and put the queue back, while services (in their callbacks)   *)
(* and the timer and socket threads send messages, and services launch and *)
(* kill one another.  Sources: ztask_server.c, ztask_mq.c, and the grab    *)
(* and retire of ztask_handle.c.                                           *)
(*                                                                         *)
(* A service is named by its context c; its handle, its slot in the handle *)
(* storage and its message queue are the entries for c of the variables    *)
(* below.  Handles are not reused.  The ring buffer inside a queue is the  *)
(* sequence that module Fifo specifies and MessageQueue implements.  Each  *)
(* action is the code between two points at which another thread can       *)
(* interfere: one critical section of a spinlock or of the handle lock, or *)
(* one atomic instruction.                                                 *)
(***************************************************************************)
EXTENDS Integers, Sequences, FiniteSets

CONSTANTS Ctx,      \* services, running or to be launched
          Boot,     \* those ztask_start launches before the workers run
          Worker,   \* worker threads
          Ext,      \* threads that only send: timer, socket, http, dns
          Weight,   \* the weight table of start(), one entry per worker
          None,     \* no service
          MaxSend   \* bound: number of messages sent

ASSUME DispatchAssumption ==
    /\ Boot \subseteq Ctx
    /\ None \notin Ctx
    /\ Worker \cap Ext = {} /\ Ctx \cap Ext = {}
    /\ Weight \in [Worker -> -1..3]
    /\ MaxSend \in Nat
    /\ IsFiniteSet(Boot) /\ IsFiniteSet(Worker) /\ IsFiniteSet(Ext)

Thread == Worker \cup Ext

VARIABLES gq,       \* the global list of queues with work
          box,      \* box[c]: the messages in c's queue
          inGlobal, \* in_global of c's queue
          release,  \* release of c's queue
          qmem,     \* memory of c's queue: "none", "live", "freed"
          slot,     \* contexts registered in the handle storage
          ref,      \* reference counts of the contexts
          cmem,     \* memory of the contexts
          inited,   \* ctx->init
          pc,       \* where a thread is in its main procedure
          hand,     \* the queue a worker is dispatching
          nxt,      \* nq: the queue a worker serves next
          new,      \* the service a worker is launching
          left,     \* messages left in the batch after the present one
          call,     \* where a thread is in a called procedure
          arg,      \* the context the called procedure works on
          load,     \* the message it pushes
          nsent,    \* ghost: number of messages sent so far
          handled,  \* ghost: handled[c], messages c's callback received
          dropped   \* ghost: messages dropped with their queue

queueVars == <<box, inGlobal, release, qmem>>
ctxVars   == <<slot, ref, cmem, inited>>
mainVars  == <<pc, hand, nxt, new, left>>
callVars  == <<call, arg, load>>
ghostVars == <<nsent, handled, dropped>>
vars == <<gq, queueVars, ctxVars, mainVars, callVars, ghostVars>>

\* Threads outside the services send with source 0; the model keeps them
\* apart by their names.
Message == [id : Nat, src : Ctx \cup Ext \cup {None}, err : BOOLEAN]

\* A message slot that is not in use.
NoLoad == [id |-> 0, src |-> None, err |-> FALSE]

-----------------------------------------------------------------------------

\* ztask_start launched the services in Boot: registered, initialised, their
\* empty queues on the global list; the handle storage holds the only
\* reference.
Init ==
    /\ gq \in {s \in [1..Cardinality(Boot) -> Boot] :
                  \A i, j \in DOMAIN s : s[i] = s[j] => i = j}
    /\ box = [c \in Ctx |-> << >>]
    /\ inGlobal = [c \in Ctx |-> c \in Boot]
    /\ release = [c \in Ctx |-> FALSE]
    /\ qmem = [c \in Ctx |-> IF c \in Boot THEN "live" ELSE "none"]
    /\ slot = Boot
    /\ ref = [c \in Ctx |-> IF c \in Boot THEN 1 ELSE 0]
    /\ cmem = [c \in Ctx |-> IF c \in Boot THEN "live" ELSE "none"]
    /\ inited = [c \in Ctx |-> c \in Boot]
    /\ pc = [t \in Thread |-> IF t \in Worker THEN "idle" ELSE "ext"]
    /\ hand = [t \in Thread |-> None]
    /\ nxt = [t \in Thread |-> None]
    /\ new = [t \in Thread |-> None]
    /\ left = [t \in Thread |-> 0]
    /\ call = [t \in Thread |-> "none"]
    /\ arg = [t \in Thread |-> None]
    /\ load = [t \in Thread |-> NoLoad]
    /\ nsent = 0
    /\ handled = [c \in Ctx |-> << >>]
    /\ dropped = {}

\* A thread takes a step of its main procedure: it is at label l and not
\* inside a called procedure.
At(t, l) == pc[t] = l /\ call[t] = "none"

Goto(t, l) == pc' = [pc EXCEPT ![t] = l]

\* Start a called procedure at label l on context c.
Call(t, l, c) == /\ call' = [call EXCEPT ![t] = l]
                 /\ arg' = [arg EXCEPT ![t] = c]
                 /\ UNCHANGED load

\* ztask_globalmq_push
GlobalPush(c) == gq' = Append(gq, c)

\* Mutant: the count is not raised.
Grabbed_Uncounted(c) == ref

\* ztask_context_grab
Grabbed(c) == [ref EXCEPT ![c] = @ + 1]

\* Mutant: the message overtakes those already queued.
Stored_InFront(q, m) == <<m>> \o q

\* A queue after ztask_mq_push stored a message.
Stored(q, m) == Append(q, m)

\* Mutant: every push lists the queue.
ListedByPush_Always(c) == Append(gq, c)

\* The global list after a push to queue c: whoever finds the flag clear
\* lists the queue.
ListedByPush(c) == IF inGlobal[c] THEN gq ELSE Append(gq, c)

\* Mutant: nobody is sent to drop the queue of a deleted service.
ListedByMark_Never(c) == gq

\* The global list after ztask_mq_mark_release of queue c.
ListedByMark(c) == IF inGlobal[c] THEN gq ELSE Append(gq, c)

\* Mutant: the flag stays set.
FlagsAfterEmptyPop_Kept(c) == inGlobal

\* ztask_mq_pop of an empty queue clears the flag.
FlagsAfterEmptyPop(c) == [inGlobal EXCEPT ![c] = FALSE]

-----------------------------------------------------------------------------
(* Called procedures.                                                      *)

\* ztask_handle_grab in ztask_context_push.  A handle that is not registered
\* ends the send with an error.
PushGrab(t) ==
    /\ call[t] = "grab"
    /\ LET c == arg[t] IN
       IF c \in slot
       THEN /\ ref' = Grabbed(c)
            /\ call' = [call EXCEPT ![t] = "push"]
       ELSE /\ call' = [call EXCEPT ![t] = "none"]
            /\ UNCHANGED ref
    /\ UNCHANGED <<gq, queueVars, slot, cmem, inited, mainVars, arg, load, ghostVars>>

\* ztask_mq_push: store, and list the queue if its flag is clear.
MqPush(t) ==
    /\ call[t] = "push"
    /\ LET c == arg[t] IN
       /\ box' = [box EXCEPT ![c] = Stored(@, load[t])]
       /\ inGlobal' = [inGlobal EXCEPT ![c] = TRUE]
       /\ gq' = ListedByPush(c)
    /\ call' = [call EXCEPT ![t] = "dec"]
    /\ UNCHANGED <<release, qmem, ctxVars, mainVars, arg, load, ghostVars>>

\* ztask_context_release: the atomic decrement.
ReleaseRef(t) ==
    /\ call[t] = "dec"
    /\ LET c == arg[t] IN
       /\ ref' = [ref EXCEPT ![c] = @ - 1]
       /\ call' = [call EXCEPT ![t] = IF ref[c] = 1 THEN "del" ELSE "none"]
    /\ UNCHANGED <<gq, queueVars, slot, cmem, inited, mainVars, arg, load, ghostVars>>

\* delete_context: ztask_mq_mark_release, then the context is freed.  A queue
\* that nobody has is listed, so that a worker comes to drop it.
DeleteContext(t) ==
    /\ call[t] = "del"
    /\ LET c == arg[t] IN
       /\ release' = [release EXCEPT ![c] = TRUE]
       /\ gq' = ListedByMark(c)
       /\ cmem' = [cmem EXCEPT ![c] = "freed"]
    /\ call' = [call EXCEPT ![t] = "none"]
    /\ UNCHANGED <<box, inGlobal, qmem, slot, ref, inited, mainVars, arg, load, ghostVars>>

-----------------------------------------------------------------------------
(* ztask_mq_release, for the queue c of a thread at label l.               *)

\* Mutant: the queue is dropped although its service is not deleted yet.
Droppable_Always(c) == TRUE

\* The queue's service is deleted: nobody else can reach the queue.
Droppable(c) == release[c]

MqRelease(t, c, l, dropLabel, doneLabel) ==
    /\ At(t, l)
    /\ IF Droppable(c)
       THEN Goto(t, dropLabel) /\ UNCHANGED <<gq, hand, new>>
       ELSE /\ GlobalPush(c)
            /\ Goto(t, doneLabel)
            /\ hand' = [hand EXCEPT ![t] = IF @ = c THEN None ELSE @]
            /\ new' = [new EXCEPT ![t] = IF @ = c THEN None ELSE @]
    /\ UNCHANGED <<queueVars, ctxVars, nxt, left, callVars, ghostVars>>

\* Mutant: the source is not told.
ReportDrop_Silent(t, m, c) == UNCHANGED callVars

\* drop_message: send PTYPE_ERROR from c to the source of m, if it has one.
ReportDrop(t, m, c) ==
    IF m.src \notin Ctx
    THEN UNCHANGED callVars
    ELSE /\ call' = [call EXCEPT ![t] = "grab"]
         /\ arg' = [arg EXCEPT ![t] = m.src]
         /\ load' = [load EXCEPT ![t] = [id |-> m.id, src |-> c, err |-> TRUE]]

\* One iteration of _drop_queue: pop a message and tell its source.
DropMessage(t, c, l) ==
    /\ At(t, l)
    /\ box[c] # << >>
    /\ LET m == Head(box[c]) IN
       /\ box' = [box EXCEPT ![c] = Tail(@)]
       /\ dropped' = dropped \cup {m}
       /\ ReportDrop(t, m, c)
    /\ UNCHANGED <<gq, inGlobal, release, qmem, ctxVars, mainVars, nsent, handled>>

\* The end of _drop_queue: the queue is empty and is freed.
FreeQueue(t, c, l, doneLabel) ==
    /\ At(t, l)
    /\ box[c] = << >>
    /\ inGlobal' = FlagsAfterEmptyPop(c)
    /\ qmem' = [qmem EXCEPT ![c] = "freed"]
    /\ Goto(t, doneLabel)
    /\ hand' = [hand EXCEPT ![t] = IF @ = c THEN None ELSE @]
    /\ new' = [new EXCEPT ![t] = IF @ = c THEN None ELSE @]
    /\ UNCHANGED <<gq, box, release, ctxVars, nxt, left, callVars, ghostVars>>

-----------------------------------------------------------------------------
(* ztask_context_message_dispatch by a worker.                             *)

\* ztask_globalmq_pop by a worker that has no queue.
TakeQueue(w) ==
    /\ At(w, "idle")
    /\ gq # << >>
    /\ hand' = [hand EXCEPT ![w] = Head(gq)]
    /\ gq' = Tail(gq)
    /\ Goto(w, "grab")
    /\ UNCHANGED <<queueVars, ctxVars, nxt, new, left, callVars, ghostVars>>

\* ztask_handle_grab of the queue's handle.
GrabContext(w) ==
    /\ At(w, "grab")
    /\ LET c == hand[w] IN
       IF c \in slot
       THEN ref' = Grabbed(c) /\ Goto(w, "first")
       ELSE Goto(w, "mqrel") /\ UNCHANGED ref
    /\ UNCHANGED <<gq, queueVars, slot, cmem, inited, hand, nxt, new, left, callVars, ghostVars>>

\* The grab failed: drop a released queue, give back one that is not yet.
ReleaseHand(w) == MqRelease(w, hand[w], "mqrel", "drop", "idle")
DropHand(w)    == DropMessage(w, hand[w], "drop")
FreeHand(w)    == FreeQueue(w, hand[w], "drop", "idle")

\* n, the size of a batch, from the messages left after the first pop.
Batch(w, len) == IF Weight[w] < 0 THEN 1 ELSE len \div 2^Weight[w]

\* The messages that follow the first one in its batch.
Following(w, len) == IF Batch(w, len) > 1 THEN Batch(w, len) - 1 ELSE 0

\* ztask_mq_pop of a message.
PopMessage(w) ==
    /\ At(w, "first") \/ At(w, "more")
    /\ LET c == hand[w] IN
       /\ box[c] # << >>
       /\ box' = [box EXCEPT ![c] = Tail(@)]
       /\ handled' = [handled EXCEPT ![c] = Append(@, Head(box[c]))]
       /\ IF pc[w] = "first" THEN Goto(w, "length") /\ left' = left
          ELSE Goto(w, "cb") /\ left' = [left EXCEPT ![w] = @ - 1]
    /\ UNCHANGED <<gq, inGlobal, release, qmem, ctxVars, hand, nxt, new, callVars, nsent, dropped>>

\* ztask_mq_length after the first message: others may have pushed since the pop.
MeasureBatch(w) ==
    /\ At(w, "length")
    /\ left' = [left EXCEPT ![w] = Following(w, Len(box[hand[w]]))]
    /\ Goto(w, "cb")
    /\ UNCHANGED <<gq, queueVars, ctxVars, hand, nxt, new, callVars, ghostVars>>

\* ztask_mq_pop of an empty queue: the worker gives the queue up, clears its
\* flag and releases the context.
PopEmpty(w) ==
    /\ At(w, "first") \/ At(w, "more")
    /\ LET c == hand[w] IN
       /\ box[c] = << >>
       /\ inGlobal' = FlagsAfterEmptyPop(c)
       /\ Call(w, "dec", c)
    /\ hand' = [hand EXCEPT ![w] = None]
    /\ Goto(w, "idle")
    /\ UNCHANGED <<gq, box, release, qmem, ctxVars, nxt, new, left, ghostVars>>

\* The callback returns.  (Without a callback, ctx->cb == NULL, the message is
\* freed: a callback that does nothing.)
CallbackReturns(w) ==
    /\ At(w, "cb")
    /\ Goto(w, IF left[w] > 0 THEN "more" ELSE "next")
    /\ UNCHANGED <<gq, queueVars, ctxVars, hand, nxt, new, left, callVars, ghostVars>>

\* The batch is over and no other queue waits: keep this one for the next
\* dispatch.
KeepQueue(w) ==
    /\ At(w, "next")
    /\ gq = << >>
    /\ Call(w, "dec", hand[w])
    /\ Goto(w, "grab")
    /\ UNCHANGED <<gq, queueVars, ctxVars, hand, nxt, new, left, ghostVars>>

\* The batch is over and another queue waits: take it ...
TakeNext(w) ==
    /\ At(w, "next")
    /\ gq # << >>
    /\ nxt' = [nxt EXCEPT ![w] = Head(gq)]
    /\ gq' = Tail(gq)
    /\ Goto(w, "back")
    /\ UNCHANGED <<queueVars, ctxVars, hand, new, left, callVars, ghostVars>>

\* ... then put this one at the end of the list.
PushBack(w) ==
    /\ At(w, "back")
    /\ GlobalPush(hand[w])
    /\ Call(w, "dec", hand[w])
    /\ hand' = [hand EXCEPT ![w] = nxt[w]]
    /\ nxt' = [nxt EXCEPT ![w] = None]
    /\ Goto(w, "grab")
    /\ UNCHANGED <<queueVars, ctxVars, new, left, ghostVars>>

-----------------------------------------------------------------------------
(* What a thread does while it runs service code.                          *)

\* The service on whose behalf thread t runs, or else the thread itself.
Running(t) == CASE At(t, "cb")   -> hand[t]
                [] At(t, "init") -> new[t]
                [] OTHER         -> t

\* ztask_send to a service that has, or had, a handle.  A handle is learned from the
\* service, which begins to run in its init, or from its launcher: nobody has it
\* while ztask_context_new has registered it and not created the queue yet.
Send(t) ==
    /\ At(t, "cb") \/ At(t, "init") \/ At(t, "ext")
    /\ nsent < MaxSend
    /\ nsent' = nsent + 1
    /\ \E c \in Ctx :
          /\ qmem[c] # "none"
          /\ call' = [call EXCEPT ![t] = "grab"]
          /\ arg' = [arg EXCEPT ![t] = c]
          /\ load' = [load EXCEPT ![t] =
                         [id |-> nsent + 1, src |-> Running(t), err |-> FALSE]]
    /\ UNCHANGED <<gq, queueVars, ctxVars, mainVars, handled, dropped>>

\* ztask_handle_retire, by KILL, EXIT or ABORT: free the slot, then release
\* the reference it held.
Retire(w) ==
    /\ At(w, "cb") \/ At(w, "init")
    /\ \E c \in slot : slot' = slot \ {c} /\ Call(w, "dec", c)
    /\ UNCHANGED <<gq, queueVars, ref, cmem, inited, mainVars, ghostVars>>

\* ztask_context_new: register a context with two references, one for the
\* handle storage and one for the launcher.
Register(w) ==
    /\ At(w, "cb")
    /\ \E c \in Ctx :
          /\ cmem[c] = "none"
          /\ cmem' = [cmem EXCEPT ![c] = "live"]
          /\ ref' = [ref EXCEPT ![c] = 2]
          /\ slot' = slot \cup {c}
          /\ new' = [new EXCEPT ![w] = c]
    /\ Goto(w, "create")
    /\ UNCHANGED <<gq, queueVars, inited, hand, nxt, left, callVars, ghostVars>>

\* ztask_mq_create: the flag is set, so pushes leave the queue unlisted.
CreateQueue(w) ==
    /\ At(w, "create")
    /\ qmem' = [qmem EXCEPT ![new[w]] = "live"]
    /\ inGlobal' = [inGlobal EXCEPT ![new[w]] = TRUE]
    /\ Goto(w, "init")
    /\ UNCHANGED <<gq, box, release, ctxVars, hand, nxt, new, left, callVars, ghostVars>>

\* Mutant: the queue is listed before the service is marked initialised.
AfterInit_Unmarked(ok, alive) == IF ok THEN "list" ELSE "fretire"

\* Where ztask_context_new goes on after init, if the context is still alive.
AfterInit(ok, alive) ==
    IF ~ok THEN "fretire" ELSE IF alive THEN "setinit" ELSE "lost"

\* The module's init function returned; ztask_context_new releases its
\* reference.  The context may be gone by then.
InitReturns(w, ok) ==
    /\ At(w, "init")
    /\ LET c == new[w] IN
       /\ ref' = [ref EXCEPT ![c] = @ - 1]
       /\ IF ref[c] = 1 THEN Call(w, "del", c) ELSE UNCHANGED callVars
       /\ Goto(w, AfterInit(ok, ref[c] # 1))
    /\ UNCHANGED <<gq, queueVars, slot, cmem, inited, hand, nxt, new, left, ghostVars>>

\* ctx->init = true
SetInit(w) ==
    /\ At(w, "setinit")
    /\ inited' = [inited EXCEPT ![new[w]] = TRUE]
    /\ Goto(w, "list")
    /\ UNCHANGED <<gq, queueVars, slot, ref, cmem, hand, nxt, new, left, callVars, ghostVars>>

\* The new queue is listed for the first time.  A context that was still there after
\* init is returned.
ListNew(w) ==
    /\ At(w, "list") \/ At(w, "lost")
    /\ GlobalPush(new[w])
    /\ IF pc[w] = "list" THEN Goto(w, "report") /\ new' = new
       ELSE Goto(w, "cb") /\ new' = [new EXCEPT ![w] = None]
    /\ UNCHANGED <<queueVars, ctxVars, hand, nxt, left, callVars, ghostVars>>

\* The last uses of the returned context: ztask_error logs the launch in its name, and
\* cmd_launch answers with its handle.  The launcher has no reference any more.
ReportLaunch(w) ==
    /\ At(w, "report")
    /\ new' = [new EXCEPT ![w] = None]
    /\ Goto(w, "cb")
    /\ UNCHANGED <<gq, queueVars, ctxVars, hand, nxt, left, callVars, ghostVars>>

\* A failed launch retires the handle, unless somebody else did ...
RetireFailed(w) ==
    /\ At(w, "fretire")
    /\ Goto(w, "fmqrel")
    /\ IF new[w] \in slot
       THEN slot' = slot \ {new[w]} /\ Call(w, "dec", new[w])
       ELSE UNCHANGED <<slot, callVars>>
    /\ UNCHANGED <<gq, queueVars, ref, cmem, inited, hand, nxt, new, left, ghostVars>>

\* ... and releases the queue.
ReleaseFailed(w) == MqRelease(w, new[w], "fmqrel", "fdrop", "cb")
DropFailed(w)    == DropMessage(w, new[w], "fdrop")
FreeFailed(w)    == FreeQueue(w, new[w], "fdrop", "cb")

-----------------------------------------------------------------------------

Called(t) == PushGrab(t) \/ MqPush(t) \/ ReleaseRef(t) \/ DeleteContext(t)

Dispatching(w) ==
    \/ TakeQueue(w) \/ GrabContext(w)
    \/ ReleaseHand(w) \/ DropHand(w) \/ FreeHand(w)
    \/ PopMessage(w) \/ MeasureBatch(w) \/ PopEmpty(w) \/ CallbackReturns(w)
    \/ KeepQueue(w) \/ TakeNext(w) \/ PushBack(w)

Launching(w) ==
    \/ CreateQueue(w) \/ (\E ok \in BOOLEAN : InitReturns(w, ok))
    \/ SetInit(w) \/ ListNew(w) \/ ReportLaunch(w)
    \/ RetireFailed(w) \/ ReleaseFailed(w) \/ DropFailed(w) \/ FreeFailed(w)

Next == \/ \E t \in Thread : Called(t) \/ Send(t)
        \/ \E w \in Worker : Dispatching(w) \/ Launching(w) \/ Retire(w) \/ Register(w)

\* Threads keep running, and callbacks and init functions return; nothing
\* obliges a service to send, kill or launch.
Fairness == /\ \A t \in Thread : WF_vars(Called(t))
            /\ \A w \in Worker : WF_vars(Dispatching(w)) /\ WF_vars(Launching(w))

Spec == Init /\ [][Next]_vars /\ Fairness

-----------------------------------------------------------------------------
(* Properties.                                                             *)

DispatchLabels == {"grab", "mqrel", "drop", "first", "length", "more", "cb", "next", "back"}
LaunchLabels   == {"create", "init", "setinit", "list", "lost", "report",
                   "fretire", "fmqrel", "fdrop"}

\* The queues on the global list.
Listed == {gq[i] : i \in DOMAIN gq}

\* Types of the scheduler's state: ztask_context, message_queue, G_NODE and
\* the local variables of the functions a thread is in.
TypeOK ==
    /\ gq \in Seq(Ctx)
    /\ box \in [Ctx -> Seq(Message)]
    /\ inGlobal \in [Ctx -> BOOLEAN]
    /\ release \in [Ctx -> BOOLEAN]
    /\ qmem \in [Ctx -> {"none", "live", "freed"}]
    /\ slot \in SUBSET Ctx
    /\ ref \in [Ctx -> Nat]
    /\ cmem \in [Ctx -> {"none", "live", "freed"}]
    /\ inited \in [Ctx -> BOOLEAN]
    /\ pc \in [Thread -> {"idle", "ext"} \cup DispatchLabels \cup LaunchLabels]
    /\ hand \in [Thread -> Ctx \cup {None}]
    /\ nxt \in [Thread -> Ctx \cup {None}]
    /\ new \in [Thread -> Ctx \cup {None}]
    /\ left \in [Thread -> Nat]
    /\ call \in [Thread -> {"none", "grab", "push", "dec", "del"}]
    /\ arg \in [Thread -> Ctx \cup {None}]
    /\ load \in [Thread -> Message]
    /\ nsent \in Nat
    /\ handled \in [Ctx -> Seq(Message)]
    /\ dropped \in SUBSET Message

\* The queues thread t has: the one it dispatches, the one it serves next,
\* and the one it created and has not listed yet.
Holds(t, c) == \/ hand[t] = c
               \/ nxt[t] = c
               \/ new[t] = c /\ pc[t] \notin {"create", "report"}

\* The services whose code thread t is running.
Runs(t, c) == \/ hand[t] = c /\ pc[t] \in {"cb"} \cup LaunchLabels
              \/ new[t] = c /\ pc[t] = "init"

\* CHECKCALLING_BEGIN: no two threads are in the code of one service at the
\* same time, and no thread enters it twice.
OneCallbackAtATime ==
    /\ \A t, u \in Thread, c \in Ctx : Runs(t, c) /\ Runs(u, c) => t = u
    /\ \A t \in Thread : new[t] # None => hand[t] # new[t]

\* No two threads run one service at a time, because its queue is in one
\* place: on the global list once, or with one thread, or,
\* only while it is empty and its flag is clear, nowhere.  So no queue is
\* served twice and no message waits unnoticed (in_global; the assertions on
\* next in ztask_globalmq_push and _release).
OneOwner ==
    /\ TypeOK
    /\ OneCallbackAtATime
    /\ \A i, j \in DOMAIN gq : gq[i] = gq[j] => i = j
    /\ \A c \in Listed, t \in Thread : ~Holds(t, c)
    /\ \A t, u \in Thread, c \in Ctx : Holds(t, c) /\ Holds(u, c) => t = u
    /\ \A t \in Thread : nxt[t] # None => hand[t] # nxt[t] /\ new[t] # nxt[t]
    /\ \A c \in Ctx :
          qmem[c] = "live" /\ (box[c] # << >> \/ inGlobal[c] \/ release[c]) =>
             c \in Listed \/ \E t \in Thread : Holds(t, c)

\* The assertions of ztask_mq_mark_release (a queue is marked once) and of
\* dispatch_message (a service is initialised before it gets a message).
SourceAssertions ==
    \A t \in Thread :
       /\ call[t] = "del" => ~release[arg[t]]
       /\ pc[t] = "cb" => inited[hand[t]]

\* What ztask_context_new and cmd_launch do with the context after they gave up their
\* reference: set ctx->init, list the queue, log, and answer with the handle.
LateLabels == {"setinit", "list", "report"}

\* No thread works on a context or a queue that has been freed: the
\* reference counts of ztask_context_grab and ztask_context_release keep a
\* context alive while it is used, and mark_release makes the last of its
\* users hand the queue to the one thread that frees it.  The one exception in the
\* code is the launcher, which uses the context after it gave up its reference: then
\* only a service that somebody has retired meanwhile can be freed.
\* With it go the assertions of the source on the life of a service.
NoUseAfterFree ==
    /\ SourceAssertions
    /\ \A c \in Listed : qmem[c] = "live"
    /\ \A t \in Thread, c \in Ctx : Holds(t, c) => qmem[c] = "live"
    /\ \A t \in Thread :
          /\ call[t] \in {"push", "dec", "del"} => cmem[arg[t]] = "live"
          /\ call[t] \in {"push", "del"} => qmem[arg[t]] = "live"
          /\ pc[t] \in {"first", "length", "more", "cb", "next", "back"} \cup LaunchLabels
                => cmem[hand[t]] = "live"
          /\ pc[t] \in {"create", "init"} => cmem[new[t]] = "live"
          /\ pc[t] \in LateLabels => cmem[new[t]] = "live" \/ new[t] \notin slot

\* Messages that one service, or one of the other threads, sends to a service
\* reach its callback in the order in which they were sent, whichever workers
\* run the two services.
OrderKept ==
    \A c \in Ctx : \A i, j \in DOMAIN handled[c] :
       LET a == handled[c][i]
           b == handled[c][j]
       IN  i < j /\ a.src = b.src /\ ~a.err /\ ~b.err => a.id < b.id

\* A message that was queued is handled, or dropped with the queue of a
\* dead service: no queue with messages is left without a worker.
EveryMessageServed ==
    \A k \in 1..MaxSend :
       (\E c \in Ctx : \E i \in DOMAIN box[c] : box[c][i].id = k)
          ~> (\A c \in Ctx : \A i \in DOMAIN box[c] : box[c][i].id # k)

\* drop_message: the source of a dropped message receives an error for it,
\* unless the source itself is gone by then.
DropsReported ==
    \A k \in 1..MaxSend, s \in Ctx :
       (\E m \in dropped : m.id = k /\ m.src = s /\ ~m.err) ~>
          \/ \E i \in DOMAIN handled[s] : handled[s][i].id = k /\ handled[s][i].err
          \/ s \notin slot

\* A retired service goes away completely: its context and its queue are
\* freed, whatever its callers and its dispatcher were doing.
RetiredIsFreed ==
    \A c \in Ctx :
       (cmem[c] # "none" /\ c \notin slot) ~> (cmem[c] = "freed" /\ qmem[c] = "freed")
=============================================================================
