-------------------------------- MODULE Snc --------------------------------
(***************************************************************************)
(* The C services of service_snc.c: every message that is not a response   *)
(* starts a coroutine, and a coroutine that waits is resumed by the        *)
(* response that carries its session.  A coroutine keeps one session for   *)
(* all of its waits, timers answer with the same session, and a wait with  *)
(* a timeout removes its timer through ztask_timeout_del, which walks and  *)
(* edits the lists of the wheel without their spinlock: it releases the    *)
(* lock before each walk and takes it after.                               *)
(*                                                                         *)
(* One service is modelled, whose callback runs on one worker at a time    *)
(* (module Dispatch), with its message queue, the peers it asks, the timer *)
(* thread, and what the timers of other services do to the lists and the   *)
(* lock.  The wheel is reduced to a few lists (module Timer has the        *)
(* detail).  A sequence stands for the chain of coroutines that resumed    *)
(* one another.                                                            *)
(***************************************************************************)
EXTENDS Integers, Sequences, SequencesExt, FiniteSets

CONSTANTS MaxCo,       \* bound: coroutines created
          MaxSession,  \* the largest session, INT_MAX in the code
          MaxWait,     \* bound: waits of one coroutine
          Cells,       \* lists of the timing wheel; list 1 is a near one
          MaxReq,      \* bound: requests that arrive
          MaxOther     \* bound: timers that other services set

ASSUME SncAssumption == /\ MaxCo \in Nat /\ MaxSession \in Nat \ {0}
                        /\ MaxWait \in Nat \ {0} /\ MaxReq \in Nat \ {0}
                        /\ Cells \in Nat \ {0} /\ MaxOther \in Nat

Co == 1..MaxCo
Sessions == 1..MaxSession

VARIABLES sessionId,  \* ctx->session_id
          tree,       \* l->coroutine: the coroutine stored for a session, 0 if none
          sess,       \* c->session
          status,     \* c->status
          stack,      \* the running coroutine last, below it those that resumed it
          wait,       \* number of waits the coroutine has begun
          kind,       \* what it waits for
          tasks,      \* ctx->task_count
          box,        \* the message queue of the service
          asked,      \* requests that peers and I/O threads may still answer
          wheel,      \* lists of timers of this service
          others,     \* the lists that also hold timers of other services
          set,        \* number of timers that other services have set
          tlock,      \* TI->lock is taken by a ztask_timeout_del
          walk,       \* the list ztask_timeout_del is at, 0: not running
          phase,      \* "test" at its while, "walk" among the nodes, "unlink" at
                      \* the node it has found, "end" past the last one
          raced,      \* ghost: two threads were at one list, one without the lock
          hung,       \* the worker spins in ztask_timeout for a lock that is kept
          reqs,       \* requests that have arrived
          timed       \* ghost: the waits of a coroutine that had a timeout

coVars == <<sessionId, tree, sess, status, stack, wait, kind, tasks, timed>>
timerVars == <<wheel, others, set, tlock>>
delVars == <<walk, phase, raced, hung>>
vars == <<coVars, box, asked, timerVars, delVars, reqs>>

\* A response or timer and, as a ghost, the coroutine and wait it is for.
Event(c, full) == [type |-> "resp", session |-> sess[c], full |-> full,
                   co |-> c, wait |-> wait'[c]]
Request == [type |-> "req", session |-> 0, full |-> TRUE, co |-> 0, wait |-> 0]

Live == {c \in Co : status[c] # "none"}
Running == IF stack = << >> THEN 0 ELSE Last(stack)
Suspended(c) == c \in Live /\ status[c] = "suspend" /\ ~Contains(stack, c)

\* The coroutine may run: it is on top and not inside ztask_timeout_del or
\* spinning in ztask_timeout.
Runs(c) == Running = c /\ walk = 0 /\ ~hung

-----------------------------------------------------------------------------

\* Mutant: sessions are not counted on.
NewSession_Same(id) == IF id = 0 THEN 1 ELSE id

\* ztask_context_newsession: positive, starting again at 1 after the largest.
NewSession(id) == IF id + 1 > MaxSession THEN 1 ELSE id + 1

\* RB_INSERT leaves a node with the same session where it is.
Inserted(t, s, c) == IF t[s] # 0 THEN t ELSE [t EXCEPT ![s] = c]

\* Mutant: the coroutine stays in the tree.
Removed_Kept(t, s) == t

\* RB_REMOVE
Removed(t, s) == [t EXCEPT ![s] = 0]

\* coroutine_new with its session, stored in the tree; st is its status.
Create(c, st) ==
    LET s == NewSession(sessionId) IN
    /\ status[c] = "none" /\ wait[c] = 0
    /\ \A d \in Co : d < c => wait[d] > 0 \/ status[d] # "none"
    /\ sessionId' = s
    /\ sess' = [sess EXCEPT ![c] = s]
    /\ tree' = Inserted(tree, s, c)
    /\ status' = [status EXCEPT ![c] = st]
    /\ tasks' = tasks + 1

\* Mutant: only new coroutines are entered.
CanResume_Fresh(c) == status[c] = "ready"

\* coroutine_resume enters c.  Its status is set to running when it starts
\* (mainfunc) and stays as it is when it is continued after a wait.
CanResume(c) == status[c] \in {"suspend", "ready"}
Entered(c) == IF status[c] = "ready" THEN [status EXCEPT ![c] = "running"] ELSE status

Init ==
    /\ sessionId = 0 /\ tree = [s \in Sessions |-> 0]
    /\ sess = [c \in Co |-> 0] /\ status = [c \in Co |-> "none"]
    /\ stack = << >> /\ wait = [c \in Co |-> 0] /\ kind = [c \in Co |-> "none"]
    /\ tasks = 0 /\ timed = [c \in Co |-> {}]
    /\ box = <<Request>>          \* snc_init sends the first message itself
    /\ asked = {}
    /\ wheel = [i \in 1..Cells |-> << >>] /\ others = {} /\ set = 0 /\ tlock = FALSE
    /\ walk = 0 /\ phase = "test" /\ raced = FALSE /\ hung = FALSE
    /\ reqs = 1

-----------------------------------------------------------------------------

\* Another service sends a message; answers of type PTYPE_ERROR are like it.
RequestArrives ==
    /\ reqs < MaxReq
    /\ reqs' = reqs + 1
    /\ box' = Append(box, Request)
    /\ UNCHANGED <<coVars, asked, timerVars, delVars>>

\* launch_cb and _cb: a message that is not a response gets a coroutine.
StartCoroutine(c) ==
    /\ stack = << >> /\ box # << >> /\ Head(box).type # "resp"
    /\ Create(c, "running")
    /\ stack' = <<c>>
    /\ box' = Tail(box)
    /\ wait' = [wait EXCEPT ![c] = 0]
    /\ UNCHANGED <<kind, timed, asked, timerVars, delVars, reqs>>

\* _cb: no coroutine can be created any more; the message is dropped.
StartFails ==
    /\ stack = << >> /\ box # << >> /\ Head(box).type # "resp"
    /\ \A c \in Co : status[c] # "none" \/ wait[c] > 0
    /\ box' = Tail(box)
    /\ UNCHANGED <<coVars, asked, timerVars, delVars, reqs>>

\* ztask_snc_yield_s, ztask_snc_callname_s: if (cur->msg || cur->sz)
Answered(full) == full

\* What a resumed coroutine does first: with an answer, remove the timer.
Continue(c, full) ==
    /\ stack' = Append(stack, c)
    /\ status' = Entered(c)
    /\ walk' = IF kind[c] \in {"yield_s", "call_s"} /\ Answered(full) THEN 1 ELSE 0
    /\ phase' = "test" /\ UNCHANGED <<raced, hung>>

\* _cb: a response resumes the coroutine of its session.
Response ==
    /\ stack = << >> /\ box # << >> /\ Head(box).type = "resp"
    /\ box' = Tail(box)
    /\ LET c == tree[Head(box).session] IN
       IF c # 0 /\ CanResume(c)
       THEN Continue(c, Head(box).full)
       ELSE UNCHANGED <<stack, status, delVars>>
    /\ UNCHANGED <<sessionId, tree, sess, wait, kind, tasks, timed, asked, timerVars, reqs>>

\* ztask_snc_resume by the running coroutine; d waits in ztask_snc_yield or
\* ztask_snc_yield_s, as the caller has to know.
Resume(c, d, full) ==
    /\ Runs(c)
    /\ Suspended(d) /\ kind[d] \in {"yield", "yield_s"}
    /\ tree[sess[d]] = d /\ CanResume(d)
    /\ Continue(d, full)
    /\ UNCHANGED <<sessionId, tree, sess, wait, kind, tasks, timed, box, asked, timerVars, reqs>>

\* coroutine_yield: back to whoever resumed it.
Yield(c, k) ==
    /\ Runs(c) /\ wait[c] < MaxWait
    /\ wait' = [wait EXCEPT ![c] = @ + 1]
    /\ kind' = [kind EXCEPT ![c] = k]
    /\ timed' = IF k \in {"yield_s", "call_s"} THEN [timed EXCEPT ![c] = @ \cup {wait[c] + 1}]
                ELSE timed
    /\ status' = [status EXCEPT ![c] = "suspend"]
    /\ stack' = Front(stack)
    /\ UNCHANGED <<sessionId, tree, sess, tasks>>

\* ztask_timeout for the session of c: a response at once (time <= 0, list 0)
\* or a timer in list i.
SetTimer(c, i) ==
    IF i = 0 THEN box' = Append(box, Event(c, FALSE)) /\ UNCHANGED wheel
    ELSE /\ ~tlock
         /\ wheel' = [wheel EXCEPT ![i] = Append(@, Event(c, FALSE))]
         /\ UNCHANGED box

Ask(c) == asked' = asked \cup {Event(c, TRUE)}

\* ztask_snc_call, callname, curl, getaddrinfo, socket_listen, start, connect
Call(c) ==
    /\ Yield(c, "call") /\ Ask(c)
    /\ UNCHANGED <<box, timerVars, delVars, reqs>>

\* ztask_snc_callname_s
CallTimed(c, i) ==
    /\ Yield(c, "call_s") /\ Ask(c) /\ SetTimer(c, i)
    /\ UNCHANGED <<others, set, tlock, delVars, reqs>>

\* ztask_snc_yield
YieldPlain(c) ==
    /\ Yield(c, "yield")
    /\ UNCHANGED <<box, asked, timerVars, delVars, reqs>>

\* ztask_snc_yield_s and ztask_snc_sleep
YieldTimed(c, k, i) ==
    /\ k \in {"yield_s", "sleep"}
    /\ Yield(c, k) /\ SetTimer(c, i)
    /\ UNCHANGED <<asked, others, set, tlock, delVars, reqs>>

\* ztask_timeout finds the lock taken.  While the worker is here that is the
\* lock an earlier ztask_timeout_del kept: it spins until another one of some
\* service releases it, for ever if there is none.
SpinForTimer(c) ==
    /\ Runs(c) /\ tlock /\ wait[c] < MaxWait
    /\ hung' = TRUE
    /\ UNCHANGED <<coVars, box, asked, timerVars, walk, phase, raced, reqs>>

SpinEnds ==
    /\ hung /\ ~tlock
    /\ hung' = FALSE
    /\ UNCHANGED <<coVars, box, asked, timerVars, walk, phase, raced, reqs>>

\* ztask_snc_timerout: a coroutine that the timer will start.
Timerout(c, d, i) ==
    /\ Runs(c)
    /\ Create(d, "ready")
    /\ wait' = [wait EXCEPT ![d] = 1]
    /\ kind' = [kind EXCEPT ![d] = "sleep"]
    /\ IF i = 0
       THEN box' = Append(box, [Event(d, FALSE) EXCEPT !.session = sess'[d]]) /\ UNCHANGED wheel
       ELSE /\ ~tlock
            /\ wheel' = [wheel EXCEPT ![i] = Append(@, [Event(d, FALSE) EXCEPT !.session = sess'[d]])]
            /\ UNCHANGED box
    /\ UNCHANGED <<stack, timed, asked, others, set, tlock, delVars, reqs>>

\* The callback of the coroutine returns: it leaves the tree and is deleted.
Finish(c) ==
    /\ Runs(c)
    /\ stack' = Front(stack)
    /\ status' = [status EXCEPT ![c] = "none"]
    /\ wait' = [wait EXCEPT ![c] = MaxWait]
    /\ kind' = [kind EXCEPT ![c] = "none"] /\ timed' = [timed EXCEPT ![c] = {}]
    /\ tree' = Removed(tree, sess[c])
    /\ tasks' = tasks - 1
    /\ UNCHANGED <<sessionId, sess, box, asked, timerVars, delVars, reqs>>

-----------------------------------------------------------------------------

Matches(i) == {k \in DOMAIN wheel[i] : wheel[i][k].session = sess[Running]}

\* Mutant: the walk does not look at the session.
FirstMatch_Any(i) == 1

\* The first timer of the list that has the session.
FirstMatch(i) == CHOOSE k \in Matches(i) : \A j \in Matches(i) : k <= j

\* Mutant: the walk goes on after the last list.
NextList_Past(i) == i + 1

\* The next list to look at, 0 after the last.
NextList(i) == IF i = Cells THEN 0 ELSE i + 1

\* ztask_timeout_del is among the nodes of list i, without the lock.
Walking(i) == walk = i /\ phase \in {"walk", "unlink"}

\* Another thread changes list i.  If ztask_timeout_del is among its nodes, the
\* two are in a data race.
Touch(i) == raced' = (raced \/ Walking(i))

\* ztask_timeout_del, at the while of one list: an empty one is passed, and
\* after the last the function returns, with the lock as it is.  For another
\* the lock is released.  If no list was walked before, this is the lock of
\* whoever is adding, moving or executing timers, and a third thread may now
\* enter its section.
DelTest ==
    /\ walk # 0 /\ phase = "test"
    /\ IF wheel[walk] = << >> /\ walk \notin others
       THEN /\ walk' = NextList(walk)
            /\ UNCHANGED <<phase, tlock, raced>>
       ELSE /\ phase' = "walk" /\ tlock' = FALSE /\ UNCHANGED walk
            /\ raced' \in IF tlock THEN {raced} ELSE {raced, TRUE}
    /\ UNCHANGED <<coVars, box, asked, wheel, others, set, hung, reqs>>

\* The walk has come to a timer of this session.
DelFind ==
    /\ walk # 0 /\ phase = "walk" /\ Matches(walk) # {}
    /\ phase' = "unlink"
    /\ UNCHANGED <<coVars, box, asked, timerVars, walk, raced, hung, reqs>>

\* It unlinks that timer and returns.  After a race the node may have left the
\* list; what else the stale pointers do is in Lose.
DelUnlink ==
    /\ walk # 0 /\ phase = "unlink"
    /\ wheel' = IF Matches(walk) = {} THEN wheel
                ELSE [wheel EXCEPT ![walk] = RemoveAt(@, FirstMatch(walk))]
    /\ walk' = 0 /\ phase' = "test"
    /\ UNCHANGED <<coVars, box, asked, others, set, tlock, raced, hung, reqs>>

\* The walk has come to the end of the list,
DelNotFound ==
    /\ walk # 0 /\ phase = "walk" /\ (Matches(walk) = {} \/ raced)
    /\ phase' = "end"
    /\ UNCHANGED <<coVars, box, asked, timerVars, walk, raced, hung, reqs>>

\* and takes the lock, to look at the same list again.
DelLock ==
    /\ walk # 0 /\ phase = "end" /\ ~tlock
    /\ tlock' = TRUE /\ phase' = "test"
    /\ UNCHANGED <<coVars, box, asked, wheel, others, set, walk, raced, hung, reqs>>

-----------------------------------------------------------------------------

\* Another service sets a timer: it is linked at the tail of a list.
OtherSets(i) ==
    /\ ~tlock /\ set < MaxOther
    /\ set' = set + 1 /\ others' = others \cup {i} /\ Touch(i)
    /\ UNCHANGED <<coVars, box, asked, wheel, tlock, walk, phase, hung, reqs>>

\* ztask_timeout_del of another service.  It walks a list that is not empty,
\* without the lock, finds its timer or not, returns or keeps the lock, and
\* may meet any other thread on its way.
OtherDeletes(i) ==
    /\ i \in others
    /\ others' \in {others, others \ {i}}
    /\ tlock' \in BOOLEAN
    /\ raced' \in {raced, TRUE} /\ (Walking(i) => raced')
    /\ UNCHANGED <<coVars, box, asked, wheel, set, walk, phase, hung, reqs>>

\* A race has left a timer outside its list: one linked behind a tail that was
\* just unlinked, one behind a stale tail, one in a node that was freed or
\* moved under the walk.  (That the program may also crash is left out.)
Lose(i, k) ==
    /\ raced
    /\ wheel' = [wheel EXCEPT ![i] = RemoveAt(@, k)]
    /\ UNCHANGED <<coVars, box, asked, others, set, tlock, delVars, reqs>>

\* timer_shift moves a list to one of a lower level.
Cascade(i, j) ==
    /\ ~tlock /\ j < i /\ wheel[i] # << >>
    /\ wheel' = [wheel EXCEPT ![j] = @ \o wheel[i], ![i] = << >>]
    /\ raced' = (raced \/ Walking(i) \/ Walking(j))
    /\ UNCHANGED <<coVars, box, asked, others, set, tlock, walk, phase, hung, reqs>>

\* timer_execute takes a list whose time has come and dispatch_list pushes a
\* response for each of its timers, one after the other; a list that is being
\* delivered is as far from ztask_timeout_del as a queued response, so this is
\* one step.
Expire(i) ==
    /\ ~tlock /\ (wheel[i] # << >> \/ i \in others)
    /\ box' = box \o wheel[i]
    /\ wheel' = [wheel EXCEPT ![i] = << >>]
    /\ others' = others \ {i} /\ Touch(i)
    /\ UNCHANGED <<coVars, asked, set, tlock, walk, phase, hung, reqs>>

\* A peer answers, with data or with none; it may also never answer.
Answer(e, full) ==
    /\ asked' = asked \ {e}
    /\ box' = Append(box, [e EXCEPT !.full = full])
    /\ UNCHANGED <<coVars, timerVars, delVars, reqs>>

-----------------------------------------------------------------------------

CoStep(c) == \/ Finish(c)
             \/ Call(c) \/ YieldPlain(c) \/ SpinForTimer(c)
             \/ \E i \in 0..Cells : \/ CallTimed(c, i)
                                    \/ \E k \in {"yield_s", "sleep"} : YieldTimed(c, k, i)
                                    \/ \E d \in Co : Timerout(c, d, i)
             \/ \E d \in Co, full \in BOOLEAN : Resume(c, d, full)

\* The worker: the callback of the service and everything it calls.
Worker == \/ \E c \in Co : StartCoroutine(c) \/ CoStep(c)
          \/ StartFails \/ Response \/ SpinEnds
          \/ DelTest \/ DelFind \/ DelUnlink \/ DelNotFound \/ DelLock

Next == \/ Worker
        \/ RequestArrives
        \/ \E i \in 1..Cells : \/ Expire(i) \/ OtherSets(i) \/ OtherDeletes(i)
                               \/ \E j \in 1..Cells : Cascade(i, j)
                               \/ \E k \in DOMAIN wheel[i] : Lose(i, k)
        \/ \E e \in asked, full \in BOOLEAN : Answer(e, full)

\* The worker and the timer thread run, coroutines wait or end, and every
\* list of the wheel has its time.  Peers need not answer.
Fairness == /\ WF_vars(Worker)
            /\ \A i \in 1..Cells : SF_vars(Expire(i))

Spec == Init /\ [][Next]_vars /\ Fairness

-----------------------------------------------------------------------------

Events == [type : {"req", "resp"}, session : 0..MaxSession, full : BOOLEAN,
           co : 0..MaxCo, wait : 0..MaxWait]

\* Types of struct snc, of the coroutines and of the messages.
TypeOK ==
    /\ sessionId \in 0..MaxSession /\ tree \in [Sessions -> 0..MaxCo]
    /\ sess \in [Co -> 0..MaxSession]
    /\ status \in [Co -> {"none", "ready", "running", "suspend"}]
    /\ stack \in Seq(Co) /\ wait \in [Co -> 0..MaxWait]
    /\ kind \in [Co -> {"none", "call", "call_s", "yield", "yield_s", "sleep"}]
    /\ tasks \in 0..MaxCo /\ timed \in [Co -> SUBSET (1..MaxWait)]
    /\ box \in Seq(Events) /\ asked \subseteq Events
    /\ wheel \in [1..Cells -> Seq(Events)]
    /\ tlock \in BOOLEAN /\ hung \in BOOLEAN /\ walk \in 0..Cells
    /\ phase \in {"test", "walk", "unlink", "end"} /\ raced \in BOOLEAN
    /\ others \subseteq 1..Cells /\ set \in 0..MaxOther
    /\ reqs \in 0..MaxReq

\* Timers of a session that wait in the wheel or are queued.
TimersOf(s) ==
    LET in(q) == {k \in DOMAIN q : q[k].type = "resp" /\ q[k].session = s} IN
    (\E i \in 1..Cells : in(wheel[i]) # {}) \/ in(box) # {}

\* A coroutine that waits with a timeout, or sleeps, always has a timer of
\* its session on the way, although ztask_timeout_del removes timers by
\* session and may remove one of an earlier wait in place of its own.  It is
\* so only while no two threads have met at a list that one of them walks
\* without the lock.
TimerOnTheWay ==
    ~raced => \A c \in Co : Suspended(c) /\ kind[c] \in {"call_s", "yield_s", "sleep"}
                               => TimersOf(sess[c])

\* What the service keeps about its coroutines is exact, however they are
\* started, nested and ended: the tree holds those that live, each under its
\* session, ctx->task_count counts them, and one that waits for a time has a
\* timer on the way.
TreeIsExact ==
    /\ TypeOK
    /\ \A c \in Live : tree[sess[c]] = c
    /\ \A s \in Sessions : tree[s] # 0 => tree[s] \in Live
    /\ tasks = Cardinality(Live)
    /\ TimerOnTheWay

\* A response resumes only the coroutine whose wait it answers; it comes to a
\* later wait of that coroutine only when the coroutine made a wait with a
\* timeout not later than the wait that was answered.  In particular a
\* coroutine that never uses timeouts gets its own answers.
OwnAnswers ==
    [][Response /\ stack' # << >> =>
         LET e == Head(box)  c == stack'[1] IN
         /\ e.co = c
         /\ e.wait # wait[c] => \E w \in timed[c] : w <= e.wait]_vars

\* A ztask_timeout_del has returned and kept the lock of the timer.
LockLost == tlock /\ (walk = 0 \/ phase # "test")

\* A coroutine waits with a timeout, or the worker is about to set it.
TimedWait(c) ==
    \/ Suspended(c) /\ kind[c] \in {"call_s", "yield_s", "sleep"}
    \/ hung /\ Running = c

\* A wait with a timeout ends, or the lock of the timer was lost, or two
\* threads were at one list without the lock: nothing else can keep a
\* coroutine from being resumed, not a peer that is silent, a walk of
\* ztask_timeout_del that spins on a list, a timer that is moved to a lower
\* list past the walk, or timers removed for others.
OnlyRacesHang == \A c \in Co : TimedWait(c) ~> (~TimedWait(c) \/ LockLost \/ raced)

\* What the comments in front of ztask_snc_yield_s and ztask_snc_callname_s
\* promise: a wait with a timeout ends; stated only of a program in which no
\* two threads ever meet at a list.
TimedWaitEnds == \A c \in Co : TimedWait(c) ~> (~TimedWait(c) \/ raced)
=============================================================================
