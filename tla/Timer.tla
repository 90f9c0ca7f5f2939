-------------------------------- MODULE Timer --------------------------------
(***************************************************************************)
(* The hierarchical timing wheel of ztask_timer.c.  A timer due within the *)
(* current near block sits in near[]; a later one sits in the lowest of    *)
(* four levels whose block it shares with the present, and is moved down   *)
(* when time reaches its block.  Time is a uint32_t and wraps: the near    *)
(* array and the four levels together cover exactly its width.             *)
(*                                                                         *)
(* Any thread may set a timer when the spinlock is free.  The timer thread *)
(* holds the lock through timer_update, except while it delivers a list of *)
(* expired timers.  A timer that was delivered may be set again.           *)
(***************************************************************************)
EXTENDS Integers, Sequences, FiniteSets

CONSTANTS Timers,      \* timer events, a handle and a session each
          NEAR,        \* TIME_NEAR
          LEVEL,       \* TIME_LEVEL
          Delays,      \* the timeouts that are set, in ticks
          MaxDiff,     \* bound: ticks that one ztask_updatetime catches up
          MaxZero      \* bound: timers of 0 ticks set within one tick

\* The times a tick of level i spans; level 4 is the whole range of T->time.
\* The code has shifts and masks, as NEAR and LEVEL are powers of two.
Block[i \in 0..4] == IF i = 0 THEN NEAR ELSE LEVEL * Block[i - 1]
Span == Block[4]

\* A timeout is an int of milliseconds, a tenth of it in ticks: far less than
\* the range of T->time without the last block of the top level.
ASSUME TimerAssumption ==
    /\ NEAR \in Nat \ {0} /\ LEVEL \in Nat \ {0, 1}
    /\ Delays \subseteq 0..(Span - Block[3])
    /\ MaxDiff \in Nat \ {0}
    /\ MaxZero \in Nat

VARIABLES time,     \* T->time
          wheel,    \* T->near (level -1) and T->t (levels 0..3)
          expire,   \* node->expire
          lock,     \* TRUE while the timer thread holds T->lock
          pc,       \* the timer thread
          owed,     \* ticks ztask_updatetime still has to run
          firing,   \* the list dispatch_list is delivering
          zeros,    \* timers of 0 ticks set since the last tick
          remain,   \* ghost: ticks left (0: due or overdue), -1 for a timer not set
          earlier   \* ghost: timers with the same due time set before it

vars == <<time, wheel, expire, lock, pc, owed, firing, zeros, remain, earlier>>

Cell == ({-1} \X (0..(NEAR - 1))) \cup ((0..3) \X (0..(LEVEL - 1)))

\* Timers that are set and not yet delivered.
Pending == {x \in Timers : remain[x] # -1}

-----------------------------------------------------------------------------

\* Mutant: the level is chosen by the distance to the due time.
Place_ByDistance(e, now) ==
    IF (e - now) % Span < NEAR THEN <<-1, e % NEAR>>
    ELSE LET i == CHOOSE k \in 0..3 :
                    /\ k = 3 \/ (e - now) % Span < Block[k + 1]
                    /\ \A j \in 0..(k - 1) : (e - now) % Span >= Block[j + 1]
         IN  <<i, (e \div Block[i]) % LEVEL>>

\* add_node: the cell of a timer due at e when the time is now.
Place(e, now) ==
    IF e \div NEAR = now \div NEAR THEN <<-1, e % NEAR>>
    ELSE LET i == CHOOSE k \in 0..3 :
                    /\ k = 3 \/ e \div Block[k + 1] = now \div Block[k + 1]
                    /\ \A j \in 0..(k - 1) :
                          e \div Block[j + 1] # now \div Block[j + 1]
         IN  <<i, (e \div Block[i]) % LEVEL>>

\* Mutant: wrapping to 0 is not treated apart.
DueCells_NoWrap(ct) ==
    {<<i, (ct \div Block[i]) % LEVEL>> : i \in
        {k \in 0..3 : /\ ct % Block[k] = 0
                      /\ (ct \div Block[k]) % LEVEL # 0}}

\* timer_shift: the cell, if any, that the new time ct reaches: the first
\* level at which ct is not at the start of a larger block.
DueCells(ct) ==
    IF ct = 0 THEN {<<3, 0>>}
    ELSE {<<i, (ct \div Block[i]) % LEVEL>> : i \in
             {k \in 0..3 : /\ ct % Block[k] = 0
                           /\ (ct \div Block[k]) % LEVEL # 0}}

\* Mutant: the timer is linked in front of the list.
Linked_First(list, x) == <<x>> \o list

\* link
Linked(list, x) == Append(list, x)

\* add_node: link timer x, due at e, into the list of its cell.
AddNode(w, x, e, now) == [w EXCEPT ![Place(e, now)] = Linked(@, x)]

\* Mutant: the list is moved but not cleared.
MoveList_Uncleared(c, ct) ==
    LET list == wheel[c]
        moved[n \in 0..Len(list)] ==
            IF n = 0 THEN wheel ELSE AddNode(moved[n - 1], list[n], expire[list[n]], ct)
    IN  moved[Len(list)]

\* move_list: empty cell c and add its timers again, in order.
MoveList(c, ct) ==
    LET list == wheel[c]
        moved[n \in 0..Len(list)] ==
            IF n = 0 THEN [wheel EXCEPT ![c] = << >>]
            ELSE AddNode(moved[n - 1], list[n], expire[list[n]], ct)
    IN  moved[Len(list)]

\* Mutant: the sum is kept wider than T->time.
Expire_Wide(d) == time + d

\* timer_add: the uint32_t time at which a timer of d ticks is due.
Expire(d) == (time + d) % Span

-----------------------------------------------------------------------------

\* timer_create_timer
Init ==
    /\ time = 0
    /\ wheel = [c \in Cell |-> << >>]
    /\ expire = [x \in Timers |-> 0]
    /\ lock = FALSE
    /\ pc = "idle"
    /\ owed = 0
    /\ firing = << >>
    /\ zeros = 0
    /\ remain = [x \in Timers |-> -1]
    /\ earlier = [x \in Timers |-> {}]

\* ztask_timeout with d ticks, by any thread: timer_add under the lock.  A
\* timeout of less than 10 ms is 0 ticks and due at once: timer_execute would
\* loop for as long as callbacks keep setting such timers while it delivers,
\* so the model bounds them.  (A timeout of 0 ms or less never reaches the
\* wheel: its response is pushed by the caller.)
Timeout(x, d) ==
    /\ ~lock
    /\ x \notin Pending
    /\ d = 0 => zeros < MaxZero
    /\ zeros' = IF d = 0 THEN zeros + 1 ELSE zeros
    /\ expire' = [expire EXCEPT ![x] = Expire(d)]
    /\ wheel' = AddNode(wheel, x, Expire(d), time)
    /\ remain' = [remain EXCEPT ![x] = d]
    /\ earlier' = [earlier EXCEPT ![x] = {y \in Pending : remain[y] = d}]
    /\ UNCHANGED <<time, lock, pc, owed, firing>>

\* ztask_updatetime: the clock moved on by d ticks; a clock that did not
\* move, or moved back, owes none.
UpdateTime(d) ==
    /\ pc = "idle" /\ owed = 0
    /\ owed' = d
    /\ UNCHANGED <<time, wheel, expire, lock, pc, firing, zeros, remain, earlier>>

\* timer_update takes the lock.
BeginUpdate ==
    /\ pc = "idle" /\ owed > 0 /\ ~lock
    /\ lock' = TRUE
    /\ owed' = owed - 1
    /\ pc' = "exec1"
    /\ UNCHANGED <<time, wheel, expire, firing, zeros, remain, earlier>>

\* timer_execute: take the list of the present tick and unlock.
TakeExpired ==
    LET c == <<-1, time % NEAR>> IN
    /\ pc \in {"exec1", "exec2"}
    /\ wheel[c] # << >>
    /\ firing' = wheel[c]
    /\ wheel' = [wheel EXCEPT ![c] = << >>]
    /\ lock' = FALSE
    /\ pc' = IF pc = "exec1" THEN "disp1" ELSE "disp2"
    /\ UNCHANGED <<time, expire, owed, zeros, remain, earlier>>

\* dispatch_list: push the response of one timer and free its node.
Deliver ==
    /\ pc \in {"disp1", "disp2"}
    /\ firing # << >>
    /\ firing' = Tail(firing)
    /\ remain' = [remain EXCEPT ![Head(firing)] = -1]
    /\ earlier' = [x \in Timers |-> IF x = Head(firing) THEN {}
                                    ELSE earlier[x] \ {Head(firing)}]
    /\ UNCHANGED <<time, wheel, expire, lock, pc, owed, zeros>>

\* The list is delivered; lock again and look for more.
Relock ==
    /\ pc \in {"disp1", "disp2"}
    /\ firing = << >> /\ ~lock
    /\ lock' = TRUE
    /\ pc' = IF pc = "disp1" THEN "exec1" ELSE "exec2"
    /\ UNCHANGED <<time, wheel, expire, owed, firing, zeros, remain, earlier>>

\* timer_shift
Shift ==
    /\ pc = "exec1"
    /\ wheel[<<-1, time % NEAR>>] = << >>
    /\ LET ct == (time + 1) % Span IN
       /\ time' = ct
       /\ \/ DueCells(ct) = {} /\ UNCHANGED wheel
          \/ \E c \in DueCells(ct) : wheel' = MoveList(c, ct)
    /\ remain' = [x \in Timers |-> IF remain[x] > 0 THEN remain[x] - 1 ELSE remain[x]]
    /\ zeros' = 0
    /\ pc' = "exec2"
    /\ UNCHANGED <<expire, lock, owed, firing, earlier>>

\* timer_update unlocks.
EndUpdate ==
    /\ pc = "exec2"
    /\ wheel[<<-1, time % NEAR>>] = << >>
    /\ lock' = FALSE
    /\ pc' = "idle"
    /\ UNCHANGED <<time, wheel, expire, owed, firing, zeros, remain, earlier>>

TimerThread == BeginUpdate \/ TakeExpired \/ Deliver \/ Relock \/ Shift \/ EndUpdate

Next == \/ \E x \in Timers, d \in Delays : Timeout(x, d)
        \/ \E d \in 1..MaxDiff : UpdateTime(d)
        \/ TimerThread

\* The timer thread runs and the clock advances.
Fairness == WF_vars(TimerThread) /\ WF_vars(\E d \in 1..MaxDiff : UpdateTime(d))

Spec == Init /\ [][Next]_vars /\ Fairness

-----------------------------------------------------------------------------

\* Types of struct timer.
TypeOK ==
    /\ time \in 0..(Span - 1)
    /\ wheel \in [Cell -> Seq(Timers)]
    /\ expire \in [Timers -> 0..(Span - 1)]
    /\ lock \in BOOLEAN
    /\ pc \in {"idle", "exec1", "disp1", "exec2", "disp2"}
    /\ owed \in 0..MaxDiff
    /\ firing \in Seq(Timers)
    /\ zeros \in 0..MaxZero
    /\ remain \in [Timers -> -1..(Span - Block[3])]
    /\ earlier \in [Timers -> SUBSET Timers]

Count(list, x) == Cardinality({i \in DOMAIN list : list[i] = x})

\* A timer that is set is linked into one list of the wheel, or is being
\* delivered, exactly once; one that is not set is nowhere.
LinkedOnce ==
    /\ TypeOK
    /\ \A x \in Timers :
          LET places == {c \in Cell : Count(wheel[c], x) > 0} IN
          /\ \A c \in Cell : Count(wheel[c], x) <= 1
          /\ Cardinality(places) + Count(firing, x) = IF x \in Pending THEN 1 ELSE 0

\* A timer is delivered at the tick it was set for: one that dispatch_list
\* delivers is due (never early), and when timer_update is done with a tick no
\* timer that is due is left anywhere in the wheel (never late), whatever
\* levels it passed through and also when T->time wraps around between.
OnTime ==
    /\ \A i \in DOMAIN firing : remain[firing[i]] = 0
    /\ \A x \in Pending : pc = "exec2" /\ wheel[<<-1, time % NEAR>>] = << >>
                             => remain[x] > 0

\* Timers due at the same tick are delivered in the order in which they were
\* set, however often they were moved between levels.
InOrder ==
    [][\A x \in Timers : remain[x] # -1 /\ remain'[x] = -1 => earlier[x] = {}]_vars

\* Every timer that is set is delivered.
EveryTimerFires == \A x \in Timers : x \in Pending ~> x \notin Pending
=============================================================================
