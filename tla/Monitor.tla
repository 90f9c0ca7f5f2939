------------------------------ MODULE Monitor ------------------------------
(***************************************************************************)
(* The watch over endless callbacks (ztask_monitor.c, thread_monitor of    *)
(* ztask_start.c, ztask_context_endless): a worker notes in plain stores   *)
(* what it is about to dispatch, and counts; the monitor thread compares   *)
(* the count with the one that it saw last time.                           *)
(***************************************************************************)
EXTENDS Integers

CONSTANTS Service,     \* handles; 0 is none
          MaxVersion   \* bound on the count

ASSUME MonitorAssumption == 0 \notin Service /\ MaxVersion \in Nat

\* What the report has not read yet.
NotRead == -1

VARIABLES sm,      \* version, check_version, source, destination
          worker,  \* at, and the message that it dispatches: its source, its service
          watch,   \* the monitor thread: at, and what it has read for its report
          endless, \* ctx->endless of each service
          ghost    \* since: checks begun since the callback started; moved: the
                   \* worker took a step since the check began

monVars == <<sm, worker, watch, endless, ghost>>

NoReport == [at |-> "sleep", source |-> NotRead, destination |-> NotRead]

MonInit ==
    /\ sm = [version |-> 0, check |-> 0, source |-> 0, destination |-> 0]
    /\ worker = [at |-> "idle", from |-> 0, to |-> 0]
    /\ watch = NoReport
    /\ endless = [s \in Service |-> FALSE]
    /\ ghost = [since |-> 0, moved |-> FALSE]

\* The worker goes from one of its places to the next.  Where it counts, a callback
\* begins or ends.
WorkerGoes(here, there) ==
    /\ worker.at = here
    /\ worker' = [worker EXCEPT !.at = there]
    /\ ghost' = [since |-> IF sm'.version = sm.version THEN ghost.since ELSE 0, moved |-> TRUE]
    /\ UNCHANGED <<watch, endless>>

\* ztask_monitor_trigger before the callback of a message: source, destination, count.
Dispatch(f, s) ==
    /\ worker.at = "idle" /\ sm.version + 2 <= MaxVersion
    /\ sm' = [sm EXCEPT !.source = f]
    /\ worker' = [at |-> "noted", from |-> f, to |-> s]
    /\ ghost' = [ghost EXCEPT !.moved = TRUE]
    /\ UNCHANGED <<watch, endless>>
\* Mutant: the destination is not stored.
Mark_Nowhere == sm' = sm /\ WorkerGoes("noted", "marked")
Mark == sm' = [sm EXCEPT !.destination = worker.to] /\ WorkerGoes("noted", "marked")
MarkCount == sm' = [sm EXCEPT !.version = @ + 1] /\ WorkerGoes("marked", "callback")
\* The callback returns, if it does: ztask_monitor_trigger(sm, 0, 0).
Return == sm' = [sm EXCEPT !.source = 0] /\ WorkerGoes("callback", "cleared")
Unmark == sm' = [sm EXCEPT !.destination = 0] /\ WorkerGoes("cleared", "unmarked")
UnmarkCount == sm' = [sm EXCEPT !.version = @ + 1] /\ WorkerGoes("unmarked", "idle")

\* Mutant: a new count is noted, and looked at as if it were the old one.
Check_Once ==
    /\ watch.at = "sleep"
    /\ watch' = [watch EXCEPT !.at = "seen"]
    /\ sm' = [sm EXCEPT !.check = sm.version]
    /\ ghost' = [since |-> IF ghost.since < 2 THEN ghost.since + 1 ELSE 2, moved |-> FALSE]
    /\ UNCHANGED <<worker, endless>>

\* ztask_monitor_check: a new count is noted; the old one makes the monitor look
\* at the destination.
Check ==
    /\ watch.at = "sleep"
    /\ \/ sm.version # sm.check /\ sm' = [sm EXCEPT !.check = sm.version] /\ watch' = watch
       \/ sm.version = sm.check /\ sm' = sm /\ watch' = [watch EXCEPT !.at = "seen"]
    /\ ghost' = [since |-> IF ghost.since < 2 THEN ghost.since + 1 ELSE 2, moved |-> FALSE]
    /\ UNCHANGED <<worker, endless>>
\* Is there a destination?
Look ==
    /\ watch.at = "seen"
    /\ watch' = [watch EXCEPT !.at = IF sm.destination = 0 THEN "sleep" ELSE "report"]
    /\ UNCHANGED <<sm, worker, endless, ghost>>
\* ztask_context_endless: it is read again; no service has the handle 0.
Report ==
    /\ watch.at = "report"
    /\ watch' = [watch EXCEPT !.at = "name"]
    /\ endless' = [s \in Service |-> endless[s] \/ s = sm.destination]
    /\ UNCHANGED <<sm, worker, ghost>>
\* The arguments of its ztask_error are read, in the order that the compiler likes.
ReadSource == /\ watch.at = "name" /\ watch.source = NotRead
              /\ watch' = [watch EXCEPT !.source = sm.source]
              /\ UNCHANGED <<sm, worker, endless, ghost>>
ReadDestination == /\ watch.at = "name" /\ watch.destination = NotRead
                   /\ watch' = [watch EXCEPT !.destination = sm.destination]
                   /\ UNCHANGED <<sm, worker, endless, ghost>>
Log == /\ watch.at = "name" /\ NotRead \notin {watch.source, watch.destination}
       /\ watch' = NoReport
       /\ UNCHANGED <<sm, worker, endless, ghost>>
\* cmd_stat "endless": the service asks in its callback, and the note is cleared.
Ask(s) == /\ worker.at = "callback" /\ worker.to = s /\ endless[s]
          /\ endless' = [endless EXCEPT ![s] = FALSE]
          /\ UNCHANGED <<sm, worker, watch, ghost>>

WatchStep == Check \/ Look \/ Report \/ ReadSource \/ ReadDestination \/ Log
WorkerRuns == Mark \/ MarkCount \/ Unmark \/ UnmarkCount
MonNext == \/ \E s \in Service : Ask(s) \/ \E f \in Service : Dispatch(f, s)
           \/ WorkerRuns \/ Return \/ WatchStep

\* The monitor thread sleeps five seconds at a time and runs; a worker that is not
\* in a callback runs too.
MonFairness == WF_monVars(WatchStep) /\ WF_monVars(WorkerRuns)
MonSpec == MonInit /\ [][MonNext]_monVars /\ MonFairness

-----------------------------------------------------------------------------
\* What the monitor thread may say when the worker has not moved since the check: the
\* callback that has been running since the check before, or has just returned; but for
\* the moment between the store of the destination and the count, when it is the
\* callback that comes.
Watched(s) == /\ worker.to = s
              /\ \/ worker.at = "marked"
                 \/ worker.at \in {"callback", "cleared"} /\ ghost.since >= 2

\* A report that the worker did not step into names such a callback, and the line that is
\* written the source of its message too; the source is 0 when the callback has
\* returned and only that store is done.
HonestReport ==
    ~ghost.moved =>
        /\ \A s \in Service : ~endless[s] /\ endless'[s] => Watched(s)
        /\ watch.at = "name" /\ watch'.at = "sleep" =>
              /\ Watched(watch.destination)
              /\ watch.source = IF worker.at = "cleared" THEN 0 ELSE worker.from

\* A callback that never returns is reported.
EndlessReported ==
    \A s \in Service : (<>[](worker.at = "callback" /\ worker.to = s)) => []<>endless[s]
=============================================================================
