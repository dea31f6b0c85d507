--------------------------- MODULE MasterScheduler ---------------------------
(***************************************************************************)
(* The masters of a channel, their tasks and MasterSchedulerBackend, which *)
(* lets one task at a time use the channel.  The operators below take and  *)
(* return the state of all of them: a handler calls from master to task to *)
(* scheduler and back within one task of the executor.                     *)
(***************************************************************************)
EXTENDS MasterTask, SequencesExt

CONSTANTS
    SeqModulus,          \* 16 in AppSeqNum
    ReactsTo             \* indications that MasterParams lets the master react to

ASSUME SchedulerAssumption ==
    /\ SeqModulus \in Nat \ {0}
    /\ ReactsTo \subseteq IIN
    /\ "events" \in ReactsTo => \A m \in Masters : <<m, "eventScan">> \notin Off

TaskStates == {"IDLE", "TASK_READY", "WAIT_FOR_RESPONSE"}

TimerStates == {"none", "running", "expired"}

\* MContext. confirmQueue counts the confirms left by an earlier connection and,
\* behind them, those of this one. overlapped records a failed assertion of Transmit,
\* refused a task that Run did not take.
Context ==
    [isOnline : BOOLEAN, isSending : BOOLEAN, tstate : TaskStates,
     activeTask : Task \cup {NoTask}, solSeq : 0..(SeqModulus - 1),
     confirmQueue : [old : Nat, new : Nat],
     responseTimer : TimerStates, orphans : Nat,
     requests : Nat, rx : BOOLEAN,           \* the active task's progress
     boundTasks : SUBSET UserScans,
     overlapped : BOOLEAN, refused : BOOLEAN]

\* owed counts the completion callbacks that the user still has to get for a task.
System ==
    [master : [Masters -> Context], behavior : [Task -> Behavior], blocking : SUBSET Task,
     owed : [Task -> Int],
     tasks : [Task -> Nat],                  \* how often the vector holds each task
     current : Task \cup {NoTask}, isShutdown : BOOLEAN,
     taskCheckPending : BOOLEAN,
     posted : BOOLEAN,                       \* a CheckForTaskRun is on the strand
     taskTimer : Delay, taskStartTimeout : Delay]

InitialContext ==
    [isOnline |-> FALSE, isSending |-> FALSE, tstate |-> "IDLE", activeTask |-> NoTask,
     solSeq |-> 0, confirmQueue |-> [old |-> 0, new |-> 0], responseTimer |-> "none",
     orphans |-> 0, requests |-> 0, rx |-> FALSE, boundTasks |-> {}, overlapped |-> FALSE,
     refused |-> FALSE]

InitialSystem ==
    [master |-> [m \in Masters |-> InitialContext],
     behavior |-> [t \in Task |-> InitialBehavior(t.kind)], blocking |-> {},
     owed |-> [t \in Task |-> 0], tasks |-> [t \in Task |-> 0],
     current |-> NoTask, isShutdown |-> FALSE,
     taskCheckPending |-> FALSE, posted |-> FALSE, taskTimer |-> Never,
     taskStartTimeout |-> Never]

Scheduled(s) == {t \in Task : s.tasks[t] > 0}

-----------------------------------------------------------------------------
(***************************************************************************)
(* IMasterTask and TaskContext                                             *)
(***************************************************************************)

\* What the completion of the tasks T, with the same result, makes of each of them. A
\* one-shot task is destroyed when it is complete.
CompleteAll(s, T, result) ==
    [s EXCEPT
        !.behavior = [t \in Task |-> IF t \notin T THEN @[t]
                                     ELSE IF IsRecurring(t) THEN AfterCompletion(@[t], t.kind, result)
                                     ELSE InitialBehavior(t.kind)],
        !.blocking = CASE result = "NO_COMMS" -> @
                       [] result = "SUCCESS" -> @ \ T
                       [] OTHER -> @ \cup {t \in T : BlocksLowerPriority(t)},
        !.owed = [t \in Task |-> IF t \in T /\ ~IsRecurring(t) THEN @[t] - 1 ELSE @[t]]]

CompleteTask(s, t, result) == CompleteAll(s, {t}, result)

IsBlocked(s, t) ==
    \E b \in s.blocking : b.owner = t.owner /\ Priority(b) < Priority(t)

ExpirationTime(s, t) == IF IsEnabled(t) THEN s.behavior[t].expiration ELSE Never

-----------------------------------------------------------------------------
(***************************************************************************)
(* MasterSchedulerBackend                                                  *)
(***************************************************************************)

PostCheckForTaskRun(s) ==
    IF s.taskCheckPending THEN s ELSE [s EXCEPT !.taskCheckPending = TRUE, !.posted = TRUE]

\* The tasks T are scheduled, one after the other.
AddAll(s, T) ==
    IF s.isShutdown \/ T = {} THEN s
    ELSE PostCheckForTaskRun(
            [s EXCEPT !.tasks = [t \in Task |-> IF t \in T THEN @[t] + 1 ELSE @[t]]])

Add(s, t) == AddAll(s, {t})

\* The tasks of master m are dropped. The one-shot ones learn that there are no comms.
SetRunnerOffline(s, m) ==
    LET own == {t \in Scheduled(s) \cup {s.current} : t.owner = m}
        told == CompleteAll(s, {t \in own : ~IsRecurring(t)}, "NO_COMMS")
    IN  IF s.isShutdown THEN s
        ELSE PostCheckForTaskRun(
                [told EXCEPT !.tasks = [t \in Task |-> IF t.owner = m THEN 0 ELSE @[t]],
                             !.current = IF @.owner = m THEN NoTask ELSE @])

\* Mutant of CompleteCurrentFor: every task is scheduled again.
CompleteCurrentFor_Always(s, m) ==
    IF s.current.owner # m THEN s
    ELSE PostCheckForTaskRun([Add(s, s.current) EXCEPT !.current = NoTask])

CompleteCurrentFor(s, m) ==
    IF s.current.owner # m THEN s
    ELSE LET kept == IF IsRecurring(s.current) THEN Add(s, s.current) ELSE s
         IN  PostCheckForTaskRun([kept EXCEPT !.current = NoTask])

RestartTimeoutTimer(s) ==
    LET waiting == {t \in Scheduled(s) : ~IsRecurring(t)}
    IN  [s EXCEPT !.taskStartTimeout =
            Min({Never} \cup {s.behavior[t].startExpiration : t \in waiting})]

\* GetBestTaskToRun: enabled before disabled, then unblocked before blocked, then the
\* earlier, then the higher priority.
RunsBefore(s, a, b) ==
    LET disabled(t) == ExpirationTime(s, t) = Never
    IN  IF disabled(a) # disabled(b) THEN disabled(b)
        ELSE IF IsBlocked(s, a) # IsBlocked(s, b) THEN IsBlocked(s, b)
        ELSE IF ExpirationTime(s, a) # ExpirationTime(s, b)
             THEN ExpirationTime(s, a) < ExpirationTime(s, b)
        ELSE Priority(a) < Priority(b)

\* What the search of CheckForTaskRun may find: which of several best tasks comes first
\* in the vector is left open.
BestTasks(s) == {t \in Scheduled(s) : \A other \in Scheduled(s) : ~RunsBefore(s, other, t)}

-----------------------------------------------------------------------------
(***************************************************************************)
(* MContext. fits says whether the request fits its buffer, which the      *)
(* user's request builders may fail to achieve.                            *)
(***************************************************************************)

Transmit(s, m) ==
    [s EXCEPT !.master[m].isSending = TRUE,
              !.master[m].overlapped = @ \/ s.master[m].isSending]

\* The front of the queue is sent: an old confirm, or else a new one.
CheckConfirmTransmit(s, m) ==
    LET queue == s.master[m].confirmQueue
    IN  IF s.master[m].isSending \/ queue.old + queue.new = 0 THEN s
        ELSE [Transmit(s, m) EXCEPT !.master[m].confirmQueue =
                 IF queue.old > 0 THEN [queue EXCEPT !.old = @ - 1]
                                  ELSE [queue EXCEPT !.new = @ - 1]]

QueueConfirm(s, m) ==
    CheckConfirmTransmit([s EXCEPT !.master[m].confirmQueue.new = @ + 1], m)

StartResponseTimer(s, m) ==
    [s EXCEPT !.master[m].responseTimer = IF @ = "none" THEN "running" ELSE @]

CancelResponseTimer(s, m) ==
    [s EXCEPT !.master[m].responseTimer = "none",
              !.master[m].orphans = IF s.master[m].responseTimer = "expired" THEN @ + 1 ELSE @]

CompleteActiveTask(s, m) ==
    IF s.master[m].activeTask = NoTask THEN s
    ELSE CompleteCurrentFor([s EXCEPT !.master[m].activeTask = NoTask], m)

\* The task is over, for better or worse, and the master is idle.
EndTask(s, m, result) ==
    [CompleteActiveTask(CompleteTask(s, s.master[m].activeTask, result), m)
        EXCEPT !.master[m].tstate = "IDLE", !.master[m].requests = 0, !.master[m].rx = FALSE]

ResumeActiveTask(s, m, fits) ==
    IF ~fits THEN EndTask(s, m, "MESSAGE_FORMAT_ERROR")
    ELSE [Transmit(StartResponseTimer(s, m), m)
            EXCEPT !.master[m].tstate = "WAIT_FOR_RESPONSE",
                   !.master[m].requests = @ + 1, !.master[m].rx = FALSE]

\* Mutant of StartTask_TaskReady: a transmission in progress is overlooked.
StartTask_TaskReady_NoWait(s, m, fits) == ResumeActiveTask(s, m, fits)

StartTask_TaskReady(s, m, fits) ==
    IF s.master[m].isSending THEN [s EXCEPT !.master[m].tstate = "TASK_READY"]
    ELSE ResumeActiveTask(s, m, fits)

Run(s, t, fits) ==
    LET m == t.owner
    IN  IF s.master[m].activeTask # NoTask \/ s.master[m].tstate # "IDLE"
        THEN [s EXCEPT !.master[m].refused = TRUE]
        ELSE StartTask_TaskReady([s EXCEPT !.master[m].activeTask = t], m, fits)

\* Mutant of CheckForTaskRun: the start timeout is not set while a task is running.
CheckForTaskRun_LateTimeout(s, best, fits) ==
    LET checked == [s EXCEPT !.taskCheckPending = FALSE]
    IN  IF s.isShutdown THEN s
        ELSE IF s.current # NoTask \/ best = NoTask THEN checked
        ELSE IF ExpirationTime(s, best) = 0
             THEN Run([RestartTimeoutTimer(checked) EXCEPT !.current = best, !.tasks[best] = @ - 1], best, fits)
        ELSE [RestartTimeoutTimer(checked) EXCEPT !.taskTimer = ExpirationTime(s, best)]

\* best is one of BestTasks(s), or NoTask when there is none.
CheckForTaskRun(s, best, fits) ==
    LET checked == RestartTimeoutTimer([s EXCEPT !.taskCheckPending = FALSE])
    IN  IF s.isShutdown THEN s
        ELSE IF s.current # NoTask \/ best = NoTask THEN checked
        ELSE IF ExpirationTime(s, best) = 0
             THEN Run([checked EXCEPT !.current = best, !.tasks[best] = @ - 1], best, fits)
        ELSE [checked EXCEPT !.taskTimer = ExpirationTime(s, best)]

TimeoutTasks(s) ==
    LET late == {t \in Scheduled(s) : ~IsRecurring(t) /\ s.behavior[t].startExpiration = 0}
        told == CompleteAll(s, late, "START_TIMEOUT")
    IN  IF s.isShutdown THEN s
        ELSE RestartTimeoutTimer(
                [told EXCEPT !.tasks = [t \in Task |-> IF t \in late THEN 0 ELSE @[t]]])

\* SetMinExpiration for each of the tasks
DemandAll(s, m, K) ==
    [s EXCEPT !.behavior = [t \in Task |-> IF t.owner = m /\ t.kind \in K
                                          THEN Reset(@[t], t.kind) ELSE @[t]]]

\* The tasks that the indications call for; the scheduler looks at them in a moment.
Reaction == [bit \in IIN |->
    CASE bit = "restart" -> {"clearRestart", "assignClass", "integrity", "enableUnsol"}
      [] bit = "overflow" -> {"integrity"}
      [] bit = "needTime" -> {"timeSync"}
      [] bit = "events" -> {"eventScan"}]

\* Mutant of ProcessIIN: the scheduler is not told of the tasks.
ProcessIIN_NotEvaluated(s, m, iin) ==
    DemandAll(s, m, UNION {Reaction[bit] : bit \in iin \cap ReactsTo} \cap Configured)

ProcessIIN(s, m, iin) ==
    LET wanted == UNION {Reaction[bit] : bit \in iin \cap ReactsTo} \cap Configured
    IN  IF wanted = {} THEN s ELSE PostCheckForTaskRun(DemandAll(s, m, wanted))

OnLowerLayerUp(s, m) ==
    LET own == {t \in Task : t.owner = m /\ t.kind \in Configured \cup s.master[m].boundTasks}
    IN  AddAll([s EXCEPT !.master[m].isOnline = TRUE], own)

\* Both sequence numbers start anew; the confirm queue is left as it is.
Disconnected(c) ==
    [c EXCEPT !.tstate = "IDLE", !.solSeq = 0, !.isOnline = FALSE, !.isSending = FALSE,
              !.activeTask = NoTask, !.requests = 0, !.rx = FALSE,
              !.confirmQueue = [old |-> @.old + @.new, new |-> 0]]

\* Mutant of OnLowerLayerDown: the active task is kept.
OnLowerLayerDown_KeepsTask(s, m) ==
    SetRunnerOffline(
        [CancelResponseTimer(s, m) EXCEPT
            !.master[m] = [Disconnected(@) EXCEPT !.activeTask = s.master[m].activeTask]], m)

OnLowerLayerDown(s, m) ==
    SetRunnerOffline([CancelResponseTimer(s, m) EXCEPT !.master[m] = Disconnected(@)], m)

\* Mutant of OnTxReady: the queue of confirms is not looked at.
OnTxReady_NoConfirm(s, m, fits) ==
    LET sent == [s EXCEPT !.master[m].isSending = FALSE]
    IN  IF s.master[m].tstate = "TASK_READY" THEN ResumeActiveTask(sent, m, fits) ELSE sent

\* Mutant of OnTxReady: a task that waited for the end of a transmission is not resumed.
OnTxReady_NoResume(s, m, fits) ==
    CheckConfirmTransmit([s EXCEPT !.master[m].isSending = FALSE], m)

OnTxReady(s, m, fits) ==
    LET sent == [s EXCEPT !.master[m].isSending = FALSE]
        resumed == IF s.master[m].tstate = "TASK_READY" THEN ResumeActiveTask(sent, m, fits)
                   ELSE sent
    IN  CheckConfirmTransmit(resumed, m)

\* Mutant of NextSeq: the number is not reduced.
NextSeq_NoWrap(s, m) == [s EXCEPT !.master[m].solSeq = @ + 1]

NextSeq(s, m) == [s EXCEPT !.master[m].solSeq = (@ + 1) % SeqModulus]

\* Mutant of OnResponse_WaitForResponse: the timer is not started for the next fragment.
OnResponse_WaitForResponse_NoTimer(s, m, r, fits) ==
    LET c == s.master[m]
        result == ProcessResponse(c.activeTask.kind, c.requests, c.rx, r)
        heard == [NextSeq(CancelResponseTimer(s, m), m) EXCEPT !.master[m].rx = TRUE]
        Confirmed(x) == IF r.con THEN QueueConfirm(x, m) ELSE x
    IN  CASE result = "OK_CONTINUE" -> Confirmed(heard)
          [] result = "OK_REPEAT" -> StartTask_TaskReady(Confirmed(heard), m, fits)
          [] OTHER ->
                EndTask(Confirmed(heard), m, IF result = "OK_FINAL" THEN "SUCCESS" ELSE "BAD_RESPONSE")

OnResponse_WaitForResponse(s, m, r, fits) ==
    LET c == s.master[m]
        result == ProcessResponse(c.activeTask.kind, c.requests, c.rx, r)
        heard == [NextSeq(CancelResponseTimer(s, m), m) EXCEPT !.master[m].rx = TRUE]
        Confirmed(x) == IF r.con THEN QueueConfirm(x, m) ELSE x
    IN  CASE result = "OK_CONTINUE" -> StartResponseTimer(Confirmed(heard), m)
          [] result = "OK_REPEAT" -> StartTask_TaskReady(Confirmed(heard), m, fits)
          [] OTHER ->
                EndTask(Confirmed(heard), m, IF result = "OK_FINAL" THEN "SUCCESS" ELSE "BAD_RESPONSE")

\* A solicited response with sequence number seq
OnSolicited(s, m, seq, r, fits) ==
    LET expected == s.master[m].tstate = "WAIT_FOR_RESPONSE" /\ seq = s.master[m].solSeq
    IN  ProcessIIN(IF expected THEN OnResponse_WaitForResponse(s, m, r, fits) ELSE s, m, r.iin)

ProcessUnsolicitedResponse(s, m, r) ==
    ProcessIIN(IF r.body = "good" /\ r.con THEN QueueConfirm(s, m) ELSE s, m, r.iin)

\* Mutant of OnResponseTimeout: the next request has the number of the one given up.
OnResponseTimeout_SameSeq(s, m) ==
    LET fired == [s EXCEPT !.master[m].responseTimer = "none",
                           !.master[m].orphans =
                               IF s.master[m].responseTimer = "none" THEN @ - 1 ELSE @]
    IN  IF s.master[m].isOnline /\ s.master[m].tstate = "WAIT_FOR_RESPONSE"
        THEN EndTask(fired, m, "RESPONSE_TIMEOUT")
        ELSE fired

\* The timer's own callback, or that of a timer that was cancelled too late. In the
\* latter case the timer that was started since is left without a reference.
OnResponseTimeout(s, m) ==
    LET fired == [s EXCEPT !.master[m].responseTimer = "none",
                           !.master[m].orphans =
                               IF s.master[m].responseTimer = "none" THEN @ - 1 ELSE @]
    IN  IF s.master[m].isOnline /\ s.master[m].tstate = "WAIT_FOR_RESPONSE"
        THEN NextSeq(EndTask(fired, m, "RESPONSE_TIMEOUT"), m)
        ELSE fired

\* AddScan and the like
ScheduleRecurringPollTask(s, m, kind) ==
    LET bound == [s EXCEPT !.master[m].boundTasks = @ \cup {kind}]
    IN  IF s.master[m].isOnline THEN Add(bound, [owner |-> m, kind |-> kind]) ELSE bound

ScheduleAdhocTask(s, t) ==
    LET created == [s EXCEPT !.owed[t] = @ + 1]
    IN  IF s.master[t.owner].isOnline THEN Add(created, t)
        ELSE CompleteTask(created, t, "NO_COMMS")

Shutdown(s) ==
    [s EXCEPT !.isShutdown = TRUE, !.tasks = [t \in Task |-> 0], !.current = NoTask,
              !.taskTimer = Never, !.taskStartTimeout = Never]
=============================================================================
