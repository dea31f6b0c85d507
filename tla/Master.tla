------------------------------- MODULE Master -------------------------------
(***************************************************************************)
(* Masters on one channel with the users that give them tasks, a peer for  *)
(* each of them that answers in any way or not at all, and time.  Every    *)
(* action is one task of the executor's strand, but for those of the peer  *)
(* and of time.                                                            *)
(***************************************************************************)
EXTENDS MasterScheduler

CONSTANTS
    MayNotFit,      \* kinds whose request may not fit the buffer
    Responses,      \* what responses look like
    UnsolResponses, \* what unsolicited responses look like
    MaxAge,         \* bound on the requests that an answer in transit is late by
    Scenarios       \* what may happen, see Scenario

ASSUME EnvironmentAssumption ==
    /\ MayNotFit \subseteq Kinds
    /\ Responses \subseteq Response /\ UnsolResponses \subseteq Response
    /\ MaxAge \in Nat /\ MaxAge < SeqModulus

VARIABLES
    system,         \* the masters, their tasks and the scheduler
    answers,        \* answers[m]: solicited responses in transit to m
    scenario        \* never changes

vars == <<system, answers, scenario>>

\* The masters that are enabled, the kinds of tasks that users add or submit, and bounds
\* on the answers in transit to a master, on its confirm queue and on the callbacks of
\* cancelled response timers that are on the strand.
Scenario == [enabled : SUBSET Masters, used : SUBSET Kinds, MaxFlight : Nat, MaxConfirms : Nat,
             MaxOrphans : Nat]

ASSUME ScenarioAssumption == Scenarios \subseteq Scenario

Init ==
    /\ scenario \in Scenarios
    /\ system = InitialSystem
    /\ answers = [m \in Masters |-> <<>>]

\* An answer to the request, or the next fragment of one, that the master waited for
\* when it had sent and received age fewer of them than now.
Answer == [seq : 0..(SeqModulus - 1), age : 0..MaxAge]

\* One of the requests and fragments that were waited for no longer is. The oldest answer
\* is at the front, and no two are of the same age.
Older(sent) ==
    LET aged == [i \in DOMAIN sent |-> [sent[i] EXCEPT !.age = @ + 1]]
    IN  IF sent # <<>> /\ Head(sent).age = MaxAge THEN Tail(aged) ELSE aged

\* What is in transit to m when the system becomes s: all is lost with the connection,
\* and an answer ages with every request or fragment that is no longer waited for.
InTransit(s, m, sent) ==
    IF ~s.master[m].isOnline THEN <<>>
    ELSE IF \/ system.master[m].tstate # "WAIT_FOR_RESPONSE"
            \/ /\ s.master[m].tstate = "WAIT_FOR_RESPONSE"
               /\ s.master[m].solSeq = system.master[m].solSeq
         THEN sent
    ELSE Older(sent)

MayBecome(s) ==
    /\ \A m \in Masters : s.master[m].orphans <= scenario.MaxOrphans
    /\ system' = s
    /\ UNCHANGED scenario

Becomes(next) ==
    \E s \in {next} :
        /\ MayBecome(s)
        /\ answers' = [m \in Masters |-> InTransit(s, m, answers[m])]

\* Whether the request fits does not matter where no task of such a kind is concerned.
Fits(T) == IF \E t \in T : t.kind \in MayNotFit THEN BOOLEAN ELSE {TRUE}

ActiveTask(m) == {system.master[m].activeTask}

-----------------------------------------------------------------------------
LowerLayerUp(m) ==
    /\ m \in scenario.enabled
    /\ ~system.master[m].isOnline /\ ~system.isShutdown
    /\ Becomes(OnLowerLayerUp(system, m))

LowerLayerDown(m) ==
    /\ system.master[m].isOnline
    /\ Becomes(OnLowerLayerDown(system, m))

TxReady(m) ==
    /\ system.master[m].isSending
    /\ \E fits \in Fits(ActiveTask(m)) : Becomes(OnTxReady(system, m, fits))

MayQueueConfirm(m) ==
    system.master[m].confirmQueue.old + system.master[m].confirmQueue.new < scenario.MaxConfirms

\* A solicited response is processed ...
ReceiveResponse(m) ==
    /\ answers[m] # <<>>
    /\ \E r \in Responses, fits \in Fits(ActiveTask(m)) :
          /\ r.con => MayQueueConfirm(m)
          /\ LET s == OnSolicited(system, m, Head(answers[m]).seq, r, fits)
             IN  /\ MayBecome(s)
                 /\ answers' = [answers EXCEPT ![m] = InTransit(s, m, Tail(@))]

\* ... or lost on its way.
LoseResponse(m) ==
    /\ answers[m] # <<>>
    /\ answers' = [answers EXCEPT ![m] = Tail(@)]
    /\ UNCHANGED <<system, scenario>>

\* The peer answers the request, or continues its answer.
PeerAnswers(m) ==
    /\ system.master[m].tstate = "WAIT_FOR_RESPONSE"
    /\ Len(answers[m]) < scenario.MaxFlight
    /\ \A i \in DOMAIN answers[m] : answers[m][i].age > 0
    /\ answers' = [answers EXCEPT ![m] =
                      Append(@, [seq |-> system.master[m].solSeq, age |-> 0])]
    /\ UNCHANGED <<system, scenario>>

ReceiveUnsolicited(m) ==
    /\ system.master[m].isOnline
    /\ \E r \in UnsolResponses :
          /\ r.con => MayQueueConfirm(m)
          /\ Becomes(ProcessUnsolicitedResponse(system, m, r))

TimerExpires(m) ==
    /\ system.master[m].responseTimer = "running"
    /\ Becomes([system EXCEPT !.master[m].responseTimer = "expired"])

ResponseTimeout(m) ==
    /\ system.master[m].responseTimer = "expired" \/ system.master[m].orphans > 0
    /\ Becomes(OnResponseTimeout(system, m))

-----------------------------------------------------------------------------
Submit(t) ==
    /\ t.owner \in scenario.enabled /\ t.kind \in AdhocKinds \cap scenario.used
    /\ system.owed[t] = 0
    /\ Becomes(ScheduleAdhocTask(system, t))

AddScan(m, kind) ==
    /\ m \in scenario.enabled /\ kind \in scenario.used
    /\ kind \notin system.master[m].boundTasks
    /\ Becomes(ScheduleRecurringPollTask(system, m, kind))

Check(checked) ==
    \E s \in {checked} :
        \E best \in IF Scheduled(s) = {} THEN {NoTask} ELSE BestTasks(s) :
            \E fits \in Fits({best}) : Becomes(CheckForTaskRun(s, best, fits))

\* MasterScan::Demand
DemandScan(m, kind) ==
    /\ kind \in system.master[m].boundTasks
    /\ ~system.isShutdown
    /\ Check(DemandAll(system, m, {kind}))

RunCheck ==
    /\ system.posted
    /\ Check([system EXCEPT !.posted = FALSE])

TaskTimer ==
    /\ system.taskTimer = 0
    /\ Check([system EXCEPT !.taskTimer = Never])

StartTimeout ==
    /\ system.taskStartTimeout = 0
    /\ Becomes(TimeoutTasks([system EXCEPT !.taskStartTimeout = Never]))

\* The callback of a timer of the scheduler that was cancelled after it had expired, or
\* one of several checks on the strand. Whether there is one is not kept track of.
Stray ==
    /\ Check(system) \/ Becomes(TimeoutTasks(system))
    /\ system' # system

\* The channel has taken every master down before its scheduler is shut down.
ShutdownScheduler ==
    /\ ~system.isShutdown
    /\ \A m \in Masters : ~system.master[m].isOnline
    /\ Becomes(Shutdown(system))

Sooner(delay) == IF delay \in {0, Never} THEN delay ELSE delay - 1

\* The timestamps of a task; that of its start timeout matters while it waits.
Aged(s, t) ==
    [s.behavior[t] EXCEPT !.expiration = Sooner(@),
                          !.startExpiration = IF t \in Scheduled(s) THEN Sooner(@) ELSE @]

Passed(s) ==
    [s EXCEPT !.behavior = [t \in Task |-> Aged(s, t)],
              !.taskTimer = Sooner(@), !.taskStartTimeout = Sooner(@)]

Tick == Passed(system) # system /\ Becomes(Passed(system))

Next ==
    \/ \E m \in Masters :
          \/ LowerLayerUp(m) \/ LowerLayerDown(m) \/ TxReady(m)
          \/ ReceiveResponse(m) \/ LoseResponse(m) \/ PeerAnswers(m) \/ ReceiveUnsolicited(m)
          \/ TimerExpires(m) \/ ResponseTimeout(m)
          \/ \E kind \in UserScans : AddScan(m, kind) \/ DemandScan(m, kind)
    \/ \E t \in Task : Submit(t)
    \/ RunCheck
    \/ TaskTimer
    \/ StartTimeout
    \/ Stray
    \/ ShutdownScheduler
    \/ Tick

\* Callbacks on the strand run, timers expire, time passes, and the lower layer ends
\* what it was given to transmit.
Fairness ==
    /\ \A m \in Masters : WF_vars(TxReady(m)) /\ WF_vars(TimerExpires(m)) /\ WF_vars(ResponseTimeout(m))
    /\ WF_vars(RunCheck) /\ WF_vars(TaskTimer) /\ WF_vars(StartTimeout) /\ WF_vars(Tick)

Spec == Init /\ [][Next]_vars /\ Fairness

-----------------------------------------------------------------------------
(***************************************************************************)
(* Properties.                                                             *)
(***************************************************************************)

\* The masters, their tasks and the scheduler have their declared types.
TypeOK ==
    /\ system \in System /\ answers \in [Masters -> Seq(Answer)]
    /\ scenario \in Scenarios

\* The scheduler's idea of the running task and the masters' agree whatever ends the
\* task (a response, a timeout, the loss of the link): MContext::Run never refuses a
\* task, so the scheduler never waits for the end of a task that nobody runs.
SchedulerAgrees ==
    \A m \in Masters :
        /\ ~system.master[m].refused
        /\ system.master[m].activeTask = IF system.current.owner = m THEN system.current ELSE NoTask
        /\ system.master[m].activeTask = NoTask <=> system.master[m].tstate = "IDLE"

Occurrences(t) ==
    system.tasks[t] + (IF system.current = t THEN 1 ELSE 0)

\* No task is lost or scheduled twice: while its master is online a recurring task is
\* with the scheduler exactly once, a one-shot task is with it as long as, and only as
\* long as, its user has not been called back.
ScheduledOnce ==
    \A t \in Task :
        Occurrences(t) =
            IF ~IsRecurring(t) THEN system.owed[t]
            ELSE IF /\ system.master[t.owner].isOnline
                    /\ t.kind \in Configured \cup system.master[t.owner].boundTasks
                 THEN 1 ELSE 0

\* The assertion of Transmit: a master never hands its lower layer a request or a
\* confirm while the single transmit buffer is in use.
NeverOverlapped == \A m \in Masters : ~system.master[m].overlapped

\* A master that waits for a response has a timer that ends the wait.
ResponseWaitIsTimed ==
    \A m \in Masters :
        system.master[m].tstate = "WAIT_FOR_RESPONSE" => system.master[m].responseTimer # "none"

\* A late answer to a request that was given up is never taken for the answer to the
\* one sent since, as long as it is not late by a whole round of sequence numbers.
AnswersItsRequest ==
    \A m \in Masters : \A i \in DOMAIN answers[m] :
        /\ system.master[m].tstate = "WAIT_FOR_RESPONSE"
        /\ answers[m][i].seq = system.master[m].solSeq
        => answers[m][i].age = 0

\* A confirm that is due on this connection waits only for a transmission that is in
\* progress. Those left behind by an earlier connection wait for the first one.
ConfirmNotStranded ==
    \A m \in Masters :
        system.master[m].confirmQueue.new > 0 => system.master[m].isSending

\* Something wakes the scheduler for every task that can run: when no task is running
\* and one is enabled, a check is posted or the timer is set for it at the latest.
SchedulerWakes ==
    LET enabled == {t \in Scheduled(system) : ExpirationTime(system, t) # Never}
    IN  system.current = NoTask /\ enabled # {} =>
            system.posted \/ \E t \in enabled : system.taskTimer <= ExpirationTime(system, t)

\* A one-shot task that waits for its turn does not wait for longer than its start
\* timeout: the timer is set for it at the latest, or a check that sets it is posted.
StartIsTimed ==
    \A t \in Scheduled(system) : ~IsRecurring(t) =>
        system.posted \/ system.taskStartTimeout <= system.behavior[t].startExpiration

\* Every command is answered for: its callback comes, whatever the peer, the link and
\* the other tasks do.
CommandEnds ==
    \A t \in Task : t.kind \in {"select", "direct"} => (system.owed[t] > 0 ~> system.owed[t] = 0)
=============================================================================
