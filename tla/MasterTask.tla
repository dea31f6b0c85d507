----------------------------- MODULE MasterTask -----------------------------
(***************************************************************************)
(* The tasks of a master: what each kind of task is (the virtual methods   *)
(* of IMasterTask), when it is due (TaskBehavior) and what it makes of a    *)
(* response.                                                               *)
(*                                                                         *)
(* Times are distances from now: 0 has come, Never is the maximum          *)
(* timestamp or duration.                                                  *)
(***************************************************************************)
EXTENDS Integers, Sequences, FiniteSets

CONSTANTS
    Masters,             \* the masters that share a channel and its scheduler
    Configured,          \* the kinds of recurring tasks that a master sets up
    Off,                 \* <<master, kind>> of those of them whose IsEnabled() is false
    UserScans,           \* scans that users add
    AdhocKinds,          \* kinds of one-shot tasks that users submit
    ScanPeriod,          \* period of the user's scans
    taskRetryPeriod, maxTaskRetryPeriod, taskStartTimeout,   \* of MasterParams
    Never

\* The members of MasterTasks; some of them are optional.
AlwaysConfigured == {"clearRestart", "assignClass", "integrity", "eventScan"}

Startup == AlwaysConfigured \cup {"enableUnsol", "disableUnsol", "timeSync"}

\* Tasks that are executed once for the user
Adhoc == {"select", "direct", "adhocScan", "write", "restart"}

Kinds == Configured \cup UserScans \cup AdhocKinds

ASSUME TaskAssumption ==
    /\ AlwaysConfigured \subseteq Configured /\ Configured \subseteq Startup
    /\ UserScans \subseteq {"scan"} /\ AdhocKinds \subseteq Adhoc
    /\ Off \subseteq Masters \X {"assignClass", "integrity", "eventScan", "enableUnsol"}
    /\ Never \in Nat
    /\ {ScanPeriod, taskRetryPeriod, maxTaskRetryPeriod, taskStartTimeout} \subseteq 0..(Never - 1)

\* A task belongs to a master. One-shot tasks of a kind are told apart by time: there
\* is at most one of them alive.
Task == [owner : Masters, kind : Kinds]

NoTask == [owner |-> "none", kind |-> "none"]

ASSUME MasterAssumption == "none" \notin Masters

Priority(t) ==
    CASE t.kind \in {"select", "direct"} -> 100
      [] t.kind \in {"write", "restart"} -> 110
      [] t.kind = "clearRestart" -> 120
      [] t.kind = "disableUnsol" -> 130
      [] t.kind = "assignClass" -> 140
      [] t.kind = "integrity" -> 150
      [] t.kind = "timeSync" -> 160
      [] t.kind = "enableUnsol" -> 170
      [] t.kind = "eventScan" -> 180
      [] t.kind \in {"scan", "adhocScan"} -> 190

IsRecurring(t) == t.kind \notin Adhoc

IsEnabled(t) == <<t.owner, t.kind>> \notin Off

BlocksLowerPriority(t) == t.kind \in Startup

-----------------------------------------------------------------------------
(***************************************************************************)
(* TaskBehavior                                                            *)
(***************************************************************************)

Delay == 0..Never

Behavior == [expiration : Delay, currentRetryDelay : Delay, startExpiration : Delay]

\* ReactsToIINOnly, SingleImmediateExecutionWithRetry and ImmediatePeriodic, and
\* SingleExecutionNoRetry
InitialBehavior(kind) ==
    CASE kind \in {"clearRestart", "eventScan", "timeSync"} ->
            [expiration |-> Never, currentRetryDelay |-> Never, startExpiration |-> Never]
      [] kind \in Adhoc ->
            [expiration |-> 0, currentRetryDelay |-> Never, startExpiration |-> taskStartTimeout]
      [] OTHER ->
            [expiration |-> 0, currentRetryDelay |-> taskRetryPeriod, startExpiration |-> Never]

minRetryDelay(kind) == InitialBehavior(kind).currentRetryDelay

OnSuccess(b, kind) ==
    [b EXCEPT !.currentRetryDelay = minRetryDelay(kind),
              !.expiration = IF kind \in UserScans THEN ScanPeriod ELSE Never]

\* Kinds without retries have the maximum duration for both delays.
CalcNextRetryTimeout(b, kind) ==
    LET maxRetryDelay == IF minRetryDelay(kind) = Never THEN Never ELSE maxTaskRetryPeriod
    IN  IF 2 * b.currentRetryDelay > maxRetryDelay THEN maxRetryDelay ELSE 2 * b.currentRetryDelay

BehaviorTimedOut(b, kind) ==
    [b EXCEPT !.expiration = b.currentRetryDelay,
              !.currentRetryDelay = CalcNextRetryTimeout(b, kind)]

Reset(b, kind) == [b EXCEPT !.expiration = 0, !.currentRetryDelay = minRetryDelay(kind)]

Disable(b) == [b EXCEPT !.expiration = Never]

Completions == {"SUCCESS", "BAD_RESPONSE", "RESPONSE_TIMEOUT", "START_TIMEOUT",
                "MESSAGE_FORMAT_ERROR", "NO_COMMS"}

\* The switch of IMasterTask::CompleteTask
AfterCompletion(b, kind, result) ==
    CASE result = "NO_COMMS" -> Reset(b, kind)
      [] result = "RESPONSE_TIMEOUT" -> BehaviorTimedOut(b, kind)
      [] result = "SUCCESS" -> OnSuccess(b, kind)
      [] OTHER -> Disable(b)

-----------------------------------------------------------------------------
(***************************************************************************)
(* Responses. body says whether the objects and error indications are what *)
(* the task wants: "refused" is a well-formed answer to a SELECT whose     *)
(* status is not success.                                                  *)
(***************************************************************************)

IIN == {"restart", "overflow", "needTime", "events"}

Response == [fir : BOOLEAN, fin : BOOLEAN, con : BOOLEAN, body : {"good", "refused", "bad"},
             iin : SUBSET IIN]

Polls == {"integrity", "eventScan", "scan", "adhocScan"}

ValidateSingleResponse(r) == r.fir /\ r.fin

\* PollTaskBase: rx says whether a fragment was received since the request.
PollResponse(rx, r) ==
    IF r.fir = rx \/ r.body # "good" THEN "BAD"
    ELSE IF r.fin THEN "OK_FINAL" ELSE "OK_CONTINUE"

SelectResponse(r) ==
    CASE r.body = "good" -> "OK_REPEAT"
      [] r.body = "refused" -> "OK_FINAL"
      [] OTHER -> "BAD"

\* ProcessResponse of the tasks; requests counts those built since OnStart.
ProcessResponse(kind, requests, rx, r) ==
    IF kind \in Polls THEN PollResponse(rx, r)
    ELSE IF ~ValidateSingleResponse(r) THEN "BAD"
    ELSE CASE kind = "select" /\ requests = 1 -> SelectResponse(r)
           [] kind \in {"select", "direct"} -> IF r.body = "bad" THEN "BAD" ELSE "OK_FINAL"
           [] kind = "clearRestart" -> IF "restart" \in r.iin THEN "BAD" ELSE "OK_FINAL"
           [] kind = "timeSync" /\ requests = 1 -> IF r.body = "good" THEN "OK_REPEAT" ELSE "BAD"
           [] OTHER -> IF r.body = "good" THEN "OK_FINAL" ELSE "BAD"
=============================================================================
