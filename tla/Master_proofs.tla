---------------------------- MODULE Master_proofs ----------------------------
(***************************************************************************)
(* What the masters of a channel and their scheduler agree on, whatever    *)
(* tasks there are, whatever the peers answer, however late, and whenever  *)
(* links come and go.  The invariant is a conjunction of three kinds of     *)
(* facts: Base, of the whole system, and Local, of one master, which hold   *)
(* again when a handler is done with it, and Wakes and Starts, which a      *)
(* handler keeps because it posts a check of the scheduler or leaves the    *)
(* schedule alone.  Effect lemmas say what an operator returns.            *)
(***************************************************************************)
EXTENDS Master, TLAPS, WellFoundedInduction

-----------------------------------------------------------------------------
(***************************************************************************)
(* The inductive invariant.                                                *)
(***************************************************************************)

Held(s, t) == s.tasks[t] + (IF s.current = t THEN 1 ELSE 0)

\* How often the scheduler holds a task when its master is between handlers.
Due(s, t) ==
    IF ~IsRecurring(t) THEN s.owed[t]
    ELSE IF /\ s.master[t.owner].isOnline
            /\ t.kind \in Configured \cup s.master[t.owner].boundTasks
         THEN 1 ELSE 0

\* The master and the scheduler name the same running task.
Agree(s) ==
    \A m \in Masters :
        s.master[m].activeTask = IF s.current.owner = m THEN s.current ELSE NoTask

Accounted(s) ==
    \A t \in Task :
        /\ Held(s, t) = Due(s, t)
        /\ s.owed[t] \in 0..1
        /\ Held(s, t) > 0 => s.master[t.owner].isOnline
        /\ ~IsRecurring(t) => s.behavior[t].expiration = 0

\* A scheduler that is shut down has no masters and no tasks.
Quiet(s) ==
    s.isShutdown => /\ \A m \in Masters : ~s.master[m].isOnline
                    /\ \A t \in Task : s.tasks[t] = 0
                    /\ s.current = NoTask

Blameless(s) == \A m \in Masters : ~s.master[m].refused /\ ~s.master[m].overlapped

Base(s) == s \in System /\ Agree(s) /\ Accounted(s) /\ Quiet(s) /\ Blameless(s)

\* Of one master
Busy(c) == c.activeTask = NoTask <=> c.tstate = "IDLE"
Timed(c) == c.tstate = "WAIT_FOR_RESPONSE" => c.responseTimer # "none"
Unstranded(c) == c.confirmQueue.new > 0 => c.isSending
Local(c) == Busy(c) /\ Timed(c) /\ Unstranded(c)

\* A pending check is on the strand.
Pending(s) == s.taskCheckPending /\ ~s.isShutdown => s.posted

Runnable(s) == {t \in Scheduled(s) : ExpirationTime(s, t) # Never}

Wakes(s) ==
    s.current = NoTask /\ Runnable(s) # {} =>
        s.posted \/ \E t \in Runnable(s) : s.taskTimer <= ExpirationTime(s, t)

Starts(s) ==
    \A t \in Scheduled(s) : ~IsRecurring(t) =>
        s.posted \/ s.taskStartTimeout <= s.behavior[t].startExpiration

\* Of the answers q in transit to a master c: they are as late as their numbers say.
Dated(c, a) == a.seq + a.age \in {c.solSeq, c.solSeq + SeqModulus}

Flight(c, q) ==
    /\ q \in Seq(Answer)
    /\ q # <<>> => c.isOnline
    /\ \A i \in 1..Len(q) : Dated(c, q[i])
    /\ \A i, j \in 1..Len(q) : i < j => q[i].age > q[j].age

SInv(s) == Base(s) /\ (\A m \in Masters : Local(s.master[m])) /\ Pending(s) /\ Wakes(s) /\ Starts(s)

IInv ==
    /\ SInv(system)
    /\ answers \in [Masters -> Seq(Answer)]
    /\ \A m \in Masters : Flight(system.master[m], answers[m])
    /\ scenario \in Scenarios

-----------------------------------------------------------------------------
(***************************************************************************)
(* Tasks.                                                                  *)
(***************************************************************************)

\* NoTask is not a task, and a task has the members of one.
LEMMA TaskFacts ==
    /\ NoTask \notin Task /\ NoTask.owner \notin Masters
    /\ \A t \in Task : t.owner \in Masters /\ t.kind \in Kinds
  BY MasterAssumption DEF Task, NoTask

\* The configured delays.
LEMMA DelayFacts ==
    /\ Never \in Nat \ {0} /\ 0 \in Delay /\ Never \in Delay
    /\ \A d \in {ScanPeriod, taskRetryPeriod, maxTaskRetryPeriod, taskStartTimeout} : d \in Delay
    /\ \A d \in Delay : d \in Nat /\ d <= Never
  BY TaskAssumption DEF Delay

\* A task begins with a behavior, one that is executed once with one that is due.
LEMMA InitialBehaviorType ==
    ASSUME NEW kind
    PROVE  /\ InitialBehavior(kind) \in Behavior
           /\ kind \in Adhoc => InitialBehavior(kind).expiration = 0
  <1>1. "clearRestart" \notin Adhoc /\ "eventScan" \notin Adhoc /\ "timeSync" \notin Adhoc
    BY DEF Adhoc
  <1>2. CASE kind \in {"clearRestart", "eventScan", "timeSync"}
    <2>1. InitialBehavior(kind) = [expiration |-> Never, currentRetryDelay |-> Never,
                                   startExpiration |-> Never]
      BY <1>1, <1>2 DEF InitialBehavior
    <2> QED
      BY <1>1, <1>2, <2>1, DelayFacts DEF Behavior
  <1>3. CASE kind \notin {"clearRestart", "eventScan", "timeSync"} /\ kind \in Adhoc
    <2>1. InitialBehavior(kind) = [expiration |-> 0, currentRetryDelay |-> Never,
                                   startExpiration |-> taskStartTimeout]
      BY <1>3 DEF InitialBehavior
    <2> QED
      BY <2>1, DelayFacts DEF Behavior
  <1>4. CASE kind \notin {"clearRestart", "eventScan", "timeSync"} /\ kind \notin Adhoc
    <2>1. InitialBehavior(kind) = [expiration |-> 0, currentRetryDelay |-> taskRetryPeriod,
                                   startExpiration |-> Never]
      BY <1>4 DEF InitialBehavior
    <2> QED
      BY <1>4, <2>1, DelayFacts DEF Behavior
  <1> QED
    BY <1>2, <1>3, <1>4

\* The retry delay stays within the delays.
LEMMA NextRetryType ==
    ASSUME NEW b \in Behavior, NEW kind
    PROVE  CalcNextRetryTimeout(b, kind) \in Delay
  <1> DEFINE x == IF minRetryDelay(kind) = Never THEN Never ELSE maxTaskRetryPeriod
  <1>1. x \in Delay /\ x \in Nat /\ x <= Never
    BY DelayFacts
  <1>2. b.currentRetryDelay \in Nat
    BY DelayFacts DEF Behavior
  <1>3. CalcNextRetryTimeout(b, kind) =
            IF 2 * b.currentRetryDelay > x THEN x ELSE 2 * b.currentRetryDelay
    BY DEF CalcNextRetryTimeout
  <1> HIDE DEF x
  <1>4. CASE 2 * b.currentRetryDelay > x
    BY <1>1, <1>3, <1>4
  <1>5. CASE ~(2 * b.currentRetryDelay > x)
    <2>1. 2 * b.currentRetryDelay \in Nat /\ 2 * b.currentRetryDelay <= Never
      BY <1>1, <1>2, <1>5, DelayFacts
    <2> QED
      BY <1>3, <1>5, <2>1, DelayFacts DEF Delay
  <1> QED
    BY <1>4, <1>5

\* SetMinExpiration makes a behavior that is due.
LEMMA ResetType ==
    ASSUME NEW b \in Behavior, NEW kind
    PROVE  Reset(b, kind) \in Behavior /\ Reset(b, kind).expiration = 0
  <1>1. minRetryDelay(kind) \in Delay
    BY InitialBehaviorType DEF minRetryDelay, Behavior
  <1> QED
    BY <1>1, DelayFacts DEF Reset, Behavior

\* Whatever the result, a task has a behavior afterwards.
LEMMA AfterCompletionType ==
    ASSUME NEW b \in Behavior, NEW kind, NEW result
    PROVE  AfterCompletion(b, kind, result) \in Behavior
  <1>1. minRetryDelay(kind) \in Delay /\ CalcNextRetryTimeout(b, kind) \in Delay
    BY InitialBehaviorType, NextRetryType DEF minRetryDelay, Behavior
  <1>2. Reset(b, kind) \in Behavior
    BY ResetType
  <1>3. BehaviorTimedOut(b, kind) \in Behavior
    BY <1>1 DEF BehaviorTimedOut, Behavior
  <1>4. OnSuccess(b, kind) \in Behavior
    <2>1. (IF kind \in UserScans THEN ScanPeriod ELSE Never) \in Delay
      BY DelayFacts
    <2> QED
      BY <1>1, <2>1 DEF OnSuccess, Behavior
  <1>5. Disable(b) \in Behavior
    BY DelayFacts DEF Disable, Behavior
  <1> QED
    BY <1>2, <1>3, <1>4, <1>5 DEF AfterCompletion

-----------------------------------------------------------------------------
(***************************************************************************)
(* One master.  Private says that a step concerns one master only, and     *)
(* nothing of it that the scheduler relies on.                             *)
(***************************************************************************)

\* All but the masters
SameRest(s, r) ==
    /\ r.behavior = s.behavior /\ r.blocking = s.blocking /\ r.owed = s.owed
    /\ r.tasks = s.tasks /\ r.current = s.current /\ r.isShutdown = s.isShutdown
    /\ r.taskCheckPending = s.taskCheckPending /\ r.posted = s.posted
    /\ r.taskTimer = s.taskTimer /\ r.taskStartTimeout = s.taskStartTimeout

OthersSame(s, r, m) == \A n \in Masters : n # m => r.master[n] = s.master[n]

SameBonds(c, d) ==
    /\ d.isOnline = c.isOnline /\ d.boundTasks = c.boundTasks /\ d.activeTask = c.activeTask
    /\ d.refused = c.refused /\ d.overlapped = c.overlapped

Private(s, r, m) ==
    r \in System /\ SameRest(s, r) /\ OthersSame(s, r, m) /\ SameBonds(s.master[m], r.master[m])

Put(s, m, d) == [s EXCEPT !.master = [s.master EXCEPT ![m] = d]]

\* A master is replaced.
LEMMA PutEffect ==
    ASSUME NEW s \in System, NEW m \in Masters, NEW d \in Context
    PROVE  LET r == Put(s, m, d)
           IN  r \in System /\ SameRest(s, r) /\ OthersSame(s, r, m) /\ r.master[m] = d
  <1> DEFINE x == [s.master EXCEPT ![m] = d]
  <1>1. s.master \in [Masters -> Context]
    BY DEF System
  <1>2. /\ x \in [Masters -> Context] /\ x[m] = d
        /\ \A n \in Masters : n # m => x[n] = s.master[n]
    BY <1>1
  <1>3. Put(s, m, d) = [s EXCEPT !.master = x]
    BY DEF Put
  <1> HIDE DEF x
  <1>4. LET r == [s EXCEPT !.master = x]
        IN  r \in System /\ SameRest(s, r) /\ r.master = x
    BY <1>2 DEF System, SameRest
  <1> QED
    BY <1>2, <1>3, <1>4 DEF OthersSame

\* The members of a master have their types.
LEMMA ContextFacts ==
    ASSUME NEW s \in System, NEW m \in Masters
    PROVE  s.master[m] \in Context
  BY DEF System

\* Transmit hands something to the lower layer.
LEMMA TransmitEffect ==
    ASSUME NEW s \in System, NEW m \in Masters, ~s.master[m].isSending
    PROVE  LET r == Transmit(s, m)
           IN  /\ Private(s, r, m)
               /\ r.master[m] = [s.master[m] EXCEPT !.isSending = TRUE]
  <1> DEFINE c == s.master[m]
             d == [c EXCEPT !.isSending = TRUE, !.overlapped = @ \/ c.isSending]
  <1>1. c \in Context
    BY ContextFacts
  <1>2. d = [c EXCEPT !.isSending = TRUE] /\ d \in Context /\ SameBonds(c, d)
    BY <1>1 DEF Context, SameBonds
  <1>3. Transmit(s, m) = Put(s, m, d)
    BY DEF Transmit, Put, System
  <1> HIDE DEF d
  <1> QED
    BY <1>2, <1>3, PutEffect DEF Private

\* One private step after another is a private step.
LEMMA PrivateTrans ==
    ASSUME NEW s, NEW r, NEW q, NEW m \in Masters, Private(s, r, m), Private(r, q, m)
    PROVE  Private(s, q, m)
  BY DEF Private, SameRest, OthersSame, SameBonds

\* A private step keeps what the masters and the scheduler agree on.
LEMMA PrivateBase ==
    ASSUME NEW s, Base(s), NEW m \in Masters, NEW r, Private(s, r, m)
    PROVE  Base(r)
  <1>1. \A n \in Masters : SameBonds(s.master[n], r.master[n])
    BY DEF Private, OthersSame, SameBonds
  <1>2. r \in System /\ SameRest(s, r)
    BY DEF Private
  <1>3. Agree(r)
    BY <1>1, <1>2 DEF Base, Agree, SameRest, SameBonds
  <1>4. \A t \in Task : Held(r, t) = Held(s, t) /\ Due(r, t) = Due(s, t)
    BY <1>1, <1>2, TaskFacts DEF Held, Due, SameRest, SameBonds
  <1>5. Accounted(r)
    BY <1>1, <1>2, <1>4, TaskFacts DEF Base, Accounted, SameRest, SameBonds
  <1>6. Quiet(r)
    BY <1>1, <1>2 DEF Base, Quiet, SameRest, SameBonds
  <1>7. Blameless(r)
    BY <1>1 DEF Base, Blameless, SameBonds
  <1> QED
    BY <1>2, <1>3, <1>5, <1>6, <1>7 DEF Base

\* What is left alone by the operators that deal with confirms
SameTask(c, d) ==
    d.tstate = c.tstate /\ d.solSeq = c.solSeq /\ d.responseTimer = c.responseTimer

\* The front of the queue is sent if nothing else is.
LEMMA CheckConfirmEffect ==
    ASSUME NEW s \in System, NEW m \in Masters
    PROVE  LET r == CheckConfirmTransmit(s, m)
           IN  /\ Private(s, r, m) /\ SameTask(s.master[m], r.master[m])
               /\ Unstranded(r.master[m])
  <1> DEFINE c == s.master[m]
             q == c.confirmQueue
  <1>1. c \in Context /\ q.old \in Nat /\ q.new \in Nat
    BY ContextFacts DEF Context
  <1>2. CASE c.isSending \/ q.old + q.new = 0
    <2>1. CheckConfirmTransmit(s, m) = s
      BY <1>2 DEF CheckConfirmTransmit
    <2>2. Private(s, s, m) /\ SameTask(c, c)
      BY DEF Private, SameRest, OthersSame, SameBonds, SameTask
    <2>3. Unstranded(c)
      BY <1>1, <1>2 DEF Unstranded
    <2> QED
      BY <2>1, <2>2, <2>3
  <1>3. CASE ~(c.isSending \/ q.old + q.new = 0)
    <2> DEFINE u == Transmit(s, m)
               p == IF q.old > 0 THEN [q EXCEPT !.old = @ - 1] ELSE [q EXCEPT !.new = @ - 1]
               d == [u.master[m] EXCEPT !.confirmQueue = p]
    <2>1. p \in [old : Nat, new : Nat]
      <3>1. q \in [old : Nat, new : Nat]
        BY <1>1 DEF Context
      <3>2. CASE q.old > 0
        BY <3>1, <3>2
      <3>3. CASE ~(q.old > 0)
        BY <1>1, <1>3, <3>1, <3>3
      <3> QED
        BY <3>2, <3>3
    <2>2. Private(s, u, m) /\ u.master[m] = [c EXCEPT !.isSending = TRUE]
      BY <1>3, TransmitEffect
    <2>3. u \in System
      BY <2>2 DEF Private
    <2>4. CheckConfirmTransmit(s, m) = Put(u, m, d)
      BY <1>3, <2>3 DEF CheckConfirmTransmit, Put, System
    <2> HIDE DEF u, p
    <2>5. d \in Context /\ SameBonds(u.master[m], d) /\ SameTask(c, d) /\ d.isSending
      BY <1>1, <2>1, <2>2 DEF Context, SameBonds, SameTask
    <2> HIDE DEF d
    <2>6. /\ Private(u, Put(u, m, d), m)
          /\ SameTask(c, Put(u, m, d).master[m]) /\ Put(u, m, d).master[m].isSending
      BY <2>3, <2>5, PutEffect DEF Private
    <2> QED
      BY <2>2, <2>4, <2>6, PrivateTrans DEF Unstranded
  <1> QED
    BY <1>2, <1>3

\* A confirm is queued, and sent at once if nothing else is.
LEMMA QueueConfirmEffect ==
    ASSUME NEW s \in System, NEW m \in Masters
    PROVE  LET r == QueueConfirm(s, m)
           IN  /\ Private(s, r, m) /\ SameTask(s.master[m], r.master[m])
               /\ Unstranded(r.master[m])
  <1> DEFINE c == s.master[m]
             p == [c.confirmQueue EXCEPT !.new = @ + 1]
             d == [c EXCEPT !.confirmQueue = p]
             x == Put(s, m, d)
  <1>1. c \in Context /\ p \in [old : Nat, new : Nat]
    BY ContextFacts DEF Context
  <1>2. [s EXCEPT !.master[m].confirmQueue.new = @ + 1] = x
    BY DEF Put, System
  <1> HIDE DEF p
  <1>3. d \in Context /\ SameBonds(c, d) /\ SameTask(c, d)
    BY <1>1 DEF Context, SameBonds, SameTask
  <1> HIDE DEF d
  <1>4. x \in System /\ Private(s, x, m) /\ SameTask(c, x.master[m])
    BY <1>3, PutEffect DEF Private
  <1> HIDE DEF x
  <1>5. LET r == CheckConfirmTransmit(x, m)
        IN  /\ Private(x, r, m) /\ SameTask(x.master[m], r.master[m])
            /\ Unstranded(r.master[m])
    BY <1>4, CheckConfirmEffect
  <1>6. QueueConfirm(s, m) = CheckConfirmTransmit(x, m)
    BY <1>2 DEF QueueConfirm
  <1> QED
    BY <1>4, <1>5, <1>6, PrivateTrans DEF SameTask

\* What is left alone by the operators that deal with the response timer
SameSending(c, d) == d.isSending = c.isSending /\ d.confirmQueue = c.confirmQueue

\* The timer runs, or has run.
LEMMA StartResponseTimerEffect ==
    ASSUME NEW s \in System, NEW m \in Masters
    PROVE  LET r == StartResponseTimer(s, m)
           IN  /\ Private(s, r, m) /\ SameSending(s.master[m], r.master[m])
               /\ r.master[m].tstate = s.master[m].tstate
               /\ r.master[m].solSeq = s.master[m].solSeq
               /\ r.master[m].responseTimer # "none"
  <1> DEFINE c == s.master[m]
             x == IF c.responseTimer = "none" THEN "running" ELSE c.responseTimer
             d == [c EXCEPT !.responseTimer = x]
  <1>1. c \in Context /\ x \in TimerStates /\ x # "none"
    BY ContextFacts DEF Context, TimerStates
  <1>2. StartResponseTimer(s, m) = Put(s, m, d)
    BY DEF StartResponseTimer, Put, System
  <1> HIDE DEF x
  <1>3. /\ d \in Context /\ SameBonds(c, d) /\ SameSending(c, d) /\ d.tstate = c.tstate
        /\ d.solSeq = c.solSeq /\ d.responseTimer # "none"
    BY <1>1 DEF Context, SameBonds, SameSending
  <1> HIDE DEF d
  <1> QED
    BY <1>2, <1>3, PutEffect DEF Private

\* The timer is dropped.
LEMMA CancelResponseTimerEffect ==
    ASSUME NEW s \in System, NEW m \in Masters
    PROVE  LET r == CancelResponseTimer(s, m)
           IN  /\ Private(s, r, m) /\ SameSending(s.master[m], r.master[m])
               /\ r.master[m].tstate = s.master[m].tstate
               /\ r.master[m].solSeq = s.master[m].solSeq
  <1> DEFINE c == s.master[m]
             k == IF c.responseTimer = "expired" THEN c.orphans + 1 ELSE c.orphans
             d == [c EXCEPT !.responseTimer = "none", !.orphans = k]
  <1>1. c \in Context /\ k \in Nat
    BY ContextFacts DEF Context
  <1>2. CancelResponseTimer(s, m) = Put(s, m, d)
    BY DEF CancelResponseTimer, Put, System
  <1> HIDE DEF k
  <1>3. /\ d \in Context /\ SameBonds(c, d) /\ SameSending(c, d) /\ d.tstate = c.tstate
        /\ d.solSeq = c.solSeq
    BY <1>1 DEF Context, SameBonds, SameSending, TimerStates
  <1> HIDE DEF d
  <1> QED
    BY <1>2, <1>3, PutEffect DEF Private

\* The next sequence number
LEMMA NextSeqEffect ==
    ASSUME NEW s \in System, NEW m \in Masters
    PROVE  LET r == NextSeq(s, m)
           IN  /\ Private(s, r, m) /\ SameSending(s.master[m], r.master[m])
               /\ r.master[m].tstate = s.master[m].tstate
               /\ r.master[m].responseTimer = s.master[m].responseTimer
               /\ r.master[m].solSeq = (s.master[m].solSeq + 1) % SeqModulus
  <1> DEFINE c == s.master[m]
             n == (c.solSeq + 1) % SeqModulus
             d == [c EXCEPT !.solSeq = n]
  <1>1. c \in Context /\ n \in 0..(SeqModulus - 1)
    BY ContextFacts, SchedulerAssumption DEF Context
  <1>2. NextSeq(s, m) = Put(s, m, d)
    BY DEF NextSeq, Put, System
  <1> HIDE DEF n
  <1>3. /\ d \in Context /\ SameBonds(c, d) /\ SameSending(c, d) /\ d.tstate = c.tstate
        /\ d.responseTimer = c.responseTimer /\ d.solSeq = n
    BY <1>1 DEF Context, SameBonds, SameSending
  <1> HIDE DEF d
  <1>4. LET r == Put(s, m, d)
        IN  /\ Private(s, r, m) /\ SameSending(s.master[m], r.master[m])
            /\ r.master[m].tstate = s.master[m].tstate
            /\ r.master[m].responseTimer = s.master[m].responseTimer
            /\ r.master[m].solSeq = n
    BY <1>3, PutEffect DEF Private
  <1> QED
    BY <1>2, <1>4 DEF n

-----------------------------------------------------------------------------
(***************************************************************************)
(* The scheduler.  Woken says that a step posts a check or leaves alone    *)
(* what the checks and the timers of the scheduler are for.                *)
(***************************************************************************)

SameSchedule(s, r) ==
    /\ r.behavior = s.behavior /\ r.tasks = s.tasks /\ r.current = s.current
    /\ r.isShutdown = s.isShutdown /\ r.posted = s.posted
    /\ r.taskTimer = s.taskTimer /\ r.taskStartTimeout = s.taskStartTimeout

Woken(s, r) == Pending(s) => Pending(r) /\ (r.posted \/ SameSchedule(s, r))

LEMMA WokenTrans ==
    ASSUME NEW s, NEW r, NEW q, Woken(s, r), Woken(r, q)
    PROVE  Woken(s, q)
  BY DEF Woken, SameSchedule

\* A private step is no matter for the scheduler.
LEMMA PrivateWoken ==
    ASSUME NEW s, NEW r, NEW m, Private(s, r, m)
    PROVE  Woken(s, r)
  BY DEF Private, SameRest, Woken, SameSchedule, Pending

\* A woken scheduler looks at every task in time.
LEMMA WokenKeeps ==
    ASSUME NEW s, NEW r, Woken(s, r), Pending(s), Wakes(s), Starts(s)
    PROVE  Pending(r) /\ Wakes(r) /\ Starts(r)
  <1>1. Pending(r) /\ (r.posted \/ SameSchedule(s, r))
    BY DEF Woken
  <1>2. CASE r.posted
    BY <1>1, <1>2 DEF Wakes, Starts
  <1>3. CASE SameSchedule(s, r)
    <2>1. Scheduled(r) = Scheduled(s) /\ Runnable(r) = Runnable(s)
      BY <1>3 DEF SameSchedule, Scheduled, Runnable, ExpirationTime
    <2> QED
      BY <1>1, <1>3, <2>1 DEF SameSchedule, Wakes, Starts, ExpirationTime
  <1> QED
    BY <1>1, <1>2, <1>3

\* All that the masters and the scheduler have to agree on
SameCore(s, r) ==
    /\ r.master = s.master /\ r.behavior = s.behavior /\ r.owed = s.owed
    /\ r.tasks = s.tasks /\ r.current = s.current /\ r.isShutdown = s.isShutdown

\* All but the check that is posted
SameButPosted(s, r) ==
    /\ SameCore(s, r)
    /\ r.taskTimer = s.taskTimer /\ r.taskStartTimeout = s.taskStartTimeout

\* A check is on the strand afterwards.
LEMMA PostEffect ==
    ASSUME NEW s \in System
    PROVE  LET r == PostCheckForTaskRun(s)
           IN  /\ r \in System /\ SameButPosted(s, r)
               /\ Pending(s) => Pending(r)
               /\ Pending(s) /\ ~s.isShutdown => r.posted
  BY DEF PostCheckForTaskRun, System, SameButPosted, SameCore, Pending

\* A step that posts a check or sets a timer keeps what they agree on.
LEMMA CoreBase ==
    ASSUME NEW s, Base(s), NEW r \in System, SameCore(s, r)
    PROVE  Base(r)
  BY DEF Base, SameCore, Agree, Accounted, Held, Due, Quiet, Blameless

\* What a completed task, and one that is not, becomes.
LEMMA CompletedTask ==
    ASSUME NEW s \in System, NEW T \in SUBSET Task, NEW result, NEW t \in T
    PROVE  LET r == CompleteAll(s, T, result)
           IN  /\ r.owed[t] = IF IsRecurring(t) THEN s.owed[t] ELSE s.owed[t] - 1
               /\ ~IsRecurring(t) => r.behavior[t] = InitialBehavior(t.kind)
  BY DEF CompleteAll, System

LEMMA OtherTask ==
    ASSUME NEW s \in System, NEW T \in SUBSET Task, NEW result, NEW t \in Task, t \notin T
    PROVE  LET r == CompleteAll(s, T, result)
           IN  r.behavior[t] = s.behavior[t] /\ r.owed[t] = s.owed[t]
  BY DEF CompleteAll, System

\* All but the tasks' behavior and what the users are owed
SameButCompleted(s, r) ==
    /\ r.master = s.master /\ r.tasks = s.tasks /\ r.current = s.current
    /\ r.isShutdown = s.isShutdown /\ r.taskCheckPending = s.taskCheckPending
    /\ r.posted = s.posted /\ r.taskTimer = s.taskTimer
    /\ r.taskStartTimeout = s.taskStartTimeout

\* Tasks are completed.
LEMMA CompleteAllEffect ==
    ASSUME NEW s \in System, NEW T \in SUBSET Task, NEW result
    PROVE  LET r == CompleteAll(s, T, result)
           IN  r \in System /\ SameButCompleted(s, r)
  <1> DEFINE After(t) ==
                IF t \notin T THEN s.behavior[t]
                ELSE IF IsRecurring(t) THEN AfterCompletion(s.behavior[t], t.kind, result)
                ELSE InitialBehavior(t.kind)
             b == [t \in Task |-> After(t)]
             k == CASE result = "NO_COMMS" -> s.blocking
                    [] result = "SUCCESS" -> s.blocking \ T
                    [] OTHER -> s.blocking \cup {t \in T : BlocksLowerPriority(t)}
             o == [t \in Task |-> IF t \in T /\ ~IsRecurring(t) THEN s.owed[t] - 1 ELSE s.owed[t]]
             r == [s EXCEPT !.behavior = b, !.blocking = k, !.owed = o]
  <1>1. s.behavior \in [Task -> Behavior] /\ s.blocking \in SUBSET Task /\ s.owed \in [Task -> Int]
    BY DEF System
  <1>2. \A t \in Task : After(t) \in Behavior
    BY <1>1, AfterCompletionType, InitialBehaviorType
  <1>3. b \in [Task -> Behavior]
    BY <1>2
  <1>4. k \in SUBSET Task
    BY <1>1
  <1>5. o \in [Task -> Int]
    BY <1>1
  <1>6. CompleteAll(s, T, result) = r
    BY DEF CompleteAll
  <1> HIDE DEF b, k, o
  <1>7. r \in System /\ SameButCompleted(s, r)
    BY <1>3, <1>4, <1>5 DEF System, SameButCompleted
  <1> HIDE DEF r
  <1> QED
    BY <1>6, <1>7

\* Tasks are scheduled.
LEMMA AddAllEffect ==
    ASSUME NEW s \in System, NEW T \in SUBSET Task, T # {}, ~s.isShutdown
    PROVE  LET r == AddAll(s, T)
           IN  /\ r \in System
               /\ r.master = s.master /\ r.behavior = s.behavior /\ r.owed = s.owed
               /\ r.current = s.current /\ r.isShutdown = s.isShutdown
               /\ \A t \in Task : r.tasks[t] = s.tasks[t] + (IF t \in T THEN 1 ELSE 0)
               /\ Pending(s) => Pending(r) /\ r.posted
  <1> DEFINE v == [t \in Task |-> IF t \in T THEN s.tasks[t] + 1 ELSE s.tasks[t]]
             x == [s EXCEPT !.tasks = v]
  <1>1. s.tasks \in [Task -> Nat]
    BY DEF System
  <1>2. v \in [Task -> Nat] /\ \A t \in Task : v[t] = s.tasks[t] + (IF t \in T THEN 1 ELSE 0)
    BY <1>1
  <1>3. AddAll(s, T) = PostCheckForTaskRun(x)
    BY DEF AddAll
  <1> HIDE DEF v
  <1>4. /\ x \in System /\ x.master = s.master /\ x.behavior = s.behavior /\ x.owed = s.owed
        /\ x.current = s.current /\ x.isShutdown = s.isShutdown /\ x.tasks = v
        /\ x.posted = s.posted /\ x.taskCheckPending = s.taskCheckPending
    BY <1>2 DEF System
  <1> HIDE DEF x
  <1>5. Pending(s) => Pending(x)
    BY <1>4 DEF Pending
  <1>6. LET r == PostCheckForTaskRun(x)
        IN  /\ r \in System /\ SameButPosted(x, r) /\ (Pending(x) => Pending(r))
            /\ Pending(x) /\ ~x.isShutdown => r.posted
    BY <1>4, PostEffect
  <1> QED
    BY <1>2, <1>3, <1>4, <1>5, <1>6 DEF SameButPosted, SameCore

-----------------------------------------------------------------------------
(***************************************************************************)
(* The end and the start of a task.                                        *)
(***************************************************************************)

\* The number of one-shot and recurring tasks
LEMMA HeldFacts ==
    ASSUME NEW s, Base(s), NEW t \in Task
    PROVE  /\ s.tasks[t] \in Nat /\ Held(s, t) \in 0..1
           /\ s.current = t => s.tasks[t] = 0
  <1>1. s.tasks[t] \in Nat
    BY DEF Base, System
  <1>2. Due(s, t) \in 0..1 /\ Held(s, t) = Due(s, t)
    BY DEF Base, Accounted, Due
  <1> QED
    BY <1>1, <1>2 DEF Held

\* The active task of a master is the one that the scheduler runs.
LEMMA ActiveFacts ==
    ASSUME NEW s, Base(s), NEW m \in Masters, s.master[m].activeTask # NoTask
    PROVE  LET t == s.master[m].activeTask
           IN  /\ t \in Task /\ t.owner = m /\ s.current = t /\ s.tasks[t] = 0
               /\ ~s.isShutdown /\ s.master[m].isOnline
               /\ Due(s, t) = 1 /\ (~IsRecurring(t) => s.owed[t] = 1)
  <1> DEFINE t == s.master[m].activeTask
  <1>1. s.current = t /\ t.owner = m
    BY DEF Base, Agree
  <1>2. t \in Task
    BY <1>1 DEF Base, System
  <1>3. s.tasks[t] = 0 /\ Held(s, t) = 1
    BY <1>1, <1>2, HeldFacts DEF Held
  <1>4. Due(s, t) = 1 /\ s.master[m].isOnline
    BY <1>1, <1>2, <1>3 DEF Base, Accounted
  <1>5. ~s.isShutdown
    BY <1>4 DEF Base, Quiet
  <1> QED
    BY <1>1, <1>2, <1>3, <1>4, <1>5 DEF Due

\* A master is idle, with nothing else changed.
LEMMA IdleEffect ==
    ASSUME NEW s \in System, NEW m \in Masters
    PROVE  LET r == [s EXCEPT !.master[m].tstate = "IDLE", !.master[m].requests = 0,
                              !.master[m].rx = FALSE]
           IN  /\ Private(s, r, m) /\ SameSending(s.master[m], r.master[m])
               /\ r.master[m].tstate = "IDLE"
               /\ r.master[m].solSeq = s.master[m].solSeq
  <1> DEFINE c == s.master[m]
             d == [c EXCEPT !.tstate = "IDLE", !.requests = 0, !.rx = FALSE]
  <1>1. c \in Context
    BY ContextFacts
  <1> DEFINE r == [s EXCEPT !.master[m].tstate = "IDLE", !.master[m].requests = 0,
                            !.master[m].rx = FALSE]
  <1>2. r = Put(s, m, d)
    BY DEF Put, System
  <1>3. /\ d \in Context /\ SameBonds(c, d) /\ SameSending(c, d) /\ d.tstate = "IDLE"
        /\ d.solSeq = c.solSeq
    BY <1>1 DEF Context, SameBonds, SameSending, TaskStates
  <1> HIDE DEF d, r
  <1>4. /\ Private(s, r, m) /\ SameSending(s.master[m], r.master[m])
        /\ r.master[m].tstate = "IDLE" /\ r.master[m].solSeq = s.master[m].solSeq
    BY <1>2, <1>3, PutEffect DEF Private
  <1> QED
    BY <1>4 DEF r

\* What a task that ends, or starts, does to the others: nothing that its own master's
\* link, sequence number or confirms would notice.
SameLink(c, d) ==
    /\ d.isOnline = c.isOnline /\ d.boundTasks = c.boundTasks
    /\ d.refused = c.refused /\ d.overlapped = c.overlapped
    /\ d.solSeq = c.solSeq

\* A task that ends is given back to the scheduler, or is complete.
LEMMA EndTaskEffect ==
    ASSUME NEW s, Base(s), NEW m \in Masters, NEW result, s.master[m].activeTask # NoTask
    PROVE  LET r == EndTask(s, m, result)
           IN  /\ Base(r) /\ OthersSame(s, r, m) /\ Woken(s, r)
               /\ SameLink(s.master[m], r.master[m]) /\ SameSending(s.master[m], r.master[m])
               /\ Busy(r.master[m]) /\ r.master[m].tstate = "IDLE"
  <1> DEFINE t == s.master[m].activeTask
             a == CompleteAll(s, {t}, result)
             d == [a.master[m] EXCEPT !.activeTask = NoTask]
             b == Put(a, m, d)
             k == IF IsRecurring(t) THEN AddAll(b, {t}) ELSE b
             p == [k EXCEPT !.current = NoTask]
             q == PostCheckForTaskRun(p)
             r == [q EXCEPT !.master[m].tstate = "IDLE", !.master[m].requests = 0,
                            !.master[m].rx = FALSE]
  <1>1. /\ t \in Task /\ t.owner = m /\ s.current = t /\ s.tasks[t] = 0
        /\ ~s.isShutdown /\ s.master[m].isOnline
        /\ Due(s, t) = 1 /\ (~IsRecurring(t) => s.owed[t] = 1)
    BY ActiveFacts
  <1>2. s \in System /\ s.master[m] \in Context
    BY ContextFacts DEF Base
  <1>3. /\ a \in System
        /\ a.master = s.master /\ a.tasks = s.tasks /\ a.current = s.current
        /\ a.isShutdown = s.isShutdown /\ a.taskCheckPending = s.taskCheckPending
        /\ a.posted = s.posted
        /\ \A u \in Task : u # t => a.behavior[u] = s.behavior[u] /\ a.owed[u] = s.owed[u]
        /\ ~IsRecurring(t) => a.behavior[t].expiration = 0 /\ a.owed[t] = s.owed[t] - 1
        /\ IsRecurring(t) => a.owed[t] = s.owed[t]
    <2> DEFINE T == {t}
    <2>1. T \in SUBSET Task /\ t \in T /\ \A u \in Task : u # t => u \notin T
      BY <1>1
    <2>2. a = CompleteAll(s, T, result)
      OBVIOUS
    <2> HIDE DEF T, t, a
    <2>3. a \in System /\ SameButCompleted(s, a)
      BY <1>2, <2>1, <2>2, CompleteAllEffect
    <2>4. \A u \in Task : u # t => a.behavior[u] = s.behavior[u] /\ a.owed[u] = s.owed[u]
      BY <1>2, <2>1, <2>2, OtherTask
    <2>5. /\ a.owed[t] = IF IsRecurring(t) THEN s.owed[t] ELSE s.owed[t] - 1
          /\ ~IsRecurring(t) => a.behavior[t] = InitialBehavior(t.kind)
      BY <1>2, <2>1, <2>2, CompletedTask
    <2>6. ~IsRecurring(t) => a.behavior[t].expiration = 0
      BY <2>5, InitialBehaviorType DEF IsRecurring
    <2> QED
      BY <2>3, <2>4, <2>5, <2>6 DEF SameButCompleted
  <1>4. EndTask(s, m, result) = r
    <2>1. CompleteTask(s, t, result) = a
      BY DEF CompleteTask
    <2>2. [a EXCEPT !.master[m].activeTask = NoTask] = b
      BY <1>3 DEF Put, System
    <2>3. b.current = t /\ Add(b, b.current) = AddAll(b, {t})
      BY <1>1, <1>3 DEF Put, System, Add
    <2> HIDE DEF a, b
    <2>4. CompleteCurrentFor(b, m) = q
      BY <1>1, <2>3 DEF CompleteCurrentFor
    <2>5. CompleteActiveTask(a, m) = CompleteCurrentFor(b, m)
      BY <1>3, <2>2 DEF CompleteActiveTask
    <2> HIDE DEF q
    <2> QED
      BY <2>1, <2>4, <2>5 DEF EndTask
  <1> HIDE DEF a
  <1>5. /\ b \in System /\ SameRest(a, b) /\ OthersSame(s, b, m)
        /\ b.master[m] = [s.master[m] EXCEPT !.activeTask = NoTask]
    <2>1. d \in Context /\ d = [s.master[m] EXCEPT !.activeTask = NoTask]
      BY <1>2, <1>3 DEF Context
    <2> HIDE DEF d
    <2> QED
      BY <1>3, <2>1, PutEffect DEF OthersSame
  <1> HIDE DEF b
  <1>6. /\ k \in System
        /\ k.master = b.master /\ k.behavior = b.behavior /\ k.owed = b.owed
        /\ k.isShutdown = b.isShutdown
        /\ \A u \in Task : k.tasks[u] = s.tasks[u] + (IF u = t /\ IsRecurring(t) THEN 1 ELSE 0)
        /\ Pending(b) => Pending(k)
    <2>1. ~b.isShutdown /\ b.tasks = s.tasks
      BY <1>1, <1>3, <1>5 DEF SameRest
    <2>2. CASE IsRecurring(t)
      <3>1. {t} \in SUBSET Task /\ {t} # {} /\ \A u : u \in {t} <=> u = t
        BY <1>1
      <3> QED
        BY <1>5, <2>1, <2>2, <3>1, AddAllEffect
    <2>3. CASE ~IsRecurring(t)
      <3>1. \A u \in Task : s.tasks[u] \in Nat
        BY <1>2 DEF System
      <3> QED
        BY <1>5, <2>1, <2>3, <3>1
    <2> QED
      BY <2>2, <2>3
  <1> HIDE DEF k
  <1>7. /\ p \in System /\ p.master = k.master /\ p.behavior = k.behavior /\ p.owed = k.owed
        /\ p.isShutdown = k.isShutdown /\ p.tasks = k.tasks /\ p.current = NoTask
        /\ Pending(k) => Pending(p)
    BY <1>6 DEF System, Pending
  <1> HIDE DEF p
  <1>8. /\ q \in System /\ SameButPosted(p, q)
        /\ Pending(p) => Pending(q)
        /\ Pending(p) /\ ~p.isShutdown => q.posted
    BY <1>7, PostEffect
  <1> HIDE DEF q
  <1>9. /\ Private(q, r, m) /\ SameSending(q.master[m], r.master[m])
        /\ r.master[m].tstate = "IDLE" /\ r.master[m].solSeq = q.master[m].solSeq
    BY <1>8, IdleEffect
  <1> HIDE DEF r
  <1>10. /\ q.master[m] = [s.master[m] EXCEPT !.activeTask = NoTask] /\ OthersSame(s, q, m)
    BY <1>5, <1>6, <1>7, <1>8 DEF SameButPosted, SameCore, OthersSame
  <1>11. /\ SameLink(s.master[m], r.master[m]) /\ SameSending(s.master[m], r.master[m])
         /\ r.master[m].activeTask = NoTask /\ Busy(r.master[m])
         /\ OthersSame(s, r, m)
    BY <1>2, <1>9, <1>10
    DEF Private, SameBonds, SameLink, SameSending, Busy, OthersSame, Context
  <1>12. /\ r \in System /\ r.current = NoTask /\ ~r.isShutdown
         /\ \A u \in Task : r.tasks[u] = s.tasks[u] + (IF u = t /\ IsRecurring(t) THEN 1 ELSE 0)
         /\ \A u \in Task : u # t => r.behavior[u] = s.behavior[u] /\ r.owed[u] = s.owed[u]
         /\ ~IsRecurring(t) => r.behavior[t].expiration = 0 /\ r.owed[t] = s.owed[t] - 1
         /\ IsRecurring(t) => r.owed[t] = s.owed[t]
    BY <1>1, <1>3, <1>5, <1>6, <1>7, <1>8, <1>9 DEF Private, SameRest, SameButPosted, SameCore
  <1>13. Woken(s, r)
    <2>1. Pending(s) => Pending(b)
      BY <1>3, <1>5 DEF Pending, SameRest
    <2>2. Pending(s) => Pending(q) /\ q.posted
      BY <1>1, <1>3, <1>5, <1>6, <1>7, <1>8, <2>1 DEF SameRest
    <2> QED
      BY <1>9, <2>2 DEF Woken, Pending, Private, SameRest
  <1>14. Agree(r)
    <2>1. \A n \in Masters : r.master[n].activeTask = NoTask
      BY <1>1, <1>11 DEF Base, Agree, OthersSame
    <2> QED
      BY <1>12, <2>1, TaskFacts DEF Agree
  <1>15. Accounted(r)
    <2> SUFFICES ASSUME NEW u \in Task
                 PROVE  /\ Held(r, u) = Due(r, u)
                        /\ r.owed[u] \in 0..1
                        /\ Held(r, u) > 0 => r.master[u.owner].isOnline
                        /\ ~IsRecurring(u) => r.behavior[u].expiration = 0
      BY DEF Accounted
    <2>1. /\ Held(s, u) = Due(s, u) /\ s.owed[u] \in 0..1
          /\ Held(s, u) > 0 => s.master[u.owner].isOnline
          /\ ~IsRecurring(u) => s.behavior[u].expiration = 0
          /\ s.tasks[u] \in Nat
      BY <1>2 DEF Base, Accounted, System
    <2>2. /\ r.master[u.owner].isOnline = s.master[u.owner].isOnline
          /\ r.master[u.owner].boundTasks = s.master[u.owner].boundTasks
      BY <1>11, TaskFacts DEF OthersSame, SameLink
    <2>3. u # NoTask
      BY TaskFacts
    <2>4. CASE u # t
      <3>1. Held(r, u) = Held(s, u)
        BY <1>1, <1>12, <2>1, <2>3, <2>4 DEF Held
      <3>2. Due(r, u) = Due(s, u)
        BY <1>12, <2>2, <2>4 DEF Due
      <3> QED
        BY <1>12, <2>1, <2>2, <2>4, <3>1, <3>2
    <2>5. CASE u = t /\ IsRecurring(t)
      <3>1. Held(r, u) = 1
        BY <1>1, <1>12, <2>3, <2>5 DEF Held
      <3>2. Due(r, u) = 1
        BY <1>1, <2>2, <2>5 DEF Due
      <3> QED
        BY <1>1, <1>12, <2>1, <2>2, <2>5, <3>1, <3>2
    <2>6. CASE u = t /\ ~IsRecurring(t)
      BY <1>1, <1>12, <2>3, <2>6 DEF Held, Due
    <2> QED
      BY <2>4, <2>5, <2>6
  <1>16. Quiet(r) /\ Blameless(r)
    BY <1>11, <1>12 DEF Base, Quiet, Blameless, OthersSame, SameLink
  <1> QED
    BY <1>4, <1>9, <1>11, <1>12, <1>13, <1>14, <1>15, <1>16 DEF Base

\* What a handler of master m does to the system; with SameLink it is known that the
\* sequence number is still the same.
Handled(s, r, m) ==
    /\ Base(r) /\ OthersSame(s, r, m) /\ Woken(s, r)
    /\ r.master[m].isOnline = s.master[m].isOnline

\* A handler that only concerns its master
LEMMA PrivateHandled ==
    ASSUME NEW s, Base(s), NEW m \in Masters, NEW r, Private(s, r, m)
    PROVE  Handled(s, r, m)
  BY PrivateBase, PrivateWoken DEF Handled, Private, SameBonds

\* One thing after another
LEMMA HandledTrans ==
    ASSUME NEW s, NEW r, NEW q, NEW m \in Masters, Handled(s, r, m), Handled(r, q, m)
    PROVE  Handled(s, q, m)
  BY WokenTrans DEF Handled, OthersSame

\* The request is sent and its answer waited for, or the task ends.
LEMMA ResumeEffect ==
    ASSUME NEW s, Base(s), NEW m \in Masters, NEW fits \in BOOLEAN,
           s.master[m].activeTask # NoTask, ~s.master[m].isSending
    PROVE  LET r == ResumeActiveTask(s, m, fits)
           IN  /\ Handled(s, r, m) /\ SameLink(s.master[m], r.master[m])
               /\ Busy(r.master[m]) /\ Timed(r.master[m])
               /\ Unstranded(s.master[m]) => Unstranded(r.master[m])
               /\ r.master[m].tstate # "TASK_READY"
  <1> DEFINE c == s.master[m]
  <1>1. CASE ~fits
    <2> DEFINE r == EndTask(s, m, "MESSAGE_FORMAT_ERROR")
    <2>1. ResumeActiveTask(s, m, fits) = r
      BY <1>1 DEF ResumeActiveTask
    <2>2. /\ Base(r) /\ OthersSame(s, r, m) /\ Woken(s, r)
          /\ SameLink(c, r.master[m]) /\ SameSending(c, r.master[m])
          /\ Busy(r.master[m]) /\ r.master[m].tstate = "IDLE"
      BY EndTaskEffect
    <2> HIDE DEF r
    <2> QED
      BY <2>1, <2>2 DEF Handled, SameLink, SameSending, Timed, Unstranded
  <1>2. CASE fits
    <2> DEFINE u == StartResponseTimer(s, m)
               v == Transmit(u, m)
               e == v.master[m]
               d == [e EXCEPT !.tstate = "WAIT_FOR_RESPONSE", !.requests = @ + 1, !.rx = FALSE]
               r == [v EXCEPT !.master[m].tstate = "WAIT_FOR_RESPONSE",
                              !.master[m].requests = @ + 1, !.master[m].rx = FALSE]
    <2>1. s \in System
      BY DEF Base
    <2>2. /\ Private(s, u, m) /\ SameSending(c, u.master[m])
          /\ u.master[m].solSeq = c.solSeq /\ u.master[m].responseTimer # "none"
      BY <2>1, StartResponseTimerEffect
    <2>3. u \in System /\ ~u.master[m].isSending /\ u.master[m] \in Context
      BY <2>2, ContextFacts DEF Private, SameSending
    <2>4. ResumeActiveTask(s, m, fits) = r
      BY <1>2 DEF ResumeActiveTask
    <2> HIDE DEF u
    <2>5. /\ Private(u, v, m) /\ v.master[m] = [u.master[m] EXCEPT !.isSending = TRUE]
      BY <2>3, TransmitEffect
    <2> HIDE DEF v
    <2>6. v \in System /\ e \in Context
      BY <2>5, ContextFacts DEF Private
    <2>7. r = Put(v, m, d)
      BY <2>6 DEF Put, System
    <2>8. /\ e.isSending /\ e.solSeq = c.solSeq /\ e.responseTimer # "none"
      BY <2>2, <2>3, <2>5 DEF Context
    <2>9. /\ d \in Context /\ SameBonds(e, d) /\ d.tstate = "WAIT_FOR_RESPONSE"
          /\ d.isSending /\ d.solSeq = c.solSeq /\ d.responseTimer # "none"
      <3> HIDE DEF e, c
      <3>1. e.requests + 1 \in Nat
        BY <2>6 DEF Context
      <3>2. d \in Context /\ d.tstate = "WAIT_FOR_RESPONSE"
        BY <2>6, <3>1 DEF Context, TaskStates
      <3>3. SameBonds(e, d) /\ SameSending(e, d) /\ d.solSeq = e.solSeq
            /\ d.responseTimer = e.responseTimer
        BY <2>6 DEF Context, SameBonds, SameSending
      <3> QED
        BY <2>8, <3>2, <3>3 DEF SameSending
    <2> HIDE DEF d, r
    <2>10. Private(v, r, m) /\ r.master[m] = d
      BY <2>6, <2>7, <2>9, PutEffect DEF Private
    <2>11. Private(s, r, m)
      BY <2>2, <2>5, <2>10, PrivateTrans
    <2>12. Handled(s, r, m)
      BY <2>11, PrivateHandled
    <2>13. SameLink(c, r.master[m]) /\ r.master[m].activeTask # NoTask
      BY <2>9, <2>10, <2>11 DEF Private, SameBonds, SameLink
    <2> QED
      BY <2>4, <2>9, <2>10, <2>12, <2>13 DEF Busy, Timed, Unstranded
  <1> QED
    BY <1>1, <1>2

\* The task starts, or waits for the end of a transmission.
LEMMA StartTaskEffect ==
    ASSUME NEW s, Base(s), NEW m \in Masters, NEW fits \in BOOLEAN,
           s.master[m].activeTask # NoTask
    PROVE  LET r == StartTask_TaskReady(s, m, fits)
           IN  /\ Handled(s, r, m) /\ SameLink(s.master[m], r.master[m])
               /\ Busy(r.master[m]) /\ Timed(r.master[m])
               /\ Unstranded(s.master[m]) => Unstranded(r.master[m])
  <1> DEFINE c == s.master[m]
  <1>1. CASE c.isSending
    <2> DEFINE d == [c EXCEPT !.tstate = "TASK_READY"]
               r == Put(s, m, d)
    <2>1. s \in System /\ c \in Context
      BY ContextFacts DEF Base
    <2>2. StartTask_TaskReady(s, m, fits) = r
      BY <1>1, <2>1 DEF StartTask_TaskReady, Put, System
    <2>3. /\ d \in Context /\ SameBonds(c, d) /\ SameSending(c, d) /\ d.solSeq = c.solSeq
          /\ d.tstate = "TASK_READY"
      BY <2>1 DEF Context, SameBonds, SameSending, TaskStates
    <2> HIDE DEF d
    <2>4. Private(s, r, m) /\ r.master[m] = d
      BY <2>1, <2>3, PutEffect DEF Private
    <2> HIDE DEF r
    <2>5. Handled(s, r, m)
      BY <2>4, PrivateHandled
    <2> QED
      BY <2>2, <2>3, <2>4, <2>5
      DEF SameBonds, SameSending, SameLink, Busy, Timed, Unstranded
  <1>2. CASE ~c.isSending
    BY <1>2, ResumeEffect DEF StartTask_TaskReady
  <1> QED
    BY <1>1, <1>2

-----------------------------------------------------------------------------
(***************************************************************************)
(* The checks of the scheduler.                                            *)
(***************************************************************************)

\* A set of numbers has a minimum.
LEMMA MinFacts ==
    ASSUME NEW S, S \subseteq Nat, S # {}
    PROVE  Min(S) \in S /\ \A n \in S : Min(S) <= n
  <1> DEFINE Less == OpToRel(<, Nat)
  <1>1. IsWellFoundedOn(Less, Nat)
    BY NatLessThanWellFounded, Zenon
  <1> HIDE DEF Less
  <1>2. PICK x \in S : \A n \in S : ~(<<n, x>> \in Less)
    BY <1>1, WFMin
  <1>3. \A n \in S : ~(n < x)
    BY <1>2 DEF Less, OpToRel
  <1>4. \A n \in S : x <= n
    <2> TAKE n \in S
    <2>1. n \in Nat /\ x \in Nat /\ ~(n < x)
      BY <1>3
    <2> QED
      BY <2>1
  <1> QED
    BY <1>4 DEF Min

\* The timer of the one-shot tasks is set for the first of them.
LEMMA RestartTimeoutTimerEffect ==
    ASSUME NEW s \in System
    PROVE  LET r == RestartTimeoutTimer(s)
           IN  /\ r \in System /\ SameCore(s, r)
               /\ r.taskCheckPending = s.taskCheckPending /\ r.posted = s.posted
               /\ r.taskTimer = s.taskTimer
               /\ \A t \in Scheduled(s) : ~IsRecurring(t) =>
                     r.taskStartTimeout <= s.behavior[t].startExpiration
  <1> DEFINE waiting == {t \in Scheduled(s) : ~IsRecurring(t)}
             S == {Never} \cup {s.behavior[t].startExpiration : t \in waiting}
             x == Min(S)
             r == [s EXCEPT !.taskStartTimeout = x]
  <1>1. \A t \in Task : s.behavior[t].startExpiration \in Delay
    BY DEF System, Behavior
  <1>2. S \subseteq Delay /\ S \subseteq Nat /\ S # {}
    BY <1>1, DelayFacts DEF Scheduled
  <1>3. x \in S /\ \A n \in S : x <= n
    <2> HIDE DEF S
    <2> QED
      BY <1>2, MinFacts
  <1>4. RestartTimeoutTimer(s) = r
    BY DEF RestartTimeoutTimer
  <1>5. \A t \in Scheduled(s) : ~IsRecurring(t) => s.behavior[t].startExpiration \in S
    OBVIOUS
  <1> HIDE DEF x, S
  <1>6. /\ r \in System /\ SameCore(s, r) /\ r.taskStartTimeout = x
        /\ r.taskCheckPending = s.taskCheckPending /\ r.posted = s.posted
        /\ r.taskTimer = s.taskTimer
    BY <1>2, <1>3 DEF System, SameCore
  <1> HIDE DEF r
  <1> QED
    BY <1>3, <1>4, <1>5, <1>6

\* What a check may find
Choice(s) == IF Scheduled(s) = {} THEN {NoTask} ELSE BestTasks(s)

\* The delay that a task has left is a delay.
LEMMA ExpirationTimeType ==
    ASSUME NEW s \in System, NEW t \in Task
    PROVE  ExpirationTime(s, t) \in Delay
  BY DelayFacts DEF System, Behavior, ExpirationTime

\* The search finds a task that can run if there is one.
LEMMA BestIsRunnable ==
    ASSUME NEW s, NEW best \in Choice(s), Runnable(s) # {}
    PROVE  best \in Runnable(s)
  <1>1. PICK t \in Runnable(s) : TRUE
    OBVIOUS
  <1>2. t \in Scheduled(s) /\ ExpirationTime(s, t) # Never
    BY <1>1 DEF Runnable
  <1>3. best \in Scheduled(s) /\ ~RunsBefore(s, t, best)
    BY <1>2 DEF Choice, BestTasks
  <1>4. ExpirationTime(s, best) # Never
    BY <1>2, <1>3 DEF RunsBefore
  <1> QED
    BY <1>3, <1>4 DEF Runnable

\* A step of the scheduler concerns only masters that are idle.
IdleOnly(s, r) ==
    \A m \in Masters : /\ SameLink(s.master[m], r.master[m])
                       /\ s.master[m].tstate # "IDLE" => r.master[m] = s.master[m]

\* Where no task is left, no timer is needed.
LEMMA ShutdownKeeps ==
    ASSUME NEW s, Base(s), s.isShutdown
    PROVE  Pending(s) /\ Wakes(s) /\ Starts(s)
  <1>1. Scheduled(s) = {}
    BY DEF Base, Quiet, Scheduled
  <1> QED
    BY <1>1 DEF Pending, Wakes, Starts, Runnable

Locals(s) == \A m \in Masters : Local(s.master[m])

\* The task that is run leaves the vector and becomes its master's active task.
LEMMA RunEffect ==
    ASSUME NEW s, Base(s), Locals(s), NEW best \in Task, s.tasks[best] > 0, s.current = NoTask,
           NEW fits \in BOOLEAN, ~s.taskCheckPending,
           \A t \in Scheduled(s) : ~IsRecurring(t) =>
                s.taskStartTimeout <= s.behavior[t].startExpiration
    PROVE  LET x == [s EXCEPT !.current = best, !.tasks[best] = @ - 1]
               r == Run(x, best, fits)
           IN  SInv(r) /\ IdleOnly(s, r)
  <1> DEFINE m == best.owner
             c == s.master[m]
             v == [s.tasks EXCEPT ![best] = @ - 1]
             x == [s EXCEPT !.current = best, !.tasks[best] = @ - 1]
             d == [c EXCEPT !.activeTask = best]
             y == Put(x, m, d)
             r == StartTask_TaskReady(y, m, fits)
  <1>1. m \in Masters /\ best # NoTask
    BY TaskFacts
  <1>2. s \in System /\ c \in Context /\ s.tasks \in [Task -> Nat]
    BY <1>1, ContextFacts DEF Base, System
  <1>3. c.activeTask = NoTask /\ c.tstate = "IDLE"
    <2>1. c.activeTask = NoTask
      BY <1>1, TaskFacts DEF Base, Agree
    <2> QED
      BY <1>1, <2>1 DEF Locals, Local, Busy
  <1>4. /\ v \in [Task -> Nat]
        /\ \A t \in Task : v[t] = IF t = best THEN s.tasks[t] - 1 ELSE s.tasks[t]
    BY <1>2
  <1>5. x = [s EXCEPT !.current = best, !.tasks = v]
    BY <1>2 DEF System
  <1> HIDE DEF v, x
  <1>6. /\ x \in System /\ x.master = s.master /\ x.behavior = s.behavior /\ x.owed = s.owed
        /\ x.tasks = v /\ x.current = best /\ x.isShutdown = s.isShutdown
        /\ x.taskCheckPending = FALSE /\ x.posted = s.posted
        /\ x.taskStartTimeout = s.taskStartTimeout
    BY <1>2, <1>4, <1>5 DEF System
  <1>7. d \in Context /\ d.activeTask = best /\ SameLink(c, d) /\ SameSending(c, d)
    BY <1>2 DEF Context, SameLink, SameSending
  <1>8. Run(x, best, fits) = r
    <2>1. [x EXCEPT !.master[m].activeTask = best] = y
      BY <1>6 DEF Put, System
    <2>2. x.master[m].activeTask = NoTask /\ x.master[m].tstate = "IDLE"
      BY <1>3, <1>6
    <2> HIDE DEF y
    <2> QED
      BY <2>1, <2>2 DEF Run
  <1> HIDE DEF d
  <1>9. y \in System /\ SameRest(x, y) /\ OthersSame(s, y, m) /\ y.master[m] = d
    BY <1>1, <1>6, <1>7, PutEffect DEF OthersSame
  <1> HIDE DEF y
  <1>10. /\ y.behavior = s.behavior /\ y.owed = s.owed /\ y.tasks = v /\ y.current = best
         /\ y.isShutdown = s.isShutdown /\ ~y.taskCheckPending
         /\ y.taskStartTimeout = s.taskStartTimeout
    BY <1>6, <1>9 DEF SameRest
  <1>11. \A n \in Masters : SameLink(s.master[n], y.master[n])
    BY <1>7, <1>9 DEF OthersSame, SameLink
  <1>12. Base(y)
    <2>1. Agree(y)
      <3>1. \A n \in Masters : n # m => y.master[n].activeTask = NoTask
        BY <1>9, TaskFacts DEF OthersSame, Base, Agree
      <3> QED
        BY <1>7, <1>9, <1>10, <3>1 DEF Agree
    <2>2. Accounted(y)
      <3> SUFFICES ASSUME NEW t \in Task
                   PROVE  /\ Held(y, t) = Due(y, t)
                          /\ y.owed[t] \in 0..1
                          /\ Held(y, t) > 0 => y.master[t.owner].isOnline
                          /\ ~IsRecurring(t) => y.behavior[t].expiration = 0
        BY DEF Accounted
      <3>1. Held(y, t) = Held(s, t)
        BY <1>2, <1>4, <1>10, TaskFacts DEF Held
      <3>2. Due(y, t) = Due(s, t) /\ y.master[t.owner].isOnline = s.master[t.owner].isOnline
        BY <1>10, <1>11, TaskFacts DEF Due, SameLink
      <3> QED
        BY <1>10, <3>1, <3>2 DEF Base, Accounted
    <2>3. ~y.isShutdown
      BY <1>10 DEF Base, Quiet
    <2>4. Blameless(y)
      BY <1>11 DEF Base, Blameless, SameLink
    <2> QED
      BY <1>9, <2>1, <2>2, <2>3, <2>4 DEF Base, Quiet
  <1>13. Pending(y) /\ Wakes(y) /\ Starts(y)
    <2>1. Pending(y) /\ Wakes(y)
      BY <1>1, <1>10 DEF Pending, Wakes
    <2>2. \A t \in Scheduled(y) : t \in Scheduled(s)
      BY <1>2, <1>4, <1>10 DEF Scheduled
    <2> QED
      BY <1>10, <2>1, <2>2 DEF Starts
  <1>14. /\ Handled(y, r, m) /\ SameLink(y.master[m], r.master[m])
         /\ Busy(r.master[m]) /\ Timed(r.master[m])
         /\ Unstranded(y.master[m]) => Unstranded(r.master[m])
    BY <1>1, <1>7, <1>9, <1>12, StartTaskEffect
  <1> HIDE DEF r
  <1>15. Local(r.master[m]) /\ \A n \in Masters : n # m => r.master[n] = s.master[n]
    <2>1. Unstranded(y.master[m])
      BY <1>1, <1>7, <1>9 DEF Locals, Local, Unstranded, SameSending
    <2> QED
      BY <1>9, <1>14, <2>1 DEF Local, Handled, OthersSame
  <1>16. SInv(r)
    BY <1>13, <1>14, <1>15, WokenKeeps DEF SInv, Locals, Handled
  <1>17. IdleOnly(s, r)
    BY <1>3, <1>11, <1>14, <1>15 DEF IdleOnly, SameLink
  <1> QED
    BY <1>8, <1>16, <1>17 DEF x

\* A check leaves every task with something that looks at it in time.
LEMMA CheckEffect ==
    ASSUME NEW s, Base(s), Locals(s), NEW best \in Choice(s), NEW fits \in BOOLEAN
    PROVE  LET r == CheckForTaskRun(s, best, fits)
           IN  SInv(r) /\ IdleOnly(s, r)
  <1>1. CASE s.isShutdown
    BY <1>1, ShutdownKeeps DEF CheckForTaskRun, SInv, Locals, IdleOnly, SameLink
  <1>2. CASE ~s.isShutdown
    <2> DEFINE e == [s EXCEPT !.taskCheckPending = FALSE]
               k == RestartTimeoutTimer(e)
    <2>1. s \in System
      BY DEF Base
    <2>2. e \in System /\ SameCore(s, e) /\ ~e.taskCheckPending
      BY <2>1 DEF System, SameCore
    <2> HIDE DEF e
    <2>3. /\ k \in System /\ SameCore(s, k) /\ ~k.taskCheckPending
          /\ \A t \in Scheduled(k) : ~IsRecurring(t) =>
                k.taskStartTimeout <= k.behavior[t].startExpiration
      <3>1. /\ k \in System /\ SameCore(e, k) /\ k.taskCheckPending = e.taskCheckPending
            /\ \A t \in Scheduled(e) : ~IsRecurring(t) =>
                  k.taskStartTimeout <= e.behavior[t].startExpiration
        BY <2>2, RestartTimeoutTimerEffect
      <3> QED
        BY <2>2, <3>1 DEF SameCore, Scheduled
    <2> HIDE DEF k
    <2>4. Base(k) /\ Locals(k) /\ IdleOnly(s, k)
      BY <2>3, CoreBase DEF Locals, SameCore, IdleOnly, SameLink
    <2>5. Pending(k) /\ Starts(k)
      BY <2>3 DEF Pending, Starts
    <2>6. Scheduled(k) = Scheduled(s)
      BY <2>3 DEF SameCore, Scheduled
    <2>7. CASE s.current # NoTask \/ best = NoTask
      <3>1. CheckForTaskRun(s, best, fits) = k
        BY <1>2, <2>7 DEF CheckForTaskRun, k, e
      <3>2. Wakes(k)
        <4>1. CASE s.current # NoTask
          BY <2>3, <4>1 DEF SameCore, Wakes
        <4>2. CASE best = NoTask
          <5>1. Scheduled(s) = {}
            BY <4>2, TaskFacts DEF Choice, BestTasks, Scheduled
          <5> QED
            BY <2>6, <5>1 DEF Wakes, Runnable
        <4> QED
          BY <2>7, <4>1, <4>2
      <3> QED
        BY <2>4, <2>5, <3>1, <3>2 DEF SInv, Locals
    <2>8. CASE s.current = NoTask /\ best # NoTask
      <3>1. best \in Scheduled(s) /\ best \in Task /\ k.tasks[best] > 0
        BY <2>6, <2>8 DEF Choice, BestTasks, Scheduled
      <3>2. CASE ExpirationTime(s, best) = 0
        <4> DEFINE x == [k EXCEPT !.current = best, !.tasks[best] = @ - 1]
                   r == Run(x, best, fits)
        <4>1. CheckForTaskRun(s, best, fits) = r
          BY <1>2, <2>8, <3>2 DEF CheckForTaskRun, k, e
        <4>2. k.current = NoTask
          BY <2>3, <2>8 DEF SameCore
        <4>3. SInv(r) /\ IdleOnly(k, r)
          BY <2>3, <2>4, <3>1, <4>2, RunEffect
        <4> HIDE DEF r
        <4> QED
          BY <2>3, <4>1, <4>3 DEF SameCore, IdleOnly
      <3>3. CASE ExpirationTime(s, best) # 0
        <4> DEFINE w == ExpirationTime(s, best)
                   r == [k EXCEPT !.taskTimer = w]
        <4>1. CheckForTaskRun(s, best, fits) = r
          BY <1>2, <2>8, <3>3 DEF CheckForTaskRun, k, e
        <4>2. w \in Delay /\ w \in Nat
          BY <2>1, <3>1, ExpirationTimeType, DelayFacts
        <4> HIDE DEF w
        <4>3. /\ r \in System /\ SameCore(k, r) /\ r.taskCheckPending = k.taskCheckPending
              /\ r.posted = k.posted /\ r.taskStartTimeout = k.taskStartTimeout
              /\ r.taskTimer = w
          BY <2>3, <4>2 DEF System, SameCore
        <4> HIDE DEF r
        <4>4. /\ Scheduled(r) = Scheduled(s) /\ Runnable(r) = Runnable(s)
              /\ \A t \in Task : ExpirationTime(r, t) = ExpirationTime(s, t)
          BY <2>3, <2>6, <4>3 DEF SameCore, Scheduled, Runnable, ExpirationTime
        <4>5. Wakes(r)
          <5> SUFFICES ASSUME Runnable(s) # {}
                       PROVE  \E t \in Runnable(s) : r.taskTimer <= ExpirationTime(r, t)
            BY <4>4 DEF Wakes
          <5>1. best \in Runnable(s)
            BY BestIsRunnable
          <5>2. r.taskTimer <= ExpirationTime(r, best)
            BY <3>1, <4>2, <4>3, <4>4 DEF w
          <5> QED
            BY <5>1, <5>2
        <4>6. Pending(r) /\ Starts(r)
          BY <2>5, <4>3 DEF SameCore, Pending, Starts, Scheduled
        <4>7. Base(r) /\ Locals(r) /\ IdleOnly(s, r)
          BY <2>4, <4>3, CoreBase DEF Locals, SameCore, IdleOnly, SameLink
        <4> QED
          BY <4>1, <4>5, <4>6, <4>7 DEF SInv, Locals
      <3> QED
        BY <3>2, <3>3
    <2> QED
      BY <2>7, <2>8
  <1> QED
    BY <1>1, <1>2

-----------------------------------------------------------------------------
(***************************************************************************)
(* The handlers of a master.                                               *)
(***************************************************************************)

\* The sequence number goes on exactly when a response is no longer waited for.
SeqStep(c, d) ==
    IF c.tstate = "WAIT_FOR_RESPONSE" /\ ~(d.tstate = "WAIT_FOR_RESPONSE" /\ d.solSeq = c.solSeq)
    THEN d.solSeq = (c.solSeq + 1) % SeqModulus
    ELSE d.solSeq = c.solSeq

Served(s, r, m) ==
    Handled(s, r, m) /\ Local(r.master[m]) /\ SeqStep(s.master[m], r.master[m])

\* What a master's handler keeps
LEMMA HandledKeeps ==
    ASSUME NEW s, SInv(s), NEW m \in Masters, NEW r, Handled(s, r, m), Local(r.master[m])
    PROVE  SInv(r)
  BY WokenKeeps DEF SInv, Handled, OthersSame

\* A master that is not idle has a task and a connection.
LEMMA BusyFacts ==
    ASSUME NEW s, SInv(s), NEW m \in Masters, s.master[m].tstate # "IDLE"
    PROVE  s.master[m].activeTask # NoTask /\ s.master[m].isOnline
  <1>1. s.master[m].activeTask # NoTask
    BY DEF SInv, Local, Busy
  <1> QED
    BY <1>1, ActiveFacts DEF SInv

\* The end of a transmission: the task that waited for it goes on, or else a confirm.
LEMMA OnTxReadyEffect ==
    ASSUME NEW s, SInv(s), NEW m \in Masters, NEW fits \in BOOLEAN
    PROVE  Served(s, OnTxReady(s, m, fits), m)
  <1> DEFINE c == s.master[m]
             d == [c EXCEPT !.isSending = FALSE]
             x == Put(s, m, d)
             y == IF c.tstate = "TASK_READY" THEN ResumeActiveTask(x, m, fits) ELSE x
             r == CheckConfirmTransmit(y, m)
  <1>1. s \in System /\ c \in Context /\ Base(s) /\ Busy(c) /\ Timed(c)
    BY ContextFacts DEF SInv, Base, Local
  <1>2. OnTxReady(s, m, fits) = r
    <2>1. [s EXCEPT !.master[m].isSending = FALSE] = x
      BY <1>1 DEF Put, System
    <2> HIDE DEF x
    <2> QED
      BY <2>1 DEF OnTxReady
  <1>3. /\ d \in Context /\ SameBonds(c, d) /\ SameTask(c, d) /\ ~d.isSending
    BY <1>1 DEF Context, SameBonds, SameTask
  <1> HIDE DEF d
  <1>4. Private(s, x, m) /\ x.master[m] = d
    BY <1>1, <1>3, PutEffect DEF Private
  <1> HIDE DEF x
  <1>5. Handled(s, x, m) /\ Base(x)
    BY <1>1, <1>4, PrivateHandled DEF Handled
  <1>6. /\ Handled(s, y, m) /\ Busy(y.master[m]) /\ Timed(y.master[m])
        /\ y.master[m].solSeq = c.solSeq
        /\ c.tstate # "TASK_READY" => y.master[m].tstate = c.tstate
    <2>1. CASE c.tstate = "TASK_READY"
      <3>1. x.master[m].activeTask # NoTask /\ ~x.master[m].isSending
        BY <1>1, <1>3, <1>4, <2>1 DEF Busy, SameBonds
      <3>2. /\ Handled(x, y, m) /\ SameLink(x.master[m], y.master[m])
            /\ Busy(y.master[m]) /\ Timed(y.master[m])
        BY <1>5, <2>1, <3>1, ResumeEffect
      <3> HIDE DEF y
      <3>3. Handled(s, y, m)
        BY <1>5, <3>2, HandledTrans
      <3> QED
        BY <1>3, <1>4, <2>1, <3>2, <3>3 DEF SameLink, SameTask
    <2>2. CASE c.tstate # "TASK_READY"
      <3>1. y = x
        BY <2>2
      <3> HIDE DEF y
      <3> QED
        BY <1>1, <1>3, <1>4, <1>5, <3>1 DEF Busy, Timed, SameBonds, SameTask
    <2> QED
      BY <2>1, <2>2
  <1> HIDE DEF y
  <1>7. y \in System /\ Base(y)
    BY <1>6 DEF Handled, Base
  <1>8. Private(y, r, m) /\ SameTask(y.master[m], r.master[m]) /\ Unstranded(r.master[m])
    BY <1>7, CheckConfirmEffect
  <1> HIDE DEF r
  <1>9. Handled(s, r, m)
    BY <1>6, <1>7, <1>8, PrivateHandled, HandledTrans
  <1>10. Local(r.master[m])
    BY <1>6, <1>8 DEF Local, Busy, Timed, SameTask, Private, SameBonds
  <1>11. SeqStep(c, r.master[m])
    BY <1>6, <1>8 DEF SeqStep, SameTask
  <1> QED
    BY <1>2, <1>9, <1>10, <1>11 DEF Served

\* A fragment of the response that the master waits for: the timer is dropped, the
\* sequence number goes on, and a confirm is sent or queued if it is asked for.
LEMMA HeardEffect ==
    ASSUME NEW s, SInv(s), NEW m \in Masters, NEW con \in BOOLEAN
    PROVE  LET heard == [NextSeq(CancelResponseTimer(s, m), m) EXCEPT !.master[m].rx = TRUE]
               h == IF con THEN QueueConfirm(heard, m) ELSE heard
           IN  /\ Private(s, h, m) /\ Unstranded(h.master[m])
               /\ h.master[m].tstate = s.master[m].tstate
               /\ h.master[m].solSeq = (s.master[m].solSeq + 1) % SeqModulus
  <1> DEFINE c == s.master[m]
             u == CancelResponseTimer(s, m)
             v == NextSeq(u, m)
             e == v.master[m]
             d == [e EXCEPT !.rx = TRUE]
             x == [v EXCEPT !.master[m].rx = TRUE]
             h == IF con THEN QueueConfirm(x, m) ELSE x
  <1>1. s \in System /\ Unstranded(c)
    BY DEF SInv, Base, Local
  <1>2. /\ Private(s, u, m) /\ SameSending(c, u.master[m])
        /\ u.master[m].tstate = c.tstate /\ u.master[m].solSeq = c.solSeq
    BY <1>1, CancelResponseTimerEffect
  <1> HIDE DEF u
  <1>3. /\ Private(u, v, m) /\ SameSending(u.master[m], e)
        /\ e.tstate = u.master[m].tstate
        /\ e.solSeq = (u.master[m].solSeq + 1) % SeqModulus
    BY <1>2, NextSeqEffect DEF Private
  <1> HIDE DEF v
  <1>4. v \in System /\ e \in Context
    BY <1>3, ContextFacts DEF Private
  <1>5. x = Put(v, m, d)
    BY <1>4 DEF Put, System
  <1>6. /\ d \in Context /\ SameBonds(e, d) /\ SameSending(e, d)
        /\ d.tstate = e.tstate /\ d.solSeq = e.solSeq
    BY <1>4 DEF Context, SameBonds, SameSending
  <1> HIDE DEF d, x
  <1>7. Private(v, x, m) /\ x.master[m] = d
    BY <1>4, <1>5, <1>6, PutEffect DEF Private
  <1>8. /\ Private(s, x, m) /\ SameSending(c, x.master[m]) /\ x \in System
        /\ x.master[m].tstate = c.tstate
        /\ x.master[m].solSeq = (c.solSeq + 1) % SeqModulus
    BY <1>2, <1>3, <1>6, <1>7, PrivateTrans DEF SameSending, Private
  <1>9. CASE con
    <2>1. /\ Private(x, h, m) /\ SameTask(x.master[m], h.master[m]) /\ Unstranded(h.master[m])
      BY <1>8, <1>9, QueueConfirmEffect
    <2> HIDE DEF h
    <2>2. /\ Private(s, h, m) /\ Unstranded(h.master[m]) /\ h.master[m].tstate = c.tstate
          /\ h.master[m].solSeq = (c.solSeq + 1) % SeqModulus
      BY <1>8, <2>1, PrivateTrans DEF SameTask
    <2> QED
      BY <2>2 DEF h, x, v, u
  <1>10. CASE ~con
    <2>1. h = x
      BY <1>10
    <2>2. Unstranded(x.master[m])
      BY <1>1, <1>8 DEF Unstranded, SameSending
    <2> HIDE DEF h
    <2>3. /\ Private(s, h, m) /\ Unstranded(h.master[m]) /\ h.master[m].tstate = c.tstate
          /\ h.master[m].solSeq = (c.solSeq + 1) % SeqModulus
      BY <1>8, <2>1, <2>2
    <2> QED
      BY <2>3 DEF h, x, v, u
  <1> QED
    BY <1>9, <1>10

\* The response that the master waits for
LEMMA OnResponseEffect ==
    ASSUME NEW s, SInv(s), NEW m \in Masters, NEW f \in Response, NEW fits \in BOOLEAN,
           s.master[m].tstate = "WAIT_FOR_RESPONSE"
    PROVE  Served(s, OnResponse_WaitForResponse(s, m, f, fits), m)
  <1> DEFINE c == s.master[m]
             result == ProcessResponse(c.activeTask.kind, c.requests, c.rx, f)
             heard == [NextSeq(CancelResponseTimer(s, m), m) EXCEPT !.master[m].rx = TRUE]
             h == IF f.con THEN QueueConfirm(heard, m) ELSE heard
             end == IF result = "OK_FINAL" THEN "SUCCESS" ELSE "BAD_RESPONSE"
             r == CASE result = "OK_CONTINUE" -> StartResponseTimer(h, m)
                    [] result = "OK_REPEAT" -> StartTask_TaskReady(h, m, fits)
                    [] OTHER -> EndTask(h, m, end)
  <1>1. f.con \in BOOLEAN
    BY DEF Response
  <1>2. /\ Private(s, h, m) /\ Unstranded(h.master[m]) /\ h.master[m].tstate = c.tstate
        /\ h.master[m].solSeq = (c.solSeq + 1) % SeqModulus
    BY <1>1, HeardEffect
  <1>3. OnResponse_WaitForResponse(s, m, f, fits) = r
    BY DEF OnResponse_WaitForResponse
  <1> HIDE DEF h, result, end
  <1>4. Handled(s, h, m) /\ Base(h) /\ h \in System /\ h.master[m].activeTask # NoTask
    <2>1. c.activeTask # NoTask
      BY BusyFacts
    <2> QED
      BY <1>2, <2>1, PrivateHandled DEF SInv, Handled, Private, SameBonds
  <1>5. CASE result = "OK_CONTINUE"
    <2> DEFINE q == StartResponseTimer(h, m)
    <2>1. r = q
      BY <1>5
    <2>2. /\ Private(h, q, m) /\ SameSending(h.master[m], q.master[m])
          /\ q.master[m].tstate = h.master[m].tstate
          /\ q.master[m].solSeq = h.master[m].solSeq
          /\ q.master[m].responseTimer # "none"
      BY <1>4, StartResponseTimerEffect
    <2> HIDE DEF q, r
    <2>3. Handled(s, q, m)
      BY <1>4, <2>2, PrivateHandled, HandledTrans
    <2>4. Local(q.master[m])
      BY <1>2, <1>4, <2>2
      DEF Local, Busy, Timed, Unstranded, SameSending, Private, SameBonds
    <2>5. SeqStep(c, q.master[m])
      BY <1>2, <2>2 DEF SeqStep
    <2> QED
      BY <1>3, <2>1, <2>3, <2>4, <2>5 DEF Served
  <1>6. CASE result = "OK_REPEAT"
    <2> DEFINE q == StartTask_TaskReady(h, m, fits)
    <2>1. r = q
      BY <1>6
    <2>2. /\ Handled(h, q, m) /\ SameLink(h.master[m], q.master[m])
          /\ Busy(q.master[m]) /\ Timed(q.master[m]) /\ Unstranded(q.master[m])
      BY <1>2, <1>4, StartTaskEffect
    <2> HIDE DEF q, r
    <2>3. Handled(s, q, m)
      BY <1>4, <2>2, HandledTrans
    <2>4. SeqStep(c, q.master[m])
      BY <1>2, <2>2 DEF SeqStep, SameLink
    <2> QED
      BY <1>3, <2>1, <2>2, <2>3, <2>4 DEF Served, Local
  <1>7. CASE result # "OK_CONTINUE" /\ result # "OK_REPEAT"
    <2> DEFINE q == EndTask(h, m, end)
    <2>1. r = q
      BY <1>7
    <2>2. /\ Base(q) /\ OthersSame(h, q, m) /\ Woken(h, q)
          /\ SameLink(h.master[m], q.master[m]) /\ SameSending(h.master[m], q.master[m])
          /\ Busy(q.master[m]) /\ q.master[m].tstate = "IDLE"
      BY <1>4, EndTaskEffect
    <2> HIDE DEF q, r
    <2>3. Handled(s, q, m)
      <3>1. Handled(h, q, m)
        BY <2>2 DEF Handled, SameLink
      <3> QED
        BY <1>4, <3>1, HandledTrans
    <2>4. Local(q.master[m])
      BY <1>2, <2>2 DEF Local, Timed, Unstranded, SameSending
    <2>5. SeqStep(c, q.master[m])
      BY <1>2, <2>2 DEF SeqStep, SameLink
    <2> QED
      BY <1>3, <2>1, <2>3, <2>4, <2>5 DEF Served
  <1> QED
    BY <1>5, <1>6, <1>7

\* Tasks are made due, with nothing else changed.
LEMMA DemandAllEffect ==
    ASSUME NEW s, Base(s), NEW m, NEW K
    PROVE  LET r == DemandAll(s, m, K)
           IN  /\ Base(r) /\ r.master = s.master /\ r.isShutdown = s.isShutdown
               /\ r.taskCheckPending = s.taskCheckPending /\ r.posted = s.posted
  <1> DEFINE After(t) == IF t.owner = m /\ t.kind \in K THEN Reset(s.behavior[t], t.kind)
                         ELSE s.behavior[t]
             b == [t \in Task |-> After(t)]
             r == [s EXCEPT !.behavior = b]
  <1>1. s \in System /\ s.behavior \in [Task -> Behavior]
    BY DEF Base, System
  <1>2. \A t \in Task : After(t) \in Behavior
    BY <1>1, ResetType
  <1>3. \A t \in Task : s.behavior[t].expiration = 0 => After(t).expiration = 0
    BY <1>1, ResetType
  <1>4. b \in [Task -> Behavior] /\ \A t \in Task : b[t] = After(t)
    BY <1>2
  <1>5. DemandAll(s, m, K) = r
    BY DEF DemandAll
  <1> HIDE DEF b, After
  <1>6. /\ r \in System /\ r.behavior = b
        /\ r.master = s.master /\ r.owed = s.owed /\ r.tasks = s.tasks /\ r.current = s.current
        /\ r.isShutdown = s.isShutdown
        /\ r.taskCheckPending = s.taskCheckPending /\ r.posted = s.posted
    BY <1>1, <1>4 DEF System
  <1> HIDE DEF r
  <1>7. Accounted(r)
    <2>1. \A t \in Task : Held(r, t) = Held(s, t) /\ Due(r, t) = Due(s, t)
      BY <1>6 DEF Held, Due
    <2> QED
      BY <1>3, <1>4, <1>6, <2>1 DEF Base, Accounted
  <1>8. Agree(r) /\ Quiet(r) /\ Blameless(r)
    BY <1>6 DEF Base, Agree, Quiet, Blameless
  <1> QED
    BY <1>5, <1>6, <1>7, <1>8 DEF Base

\* The scheduler looks at the tasks that the indications call for.
LEMMA ProcessIINEffect ==
    ASSUME NEW s, Base(s), NEW m \in Masters, NEW iin, ~s.isShutdown
    PROVE  LET r == ProcessIIN(s, m, iin)
           IN  Handled(s, r, m) /\ r.master = s.master
  <1> DEFINE K == UNION {Reaction[bit] : bit \in iin \cap ReactsTo} \cap Configured
             x == DemandAll(s, m, K)
             r == PostCheckForTaskRun(x)
  <1> HIDE DEF K
  <1>1. CASE K = {}
    <2>1. ProcessIIN(s, m, iin) = s
      BY <1>1 DEF ProcessIIN, K
    <2>2. Handled(s, s, m)
      BY DEF Handled, OthersSame, Woken, SameSchedule
    <2> QED
      BY <2>1, <2>2
  <1>2. CASE K # {}
    <2>1. ProcessIIN(s, m, iin) = r
      BY <1>2 DEF ProcessIIN, K
    <2>2. /\ Base(x) /\ x.master = s.master /\ x.isShutdown = s.isShutdown
          /\ x.taskCheckPending = s.taskCheckPending /\ x.posted = s.posted
      BY DemandAllEffect
    <2> HIDE DEF x
    <2>3. /\ r \in System /\ SameButPosted(x, r)
          /\ Pending(x) => Pending(r)
          /\ Pending(x) /\ ~x.isShutdown => r.posted
      BY <2>2, PostEffect DEF Base
    <2> HIDE DEF r
    <2>4. Base(r) /\ r.master = s.master
      BY <2>2, <2>3, CoreBase DEF SameButPosted, SameCore
    <2>5. Woken(s, r)
      BY <2>2, <2>3 DEF Woken, Pending
    <2> QED
      BY <2>1, <2>4, <2>5 DEF Handled, OthersSame
  <1> QED
    BY <1>1, <1>2

\* Handling the indications after the response
LEMMA ThenProcessIIN ==
    ASSUME NEW s, NEW m \in Masters, NEW r, Served(s, r, m), s.master[m].isOnline, NEW iin
    PROVE  Served(s, ProcessIIN(r, m, iin), m)
  <1> DEFINE q == ProcessIIN(r, m, iin)
  <1>1. Base(r) /\ ~r.isShutdown
    BY DEF Served, Handled, Base, Quiet
  <1>2. Handled(r, q, m) /\ q.master = r.master
    BY <1>1, ProcessIINEffect
  <1> HIDE DEF q
  <1>3. Served(s, q, m)
    BY <1>2, HandledTrans DEF Served
  <1> QED
    BY <1>3 DEF q

\* A step that leaves the system alone
LEMMA SameServed ==
    ASSUME NEW s, SInv(s), NEW m \in Masters
    PROVE  Served(s, s, m)
  BY DEF Served, SeqStep, SInv, Handled, OthersSame, Woken, SameSchedule

LEMMA OnSolicitedEffect ==
    ASSUME NEW s, SInv(s), NEW m \in Masters, s.master[m].isOnline,
           NEW seq, NEW f \in Response, NEW fits \in BOOLEAN
    PROVE  Served(s, OnSolicited(s, m, seq, f, fits), m)
  <1> DEFINE expected == s.master[m].tstate = "WAIT_FOR_RESPONSE" /\ seq = s.master[m].solSeq
             r == IF expected THEN OnResponse_WaitForResponse(s, m, f, fits) ELSE s
  <1>1. Served(s, r, m)
    BY OnResponseEffect, SameServed
  <1>2. OnSolicited(s, m, seq, f, fits) = ProcessIIN(r, m, f.iin)
    BY DEF OnSolicited
  <1> HIDE DEF r
  <1> QED
    BY <1>1, <1>2, ThenProcessIIN

LEMMA ProcessUnsolicitedEffect ==
    ASSUME NEW s, SInv(s), NEW m \in Masters, s.master[m].isOnline, NEW f \in Response
    PROVE  Served(s, ProcessUnsolicitedResponse(s, m, f), m)
  <1> DEFINE q == QueueConfirm(s, m)
             r == IF f.body = "good" /\ f.con THEN q ELSE s
  <1>1. s \in System /\ Base(s) /\ Local(s.master[m])
    BY DEF SInv, Base
  <1>2. Private(s, q, m) /\ SameTask(s.master[m], q.master[m]) /\ Unstranded(q.master[m])
    BY <1>1, QueueConfirmEffect
  <1> HIDE DEF q
  <1>3. Served(s, q, m)
    <2>1. Handled(s, q, m)
      BY <1>1, <1>2, PrivateHandled
    <2>2. Local(q.master[m])
      BY <1>1, <1>2 DEF Local, Busy, Timed, SameTask, Private, SameBonds
    <2> QED
      BY <1>2, <2>1, <2>2 DEF Served, SeqStep, SameTask
  <1>4. Served(s, r, m)
    BY <1>3, SameServed
  <1>5. ProcessUnsolicitedResponse(s, m, f) = ProcessIIN(r, m, f.iin)
    BY DEF ProcessUnsolicitedResponse, q
  <1> HIDE DEF r
  <1> QED
    BY <1>4, <1>5, ThenProcessIIN

\* Setting the response timer and the number of late callbacks
SetTimer(s, m, state, n) ==
    [s EXCEPT !.master[m].responseTimer = state, !.master[m].orphans = n]

LEMMA SetTimerEffect ==
    ASSUME NEW s, SInv(s), NEW m \in Masters, NEW state \in TimerStates, NEW n \in Nat
    PROVE  LET r == SetTimer(s, m, state, n)
               c == s.master[m]
               d == r.master[m]
           IN  /\ Private(s, r, m) /\ SameSending(c, d) /\ d.tstate = c.tstate
               /\ d.solSeq = c.solSeq /\ d.responseTimer = state
  <1> DEFINE c == s.master[m]
             d == [c EXCEPT !.responseTimer = state, !.orphans = n]
  <1>1. s \in System /\ c \in Context
    BY ContextFacts DEF SInv, Base
  <1>2. SetTimer(s, m, state, n) = Put(s, m, d)
    BY <1>1 DEF SetTimer, Put, System
  <1>3. /\ d \in Context /\ SameBonds(c, d) /\ SameSending(c, d) /\ d.tstate = c.tstate
        /\ d.solSeq = c.solSeq /\ d.responseTimer = state
    BY <1>1 DEF Context, SameBonds, SameSending
  <1> HIDE DEF d
  <1> QED
    BY <1>1, <1>2, <1>3, PutEffect DEF Private

LEMMA TimerExpiresEffect ==
    ASSUME NEW s, SInv(s), NEW m \in Masters
    PROVE  Served(s, [s EXCEPT !.master[m].responseTimer = "expired"], m)
  <1> DEFINE c == s.master[m]
             d == [c EXCEPT !.responseTimer = "expired"]
             r == [s EXCEPT !.master[m].responseTimer = "expired"]
  <1>1. s \in System /\ c \in Context /\ Base(s) /\ Local(c)
    BY ContextFacts DEF SInv, Base
  <1>2. r = Put(s, m, d)
    BY <1>1 DEF Put, System
  <1>3. /\ d \in Context /\ SameBonds(c, d) /\ SameSending(c, d) /\ d.tstate = c.tstate
        /\ d.solSeq = c.solSeq /\ d.responseTimer = "expired"
    BY <1>1 DEF Context, SameBonds, SameSending, TimerStates
  <1> HIDE DEF d, r
  <1>4. Private(s, r, m) /\ r.master[m] = d
    BY <1>1, <1>2, <1>3, PutEffect DEF Private
  <1>5. Handled(s, r, m)
    BY <1>1, <1>4, PrivateHandled
  <1>6. Local(r.master[m])
    BY <1>1, <1>3, <1>4 DEF Local, Busy, Timed, Unstranded, SameBonds, SameSending
  <1>7. Served(s, r, m)
    BY <1>3, <1>4, <1>5, <1>6 DEF Served, SeqStep
  <1> QED
    BY <1>7 DEF r

\* A callback of the response timer, late or not
LEMMA OnResponseTimeoutEffect ==
    ASSUME NEW s, SInv(s), NEW m \in Masters,
           s.master[m].responseTimer = "expired" \/ s.master[m].orphans > 0
    PROVE  Served(s, OnResponseTimeout(s, m), m)
  <1> DEFINE c == s.master[m]
             n == IF c.responseTimer = "none" THEN c.orphans - 1 ELSE c.orphans
             f == SetTimer(s, m, "none", n)
             e == EndTask(f, m, "RESPONSE_TIMEOUT")
             q == NextSeq(e, m)
             r == IF c.isOnline /\ c.tstate = "WAIT_FOR_RESPONSE" THEN q ELSE f
  <1>1. s \in System /\ c \in Context /\ Base(s) /\ Local(c)
    BY ContextFacts DEF SInv, Base
  <1>2. n \in Nat
    BY <1>1 DEF Context
  <1>3. [s EXCEPT !.master[m].responseTimer = "none",
                  !.master[m].orphans = IF s.master[m].responseTimer = "none" THEN @ - 1 ELSE @] = f
    BY <1>1 DEF System, SetTimer
  <1>4. OnResponseTimeout(s, m) = r
    BY <1>3 DEF OnResponseTimeout
  <1> HIDE DEF n
  <1>5. /\ Private(s, f, m) /\ SameSending(c, f.master[m]) /\ f.master[m].tstate = c.tstate
        /\ f.master[m].solSeq = c.solSeq
    BY <1>2, SetTimerEffect DEF TimerStates
  <1> HIDE DEF f
  <1>6. Handled(s, f, m) /\ Base(f)
    BY <1>1, <1>5, PrivateHandled DEF Handled
  <1>7. CASE c.isOnline /\ c.tstate = "WAIT_FOR_RESPONSE"
    <2>1. f.master[m].activeTask # NoTask
      BY <1>5, <1>7, BusyFacts DEF Private, SameBonds
    <2>2. /\ Base(e) /\ OthersSame(f, e, m) /\ Woken(f, e)
          /\ SameLink(f.master[m], e.master[m]) /\ SameSending(f.master[m], e.master[m])
          /\ Busy(e.master[m]) /\ e.master[m].tstate = "IDLE"
      BY <1>6, <2>1, EndTaskEffect
    <2>3. r = q
      BY <1>7
    <2> HIDE DEF e, r
    <2>4. Handled(s, e, m)
      <3>1. Handled(f, e, m)
        BY <2>2 DEF Handled, SameLink
      <3> QED
        BY <1>6, <3>1, HandledTrans
    <2>5. /\ Private(e, q, m) /\ SameSending(e.master[m], q.master[m])
          /\ q.master[m].tstate = e.master[m].tstate
          /\ q.master[m].solSeq = (e.master[m].solSeq + 1) % SeqModulus
      BY <2>2, NextSeqEffect DEF Base
    <2> HIDE DEF q
    <2>6. Handled(s, q, m)
      BY <2>2, <2>4, <2>5, PrivateHandled, HandledTrans
    <2>7. Local(q.master[m])
      BY <1>1, <1>5, <2>2, <2>5
      DEF Local, Busy, Timed, Unstranded, SameSending, Private, SameBonds
    <2>8. SeqStep(c, q.master[m])
      BY <1>5, <1>7, <2>2, <2>5 DEF SeqStep, SameLink
    <2> QED
      BY <1>4, <2>3, <2>6, <2>7, <2>8 DEF Served
  <1>8. CASE ~(c.isOnline /\ c.tstate = "WAIT_FOR_RESPONSE")
    <2>1. r = f
      BY <1>8
    <2>2. c.tstate # "WAIT_FOR_RESPONSE"
      BY <1>8, BusyFacts
    <2> HIDE DEF r
    <2>3. Local(f.master[m])
      BY <1>1, <1>5, <2>2
      DEF Local, Busy, Timed, Unstranded, SameSending, Private, SameBonds
    <2>4. SeqStep(c, f.master[m])
      BY <1>5 DEF SeqStep
    <2> QED
      BY <1>4, <1>6, <2>1, <2>3, <2>4 DEF Served
  <1> QED
    BY <1>7, <1>8

-----------------------------------------------------------------------------
(***************************************************************************)
(* Links, users and time.                                                  *)
(***************************************************************************)

\* The tasks that masters keep are recurring.
LEMMA KindFacts ==
    /\ \A t \in Task : t.kind \in Configured \cup UserScans => IsRecurring(t)
    /\ UserScans \cap Configured = {}
    /\ "clearRestart" \in Configured /\ "clearRestart" \in Kinds
  BY TaskAssumption DEF AlwaysConfigured, Startup, Adhoc, IsRecurring, Kinds

\* The tasks T of a master are scheduled when its new context says that they are due.
LEMMA ScheduleEffect ==
    ASSUME NEW s, Base(s), NEW m \in Masters, NEW x \in System, NEW T \in SUBSET Task,
           T # {}, ~s.isShutdown,
           x.tasks = s.tasks, x.current = s.current, x.behavior = s.behavior,
           x.isShutdown = s.isShutdown, x.taskCheckPending = s.taskCheckPending,
           x.posted = s.posted, OthersSame(s, x, m),
           x.master[m].isOnline, x.master[m].activeTask = s.master[m].activeTask,
           x.master[m].refused = s.master[m].refused,
           x.master[m].overlapped = s.master[m].overlapped,
           \A t \in Task : x.owed[t] \in 0..1,
           \A t \in T : t.owner = m,
           \A t \in Task : Due(x, t) = Due(s, t) + (IF t \in T THEN 1 ELSE 0)
    PROVE  LET r == AddAll(x, T)
           IN  Base(r) /\ r.master = x.master /\ Woken(s, r)
  <1> DEFINE r == AddAll(x, T)
  <1>1. /\ r \in System
        /\ r.master = x.master /\ r.behavior = x.behavior /\ r.owed = x.owed
        /\ r.current = x.current /\ r.isShutdown = x.isShutdown
        /\ \A t \in Task : r.tasks[t] = x.tasks[t] + (IF t \in T THEN 1 ELSE 0)
        /\ Pending(x) => Pending(r) /\ r.posted
    BY AddAllEffect
  <1> HIDE DEF r
  <1>2. Woken(s, r)
    BY <1>1 DEF Woken, Pending
  <1>3. Agree(r)
    BY <1>1 DEF Base, Agree, OthersSame
  <1>4. Accounted(r)
    <2> SUFFICES ASSUME NEW t \in Task
                 PROVE  /\ Held(r, t) = Due(r, t)
                        /\ r.owed[t] \in 0..1
                        /\ Held(r, t) > 0 => r.master[t.owner].isOnline
                        /\ ~IsRecurring(t) => r.behavior[t].expiration = 0
      BY DEF Accounted
    <2>1. /\ s.tasks[t] \in Nat /\ Held(s, t) = Due(s, t)
          /\ Held(s, t) > 0 => s.master[t.owner].isOnline
          /\ ~IsRecurring(t) => s.behavior[t].expiration = 0
      BY DEF Base, System, Accounted
    <2>2. Due(r, t) = Due(x, t)
      BY <1>1 DEF Due
    <2>3. Held(r, t) = Held(s, t) + (IF t \in T THEN 1 ELSE 0)
      BY <1>1, <2>1 DEF Held
    <2>4. Held(r, t) > 0 => r.master[t.owner].isOnline
      <3>1. CASE t.owner = m
        BY <1>1, <3>1
      <3>2. CASE t.owner # m
        <4>1. t \notin T /\ Held(r, t) = Held(s, t)
          BY <2>1, <2>3, <3>2 DEF Held
        <4>2. r.master[t.owner] = s.master[t.owner]
          BY <1>1, <3>2, TaskFacts DEF OthersSame
        <4> QED
          BY <2>1, <4>1, <4>2
      <3> QED
        BY <3>1, <3>2
    <2> QED
      BY <1>1, <2>1, <2>2, <2>3, <2>4
  <1>5. Quiet(r) /\ Blameless(r)
    BY <1>1 DEF Base, Quiet, Blameless, OthersSame
  <1> QED
    BY <1>1, <1>2, <1>3, <1>4, <1>5 DEF Base, r

\* The link comes up: the master's tasks are scheduled.
LEMMA OnLowerLayerUpEffect ==
    ASSUME NEW s, SInv(s), NEW m \in Masters, ~s.master[m].isOnline, ~s.isShutdown
    PROVE  LET r == OnLowerLayerUp(s, m)
           IN  /\ SInv(r) /\ OthersSame(s, r, m)
               /\ SeqStep(s.master[m], r.master[m])
  <1> DEFINE c == s.master[m]
             K == Configured \cup c.boundTasks
             T == {t \in Task : t.owner = m /\ t.kind \in K}
             d == [c EXCEPT !.isOnline = TRUE]
             x == Put(s, m, d)
             r == AddAll(x, T)
  <1>1. s \in System /\ c \in Context /\ Base(s) /\ Local(c)
    BY ContextFacts DEF SInv, Base
  <1>2. OnLowerLayerUp(s, m) = r
    BY <1>1 DEF OnLowerLayerUp, Put, System
  <1>3. T \in SUBSET Task /\ \A t \in T : t.owner = m
    OBVIOUS
  <1>4. T # {}
    <2>1. [owner |-> m, kind |-> "clearRestart"] \in T
      BY KindFacts DEF Task
    <2> QED
      BY <2>1
  <1>5. \A t \in T : IsRecurring(t)
    BY <1>1, KindFacts DEF Context
  <1>6. /\ d \in Context /\ d.isOnline /\ d.boundTasks = c.boundTasks
        /\ d.activeTask = c.activeTask /\ d.tstate = c.tstate /\ d.solSeq = c.solSeq
        /\ d.refused = c.refused /\ d.overlapped = c.overlapped
        /\ d.responseTimer = c.responseTimer /\ SameSending(c, d)
    BY <1>1 DEF Context, SameSending
  <1> HIDE DEF d
  <1>7. x \in System /\ SameRest(s, x) /\ OthersSame(s, x, m) /\ x.master[m] = d
    BY <1>1, <1>6, PutEffect
  <1> HIDE DEF x
  <1>8. \A t \in Task : Due(x, t) = Due(s, t) + (IF t \in T THEN 1 ELSE 0)
    <2> TAKE t \in Task
    <2>1. s.owed[t] \in 0..1 /\ x.owed = s.owed
      BY <1>1, <1>7 DEF Base, Accounted, SameRest
    <2>2. CASE ~IsRecurring(t)
      BY <1>5, <2>1, <2>2 DEF Due
    <2>3. CASE IsRecurring(t) /\ t.owner # m
      BY <1>3, <1>7, <2>3, TaskFacts DEF Due, OthersSame
    <2>4. CASE IsRecurring(t) /\ t.owner = m
      <3>1. Due(s, t) = 0
        BY <2>4 DEF Due
      <3>2. Due(x, t) = IF t \in T THEN 1 ELSE 0
        BY <1>6, <1>7, <2>4 DEF Due
      <3> QED
        BY <3>1, <3>2
    <2> QED
      BY <2>2, <2>3, <2>4
  <1>9. \A t \in Task : x.owed[t] \in 0..1
    BY <1>1, <1>7 DEF Base, Accounted, SameRest
  <1> HIDE DEF T
  <1>10. Base(r) /\ r.master = x.master /\ Woken(s, r)
    BY <1>1, <1>3, <1>4, <1>6, <1>7, <1>8, <1>9, ScheduleEffect DEF SameRest
  <1> HIDE DEF r
  <1>11. Local(d)
    BY <1>1, <1>6 DEF Local, Busy, Timed, Unstranded, SameSending
  <1>12. SInv(r)
    BY <1>7, <1>10, <1>11, WokenKeeps DEF SInv, OthersSame
  <1> QED
    BY <1>2, <1>6, <1>7, <1>10, <1>12 DEF OthersSame, SeqStep

\* AddScan: the task is scheduled if the master is online.
LEMMA AddScanEffect ==
    ASSUME NEW s, SInv(s), NEW m \in Masters, NEW kind \in UserScans,
           kind \notin s.master[m].boundTasks
    PROVE  Served(s, ScheduleRecurringPollTask(s, m, kind), m)
  <1> DEFINE c == s.master[m]
             t0 == [owner |-> m, kind |-> kind]
             T == {t0}
             d == [c EXCEPT !.boundTasks = @ \cup {kind}]
             x == Put(s, m, d)
             r == IF c.isOnline THEN AddAll(x, T) ELSE x
  <1>1. s \in System /\ c \in Context /\ Base(s) /\ Local(c)
    BY ContextFacts DEF SInv, Base
  <1>2. ScheduleRecurringPollTask(s, m, kind) = r
    BY <1>1 DEF ScheduleRecurringPollTask, Put, System, Add
  <1>3. t0 \in Task /\ t0.owner = m /\ t0.kind = kind /\ IsRecurring(t0)
    BY KindFacts DEF Task, Kinds
  <1>4. T \in SUBSET Task /\ T # {} /\ \A t : t \in T <=> t = t0
    BY <1>3
  <1>5. /\ d \in Context /\ d.isOnline = c.isOnline /\ d.boundTasks = c.boundTasks \cup {kind}
        /\ d.activeTask = c.activeTask /\ d.tstate = c.tstate /\ d.solSeq = c.solSeq
        /\ d.refused = c.refused /\ d.overlapped = c.overlapped
        /\ d.responseTimer = c.responseTimer /\ SameSending(c, d)
    BY <1>1 DEF Context, SameSending
  <1> HIDE DEF d
  <1>6. x \in System /\ SameRest(s, x) /\ OthersSame(s, x, m) /\ x.master[m] = d
    BY <1>1, <1>5, PutEffect
  <1> HIDE DEF x
  <1>7. \A t \in Task : Due(x, t) = Due(s, t) + (IF t = t0 /\ c.isOnline THEN 1 ELSE 0)
    <2> TAKE t \in Task
    <2>1. s.owed[t] \in 0..1 /\ x.owed = s.owed
      BY <1>1, <1>6 DEF Base, Accounted, SameRest
    <2>2. CASE ~IsRecurring(t)
      BY <1>3, <2>1, <2>2 DEF Due
    <2>3. CASE IsRecurring(t) /\ t.owner # m
      BY <1>3, <1>6, <2>3, TaskFacts DEF Due, OthersSame
    <2>4. CASE IsRecurring(t) /\ t.owner = m /\ t = t0
      BY <1>3, <1>5, <1>6, <2>4, KindFacts DEF Due
    <2>5. CASE IsRecurring(t) /\ t.owner = m /\ t # t0
      <3>1. t.kind # kind
        BY <1>3, <2>5 DEF Task
      <3> QED
        BY <1>5, <1>6, <2>5, <3>1 DEF Due
    <2> QED
      BY <2>2, <2>3, <2>4, <2>5
  <1>8. Local(d)
    BY <1>1, <1>5 DEF Local, Busy, Timed, Unstranded, SameSending
  <1>9. \A t \in Task : x.owed[t] \in 0..1
    BY <1>1, <1>6 DEF Base, Accounted, SameRest
  <1> HIDE DEF t0
  <1>10. CASE c.isOnline
    <2> HIDE DEF T
    <2> DEFINE q == AddAll(x, T)
    <2>1. r = q
      BY <1>10
    <2>2. ~s.isShutdown
      BY <1>1, <1>10 DEF Base, Quiet
    <2>3. \A t \in Task : Due(x, t) = Due(s, t) + (IF t \in T THEN 1 ELSE 0)
      BY <1>4, <1>7, <1>10
    <2>4. Base(q) /\ q.master = x.master /\ Woken(s, q)
      BY <1>1, <1>3, <1>4, <1>5, <1>6, <1>9, <1>10, <2>2, <2>3, ScheduleEffect DEF SameRest
    <2> HIDE DEF q, r
    <2> QED
      BY <1>2, <1>5, <1>6, <1>8, <2>1, <2>4 DEF Served, Handled, OthersSame, SeqStep
  <1>11. CASE ~c.isOnline
    <2>1. r = x
      BY <1>11
    <2> HIDE DEF r
    <2>2. Woken(s, x)
      BY <1>6 DEF SameRest, Woken, SameSchedule, Pending
    <2>3. Agree(x)
      BY <1>1, <1>5, <1>6 DEF Base, Agree, OthersSame, SameRest
    <2>4. Accounted(x)
      <3>1. \A t \in Task : Due(x, t) = Due(s, t) /\ Held(x, t) = Held(s, t)
        <4> TAKE t \in Task
        <4>1. Due(s, t) \in Int
          BY <1>1 DEF Base, Accounted, Due
        <4>2. Due(x, t) = Due(s, t)
          BY <1>7, <1>11, <4>1
        <4> QED
          BY <1>6, <4>2 DEF Held, SameRest
      <3>2. \A t \in Task : x.master[t.owner].isOnline = s.master[t.owner].isOnline
        BY <1>5, <1>6, TaskFacts DEF OthersSame
      <3> QED
        BY <1>1, <1>6, <3>1, <3>2 DEF Base, Accounted, SameRest
    <2>5. Quiet(x) /\ Blameless(x)
      BY <1>1, <1>5, <1>6 DEF Base, Quiet, Blameless, OthersSame, SameRest
    <2> QED
      BY <1>2, <1>5, <1>6, <1>8, <2>1, <2>2, <2>3, <2>4, <2>5
      DEF Served, Handled, Base, SeqStep
  <1> QED
    BY <1>10, <1>11

\* A master whose link went down has nothing left to do.
Down(s, m) == [CancelResponseTimer(s, m) EXCEPT !.master[m] = Disconnected(@)]

LEMMA DownEffect ==
    ASSUME NEW s \in System, NEW m \in Masters
    PROVE  LET r == Down(s, m)
               c == s.master[m]
               d == r.master[m]
           IN  /\ r \in System /\ SameRest(s, r) /\ OthersSame(s, r, m)
               /\ ~d.isOnline /\ d.activeTask = NoTask
               /\ d.refused = c.refused /\ d.overlapped = c.overlapped /\ Local(d)
  <1> DEFINE c == s.master[m]
             u == CancelResponseTimer(s, m)
             e == u.master[m]
             q == [old |-> e.confirmQueue.old + e.confirmQueue.new, new |-> 0]
             d == Disconnected(e)
             r == Put(u, m, d)
  <1>1. Private(s, u, m)
    BY CancelResponseTimerEffect
  <1>2. u \in System /\ e \in Context
    BY <1>1, ContextFacts DEF Private
  <1>3. Down(s, m) = r
    BY <1>2 DEF Down, Put, System
  <1> HIDE DEF u
  <1>4. q \in [old : Nat, new : Nat] /\ q.new = 0
    <2>1. e.confirmQueue.old \in Nat /\ e.confirmQueue.new \in Nat
      BY <1>2 DEF Context
    <2> QED
      BY <2>1
  <1>5. d = [e EXCEPT !.tstate = "IDLE", !.solSeq = 0, !.isOnline = FALSE,
                      !.isSending = FALSE, !.activeTask = NoTask,
                      !.requests = 0, !.rx = FALSE, !.confirmQueue = q]
    BY <1>2 DEF Disconnected, Context
  <1> HIDE DEF q, d
  <1>6. 0 \in 0..(SeqModulus - 1)
    BY SchedulerAssumption
  <1>7. /\ d \in Context /\ d.confirmQueue = q
        /\ d.refused = e.refused /\ d.overlapped = e.overlapped
        /\ ~d.isOnline /\ d.activeTask = NoTask /\ d.tstate = "IDLE"
    BY <1>2, <1>4, <1>5, <1>6 DEF Context, TaskStates
  <1>8. r \in System /\ SameRest(u, r) /\ OthersSame(u, r, m) /\ r.master[m] = d
    BY <1>2, <1>7, PutEffect
  <1> HIDE DEF r
  <1>9. Local(d)
    BY <1>4, <1>7 DEF Local, Busy, Timed, Unstranded
  <1>10. SameRest(s, r) /\ OthersSame(s, r, m)
    BY <1>1, <1>8 DEF Private, SameRest, OthersSame
  <1>11. r.master[m].refused = c.refused /\ r.master[m].overlapped = c.overlapped
    BY <1>1, <1>7, <1>8 DEF Private, SameBonds
  <1> QED
    BY <1>3, <1>7, <1>8, <1>9, <1>10, <1>11

\* The link goes down: the master's tasks are dropped, those of the users with a callback.
LEMMA OnLowerLayerDownEffect ==
    ASSUME NEW s, SInv(s), NEW m \in Masters, s.master[m].isOnline
    PROVE  LET r == OnLowerLayerDown(s, m)
           IN  SInv(r) /\ OthersSame(s, r, m) /\ ~r.master[m].isOnline
  <1> DEFINE y == Down(s, m)
             own == {t \in Scheduled(y) \cup {y.current} : t.owner = m}
             L == {t \in own : ~IsRecurring(t)}
             w == CompleteAll(y, L, "NO_COMMS")
             v == [t \in Task |-> IF t.owner = m THEN 0 ELSE w.tasks[t]]
             k == IF w.current.owner = m THEN NoTask ELSE w.current
             z == [w EXCEPT !.tasks = v, !.current = k]
             r == PostCheckForTaskRun(z)
  <1>1. s \in System /\ Base(s) /\ Pending(s) /\ ~s.isShutdown
    BY DEF SInv, Base, Quiet
  <1>2. /\ y \in System /\ SameRest(s, y) /\ OthersSame(s, y, m)
        /\ ~y.master[m].isOnline /\ y.master[m].activeTask = NoTask
        /\ y.master[m].refused = s.master[m].refused
        /\ y.master[m].overlapped = s.master[m].overlapped /\ Local(y.master[m])
    BY <1>1, DownEffect
  <1>3. OnLowerLayerDown(s, m) = SetRunnerOffline(y, m)
    BY DEF OnLowerLayerDown, Down
  <1> HIDE DEF y
  <1>4. SetRunnerOffline(y, m) = r
    <2>1. ~y.isShutdown
      BY <1>1, <1>2 DEF SameRest
    <2> QED
      BY <2>1, Zenon DEF SetRunnerOffline
  <1>5. L \in SUBSET Task /\ \A t \in L : t.owner = m /\ ~IsRecurring(t)
    BY <1>2, TaskFacts DEF System, Scheduled
  <1>6. \A t \in Task : t.owner = m /\ ~IsRecurring(t) /\ Held(s, t) > 0 => t \in L
    <2> SUFFICES ASSUME NEW t \in Task, t.owner = m, ~IsRecurring(t), Held(s, t) > 0
                 PROVE  t \in L
      OBVIOUS
    <2>1. s.tasks[t] > 0 \/ s.current = t
      BY <1>1 DEF System, Held
    <2> QED
      BY <1>2, <2>1 DEF SameRest, Scheduled
  <1>7. \A t \in L : Held(s, t) > 0
    <2> SUFFICES ASSUME NEW t \in L PROVE Held(s, t) > 0
      OBVIOUS
    <2>1. t \in Task /\ (y.tasks[t] > 0 \/ y.current = t)
      BY <1>5 DEF Scheduled
    <2> QED
      BY <1>1, <1>2, <2>1 DEF SameRest, System, Held
  <1> HIDE DEF L
  <1>8. w \in System /\ SameButCompleted(y, w)
    BY <1>2, <1>5, CompleteAllEffect
  <1>9. \A t \in Task : t \notin L => w.behavior[t] = s.behavior[t] /\ w.owed[t] = s.owed[t]
    <2>1. \A t \in Task : t \notin L => w.behavior[t] = y.behavior[t] /\ w.owed[t] = y.owed[t]
      BY <1>2, <1>5, OtherTask
    <2> QED
      BY <1>2, <2>1 DEF SameRest
  <1>10. \A t \in L : w.owed[t] = s.owed[t] - 1 /\ w.behavior[t].expiration = 0
    <2> SUFFICES ASSUME NEW t \in L
                 PROVE  w.owed[t] = s.owed[t] - 1 /\ w.behavior[t].expiration = 0
      OBVIOUS
    <2>1. /\ w.owed[t] = IF IsRecurring(t) THEN y.owed[t] ELSE y.owed[t] - 1
          /\ ~IsRecurring(t) => w.behavior[t] = InitialBehavior(t.kind)
      BY <1>2, <1>5, CompletedTask
    <2>2. ~IsRecurring(t) /\ y.owed = s.owed
      BY <1>2, <1>5 DEF SameRest
    <2> QED
      BY <2>1, <2>2, InitialBehaviorType DEF IsRecurring
  <1> HIDE DEF w
  <1>11. /\ v \in [Task -> Nat] /\ k \in Task \cup {NoTask}
         /\ \A t \in Task : v[t] = IF t.owner = m THEN 0 ELSE s.tasks[t]
         /\ k = IF s.current.owner = m THEN NoTask ELSE s.current
    <2>1. w.tasks = s.tasks /\ w.current = s.current
      BY <1>2, <1>8 DEF SameButCompleted, SameRest
    <2> QED
      BY <1>1, <2>1 DEF System
  <1> HIDE DEF v, k
  <1>12. /\ z \in System /\ z.master = w.master /\ z.behavior = w.behavior /\ z.owed = w.owed
         /\ z.tasks = v /\ z.current = k /\ z.isShutdown = w.isShutdown
         /\ z.taskCheckPending = w.taskCheckPending /\ z.posted = w.posted
    BY <1>8, <1>11 DEF System
  <1> HIDE DEF z
  <1>13. /\ z.master = y.master /\ ~z.isShutdown /\ Pending(z)
    BY <1>1, <1>2, <1>8, <1>12 DEF SameButCompleted, SameRest, Pending
  <1>14. r \in System /\ SameButPosted(z, r) /\ Pending(r) /\ r.posted
    BY <1>12, <1>13, PostEffect
  <1> HIDE DEF r
  <1>15. Agree(z)
    BY <1>1, <1>2, <1>11, <1>12, <1>13, TaskFacts DEF Base, Agree, OthersSame
  <1>16. Accounted(z)
    <2> SUFFICES ASSUME NEW t \in Task
                 PROVE  /\ Held(z, t) = Due(z, t)
                        /\ z.owed[t] \in 0..1
                        /\ Held(z, t) > 0 => z.master[t.owner].isOnline
                        /\ ~IsRecurring(t) => z.behavior[t].expiration = 0
      BY DEF Accounted
    <2>1. /\ Held(s, t) = Due(s, t) /\ s.owed[t] \in 0..1 /\ s.tasks[t] \in Nat
          /\ Held(s, t) > 0 => s.master[t.owner].isOnline
          /\ ~IsRecurring(t) => s.behavior[t].expiration = 0
      BY <1>1 DEF Base, Accounted, System
    <2>2. CASE t.owner # m
      <3>1. z.master[t.owner] = s.master[t.owner] /\ t \notin L
        BY <1>2, <1>5, <1>13, <2>2, TaskFacts DEF OthersSame
      <3>2. Held(z, t) = Held(s, t)
        BY <1>11, <1>12, <2>2, TaskFacts DEF Held
      <3>3. Due(z, t) = Due(s, t)
        BY <1>9, <1>12, <3>1 DEF Due
      <3> QED
        BY <1>9, <1>12, <2>1, <3>1, <3>2, <3>3
    <2>3. CASE t.owner = m
      <3>1. Held(z, t) = 0
        BY <1>11, <1>12, <2>3, TaskFacts DEF Held
      <3>2. CASE IsRecurring(t)
        <4>1. t \notin L
          BY <1>5, <3>2
        <4>2. Due(z, t) = 0
          BY <1>2, <1>13, <2>3, <3>2 DEF Due
        <4> QED
          BY <1>9, <1>12, <2>1, <3>1, <3>2, <4>1, <4>2
      <3>3. CASE ~IsRecurring(t) /\ t \in L
        <4>1. s.owed[t] = 1
          BY <1>7, <2>1, <3>3 DEF Due
        <4> QED
          BY <1>10, <1>12, <3>1, <3>3, <4>1 DEF Due
      <3>4. CASE ~IsRecurring(t) /\ t \notin L
        <4>1. s.owed[t] = 0
          BY <1>6, <2>1, <2>3, <3>4 DEF Due
        <4> QED
          BY <1>9, <1>12, <2>1, <3>1, <3>4, <4>1 DEF Due
      <3> QED
        BY <3>2, <3>3, <3>4
    <2> QED
      BY <2>2, <2>3
  <1>17. Blameless(z)
    BY <1>1, <1>2, <1>13 DEF Base, Blameless, OthersSame
  <1>18. Base(r)
    <2>1. Base(z)
      BY <1>12, <1>13, <1>15, <1>16, <1>17 DEF Base, Quiet
    <2> QED
      BY <1>14, <2>1, CoreBase DEF SameButPosted
  <1>19. Locals(r)
    BY <1>2, <1>13, <1>14 DEF Locals, SInv, OthersSame, SameButPosted, SameCore
  <1>20. Wakes(r) /\ Starts(r)
    BY <1>14 DEF Wakes, Starts
  <1>21. OthersSame(s, r, m) /\ ~r.master[m].isOnline
    BY <1>2, <1>13, <1>14 DEF OthersSame, SameButPosted, SameCore
  <1> QED
    BY <1>3, <1>4, <1>14, <1>18, <1>19, <1>20, <1>21 DEF SInv, Locals

\* With fewer one-shot tasks, all of them due, the scheduler wakes for the rest.
LEMMA FewerWakes ==
    ASSUME NEW s, Base(s), Wakes(s), NEW r \in System,
           r.posted = s.posted, r.current = s.current, r.taskTimer = s.taskTimer,
           \A t \in Scheduled(r) : t \in Scheduled(s) /\ r.behavior[t] = s.behavior[t],
           \A t \in Scheduled(s) : t \notin Scheduled(r) => ~IsRecurring(t)
    PROVE  Wakes(r)
  <1> SUFFICES ASSUME r.current = NoTask, NEW u \in Runnable(r), ~r.posted
               PROVE  \E t \in Runnable(r) : r.taskTimer <= ExpirationTime(r, t)
    BY DEF Wakes
  <1>1. \A t \in Scheduled(r) : ExpirationTime(r, t) = ExpirationTime(s, t)
    BY DEF ExpirationTime
  <1>2. u \in Runnable(s) /\ u \in Task /\ u \in Scheduled(r)
    BY <1>1 DEF Runnable, Scheduled
  <1>3. PICK t \in Runnable(s) : s.taskTimer <= ExpirationTime(s, t)
    BY <1>2 DEF Wakes
  <1>4. t \in Scheduled(s) /\ t \in Task /\ ExpirationTime(s, t) # Never
    BY <1>3 DEF Runnable, Scheduled
  <1>5. CASE t \in Scheduled(r)
    BY <1>1, <1>3, <1>4, <1>5 DEF Runnable
  <1>6. CASE t \notin Scheduled(r)
    <2>1. ExpirationTime(s, t) = 0
      BY <1>4, <1>6 DEF Base, Accounted, ExpirationTime
    <2>2. s.taskTimer \in Nat /\ ExpirationTime(s, u) \in Nat
      BY <1>2, ExpirationTimeType, DelayFacts DEF Base, System
    <2>3. r.taskTimer <= ExpirationTime(r, u)
      BY <1>1, <1>2, <1>3, <2>1, <2>2
    <2> QED
      BY <2>3
  <1> QED
    BY <1>5, <1>6

\* A user's task: it is scheduled, or the user is told at once that there are no comms.
LEMMA SubmitEffect ==
    ASSUME NEW s, SInv(s), NEW t0 \in Task, ~IsRecurring(t0), s.owed[t0] = 0
    PROVE  LET r == ScheduleAdhocTask(s, t0)
           IN  SInv(r) /\ r.master = s.master
  <1> DEFINE m == t0.owner
             T == {t0}
             o == [s.owed EXCEPT ![t0] = @ + 1]
             x == [s EXCEPT !.owed = o]
             q == AddAll(x, T)
             w == CompleteAll(x, T, "NO_COMMS")
  <1>1. s \in System /\ Base(s) /\ Locals(s) /\ m \in Masters
    BY TaskFacts DEF SInv, Base, Locals
  <1>2. /\ o \in [Task -> Int] /\ \A t \in Task : o[t] = s.owed[t] + (IF t = t0 THEN 1 ELSE 0)
        /\ \A t \in Task : s.owed[t] \in 0..1
    BY <1>1 DEF Base, Accounted, System
  <1>3. T \in SUBSET Task /\ T # {} /\ \A t : t \in T <=> t = t0
    OBVIOUS
  <1>4. ScheduleAdhocTask(s, t0) = IF s.master[m].isOnline THEN q ELSE w
    <2>1. [s EXCEPT !.owed[t0] = @ + 1] = x
      BY <1>1 DEF System
    <2> HIDE DEF x
    <2> QED
      BY <2>1 DEF ScheduleAdhocTask, Add, CompleteTask
  <1> HIDE DEF o, T
  <1>5. /\ x \in System /\ x.master = s.master /\ x.tasks = s.tasks /\ x.current = s.current
        /\ x.behavior = s.behavior /\ x.owed = o /\ x.isShutdown = s.isShutdown
        /\ x.taskCheckPending = s.taskCheckPending /\ x.posted = s.posted
        /\ x.taskTimer = s.taskTimer /\ x.taskStartTimeout = s.taskStartTimeout
    BY <1>1, <1>2 DEF System
  <1> HIDE DEF x, m
  <1>6. \A t \in Task : x.owed[t] \in 0..1
    BY <1>2, <1>5
  <1>7. CASE s.master[m].isOnline
    <2>1. ~s.isShutdown
      BY <1>1, <1>7 DEF Base, Quiet
    <2>2. \A t \in Task : Due(x, t) = Due(s, t) + (IF t \in T THEN 1 ELSE 0)
      BY <1>2, <1>3, <1>5 DEF Due
    <2>3. \A t \in T : t.owner = m
      BY <1>3 DEF m
    <2>4. OthersSame(s, x, m) /\ x.master[m] = s.master[m]
      BY <1>5 DEF OthersSame
    <2>5. Base(q) /\ q.master = x.master /\ Woken(s, q)
      BY <1>1, <1>3, <1>5, <1>6, <1>7, <2>1, <2>2, <2>3, <2>4, ScheduleEffect
    <2> HIDE DEF q
    <2>6. SInv(q)
      BY <1>1, <1>5, <2>5, WokenKeeps DEF SInv, Locals
    <2> QED
      BY <1>4, <1>5, <1>7, <2>5, <2>6
  <1>8. CASE ~s.master[m].isOnline
    <2>1. w \in System /\ SameButCompleted(x, w)
      BY <1>3, <1>5, CompleteAllEffect
    <2>2. \A t \in Task : t # t0 => w.behavior[t] = s.behavior[t] /\ w.owed[t] = s.owed[t]
      <3> SUFFICES ASSUME NEW t \in Task, t # t0
                   PROVE  w.behavior[t] = s.behavior[t] /\ w.owed[t] = s.owed[t]
        OBVIOUS
      <3>1. w.behavior[t] = x.behavior[t] /\ w.owed[t] = x.owed[t]
        BY <1>3, <1>5, OtherTask
      <3> QED
        BY <1>2, <1>5, <3>1
    <2>3. w.owed[t0] = 0 /\ w.behavior[t0].expiration = 0
      <3>1. /\ w.owed[t0] = IF IsRecurring(t0) THEN x.owed[t0] ELSE x.owed[t0] - 1
            /\ ~IsRecurring(t0) => w.behavior[t0] = InitialBehavior(t0.kind)
        BY <1>3, <1>5, CompletedTask
      <3> QED
        BY <1>2, <1>5, <3>1, InitialBehaviorType DEF IsRecurring
    <2> HIDE DEF w
    <2>4. /\ w.master = s.master /\ w.tasks = s.tasks /\ w.current = s.current
          /\ w.isShutdown = s.isShutdown /\ w.posted = s.posted
          /\ w.taskCheckPending = s.taskCheckPending
          /\ w.taskTimer = s.taskTimer /\ w.taskStartTimeout = s.taskStartTimeout
      BY <1>5, <2>1 DEF SameButCompleted
    <2>5. \A t \in Task : w.owed[t] = s.owed[t]
      BY <2>2, <2>3
    <2>6. Accounted(w)
      <3>1. \A t \in Task : Held(w, t) = Held(s, t) /\ Due(w, t) = Due(s, t)
        BY <2>4, <2>5 DEF Held, Due
      <3> QED
        BY <1>1, <2>2, <2>3, <2>4, <2>5, <3>1 DEF Base, Accounted
    <2>7. Agree(w) /\ Quiet(w) /\ Blameless(w)
      BY <1>1, <2>4 DEF Base, Agree, Quiet, Blameless
    <2>8. Base(w)
      BY <2>1, <2>6, <2>7 DEF Base
    <2>9. t0 \notin Scheduled(s) /\ Scheduled(w) = Scheduled(s)
      <3>1. Held(s, t0) = 0 /\ s.tasks[t0] \in Nat
        BY <1>1 DEF Base, Accounted, Due, System
      <3> QED
        BY <2>4, <3>1 DEF Held, Scheduled
    <2>10. \A t \in Scheduled(w) : t \in Scheduled(s) /\ w.behavior[t] = s.behavior[t]
      BY <2>2, <2>9 DEF Scheduled
    <2>11. Wakes(w)
      BY <1>1, <2>1, <2>4, <2>9, <2>10, FewerWakes DEF SInv
    <2>12. Starts(w) /\ Pending(w)
      BY <2>4, <2>10 DEF SInv, Starts, Pending
    <2> QED
      BY <1>1, <1>4, <1>8, <2>4, <2>8, <2>11, <2>12 DEF SInv, Locals
  <1> QED
    BY <1>7, <1>8

\* The tasks that did not start in time are complete.
LEMMA TimeoutTasksEffect ==
    ASSUME NEW s, Base(s), Locals(s), Pending(s), Wakes(s)
    PROVE  LET r == TimeoutTasks(s)
           IN  SInv(r) /\ r.master = s.master
  <1> DEFINE L == {t \in Scheduled(s) : ~IsRecurring(t) /\ s.behavior[t].startExpiration = 0}
             w == CompleteAll(s, L, "START_TIMEOUT")
             v == [t \in Task |-> IF t \in L THEN 0 ELSE w.tasks[t]]
             x == [w EXCEPT !.tasks = v]
             r == RestartTimeoutTimer(x)
  <1>1. CASE s.isShutdown
    BY <1>1, ShutdownKeeps DEF TimeoutTasks, SInv, Locals
  <1>2. CASE ~s.isShutdown
    <2>1. s \in System
      BY DEF Base
    <2>2. TimeoutTasks(s) = r
      BY <1>2, Zenon DEF TimeoutTasks
    <2>3. L \in SUBSET Task /\ \A t \in L : t \in Scheduled(s) /\ ~IsRecurring(t)
      BY DEF Scheduled
    <2> HIDE DEF L
    <2>4. w \in System /\ SameButCompleted(s, w)
      BY <2>1, <2>3, CompleteAllEffect
    <2>5. \A t \in Task : t \notin L => w.behavior[t] = s.behavior[t] /\ w.owed[t] = s.owed[t]
      BY <2>1, <2>3, OtherTask
    <2>6. \A t \in L : w.owed[t] = s.owed[t] - 1 /\ w.behavior[t].expiration = 0
      <3> SUFFICES ASSUME NEW t \in L
                   PROVE  w.owed[t] = s.owed[t] - 1 /\ w.behavior[t].expiration = 0
        OBVIOUS
      <3>1. /\ w.owed[t] = IF IsRecurring(t) THEN s.owed[t] ELSE s.owed[t] - 1
            /\ ~IsRecurring(t) => w.behavior[t] = InitialBehavior(t.kind)
        BY <2>1, <2>3, CompletedTask
      <3> QED
        BY <2>3, <3>1, InitialBehaviorType DEF IsRecurring
    <2> HIDE DEF w
    <2>7. /\ v \in [Task -> Nat] /\ \A t \in Task : v[t] = IF t \in L THEN 0 ELSE s.tasks[t]
      BY <2>1, <2>4 DEF System, SameButCompleted
    <2> HIDE DEF v
    <2>8. /\ x \in System /\ x.master = s.master /\ x.behavior = w.behavior /\ x.owed = w.owed
          /\ x.tasks = v /\ x.current = s.current /\ x.isShutdown = s.isShutdown
          /\ x.taskCheckPending = s.taskCheckPending /\ x.posted = s.posted
          /\ x.taskTimer = s.taskTimer
      BY <2>4, <2>7 DEF System, SameButCompleted
    <2> HIDE DEF x
    <2>9. /\ r \in System /\ SameCore(x, r)
          /\ r.taskCheckPending = x.taskCheckPending /\ r.posted = x.posted
          /\ r.taskTimer = x.taskTimer
          /\ \A t \in Scheduled(x) : ~IsRecurring(t) =>
                r.taskStartTimeout <= x.behavior[t].startExpiration
      BY <2>8, RestartTimeoutTimerEffect
    <2> HIDE DEF r
    <2>10. Accounted(x)
      <3> SUFFICES ASSUME NEW t \in Task
                   PROVE  /\ Held(x, t) = Due(x, t)
                          /\ x.owed[t] \in 0..1
                          /\ Held(x, t) > 0 => x.master[t.owner].isOnline
                          /\ ~IsRecurring(t) => x.behavior[t].expiration = 0
        BY DEF Accounted
      <3>1. /\ Held(s, t) = Due(s, t) /\ s.owed[t] \in 0..1 /\ s.tasks[t] \in Nat
            /\ Held(s, t) > 0 => s.master[t.owner].isOnline
            /\ ~IsRecurring(t) => s.behavior[t].expiration = 0
        BY DEF Base, Accounted, System
      <3>2. CASE t \notin L
        <4>1. Held(x, t) = Held(s, t) /\ Due(x, t) = Due(s, t)
          BY <2>5, <2>7, <2>8, <3>2 DEF Held, Due
        <4> QED
          BY <2>5, <2>8, <3>1, <3>2, <4>1
      <3>3. CASE t \in L
        <4>1. ~IsRecurring(t) /\ s.tasks[t] > 0
          BY <2>3, <3>3 DEF Scheduled
        <4>2. s.owed[t] = 1 /\ s.current # t
          BY <3>1, <4>1 DEF Held, Due
        <4>3. Held(x, t) = 0
          BY <2>7, <2>8, <3>3, <4>2 DEF Held
        <4> QED
          BY <2>6, <2>8, <3>3, <4>1, <4>2, <4>3 DEF Due
      <3> QED
        BY <3>2, <3>3
    <2>11. Agree(x) /\ Quiet(x) /\ Blameless(x)
      BY <1>2, <2>8 DEF Base, Agree, Quiet, Blameless
    <2>12. Base(r)
      <3>1. Base(x)
        BY <2>8, <2>10, <2>11 DEF Base
      <3> QED
        BY <2>9, <3>1, CoreBase
    <2>13. \A t \in Task : t \in Scheduled(r) <=> t \in Scheduled(s) /\ t \notin L
      BY <2>1, <2>7, <2>8, <2>9 DEF SameCore, Scheduled
    <2>14. \A t \in Scheduled(r) : t \in Scheduled(s) /\ r.behavior[t] = s.behavior[t]
      BY <2>5, <2>8, <2>9, <2>13 DEF SameCore, Scheduled
    <2>15. \A t \in Scheduled(s) : t \notin Scheduled(r) => ~IsRecurring(t)
      BY <2>3, <2>13 DEF Scheduled
    <2>16. Wakes(r)
      BY <2>8, <2>9, <2>14, <2>15, FewerWakes DEF SameCore
    <2>17. Pending(r) /\ Starts(r)
      BY <2>8, <2>9 DEF SameCore, Pending, Starts, Scheduled
    <2>18. r.master = s.master
      BY <2>8, <2>9 DEF SameCore
    <2> QED
      BY <2>2, <2>12, <2>16, <2>17, <2>18 DEF SInv, Locals
  <1> QED
    BY <1>1, <1>2

\* The scheduler is shut down.
LEMMA ShutdownEffect ==
    ASSUME NEW s, SInv(s), \A m \in Masters : ~s.master[m].isOnline
    PROVE  LET r == Shutdown(s)
           IN  SInv(r) /\ r.master = s.master
  <1> DEFINE r == Shutdown(s)
             v == [t \in Task |-> 0]
  <1>1. s \in System /\ Base(s)
    BY DEF SInv, Base
  <1>2. v \in [Task -> Nat] /\ \A t \in Task : v[t] = 0
    OBVIOUS
  <1>3. r = [s EXCEPT !.isShutdown = TRUE, !.tasks = v, !.current = NoTask,
                      !.taskTimer = Never, !.taskStartTimeout = Never]
    BY DEF Shutdown
  <1> HIDE DEF v, r
  <1>4. /\ r \in System /\ r.master = s.master /\ r.behavior = s.behavior /\ r.owed = s.owed
        /\ r.tasks = v /\ r.current = NoTask /\ r.isShutdown = TRUE
    BY <1>1, <1>2, <1>3, DelayFacts DEF System
  <1>5. \A t \in Task : Held(s, t) = 0 /\ Due(s, t) = 0
    <2> TAKE t \in Task
    <2>1. Held(s, t) = 0
      BY <1>1, HeldFacts, TaskFacts DEF Base, Accounted
    <2> QED
      BY <1>1, <2>1 DEF Base, Accounted
  <1>6. \A t \in Task : Held(r, t) = 0 /\ Due(r, t) = 0
    BY <1>2, <1>4, <1>5, TaskFacts DEF Held, Due
  <1>7. Accounted(r)
    BY <1>1, <1>4, <1>6 DEF Base, Accounted
  <1>8. Agree(r)
    <2>1. \A m \in Masters : s.master[m].activeTask = NoTask
      BY <1>1, ActiveFacts
    <2> QED
      BY <1>4, <2>1, TaskFacts DEF Agree
  <1>9. Quiet(r) /\ Blameless(r)
    BY <1>1, <1>2, <1>4 DEF Base, Quiet, Blameless
  <1>10. Base(r)
    BY <1>4, <1>7, <1>8, <1>9 DEF Base
  <1>11. SInv(r)
    BY <1>4, <1>10, ShutdownKeeps DEF SInv
  <1> QED
    BY <1>4, <1>11 DEF r

\* A delay gets shorter until it is over; one that is never over stays.
LEMMA SoonerFacts ==
    /\ \A d \in Delay : Sooner(d) \in Delay /\ (Sooner(d) = Never <=> d = Never)
    /\ \A d, e \in Delay : d <= e => Sooner(d) <= Sooner(e)
    /\ Sooner(0) = 0
  BY DelayFacts DEF Sooner, Delay

\* Time passes for all of the delays alike.
LEMMA PassedEffect ==
    ASSUME NEW s, SInv(s)
    PROVE  SInv(Passed(s)) /\ Passed(s).master = s.master
  <1> DEFINE b == [t \in Task |-> Aged(s, t)]
             i == Sooner(s.taskTimer)
             j == Sooner(s.taskStartTimeout)
             r == [s EXCEPT !.behavior = b, !.taskTimer = i, !.taskStartTimeout = j]
  <1>1. /\ s \in System /\ Base(s) /\ s.taskTimer \in Delay /\ s.taskStartTimeout \in Delay
        /\ \A t \in Task : s.behavior[t] \in Behavior
    BY DEF SInv, Base, System
  <1>2. \A t \in Task :
            /\ Aged(s, t) \in Behavior
            /\ Aged(s, t).expiration = Sooner(s.behavior[t].expiration)
            /\ t \in Scheduled(s) => Aged(s, t).startExpiration = Sooner(s.behavior[t].startExpiration)
    <2> TAKE t \in Task
    <2>1. s.behavior[t] \in Behavior
      BY <1>1
    <2> QED
      BY <2>1, SoonerFacts DEF Aged, Behavior
  <1>3. b \in [Task -> Behavior] /\ \A t \in Task : b[t] = Aged(s, t)
    BY <1>2
  <1>4. i \in Delay /\ j \in Delay
    BY <1>1, SoonerFacts
  <1>5. Passed(s) = r
    BY DEF Passed
  <1> HIDE DEF b, i, j
  <1>6. /\ r \in System /\ r.behavior = b /\ r.taskTimer = i /\ r.taskStartTimeout = j
        /\ r.master = s.master /\ r.owed = s.owed /\ r.tasks = s.tasks
        /\ r.current = s.current /\ r.isShutdown = s.isShutdown
        /\ r.taskCheckPending = s.taskCheckPending /\ r.posted = s.posted
    BY <1>1, <1>3, <1>4 DEF System
  <1> HIDE DEF r
  <1>7. Accounted(r)
    <2>1. \A t \in Task : Held(r, t) = Held(s, t) /\ Due(r, t) = Due(s, t)
      BY <1>6 DEF Held, Due
    <2>2. \A t \in Task : s.behavior[t].expiration = 0 => r.behavior[t].expiration = 0
      BY <1>2, <1>3, <1>6, SoonerFacts
    <2> QED
      BY <1>1, <1>6, <2>1, <2>2 DEF Base, Accounted
  <1>8. Agree(r) /\ Quiet(r) /\ Blameless(r)
    BY <1>1, <1>6 DEF Base, Agree, Quiet, Blameless
  <1>9. Scheduled(r) = Scheduled(s)
    BY <1>6 DEF Scheduled
  <1>10. \A t \in Task : ExpirationTime(r, t) = Sooner(ExpirationTime(s, t))
    <2>1. Sooner(Never) = Never
      BY SoonerFacts, DelayFacts
    <2> QED
      BY <1>2, <1>3, <1>6, <2>1 DEF ExpirationTime
  <1>11. Wakes(r)
    <2>1. \A t \in Task : ExpirationTime(s, t) \in Delay
      BY <1>1, ExpirationTimeType
    <2>2. \A t \in Task : t \in Runnable(r) <=> t \in Runnable(s)
      BY <1>9, <1>10, <2>1, SoonerFacts DEF Runnable
    <2> SUFFICES ASSUME r.current = NoTask, NEW u \in Runnable(r), ~r.posted
                 PROVE  \E t \in Runnable(r) : r.taskTimer <= ExpirationTime(r, t)
      BY DEF Wakes
    <2>3. u \in Runnable(s)
      BY <2>2 DEF Runnable, Scheduled
    <2>4. PICK t \in Runnable(s) : s.taskTimer <= ExpirationTime(s, t)
      BY <1>6, <2>3 DEF SInv, Wakes
    <2>5. t \in Task /\ t \in Runnable(r)
      BY <2>2, <2>4 DEF Runnable, Scheduled
    <2>6. r.taskTimer <= ExpirationTime(r, t)
      BY <1>1, <1>6, <1>10, <2>1, <2>4, <2>5, SoonerFacts DEF i
    <2> QED
      BY <2>5, <2>6
  <1>12. Starts(r)
    <2> SUFFICES ASSUME NEW t \in Scheduled(r), ~IsRecurring(t), ~r.posted
                 PROVE  r.taskStartTimeout <= r.behavior[t].startExpiration
      BY DEF Starts
    <2>1. t \in Scheduled(s) /\ t \in Task
      BY <1>9 DEF Scheduled
    <2>2. s.taskStartTimeout <= s.behavior[t].startExpiration
      BY <1>6, <2>1 DEF SInv, Starts
    <2>3. s.behavior[t].startExpiration \in Delay
      BY <1>1, <2>1 DEF Behavior
    <2>4. r.behavior[t].startExpiration = Sooner(s.behavior[t].startExpiration)
      BY <1>2, <1>3, <1>6, <2>1
    <2> QED
      BY <1>1, <1>6, <2>2, <2>3, <2>4, SoonerFacts DEF j
  <1>13. Pending(r) /\ Locals(r)
    BY <1>6 DEF SInv, Pending, Locals
  <1> QED
    BY <1>5, <1>6, <1>7, <1>8, <1>11, <1>12, <1>13 DEF SInv, Base, Locals

-----------------------------------------------------------------------------
(***************************************************************************)
(* Answers in transit.                                                     *)
(***************************************************************************)

\* The round of sequence numbers
LEMMA ModFacts ==
    ASSUME NEW n \in 0..(SeqModulus - 1)
    PROVE  (n + 1) % SeqModulus = IF n + 1 = SeqModulus THEN 0 ELSE n + 1
  <1>1. SeqModulus \in Nat /\ SeqModulus > 0 /\ n \in Nat /\ n < SeqModulus
    BY SchedulerAssumption
  <1>2. CASE n + 1 = SeqModulus
    BY <1>1, <1>2
  <1>3. CASE n + 1 < SeqModulus
    BY <1>1, <1>3
  <1> QED
    BY <1>1, <1>2, <1>3

\* An answer that is as late as its number says is one later when the number goes on.
LEMMA DatedStep ==
    ASSUME NEW c \in Context, NEW d \in Context, d.solSeq = (c.solSeq + 1) % SeqModulus,
           NEW a \in Answer, Dated(c, a), a.age < MaxAge
    PROVE  LET b == [a EXCEPT !.age = @ + 1]
           IN  b \in Answer /\ b.age = a.age + 1 /\ Dated(d, b)
  <1> DEFINE b == [a EXCEPT !.age = @ + 1]
  <1>1. /\ c.solSeq \in 0..(SeqModulus - 1) /\ a.seq \in 0..(SeqModulus - 1)
        /\ a.age \in 0..MaxAge /\ SeqModulus \in Nat /\ MaxAge \in Nat /\ MaxAge < SeqModulus
    BY SchedulerAssumption, EnvironmentAssumption DEF Context, Answer
  <1>2. b \in Answer /\ b.age = a.age + 1 /\ b.seq = a.seq
    BY <1>1 DEF Answer
  <1>3. d.solSeq = IF c.solSeq + 1 = SeqModulus THEN 0 ELSE c.solSeq + 1
    BY <1>1, ModFacts
  <1>4. a.seq + a.age = c.solSeq \/ a.seq + a.age = c.solSeq + SeqModulus
    BY DEF Dated
  <1> HIDE DEF b
  <1>5. b.seq + b.age = d.solSeq \/ b.seq + b.age = d.solSeq + SeqModulus
    <2>1. /\ c.solSeq \in Nat /\ c.solSeq < SeqModulus /\ a.seq \in Nat /\ a.seq < SeqModulus
          /\ a.age \in Nat /\ a.age + 1 < SeqModulus /\ b.seq + b.age = a.seq + a.age + 1
      BY <1>1, <1>2
    <2>2. CASE c.solSeq + 1 = SeqModulus
      <3>1. d.solSeq = 0 /\ a.seq + a.age # c.solSeq + SeqModulus
        BY <1>1, <1>3, <2>1, <2>2
      <3> QED
        BY <1>1, <1>4, <2>1, <2>2, <3>1
    <2>3. CASE c.solSeq + 1 # SeqModulus
      <3>1. d.solSeq = c.solSeq + 1
        BY <1>3, <2>3
      <3> QED
        BY <1>1, <1>4, <2>1, <3>1
    <2> QED
      BY <2>2, <2>3
  <1> QED
    BY <1>2, <1>5 DEF Dated, b

\* What is in transit stays so for a master that is online and waits for the same number.
LEMMA SameFlight ==
    ASSUME NEW c, NEW d, NEW q, Flight(c, q), d.solSeq = c.solSeq, d.isOnline
    PROVE  Flight(d, q)
  BY DEF Flight, Dated

\* The oldest answer arrives or is lost.
LEMMA TailFlight ==
    ASSUME NEW c, NEW q, Flight(c, q), q # <<>>
    PROVE  Flight(c, Tail(q))
  <1>1. q \in Seq(Answer) /\ Len(q) \in Nat \ {0}
    BY DEF Flight
  <1>2. /\ Tail(q) \in Seq(Answer) /\ Len(Tail(q)) = Len(q) - 1
        /\ \A i \in 1..Len(Tail(q)) : i + 1 \in 1..Len(q) /\ Tail(q)[i] = q[i + 1]
    BY <1>1
  <1>3. \A i, j \in 1..Len(Tail(q)) : i < j => q[i + 1].age > q[j + 1].age
    <2> TAKE i, j \in 1..Len(Tail(q))
    <2> HAVE i < j
    <2>1. i + 1 \in 1..Len(q) /\ j + 1 \in 1..Len(q) /\ i + 1 < j + 1
      BY <1>1, <1>2
    <2> QED
      BY <2>1 DEF Flight
  <1> QED
    BY <1>1, <1>2, <1>3 DEF Flight

\* When a request is no longer waited for, all answers are one later. One that would be
\* later than the bound is the oldest.
LEMMA OlderFlight ==
    ASSUME NEW c \in Context, NEW d \in Context, d.solSeq = (c.solSeq + 1) % SeqModulus,
           d.isOnline, NEW q, Flight(c, q)
    PROVE  Flight(d, Older(q))
  <1> DEFINE N == Len(q)
             b(i) == [q[i] EXCEPT !.age = @ + 1]
             aged == [i \in DOMAIN q |-> b(i)]
  <1>1. /\ q \in Seq(Answer) /\ N \in Nat /\ DOMAIN q = 1..N
        /\ \A i \in 1..N : q[i] \in Answer /\ Dated(c, q[i])
        /\ MaxAge \in Nat
    BY EnvironmentAssumption DEF Flight
  <1>2. \A i \in 1..N : q[i].age \in 0..MaxAge
    BY <1>1 DEF Answer
  <1>3. \A i, j \in 1..N : i < j => q[i].age > q[j].age
    BY DEF Flight
  <1>4. \A i \in 1..N : q[i].age < MaxAge =>
            b(i) \in Answer /\ b(i).age = q[i].age + 1 /\ Dated(d, b(i))
    BY <1>1, DatedStep
  <1>5. Older(q) = IF q # <<>> /\ Head(q).age = MaxAge THEN Tail(aged) ELSE aged
    BY DEF Older
  <1>6. DOMAIN aged = 1..N /\ \A i \in 1..N : aged[i] = b(i)
    BY <1>1
  <1> HIDE DEF b
  <1>7. CASE q = <<>> \/ Head(q).age # MaxAge
    <2>1. \A i \in 1..N : q[i].age < MaxAge
      <3> TAKE i \in 1..N
      <3>1. N > 0 /\ Head(q) = q[1] /\ q[1].age < MaxAge
        BY <1>1, <1>2, <1>7
      <3>2. CASE i = 1
        BY <3>1, <3>2
      <3>3. CASE i # 1
        <4>1. q[1].age > q[i].age
          BY <1>1, <1>3, <3>3
        <4> QED
          BY <1>1, <1>2, <3>1, <4>1
      <3> QED
        BY <3>2, <3>3
    <2>2. /\ \A i \in 1..N : b(i) \in Answer
          /\ \A i \in 1..N : b(i).age = q[i].age + 1
          /\ \A i \in 1..N : Dated(d, b(i))
      BY <1>4, <2>1
    <2>3. aged \in Seq(Answer) /\ Len(aged) = N
      BY <1>1, <2>2
    <2>4. \A i, j \in 1..N : i < j => aged[i].age > aged[j].age
      BY <1>2, <1>3, <1>6, <2>2
    <2>5. Older(q) = aged
      BY <1>5, <1>7
    <2> HIDE DEF aged
    <2> QED
      BY <1>6, <2>2, <2>3, <2>4, <2>5 DEF Flight
  <1>8. CASE q # <<>> /\ Head(q).age = MaxAge
    <2> DEFINE z == Tail(aged)
    <2>1. N \in Nat \ {0} /\ q[1].age = MaxAge
      BY <1>1, <1>8
    <2>2. \A i \in 1..(N - 1) : i + 1 \in 1..N /\ q[i + 1].age < MaxAge
      <3> TAKE i \in 1..(N - 1)
      <3>1. i + 1 \in 1..N /\ 1 \in 1..N /\ 1 < i + 1
        BY <2>1
      <3> QED
        BY <1>2, <1>3, <2>1, <3>1
    <2>3. aged \in Seq({b(i) : i \in 1..N}) /\ Len(aged) = N
      BY <1>1
    <2>4. DOMAIN z = 1..(N - 1) /\ Len(z) = N - 1 /\ \A i \in 1..(N - 1) : z[i] = b(i + 1)
      <3> HIDE DEF aged
      <3>1. Len(z) = N - 1 /\ z \in Seq({b(i) : i \in 1..N})
        BY <2>1, <2>3
      <3>2. \A i \in 1..(N - 1) : z[i] = aged[i + 1]
        BY <2>1, <2>3, <3>1
      <3> QED
        BY <1>6, <2>2, <3>1, <3>2
    <2>5. z \in Seq({b(i) : i \in 1..N})
      BY <2>1, <2>3
    <2>6. Older(q) = z
      BY <1>5, <1>8
    <2> HIDE DEF z, aged
    <2>7. /\ \A i \in 1..(N - 1) : z[i] \in Answer
          /\ \A i \in 1..(N - 1) : z[i].age = q[i + 1].age + 1
          /\ \A i \in 1..(N - 1) : Dated(d, z[i])
      BY <1>4, <2>2, <2>4
    <2>8. z \in Seq(Answer)
      BY <2>1, <2>4, <2>5, <2>7
    <2>9. \A i, j \in 1..(N - 1) : i < j => z[i].age > z[j].age
      <3> TAKE i, j \in 1..(N - 1)
      <3> HAVE i < j
      <3>1. i + 1 \in 1..N /\ j + 1 \in 1..N /\ i + 1 < j + 1
        BY <2>1
      <3>2. q[i + 1].age > q[j + 1].age
        BY <1>3, <3>1
      <3> QED
        BY <1>2, <2>7, <3>1, <3>2
    <2> QED
      BY <2>4, <2>6, <2>7, <2>8, <2>9 DEF Flight
  <1> QED
    BY <1>7, <1>8

\* An answer to the request that is waited for is the latest of all.
LEMMA AnswerFlight ==
    ASSUME NEW c \in Context, c.isOnline, NEW q, Flight(c, q),
           \A i \in DOMAIN q : q[i].age > 0
    PROVE  Flight(c, Append(q, [seq |-> c.solSeq, age |-> 0]))
  <1> DEFINE a == [seq |-> c.solSeq, age |-> 0]
             z == Append(q, a)
             N == Len(q)
  <1>1. q \in Seq(Answer) /\ N \in Nat /\ DOMAIN q = 1..N /\ \A i \in 1..N : q[i] \in Answer
    BY DEF Flight
  <1>2. a \in Answer /\ a.age = 0 /\ Dated(c, a)
    BY EnvironmentAssumption, SchedulerAssumption DEF Context, Answer, Dated
  <1> HIDE DEF a
  <1>3. /\ z \in Seq(Answer) /\ Len(z) = N + 1 /\ z[N + 1] = a
        /\ \A i \in 1..N : z[i] = q[i]
    BY <1>1, <1>2
  <1> HIDE DEF z
  <1>4. \A i \in 1..(N + 1) : Dated(c, z[i])
    <2> TAKE i \in 1..(N + 1)
    <2>1. i \in 1..N \/ i = N + 1
      BY <1>1
    <2> QED
      BY <1>2, <1>3, <2>1 DEF Flight
  <1>5. \A i, j \in 1..(N + 1) : i < j => z[i].age > z[j].age
    <2> TAKE i, j \in 1..(N + 1)
    <2> HAVE i < j
    <2>1. i \in 1..N
      BY <1>1
    <2>2. CASE j = N + 1
      BY <1>1, <1>2, <1>3, <2>1, <2>2
    <2>3. CASE j # N + 1
      <3>1. j \in 1..N
        BY <1>1, <2>3
      <3> QED
        BY <1>3, <2>1, <3>1 DEF Flight
    <2> QED
      BY <2>2, <2>3
  <1> QED
    BY <1>3, <1>4, <1>5 DEF Flight, z, a

\* What is in transit to a master when the system becomes r.
LEMMA InTransitFlight ==
    ASSUME SInv(system), NEW r, SInv(r), NEW m \in Masters, NEW q,
           Flight(system.master[m], q),
           r.master[m].isOnline => SeqStep(system.master[m], r.master[m])
    PROVE  Flight(r.master[m], InTransit(r, m, q))
  <1> DEFINE c == system.master[m]
             d == r.master[m]
  <1>1. c \in Context /\ d \in Context
    BY ContextFacts DEF SInv, Base
  <1>2. CASE ~d.isOnline
    <2>1. InTransit(r, m, q) = <<>>
      BY <1>2 DEF InTransit
    <2>2. <<>> \in Seq(Answer) /\ Len(<<>>) = 0
      OBVIOUS
    <2> QED
      BY <2>1, <2>2 DEF Flight
  <1>3. CASE d.isOnline
    <2> DEFINE stays == \/ c.tstate # "WAIT_FOR_RESPONSE"
                        \/ d.tstate = "WAIT_FOR_RESPONSE" /\ d.solSeq = c.solSeq
    <2>1. CASE stays
      <3>1. InTransit(r, m, q) = q /\ d.solSeq = c.solSeq
        BY <1>3, <2>1 DEF InTransit, SeqStep
      <3> QED
        BY <1>3, <3>1, SameFlight
    <2>2. CASE ~stays
      <3>1. InTransit(r, m, q) = Older(q) /\ d.solSeq = (c.solSeq + 1) % SeqModulus
        BY <1>3, <2>2 DEF InTransit, SeqStep
      <3> QED
        BY <1>1, <1>3, <3>1, OlderFlight
    <2> QED
      BY <2>1, <2>2
  <1> QED
    BY <1>2, <1>3

\* What every step does to the sequence numbers of the masters that are online after it
Onward(s, r) ==
    \A m \in Masters : r.master[m].isOnline => SeqStep(s.master[m], r.master[m])

LEMMA SameOnward ==
    ASSUME NEW s, NEW r, r.master = s.master
    PROVE  Onward(s, r)
  BY DEF Onward, SeqStep

LEMMA IdleOnward ==
    ASSUME NEW s, NEW r, IdleOnly(s, r)
    PROVE  Onward(s, r)
  BY DEF Onward, SeqStep, IdleOnly, SameLink

LEMMA OneOnward ==
    ASSUME NEW s, NEW r, NEW m \in Masters, OthersSame(s, r, m),
           r.master[m].isOnline => SeqStep(s.master[m], r.master[m])
    PROVE  Onward(s, r)
  BY DEF Onward, OthersSame, SeqStep

-----------------------------------------------------------------------------
(***************************************************************************)
(* The invariant holds at first and after every step.                      *)
(***************************************************************************)

\* A step to a system that the scheduler and the masters agree on
LEMMA BecomesInv ==
    ASSUME IInv, NEW r, SInv(r), Onward(system, r), Becomes(r)
    PROVE  IInv'
  <1>1. /\ system' = r /\ scenario' = scenario
        /\ answers' = [m \in Masters |-> InTransit(r, m, answers[m])]
    BY DEF Becomes, MayBecome
  <1>2. \A m \in Masters : Flight(r.master[m], InTransit(r, m, answers[m]))
    BY InTransitFlight DEF IInv, Onward
  <1>3. \A m \in Masters : InTransit(r, m, answers[m]) \in Seq(Answer)
    BY <1>2 DEF Flight
  <1>4. answers' \in [Masters -> Seq(Answer)]
    BY <1>1, <1>3
  <1>5. \A m \in Masters : Flight(system'.master[m], answers'[m])
    BY <1>1, <1>2
  <1> QED
    BY <1>1, <1>4, <1>5 DEF IInv

\* A handler of a master
LEMMA ServedInv ==
    ASSUME IInv, NEW m \in Masters, NEW r, Served(system, r, m), Becomes(r)
    PROVE  IInv'
  <1>1. SInv(r)
    BY HandledKeeps DEF IInv, Served
  <1>2. Onward(system, r)
    BY OneOnward DEF Served, Handled
  <1> QED
    BY <1>1, <1>2, BecomesInv

LEMMA FitsType ==
    ASSUME NEW T, NEW fits \in Fits(T)
    PROVE  fits \in BOOLEAN
  BY DEF Fits

\* A look at the tasks, of a scheduler that has stopped its timer or changed the tasks
LEMMA CheckInv ==
    ASSUME IInv, NEW checked, Base(checked), checked.master = system.master, Check(checked)
    PROVE  IInv'
  <1>1. PICK best \in Choice(checked), fits \in BOOLEAN :
            Becomes(CheckForTaskRun(checked, best, fits))
    BY FitsType DEF Check, Choice
  <1>2. Locals(checked)
    BY DEF IInv, SInv, Locals
  <1> DEFINE r == CheckForTaskRun(checked, best, fits)
  <1>3. SInv(r) /\ IdleOnly(checked, r)
    BY <1>2, CheckEffect
  <1> HIDE DEF r
  <1>4. Onward(system, r)
    BY <1>3, IdleOnward DEF Onward
  <1> QED
    BY <1>1, <1>3, <1>4, BecomesInv DEF r

\* The start timeout, of a scheduler that has stopped its timer or has not
LEMMA TimeoutInv ==
    ASSUME IInv, NEW s, Base(s), Pending(s), Wakes(s), s.master = system.master,
           Becomes(TimeoutTasks(s))
    PROVE  IInv'
  <1>1. Locals(s)
    BY DEF IInv, SInv, Locals
  <1>2. SInv(TimeoutTasks(s)) /\ TimeoutTasks(s).master = s.master
    BY <1>1, TimeoutTasksEffect
  <1>3. Onward(system, TimeoutTasks(s))
    BY <1>2, SameOnward
  <1> QED
    BY <1>2, <1>3, BecomesInv

\* A response arrives.
LEMMA ReceiveResponseInv ==
    ASSUME IInv, NEW m \in Masters, ReceiveResponse(m)
    PROVE  IInv'
  <1>1. PICK f \in Responses, fits \in BOOLEAN :
            LET r == OnSolicited(system, m, Head(answers[m]).seq, f, fits)
            IN  /\ MayBecome(r)
                /\ answers' = [answers EXCEPT ![m] = InTransit(r, m, Tail(@))]
    BY FitsType DEF ReceiveResponse
  <1> DEFINE r == OnSolicited(system, m, Head(answers[m]).seq, f, fits)
             q == InTransit(r, m, Tail(answers[m]))
  <1>2. f \in Response /\ system.master[m].isOnline /\ SInv(system) /\ answers[m] # <<>>
    BY EnvironmentAssumption DEF ReceiveResponse, IInv, Flight
  <1>3. Served(system, r, m)
    BY <1>2, OnSolicitedEffect
  <1>4. system' = r /\ scenario' = scenario /\ answers' = [answers EXCEPT ![m] = q]
    BY <1>1 DEF MayBecome
  <1> HIDE DEF r
  <1>5. SInv(r) /\ OthersSame(system, r, m)
    BY <1>2, <1>3, HandledKeeps DEF Served, Handled
  <1>6. Flight(system.master[m], Tail(answers[m]))
    BY <1>2, TailFlight DEF IInv
  <1>7. Flight(r.master[m], q)
    BY <1>2, <1>3, <1>5, <1>6, InTransitFlight DEF Served
  <1> HIDE DEF q
  <1>8. q \in Seq(Answer) /\ answers \in [Masters -> Seq(Answer)]
    BY <1>7 DEF Flight, IInv
  <1>9. answers' \in [Masters -> Seq(Answer)]
    BY <1>4, <1>8
  <1>10. \A n \in Masters : Flight(r.master[n], answers'[n])
    <2> TAKE n \in Masters
    <2>1. CASE n = m
      BY <1>4, <1>7, <1>8, <2>1
    <2>2. CASE n # m
      <3>1. answers'[n] = answers[n] /\ r.master[n] = system.master[n]
        BY <1>4, <1>5, <1>8, <2>2 DEF OthersSame
      <3> QED
        BY <3>1 DEF IInv
    <2> QED
      BY <2>1, <2>2
  <1> QED
    BY <1>4, <1>5, <1>9, <1>10 DEF IInv

\* The peer sends an answer, or one is lost.
LEMMA AnswersInv ==
    ASSUME IInv, NEW m \in Masters, NEW q, Flight(system.master[m], q),
           answers' = [answers EXCEPT ![m] = q], UNCHANGED <<system, scenario>>
    PROVE  IInv'
  <1>1. answers \in [Masters -> Seq(Answer)] /\ q \in Seq(Answer)
    BY DEF IInv, Flight
  <1>2. \A n \in Masters : answers'[n] = IF n = m THEN q ELSE answers[n]
    BY <1>1
  <1>3. \A n \in Masters : Flight(system.master[n], answers'[n])
    BY <1>2 DEF IInv
  <1>4. answers' \in [Masters -> Seq(Answer)]
    BY <1>1
  <1> QED
    BY <1>3, <1>4 DEF IInv

LEMMA LoseResponseInv ==
    ASSUME IInv, NEW m \in Masters, LoseResponse(m)
    PROVE  IInv'
  <1>1. Flight(system.master[m], Tail(answers[m]))
    BY TailFlight DEF LoseResponse, IInv
  <1>2. answers' = [answers EXCEPT ![m] = Tail(answers[m])] /\ UNCHANGED <<system, scenario>>
    BY DEF LoseResponse
  <1> QED
    BY <1>1, <1>2, AnswersInv

LEMMA PeerAnswersInv ==
    ASSUME IInv, NEW m \in Masters, PeerAnswers(m)
    PROVE  IInv'
  <1> DEFINE c == system.master[m]
             q == Append(answers[m], [seq |-> c.solSeq, age |-> 0])
  <1>1. SInv(system) /\ c \in Context /\ Flight(c, answers[m])
    BY ContextFacts DEF IInv, SInv, Base
  <1>2. c.isOnline
    BY <1>1, BusyFacts DEF PeerAnswers
  <1>3. Flight(c, q)
    BY <1>1, <1>2, AnswerFlight DEF PeerAnswers
  <1>4. answers' = [answers EXCEPT ![m] = q] /\ UNCHANGED <<system, scenario>>
    BY DEF PeerAnswers
  <1> HIDE DEF q
  <1> QED
    BY <1>3, <1>4, AnswersInv

\* All masters are offline and no task is scheduled.
LEMMA InitInv == Init => IInv
  <1> SUFFICES ASSUME Init PROVE IInv
    OBVIOUS
  <1> DEFINE s == InitialSystem
             b == [t \in Task |-> InitialBehavior(t.kind)]
             c == InitialContext
  <1>1. c \in Context /\ Local(c)
    BY SchedulerAssumption
    DEF InitialContext, Context, TaskStates, TimerStates, Local, Busy, Timed, Unstranded
  <1>2. /\ ~c.isOnline /\ c.activeTask = NoTask /\ ~c.refused /\ ~c.overlapped
    BY DEF InitialContext
  <1>3. b \in [Task -> Behavior] /\ \A t \in Task : ~IsRecurring(t) => b[t].expiration = 0
    BY InitialBehaviorType DEF IsRecurring
  <1> HIDE DEF b, c
  <1>4. /\ s \in System /\ s.behavior = b /\ ~s.isShutdown /\ s.current = NoTask
        /\ ~s.taskCheckPending /\ \A m \in Masters : s.master[m] = c
        /\ \A t \in Task : s.tasks[t] = 0 /\ s.owed[t] = 0
    BY <1>1, <1>3, DelayFacts DEF InitialSystem, System, b, c
  <1> HIDE DEF s
  <1>5. \A t \in Task : Held(s, t) = 0 /\ Due(s, t) = 0
    BY <1>2, <1>4, TaskFacts DEF Held, Due
  <1>6. Agree(s) /\ Quiet(s) /\ Blameless(s) /\ Accounted(s)
    BY <1>2, <1>3, <1>4, <1>5, TaskFacts DEF Agree, Quiet, Blameless, Accounted
  <1>7. Scheduled(s) = {}
    BY <1>4 DEF Scheduled
  <1>8. SInv(s)
    BY <1>1, <1>4, <1>6, <1>7 DEF SInv, Base, Pending, Wakes, Starts, Runnable
  <1>9. /\ system = s /\ scenario \in Scenarios
        /\ answers = [m \in Masters |-> <<>>]
    BY DEF Init, s
  <1>10. <<>> \in Seq(Answer) /\ Len(<<>>) = 0
    OBVIOUS
  <1>11. /\ answers \in [Masters -> Seq(Answer)]
         /\ \A m \in Masters : Flight(system.master[m], answers[m])
    BY <1>9, <1>10 DEF Flight
  <1> QED
    BY <1>8, <1>9, <1>11 DEF IInv

LEMMA NextInv == IInv /\ [Next]_vars => IInv'
  <1> SUFFICES ASSUME IInv, [Next]_vars PROVE IInv'
    OBVIOUS
  <1>0. SInv(system) /\ Base(system) /\ system \in System /\ scenario \in Scenario
    BY ScenarioAssumption DEF IInv, SInv, Base
  <1>1. ASSUME NEW m \in Masters, LowerLayerUp(m)
        PROVE  IInv'
    <2> DEFINE r == OnLowerLayerUp(system, m)
    <2>1. /\ SInv(r) /\ OthersSame(system, r, m)
          /\ SeqStep(system.master[m], r.master[m]) /\ Becomes(r)
      BY <1>0, <1>1, OnLowerLayerUpEffect DEF LowerLayerUp
    <2> HIDE DEF r
    <2> QED
      BY <2>1, OneOnward, BecomesInv
  <1>2. ASSUME NEW m \in Masters, LowerLayerDown(m)
        PROVE  IInv'
    <2> DEFINE r == OnLowerLayerDown(system, m)
    <2>1. /\ SInv(r) /\ OthersSame(system, r, m) /\ ~r.master[m].isOnline /\ Becomes(r)
      BY <1>0, <1>2, OnLowerLayerDownEffect DEF LowerLayerDown
    <2> HIDE DEF r
    <2> QED
      BY <2>1, OneOnward, BecomesInv
  <1>3. ASSUME NEW m \in Masters, TxReady(m)
        PROVE  IInv'
    <2>1. PICK fits \in BOOLEAN : Becomes(OnTxReady(system, m, fits))
      BY <1>3, FitsType DEF TxReady
    <2> QED
      BY <1>0, <2>1, OnTxReadyEffect, ServedInv
  <1>4. ASSUME NEW m \in Masters, ReceiveResponse(m)
        PROVE  IInv'
    BY <1>4, ReceiveResponseInv
  <1>5. ASSUME NEW m \in Masters, LoseResponse(m)
        PROVE  IInv'
    BY <1>5, LoseResponseInv
  <1>6. ASSUME NEW m \in Masters, PeerAnswers(m)
        PROVE  IInv'
    BY <1>6, PeerAnswersInv
  <1>7. ASSUME NEW m \in Masters, ReceiveUnsolicited(m)
        PROVE  IInv'
    <2>1. PICK f \in UnsolResponses : Becomes(ProcessUnsolicitedResponse(system, m, f))
      BY <1>7 DEF ReceiveUnsolicited
    <2>2. f \in Response /\ system.master[m].isOnline
      BY <1>7, EnvironmentAssumption DEF ReceiveUnsolicited
    <2> QED
      BY <1>0, <2>1, <2>2, ProcessUnsolicitedEffect, ServedInv
  <1>8. ASSUME NEW m \in Masters, TimerExpires(m)
        PROVE  IInv'
    BY <1>0, <1>8, TimerExpiresEffect, ServedInv DEF TimerExpires
  <1>9. ASSUME NEW m \in Masters, ResponseTimeout(m)
        PROVE  IInv'
    BY <1>0, <1>9, OnResponseTimeoutEffect, ServedInv DEF ResponseTimeout
  <1>10. ASSUME NEW m \in Masters, NEW kind \in UserScans, AddScan(m, kind)
         PROVE  IInv'
    BY <1>0, <1>10, AddScanEffect, ServedInv DEF AddScan
  <1>11. ASSUME NEW m \in Masters, NEW kind \in UserScans, DemandScan(m, kind)
         PROVE  IInv'
    BY <1>0, <1>11, DemandAllEffect, CheckInv DEF DemandScan
  <1>12. ASSUME NEW t \in Task, Submit(t)
         PROVE  IInv'
    <2> DEFINE r == ScheduleAdhocTask(system, t)
    <2>1. ~IsRecurring(t) /\ system.owed[t] = 0 /\ Becomes(r)
      BY <1>12, TaskAssumption DEF Submit, IsRecurring
    <2>2. SInv(r) /\ r.master = system.master
      BY <1>0, <2>1, SubmitEffect
    <2> HIDE DEF r
    <2> QED
      BY <2>1, <2>2, SameOnward, BecomesInv
  <1>13. CASE RunCheck
    <2> DEFINE s == [system EXCEPT !.posted = FALSE]
    <2>1. s \in System /\ SameCore(system, s) /\ Check(s)
      BY <1>0, <1>13 DEF System, SameCore, RunCheck
    <2> HIDE DEF s
    <2> QED
      BY <1>0, <2>1, CoreBase, CheckInv DEF SameCore
  <1>14. CASE TaskTimer
    <2> DEFINE s == [system EXCEPT !.taskTimer = Never]
    <2>1. s \in System /\ SameCore(system, s) /\ Check(s)
      BY <1>0, <1>14, DelayFacts DEF System, SameCore, TaskTimer
    <2> HIDE DEF s
    <2> QED
      BY <1>0, <2>1, CoreBase, CheckInv DEF SameCore
  <1>15. CASE StartTimeout
    <2> DEFINE s == [system EXCEPT !.taskStartTimeout = Never]
    <2>1. /\ s \in System /\ SameCore(system, s) /\ Becomes(TimeoutTasks(s))
          /\ s.posted = system.posted /\ s.taskCheckPending = system.taskCheckPending
          /\ s.taskTimer = system.taskTimer
      BY <1>0, <1>15, DelayFacts DEF System, SameCore, StartTimeout
    <2> HIDE DEF s
    <2>2. Runnable(s) = Runnable(system)
      BY <2>1 DEF SameCore, Runnable, Scheduled, ExpirationTime
    <2>3. Pending(s) /\ Wakes(s)
      BY <1>0, <2>1, <2>2 DEF SInv, Pending, Wakes, SameCore, ExpirationTime
    <2> QED
      BY <1>0, <2>1, <2>3, CoreBase, TimeoutInv DEF SameCore
  <1>16. CASE Stray
    BY <1>0, <1>16, CheckInv, TimeoutInv DEF Stray, SInv
  <1>17. CASE ShutdownScheduler
    <2> DEFINE r == Shutdown(system)
    <2>1. SInv(r) /\ r.master = system.master /\ Becomes(r)
      BY <1>0, <1>17, ShutdownEffect DEF ShutdownScheduler
    <2> HIDE DEF r
    <2> QED
      BY <2>1, SameOnward, BecomesInv
  <1>18. CASE Tick
    <2> DEFINE r == Passed(system)
    <2>1. SInv(r) /\ r.master = system.master /\ Becomes(r)
      BY <1>0, <1>18, PassedEffect DEF Tick
    <2> HIDE DEF r
    <2> QED
      BY <2>1, SameOnward, BecomesInv
  <1>19. CASE UNCHANGED vars
    BY <1>19 DEF vars, IInv
  <1> QED
    BY <1>1, <1>2, <1>3, <1>4, <1>5, <1>6, <1>7, <1>8, <1>9, <1>10, <1>11, <1>12, <1>13,
       <1>14, <1>15, <1>16, <1>17, <1>18, <1>19 DEF Next

\* The invariant holds throughout.
LEMMA Invariant == Spec => []IInv
  BY InitInv, NextInv, PTL DEF Spec

-----------------------------------------------------------------------------
(***************************************************************************)
(* Theorems.                                                               *)
(***************************************************************************)

\* The masters, their tasks, the scheduler and the answers in transit keep their types:
\* sequence numbers stay below the modulus, the counts of confirms, of callbacks of
\* cancelled timers and of the tasks in the vector never go below zero.
THEOREM TypeCorrect == Spec => []TypeOK
  <1>1. IInv => TypeOK
    BY DEF IInv, SInv, Base, TypeOK
  <1> QED
    BY <1>1, Invariant, PTL

\* However tasks end, by a response, a timeout or the loss of a link, the masters and
\* their scheduler agree on the task that is running, and MContext::Run refuses none.
THEOREM MastersAndSchedulerAgree == Spec => []SchedulerAgrees
  <1>1. IInv => SchedulerAgrees
    BY DEF IInv, SInv, Base, Agree, Blameless, Local, Busy, SchedulerAgrees
  <1> QED
    BY <1>1, Invariant, PTL

\* For any number of masters and whatever they are told to do: the scheduler holds every
\* recurring task of a master that is online once, and a one-shot task exactly as long as
\* its user waits for the callback, which comes once.
THEOREM TasksScheduledOnce == Spec => []ScheduledOnce
  <1>1. IInv => ScheduledOnce
    BY DEF IInv, SInv, Base, Accounted, Held, Due, ScheduledOnce, Occurrences
  <1> QED
    BY <1>1, Invariant, PTL

\* A master hands nothing to its lower layer while that is busy: the assertion of
\* MContext::Transmit holds however requests and confirms meet.
THEOREM TransmissionsNeverOverlap == Spec => []NeverOverlapped
  <1>1. IInv => NeverOverlapped
    BY DEF IInv, SInv, Base, Blameless, NeverOverlapped
  <1> QED
    BY <1>1, Invariant, PTL

\* A master never waits for a response without a timer, also when the callback of a
\* timer that was cancelled too late takes the reference of the next one.
THEOREM ResponseWaitsAreTimed == Spec => []ResponseWaitIsTimed
  <1>1. IInv => ResponseWaitIsTimed
    BY DEF IInv, SInv, Local, Timed, ResponseWaitIsTimed
  <1> QED
    BY <1>1, Invariant, PTL

\* For every modulus of the sequence numbers, a response that is not late by a whole
\* round is only taken for the answer to the request it answers.
THEOREM LateAnswersAreIgnored == Spec => []AnswersItsRequest
  <1>1. IInv => AnswersItsRequest
    <2> SUFFICES ASSUME IInv, NEW m \in Masters, NEW i \in DOMAIN answers[m],
                        answers[m][i].seq = system.master[m].solSeq
                 PROVE  answers[m][i].age = 0
      BY DEF AnswersItsRequest
    <2>1. Flight(system.master[m], answers[m]) /\ system.master[m] \in Context
      BY ContextFacts DEF IInv, SInv, Base
    <2>2. answers[m][i] \in Answer /\ Dated(system.master[m], answers[m][i])
      BY <2>1 DEF Flight
    <2>3. /\ answers[m][i].age \in 0..MaxAge /\ MaxAge \in Nat /\ MaxAge < SeqModulus
          /\ SeqModulus \in Nat /\ system.master[m].solSeq \in Nat
      BY <2>1, <2>2, EnvironmentAssumption, SchedulerAssumption DEF Answer, Context
    <2> QED
      BY <2>2, <2>3 DEF Dated
  <1> QED
    BY <1>1, Invariant, PTL

\* A confirm of the present connection waits only for a transmission that is in progress
\* and whose end, OnTxReady, sends it.
THEOREM ConfirmsNeverStranded == Spec => []ConfirmNotStranded
  <1>1. IInv => ConfirmNotStranded
    BY DEF IInv, SInv, Local, Unstranded, ConfirmNotStranded
  <1> QED
    BY <1>1, Invariant, PTL

\* No task that can run is forgotten: when nothing runs, a check is posted or the task
\* timer is set, whichever handlers ran, whichever timers were late, since the last one.
THEOREM SchedulerAlwaysWakes == Spec => []SchedulerWakes
  <1>1. IInv => SchedulerWakes
    BY DEF IInv, SInv, Wakes, Runnable, SchedulerWakes
  <1> QED
    BY <1>1, Invariant, PTL

\* The start timeout of every one-shot task that waits is covered by the timer or by a
\* check that will set it.
THEOREM StartsAreTimed == Spec => []StartIsTimed
  <1>1. IInv => StartIsTimed
    BY DEF IInv, SInv, Starts, StartIsTimed
  <1> QED
    BY <1>1, Invariant, PTL
=============================================================================
