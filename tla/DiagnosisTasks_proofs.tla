----------------------- MODULE DiagnosisTasks_proofs -----------------------
(***************************************************************************)
(* Proofs about DiagnosisTasks, for any number of tasks and any delays:    *)
(* the types, that the scheduler never sleeps while something is           *)
(* scheduled, that its timer is set early enough for all that is, and that *)
(* a change which a task without an interval watches gets it scheduled.    *)
(***************************************************************************)
EXTENDS DiagnosisTasks, TLAPS

\* What ScheduleIn builds is a schedule.
LEMMA ScheduleInType ==
  ASSUME NEW delay \in Nat, NEW triggered \in BOOLEAN
  PROVE  /\ ScheduleIn(delay, triggered) \in Schedule
         /\ ScheduleIn(delay, triggered) # NotScheduled
         /\ ScheduleIn(delay, triggered).triggered = triggered
         /\ ScheduleIn(delay, triggered).ideal = delay
<1>1. ScheduleIn(delay, triggered) \in Schedule
  BY DEF ScheduleIn, Schedule
<1>2. QED
  BY <1>1, NotScheduledAssumption DEF ScheduleIn

\* processNext keeps the types, whatever tree, timer, counts and listeners it is given,
\* and leaves something behind that calls it again while the tree is not empty: the
\* timer, a run, or a call that has returned.
LEMMA ProcessNextKeeps ==
  ASSUME TypeOK,
         NEW s \in [Task -> Schedule \cup {NotScheduled}],
         NEW m \in Nat \cup {None},
         NEW r \in [Task -> Nat],
         NEW w \in SUBSET Task,
         ProcessNext(s, m, r, w)
  PROVE  /\ schedule' \in [Task -> Schedule \cup {NotScheduled}]
         /\ timer' \in Nat \cup {None}
         /\ running' \subseteq Task
         /\ needsRerun' \subseteq running'
         /\ watching' \subseteq Task
         /\ runTime' \in [Task -> Nat]
         /\ returned' \in [Task -> Nat]
         /\ stale' \subseteq Task
         /\ \/ InTree(schedule') = {}
            \/ running' # {}
            \/ \E t \in Task : returned'[t] > 0
            \/ timer' # None /\ \E t \in MostUrgent(schedule') : timer' <= schedule'[t].ideal
<1>1. CASE InTree(s) = {} /\ schedule' = s /\ timer' = m /\ returned' = r
           /\ watching' = w /\ UNCHANGED runVars
  BY <1>1 DEF TypeOK, runVars
<1>2. CASE \E t \in MostUrgent(s) :
             /\ s[t].ideal > 0
             /\ timer' = RetryLater(s, t, m)
             /\ schedule' = s
             /\ returned' = r
             /\ watching' = w
             /\ UNCHANGED runVars
  <2>1. PICK t \in MostUrgent(s) : timer' = s[t].ideal
    BY <1>2 DEF RetryLater
  <2>2. timer' \in Nat
    BY <2>1 DEF MostUrgent, InTree, Schedule
  <2>3. timer' # None /\ timer' <= s[t].ideal
    BY <2>1, <2>2 DEF None
  <2>4. QED
    BY <1>2, <2>2, <2>3 DEF TypeOK, runVars
<1>3. CASE \E t \in MostUrgent(s) :
             /\ s[t].ideal = 0
             /\ schedule' = [s EXCEPT ![t] = NotScheduled]
             /\ timer' = m
             /\ RunOnce(t, r, w)
  <2>1. PICK t \in MostUrgent(s) :
             /\ schedule' = [s EXCEPT ![t] = NotScheduled]
             /\ timer' = m
             /\ RunOnce(t, r, w)
    BY <1>3
  <2>2. t \in Task
    BY DEF MostUrgent, InTree
  <2>3. schedule' \in [Task -> Schedule \cup {NotScheduled}]
    BY <2>1, <2>2
  <2>4. CASE t \in running \/ t \in destroyed
    <3>1. returned' = [r EXCEPT ![t] = @ + 1] /\ UNCHANGED runVars /\ watching' \subseteq Task
      BY <2>1, <2>4 DEF RunOnce
    <3>2. returned' \in [Task -> Nat] /\ returned'[t] > 0
      BY <3>1, <2>2
    <3>3. QED
      BY <2>1, <2>2, <2>3, <3>1, <3>2 DEF TypeOK, runVars
  <2>5. CASE ~(t \in running \/ t \in destroyed)
    <3>1. /\ returned' = r
          /\ running' = running \cup {t}
          /\ needsRerun' = needsRerun
          /\ watching' = w \ {t}
          /\ runTime' = [runTime EXCEPT ![t] = 0]
          /\ stale' = stale \ {t}
      BY <2>1, <2>5 DEF RunOnce
    <3>2. QED
      BY <2>1, <2>2, <2>3, <3>1 DEF TypeOK
  <2>6. QED
    BY <2>4, <2>5
<1>4. QED
  BY <1>1, <1>2, <1>3 DEF ProcessNext

-----------------------------------------------------------------------------
\* Every variable stays in its domain (Datacenter.ts, DiagnosisTaskScheduler).
THEOREM TypeCorrect == Spec => []TypeOK
<1> USE TimesAssumption
<1>1. Init => TypeOK
  <2> SUFFICES ASSUME Init PROVE TypeOK
    OBVIOUS
  <2>1. initialized \in BOOLEAN
    BY DEF Init
  <2>2. /\ schedule \in [Task -> Schedule \cup {NotScheduled}]
        /\ runTime \in [Task -> Nat]
        /\ returned \in [Task -> Nat]
    BY DEF Init
  <2>3. QED
    BY <2>1, <2>2 DEF Init, TypeOK
<1>2. TypeOK /\ [Next]_vars => TypeOK'
  <2> SUFFICES ASSUME TypeOK, [Next]_vars PROVE TypeOK'
    OBVIOUS
  <2>1. ASSUME NEW t \in Task, NEW delay \in Nat, ScheduleTask(t, delay, TRUE)
        PROVE  /\ schedule' \in [Task -> Schedule \cup {NotScheduled}]
               /\ calls' \in Nat
    <3>1. ScheduleIn(delay, TRUE) \in Schedule
      BY ScheduleInType
    <3>2. schedule \in [Task -> Schedule \cup {NotScheduled}] /\ calls \in Nat
      BY DEF TypeOK
    <3>3. /\ schedule' = [schedule EXCEPT ![t] = ScheduleIn(delay, TRUE)]
          /\ calls' = calls + 1
      BY <2>1 DEF ScheduleTask
    <3>4. calls' \in Nat
      BY <3>2, <3>3
    <3>5. schedule' \in [Task -> Schedule \cup {NotScheduled}]
      BY <3>1, <3>2, <3>3
    <3>6. QED
      BY <3>4, <3>5
  <2>2. CASE ProcessQueuedCall
    <3>1. calls' \in Nat
      BY <2>2 DEF ProcessQueuedCall, TypeOK
    <3>2. QED
      BY <2>2, <3>1, ProcessNextKeeps DEF ProcessQueuedCall, TypeOK
  <2>3. CASE TimerFires
    BY <2>3, ProcessNextKeeps DEF TimerFires, TypeOK
  <2>4. CASE AppIsInitialized
    BY <2>4 DEF AppIsInitialized, TypeOK, taskVars, runVars, schedulerVars
  <2>5. CASE Tick
    <3>1. schedule' \in [Task -> Schedule \cup {NotScheduled}]
      <4>1. ASSUME NEW t \in Task PROVE schedule'[t] \in Schedule \cup {NotScheduled}
        <5>1. CASE schedule[t] = NotScheduled
          BY <2>5, <5>1 DEF Tick
        <5>2. CASE schedule[t] # NotScheduled
          <6>1. schedule[t] \in Schedule
            BY <5>2 DEF TypeOK
          <6>2. schedule'[t] = [schedule[t] EXCEPT !.ideal = IF @ = 0 THEN 0 ELSE @ - 1,
                                                   !.urgency = @ - 1]
            BY <2>5, <5>2 DEF Tick
          <6>3. schedule[t].ideal \in Nat /\ schedule[t].urgency \in Int
            BY <6>1 DEF Schedule
          <6>4. /\ (IF schedule[t].ideal = 0 THEN 0 ELSE schedule[t].ideal - 1) \in Nat
                /\ schedule[t].urgency - 1 \in Int
            BY <6>3
          <6>5. QED
            BY <6>1, <6>2, <6>4 DEF Schedule
        <5>3. QED
          BY <5>1, <5>2
      <4>2. QED
        BY <2>5, <4>1 DEF Tick
    <3>2. timer' \in Nat \cup {None}
      <4>1. CASE timer = None
        BY <2>5, <4>1 DEF Tick
      <4>2. CASE timer # None
        <5>1. timer \in Nat /\ timer # 0 /\ timer' = timer - 1
          BY <2>5, <4>2 DEF Tick, TypeOK
        <5>2. QED
          BY <5>1
      <4>3. QED
        BY <4>1, <4>2
    <3>3. runTime' \in [Task -> Nat]
      <4>1. runTime' = [t \in Task |-> IF t \in running THEN runTime[t] + 1 ELSE 0]
        BY <2>5 DEF Tick
      <4>2. runTime \in [Task -> Nat]
        BY DEF TypeOK
      <4>3. QED
        BY <4>1, <4>2
    <3>4. QED
      BY <2>5, <3>1, <3>2, <3>3 DEF Tick, TypeOK
  <2>6. ASSUME NEW t \in Task, CreateTask(t) PROVE TypeOK'
    <3>1. PICK delay \in 0..TriggerDelay : ScheduleTask(t, delay, TRUE)
      BY <2>6 DEF CreateTask
    <3>2. /\ schedule' \in [Task -> Schedule \cup {NotScheduled}]
          /\ calls' \in Nat
      <4>1. delay \in Nat
        OBVIOUS
      <4>2. QED
        BY <2>1, <3>1, <4>1
    <3>3. created' \subseteq Task /\ destroyed' \subseteq created'
      BY <2>6 DEF CreateTask, TypeOK
    <3>4. QED
      BY <2>6, <3>2, <3>3 DEF CreateTask, TypeOK, taskVars, runVars
  <2>7. ASSUME NEW t \in Task, Watch(t) PROVE TypeOK'
    BY <2>7 DEF Watch, TypeOK, schedulerVars
  <2>8. ASSUME NEW t \in Task, ScheduleForNow(t)
        PROVE  /\ schedule' \in [Task -> Schedule \cup {NotScheduled}]
               /\ calls' \in Nat
    <3>1. PICK delay \in 1..TriggerDelay : ScheduleTask(t, delay, TRUE)
      BY <2>8 DEF ScheduleForNow
    <3>2. delay \in Nat
      OBVIOUS
    <3>3. QED
      BY <2>1, <3>1, <3>2
  <2>9. ASSUME NEW t \in Task, RunSettles(t) PROVE TypeOK'
    <3>1. /\ schedule' \in [Task -> Schedule \cup {NotScheduled}]
          /\ calls' \in Nat
      BY <2>8, <2>9 DEF RunSettles, TypeOK
    <3>2. returned' \in [Task -> Nat]
      BY <2>9 DEF RunSettles, TypeOK
    <3>3. running' \subseteq Task /\ needsRerun' \subseteq running'
      BY <2>9 DEF RunSettles, TypeOK
    <3>4. QED
      BY <2>9, <3>1, <3>2, <3>3 DEF RunSettles, TypeOK
  <2>10. ASSUME NEW t \in Task, RunReturned(t) PROVE TypeOK'
    <3>1. ScheduleIn(Interval, FALSE) \in Schedule
      BY ScheduleInType
    <3> DEFINE again == t \in RegularTask \ destroyed
               s == IF again THEN [schedule EXCEPT ![t] = ScheduleIn(Interval, FALSE)]
                             ELSE schedule
               r == [returned EXCEPT ![t] = @ - 1]
               w == IF t \in destroyed THEN watching \ {t} ELSE watching
    <3>2. ProcessNext(s, timer, r, w)
      BY <2>10 DEF RunReturned
    <3>3. s \in [Task -> Schedule \cup {NotScheduled}] /\ w \in SUBSET Task
      BY <3>1 DEF TypeOK
    <3>4. r \in [Task -> Nat]
      BY <2>10 DEF RunReturned, TypeOK
    <3>5. timer \in Nat \cup {None}
      BY DEF TypeOK
    <3>6. calls' \in Nat /\ UNCHANGED <<created, destroyed, initialized>>
      BY <2>10 DEF RunReturned, TypeOK
    <3> HIDE DEF s, r, w
    <3>7. QED
      BY <3>2, <3>3, <3>4, <3>5, <3>6, ProcessNextKeeps DEF TypeOK
  <2>11. ASSUME NEW t \in Task, HandleModelChanged(t) PROVE TypeOK'
    <3>1. /\ schedule' \in [Task -> Schedule \cup {NotScheduled}]
          /\ calls' \in Nat
      BY <2>8, <2>11 DEF HandleModelChanged, TypeOK
    <3>2. QED
      BY <2>11, <3>1 DEF HandleModelChanged, TypeOK
  <2>12. ASSUME NEW t \in Task, ItemDestroyed(t) PROVE TypeOK'
    BY <2>12 DEF ItemDestroyed, TypeOK, taskVars, runVars, schedulerVars
  <2>13. CASE UNCHANGED vars
    BY <2>13 DEF vars, TypeOK, taskVars, runVars, schedulerVars
  <2>14. QED
    BY <2>2, <2>3, <2>4, <2>5, <2>6, <2>7, <2>9, <2>10, <2>11, <2>12, <2>13 DEF Next
<1>3. QED
  BY <1>1, <1>2, PTL DEF Spec

-----------------------------------------------------------------------------
\* While something is scheduled, a queued call, a run or a timer that is early enough
\* looks at the tree again (DiagnosisTaskScheduler.processNext and scheduleTask).
THEOREM NothingIsOverslept == Spec => []NoLostWakeup
<1> USE TimesAssumption
<1>1. Init => NoLostWakeup
  BY DEF Init, NoLostWakeup, InTree
<1>2. TypeOK /\ NoLostWakeup /\ [Next]_vars => NoLostWakeup'
  <2> SUFFICES ASSUME TypeOK, NoLostWakeup, [Next]_vars PROVE NoLostWakeup'
    OBVIOUS
  <2>1. ASSUME NEW t \in Task, NEW delay, ScheduleTask(t, delay, TRUE)
        PROVE  calls' > 0
    BY <2>1 DEF ScheduleTask, TypeOK
  <2>2. CASE ProcessQueuedCall
    <3>1. ProcessNext(schedule, timer, returned, watching)
      BY <2>2 DEF ProcessQueuedCall
    <3>2. QED
      BY <3>1, ProcessNextKeeps DEF NoLostWakeup, TypeOK
  <2>3. CASE TimerFires
    <3>1. ProcessNext(schedule, None, returned, watching)
      BY <2>3 DEF TimerFires
    <3>2. QED
      BY <3>1, ProcessNextKeeps DEF NoLostWakeup, TypeOK
  <2>4. CASE AppIsInitialized
    BY <2>4 DEF AppIsInitialized, NoLostWakeup, InTree, MostUrgent,
                taskVars, runVars, schedulerVars
  <2>5. CASE Tick
    <3>1. CASE InTree(schedule) = {}
      BY <2>5, <3>1 DEF Tick, InTree, NoLostWakeup
    <3>2. CASE running # {} \/ \E t \in Task : returned[t] > 0
      BY <2>5, <3>2 DEF Tick, NoLostWakeup
    <3>3. CASE timer # None /\ \E t \in MostUrgent(schedule) : timer <= schedule[t].ideal
      <4>1. PICK t \in MostUrgent(schedule) : timer <= schedule[t].ideal
        BY <3>3
      <4>2. timer \in Nat \ {0} /\ timer' = timer - 1
        BY <2>5, <3>3 DEF Tick, TypeOK
      <4>3. ASSUME NEW u \in Task, schedule[u] # NotScheduled
            PROVE  /\ schedule[u] \in Schedule
                   /\ schedule'[u] \in Schedule
                   /\ schedule'[u].urgency = schedule[u].urgency - 1
                   /\ schedule'[u].ideal =
                        IF schedule[u].ideal = 0 THEN 0 ELSE schedule[u].ideal - 1
        <5>1. schedule[u] \in Schedule
          BY <4>3 DEF TypeOK
        <5>2. schedule'[u] = [schedule[u] EXCEPT !.ideal = IF @ = 0 THEN 0 ELSE @ - 1,
                                                 !.urgency = @ - 1]
          BY <2>5, <4>3 DEF Tick
        <5>3. schedule[u].ideal \in Nat /\ schedule[u].urgency \in Int
          BY <5>1 DEF Schedule
        <5>4. /\ (IF schedule[u].ideal = 0 THEN 0 ELSE schedule[u].ideal - 1) \in Nat
              /\ schedule[u].urgency - 1 \in Int
          BY <5>3
        <5>5. QED
          BY <5>1, <5>2, <5>4 DEF Schedule
      <4>4. ASSUME NEW u \in InTree(schedule') PROVE u \in InTree(schedule)
        BY <2>5, <4>4 DEF Tick, InTree
      <4>5. t \in Task /\ schedule[t] # NotScheduled
        BY DEF MostUrgent, InTree
      <4>6. t \in InTree(schedule')
        BY <4>3, <4>5, NotScheduledAssumption DEF InTree
      <4>7. ASSUME NEW u \in InTree(schedule')
            PROVE  schedule'[t].urgency <= schedule'[u].urgency
        <5>1. u \in Task /\ schedule[u] # NotScheduled
          BY <4>4 DEF InTree
        <5>2. schedule[t].urgency <= schedule[u].urgency
          BY <4>4 DEF MostUrgent
        <5>3. schedule[t].urgency \in Int /\ schedule[u].urgency \in Int
          BY <4>3, <4>5, <5>1 DEF Schedule
        <5>4. QED
          BY <4>3, <4>5, <5>1, <5>2, <5>3
      <4>8. t \in MostUrgent(schedule')
        BY <4>6, <4>7 DEF MostUrgent
      <4>9. timer' <= schedule'[t].ideal
        <5>1. schedule[t].ideal \in Nat
          BY <4>3, <4>5 DEF Schedule
        <5>2. QED
          BY <4>1, <4>2, <4>3, <4>5, <5>1
      <4>10. timer' # None
        BY <4>2 DEF None
      <4>11. QED
        BY <4>8, <4>9, <4>10 DEF NoLostWakeup
    <3>4. QED
      BY <2>5, <3>1, <3>2, <3>3 DEF Tick, NoLostWakeup
  <2>6. ASSUME NEW t \in Task, CreateTask(t) PROVE NoLostWakeup'
    BY <2>1, <2>6 DEF CreateTask, NoLostWakeup
  <2>7. ASSUME NEW t \in Task, Watch(t) PROVE NoLostWakeup'
    BY <2>7 DEF Watch, NoLostWakeup, InTree, MostUrgent, schedulerVars
  <2>8. ASSUME NEW t \in Task, RunSettles(t) PROVE NoLostWakeup'
    <3>1. returned'[t] > 0
      BY <2>8 DEF RunSettles, TypeOK
    <3>2. QED
      BY <3>1 DEF NoLostWakeup
  <2>9. ASSUME NEW t \in Task, RunReturned(t) PROVE NoLostWakeup'
    <3> DEFINE again == t \in RegularTask \ destroyed
               s == IF again THEN [schedule EXCEPT ![t] = ScheduleIn(Interval, FALSE)]
                             ELSE schedule
               r == [returned EXCEPT ![t] = @ - 1]
               w == IF t \in destroyed THEN watching \ {t} ELSE watching
    <3>1. ProcessNext(s, timer, r, w)
      BY <2>9 DEF RunReturned
    <3>2. s \in [Task -> Schedule \cup {NotScheduled}] /\ w \in SUBSET Task
      BY ScheduleInType DEF TypeOK
    <3>3. r \in [Task -> Nat]
      BY <2>9 DEF RunReturned, TypeOK
    <3>4. timer \in Nat \cup {None}
      BY DEF TypeOK
    <3> HIDE DEF s, r, w
    <3>5. QED
      BY <3>1, <3>2, <3>3, <3>4, ProcessNextKeeps DEF NoLostWakeup
  <2>10. ASSUME NEW t \in Task, HandleModelChanged(t) PROVE NoLostWakeup'
    <3>1. CASE t \in running
      BY <2>10, <3>1 DEF HandleModelChanged, NoLostWakeup
    <3>2. CASE t \notin running
      BY <2>1, <2>10, <3>2 DEF HandleModelChanged, ScheduleForNow, NoLostWakeup
    <3>3. QED
      BY <3>1, <3>2
  <2>11. ASSUME NEW t \in Task, ItemDestroyed(t) PROVE NoLostWakeup'
    BY <2>11 DEF ItemDestroyed, NoLostWakeup, InTree, MostUrgent,
                 taskVars, runVars, schedulerVars
  <2>12. CASE UNCHANGED vars
    BY <2>12 DEF vars, NoLostWakeup, InTree, MostUrgent, taskVars, runVars, schedulerVars
  <2>13. QED
    BY <2>2, <2>3, <2>4, <2>5, <2>6, <2>7, <2>8, <2>9, <2>10, <2>11, <2>12 DEF Next
<1>3. QED
  BY <1>1, <1>2, TypeCorrect, PTL DEF Spec

-----------------------------------------------------------------------------
\* A schedule's priority delay has not begun to pass before its ideal start.
Fitting(s) ==
  \A t \in Task : s[t] # NotScheduled /\ s[t].ideal > 0 => s[t].ideal <= s[t].urgency

\* processNext keeps that, and it either has a task run, or a run return, or sets the timer
\* early enough for everything that is scheduled.
LEMMA ProcessNextIsInTime ==
  ASSUME NEW s \in [Task -> Schedule \cup {NotScheduled}], Fitting(s),
         NEW m,
         NEW r \in [Task -> Nat],
         NEW w,
         ProcessNext(s, m, r, w)
  PROVE  /\ Fitting(schedule')
         /\ \/ running' # {}
            \/ \E t \in Task : returned'[t] > 0
            \/ \A t \in InTree(schedule') :
                 timer' # None /\ timer' <= schedule'[t].urgency
<1>1. CASE InTree(s) = {} /\ schedule' = s
  BY <1>1
<1>2. ASSUME NEW t \in MostUrgent(s), s[t].ideal > 0,
             timer' = RetryLater(s, t, m), schedule' = s
      PROVE  \A u \in InTree(s) : timer' # None /\ timer' <= s[u].urgency
  <2>1. t \in Task /\ s[t] \in Schedule
    BY DEF MostUrgent, InTree
  <2>2. timer' = s[t].ideal /\ timer' \in Nat /\ timer' <= s[t].urgency
    <3>1. timer' = s[t].ideal /\ s[t].ideal \in Nat
      BY <1>2, <2>1 DEF RetryLater, Schedule
    <3>2. QED
      BY <1>2, <2>1, <3>1, NotScheduledAssumption DEF Fitting
  <2>3. ASSUME NEW u \in InTree(s) PROVE timer' <= s[u].urgency
    <3>1. s[t].urgency <= s[u].urgency
      BY DEF MostUrgent
    <3>2. s[t].urgency \in Int /\ s[u].urgency \in Int
      BY <2>1 DEF InTree, Schedule
    <3>3. QED
      BY <2>2, <3>1, <3>2
  <2>4. QED
    BY <2>2, <2>3 DEF None
<1>3. ASSUME NEW t \in MostUrgent(s), schedule' = [s EXCEPT ![t] = NotScheduled],
             RunOnce(t, r, w)
      PROVE  Fitting(schedule') /\ (running' # {} \/ \E u \in Task : returned'[u] > 0)
  <2>1. t \in Task
    BY DEF MostUrgent, InTree
  <2>2. Fitting(schedule')
    BY <1>3 DEF Fitting
  <2>3. CASE t \in running \/ t \in destroyed
    <3>1. returned' = [r EXCEPT ![t] = @ + 1]
      BY <1>3, <2>3 DEF RunOnce
    <3>2. returned'[t] > 0
      BY <2>1, <3>1
    <3>3. QED
      BY <2>1, <2>2, <3>2
  <2>4. CASE ~(t \in running \/ t \in destroyed)
    <3>1. running' = running \cup {t}
      BY <1>3, <2>4 DEF RunOnce
    <3>2. QED
      BY <2>2, <3>1
  <2>5. QED
    BY <2>3, <2>4
<1>4. QED
  BY <1>1, <1>2, <1>3 DEF ProcessNext

\* While the scheduler only waits for its timer, no task in the tree is past the delay that
\* its priority allows (DiagnosisTaskScheduler.compare and retryLater).
THEOREM NoTaskIsLate == Spec => []NothingIsLate
<1> USE TimesAssumption
<1>1. Init => Fitting(schedule) /\ NothingIsLate
  BY DEF Init, Fitting, NothingIsLate, InTree
<1>2. TypeOK /\ Fitting(schedule) /\ NothingIsLate /\ [Next]_vars
        => Fitting(schedule)' /\ NothingIsLate'
  <2> SUFFICES ASSUME TypeOK, Fitting(schedule), NothingIsLate, [Next]_vars
               PROVE  Fitting(schedule') /\ NothingIsLate'
    OBVIOUS
  <2>1. ASSUME NEW t \in Task, NEW delay \in Nat, ScheduleTask(t, delay, TRUE)
        PROVE  Fitting(schedule') /\ calls' > 0
    <3>1. ScheduleIn(delay, TRUE).ideal <= ScheduleIn(delay, TRUE).urgency
      BY DEF ScheduleIn
    <3>2. Fitting(schedule')
      BY <2>1, <3>1 DEF ScheduleTask, Fitting, TypeOK
    <3>3. QED
      BY <2>1, <3>2 DEF ScheduleTask, TypeOK
  <2>2. ASSUME NEW s \in [Task -> Schedule \cup {NotScheduled}], Fitting(s),
               NEW m, NEW r \in [Task -> Nat], NEW w,
               ProcessNext(s, m, r, w)
        PROVE  Fitting(schedule') /\ NothingIsLate'
    <3>1. Fitting(schedule')
      BY <2>2, ProcessNextIsInTime
    <3>2. \/ running' # {}
          \/ \E t \in Task : returned'[t] > 0
          \/ \A t \in InTree(schedule') : timer' # None /\ timer' <= schedule'[t].urgency
      BY <2>2, ProcessNextIsInTime
    <3>3. QED
      BY <3>1, <3>2 DEF NothingIsLate
  <2>3. CASE ProcessQueuedCall
    BY <2>2, <2>3 DEF ProcessQueuedCall, TypeOK
  <2>4. CASE TimerFires
    BY <2>2, <2>4 DEF TimerFires, TypeOK
  <2>5. CASE AppIsInitialized
    BY <2>5 DEF AppIsInitialized, NothingIsLate, InTree, taskVars, runVars, schedulerVars
  <2>6. CASE Tick
    <3>1. ASSUME NEW t \in Task, schedule'[t] # NotScheduled
          PROVE  /\ schedule[t] \in Schedule
                 /\ schedule'[t].urgency = schedule[t].urgency - 1
                 /\ schedule'[t].ideal =
                      IF schedule[t].ideal = 0 THEN 0 ELSE schedule[t].ideal - 1
      <4>1. schedule[t] # NotScheduled
        BY <2>6, <3>1 DEF Tick
      <4>2. schedule[t] \in Schedule
        BY <4>1 DEF TypeOK
      <4>3. schedule'[t] = [schedule[t] EXCEPT !.ideal = IF @ = 0 THEN 0 ELSE @ - 1,
                                               !.urgency = @ - 1]
        BY <2>6, <4>1 DEF Tick
      <4>4. QED
        BY <4>2, <4>3 DEF Schedule
    <3>2. Fitting(schedule')
      <4>1. ASSUME NEW t \in Task, schedule'[t] # NotScheduled, schedule'[t].ideal > 0
            PROVE  schedule'[t].ideal <= schedule'[t].urgency
        <5>1. /\ schedule[t] # NotScheduled
              /\ schedule[t].ideal \in Nat /\ schedule[t].urgency \in Int
          BY <3>1, <4>1, NotScheduledAssumption DEF Schedule
        <5>2. schedule[t].ideal <= schedule[t].urgency
          BY <3>1, <4>1, <5>1 DEF Fitting
        <5>3. QED
          BY <3>1, <4>1, <5>1, <5>2
      <4>2. QED
        BY <4>1 DEF Fitting
    <3>3. ASSUME calls' = 0, running' = {}, \A t \in Task : returned'[t] = 0,
                 NEW t \in InTree(schedule')
          PROVE  timer' # None /\ timer' <= schedule'[t].urgency
      <4>1. t \in Task /\ schedule'[t] # NotScheduled
        BY DEF InTree
      <4>2. schedule[t] \in Schedule /\ schedule'[t].urgency = schedule[t].urgency - 1
        BY <3>1, <4>1
      <4>3. t \in InTree(schedule)
        BY <4>1, <4>2, NotScheduledAssumption DEF InTree
      <4>4. timer # None /\ timer <= schedule[t].urgency
        BY <2>6, <3>3, <4>3 DEF Tick, NothingIsLate
      <4>5. timer \in Nat \ {0} /\ timer' = timer - 1
        BY <2>6, <4>4 DEF Tick, TypeOK
      <4>6. schedule[t].urgency \in Int
        BY <4>2 DEF Schedule
      <4>7. QED
        BY <4>2, <4>4, <4>5, <4>6 DEF None
    <3>4. QED
      BY <3>2, <3>3 DEF NothingIsLate
  <2>7. ASSUME NEW t \in Task, CreateTask(t) PROVE Fitting(schedule') /\ NothingIsLate'
    <3>1. PICK delay \in 0..TriggerDelay : ScheduleTask(t, delay, TRUE)
      BY <2>7 DEF CreateTask
    <3>2. delay \in Nat
      OBVIOUS
    <3>3. Fitting(schedule') /\ calls' > 0
      BY <2>1, <3>1, <3>2
    <3>4. QED
      BY <3>3 DEF NothingIsLate
  <2>8. ASSUME NEW t \in Task, ScheduleForNow(t) PROVE Fitting(schedule') /\ calls' > 0
    <3>1. PICK delay \in 1..TriggerDelay : ScheduleTask(t, delay, TRUE)
      BY <2>8 DEF ScheduleForNow
    <3>2. delay \in Nat
      OBVIOUS
    <3>3. QED
      BY <2>1, <3>1, <3>2
  <2>9. ASSUME NEW t \in Task, RunSettles(t) PROVE Fitting(schedule') /\ NothingIsLate'
    <3>1. Fitting(schedule')
      BY <2>8, <2>9 DEF RunSettles
    <3>2. returned'[t] > 0
      BY <2>9 DEF RunSettles, TypeOK
    <3>3. QED
      BY <3>1, <3>2 DEF NothingIsLate
  <2>10. ASSUME NEW t \in Task, HandleModelChanged(t)
         PROVE  Fitting(schedule') /\ NothingIsLate'
    <3>1. CASE t \in running
      BY <2>10, <3>1 DEF HandleModelChanged, NothingIsLate
    <3>2. CASE t \notin running
      BY <2>8, <2>10, <3>2 DEF HandleModelChanged, NothingIsLate
    <3>3. QED
      BY <3>1, <3>2
  <2>11. ASSUME NEW t \in Task, RunReturned(t) PROVE Fitting(schedule') /\ NothingIsLate'
    <3> DEFINE s == IF t \in RegularTask \ destroyed
                      THEN [schedule EXCEPT ![t] = ScheduleIn(Interval, FALSE)]
                      ELSE schedule
               r == [returned EXCEPT ![t] = @ - 1]
               w == IF t \in destroyed THEN watching \ {t} ELSE watching
    <3>1. ProcessNext(s, timer, r, w)
      BY <2>11 DEF RunReturned
    <3>2. s \in [Task -> Schedule \cup {NotScheduled}]
      BY ScheduleInType DEF TypeOK
    <3>3. Fitting(s)
      <4>1. ScheduleIn(Interval, FALSE).ideal <= ScheduleIn(Interval, FALSE).urgency
        BY DEF ScheduleIn
      <4>2. QED
        BY <4>1 DEF Fitting, TypeOK
    <3>4. r \in [Task -> Nat]
      BY <2>11 DEF RunReturned, TypeOK
    <3> HIDE DEF s, r, w
    <3>5. QED
      BY <2>2, <3>1, <3>2, <3>3, <3>4
  <2>12. ASSUME NEW t \in Task, Watch(t) \/ ItemDestroyed(t)
         PROVE  Fitting(schedule') /\ NothingIsLate'
    BY <2>12 DEF Watch, ItemDestroyed, NothingIsLate, InTree, taskVars, runVars,
                 schedulerVars
  <2>13. CASE UNCHANGED vars
    BY <2>13 DEF vars, NothingIsLate, InTree, taskVars, runVars, schedulerVars
  <2>14. QED
    BY <2>3, <2>4, <2>5, <2>6, <2>7, <2>9, <2>10, <2>11, <2>12, <2>13 DEF Next
<1>3. QED
  BY <1>1, <1>2, TypeCorrect, PTL DEF Spec

-----------------------------------------------------------------------------
\* A run under which the model changed knows that it has to be repeated.
ChangesRemembered == stale \cap running \subseteq needsRerun

\* The changes of a task without an interval are scheduled as soon as it does not run,
\* before _runOnce has returned too: nothing puts another schedule in the place of that.
WatchersScheduled ==
  \A t \in Task \ RegularTask :
    (t \in stale \ running /\ t \notin destroyed)
      => schedule[t] # NotScheduled /\ schedule[t].triggered

\* processNext takes a task out of the tree only to run it, and forgets no change.
LEMMA ProcessNextForgetsNothing ==
  ASSUME TypeOK, ChangesRemembered,
         NEW s \in [Task -> Schedule \cup {NotScheduled}], NEW m, NEW r, NEW w,
         ProcessNext(s, m, r, w)
  PROVE  /\ ChangesRemembered'
         /\ \A t \in Task : t \in stale' \ running' /\ t \notin destroyed =>
              t \in stale \ running /\ schedule'[t] = s[t]
<1>1. CASE schedule' = s /\ UNCHANGED runVars
  BY <1>1 DEF ChangesRemembered, runVars
<1>2. CASE \E t \in MostUrgent(s) :
             /\ s[t].ideal = 0
             /\ schedule' = [s EXCEPT ![t] = NotScheduled]
             /\ timer' = m
             /\ RunOnce(t, r, w)
  <2>1. PICK u \in MostUrgent(s) :
             /\ schedule' = [s EXCEPT ![u] = NotScheduled]
             /\ RunOnce(u, r, w)
    BY <1>2
  <2>2. u \in Task
    BY DEF MostUrgent, InTree
  <2>3. ASSUME NEW t \in Task, t # u PROVE schedule'[t] = s[t]
    BY <2>1, <2>3
  <2>4. CASE u \in running \/ u \in destroyed
    <3>1. UNCHANGED runVars
      BY <2>1, <2>4 DEF RunOnce
    <3>2. QED
      BY <2>3, <2>4, <3>1 DEF runVars, ChangesRemembered
  <2>5. CASE ~(u \in running \/ u \in destroyed)
    <3>1. /\ running' = running \cup {u}
          /\ needsRerun' = needsRerun
          /\ stale' = stale \ {u}
      BY <2>1, <2>5 DEF RunOnce
    <3>2. QED
      BY <2>3, <3>1 DEF ChangesRemembered
  <2>6. QED
    BY <2>4, <2>5
<1>3. QED
  BY <1>1, <1>2 DEF ProcessNext

\* A change that a task without an interval watches gets it scheduled for soon
\* (DiagnosisTask._handleModelChanged, "This will schedule it after the run").
THEOREM WatchedChangesAreScheduled == Spec => []WatchersAreScheduledSoon
<1> DEFINE IInv == ChangesRemembered /\ WatchersScheduled
<1>1. Init => IInv
  BY DEF Init, ChangesRemembered, WatchersScheduled
<1>2. TypeOK /\ IInv /\ [Next]_vars => IInv'
  <2> SUFFICES ASSUME TypeOK, ChangesRemembered, WatchersScheduled, [Next]_vars
               PROVE  ChangesRemembered' /\ WatchersScheduled'
    OBVIOUS
  <2>1. ASSUME NEW t \in Task, ScheduleForNow(t)
        PROVE  /\ schedule'[t] # NotScheduled /\ schedule'[t].triggered
               /\ \A u \in Task : u # t => schedule'[u] = schedule[u]
    <3>1. PICK delay \in 1..TriggerDelay :
            schedule' = [schedule EXCEPT ![t] = ScheduleIn(delay, TRUE)]
      BY <2>1 DEF ScheduleForNow, ScheduleTask
    <3>2. delay \in Nat
      BY TimesAssumption
    <3>3. /\ ScheduleIn(delay, TRUE) # NotScheduled
          /\ ScheduleIn(delay, TRUE).triggered = TRUE
      BY <3>2, ScheduleInType
    <3>4. QED
      BY <3>1, <3>3 DEF TypeOK
  <2>2. CASE ProcessQueuedCall
    <3>1. ProcessNext(schedule, timer, returned, watching) /\ destroyed' = destroyed
      BY <2>2 DEF ProcessQueuedCall
    <3>2. QED
      BY <3>1, ProcessNextForgetsNothing DEF WatchersScheduled, TypeOK
  <2>3. CASE TimerFires
    <3>1. ProcessNext(schedule, None, returned, watching) /\ destroyed' = destroyed
      BY <2>3 DEF TimerFires
    <3>2. QED
      BY <3>1, ProcessNextForgetsNothing DEF WatchersScheduled, TypeOK
  <2>4. CASE AppIsInitialized
    BY <2>4 DEF AppIsInitialized, ChangesRemembered, WatchersScheduled,
                taskVars, runVars, schedulerVars
  <2>5. CASE Tick
    <3>1. ASSUME NEW t \in Task, schedule[t] # NotScheduled, schedule[t].triggered
          PROVE  schedule'[t] # NotScheduled /\ schedule'[t].triggered
      <4>1. schedule[t] \in Schedule
        BY <3>1 DEF TypeOK
      <4>2. schedule'[t] = [schedule[t] EXCEPT !.ideal = IF @ = 0 THEN 0 ELSE @ - 1,
                                               !.urgency = @ - 1]
        BY <2>5, <3>1 DEF Tick
      <4>3. schedule[t].ideal \in Nat /\ schedule[t].urgency \in Int
        BY <4>1 DEF Schedule
      <4>4. /\ (IF schedule[t].ideal = 0 THEN 0 ELSE schedule[t].ideal - 1) \in Nat
            /\ schedule[t].urgency - 1 \in Int
        BY <4>3
      <4>5. schedule'[t] \in Schedule
        BY <4>1, <4>2, <4>4 DEF Schedule
      <4>6. QED
        BY <3>1, <4>1, <4>2, <4>5, NotScheduledAssumption DEF Schedule
    <3>2. QED
      BY <2>5, <3>1 DEF Tick, ChangesRemembered, WatchersScheduled
  <2>6. ASSUME NEW t \in Task, CreateTask(t)
        PROVE  ChangesRemembered' /\ WatchersScheduled'
    <3>1. PICK delay \in 0..TriggerDelay :
            schedule' = [schedule EXCEPT ![t] = ScheduleIn(delay, TRUE)]
      BY <2>6 DEF CreateTask, ScheduleTask
    <3>2. delay \in Nat
      BY TimesAssumption
    <3>3. /\ ScheduleIn(delay, TRUE) # NotScheduled
          /\ ScheduleIn(delay, TRUE).triggered = TRUE
      BY <3>2, ScheduleInType
    <3>4. /\ schedule'[t] # NotScheduled /\ schedule'[t].triggered
          /\ \A u \in Task : u # t => schedule'[u] = schedule[u]
      BY <3>1, <3>3 DEF TypeOK
    <3>5. QED
      BY <2>6, <3>4 DEF CreateTask, taskVars, runVars, ChangesRemembered, WatchersScheduled
  <2>7. ASSUME NEW t \in Task, Watch(t)
        PROVE  ChangesRemembered' /\ WatchersScheduled'
    BY <2>7 DEF Watch, schedulerVars, ChangesRemembered, WatchersScheduled
  <2>8. ASSUME NEW t \in Task, RunSettles(t)
        PROVE  ChangesRemembered' /\ WatchersScheduled'
    <3>1. ChangesRemembered'
      BY <2>8 DEF RunSettles, ChangesRemembered
    <3>2. ASSUME NEW u \in Task \ RegularTask, u \in stale' \ running', u \notin destroyed
          PROVE  schedule'[u] # NotScheduled /\ schedule'[u].triggered
      <4>1. CASE u = t
        <5>1. u \in needsRerun
          BY <2>8, <3>2, <4>1 DEF RunSettles, ChangesRemembered
        <5>2. QED
          BY <2>1, <2>8, <4>1, <5>1 DEF RunSettles
      <4>2. CASE u # t
        <5>1. schedule'[u] = schedule[u]
          BY <2>1, <2>8, <4>2 DEF RunSettles
        <5>2. QED
          BY <2>8, <3>2, <4>2, <5>1 DEF RunSettles, WatchersScheduled
      <4>3. QED
        BY <4>1, <4>2
    <3>3. QED
      BY <2>8, <3>1, <3>2 DEF RunSettles, WatchersScheduled
  <2>9. ASSUME NEW t \in Task, RunReturned(t)
        PROVE  ChangesRemembered' /\ WatchersScheduled'
    <3> DEFINE again == t \in RegularTask \ destroyed
               s == IF again THEN [schedule EXCEPT ![t] = ScheduleIn(Interval, FALSE)]
                             ELSE schedule
               r == [returned EXCEPT ![t] = @ - 1]
               w == IF t \in destroyed THEN watching \ {t} ELSE watching
    <3>1. ProcessNext(s, timer, r, w) /\ destroyed' = destroyed
      BY <2>9 DEF RunReturned
    <3>2. s \in [Task -> Schedule \cup {NotScheduled}]
      BY ScheduleInType, TimesAssumption DEF TypeOK
    <3>3. \A u \in Task \ RegularTask : s[u] = schedule[u]
      BY DEF TypeOK
    <3> HIDE DEF s, r, w
    <3>4. QED
      BY <3>1, <3>2, <3>3, ProcessNextForgetsNothing DEF WatchersScheduled
  <2>10. ASSUME NEW t \in Task, HandleModelChanged(t)
         PROVE  ChangesRemembered' /\ WatchersScheduled'
    <3>1. CASE t \in running
      BY <2>10, <3>1 DEF HandleModelChanged, ChangesRemembered, WatchersScheduled
    <3>2. CASE t \notin running
      BY <2>1, <2>10, <3>2 DEF HandleModelChanged, ChangesRemembered, WatchersScheduled
    <3>3. QED
      BY <3>1, <3>2
  <2>11. ASSUME NEW t \in Task, ItemDestroyed(t)
         PROVE  ChangesRemembered' /\ WatchersScheduled'
    BY <2>11 DEF ItemDestroyed, taskVars, runVars, schedulerVars, ChangesRemembered,
                 WatchersScheduled
  <2>12. CASE UNCHANGED vars
    BY <2>12 DEF vars, taskVars, runVars, schedulerVars, ChangesRemembered,
                 WatchersScheduled
  <2>13. QED
    BY <2>2, <2>3, <2>4, <2>5, <2>6, <2>7, <2>8, <2>9, <2>10, <2>11, <2>12 DEF Next
<1>3. TypeOK /\ IInv => WatchersAreScheduledSoon
  BY DEF WatchersScheduled, WatchersAreScheduledSoon, ChangeIsScheduled
<1>4. QED
  BY <1>1, <1>2, <1>3, TypeCorrect, PTL DEF Spec
=============================================================================
