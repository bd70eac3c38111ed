--------------------------- MODULE UserAppProofs ----------------------------
(* Theorems about UserApp: it implements Mp2, and the process of a RUNNING *)
(* task is awake.                                                          *)
EXTENDS UserApp, Mp2Proofs

-----------------------------------------------------------------------------
(* Refinement.                                                             *)

\* Every statement of main() is a call that Mp2 allows, or leaves the module
\* alone.
LEMMA MainStep ==
    ASSUME UserAppAssumption, NEW p \in Proc, main(p)
    PROVE  mp2_write(p) \/ EnterRead(p) \/ UNCHANGED vars
<1>1. p \in Names[p] /\ AppPeriod[p] \in Periods /\ AppTime[p] \in ProcTimes
  BY DEF UserAppAssumption
<1>2. CASE register_process(p)
  BY <1>1, <1>2 DEF register_process, NoFile, mp2_write
<1>3. CASE read_proc_fs(p)
  BY <1>3 DEF read_proc_fs, NoFile
<1>4. CASE yield_process(p)
  BY <1>1, <1>4 DEF yield_process, NoFile, mp2_write
<1>5. CASE factorial(p)
  BY <1>5 DEF factorial
<1>6. CASE deregister_process(p)
  BY <1>1, <1>6 DEF deregister_process, NoFile, mp2_write
<1> QED
  BY <1>2, <1>3, <1>4, <1>5, <1>6 DEF main

LEMMA AppStep == [AppNext]_appVars => [Next]_vars
<1>1. ASSUME NEW p \in Proc, main(p) PROVE [Next]_vars
  BY <1>1, MainStep, UserAppAssumption DEF Next
<1>2. CASE Kernel
  BY <1>2 DEF Kernel, Next
<1>3. CASE UNCHANGED appVars
  BY <1>3 DEF appVars
<1> QED
  BY <1>1, <1>2, <1>3 DEF AppNext

\* The applications are clients of the module like any other: every behaviour
\* of UserApp is one of Mp2, so what holds of Mp2 holds under the applications.
THEOREM AppImplementsMp2 == AppSpec => Spec
<1>1. AppInit => Init
  BY DEF AppInit
<1> QED
  BY <1>1, AppStep, PTL DEF AppSpec, Spec

-----------------------------------------------------------------------------
(* Types.                                                                  *)

\* A process computes a job only while it has one left.
AppInv ==
    /\ apc \in [Proc -> Statement]
    /\ jobs \in [Proc -> Nat]
    /\ \A p \in Proc : apc[p] = "factorial" => jobs[p] > 0

\* A statement of main() leads to the next.
LEMMA GotoStep ==
    ASSUME AppInv, NEW p \in Proc, NEW from, NEW to \in Statement,
           Goto(p, from, to)
    PROVE  /\ apc' \in [Proc -> Statement] /\ apc'[p] = to
           /\ \A q \in Proc \ {p} : apc'[q] = apc[q]
  BY DEF AppInv, Goto

\* Every step of the applications and of the module counts the jobs right.
LEMMA AppInvStep == AppInv /\ [AppNext]_appVars => AppInv'
<1> SUFFICES ASSUME AppInv, [AppNext]_appVars PROVE AppInv'
  OBVIOUS
<1>1. ASSUME NEW p \in Proc, NEW from, NEW to \in Statement \ {"factorial"},
             Goto(p, from, to), UNCHANGED jobs
      PROVE  AppInv'
  BY <1>1, GotoStep DEF AppInv
<1>2. ASSUME NEW p \in Proc, main(p) PROVE AppInv'
  <2>1. CASE register_process(p)
    BY <1>1, <2>1 DEF register_process, Statement
  <2>2. CASE read_proc_fs(p)
    BY <1>1, <2>2 DEF read_proc_fs, Statement
  <2>3. CASE yield_process(p)
    <3>1. CASE jobs[p] > 0
      <4>1. Goto(p, "yield_process", "factorial") /\ jobs' = jobs
        BY <2>3, <3>1 DEF yield_process
      <4>2. "factorial" \in Statement
        BY DEF Statement
      <4> QED
        BY <3>1, <4>1, <4>2, GotoStep DEF AppInv
    <3>2. CASE ~ (jobs[p] > 0)
      BY <1>1, <2>3, <3>2 DEF yield_process, Statement
    <3> QED
      BY <3>1, <3>2
  <2>4. CASE factorial(p)
    <3>1. Goto(p, "factorial", "yield_process") /\ jobs' = [jobs EXCEPT ![p] = @ - 1]
      BY <2>4 DEF factorial
    <3>2. jobs[p] \in Nat /\ jobs[p] > 0
      BY <3>1 DEF AppInv, Goto
    <3>3. jobs' \in [Proc -> Nat] /\ \A q \in Proc \ {p} : jobs'[q] = jobs[q]
      BY <3>1, <3>2 DEF AppInv
    <3>4. "yield_process" \in Statement
      BY DEF Statement
    <3> QED
      BY <3>1, <3>3, <3>4, GotoStep DEF AppInv
  <2>5. CASE deregister_process(p)
    BY <1>1, <2>5 DEF deregister_process, Statement
  <2> QED
    BY <1>2, <2>1, <2>2, <2>3, <2>4, <2>5 DEF main
<1>3. CASE UNCHANGED app
  BY <1>3 DEF app, AppInv
<1> QED
  BY <1>2, <1>3 DEF AppNext, appVars

\* The statement of main() a process is at and the jobs it has left keep their
\* types beside those of the module: no process runs more jobs than argv[2].
THEOREM AppTypeCorrect == AppSpec => []AppTypeOK
<1>1. AppInit => AppInv
  <2>1. AppInit => apc \in [Proc -> Statement]
    BY DEF AppInit, Statement
  <2>2. AppInit => jobs \in [Proc -> Nat]
    BY UserAppAssumption DEF AppInit
  <2>3. AppInit => \A p \in Proc : apc[p] # "factorial"
    BY DEF AppInit
  <2> QED
    BY <2>1, <2>2, <2>3 DEF AppInv
<1>2. AppInv /\ TypeOK => AppTypeOK
  BY DEF AppInv, AppTypeOK
<1>3. Spec => []TypeOK
  BY TypeCorrect
<1> QED
  BY <1>1, <1>2, <1>3, AppInvStep, AppImplementsMp2, PTL DEF AppSpec

-----------------------------------------------------------------------------
(* A RUNNING task is awake.                                                *)

\* An application speaks for itself only.
OwnCalls == \A c \in Proc : call[c].pid = c

AwakeInv == TypeOK /\ ListIntegrity /\ OneRunningTask /\ OwnCalls
            /\ RunningIsAwake

LEMMA OwnCallsStep == TypeOK /\ OwnCalls /\ [AppNext]_appVars => OwnCalls'
<1> SUFFICES ASSUME TypeOK, OwnCalls, [AppNext]_appVars PROVE OwnCalls'
  OBVIOUS
<1>1. CASE UNCHANGED call
  BY <1>1 DEF OwnCalls
<1>2. ASSUME NEW c \in Proc, Return(c) PROVE OwnCalls'
  BY <1>2 DEF Return, Idle, OwnCalls, TypeOK
<1>3. ASSUME NEW c \in Proc, NEW op, NEW period, NEW time,
             Enter(c, op, c, period, time)
      PROVE  OwnCalls'
  BY <1>3 DEF Enter, OwnCalls, TypeOK
<1>4. ASSUME NEW c \in Proc, call' = [call EXCEPT ![c].op = "registration"]
      PROVE  OwnCalls'
  <2>1. [call[c] EXCEPT !.op = "registration"].pid = call[c].pid
    BY DEF TypeOK
  <2> QED
    BY <1>4, <2>1 DEF OwnCalls, TypeOK
<1>5. ASSUME NEW p \in Proc, main(p) PROVE OwnCalls'
  <2>1. CASE NoFile(p) \/ factorial(p)
    BY <1>1, <2>1 DEF NoFile, factorial, vars
  <2>2. CASE \E op, period, time : Enter(p, op, p, period, time)
    BY <1>3, <2>2
  <2> QED
    BY <1>5, <2>1, <2>2 DEF main, register_process, read_proc_fs, EnterRead,
                            yield_process, deregister_process
<1>6. ASSUME NEW c \in Proc, CallStep(c) PROVE OwnCalls'
  <2>1. CASE Admission(c)
    BY <1>2, <1>4, <2>1 DEF Admission
  <2>2. CASE AdmissionOops(c)
    BY <1>1, <2>2 DEF AdmissionOops
  <2>3. CASE mp2_registration(c) \/ mp2_yield(c) \/ mp2_deregistration(c)
             \/ mp2_read(c)
    BY <1>2, <2>3 DEF mp2_registration, mp2_yield, mp2_deregistration, mp2_read
  <2> QED
    BY <1>6, <2>1, <2>2, <2>3 DEF CallStep
<1>7. CASE Tick \/ mp2_init \/ ExitStop \/ ExitStep
  BY <1>1, <1>7 DEF Tick, mp2_init, ExitStop, ExitStep, ExitFree, ExitUnlock
<1>8. CASE DispatcherStep
  BY <1>1, <1>8 DEF DispatcherStep, DispatcherStart, DispatcherCheck, Dispatch,
                    DispatchOops, DispatcherSchedule
<1>9. ASSUME NEW s \in Slot, TimerStep(s) PROVE OwnCalls'
  BY <1>1, <1>9 DEF TimerStep, TimerExpires, mp2_timer_callback, WakeDispatcher
<1>10. ASSUME NEW c \in Proc, Reschedule(c) PROVE OwnCalls'
  BY <1>1, <1>10 DEF Reschedule
<1>11. CASE UNCHANGED appVars
  BY <1>1, <1>11 DEF appVars, vars
<1> QED
  BY <1>5, <1>6, <1>7, <1>8, <1>9, <1>10, <1>11 DEF AppNext, Kernel

\* Outside Dispatch no task becomes RUNNING, and none changes its pid.
LEMMA WasRunning ==
    ASSUME TypeOK, [Next]_vars, ~Dispatch,
           NEW s \in Registered', obj'[s].state = "RUNNING"
    PROVE  /\ s \in Slot /\ s \in Registered /\ obj[s].state = "RUNNING"
           /\ obj'[s].pid = obj[s].pid
<1>1. s \in Slot
  <2>1. TypeOK'
    BY TypeStep
  <2> QED
    BY <2>1 DEF TypeOK, Registered, ToSet
<1>2. obj[s].state = "RUNNING"
  BY <1>1, StateStep
<1>3. CASE KeepsList
  BY <1>1, <1>2, <1>3 DEF KeepsList, Registered, ToSet
<1>4. ASSUME NEW t \in Slot, NEW c \in Proc, Adds(t, c)
      PROVE  s \in Registered /\ obj'[s].pid = obj[s].pid
  <2>1. Registered' = Registered \cup {t}
    BY <1>4, ListAddTail DEF Adds, TypeOK
  <2>2. obj'[t].state = "SLEEPING" /\ \A u \in Slot \ {t} : obj'[u] = obj[u]
    BY <1>4 DEF Adds, InitTask, TypeOK
  <2> QED
    BY <1>1, <2>1, <2>2
<1>5. ASSUME NEW t \in Slot, NEW c \in Proc, Leaks(t, c)
      PROVE  s \in Registered /\ obj'[s].pid = obj[s].pid
  <2>1. obj'[t].state = "SLEEPING" /\ \A u \in Slot \ {t} : obj'[u] = obj[u]
    BY <1>5 DEF Leaks, InitTask, TypeOK
  <2> QED
    BY <1>1, <1>5, <2>1 DEF Leaks, Registered, ToSet
<1>6. ASSUME NEW i \in DOMAIN list, Drops(i)
      PROVE  s \in Registered /\ obj'[s].pid = obj[s].pid
  BY <1>6, ListDel DEF Drops, TypeOK, Registered, ToSet
<1>7. CASE ExitFree
  BY <1>7 DEF ExitFree, Registered, ToSet
<1> QED
  BY <1>1, <1>2, <1>3, <1>4, <1>5, <1>6, <1>7, ListStep

\* Outside Dispatch, a process that loses the CPU has no RUNNING task: it
\* registers, puts its own task to sleep, or was not TASK_RUNNING any more.
LEMMA StaysAwake ==
    ASSUME TypeOK, ListIntegrity, OwnCalls, [Next]_vars, ~Dispatch,
           NEW s \in Registered, s \in Slot, obj'[s].state = "RUNNING",
           NEW p \in Proc, p = obj[s].pid, onrq[p], tstate[p] = "TASK_RUNNING"
    PROVE  onrq'[p] /\ tstate'[p] = "TASK_RUNNING"
<1>1. CASE UNCHANGED <<tstate, onrq>>
  BY <1>1
<1>2. ASSUME NEW c \in Proc, Reschedule(c)
      PROVE  onrq'[p] /\ tstate'[p] = "TASK_RUNNING"
  BY <1>2 DEF Reschedule, TypeOK
<1>3. ASSUME NEW c \in Proc, mp2_registration(c)
      PROVE  onrq'[p] /\ tstate'[p] = "TASK_RUNNING"
  <2>1. CASE UNCHANGED processes
    BY <1>1, <2>1 DEF processes
  <2>2. CASE IndexOf(call[c].pid) = {} /\ onrq' = onrq
             /\ set_current_state(c, "TASK_UNINTERRUPTIBLE")
    <3>1. p # c
      BY <2>2 DEF IndexOf, OwnCalls, Registered, ToSet
    <3> QED
      BY <2>2, <3>1 DEF set_current_state, TypeOK
  <2> QED
    BY <1>3, <2>1, <2>2 DEF mp2_registration
<1>4. ASSUME NEW c \in Proc, mp2_yield(c)
      PROVE  onrq'[p] /\ tstate'[p] = "TASK_RUNNING"
  <2>1. onrq' = onrq
    BY <1>4 DEF mp2_yield
  <2>2. CASE UNCHANGED tstate
    BY <1>1, <2>1, <2>2
  <2>3. ASSUME NEW i \in IndexOf(call[c].pid),
               obj' = [obj EXCEPT ![list[i]].state = "SLEEPING"],
               set_current_state(c, "TASK_UNINTERRUPTIBLE")
        PROVE  onrq'[p] /\ tstate'[p] = "TASK_RUNNING"
    <3>1. s # list[i]
      <4>1. [obj[s] EXCEPT !.state = "SLEEPING"].state = "SLEEPING"
        BY DEF TypeOK, Mp2TaskStruct
      <4> QED
        BY <2>3, <4>1 DEF TypeOK
    <3>2. p # c
      BY <3>1 DEF IndexOf, OwnCalls, ListIntegrity, Registered, ToSet
    <3> QED
      BY <2>1, <2>3, <3>2 DEF set_current_state, TypeOK
  <2> QED
    BY <1>4, <2>2, <2>3 DEF mp2_yield
<1>5. ASSUME NEW c \in Proc, \/ mp2_write(c) \/ EnterRead(c) \/ Admission(c)
                             \/ AdmissionOops(c) \/ mp2_deregistration(c)
                             \/ mp2_read(c)
      PROVE  UNCHANGED <<tstate, onrq>>
  BY <1>5 DEF mp2_write, EnterRead, Enter, Admission, AdmissionOops,
              mp2_deregistration, mp2_read, processes
<1>6. CASE Tick \/ mp2_init \/ ExitStop \/ ExitFree \/ ExitUnlock
  BY <1>1, <1>6 DEF Tick, mp2_init, ExitStop, ExitFree, ExitUnlock, processes
<1>7. CASE DispatcherStart \/ DispatcherCheck \/ DispatchOops
           \/ DispatcherSchedule
  BY <1>1, <1>7 DEF DispatcherStart, DispatcherCheck, DispatchOops,
                    DispatcherSchedule, processes
<1>8. ASSUME NEW t \in Slot, TimerStep(t) PROVE UNCHANGED <<tstate, onrq>>
  BY <1>8 DEF TimerStep, TimerExpires, mp2_timer_callback, WakeDispatcher,
              processes
<1>9. CASE UNCHANGED vars
  BY <1>1, <1>9 DEF vars, processes
<1> QED
  BY <1>1, <1>2, <1>3, <1>4, <1>5, <1>6, <1>7, <1>8, <1>9
  DEF Next, DispatcherStep, CallStep, ExitStep

LEMMA AwakeStep == AwakeInv /\ [AppNext]_appVars => RunningIsAwake'
<1> SUFFICES ASSUME AwakeInv, [AppNext]_appVars,
                    NEW s \in Registered', obj'[s].state = "RUNNING"
             PROVE  /\ onrq'[obj'[s].pid]
                    /\ tstate'[obj'[s].pid] = "TASK_RUNNING"
  BY DEF RunningIsAwake
<1>1. [Next]_vars
  BY AppStep
<1>2. CASE ~Dispatch
  <2>1. /\ s \in Slot /\ s \in Registered /\ obj[s].state = "RUNNING"
        /\ obj'[s].pid = obj[s].pid
    BY <1>1, <1>2, WasRunning DEF AwakeInv
  <2>2. /\ obj[s].pid \in Proc /\ onrq[obj[s].pid]
        /\ tstate[obj[s].pid] = "TASK_RUNNING"
    BY <2>1 DEF AwakeInv, ListIntegrity, RunningIsAwake
  <2> QED
    BY <1>1, <1>2, <2>1, <2>2, StaysAwake DEF AwakeInv
<1>3. CASE Dispatch
  <2>1. CASE UNCHANGED <<obj, current, processes>>
    BY <1>3, <2>1
    DEF Dispatch, processes, AwakeInv, RunningIsAwake, Registered, ToSet
  <2>2. ASSUME NEW i \in DOMAIN list, SwitchTo(list[i])
        PROVE  /\ onrq'[obj'[s].pid]
               /\ tstate'[obj'[s].pid] = "TASK_RUNNING"
    <3>1. s = list[i] /\ s \in Slot /\ s \in Registered
      <4>1. TypeOK /\ OneRunningTask
        BY DEF AwakeInv
      <4>2. OneRunningTask'
        BY <1>1, <4>1, RunningStep
      <4>3. list[i] \in Slot /\ mp2_curr_task' = list[i]
        BY <2>2, <4>1, SwitchStep
      <4>4. list[i] \in Registered
        BY DEF Registered, ToSet
      <4> QED
        BY <4>2, <4>3, <4>4 DEF OneRunningTask
    <3>2. obj'[s].pid = obj[s].pid
      <4>1. obj'[s] = [obj[s] EXCEPT !.state = "RUNNING"]
        BY <2>2, <3>1 DEF SwitchTo
      <4> QED
        BY <3>1, <4>1 DEF AwakeInv, TypeOK, Mp2TaskStruct
    <3>3. obj[s].pid \in Proc
      BY <3>1 DEF AwakeInv, ListIntegrity
    <3>4. /\ tstate' = [tstate EXCEPT ![obj[s].pid] = "TASK_RUNNING"]
          /\ onrq' = [onrq EXCEPT ![obj[s].pid] = TRUE]
      BY <2>2, <3>1 DEF SwitchTo
    <3> QED
      BY <3>2, <3>3, <3>4 DEF AwakeInv, TypeOK
  <2> QED
    BY <1>3, <2>1, <2>2 DEF Dispatch
<1> QED
  BY <1>2, <1>3

\* The process of a RUNNING task is never taken off its run queue, because an
\* application leaves TASK_RUNNING only with its own task SLEEPING.
THEOREM RunningStaysAwake == AppSpec => []RunningIsAwake
<1>1. AppInit => AwakeInv
  <2> SUFFICES ASSUME AppInit PROVE AwakeInv
    OBVIOUS
  <2>1. TypeOK
    BY InitType DEF AppInit
  <2>2. Registered = {}
    BY DEF AppInit, Init, Registered, ToSet
  <2>3. OwnCalls
    BY DEF AppInit, Init, OwnCalls, Idle
  <2> QED
    BY <2>1, <2>2, <2>3 DEF AppInit, Init, AwakeInv, ListIntegrity,
                            OneRunningTask, RunningIsAwake
<1>2. AwakeInv /\ [AppNext]_appVars => AwakeInv'
  BY AppStep, TypeStep, IntegrityStep, RunningStep, OwnCallsStep, AwakeStep
  DEF AwakeInv
<1>3. AwakeInv => RunningIsAwake
  BY DEF AwakeInv
<1> QED
  BY <1>1, <1>2, <1>3, PTL DEF AppSpec
=============================================================================
