----------------------------- MODULE Mp2Proofs ------------------------------
(* Theorems about Mp2, for every value of its constants.                   *)
EXTENDS Mp2, TLAPS

-----------------------------------------------------------------------------
(* The operators on the list.                                              *)

\* list_del removes one entry and keeps the others in their order.
LEMMA ListDel ==
    ASSUME NEW k \in DOMAIN list, list \in Seq(Slot), list_del(k)
    PROVE  /\ list' \in Seq(Slot)
           /\ Len(list') = Len(list) - 1
           /\ \A j \in DOMAIN list' : list'[j] = list[IF j < k THEN j ELSE j + 1]
           /\ \A j \in DOMAIN list' : (IF j < k THEN j ELSE j + 1) \in DOMAIN list \ {k}
  BY DEF list_del

\* list_add_tail adds its argument to the registered objects, and nothing else.
LEMMA ListAddTail ==
    ASSUME NEW s \in Slot, list \in Seq(Slot), list' = Append(list, s)
    PROVE  /\ list' \in Seq(Slot)
           /\ Registered' = Registered \cup {s}
           /\ \A i \in DOMAIN list' :
                 (i \in DOMAIN list /\ list'[i] = list[i])
                 \/ (i = Len(list) + 1 /\ list'[i] = s)
  BY DEF Registered, ToSet

-----------------------------------------------------------------------------
(* Types.                                                                  *)

LEMMA InitType == Init => TypeOK
<1> SUFFICES ASSUME Init PROVE TypeOK
  OBVIOUS
<1>1. obj \in [Slot -> Mp2TaskStruct]
  BY DEF Init, Mp2TaskStruct, TaskState
<1>2. call \in [Proc -> [op : Operation \cup {"none"}, pid : Pid,
                         period : Nat, processing_time : Nat]]
  BY Mp2Assumption DEF Init, Idle, Mp2Assumption
<1>3. list \in Seq(Slot)
  BY DEF Init
<1> QED
  BY <1>1, <1>2, <1>3 DEF Init, TypeOK, LinuxState

\* sched_setattr leaves a policy function, whether it succeeds or not.
LEMMA PolicyType ==
    ASSUME NEW pol \in [Proc -> {"SCHED_NORMAL", "SCHED_FIFO"}], NEW p,
           NEW new \in {"SCHED_NORMAL", "SCHED_FIFO"},
           NEW q \in sched_setattr(pol, p, new)
    PROVE  q \in [Proc -> {"SCHED_NORMAL", "SCHED_FIFO"}]
  BY DEF sched_setattr

\* A period in ms is a number of jiffies.
LEMMA JiffiesType == \A ms \in Nat : msecs_to_jiffies(ms) \in Nat
<1>1. MsPerJiffy \in Nat \ {0}
  BY Mp2Assumption DEF Mp2Assumption
<1>2. \A n \in Nat, d \in Nat \ {0} : n \div d \in Nat
  OBVIOUS
<1>3. \A ms \in Nat : ms + MsPerJiffy - 1 \in Nat
  BY <1>1
<1> QED
  BY <1>1, <1>2, <1>3 DEF msecs_to_jiffies

\* Updates of an object's fields are objects.
LEMMA ObjType ==
    ASSUME NEW o \in Mp2TaskStruct, NEW st \in TaskState, NEW d \in Nat
    PROVE  /\ [o EXCEPT !.state = st] \in Mp2TaskStruct
           /\ [o EXCEPT !.state = st, !.deadline_jiff = d] \in Mp2TaskStruct
  BY DEF Mp2TaskStruct

\* Every action keeps every variable in its type.
LEMMA TypeStep == TypeOK /\ [Next]_vars => TypeOK'
<1> SUFFICES ASSUME TypeOK, [Next]_vars PROVE TypeOK'
  OBVIOUS
<1> USE DEF heap, timers, current, dispatcher, processes, module
<1> USE DEF TypeOK, LinuxState, TaskState
<1>1. CASE Tick
  BY <1>1 DEF Tick
<1>2. CASE mp2_init
  BY <1>2 DEF mp2_init
<1>3. CASE ExitStop
  BY <1>3 DEF ExitStop
<1>4. CASE ExitFree
  BY <1>4 DEF ExitFree, del_timer
<1>5. CASE ExitUnlock
  BY <1>5 DEF ExitUnlock
<1>6. CASE DispatcherStart \/ DispatcherCheck \/ DispatcherSchedule
  BY <1>6 DEF DispatcherStart, DispatcherCheck, DispatcherSchedule
<1>7. CASE Dispatch
  <2>1. CASE UNCHANGED <<obj, current, processes>>
    BY <1>7, <2>1 DEF Dispatch
  <2>2. CASE \E i \in DOMAIN list : HighestPriority(i) /\ SwitchTo(list[i])
    <3>1. PICK i \in DOMAIN list : SwitchTo(list[i])
      BY <2>2
    <3>2. list[i] \in Slot
      OBVIOUS
    <3>3. obj' \in [Slot -> Mp2TaskStruct]
      BY <3>1, <3>2, ObjType DEF SwitchTo
    <3>4. policy' \in [Proc -> {"SCHED_NORMAL", "SCHED_FIFO"}]
      <4>1. PICK pol : /\ \/ pol = policy
                         \/ pol \in sched_setattr(policy, obj[mp2_curr_task].pid,
                                                 "SCHED_NORMAL")
                      /\ policy' \in sched_setattr(pol, obj[list[i]].pid, "SCHED_FIFO")
        BY <3>1 DEF SwitchTo
      <4>2. pol \in [Proc -> {"SCHED_NORMAL", "SCHED_FIFO"}]
        BY <4>1, PolicyType
      <4> QED
        BY <4>1, <4>2, PolicyType
    <3>5. tstate' \in [Proc -> LinuxState] /\ onrq' \in [Proc -> BOOLEAN]
      <4>1. /\ tstate' = [tstate EXCEPT ![obj[list[i]].pid] = "TASK_RUNNING"]
            /\ onrq' = [onrq EXCEPT ![obj[list[i]].pid] = TRUE]
        BY <3>1 DEF SwitchTo
      <4> QED
        BY <4>1
    <3>6. mp2_curr_task' \in Slot \cup {NULL} /\ curr_gone' \in BOOLEAN
      BY <3>1, <3>2 DEF SwitchTo
    <3> QED
      BY <1>7, <3>3, <3>4, <3>5, <3>6 DEF Dispatch
  <2> QED
    BY <1>7, <2>1, <2>2 DEF Dispatch
<1>8. CASE DispatchOops
  BY <1>8 DEF DispatchOops
<1>9. ASSUME NEW s \in Slot, TimerExpires(s) PROVE TypeOK'
  BY <1>9 DEF TimerExpires
<1>10. ASSUME NEW s \in Slot, mp2_timer_callback(s) PROVE TypeOK'
  <2> DEFINE deadline == obj[s].deadline_jiff + msecs_to_jiffies(obj[s].period)
  <2>1. obj[s] \in Mp2TaskStruct
    OBVIOUS
  <2>2. deadline \in Nat
    <3>1. obj[s].deadline_jiff \in Nat /\ obj[s].period \in Nat
      BY <2>1 DEF Mp2TaskStruct
    <3>2. msecs_to_jiffies(obj[s].period) \in Nat
      BY <3>1, JiffiesType
    <3> QED
      BY <3>1, <3>2
  <2> HIDE DEF deadline
  <2>3. CASE IndexOf(obj[s].pid) = {}
    BY <1>10, <2>3 DEF mp2_timer_callback
  <2>4. CASE IndexOf(obj[s].pid) # {}
    <3>1. /\ obj' = [obj EXCEPT ![s].state = "READY", ![s].deadline_jiff = deadline]
          /\ mod_timer(s, deadline)
      BY <1>10, <2>4 DEF mp2_timer_callback, deadline
    <3>2. obj' \in [Slot -> Mp2TaskStruct]
      <4>1. obj' = [obj EXCEPT ![s] =
                      [@ EXCEPT !.state = "READY", !.deadline_jiff = deadline]]
        BY <3>1
      <4> QED
        BY <2>1, <2>2, <4>1, ObjType
    <3> QED
      BY <1>10, <2>2, <3>1, <3>2 DEF mp2_timer_callback, mod_timer
  <2> QED
    BY <2>3, <2>4
<1>11. ASSUME NEW s \in Slot, WakeDispatcher(s) PROVE TypeOK'
  BY <1>11 DEF WakeDispatcher
<1>12. ASSUME NEW c \in Proc, mp2_write(c) \/ EnterRead(c) PROVE TypeOK'
  <2>1. PICK op \in Operation, pid \in Pid, period \in Nat,
             processing_time \in Nat : Enter(c, op, pid, period, processing_time)
    BY <1>12, Mp2Assumption, ULongAssumption
    DEF mp2_write, EnterRead, Operation, Mp2Assumption, ULongAssumption
  <2>2. call' \in [Proc -> [op : Operation \cup {"none"}, pid : Pid,
                           period : Nat, processing_time : Nat]]
    BY <2>1 DEF Enter
  <2> QED
    BY <2>1, <2>2 DEF Enter
<1>13. ASSUME NEW c \in Proc, CallStep(c) PROVE TypeOK'
  <2>1. Idle(c) \in [op : Operation \cup {"none"}, pid : Pid,
                    period : Nat, processing_time : Nat]
    BY Mp2Assumption DEF Idle, Mp2Assumption
  <2>2. Return(c) => call' \in [Proc -> [op : Operation \cup {"none"}, pid : Pid,
                                        period : Nat, processing_time : Nat]]
    BY <2>1 DEF Return
  <2>3. CASE Admission(c)
    <3>1. [call EXCEPT ![c].op = "registration"]
            \in [Proc -> [op : Operation \cup {"none"}, pid : Pid,
                          period : Nat, processing_time : Nat]]
      BY DEF Operation
    <3> QED
      BY <2>2, <2>3, <3>1 DEF Admission
  <2>4. CASE AdmissionOops(c)
    BY <2>4 DEF AdmissionOops
  <2>5. CASE mp2_registration(c)
    <3>1. CASE UNCHANGED <<heap, timers, processes>>
      BY <2>2, <2>5, <3>1 DEF mp2_registration
    <3>2. CASE ~UNCHANGED <<heap, timers, processes>>
      <4>1. PICK s \in Slot \ live :
               /\ InitTask(s, c)
               /\ IF call[c].pid \in Proc
                  THEN /\ set_current_state(c, "TASK_UNINTERRUPTIBLE")
                       /\ timer_setup(s)
                       /\ list' = Append(list, s)
                       /\ UNCHANGED <<callback, onrq, policy>>
                  ELSE UNCHANGED <<list, timers, processes>>
        BY <2>5, <3>2 DEF mp2_registration
      <4>2. jiffies + msecs_to_jiffies(call[c].period) \in Nat
        <5>1. call[c].period \in Nat
          OBVIOUS
        <5>2. msecs_to_jiffies(call[c].period) \in Nat
          BY <5>1, JiffiesType
        <5> QED
          BY <5>2
      <4>3. obj' \in [Slot -> Mp2TaskStruct] /\ live' \in SUBSET Slot
        BY <4>1, <4>2 DEF InitTask, Mp2TaskStruct
      <4>4. list' \in Seq(Slot)
        <5>1. list' = list \/ list' = Append(list, s)
          BY <4>1
        <5>2. s \in Slot
          OBVIOUS
        <5>3. list' = Append(list, s) => list' \in Seq(Slot)
          BY <5>2, ListAddTail
        <5>4. list' = list => list' \in Seq(Slot)
          OBVIOUS
        <5> QED
          BY <5>1, <5>3, <5>4
      <4>7. tstate' \in [Proc -> LinuxState]
        BY <4>1 DEF set_current_state
      <4>5. pending' \in SUBSET Slot /\ expires' \in [Slot -> Nat]
        BY <4>1 DEF timer_setup, del_timer
      <4>6. /\ callback' \in [Slot -> {"none", "lock", "wake"}]
            /\ onrq' \in [Proc -> BOOLEAN]
            /\ policy' \in [Proc -> {"SCHED_NORMAL", "SCHED_FIFO"}]
        BY <4>1
      <4> QED
        BY <2>2, <2>5, <4>3, <4>4, <4>5, <4>6, <4>7 DEF mp2_registration
    <3> QED
      BY <3>1, <3>2
  <2>6. CASE mp2_yield(c)
    <3>1. CASE UNCHANGED <<obj, pending, expires, tstate>>
      BY <2>2, <2>6, <3>1 DEF mp2_yield
    <3>2. CASE ~UNCHANGED <<obj, pending, expires, tstate>>
      <4>1. PICK i \in IndexOf(call[c].pid) : LET s == list[i] IN
               IF obj[s].deadline_jiff > jiffies
               THEN /\ obj' = [obj EXCEPT ![s].state = "SLEEPING"]
                    /\ set_current_state(c, "TASK_UNINTERRUPTIBLE")
                    /\ mod_timer(s, obj[s].deadline_jiff)
               ELSE mod_timer(s, jiffies) /\ UNCHANGED <<obj, tstate>>
        BY <2>6, <3>2 DEF mp2_yield
      <4>2. list[i] \in Slot /\ obj[list[i]].deadline_jiff \in Nat
        <5>1. list[i] \in Slot
          BY DEF IndexOf
        <5>2. obj[list[i]] \in Mp2TaskStruct
          BY <5>1
        <5> QED
          BY <5>1, <5>2 DEF Mp2TaskStruct
      <4>3. obj' \in [Slot -> Mp2TaskStruct]
        <5>1. \/ obj' = obj
              \/ obj' = [obj EXCEPT ![list[i]] = [@ EXCEPT !.state = "SLEEPING"]]
          BY <4>1
        <5>2. obj[list[i]] \in Mp2TaskStruct
          BY <4>2
        <5> QED
          BY <4>2, <5>1, <5>2, ObjType
      <4>4. pending' \in SUBSET Slot /\ expires' \in [Slot -> Nat]
        BY <4>1, <4>2 DEF mod_timer
      <4>5. tstate' \in [Proc -> LinuxState]
        BY <4>1 DEF set_current_state
      <4> QED
        BY <2>2, <2>6, <4>3, <4>4, <4>5 DEF mp2_yield
    <3> QED
      BY <3>1, <3>2
  <2>7. CASE mp2_deregistration(c)
    <3>1. CASE UNCHANGED <<list, live, pending, expires, curr_gone>>
      BY <2>2, <2>7, <3>1 DEF mp2_deregistration
    <3>2. CASE ~UNCHANGED <<list, live, pending, expires, curr_gone>>
      <4>1. PICK i \in IndexOf(call[c].pid) :
               /\ del_timer({list[i]})
               /\ list_del(i)
               /\ live' = live \ {list[i]}
               /\ curr_gone' = (curr_gone \/ list[i] = mp2_curr_task)
        BY <2>7, <3>2 DEF mp2_deregistration
      <4>2. i \in DOMAIN list
        BY DEF IndexOf
      <4>3. list' \in Seq(Slot)
        BY <4>1, <4>2, ListDel
      <4>4. pending' \in SUBSET Slot /\ expires' \in [Slot -> Nat]
        BY <4>1, <4>2 DEF del_timer
      <4> QED
        BY <2>2, <2>7, <4>1, <4>3, <4>4 DEF mp2_deregistration
    <3> QED
      BY <3>1, <3>2
  <2>8. CASE mp2_read(c)
    BY <2>2, <2>8 DEF mp2_read
  <2> QED
    BY <1>13, <2>3, <2>4, <2>5, <2>6, <2>7, <2>8 DEF CallStep
<1>14. ASSUME NEW c \in Proc, Reschedule(c) PROVE TypeOK'
  BY <1>14 DEF Reschedule
<1>15. CASE UNCHANGED vars
  BY <1>15 DEF vars
<1> QED
  BY <1>1, <1>2, <1>3, <1>4, <1>5, <1>6, <1>7, <1>8, <1>9, <1>10, <1>11, <1>12,
     <1>13, <1>14, <1>15
  DEF Next, DispatcherStep, TimerStep, ExitStep

\* Every variable of the scheduler stays in its type.
THEOREM TypeCorrect == Spec => []TypeOK
  BY InitType, TypeStep, PTL DEF Spec

-----------------------------------------------------------------------------
(* The list. A step does one of five things to it.                         *)

\* Nothing: objects keep their pid and their period.
KeepsList ==
    /\ UNCHANGED <<list, live>>
    /\ \A s \in Slot : obj'[s].pid = obj[s].pid /\ obj'[s].period = obj[s].period

\* A successful registration.
Adds(s, c) ==
    /\ s \in Slot \ live
    /\ IndexOf(call[c].pid) = {} /\ call[c].pid \in Proc
    /\ InitTask(s, c)
    /\ list' = Append(list, s)

\* A registration that finds no such process.
Leaks(s, c) ==
    /\ s \in Slot \ live
    /\ InitTask(s, c)
    /\ UNCHANGED list

\* A deregistration.
Drops(i) ==
    /\ i \in DOMAIN list
    /\ list_del(i)
    /\ live' = live \ {list[i]}
    /\ curr_gone' = (curr_gone \/ list[i] = mp2_curr_task)
    /\ UNCHANGED <<obj, mp2_curr_task, dispatcher, callback>>

LEMMA ListStep ==
    ASSUME TypeOK, [Next]_vars
    PROVE  \/ KeepsList
           \/ \E s \in Slot, c \in Proc : Adds(s, c) \/ Leaks(s, c)
           \/ \E i \in DOMAIN list : Drops(i)
           \/ ExitFree
<1> USE DEF heap, timers, current, dispatcher, processes, module
<1>1. CASE UNCHANGED heap
  BY <1>1 DEF KeepsList
<1>2. CASE Dispatch
  <2>1. CASE UNCHANGED <<obj, current, processes>>
    BY <1>2, <2>1 DEF Dispatch, KeepsList
  <2>2. CASE \E i \in DOMAIN list : HighestPriority(i) /\ SwitchTo(list[i])
    <3>1. PICK i \in DOMAIN list : SwitchTo(list[i])
      BY <2>2
    <3>2. obj' = [t \in Slot |->
                   IF t = list[i] THEN [obj[t] EXCEPT !.state = "RUNNING"]
                   ELSE IF t = mp2_curr_task
                        THEN [obj[t] EXCEPT !.state = "READY"] ELSE obj[t]]
      BY <3>1 DEF SwitchTo
    <3>3. \A t \in Slot : obj[t] \in Mp2TaskStruct
      BY DEF TypeOK
    <3>4. \A t \in Slot : obj'[t].pid = obj[t].pid /\ obj'[t].period = obj[t].period
      BY <3>2, <3>3 DEF Mp2TaskStruct
    <3> QED
      BY <1>2, <3>4 DEF Dispatch, KeepsList
  <2> QED
    BY <1>2, <2>1, <2>2 DEF Dispatch
<1>3. ASSUME NEW s \in Slot, mp2_timer_callback(s) PROVE KeepsList
  <2>1. \A t \in Slot : obj[t] \in Mp2TaskStruct
    BY DEF TypeOK
  <2>2. \A t \in Slot : obj'[t].pid = obj[t].pid /\ obj'[t].period = obj[t].period
    <3> DEFINE d == obj[s].deadline_jiff + msecs_to_jiffies(obj[s].period)
               new == [obj[s] EXCEPT !.state = "READY", !.deadline_jiff = d]
    <3>1. obj' = obj \/ obj' = [obj EXCEPT ![s] = new]
      BY <1>3 DEF mp2_timer_callback
    <3>2. new.pid = obj[s].pid /\ new.period = obj[s].period
      BY <2>1 DEF Mp2TaskStruct
    <3> HIDE DEF new
    <3> QED
      BY <3>1, <3>2 DEF TypeOK
  <2> QED
    BY <1>3, <2>2 DEF mp2_timer_callback, KeepsList
<1>4. ASSUME NEW c \in Proc, mp2_registration(c)
      PROVE  KeepsList \/ \E s \in Slot : Adds(s, c) \/ Leaks(s, c)
  BY <1>4 DEF mp2_registration, Adds, Leaks, KeepsList
<1>5. ASSUME NEW c \in Proc, mp2_yield(c) PROVE KeepsList
  <2>1. \A t \in Slot : obj[t] \in Mp2TaskStruct
    BY DEF TypeOK
  <2>2. obj' = obj \/ \E t \in Slot : obj' = [obj EXCEPT ![t].state = "SLEEPING"]
    <3>1. \A i \in IndexOf(call[c].pid) : list[i] \in Slot
      BY DEF IndexOf, TypeOK
    <3>2. \/ obj' = obj
          \/ \E i \in IndexOf(call[c].pid) :
                obj' = [obj EXCEPT ![list[i]].state = "SLEEPING"]
      BY <1>5 DEF mp2_yield
    <3> QED
      BY <3>1, <3>2
  <2>3. \A t \in Slot : \/ obj'[t] = obj[t]
                       \/ obj'[t] = [obj[t] EXCEPT !.state = "SLEEPING"]
    BY <2>2 DEF TypeOK
  <2>4. \A t \in Slot : obj'[t].pid = obj[t].pid /\ obj'[t].period = obj[t].period
    BY <2>1, <2>3 DEF Mp2TaskStruct
  <2> QED
    BY <1>5, <2>4 DEF mp2_yield, KeepsList
<1>6. ASSUME NEW c \in Proc, mp2_deregistration(c)
      PROVE  KeepsList \/ \E i \in DOMAIN list : Drops(i)
  BY <1>6 DEF mp2_deregistration, KeepsList, Drops, IndexOf
<1>7. CASE Tick \/ mp2_init \/ ExitStop \/ ExitUnlock
  BY <1>7, <1>1 DEF Tick, mp2_init, ExitStop, ExitUnlock
<1>8. CASE DispatcherStart \/ DispatcherCheck \/ DispatchOops \/ DispatcherSchedule
  BY <1>8, <1>1 DEF DispatcherStart, DispatcherCheck, DispatchOops, DispatcherSchedule
<1>9. ASSUME NEW s \in Slot, TimerExpires(s) \/ WakeDispatcher(s) PROVE KeepsList
  BY <1>9 DEF TimerExpires, WakeDispatcher, KeepsList
<1>10. ASSUME NEW c \in Proc, \/ mp2_write(c) \/ EnterRead(c) \/ Reschedule(c)
                              \/ Admission(c) \/ AdmissionOops(c) \/ mp2_read(c)
       PROVE  KeepsList
  BY <1>10 DEF mp2_write, EnterRead, Enter, Reschedule, Admission, AdmissionOops,
               mp2_read, KeepsList
<1>11. CASE UNCHANGED vars
  BY <1>11, <1>1 DEF vars
<1> QED
  BY <1>2, <1>3, <1>4, <1>5, <1>6, <1>7, <1>8, <1>9, <1>10, <1>11
  DEF Next, DispatcherStep, TimerStep, CallStep, ExitStep

LEMMA IntegrityStep ==
    TypeOK /\ ListIntegrity /\ [Next]_vars => ListIntegrity'
<1> SUFFICES ASSUME TypeOK, ListIntegrity, [Next]_vars PROVE ListIntegrity'
  OBVIOUS
<1>1. CASE KeepsList
  <2>1. /\ list' = list /\ live' = live
        /\ \A t \in Slot : obj'[t].pid = obj[t].pid
    BY <1>1 DEF KeepsList
  <2>2. \A i \in DOMAIN list : list[i] \in Slot
    BY DEF TypeOK
  <2>3. \A i \in DOMAIN list : obj'[list'[i]].pid = obj[list[i]].pid
    BY <2>1, <2>2
  <2>4. Registered' = Registered
    BY <2>1 DEF Registered, ToSet
  <2>5. \A t \in Registered : t \in Slot
    BY <2>2 DEF Registered, ToSet
  <2> QED
    BY <2>1, <2>3, <2>4, <2>5 DEF ListIntegrity
<1>2. ASSUME NEW s \in Slot, NEW c \in Proc, Adds(s, c) PROVE ListIntegrity'
  <2>1. /\ list' = Append(list, s) /\ live' = live \cup {s} /\ s \notin live
        /\ obj'[s].pid = call[c].pid /\ call[c].pid \in Proc
        /\ \A t \in Slot \ {s} : obj'[t] = obj[t]
    BY <1>2 DEF Adds, InitTask, TypeOK
  <2>2. /\ Registered' = Registered \cup {s}
        /\ \A i \in DOMAIN list' : \/ i \in DOMAIN list /\ list'[i] = list[i]
                                   \/ i = Len(list) + 1 /\ list'[i] = s
    BY <2>1, ListAddTail DEF TypeOK
  <2>3. \A i \in DOMAIN list : /\ list[i] \in Slot \ {s}
                               /\ obj[list[i]].pid # call[c].pid
    BY <1>2, <2>1 DEF Adds, IndexOf, ListIntegrity, Registered, ToSet, TypeOK
  <2>4. \A i, j \in DOMAIN list' : obj'[list'[i]].pid = obj'[list'[j]].pid => i = j
    BY <2>1, <2>2, <2>3 DEF ListIntegrity
  <2>5. \A t \in Registered' : obj'[t].pid \in Proc
    BY <2>1, <2>2 DEF ListIntegrity, Registered, ToSet, TypeOK
  <2>6. Registered' \subseteq live'
    BY <2>1, <2>2 DEF ListIntegrity
  <2> QED
    BY <2>4, <2>5, <2>6 DEF ListIntegrity
<1>3. ASSUME NEW s \in Slot, NEW c \in Proc, Leaks(s, c) PROVE ListIntegrity'
  <2>1. /\ live' = live \cup {s} /\ s \notin live /\ list' = list
        /\ \A t \in Slot \ {s} : obj'[t] = obj[t]
    BY <1>3 DEF Leaks, InitTask, TypeOK
  <2>2. \A i \in DOMAIN list : list[i] \in Slot \ {s}
    BY <2>1 DEF ListIntegrity, Registered, ToSet, TypeOK
  <2> QED
    BY <2>1, <2>2 DEF ListIntegrity, Registered, ToSet
<1>4. ASSUME NEW k \in DOMAIN list, Drops(k) PROVE ListIntegrity'
  <2>1. /\ \A j \in DOMAIN list' : list'[j] = list[IF j < k THEN j ELSE j + 1]
        /\ \A j \in DOMAIN list' :
              (IF j < k THEN j ELSE j + 1) \in DOMAIN list \ {k}
        /\ list' \in Seq(Slot)
    BY <1>4, ListDel DEF Drops, TypeOK
  <2>2. obj' = obj /\ live' = live \ {list[k]}
    BY <1>4 DEF Drops
  <2>3. \A j \in DOMAIN list' : list'[j] \in Registered \ {list[k]}
    BY <2>1 DEF ListIntegrity, Registered, ToSet
  <2>4. \A i, j \in DOMAIN list' : obj[list'[i]].pid = obj[list'[j]].pid => i = j
    <3> DEFINE m(j) == IF j < k THEN j ELSE j + 1
    <3>1. \A j \in DOMAIN list' : m(j) \in DOMAIN list /\ list'[j] = list[m(j)]
      BY <2>1
    <3>2. \A i, j \in DOMAIN list' : m(i) = m(j) => i = j
      BY <2>1
    <3> HIDE DEF m
    <3> QED
      BY <3>1, <3>2 DEF ListIntegrity
  <2> QED
    BY <2>2, <2>3, <2>4 DEF ListIntegrity, Registered, ToSet
<1>5. CASE ExitFree
  BY <1>5 DEF ExitFree, ListIntegrity, Registered, ToSet
<1> QED
  BY <1>1, <1>2, <1>3, <1>4, <1>5, ListStep

\* The list is sound at every moment, however registrations interleave.
THEOREM ListSound == Spec => []ListIntegrity
<1>1. Init => ListIntegrity
  BY DEF Init, ListIntegrity, Registered, ToSet
<1> QED
  BY <1>1, IntegrityStep, TypeCorrect, PTL DEF Spec

-----------------------------------------------------------------------------
(* The dispatcher.                                                         *)

\* While it was not deregistered, the current task is on the list: a new
\* object is never put at its address.
CurrListed ==
    mp2_curr_task # NULL /\ ~curr_gone => mp2_curr_task \in Registered

ThreadPhase ==
    /\ mod = "absent" => dpc = "none"
    /\ dpc = "exited" => should_stop

IInv == TypeOK /\ ListIntegrity /\ CurrListed /\ ThreadPhase
        /\ OneRunningTask /\ NoLostWakeup

\* Only the dispatcher makes a task RUNNING or changes mp2_curr_task.
LEMMA StateStep ==
    ASSUME TypeOK, [Next]_vars, ~Dispatch
    PROVE  /\ mp2_curr_task' = mp2_curr_task
           /\ \A s \in Slot : obj'[s].state \in {obj[s].state, "READY", "SLEEPING"}
<1> USE DEF heap, timers, current, dispatcher, processes, module
<1>1. CASE UNCHANGED <<obj, current>>
  BY <1>1
<1>2. ASSUME NEW s \in Slot, mp2_timer_callback(s)
      PROVE  /\ UNCHANGED current
             /\ \A t \in Slot : obj'[t].state \in {obj[t].state, "READY"}
  <2> DEFINE d == obj[s].deadline_jiff + msecs_to_jiffies(obj[s].period)
             new == [obj[s] EXCEPT !.state = "READY", !.deadline_jiff = d]
  <2>1. UNCHANGED current /\ (obj' = obj \/ obj' = [obj EXCEPT ![s] = new])
    BY <1>2 DEF mp2_timer_callback
  <2>2. new.state = "READY"
    BY DEF TypeOK, Mp2TaskStruct
  <2> HIDE DEF new
  <2> QED
    BY <2>1, <2>2 DEF TypeOK
<1>3. ASSUME NEW c \in Proc, mp2_registration(c)
      PROVE  /\ UNCHANGED current
             /\ \A t \in Slot : obj'[t].state \in {obj[t].state, "SLEEPING"}
  <2>1. UNCHANGED current
    BY <1>3 DEF mp2_registration
  <2>2. CASE UNCHANGED heap
    BY <2>1, <2>2
  <2>3. CASE ~UNCHANGED heap
    <3>1. PICK s \in Slot \ live : InitTask(s, c)
      BY <1>3, <2>3 DEF mp2_registration
    <3> QED
      BY <2>1, <3>1 DEF InitTask, TypeOK
  <2> QED
    BY <2>2, <2>3
<1>4. ASSUME NEW c \in Proc, mp2_yield(c)
      PROVE  /\ UNCHANGED current
             /\ \A t \in Slot : obj'[t].state \in {obj[t].state, "SLEEPING"}
  <2>1. \/ obj' = obj
        \/ \E i \in IndexOf(call[c].pid) :
              obj' = [obj EXCEPT ![list[i]] = [@ EXCEPT !.state = "SLEEPING"]]
    BY <1>4 DEF mp2_yield
  <2>2. \A t \in Slot : [obj[t] EXCEPT !.state = "SLEEPING"].state = "SLEEPING"
    BY DEF TypeOK, Mp2TaskStruct
  <2> QED
    <3>1. UNCHANGED current
      BY <1>4 DEF mp2_yield
    <3>2. ASSUME NEW i \in IndexOf(call[c].pid),
                 obj' = [obj EXCEPT ![list[i]] = [@ EXCEPT !.state = "SLEEPING"]]
          PROVE  \A t \in Slot : obj'[t].state \in {obj[t].state, "SLEEPING"}
      BY <2>2, <3>2 DEF TypeOK
    <3> QED
      BY <2>1, <3>1, <3>2
<1>5. ASSUME NEW c \in Proc, mp2_deregistration(c)
      PROVE  UNCHANGED <<obj, mp2_curr_task>>
  BY <1>5 DEF mp2_deregistration
<1>6. CASE Tick \/ mp2_init \/ ExitStop \/ ExitFree \/ ExitUnlock
  BY <1>6 DEF Tick, mp2_init, ExitStop, ExitFree, ExitUnlock
<1>7. CASE DispatcherStart \/ DispatcherCheck \/ DispatchOops \/ DispatcherSchedule
  BY <1>7, <1>1 DEF DispatcherStart, DispatcherCheck, DispatchOops, DispatcherSchedule
<1>8. ASSUME NEW s \in Slot, TimerExpires(s) \/ WakeDispatcher(s)
      PROVE  UNCHANGED <<obj, current>>
  BY <1>8 DEF TimerExpires, WakeDispatcher
<1>9. ASSUME NEW c \in Proc, \/ mp2_write(c) \/ EnterRead(c) \/ Reschedule(c)
                             \/ Admission(c) \/ AdmissionOops(c) \/ mp2_read(c)
      PROVE  UNCHANGED <<obj, current>>
  BY <1>9 DEF mp2_write, EnterRead, Enter, Reschedule, Admission, AdmissionOops,
              mp2_read
<1>10. CASE UNCHANGED vars
  BY <1>10, <1>1 DEF vars
<1> QED
  BY <1>2, <1>3, <1>4, <1>5, <1>6, <1>7, <1>8, <1>9, <1>10
  DEF Next, DispatcherStep, TimerStep, CallStep, ExitStep

\* What Dispatch does when it switches to the task at index i.
LEMMA SwitchStep ==
    ASSUME TypeOK, NEW i \in DOMAIN list, SwitchTo(list[i])
    PROVE  /\ list[i] \in Slot
           /\ mp2_curr_task' = list[i] /\ curr_gone' = FALSE
           /\ \A t \in Slot : obj'[t].period = obj[t].period
           /\ obj'[list[i]].state = "RUNNING"
           /\ \A t \in Slot \ {list[i]} :
                 obj'[t].state = IF t = mp2_curr_task THEN "READY" ELSE obj[t].state
<1>1. list[i] \in Slot /\ \A t \in Slot : obj[t] \in Mp2TaskStruct
  BY DEF TypeOK
<1>2. /\ mp2_curr_task' = list[i] /\ curr_gone' = FALSE
      /\ obj' = [t \in Slot |->
                   IF t = list[i] THEN [obj[t] EXCEPT !.state = "RUNNING"]
                   ELSE IF t = mp2_curr_task
                        THEN [obj[t] EXCEPT !.state = "READY"] ELSE obj[t]]
  BY DEF SwitchTo
<1> QED
  BY <1>1, <1>2 DEF Mp2TaskStruct

LEMMA RunningStep ==
    TypeOK /\ OneRunningTask /\ [Next]_vars => OneRunningTask'
<1> SUFFICES ASSUME TypeOK, OneRunningTask, [Next]_vars,
                    NEW s \in Registered', obj'[s].state = "RUNNING"
             PROVE  s = mp2_curr_task'
  BY DEF OneRunningTask
<1>0. s \in Slot
  <2>1. TypeOK'
    BY TypeStep
  <2> QED
    BY <2>1 DEF TypeOK, Registered, ToSet
<1>1. CASE Dispatch
  <2>1. Registered' = Registered
    BY <1>1 DEF Dispatch, Registered, ToSet
  <2>2. CASE UNCHANGED <<obj, current, processes>>
    BY <2>1, <2>2 DEF OneRunningTask, current
  <2>3. CASE \E i \in DOMAIN list : HighestPriority(i) /\ SwitchTo(list[i])
    <3>1. PICK i \in DOMAIN list : SwitchTo(list[i])
      BY <2>3
    <3>2. SUFFICES s = list[i]
      BY <3>1, SwitchStep
    <3> QED
      BY <1>0, <2>1, <3>1, SwitchStep DEF OneRunningTask
  <2> QED
    BY <1>1, <2>2, <2>3 DEF Dispatch
<1>2. CASE ~Dispatch
  <2>1. mp2_curr_task' = mp2_curr_task /\ obj[s].state = "RUNNING"
    BY <1>0, <1>2, StateStep
  <2>2. CASE KeepsList
    BY <2>1, <2>2 DEF KeepsList, OneRunningTask, Registered, ToSet
  <2>3. ASSUME NEW t \in Slot, NEW c \in Proc, Adds(t, c) PROVE s = mp2_curr_task'
    <3>1. Registered' = Registered \cup {t}
      BY <2>3, ListAddTail DEF Adds, TypeOK
    <3>2. obj'[t].state = "SLEEPING"
      BY <2>3 DEF Adds, InitTask, TypeOK
    <3> QED
      BY <2>1, <3>1, <3>2 DEF OneRunningTask
  <2>4. ASSUME NEW t \in Slot, NEW c \in Proc, Leaks(t, c) PROVE s = mp2_curr_task'
    BY <2>1, <2>4 DEF Leaks, OneRunningTask, Registered, ToSet
  <2>5. ASSUME NEW i \in DOMAIN list, Drops(i) PROVE s = mp2_curr_task'
    <3>1. Registered' \subseteq Registered
      BY <2>5, ListDel DEF Drops, TypeOK, Registered, ToSet
    <3> QED
      BY <2>1, <3>1 DEF OneRunningTask
  <2>6. CASE ExitFree
    BY <2>6 DEF ExitFree, Registered, ToSet
  <2> QED
    BY <2>2, <2>3, <2>4, <2>5, <2>6, ListStep
<1> QED
  BY <1>1, <1>2

\* Only the task that mp2_curr_task points to can be RUNNING.
THEOREM RunningIsCurrent == Spec => []OneRunningTask
<1>1. Init => OneRunningTask
  BY DEF Init, OneRunningTask, Registered, ToSet
<1> QED
  BY <1>1, RunningStep, TypeCorrect, PTL DEF Spec

-----------------------------------------------------------------------------
(* No wake-up is lost.                                                     *)

LEMMA CurrentStep ==
    ASSUME [Next]_vars
    PROVE  \/ UNCHANGED current
           \/ Dispatch
           \/ \E c \in Proc : mp2_deregistration(c)
           \/ ExitFree
<1> USE DEF current
<1>1. ASSUME NEW c \in Proc, CallStep(c), ~mp2_deregistration(c)
      PROVE  UNCHANGED current
  BY <1>1 DEF CallStep, Admission, AdmissionOops, mp2_registration, mp2_yield, mp2_read
<1>2. ASSUME NEW c \in Proc, mp2_write(c) \/ EnterRead(c) \/ Reschedule(c)
      PROVE  UNCHANGED current
  BY <1>2 DEF mp2_write, EnterRead, Enter, Reschedule
<1>3. ASSUME NEW s \in Slot, TimerStep(s) PROVE UNCHANGED current
  BY <1>3 DEF TimerStep, TimerExpires, mp2_timer_callback, WakeDispatcher
<1>4. CASE Tick \/ mp2_init \/ ExitStop \/ ExitUnlock
  BY <1>4 DEF Tick, mp2_init, ExitStop, ExitUnlock
<1>5. CASE DispatcherStep /\ ~Dispatch
  BY <1>5 DEF DispatcherStep, DispatcherStart, DispatcherCheck, DispatchOops,
              DispatcherSchedule
<1> QED
  BY <1>1, <1>2, <1>3, <1>4, <1>5 DEF Next, ExitStep, vars

LEMMA CurrListedStep ==
    TypeOK /\ ListIntegrity /\ CurrListed /\ [Next]_vars => CurrListed'
<1> SUFFICES ASSUME TypeOK, ListIntegrity, CurrListed, [Next]_vars
             PROVE  CurrListed'
  OBVIOUS
<1>1. CASE UNCHANGED current
  <2>1. CASE KeepsList
    BY <1>1, <2>1 DEF KeepsList, CurrListed, current, Registered, ToSet
  <2>2. ASSUME NEW s \in Slot, NEW c \in Proc, Adds(s, c) \/ Leaks(s, c)
        PROVE  CurrListed'
    <3>1. Registered \subseteq Registered'
      BY <2>2, ListAddTail DEF Adds, Leaks, TypeOK, Registered, ToSet
    <3> QED
      BY <1>1, <3>1 DEF CurrListed, current
  <2>3. ASSUME NEW i \in DOMAIN list, Drops(i) PROVE CurrListed'
    <3>1. Registered \ {list[i]} \subseteq Registered'
      <4>1. Len(list') = Len(list) - 1 /\ list' \in Seq(Slot)
        BY <2>3, ListDel DEF Drops, TypeOK
      <4>2. \A j \in DOMAIN list' : list'[j] = list[IF j < i THEN j ELSE j + 1]
        BY <2>3, ListDel DEF Drops, TypeOK
      <4>3. ASSUME NEW j \in DOMAIN list, j # i
            PROVE  \E k \in DOMAIN list' : list'[k] = list[j]
        <5>1. CASE j < i
          <6>1. j \in DOMAIN list' /\ list'[j] = list[j]
            BY <4>1, <4>2, <4>3, <5>1 DEF TypeOK
          <6> QED
            BY <6>1
        <5>2. CASE j > i
          <6>1. j - 1 \in DOMAIN list' /\ ~(j - 1 < i)
            BY <4>1, <5>2 DEF TypeOK
          <6> QED
            BY <4>2, <6>1 DEF TypeOK
        <5> QED
          BY <4>3, <5>1, <5>2 DEF TypeOK
      <4> QED
        BY <4>3 DEF Registered, ToSet
    <3> QED
      BY <1>1, <2>3, <3>1 DEF Drops, CurrListed, current
  <2>4. CASE ExitFree
    BY <1>1, <2>4 DEF ExitFree, CurrListed, current
  <2> QED
    BY <2>1, <2>2, <2>3, <2>4, ListStep
<1>2. CASE Dispatch
  <2>1. Registered' = Registered
    BY <1>2 DEF Dispatch, Registered, ToSet
  <2>2. CASE UNCHANGED <<obj, current, processes>>
    BY <2>1, <2>2 DEF CurrListed, current
  <2>3. CASE \E i \in DOMAIN list : HighestPriority(i) /\ SwitchTo(list[i])
    BY <2>1, <2>3 DEF SwitchTo, CurrListed, Registered, ToSet
  <2> QED
    BY <1>2, <2>2, <2>3 DEF Dispatch
<1>3. ASSUME NEW c \in Proc, mp2_deregistration(c) PROVE CurrListed'
  <2>1. CASE UNCHANGED <<list, curr_gone>>
    BY <1>3, <2>1 DEF mp2_deregistration, CurrListed, Registered, ToSet
  <2>2. ASSUME NEW i \in IndexOf(call[c].pid), list_del(i),
               curr_gone' = (curr_gone \/ list[i] = mp2_curr_task)
        PROVE  CurrListed'
    <3>1. CASE curr_gone'
      BY <3>1 DEF CurrListed
    <3>2. CASE ~curr_gone'
      BY <1>1, <1>3, <2>2, <3>2 DEF mp2_deregistration, current, TypeOK
    <3> QED
      BY <3>1, <3>2
  <2> QED
    BY <1>3, <2>1, <2>2 DEF mp2_deregistration
<1>4. CASE ExitFree
  BY <1>4 DEF ExitFree, CurrListed
<1> QED
  BY <1>1, <1>2, <1>3, <1>4, CurrentStep

LEMMA ThreadPhaseStep == TypeOK /\ ThreadPhase /\ [Next]_vars => ThreadPhase'
<1> SUFFICES ASSUME ThreadPhase, [Next]_vars PROVE ThreadPhase'
  OBVIOUS
<1> USE DEF dispatcher, module, ThreadPhase
<1>1. CASE DispatcherStep
  BY <1>1 DEF DispatcherStep, DispatcherStart, DispatcherCheck, Dispatch,
              DispatchOops, DispatcherSchedule
<1>2. ASSUME NEW s \in Slot, TimerStep(s) PROVE ThreadPhase'
  BY <1>2 DEF TimerStep, TimerExpires, mp2_timer_callback, WakeDispatcher
<1>3. ASSUME NEW c \in Proc, \/ mp2_write(c) \/ EnterRead(c) \/ CallStep(c)
                             \/ Reschedule(c)
      PROVE  ThreadPhase'
  BY <1>3 DEF mp2_write, EnterRead, Enter, CallStep, Admission, AdmissionOops,
              mp2_registration, mp2_yield, mp2_deregistration, mp2_read, Reschedule
<1>4. CASE Tick \/ mp2_init \/ ExitStop \/ ExitStep
  BY <1>4 DEF Tick, mp2_init, ExitStop, ExitStep, ExitFree, ExitUnlock
<1> QED
  BY <1>1, <1>2, <1>3, <1>4 DEF Next, vars

\* A step after which nothing urgent is new leaves the thread on its way to
\* the scan if it was.
LEMMA WakeupKept ==
    ASSUME NoLostWakeup, WillScan => WillScan' \/ should_stop',
           curr_gone => curr_gone', should_stop => should_stop',
           \A s \in Registered' : Urgent(s)' => s \in Registered /\ Urgent(s)
    PROVE  NoLostWakeup'
  BY DEF NoLostWakeup

\* The scan leaves nothing urgent behind.
LEMMA DispatchLeavesNone ==
    ASSUME TypeOK, Dispatch, NEW s \in Registered'
    PROVE  ~Urgent(s)'
<1>1. list' = list /\ Registered' = Registered /\ s \in Slot
  BY DEF Dispatch, Registered, ToSet, TypeOK
<1>2. PICK k \in DOMAIN list : s = list[k]
  BY <1>1 DEF Registered, ToSet
<1>3. CASE UNCHANGED <<obj, current, processes>> /\ \A i \in DOMAIN list : ~Urgent(list[i])
  BY <1>2, <1>3 DEF Urgent, min_period, current
<1>4. CASE \E i \in DOMAIN list : HighestPriority(i) /\ SwitchTo(list[i])
  <2>1. PICK i \in DOMAIN list : HighestPriority(i) /\ SwitchTo(list[i])
    BY <1>4
  <2>2. /\ list[i] \in Slot /\ mp2_curr_task' = list[i]
        /\ \A t \in Slot : obj'[t].period = obj[t].period
        /\ obj'[list[i]].state = "RUNNING"
        /\ \A t \in Slot \ {list[i]} :
              obj'[t].state = IF t = mp2_curr_task THEN "READY" ELSE obj[t].state
    BY <2>1, SwitchStep
  <2>3. \A t \in Slot : obj[t].period \in Nat
    BY DEF TypeOK, Mp2TaskStruct
  <2>4. list[i] # NULL
    BY <2>2, Mp2Assumption DEF Mp2Assumption
  <2>5. min_period' = obj[list[i]].period
    BY <2>2, <2>4 DEF min_period
  <2>6. obj[list[i]].period < min_period /\ obj[list[i]].state = "READY"
    BY <2>1 DEF HighestPriority, Urgent
  <2>7. CASE s = list[i]
    BY <2>2, <2>7 DEF Urgent
  <2>8. CASE s # list[i] /\ s = mp2_curr_task
    <3>1. min_period = obj[s].period
      BY <1>1, <2>8, Mp2Assumption DEF min_period, Mp2Assumption
    <3> QED
      BY <1>1, <2>2, <2>3, <2>5, <2>6, <3>1 DEF Urgent
  <2>9. CASE s # list[i] /\ s # mp2_curr_task
    <3>1. obj'[s].state = obj[s].state /\ obj'[s].period = obj[s].period
      BY <1>1, <2>2, <2>9
    <3>2. Urgent(s) => obj[list[i]].period <= obj[s].period
      BY <1>1, <1>2, <2>1, <2>2, <2>3 DEF HighestPriority
    <3>3. min_period \in Nat
      BY <2>3, ULongAssumption DEF min_period, TypeOK, ULongAssumption
    <3> QED
      BY <1>1, <2>2, <2>3, <2>5, <2>6, <3>1, <3>2, <3>3 DEF Urgent
  <2> QED
    BY <2>7, <2>8, <2>9
<1> QED
  BY <1>3, <1>4 DEF Dispatch

LEMMA WakeupStep == IInv /\ [Next]_vars => NoLostWakeup'
<1> SUFFICES ASSUME TypeOK, ListIntegrity, CurrListed, ThreadPhase, NoLostWakeup,
                    [Next]_vars
             PROVE  NoLostWakeup'
  BY DEF IInv
<1> USE DEF heap, timers, current, dispatcher, module
<1>1. ASSUME UNCHANGED <<heap, current>>, WillScan => WillScan' \/ should_stop',
             should_stop => should_stop'
      PROVE  NoLostWakeup'
  <2>1. \A s \in Registered' : Urgent(s)' => s \in Registered /\ Urgent(s)
    BY <1>1 DEF Urgent, min_period, Registered, ToSet
  <2> QED
    BY <1>1, <2>1, WakeupKept
<1>2. CASE Tick \/ mp2_init \/ ExitStop \/ ExitUnlock
  BY <1>2, <1>1 DEF Tick, mp2_init, ExitStop, ExitUnlock, WillScan, ThreadPhase
<1>3. CASE ExitFree
  BY <1>3 DEF ExitFree, NoLostWakeup, Registered, ToSet
<1>4. CASE DispatcherStart \/ DispatcherCheck \/ DispatchOops \/ DispatcherSchedule
  BY <1>4, <1>1 DEF DispatcherStart, DispatcherCheck, DispatchOops,
                    DispatcherSchedule, WillScan
<1>5. CASE Dispatch
  BY <1>5, DispatchLeavesNone DEF NoLostWakeup
<1>6. ASSUME NEW s \in Slot, TimerExpires(s) PROVE NoLostWakeup'
  <2>1. WillScan => WillScan'
    BY <1>6 DEF TimerExpires, WillScan, TypeOK
  <2> QED
    BY <1>6, <2>1, <1>1 DEF TimerExpires
<1>7. ASSUME NEW s \in Slot, mp2_timer_callback(s) PROVE NoLostWakeup'
  BY <1>7 DEF mp2_timer_callback, NoLostWakeup, WillScan, TypeOK
<1>8. ASSUME NEW s \in Slot, WakeDispatcher(s) PROVE NoLostWakeup'
  <2>1. WillScan' \/ should_stop'
    BY <1>8 DEF WakeDispatcher, WillScan, ThreadPhase
  <2> QED
    BY <1>8, <2>1, <1>1 DEF WakeDispatcher
<1>9. ASSUME NEW c \in Proc, \/ mp2_write(c) \/ EnterRead(c) \/ Reschedule(c)
                             \/ Admission(c) \/ AdmissionOops(c) \/ mp2_read(c)
      PROVE  NoLostWakeup'
  <2>1. UNCHANGED <<heap, current, dispatcher, callback>>
    BY <1>9 DEF mp2_write, EnterRead, Enter, Reschedule, Admission, AdmissionOops,
                mp2_read
  <2> QED
    BY <2>1, <1>1 DEF WillScan
<1>10. ASSUME NEW c \in Proc, mp2_registration(c) PROVE NoLostWakeup'
  <2>1. UNCHANGED <<current, dispatcher>>
    BY <1>10 DEF mp2_registration
  <2>2. UNCHANGED callback
    BY <1>10 DEF mp2_registration
  <2>3. CASE UNCHANGED heap
    BY <2>1, <2>2, <2>3, <1>1 DEF WillScan
  <2>4. CASE ~UNCHANGED heap
    <3>1. PICK s \in Slot \ live :
             InitTask(s, c) /\ (list' = list \/ list' = Append(list, s))
      BY <1>10, <2>4 DEF mp2_registration
    <3>2. /\ obj'[s].state = "SLEEPING"
          /\ \A t \in Slot \ {s} : obj'[t] = obj[t]
      BY <3>1 DEF InitTask, TypeOK
    <3>3. Registered' \subseteq Registered \cup {s}
      BY <3>1, ListAddTail DEF TypeOK, Registered, ToSet
    <3>4. CASE curr_gone
      BY <2>1, <3>4 DEF NoLostWakeup
    <3>5. CASE ~curr_gone
      <4>1. mp2_curr_task = NULL \/ mp2_curr_task \in Slot \ {s}
        BY <3>1, <3>5 DEF CurrListed, ListIntegrity, TypeOK
      <4>2. min_period' = min_period
        BY <2>1, <3>2, <4>1 DEF min_period
      <4>3. \A t \in Registered : t \in Slot
        BY DEF Registered, ToSet, TypeOK
      <4>4. \A t \in Registered' : Urgent(t)' => t \in Registered /\ Urgent(t)
        BY <3>2, <3>3, <4>2, <4>3 DEF Urgent
      <4> QED
        BY <2>1, <2>2, <4>4, WakeupKept DEF WillScan
    <3> QED
      BY <3>4, <3>5
  <2> QED
    BY <2>3, <2>4
<1>11. ASSUME NEW c \in Proc, mp2_yield(c) PROVE NoLostWakeup'
  <2>1. UNCHANGED <<list, live, current, dispatcher, callback>>
    BY <1>11 DEF mp2_yield
  <2>2. \/ obj' = obj
        \/ \E i \in IndexOf(call[c].pid) :
              obj' = [obj EXCEPT ![list[i]] = [@ EXCEPT !.state = "SLEEPING"]]
    BY <1>11 DEF mp2_yield
  <2>3. \A t \in Slot : LET o == [obj[t] EXCEPT !.state = "SLEEPING"] IN
           o.state = "SLEEPING" /\ o.period = obj[t].period
    BY DEF TypeOK, Mp2TaskStruct
  <2>4. \A t \in Slot : /\ obj'[t].period = obj[t].period
                       /\ obj'[t].state \in {obj[t].state, "SLEEPING"}
    <3>1. ASSUME NEW i \in IndexOf(call[c].pid),
                 obj' = [obj EXCEPT ![list[i]] = [@ EXCEPT !.state = "SLEEPING"]]
          PROVE  \A t \in Slot : /\ obj'[t].period = obj[t].period
                                /\ obj'[t].state \in {obj[t].state, "SLEEPING"}
      BY <2>3, <3>1 DEF TypeOK
    <3> QED
      BY <2>2, <3>1
  <2>5. min_period' = min_period
    BY <2>1, <2>4 DEF min_period, TypeOK
  <2>6. \A t \in Registered' : Urgent(t)' => t \in Registered /\ Urgent(t)
    BY <2>1, <2>4, <2>5 DEF Urgent, Registered, ToSet, TypeOK
  <2> QED
    BY <2>1, <2>6, WakeupKept DEF WillScan
<1>12. ASSUME NEW c \in Proc, mp2_deregistration(c) PROVE NoLostWakeup'
  <2>1. /\ UNCHANGED <<obj, mp2_curr_task, dispatcher, callback>>
        /\ curr_gone => curr_gone'
    <3>1. UNCHANGED <<obj, mp2_curr_task, dispatcher, callback>>
      BY <1>12 DEF mp2_deregistration
    <3>2. \/ curr_gone' = curr_gone
          \/ \E i \in IndexOf(call[c].pid) :
                curr_gone' = (curr_gone \/ list[i] = mp2_curr_task)
      BY <1>12 DEF mp2_deregistration
    <3>3. curr_gone => curr_gone'
      BY <3>2, Zenon
    <3> QED
      BY <3>1, <3>3
  <2>2. Registered' \subseteq Registered
    <3>1. CASE UNCHANGED list
      BY <3>1 DEF Registered, ToSet
    <3>2. ASSUME NEW i \in IndexOf(call[c].pid), list_del(i)
          PROVE  Registered' \subseteq Registered
      BY <3>2, ListDel DEF IndexOf, Registered, ToSet, TypeOK
    <3> QED
      BY <1>12, <3>1, <3>2 DEF mp2_deregistration
  <2>3. \A t \in Registered' : Urgent(t)' => t \in Registered /\ Urgent(t)
    BY <2>1, <2>2 DEF Urgent, min_period
  <2> QED
    BY <2>1, <2>3, WakeupKept DEF WillScan
<1>13. CASE UNCHANGED vars
  BY <1>13, <1>1 DEF vars, WillScan
<1> QED
  BY <1>2, <1>3, <1>4, <1>5, <1>6, <1>7, <1>8, <1>9, <1>10, <1>11, <1>12, <1>13
  DEF Next, DispatcherStep, TimerStep, CallStep, ExitStep

LEMMA InitIInv == Init => IInv
  BY InitType DEF Init, IInv, ListIntegrity, CurrListed, ThreadPhase, OneRunningTask,
                  NoLostWakeup, Registered, ToSet

LEMMA StepIInv == IInv /\ [Next]_vars => IInv'
  BY TypeStep, IntegrityStep, CurrListedStep, ThreadPhaseStep, RunningStep, WakeupStep
  DEF IInv

\* No wake-up of the dispatching thread is lost.
THEOREM WakeupNotLost == Spec => []NoLostWakeup
<1>1. IInv => NoLostWakeup
  BY DEF IInv
<1> QED
  BY <1>1, InitIInv, StepIInv, PTL DEF Spec

-----------------------------------------------------------------------------
(* The release chain.                                                      *)

KeepsCover(s) == TimerCovers(s) => TimerCovers(s)' \/ s \notin Registered'

\* A step that only adds timers to the wheel covers what was covered.
LEMMA CoverKept ==
    ASSUME NEW s \in Slot, pending \subseteq pending', callback' = callback
    PROVE  KeepsCover(s)
  BY DEF KeepsCover, TimerCovers

LEMMA CoverStep ==
    TypeOK /\ ListIntegrity /\ [Next]_vars => \A s \in Registered : KeepsCover(s)
<1> SUFFICES ASSUME TypeOK, ListIntegrity, [Next]_vars, NEW s \in Registered
             PROVE  KeepsCover(s)
  OBVIOUS
<1>1. s \in Slot /\ s \in live
  BY DEF ListIntegrity, Registered, ToSet, TypeOK
<1>2. CASE UNCHANGED <<pending, callback>>
  BY <1>1, <1>2, CoverKept
<1>3. ASSUME NEW t \in Slot, TimerExpires(t) PROVE KeepsCover(s)
  BY <1>1, <1>3 DEF TimerExpires, KeepsCover, TimerCovers, TypeOK
<1>4. ASSUME NEW t \in Slot, mp2_timer_callback(t) PROVE KeepsCover(s)
  <2>1. CASE s = t
    <3>1. IndexOf(obj[s].pid) # {}
      BY DEF IndexOf, Registered, ToSet
    <3>2. pending' = pending \cup {t}
      BY <1>4, <2>1, <3>1 DEF mp2_timer_callback, mod_timer
    <3> QED
      BY <2>1, <3>2 DEF KeepsCover, TimerCovers
  <2>2. CASE s # t
    <3>1. pending \subseteq pending'
      BY <1>4 DEF mp2_timer_callback, mod_timer
    <3>2. callback'[s] = callback[s]
      BY <1>1, <1>4, <2>2 DEF mp2_timer_callback, TypeOK
    <3> QED
      BY <3>1, <3>2 DEF KeepsCover, TimerCovers
  <2> QED
    BY <2>1, <2>2
<1>5. ASSUME NEW t \in Slot, WakeDispatcher(t) PROVE KeepsCover(s)
  BY <1>1, <1>5 DEF WakeDispatcher, KeepsCover, TimerCovers, TypeOK
<1>6. ASSUME NEW c \in Proc, mp2_registration(c) PROVE KeepsCover(s)
  <2>1. callback' = callback
    BY <1>6 DEF mp2_registration, timers, heap, processes
  <2>2. \/ pending' = pending
        \/ \E t \in Slot \ live : pending' = pending \ {t}
    BY <1>6 DEF mp2_registration, timers, timer_setup, del_timer
  <2> QED
    BY <1>1, <2>1, <2>2 DEF KeepsCover, TimerCovers
<1>7. ASSUME NEW c \in Proc, mp2_yield(c) PROVE KeepsCover(s)
  <2>1. pending \subseteq pending' /\ callback' = callback
    BY <1>7 DEF mp2_yield, mod_timer
  <2> QED
    BY <1>1, <2>1, CoverKept
<1>8. ASSUME NEW c \in Proc, mp2_deregistration(c) PROVE KeepsCover(s)
  <2>1. callback' = callback
    BY <1>8 DEF mp2_deregistration
  <2>2. CASE pending' = pending
    BY <1>1, <2>1, <2>2, CoverKept
  <2>3. ASSUME NEW k \in IndexOf(call[c].pid), del_timer({list[k]}), list_del(k)
        PROVE  KeepsCover(s)
    <3>1. CASE s # list[k]
      BY <2>1, <2>3, <3>1 DEF KeepsCover, TimerCovers, del_timer
    <3>2. CASE s = list[k]
      <4>1. k \in DOMAIN list
        BY DEF IndexOf
      <4>2. /\ list' \in Seq(Slot)
            /\ \A j \in DOMAIN list' :
                  /\ list'[j] = list[IF j < k THEN j ELSE j + 1]
                  /\ (IF j < k THEN j ELSE j + 1) \in DOMAIN list \ {k}
        BY <2>3, <4>1, ListDel DEF TypeOK
      <4>3. \A i \in DOMAIN list \ {k} : list[i] # list[k]
        BY <4>1 DEF ListIntegrity
      <4>4. s \notin Registered'
        BY <3>2, <4>2, <4>3 DEF Registered, ToSet
      <4> QED
        BY <4>4 DEF KeepsCover
    <3> QED
      BY <3>1, <3>2
  <2> QED
    BY <1>8, <2>2, <2>3 DEF mp2_deregistration
<1>9. CASE ExitFree
  BY <1>9 DEF ExitFree, KeepsCover, Registered, ToSet
<1>10. ASSUME Next PROVE \/ UNCHANGED <<pending, callback>>
                         \/ \E t \in Slot : TimerStep(t)
                         \/ \E c \in Proc : \/ mp2_registration(c) \/ mp2_yield(c)
                                            \/ mp2_deregistration(c)
                         \/ ExitFree
  <2>1. CASE Tick \/ mp2_init \/ ExitStop \/ ExitUnlock
    BY <2>1 DEF Tick, mp2_init, ExitStop, ExitUnlock, timers
  <2>2. CASE DispatcherStep
    BY <2>2 DEF DispatcherStep, DispatcherStart, DispatcherCheck, Dispatch,
                DispatchOops, DispatcherSchedule, timers
  <2>3. ASSUME NEW c \in Proc, mp2_write(c) \/ EnterRead(c) \/ Reschedule(c)
        PROVE  UNCHANGED <<pending, callback>>
    BY <2>3 DEF mp2_write, EnterRead, Enter, Reschedule, timers
  <2>4. ASSUME NEW c \in Proc, Admission(c) \/ AdmissionOops(c) \/ mp2_read(c)
        PROVE  UNCHANGED <<pending, callback>>
    BY <2>4 DEF Admission, AdmissionOops, mp2_read, timers
  <2> QED
    BY <1>10, <2>1, <2>2, <2>3, <2>4 DEF Next, CallStep, ExitStep
<1>11. CASE UNCHANGED vars
  BY <1>2, <1>11 DEF vars, timers
<1> QED
  BY <1>2, <1>3, <1>4, <1>5, <1>6, <1>7, <1>8, <1>9, <1>10, <1>11 DEF TimerStep

\* A registered task that was covered once never loses its release.
THEOREM ReleasesContinue == Spec => ReleaseChain
<1>1. TypeOK /\ ListIntegrity /\ [Next]_vars
         => [\A s \in Registered : TimerCovers(s) =>
                TimerCovers(s)' \/ s \notin Registered']_vars
  BY CoverStep DEF KeepsCover
<1> QED
  BY <1>1, TypeCorrect, ListSound, PTL DEF Spec, ReleaseChain
=============================================================================
