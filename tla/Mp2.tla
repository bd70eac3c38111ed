-------------------------------- MODULE Mp2 ---------------------------------
(***************************************************************************)
(* The rate-monotonic scheduler module (rate-monotonic-scheduler/mp2.c):   *)
(* the process list, the dispatching thread, the wakeup timers, the write  *)
(* and read callbacks of /proc/mp2/status, and module unloading.           *)
(*                                                                         *)
(* A critical section of mp2_proc_list_lock is one step; what happens      *)
(* before the lock is taken or after it is released is a step of its own.  *)
(* Any process may enter any callback at any time: UserApp composes this   *)
(* module with the order in which userapp.c makes its calls.               *)
(***************************************************************************)
EXTENDS AdmissionControl, FiniteSets

CONSTANTS
    Pid,          \* the numbers a message may name
    Proc,         \* the pids of live processes (they also send the messages)
    Names,        \* Names[c]: the pids process c writes into its messages
    Slot,         \* addresses of objects of mp2_task_struct_cachep
    Periods,      \* the periods (ms) a message may carry
    ProcTimes,    \* the processing times (ms) a message may carry
    MsPerJiffy,   \* 1000 / HZ
    MaxJiffies,   \* bound: the clock stops here
    MaxCalls,     \* bound: the reads and writes process c makes
    NULL

ASSUME Mp2Assumption ==
    /\ Proc \subseteq Pid
    /\ Names \in [Proc -> SUBSET Pid]
    /\ Periods \subseteq 0..ULONG_MAX
    /\ ProcTimes \subseteq 0..ULONG_MAX
    /\ MsPerJiffy \in Nat \ {0}
    /\ MaxJiffies \in Nat
    /\ MaxCalls \in [Proc -> Nat]
    /\ NULL \notin Slot /\ NULL \notin Pid

VARIABLES
    jiffies,
    list,            \* mp2_process_list, head first
    live,            \* objects allocated from the cache and not freed
    obj,             \* contents of every object; a freed one keeps them
    pending,         \* objects whose wakeup_timer is queued
    expires,         \* when it is due
    callback,        \* the progress of an object's running timer callback
    mp2_curr_task,
    curr_gone,       \* history: that task was deregistered since it was set
    dpc, dstate,     \* dispatch_thread: where it is, its task state
    should_stop,     \* kthread_should_stop()
    tstate, onrq,    \* a process: its task state, is it on a run queue
    policy,          \* a process: its scheduling policy
    call,            \* a process: the callback it is executing
    made,            \* a process: the callbacks it has entered (for MaxCalls)
    mod,             \* the module: absent, loaded, on its way out, gone
    lock             \* mp2_proc_list_lock between steps

heap       == <<list, live, obj>>
timers     == <<pending, expires, callback>>
current    == <<mp2_curr_task, curr_gone>>
dispatcher == <<dpc, dstate, should_stop>>
processes  == <<tstate, onrq, policy>>
module     == <<mod, lock>>

vars == <<jiffies, heap, timers, current, dispatcher, processes, call, made,
          module>>

TaskState   == {"READY", "RUNNING", "SLEEPING"}
LinuxState  == {"TASK_RUNNING", "TASK_INTERRUPTIBLE", "TASK_UNINTERRUPTIBLE"}
Operation   == {"admission", "registration", "yield", "deregistration", "read"}
Idle(c)     == [op |-> "none", pid |-> c, period |-> 0, processing_time |-> 0]

Mp2TaskStruct == [pid : Pid \cup {NULL}, period : Nat, processing_time : Nat,
                  deadline_jiff : Nat, state : TaskState]

TypeOK ==
    /\ jiffies \in Nat
    /\ list \in Seq(Slot)
    /\ live \in SUBSET Slot
    /\ obj \in [Slot -> Mp2TaskStruct]
    /\ pending \in SUBSET Slot
    /\ expires \in [Slot -> Nat]
    /\ callback \in [Slot -> {"none", "lock", "wake"}]
    /\ mp2_curr_task \in Slot \cup {NULL}
    /\ curr_gone \in BOOLEAN
    /\ dpc \in {"none", "created", "check", "cs", "schedule", "exited"}
    /\ dstate \in LinuxState
    /\ should_stop \in BOOLEAN
    /\ tstate \in [Proc -> LinuxState]
    /\ onrq \in [Proc -> BOOLEAN]
    /\ policy \in [Proc -> {"SCHED_NORMAL", "SCHED_FIFO"}]
    /\ call \in [Proc -> [op : Operation \cup {"none"}, pid : Pid,
                          period : Nat, processing_time : Nat]]
    /\ made \in [Proc -> Nat]
    /\ mod \in {"absent", "loaded", "stopping", "freed", "unloaded", "failed"}
    /\ lock \in {"free", "exit", "oops"}

Init ==
    /\ jiffies = 0
    /\ list = <<>> /\ live = {}
    /\ obj = [s \in Slot |->
                [pid |-> NULL, period |-> 0, processing_time |-> 0,
                 deadline_jiff |-> 0, state |-> "READY"]]
    /\ pending = {} /\ expires = [s \in Slot |-> 0]
    /\ callback = [s \in Slot |-> "none"]
    /\ mp2_curr_task = NULL /\ curr_gone = FALSE
    /\ dpc = "none" /\ dstate = "TASK_UNINTERRUPTIBLE" /\ should_stop = FALSE
    /\ tstate = [p \in Proc |-> "TASK_RUNNING"]
    /\ onrq = [p \in Proc |-> TRUE]
    /\ policy = [p \in Proc |-> "SCHED_NORMAL"]
    /\ call = [p \in Proc |-> Idle(p)]
    /\ made = [p \in Proc |-> 0]
    /\ mod = "absent" /\ lock = "free"

-----------------------------------------------------------------------------
(* The kernel services the module uses.                                    *)

msecs_to_jiffies(ms) == (ms + MsPerJiffy - 1) \div MsPerJiffy

Tick ==
    /\ jiffies < MaxJiffies
    /\ jiffies' = jiffies + 1
    /\ UNCHANGED <<heap, timers, current, dispatcher, processes, call, made,
                   module>>

\* mod_timer(&s->wakeup_timer, t): queue the timer, or move it.
mod_timer(s, t) ==
    /\ pending' = pending \cup {s}
    /\ expires' = [expires EXCEPT ![s] = t]

\* del_timer on every object of ss. It does not wait for a running callback.
del_timer(ss) ==
    /\ pending' = pending \ ss
    /\ expires' = [s \in Slot |-> IF s \in ss THEN 0 ELSE expires[s]]

\* set_current_state(st) in a callback executed by process c.
set_current_state(c, st) == tstate' = [tstate EXCEPT ![c] = st]

\* schedule() on the way back to user mode: a process that is not
\* TASK_RUNNING leaves the run queue.
Reschedule(c) ==
    /\ onrq[c] /\ call[c].op = "none" /\ tstate[c] # "TASK_RUNNING"
    /\ onrq' = [onrq EXCEPT ![c] = FALSE]
    /\ UNCHANGED <<jiffies, made, heap, timers, current, dispatcher, tstate,
                   policy,
                   call, module>>

\* sched_setattr_nocheck(task, &attr): mp2_dispatcher sets two fields of attr
\* and leaves sched_flags and the rest uninitialized, so the call either
\* takes effect or fails with an error the caller ignores.
sched_setattr(pol, p, new) == {pol, [pol EXCEPT ![p] = new]}

-----------------------------------------------------------------------------
(* The process list.                                                       *)

Registered == ToSet(list)

\* The indices whose object has this pid (at most one: see ListIntegrity).
IndexOf(pid) == {i \in DOMAIN list : obj[list[i]].pid = pid}

\* list_del of the entry at index k.
list_del(k) ==
    list' = [i \in 1 .. Len(list) - 1 |->
               IF i < k THEN list[i] ELSE list[i + 1]]

ListParams == [i \in DOMAIN list |-> obj[list[i]]]

-----------------------------------------------------------------------------
(* mp2_dispatcher, the body of dispatch_thread.                            *)

\* The period to beat: that of the current task whatever its state is.
min_period == IF mp2_curr_task = NULL THEN ULONG_MAX
              ELSE obj[mp2_curr_task].period

Urgent(s) == obj[s].state = "READY" /\ obj[s].period < min_period

\* Mutant: the scan forgets to lower min_period.
HighestPriorityLast(i) == Urgent(list[i])

\* The scan takes the shortest period, and the first of equals.
HighestPriority(i) ==
    /\ Urgent(list[i])
    /\ \A j \in DOMAIN list : Urgent(list[j]) =>
          \/ obj[list[i]].period < obj[list[j]].period
          \/ obj[list[i]].period = obj[list[j]].period /\ i <= j

\* The task pointer of the current task: valid, NULL (an object of a failed
\* registration at the address of a freed one), or overwritten by the
\* allocator's free list.
CurrTaskPointer ==
    IF mp2_curr_task \notin live THEN "garbage"
    ELSE IF obj[mp2_curr_task].pid \notin Proc THEN "null" ELSE "valid"

\* Mutant: the line that demotes the current task to READY is missing.
SwitchToOnly(s) ==
    /\ mp2_curr_task = NULL \/ CurrTaskPointer # "null"
    /\ obj' = [obj EXCEPT ![s].state = "RUNNING"]
    /\ UNCHANGED policy
    /\ mp2_curr_task' = s /\ curr_gone' = FALSE
    /\ tstate' = [tstate EXCEPT ![obj[s].pid] = "TASK_RUNNING"]
    /\ onrq' = [onrq EXCEPT ![obj[s].pid] = TRUE]

\* Demote the current task, promote and wake the object s.
SwitchTo(s) ==
    LET p == obj[s].pid
        old == obj[mp2_curr_task].pid
        demoted == IF mp2_curr_task # NULL /\ CurrTaskPointer = "valid"
                   THEN sched_setattr(policy, old, "SCHED_NORMAL")
                   ELSE {policy}
    IN  /\ mp2_curr_task = NULL \/ CurrTaskPointer # "null"
        /\ obj' = [t \in Slot |->
                     IF t = s THEN [obj[t] EXCEPT !.state = "RUNNING"]
                     ELSE IF t = mp2_curr_task
                          THEN [obj[t] EXCEPT !.state = "READY"] ELSE obj[t]]
        /\ \E pol \in demoted : policy' \in sched_setattr(pol, p, "SCHED_FIFO")
        /\ mp2_curr_task' = s /\ curr_gone' = FALSE
        /\ tstate' = [tstate EXCEPT ![p] = "TASK_RUNNING"]
        /\ onrq' = [onrq EXCEPT ![p] = TRUE]

\* kthread(): the created thread enters mp2_dispatcher at its first wake-up,
\* or leaves at once when it was stopped first.
DispatcherStart ==
    /\ dpc = "created" /\ dstate = "TASK_RUNNING"
    /\ dpc' = IF should_stop THEN "exited" ELSE "check"
    /\ UNCHANGED <<jiffies, made, heap, timers, current, dstate, should_stop,
                   processes, call, module>>

\* while (!kthread_should_stop())
DispatcherCheck ==
    /\ dpc = "check"
    /\ dpc' = IF should_stop THEN "exited" ELSE "cs"
    /\ UNCHANGED <<jiffies, made, heap, timers, current, dstate, should_stop,
                   processes, call, module>>

\* The critical section. It ends with set_current_state(TASK_INTERRUPTIBLE),
\* before the lock is released.
Dispatch ==
    /\ dpc = "cs" /\ lock = "free"
    /\ \/ /\ \A i \in DOMAIN list : ~Urgent(list[i])
          /\ UNCHANGED <<obj, current, processes>>
       \/ \E i \in DOMAIN list : HighestPriority(i) /\ SwitchTo(list[i])
    /\ dpc' = "schedule" /\ dstate' = "TASK_INTERRUPTIBLE"
    /\ UNCHANGED <<jiffies, made, list, live, timers, should_stop, call,
                   module>>

\* Demoting a task through an invalid pointer may also kill the thread,
\* which then never releases the lock.
DispatchOops ==
    /\ dpc = "cs" /\ lock = "free"
    /\ \E i \in DOMAIN list : Urgent(list[i])
    /\ mp2_curr_task # NULL /\ CurrTaskPointer # "valid"
    /\ lock' = "oops"
    /\ UNCHANGED <<jiffies, made, heap, timers, current, dispatcher,
                   processes, call, mod>>

\* schedule() returns once the thread is TASK_RUNNING; a wake-up that came
\* since the critical section keeps it from blocking at all.
DispatcherSchedule ==
    /\ dpc = "schedule" /\ dstate = "TASK_RUNNING"
    /\ dpc' = "check"
    /\ UNCHANGED <<jiffies, made, heap, timers, current, dstate, should_stop,
                   processes, call, module>>

-----------------------------------------------------------------------------
(* The wakeup timers.                                                      *)

\* The timer softirq takes a due timer off the wheel and enters its callback,
\* which waits for the lock.
TimerExpires(s) ==
    /\ s \in pending /\ expires[s] <= jiffies /\ callback[s] = "none"
    /\ pending' = pending \ {s}
    /\ expires' = [expires EXCEPT ![s] = 0]
    /\ callback' = [callback EXCEPT ![s] = "lock"]
    /\ UNCHANGED <<jiffies, made, heap, current, dispatcher, processes, call,
                   module>>

\* Mutant: the callback does not arm the timer for the next period.
mp2_timer_callback_once(s) ==
    /\ callback[s] = "lock" /\ lock = "free"
    /\ callback' = [callback EXCEPT ![s] = "wake"]
    /\ obj' = IF IndexOf(obj[s].pid) # {}
              THEN [obj EXCEPT ![s].state = "READY"] ELSE obj
    /\ UNCHANGED <<jiffies, made, list, live, pending, expires, current,
                   dispatcher, processes, call, module>>

\* The critical section of mp2_timer_callback. Nothing tells the callback
\* that its object was freed while it waited for the lock.
mp2_timer_callback(s) ==
    LET deadline == obj[s].deadline_jiff + msecs_to_jiffies(obj[s].period)
    IN  /\ callback[s] = "lock" /\ lock = "free"
        /\ callback' = [callback EXCEPT ![s] = "wake"]
        /\ IF IndexOf(obj[s].pid) # {}
           THEN /\ obj' = [obj EXCEPT ![s].state = "READY",
                                      ![s].deadline_jiff = deadline]
                /\ mod_timer(s, deadline)
           ELSE UNCHANGED <<obj, pending, expires>>
        /\ UNCHANGED <<jiffies, made, list, live, current, dispatcher,
                       processes,
                       call, module>>

\* Mutant: a thread that was created and never started is not woken.
WakeDispatcherAsleep(s) ==
    /\ callback[s] = "wake"
    /\ callback' = [callback EXCEPT ![s] = "none"]
    /\ dstate' = IF dpc = "schedule" THEN "TASK_RUNNING" ELSE dstate
    /\ UNCHANGED <<jiffies, made, heap, pending, expires, current, dpc,
                   should_stop, processes, call, module>>

\* wake_up_process(dispatch_thread), after the lock is released.
WakeDispatcher(s) ==
    /\ callback[s] = "wake"
    /\ callback' = [callback EXCEPT ![s] = "none"]
    /\ dstate' = IF dpc = "exited" THEN dstate ELSE "TASK_RUNNING"
    /\ UNCHANGED <<jiffies, made, heap, pending, expires, current, dpc,
                   should_stop,
                   processes, call, module>>

-----------------------------------------------------------------------------
(* The callbacks of /proc/mp2/status. A process executes one at a time.    *)

Return(c) == call' = [call EXCEPT ![c] = Idle(c)]

Enter(c, op, pid, period, processing_time) ==
    /\ mod \in {"loaded", "stopping"}      \* the proc file exists
    /\ onrq[c] /\ call[c].op = "none" /\ made[c] < MaxCalls[c]
    /\ call' = [call EXCEPT ![c] = [op |-> op, pid |-> pid, period |-> period,
                                    processing_time |-> processing_time]]
    /\ made' = [made EXCEPT ![c] = @ + 1]
    /\ UNCHANGED <<jiffies, heap, timers, current, dispatcher, processes,
                   module>>

\* mp2_write: the message 'R', 'Y' or 'D' selects the handler. A message that
\* does not parse changes nothing.
mp2_write(c) ==
    \E pid \in Names[c] :
        \/ \E period \in Periods, processing_time \in ProcTimes :
              Enter(c, "admission", pid, period, processing_time)
        \/ Enter(c, "yield", pid, 0, 0)
        \/ Enter(c, "deregistration", pid, 0, 0)

\* mp2_read walks the list under the lock and changes none of this state.
EnterRead(c) == Enter(c, "read", c, 0, 0)

mp2_read(c) ==
    /\ call[c].op = "read" /\ lock = "free"
    /\ Return(c)
    /\ UNCHANGED <<jiffies, made, heap, timers, current, dispatcher,
                   processes, module>>

\* mp2_registration, first critical section: admission control. The verdict
\* is used after the lock is released.
Admission(c) ==
    /\ call[c].op = "admission" /\ lock = "free"
    /\ ~DivisionTraps(ListParams, call[c].period)
    /\ IF mp2_admission_control(ListParams, call[c].period,
                                call[c].processing_time) = 0
       THEN call' = [call EXCEPT ![c].op = "registration"]
       ELSE Return(c)
    /\ UNCHANGED <<jiffies, made, heap, timers, current, dispatcher,
                   processes, module>>

\* A division by zero kills the process while it holds the lock.
AdmissionOops(c) ==
    /\ call[c].op = "admission" /\ lock = "free"
    /\ DivisionTraps(ListParams, call[c].period)
    /\ lock' = "oops"
    /\ UNCHANGED <<jiffies, made, heap, timers, current, dispatcher,
                   processes, call, mod>>

\* Mutant: the first deadline is one period before now.
InitTaskPast(s, c) ==
    /\ live' = live \cup {s}
    /\ obj' = [obj EXCEPT ![s] =
                 [pid |-> call[c].pid, period |-> call[c].period,
                  processing_time |-> call[c].processing_time,
                  deadline_jiff |-> jiffies - msecs_to_jiffies(call[c].period),
                  state |-> "SLEEPING"]]

\* The new object: kmem_cache_alloc at a free address and the assignments.
InitTask(s, c) ==
    /\ live' = live \cup {s}
    /\ obj' = [obj EXCEPT ![s] =
                 [pid |-> call[c].pid, period |-> call[c].period,
                  processing_time |-> call[c].processing_time,
                  deadline_jiff |-> jiffies + msecs_to_jiffies(call[c].period),
                  state |-> "SLEEPING"]]

\* timer_setup on s: the timer is not queued. One that a callback on freed
\* memory left in the wheel stays linked there, or is lost.
timer_setup(s) ==
    \/ UNCHANGED <<pending, expires>>
    \/ s \in pending /\ del_timer({s})

\* Mutant: the pid is not looked up again once the task was admitted.
mp2_registration_unchecked(c) ==
    /\ call[c].op = "registration" /\ lock = "free"
    /\ \E s \in Slot \ live :
          /\ InitTask(s, c) /\ timer_setup(s)
          /\ set_current_state(c, "TASK_UNINTERRUPTIBLE")
          /\ list' = Append(list, s)
    /\ Return(c)
    /\ UNCHANGED <<jiffies, made, callback, onrq, policy, current, dispatcher,
                   module>>

\* mp2_registration, second critical section.
mp2_registration(c) ==
    /\ call[c].op = "registration" /\ lock = "free"
    /\ \/ \* the pid is already on the list, or the allocation failed
          UNCHANGED <<heap, timers, processes>>
       \/ \E s \in Slot \ live :
             /\ IndexOf(call[c].pid) = {}
             /\ InitTask(s, c)
             /\ IF call[c].pid \in Proc
                THEN /\ set_current_state(c, "TASK_UNINTERRUPTIBLE")
                     /\ timer_setup(s)
                     /\ list' = Append(list, s)
                     /\ UNCHANGED <<callback, onrq, policy>>
                ELSE UNCHANGED <<list, timers, processes>>
    /\ Return(c)
    /\ UNCHANGED <<jiffies, made, current, dispatcher, module>>

\* Mutant: a task whose next period has begun is put to sleep as well.
mp2_yield_asleep(c) ==
    /\ call[c].op = "yield" /\ lock = "free"
    /\ \E i \in IndexOf(call[c].pid) : LET s == list[i] IN
          /\ set_current_state(c, "TASK_UNINTERRUPTIBLE")
          /\ mod_timer(s, IF obj[s].deadline_jiff > jiffies
                          THEN obj[s].deadline_jiff ELSE jiffies)
          /\ UNCHANGED obj
    /\ Return(c)
    /\ UNCHANGED <<jiffies, made, list, live, callback, current, dispatcher,
                   onrq, policy, module>>

mp2_yield(c) ==
    /\ call[c].op = "yield" /\ lock = "free"
    /\ \/ /\ IndexOf(call[c].pid) = {}
          /\ UNCHANGED <<obj, pending, expires, tstate>>
       \/ \E i \in IndexOf(call[c].pid) : LET s == list[i] IN
             IF obj[s].deadline_jiff > jiffies
             THEN /\ obj' = [obj EXCEPT ![s].state = "SLEEPING"]
                  /\ set_current_state(c, "TASK_UNINTERRUPTIBLE")
                  /\ mod_timer(s, obj[s].deadline_jiff)
             ELSE /\ mod_timer(s, jiffies)
                  /\ UNCHANGED <<obj, tstate>>
    /\ Return(c)
    /\ UNCHANGED <<jiffies, made, list, live, callback, current, dispatcher,
                   onrq,
                   policy, module>>

\* mp2_curr_task keeps the address of the object that is freed here.
mp2_deregistration(c) ==
    /\ call[c].op = "deregistration" /\ lock = "free"
    /\ \/ /\ IndexOf(call[c].pid) = {}
          /\ UNCHANGED <<list, live, pending, expires, curr_gone>>
       \/ \E i \in IndexOf(call[c].pid) :
             /\ del_timer({list[i]})
             /\ list_del(i)
             /\ live' = live \ {list[i]}
             /\ curr_gone' = (curr_gone \/ list[i] = mp2_curr_task)
    /\ Return(c)
    /\ UNCHANGED <<jiffies, made, obj, callback, mp2_curr_task, dispatcher,
                   processes,
                   module>>

-----------------------------------------------------------------------------
(* Loading and unloading.                                                  *)

\* The thread is created and not started. An error return leaves the module
\* out.
mp2_init ==
    /\ mod = "absent"
    /\ \/ mod' = "loaded" /\ dpc' = "created"
       \/ mod' = "failed" /\ UNCHANGED dpc
    /\ UNCHANGED <<jiffies, made, heap, timers, current, dstate, should_stop,
                   processes,
                   call, lock>>

\* Mutant: the thread is told to stop and not woken.
ExitStopAsleep ==
    /\ mod = "loaded" /\ lock = "free"
    /\ mod' = "stopping" /\ lock' = "exit"
    /\ should_stop' = TRUE
    /\ UNCHANGED <<jiffies, made, heap, timers, current, dpc, dstate,
                   processes, call>>

\* mp2_exit takes the lock and waits in kthread_stop for the thread to leave.
ExitStop ==
    /\ mod = "loaded" /\ lock = "free"
    /\ mod' = "stopping" /\ lock' = "exit"
    /\ should_stop' = TRUE
    /\ dstate' = "TASK_RUNNING"
    /\ UNCHANGED <<jiffies, made, heap, timers, current, dpc, processes, call>>

\* Then it frees every task on the list ...
ExitFree ==
    /\ mod = "stopping" /\ dpc = "exited"
    /\ mod' = "freed"
    /\ del_timer(Registered)
    /\ live' = live \ Registered
    /\ list' = <<>>
    /\ curr_gone' = (curr_gone \/ mp2_curr_task \in Registered)
    /\ UNCHANGED <<jiffies, made, obj, callback, mp2_curr_task, dispatcher,
                   processes,
                   call, lock>>

\* ... and remove_proc_subtree waits for the callbacks in progress before the
\* lock is released.
ExitUnlock ==
    /\ mod = "freed" /\ \A c \in Proc : call[c].op = "none"
    /\ mod' = "unloaded" /\ lock' = "free"
    /\ UNCHANGED <<jiffies, made, heap, timers, current, dispatcher,
                   processes, call>>

-----------------------------------------------------------------------------
DispatcherStep == DispatcherStart \/ DispatcherCheck \/ Dispatch
                  \/ DispatchOops \/ DispatcherSchedule

TimerStep(s) == TimerExpires(s) \/ mp2_timer_callback(s) \/ WakeDispatcher(s)

\* The rest of a callback that a process has entered.
CallStep(c) == Admission(c) \/ AdmissionOops(c) \/ mp2_registration(c)
               \/ mp2_yield(c) \/ mp2_deregistration(c) \/ mp2_read(c)

ExitStep == ExitFree \/ ExitUnlock

Next ==
    \/ Tick \/ mp2_init \/ ExitStop \/ ExitStep
    \/ DispatcherStep
    \/ \E s \in Slot : TimerStep(s)
    \/ \E c \in Proc : mp2_write(c) \/ EnterRead(c) \/ CallStep(c)
                      \/ Reschedule(c)

Spec == Init /\ [][Next]_vars

-----------------------------------------------------------------------------
(* Safety.                                                                 *)

\* The list never holds an object twice, a freed object, two objects of one
\* pid, or an object whose task pointer is NULL: mp2_registration looks for
\* the pid again after admission control gave up the lock.
ListIntegrity ==
    /\ Registered \subseteq live
    /\ \A i, j \in DOMAIN list :
          obj[list[i]].pid = obj[list[j]].pid => i = j
    /\ \A s \in Registered : obj[s].pid \in Proc

\* At most one registered task is RUNNING and mp2_curr_task points to it,
\* although mp2_curr_task outlives the object it points to.
OneRunningTask ==
    \A s \in Registered : obj[s].state = "RUNNING" => s = mp2_curr_task

\* dispatch_thread will scan the list again: it is on its way to the scan,
\* it has been woken, or a timer callback is about to wake it.
WillScan ==
    \/ dpc \in {"check", "cs"} \/ dstate = "TASK_RUNNING"
    \/ \E s \in Slot : callback[s] = "wake"

\* No wake-up of dispatch_thread is lost: while a registered READY task beats
\* the period of the current task, the thread is not left asleep. The thread
\* marks itself TASK_INTERRUPTIBLE inside the critical section of its scan
\* and callbacks wake it after theirs. Void once the current task was
\* deregistered (nobody wakes the thread then) or the module is unloading.
NoLostWakeup ==
    (\E s \in Registered : Urgent(s)) =>
        WillScan \/ curr_gone \/ should_stop

-----------------------------------------------------------------------------
(* What a step may never do.                                               *)

TimerCovers(s) == s \in pending \/ callback[s] = "lock"

\* Once its wakeup timer was armed, a task keeps a release coming for as long
\* as it is registered: the timer stays queued, or its callback is waiting
\* for the lock and will queue it again.
ReleaseChain ==
    [][\A s \in Registered : TimerCovers(s) =>
          TimerCovers(s)' \/ s \notin Registered']_vars

-----------------------------------------------------------------------------
(* Liveness. The thread, the timer softirq and a process inside a callback *)
(* are run by the kernel until they block; the clock ticks up to its bound. *)

Fairness ==
    /\ WF_vars(DispatcherStep) /\ WF_vars(ExitStep) /\ WF_vars(Tick)
    /\ \A s \in Slot : WF_vars(TimerStep(s))
    /\ \A c \in Proc : WF_vars(CallStep(c)) /\ WF_vars(Reschedule(c))

FairSpec == Spec /\ Fairness

\* A READY task with a shorter period than the current task preempts it,
\* unless it goes away first, the current task was deregistered, the module
\* is being unloaded or the lock was lost in an oops.
ShorterPeriodPreempts ==
    \A s \in Slot :
        (s \in Registered /\ Urgent(s)) ~>
            \/ s \notin Registered \/ ~Urgent(s)
            \/ curr_gone \/ should_stop \/ lock = "oops"

\* kthread_stop returns in mp2_exit, which holds the lock, unless the thread
\* was already on its way into its critical section.
ThreadStops ==
    (mod = "stopping" /\ dpc \notin {"cs"}) ~> mod = "freed"

\* Unloading the module comes to an end.
ExitCompletes == mod = "stopping" ~> mod = "unloaded"
=============================================================================
