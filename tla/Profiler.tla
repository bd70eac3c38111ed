------------------------------ MODULE Profiler ------------------------------
(***************************************************************************)
(* The page-fault profiler module (page-fault-profiler/mp3.c): the process *)
(* list, the delayed work that samples and queues itself again, the ring   *)
(* of samples, the callbacks of /proc/mp3/status and the character device, *)
(* and module unloading.                                                   *)
(*                                                                         *)
(* Time is kept as distances: how long until the work is due and how long  *)
(* since old_jiffies, one unit being THRESH_SAMPLING_PERIOD_ms.            *)
(***************************************************************************)
EXTENDS Naturals, SequencesExt

CONSTANTS
    Proc,          \* the pids a message may name
    Caller,        \* the processes that write and read /proc/mp3/status
    Period,        \* SAMPLING_PERIOD_ms, in units of the threshold
    Samples,       \* how many samples of four longs fill the ring
    MaxTasks,      \* bound: registrations on the list at a time
    MaxRefs,       \* bound: how often the character device is open at a time
    NULL

ASSUME ProfilerAssumption ==
    /\ Period \in Nat \ {0}
    /\ Samples \in Nat \ {0}
    /\ MaxTasks \in Nat /\ MaxRefs \in Nat
    /\ NULL \notin Proc

VARIABLES
    list,          \* mp3_process_list: the pids, head first
    live,          \* objects of mp3_task_struct_cachep allocated, not freed
    dwork,         \* dwork: not pending, its timer armed, or on the workqueue
    due,           \* how long until its timer expires
    age,           \* jiffies - old_jiffies, up to the threshold
    skipped,       \* history: no registration since the work gave up
    wpc,           \* mp3_work_function: where it is
    next,          \* the column of the sample it stores next
    ring,          \* mem_buffer
    sampling_idx,  \* as an index of longs
    call,          \* a caller: the proc callback it is executing
    refs,          \* open files of the character device
    mod,           \* the module: absent, loaded, on its way out, gone
    lock           \* mp3_proc_list_lock between steps

tasks   == <<list, live>>
work    == <<dwork, due>>
sampler == <<age, skipped, wpc, next>>
buffer  == <<ring, sampling_idx>>
module  == <<refs, mod, lock>>

vars == <<tasks, work, sampler, buffer, call, module>>

RingLen == 4 * Samples     \* MEM_BUF_SIZE / sizeof(unsigned long)
Slot    == 0 .. RingLen - 1
Column  == 1 .. 4          \* a long holds one column of a sample,
EMPTY   == 0               \* or -1

TypeOK ==
    /\ list \in Seq(Proc) /\ live \in Nat
    /\ dwork \in {"idle", "timer", "queued"} /\ due \in 0 .. Period
    /\ age \in 0 .. 1 /\ skipped \in BOOLEAN
    /\ wpc \in {"idle", "check", "requeue", "stamp", "lock", "wrap", "store"}
    /\ next \in 1 .. 5
    /\ ring \in [Slot -> Column \cup {EMPTY}]
    /\ sampling_idx \in {4 * n : n \in 0 .. Samples}
    /\ call \in [Caller -> [op : {"none", "R", "U", "read", "dead"},
                            pid : Proc \cup {NULL}]]
    /\ refs \in Nat
    /\ mod \in {"absent", "loaded", "flush", "teardown", "nofile", "unloaded",
                "failed", "crashed"}
    /\ lock \in {"free", "work", "exit", "oops"}

None == [op |-> "none", pid |-> NULL]

Init ==
    /\ list = <<>> /\ live = 0
    /\ dwork = "idle" /\ due = 0
    /\ age = 1 /\ skipped = FALSE
    /\ wpc = "idle" /\ next = 1
    /\ ring = [i \in Slot |-> EMPTY] /\ sampling_idx = 0
    /\ call = [c \in Caller |-> None]
    /\ refs = 0 /\ mod = "absent" /\ lock = "free"

-----------------------------------------------------------------------------
(* The kernel services the module uses.                                    *)

\* queue_delayed_work on dwork: nothing while it is pending already.
queue_delayed_work ==
    IF dwork = "idle" THEN dwork' = "timer" /\ due' = Period
    ELSE UNCHANGED work

Tick ==
    /\ (dwork = "timer" /\ due > 0) \/ age = 0
    /\ due' = IF dwork = "timer" /\ due > 0 THEN due - 1 ELSE due
    /\ age' = 1
    /\ UNCHANGED <<tasks, dwork, skipped, wpc, next, buffer, call, module>>

\* The timer of dwork puts it on the workqueue, which is there until mp3_exit
\* destroys it: after that the softirq dereferences freed memory.
TimerExpires ==
    /\ dwork = "timer" /\ due = 0
    /\ \/ /\ mod \in {"loaded", "flush"}
          /\ dwork' = "queued" /\ UNCHANGED mod
       \/ /\ mod \notin {"loaded", "flush"}
          /\ mod' = "crashed" /\ UNCHANGED dwork
    /\ UNCHANGED <<tasks, due, sampler, buffer, call, refs, lock>>

-----------------------------------------------------------------------------
(* mp3_work_function. The workqueue runs one instance of dwork at a time   *)
(* and clears its pending bit before it calls the function.                *)

WorkStart ==
    /\ dwork = "queued" /\ wpc = "idle"
    /\ dwork' = "idle" /\ wpc' = "check"
    /\ UNCHANGED <<tasks, due, age, skipped, next, buffer, call, module>>

\* Less than the threshold since old_jiffies: return without queueing dwork.
WorkCheck ==
    /\ wpc = "check"
    /\ \/ age = 0 /\ wpc' = "idle" /\ skipped' = (skipped \/ dwork = "idle")
       \/ age = 1 /\ wpc' = "requeue" /\ UNCHANGED skipped
    /\ UNCHANGED <<tasks, work, age, next, buffer, call, module>>

WorkRequeue ==
    /\ wpc = "requeue" /\ wpc' = "stamp"
    /\ queue_delayed_work
    /\ UNCHANGED <<tasks, age, skipped, next, buffer, call, module>>

WorkStamp ==
    /\ wpc = "stamp" /\ wpc' = "lock"
    /\ age' = 0
    /\ UNCHANGED <<tasks, work, skipped, next, buffer, call, module>>

\* The counts of the processes on the list are added up under the lock, which
\* keeps the list as it is; what they are is left out.
WorkLock ==
    /\ wpc = "lock" /\ lock = "free"
    /\ wpc' = "wrap" /\ lock' = "work"
    /\ UNCHANGED <<tasks, work, age, skipped, next, buffer, call, refs, mod>>

\* Mutant: the end of the ring is noticed one sample late.
WorkWrapLate ==
    /\ wpc = "wrap" /\ wpc' = "store"
    /\ sampling_idx' = IF sampling_idx > RingLen THEN 0 ELSE sampling_idx
    /\ UNCHANGED <<tasks, work, age, skipped, next, ring, call, module>>

WorkWrap ==
    /\ wpc = "wrap" /\ wpc' = "store"
    /\ sampling_idx' = IF sampling_idx + 4 > RingLen THEN 0 ELSE sampling_idx
    /\ UNCHANGED <<tasks, work, age, skipped, next, ring, call, module>>

\* One of the four stores of a sample.
WorkStore ==
    /\ wpc = "store" /\ next <= 4
    /\ ring' = [ring EXCEPT ![sampling_idx + next - 1] = next]
    /\ next' = next + 1
    /\ UNCHANGED <<tasks, work, age, skipped, wpc, sampling_idx, call, module>>

\* Mutant: the lock is kept when the ring is full.
WorkUnlockKept ==
    /\ wpc = "store" /\ next = 5
    /\ sampling_idx' = sampling_idx + 4
    /\ wpc' = "idle" /\ next' = 1
    /\ lock' = IF sampling_idx + 4 = RingLen THEN lock ELSE "free"
    /\ UNCHANGED <<tasks, work, age, skipped, ring, call, refs, mod>>

WorkUnlock ==
    /\ wpc = "store" /\ next = 5
    /\ sampling_idx' = sampling_idx + 4
    /\ wpc' = "idle" /\ next' = 1
    /\ lock' = "free"
    /\ UNCHANGED <<tasks, work, age, skipped, ring, call, refs, mod>>

-----------------------------------------------------------------------------
(* The callbacks of /proc/mp3/status. A caller executes one at a time.     *)

\* mp3_write calls one of two handlers; a message that does not parse and the
\* second call of a file, which gets -1, change nothing.
Enter(c) ==
    /\ mod \in {"loaded", "flush", "teardown"}      \* the proc file exists
    /\ call[c] = None
    /\ \E op \in {"R", "U", "read"}, p \in Proc :
          call' = [call EXCEPT ![c] = [op |-> op, pid |-> p]]
    /\ UNCHANGED <<tasks, work, sampler, buffer, module>>

Return(c) == call' = [call EXCEPT ![c] = None]

\* Mutant: the work is queued for the first process only.
mp3_registration_first(c) ==
    /\ call[c].op = "R" /\ lock = "free" /\ Len(list) < MaxTasks
    /\ live' = live + 1
    /\ list' = Append(list, call[c].pid)
    /\ IF list = <<>> THEN queue_delayed_work ELSE UNCHANGED work
    /\ skipped' = FALSE
    /\ Return(c)
    /\ UNCHANGED <<age, wpc, next, buffer, module>>

\* A process may be registered twice, and need not exist.
mp3_registration(c) ==
    /\ call[c].op = "R" /\ lock = "free" /\ Len(list) < MaxTasks
    /\ live' = live + 1
    /\ list' = Append(list, call[c].pid)
    /\ queue_delayed_work
    /\ skipped' = FALSE
    /\ Return(c)
    /\ UNCHANGED <<age, wpc, next, buffer, module>>

\* When there is no memory, the debug print after the lock is released kills
\* the process on the NULL object, inside the callback.
RegistrationOops(c) ==
    /\ call[c].op = "R" /\ lock = "free"
    /\ call' = [call EXCEPT ![c].op = "dead"]
    /\ UNCHANGED <<tasks, work, sampler, buffer, module>>

\* A registration that waited for mp3_exit uses a cache and a workqueue that
\* are destroyed: it seems to work (mp3_registration), or dies with the lock.
RegistrationAfterDestroy(c) ==
    /\ call[c].op = "R" /\ lock = "free" /\ mod = "teardown"
    /\ call' = [call EXCEPT ![c].op = "dead"]
    /\ lock' = "oops"
    /\ UNCHANGED <<tasks, work, sampler, buffer, refs, mod>>

Entries(pid) == {i \in DOMAIN list : list[i] = pid}

\* Mutant: the entry is taken off the list and not freed.
mp3_unregistration_leak(c) ==
    /\ call[c].op = "U" /\ lock = "free"
    /\ \/ Entries(call[c].pid) = {} /\ UNCHANGED tasks
       \/ \E i \in Entries(call[c].pid) :
             /\ \A j \in Entries(call[c].pid) : i <= j
             /\ list' = RemoveAt(list, i)
             /\ UNCHANGED live
    /\ Return(c)
    /\ UNCHANGED <<work, sampler, buffer, module>>

\* The first entry of the pid goes. The work goes on, with or without entries.
mp3_unregistration(c) ==
    /\ call[c].op = "U" /\ lock = "free"
    /\ \/ Entries(call[c].pid) = {} /\ UNCHANGED tasks
       \/ \E i \in Entries(call[c].pid) :
             /\ \A j \in Entries(call[c].pid) : i <= j
             /\ list' = RemoveAt(list, i)
             /\ live' = live - 1
    /\ Return(c)
    /\ UNCHANGED <<work, sampler, buffer, module>>

mp3_read(c) ==
    /\ call[c].op = "read" /\ lock = "free"
    /\ Return(c)
    /\ UNCHANGED <<tasks, work, sampler, buffer, module>>

-----------------------------------------------------------------------------
(* The character device. An open file, and a mapping through it, hold a    *)
(* reference to the module (.owner = THIS_MODULE); the proc file does not. *)

open_callback ==
    /\ mod = "loaded" /\ refs < MaxRefs
    /\ refs' = refs + 1
    /\ UNCHANGED <<tasks, work, sampler, buffer, call, mod, lock>>

release_callback ==
    /\ refs > 0
    /\ refs' = refs - 1
    /\ UNCHANGED <<tasks, work, sampler, buffer, call, mod, lock>>

\* A process that has the ring mapped (mmap_callback) stores -1 in a long.
ClearLong(i) ==
    /\ refs > 0
    /\ ring' = [ring EXCEPT ![i] = EMPTY]
    /\ UNCHANGED <<tasks, work, sampler, sampling_idx, call, module>>

-----------------------------------------------------------------------------
(* Loading and unloading.                                                  *)

mp3_init ==
    /\ mod = "absent" /\ mod' \in {"loaded", "failed"}
    /\ UNCHANGED <<tasks, work, sampler, buffer, call, refs, lock>>

\* mp3_exit takes the lock, cancels the work unless it runs ...
ExitCancel ==
    /\ mod = "loaded" /\ refs = 0 /\ lock = "free"
    /\ mod' = "flush" /\ lock' = "exit"
    /\ dwork' = "idle" /\ due' = 0
    /\ UNCHANGED <<tasks, sampler, buffer, call, refs>>

\* Mutant: the workqueue is not flushed.
ExitDestroyNoFlush ==
    /\ mod = "flush"
    /\ mod' = "teardown" /\ lock' = "free"
    /\ list' = <<>> /\ live' = live - Len(list)
    /\ UNCHANGED <<work, sampler, buffer, call, refs>>

\* ... waits for the workqueue to be empty, destroys it, frees the list and
\* destroys the cache, all under the lock ...
ExitDestroy ==
    /\ mod = "flush" /\ wpc = "idle" /\ dwork # "queued"
    /\ mod' = "teardown" /\ lock' = "free"
    /\ list' = <<>> /\ live' = live - Len(list)
    /\ UNCHANGED <<work, sampler, buffer, call, refs>>

\* ... waits for the proc callbacks in progress ...
ExitRemove ==
    /\ mod = "teardown" /\ \A c \in Caller : call[c] = None
    /\ mod' = "nofile"
    /\ UNCHANGED <<tasks, work, sampler, buffer, call, refs, lock>>

\* ... and frees the ring (vfree_mem_buffer).
ExitFree ==
    /\ mod = "nofile" /\ lock = "free"
    /\ mod' = "unloaded"
    /\ UNCHANGED <<tasks, work, sampler, buffer, call, refs, lock>>

-----------------------------------------------------------------------------
mp3_work_function ==
    \/ WorkStart \/ WorkCheck \/ WorkRequeue \/ WorkStamp
    \/ WorkLock \/ WorkWrap \/ WorkStore \/ WorkUnlock

CallStep(c) ==
    \/ mp3_registration(c) \/ RegistrationOops(c)
    \/ RegistrationAfterDestroy(c) \/ mp3_unregistration(c) \/ mp3_read(c)

mp3_exit == ExitCancel \/ ExitDestroy \/ ExitRemove \/ ExitFree

Running == mod # "crashed"

\* All but the users of the character device.
ModuleStep ==
    /\ Running
    /\ \/ mp3_init \/ mp3_exit
       \/ Tick \/ TimerExpires \/ mp3_work_function
       \/ \E c \in Caller : Enter(c) \/ CallStep(c)

DeviceStep ==
    /\ Running
    /\ open_callback \/ release_callback \/ \E i \in Slot : ClearLong(i)

Next == ModuleStep \/ DeviceStep

Spec == Init /\ [][Next]_vars

\* The clock, the timer softirq and the worker thread are run by the kernel.
FairSpec ==
    /\ Spec
    /\ WF_vars(Running /\ Tick) /\ WF_vars(Running /\ TimerExpires)
    /\ WF_vars(Running /\ mp3_work_function)

-----------------------------------------------------------------------------
(* Safety.                                                                 *)

\* The chain of samples: while a process is registered, the work is pending
\* or is running and has yet to queue itself, unless a run gave up because it
\* came too soon after the last one and nobody registered since.
WorkAlive ==
    list # <<>> /\ mod = "loaded" =>
        dwork # "idle" \/ wpc \in {"check", "requeue"} \/ skipped

\* The ring is there whenever the work runs or a monitor has it mapped.
RingAlive == wpc # "idle" \/ refs > 0 => mod \in {"loaded", "flush"}

\* The cache is destroyed with no object left in it, although registrations
\* and unregistrations run until mp3_exit has the lock (mp3.c:573).
CacheEmptyAtDestroy ==
    [][mod = "flush" /\ mod' = "teardown" => live' = 0]_vars

-----------------------------------------------------------------------------
(* Liveness.                                                               *)

\* While a process is registered samples are taken, again and again, unless
\* the chain was cut as in WorkAlive or the module goes away.
SamplingGoesOn ==
    list # <<>> ~> wpc = "store" \/ skipped \/ mod # "loaded"
=============================================================================
