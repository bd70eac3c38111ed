# Linux kernel development: a verification project

Three projects share this repository: a rate-monotonic scheduler built as a
Linux module (`rate-monotonic-scheduler/`), a page-fault profiler built as a
Linux module (`page-fault-profiler/`), and a runtime and loader for extension
programs written in Rust (`rust-inner-unikernels/`). The modules in this
directory are specifications of the code, model-checked by TLC on small
instances and, for what matters most, proved with TLAPS for every value of the
constants.

## 1. Inventory

### 1.1 The rate-monotonic scheduler

| part | state it keeps | operations | reached through |
|---|---|---|---|
| process list (`mp2.c:37-61`) | `mp2_process_list`, the objects of `mp2_task_struct_cachep`, each with pid, period, processing time, deadline, state and a timer | registration, yield, deregistration, read | writes and reads of `/proc/mp2/status`, in the process that makes them |
| admission control (`mp2.c:247-288`) | none: it reads the list | a fixed-point quotient against 693 | registration |
| dispatching thread (`mp2.c:71-152`) | `mp2_curr_task`, its own task state | scan, demote, promote, wake | woken by timer callbacks and by `kthread_stop` |
| wakeup timers (`mp2.c:161-214`) | one per object: queued, due, callback running | make READY, re-arm, wake the thread | the timer softirq |
| load and unload (`mp2.c:687-754`) | proc file, cache, thread | `mp2_init`, `mp2_exit` | `insmod`, `rmmod` |
| test application (`userapp.c`) | its statement and the jobs left | register, read, yield, jobs, deregister | a user |

Everything above shares one spinlock, `mp2_proc_list_lock`. The hard behaviours
are concurrent ones: the dispatching thread marks itself asleep before it calls
`schedule()`; timer callbacks wake it after they gave up the lock; admission
control gives the lock up before registration takes it; `del_timer` does not
wait for a callback that is running, so callbacks work on freed and reused
objects; `mp2_curr_task` outlives its object; unloading waits for others while
it holds the lock. What makes the component correct: the list stays sound, no
wake-up of the thread is lost, one task is RUNNING and its process is awake,
releases keep coming, a shorter period preempts, unloading ends.

### 1.2 The page-fault profiler

`mp3.c` keeps a list of processes, a delayed work item that queues itself again
every 50 ms, and a ring of samples (128 pages) that `mmap_callback` maps into
`monitor.c`. Hard: the work item's own pending bit against registration, the
threshold that makes it return without queueing itself, the unlocked reader of
the ring, unloading that waits for the
work while it holds the lock the work needs, and failures half-way through
loading.

### 1.3 The inner-unikernel loader and runtime

`libiu.cpp` opens an ELF file, creates the kernel maps it names, patches their
descriptors into the program and loads it: a chain of fallible steps that own
file descriptors and memory. The runtime (`inner_unikernel_rt/src`) runs inside
the kernel: a table of cleanup actions per CPU run by the panic handler,
spinlock guards, contexts and views of packets for the types of programs,
helpers over packets and strings, maps that programs share, and a clock that
programs read without a lock. Hard: a failure at each step of loading and
who closes what; a panic between acquiring and releasing; slices that outlive
the packet layout they were taken from; references that outlive the element of
a map; programs on several CPUs in the same map; a reader that interrupts the
writer it reads from. What makes these components correct: a
load takes effect or leaves nothing open and never closes what is not its own;
a view lies inside its packet; a lock is owned by one live guard and is free
once no program runs that took it; a program leaves no key behind and its
records arrive in order and complete; no value of a queue is lost or popped
twice; a clock reads as if in one step; string
and packet helpers compute what their reference definitions say.

Not part of the program's own logic, and left aside: the vendored `list.h` and
`compiler.h`, `q-script/`, the bindings, `build.py`, and the samples except
`map_test`. `lib.rs:11` and `lib.rs:26` comment the clock (`timekeeping.rs`,
`seqlock.rs`) out of the present build; it is kept in the repository to be used
instead of the kernel's, and is modelled for that reason.

## 2. Plan

The order follows what is hardest to test: the two kernel modules are
concurrent programs with no test at all, the loader and the runtime come after.

| step | modules | abstract statement | state |
|---|---|---|---|
| 1 | `AdmissionControl`, `Mp2` | any process may call anything at any time | modelled, checked, proved |
| 2 | `UserApp` (extends `Mp2`) | a refinement of `Mp2` | modelled, checked, proved |
| 3 | `Profiler` | any caller, any monitor | modelled, checked, proved |
| 4 | `Monitor` (extends `Profiler`) | rows are samples; with any monitor it is a `Profiler` | modelled, checked, proved |
| 5 | `Loader`: maps, base program, programs, who closes which descriptor, a failure at each step | a load takes effect as a whole or leaves nothing open | modelled, checked, proved |
| 6 | `Program`: guards and the table of cleanup entries, a panic at any point, views of packets and the helpers that change them | `SharedLocks`, locks that pass from owner to owner | modelled, checked, proved (the refinement too) |
| 7 | `FastClock`: the latch, its reader and the kernel's writer | `AtomicClock`, a clock that is read in one step | modelled, checked, proved (the refinement too) |
| 8 | `Maps`: `map_test` on several CPUs, ring-buffer records between reservation and submission, a queue | each key is removed, each record delivered, each value popped once | modelled, checked, proved but for liveness |
| 9 | `FieldTransmute`, `Helpers`: strings, names, checksums, per-CPU reads, derived constructors | the reference definitions | modelled, checked; the helpers proved, `FieldTransmute` checked through them |
| 10 | the messages of `mp2_write` and `mp3_write`, the listing of `mp2_read` | what is parsed is what was written | planned |

Every model is written to be proved about: parameters are CONSTANTS with named
assumptions, one action per operation or critical section, invariants that are
conjunctions of named parts, no RECURSIVE operator.

## 3. The modules and the code

### 3.1 `Mp2` and `AdmissionControl`

A critical section of `mp2_proc_list_lock` is one step, because everything the
modelled threads share is accessed under that lock; what the code does before
it takes the lock or after it releases it is a step of its own, so everything
interleaves there. The state corresponds to the code as follows.

| state | code |
|---|---|
| `list`, `live`, `obj` | `mp2_process_list` (head first), the objects allocated from the cache, the contents of every object. A freed object keeps its contents, except that the allocator's free list overwrites its `task` pointer (`CurrTaskPointer`); an address is reused by a later registration |
| `pending`, `expires`, `callback` | `wakeup_timer` of every object: queued, when due, and how far its running callback is (`lock`: waiting for the lock, `wake`: about to wake the thread) |
| `mp2_curr_task`, `curr_gone` | the pointer; whether its task was deregistered since (history) |
| `dpc`, `dstate`, `should_stop` | where `dispatch_thread` is, its task state, `kthread_should_stop()` |
| `tstate`, `onrq`, `policy` | a process: its task state, whether it is on a run queue, its policy |
| `call`, `made` | a process: the callback it executes, and a counter for the bound `MaxCalls` |
| `mod`, `lock` | the life of the module; who holds the lock between steps (`exit`: `mp2_exit`, which waits under it; `oops`: a process or thread that died with it) |

`Enter`, `Admission`, `mp2_registration` are the three pieces of a registration
(message read; first critical section; second one); `mp2_yield`,
`mp2_deregistration`, `mp2_read` have one critical section each;
`DispatcherCheck`, `Dispatch`, `DispatcherSchedule` are the loop of the thread;
`TimerExpires`, `mp2_timer_callback`, `WakeDispatcher` one callback;
`ExitStop`, `ExitFree`, `ExitUnlock` are `mp2_exit`, cut where it waits.
`SwitchTo` includes the two `sched_setattr_nocheck` calls: their argument is a
local structure of which the code sets two fields, so each call takes effect or
fails. `AdmissionControl` is the arithmetic on `unsigned long`, with
`ULONG_MAX` a constant; a sum of zero traps (`AdmissionOops`).

Simplifications: several CPUs are assumed, so any runnable thread may take the
next step; which process the CPU is given to is not modelled, only who is on a
run queue; a blocking system call of a process does not reset its task state;
a process that exits while it is registered, and a timer callback that runs
after the module's text is gone, are left out; loading is one step; a message
that does not parse changes nothing.

### 3.2 `UserApp`

Extends `Mp2` with the program counter of `main()` and the jobs left. `Goto`
ignores return codes as `main()` does. `AppNext` replaces the free choice of
callbacks in `Mp2` by the order of `userapp.c`.

### 3.3 `Profiler`

| state | code |
|---|---|
| `list`, `live` | `mp3_process_list`, as pids; the objects of the cache |
| `dwork`, `due` | the delayed work: not pending, its timer armed, queued |
| `age`, `skipped` | `jiffies - old_jiffies` up to the threshold; a run gave up and nobody registered since (history) |
| `wpc`, `next` | where `mp3_work_function` is |
| `ring`, `sampling_idx` | `mem_buffer` as longs, each -1 or one column of a sample; the index, in longs |
| `call`, `refs`, `mod`, `lock` | as in `Mp2`; `refs` counts open files of the device, which pin the module |

Only distances between points of time are kept, in units of the threshold
(25 ms): no bound on the clock is needed. The work is cut at every point where
something else can see or change what it uses: the threshold test, the queueing
of itself, the stamp, the lock, each of the four stores (the monitor takes no
lock). The loop over the list, with `get_cpu_use`, happens with the lock: the
values it adds up are abstracted to the four columns of a sample. The workqueue clears the pending bit before
it calls the function and runs one instance at a time, so `WorkStart` asks for
`wpc = "idle"`. `mp3_exit` is cut at its
waits and at the lock; after `ExitDestroy` an armed timer that expires, and a
registration that waited for the lock, use what is destroyed (`TimerExpires`,
`RegistrationAfterDestroy`); those runs end there. Left out: what `mp3_init`
leaves behind when it fails, and its window before the cache and the workqueue
exist; the text of `mp3_read`; the parse of a message; the page flags that
`vfree_mem_buffer` clears on the first page only.

### 3.4 `Monitor`

Extends `Profiler` with `monitor.c`, an access at a time (`PrintValue` and
`ClearValue` are separate). `BufdMax` is `BUFD_MAX`, a multiple of four shorter
than the ring, as 48000 is of 65536. One instance runs at a time. Its opening
and closing of the device are `open_callback` and `release_callback`, its
stores are `ClearLong`.

### 3.5 `Loader`

| state | code |
|---|---|
| `fdt` | the descriptor table of the process: what each number stands for. Number 1 is the standard output of the application, which stays open |
| `iu` | an `iu_obj`: `map_defs`, the `map_fd` of each `iu_map`, `prog_fd` (the base program), `progs` and their `fd` |
| `bpf` | libbpf's `bpf_object`: `efile.fd`, the `fd` of its maps, the `instances` of its programs, `loaded` |
| `objs` | the map of libiu from a number to an `iu_obj` |
| `pc`, `cur`, `todo`, `ret` | where the call of `iu_object__open` is, on which load, what its loop has not come to, the number its steps hand on |
| `status`, `stray` | what became of a load; whether a close ever hit a descriptor that the closer did not open (history) |

A step is a call that opens or closes descriptors: `iu_object__open` opens the
file, `parse_elf` stands for the four parsers and their folding, then
`CreateMap`, `OpenRustOut`, `LoadBase`, `RemoveRustOut`, `LoadProg`, with the
failure of each, `CloseFds`, `iu_obj_load` (which keeps or destroys the
`iu_obj`), `elf_finish` and `OpenReturnsNull`. The kernel gives out the lowest
free number (`Lowest`). libbpf's `bpf_object__close` is external: it closes the
file, the maps and the instances the object holds. A file that makes the parser
use a null or uninitialised section pointer ends the process (`ParseCrash`).

Abstracted: the byte layout of ELF, the relocations and the patching of the
image. Left out: two maps of one name; two threads or two processes in the
loader at once (`rust.out` is shared, as `libiu.cpp:1121` says); the libelf
handle that both objects would end; an application that closes one object in
both ways, which would close the numbers of its maps twice.

### 3.6 `Program`

| state | code |
|---|---|
| `pc`, `kind` | where the program of a CPU is: not running, running, spinning in `bpf_spin_lock`, in the panic handler, in `iu_landingpad`; its type |
| `pkt`, `ctx` | the packet as the kernel has it (`xdp_buff`, `sk_buff`) and as the program has it (`xdp_md`, `__sk_buff`): which buffer, how long, and for `ctx` the length of `data_slice` and the length the header functions use (`data_length`, `len`) |
| `views` | references into the packet: borrowed from the context, the field `data_slice`, or borrowed from the program |
| `lock`, `held`, `want` | `bpf_spin_lock`s with their owner, live `iu_spinlock_guard`s, the guard under construction |
| `entries` | `iu_cleanup_entries` of each CPU |
| `left` | locks a program held when it panicked (history) |

`prog_run` is `convert_ctx` and the call of the program; `Header`, `HeaderPanics`,
`data_slice`, `data_slice_mut` are the ways to a view, `bpf_xdp_adjust_tail` and
`bpf_clone_redirect` the helpers that change the packet; a guard is made in two
steps (`iu_spinlock_guard_new`, `bpf_spin_lock`) and released by `drop` or
`Return`. `panic` may happen whenever a program runs, and `cleanup_all` and
`iu_landingpad` follow it. Lengths count the headers that fit. The values of a
view's lifetime follow the signatures: a helper takes the context as `&mut`, so
what was borrowed from it ends (`EndBorrows`); the slice of `xdp::data_slice_mut`
has the lifetime of `&self` and does not.

Assumed of the kernel: `bpf_xdp_adjust_tail` never cuts into the Ethernet
header; `bpf_clone_redirect` may move the packet whatever it returns and keeps
its length; one program runs on a CPU at a time. Assumed of programs: they do
not assign the public fields `len`, `data_length`, `data_slice`. Abstracted:
which part of an `sk_buff` is linear (`len` counts all of it); borrows that end
because a later one is exclusive, so the model keeps views longer. No code
writes the table of cleanup entries, so `entries` is empty throughout; it is in
the model because the handler reads it.

`SharedLocks` is the abstract specification of the locks: a CPU takes a free
lock, its owner releases it, or loses what it owns for good. `Program`
implements it with `owner <- lock`, `lost <- left` (`LocksAreShared`).

### 3.7 `FastClock` and `AtomicClock`

| state | code |
|---|---|
| `time`, `offs`, `cycle` | the time the machine was awake, `offs_boot`, the hardware counter, which wraps after `Mask` |
| `seq`, `base` | `TimeKeeperFast`: the latch's sequence number (its low bit, which chooses the copy, and the bits above it) and the two `tk_read_base`s |
| `new`, `left` | the kernel's update: what it writes, and the fields it has not come to |
| `pc`, `start`, `todo`, `got`, `now` | a reader in `ktime_get_fast_ns`: the sequence number it read, fields not yet read, fields read, the time it has |
| `asks`, `from`, `ret` | the reads as `AtomicClock` sees them |
| `lag` | increments of `seq` since a reader read it (history, for the bound below) |

Every read of shared memory is a step: `raw_read_seqcount_latch`, `ReadField`
for each field of the copy and for the counter, in any order since they are
plain reads, and the second read of `seq`, with which an iteration is over
(`Done`) or repeated (`Retry`). `ktime_get_boot_fast_ns` adds `offs_boot` in a
step of its own (`AddOffset`). The writer (`UpdateBegin`, `UpdateField`,
`UpdateSwitch`) is the kernel's, modelled from what the reader relies on.

Assumed: the kernel updates the timekeeper before the counter has run half a
turn; at most one update a tick; no reader is interrupted while `seq` goes
through all its values; the clock is not set back. Abstracted: `mult` and
`shift` (a tick is a nanosecond), the order in which a machine weaker than x86
makes writes visible.

`AtomicClock` is what a clock promises: a read returns a time at which the
clock stood between the call and the return.

### 3.8 `Maps`

| state | code |
|---|---|
| `prog`, `bound` | the program attached: `samples/map_test`, one that sends records or one that uses a queue; whether the loader has set `kptr` of the maps |
| `pc`, `pid`, `result` | the helper a program calls next; `get_current_task`; the `Result` it returned |
| `element`, `value`, `ref` | `map_hash`: which element holds key 0; the contents of elements, free ones too, and of `map_array[0]`; the reference a lookup returned |
| `saw`, `alone` | what a program printed of values while no other ran (history) |
| `reserved`, `consumed`, `state`, `data`, `mine` | the ring buffer: records by number, their state and contents; the slice a program got from `bpf_ringbuf_reserve` |
| `queue`, `pushed`, `popped` | the values of a queue, the oldest first; all that were pushed and popped (history) |
| `writer`, `delivered` | who reserved a record, what the consumer read (history) |

A call of a helper is one step, as the kernel makes it; between a lookup and
the use of its reference other programs run, and the element may be freed and
hold another value. `Continue` and `Question` are the order of `map_test` and
its `?`; a call fails for a map without object (`EINVAL`), for want of memory
or of the key. A panic is possible between reserving and submitting and leaves
the record busy; between pushing and popping it leaves the value in the queue.
The programs that send records or use the queue and the consumer are external:
no sample does. The one with the queue pushes, peeks and pops, so its pop
never finds the queue empty. Left out: what `pop` and
`peek` write through their `&V`, other flags than `BPF_ANY`, other keys.

### 3.9 `Helpers` and `FieldTransmute`

One call from the initial state, then one step per iteration of its loop. The
inputs are all those of bounded size. `s1`, `s2`, `cnt` are the arguments of
`bpf_strcmp` and `bpf_strncmp`; `comm`, `buf`, `size` those of `get_comm`, with
`Rename` between two bytes; `words`, `sum` the header of `compute_ip_checksum`;
`mem` the per-CPU areas in cells of 32 bits, with `cpu_number`, `numa_node`,
`current_task` at their addresses, read by `this_cpu_read` in the width of the
type and by `this_cpu_ptr` through `__per_cpu_offset`. `FieldTransmute` has the
outcome of `derive(FieldTransmute)` for a declaration: an error, a panic of the
macro, a constructor the compiler refuses because of
`direct_packet_access_ok`, or a constructor. Characters are code points;
`memcpy` of a name is byte by byte.

## 4. The runs

| run | specification | instance and bounds | what it shows |
|---|---|---|---|
| `scheduler` | `Mp2!Spec` | 2 processes (one also speaks for the other and for a pid that does not exist), 2 objects, periods 0 and 1, one tick, 4 and 2 calls | `TypeOK`, `NoLostWakeup`, `ListIntegrity`, `OneRunningTask`, `ReleaseChain` |
| `preemption` | `Mp2!FairSpec` | 2 processes that speak for themselves, periods 1 and 2, 2 ticks, 2 calls each | `ShorterPeriodPreempts`, `ThreadStops` |
| `application` | `AppSpec` | 2 applications of periods 2 and 1, one job each, 2 ticks | `AppTypeOK`, `RunningIsAwake`, and that the composition implements `Mp2!Spec` |
| `profiler` | `Profiler!FairSpec` | 2 pids, 2 callers, a ring of one sample, 2 entries, one open device | `TypeOK`, `WorkAlive`, `RingAlive`, `CacheEmptyAtDestroy`, `SamplingGoesOn` |
| `monitor` | `MonSpec` | a ring of 2 samples of which the monitor reads 1, one pid, one caller | `MonTypeOK`, `QuietRowsKept` |
| `loader` | `Loader!Spec` | 3 loads of 2 maps and 2 programs, 12 descriptors, 2 files of the application | `TypeOK`, `NoStrayClose`, `FailedLoadCloses`, `HandlesValid`, `NothingHalfLoaded` |
| `program` | `Program!Spec` | 2 CPUs, 2 locks, one view a program, one move of a packet, one cleanup entry | `TypeOK`, `ViewsInside`, `GuardsOwnLocks` |
| `clock` | `FastClock!FairSpec` | one reader, a counter of 6 values, 4 values of `seq`, 3 ticks, one resume | `TypeOK`, the refinement `ReadsAreAtomic`, `ReadsEnd` |
| `maps` | `Maps!FairSpec` | 2 CPUs, 2 pids, 2 elements, a ring and a queue of 2, 4 records or values | `TypeOK`, `CleanAfter`, `AloneSucceeds`, `RecordsComplete`, `QueueServes`, `RecordsDelivered` |
| `helpers` | `Helpers!Spec` | 3 characters, strings up to 3, names of 4 and buffers up to 5, 5 words of 0 to 3, 2 CPUs, declarations of 2 fields | `TypeOK`, `CompareIsOrder`, `CommIsString`, `ChecksumVerifies`, `FetchIsLocal`, `AcceptedIsPlain` |
| `unload`, `panic` | as above, smaller | see section 7 | each refutes one statement of the documents |

Why the bounds are enough for the cases that matter. In `scheduler` two objects
and three registrations make an address be freed and reused while a callback
on the old object waits and while `mp2_curr_task` points to it; period 0 makes
the division trap and timers due at once; four calls of one process are a
registration, a yield, a deregistration and a second registration. One tick is
enough because a timer of period 1 then is due or not; the later ticks that
preemption needs are in `preemption`. In `application` the periods differ, so
one application preempts the other, and one job gives two yields. In `profiler`
a ring of one sample wraps at every sample, and the period of two thresholds
lets a registration arm the work so that it runs too soon after the run before
it. In `monitor` the part that is read and the part that is not are one sample
each; the same properties were also checked by hand on rings of three. In
`loader` two loads and the standard output need up to fourteen numbers, so the
process runs out of descriptors at every step of a load, and numbers that one
load closed are given to the next. In `program` one view is enough, since the
properties look at each view alone, and two CPUs with two locks can wait for
each other and panic with the lock the other wants. In `clock` readers do not
affect each other, so one is enough; the counter starts anywhere and wraps, and
`seq` wraps with the second update, of which three ticks allow three. In `maps`
two elements make one be reused while a reference into it is held; four records
in a ring of two make it full and go round, and four values in a queue of two
make a push fail behind values that panics left. In `helpers` two words of 3 make
the sum carry and a third makes the fold carry again; strings reach past every
value of `cnt`, and buffers are shorter and longer than the name.

Deadlock is not checked anywhere: the systems may stop (the module is unloaded
or failed to load, the calls are used up, unloading waits for ever, which is
the subject of `unload`, every program spins for a lock, the clock's bound on time is reached, or a call
of a helper is over).

Fairness. `DispatcherStep`, `TimerStep(s)`, `Tick`, `ExitStep`, `CallStep(c)`
and, in `Profiler`, `Tick`, `TimerExpires` and `mp3_work_function` are weakly
fair: they are a kernel thread that is runnable, the clock, the timer softirq,
a worker thread and processes inside a callback, all of which the kernel runs
until they block. Nothing obliges a process to make a call, and nobody to load
or unload a module. The lock is granted to somebody: `mp3_work_function` waits
for `lock = "free"` and, since critical sections of the callbacks are single
steps, the lock is only away while the exit path or a dead process has it, in
which cases `SamplingGoesOn` promises nothing (`mod # "loaded"`). In `FastClock` only
the readers are fair: a program that reads the clock runs on, while the writer
it may have interrupted need not; `ReadsEnd` holds all the same, which is what
the latch is for. Time is bounded there, so updates do not go on for ever; a
reader overtaken by endless updates is not excluded by the code, and not
claimed. In `Maps` a program in the kernel runs until it returns (`Step`), and
the consumer of the ring buffer keeps polling (`Consume`); nothing makes a
program start.

## 5. What is proved

All theorems hold for every value of the constants that satisfies the
assumptions `ULongAssumption`, `Mp2Assumption`, `UserAppAssumption`,
`ProfilerAssumption`, `LoaderAssumption`, `ProgramAssumption`,
`MonitorAssumption`, `FastClockAssumption`, `HelpersAssumption`,
`MapsAssumption`. Two of them say what a proof showed to be needed:
`HelpersAssumption` bounds the words of a header by `WordMax + 2`, since with
more of them the one fold of the code can leave a carry of two (a header has ten
words of 16 bits), and `MapsAssumption` keeps `NULL` apart from the address of
the array's value.

* `TypeCorrect`, `ListSound`, `RunningIsCurrent`, `WakeupNotLost`,
  `ReleasesContinue` (`Mp2Proofs`). The inductive invariant is `IInv ==
  TypeOK /\ ListIntegrity /\ CurrListed /\ ThreadPhase /\ OneRunningTask /\
  NoLostWakeup`. `ListIntegrity` is inductive with `TypeOK` because
  registration looks for the pid again in its second critical section.
  `NoLostWakeup` needs `CurrListed` (unless `curr_gone`, `mp2_curr_task` is NULL
  or on the list: otherwise its period could change when its address is reused) and `ThreadPhase` (where
  the thread may be asleep at all). The heart of the proof is
  `DispatchLeavesNone`: after a scan no registered READY task beats the new
  current one. `ReleaseChain` follows from `CoverStep`, one step per action.
* `AppImplementsMp2`, `RunningStaysAwake` (`UserAppProofs`). Every step of the
  application is a step of `Mp2` or a stutter, so each theorem above holds of
  `AppSpec`. `RunningIsAwake` is inductive with `AwakeInv`, whose part
  `OwnCalls` says that a process names itself: for processes that speak for
  others it is false, since yield puts the caller to sleep and not the task.
* `AppTypeCorrect` (`UserAppProofs`). `AppInv`: a process is computing only
  while it has a job left, which is what keeps the count of jobs a number.
* `ProfilerTypeCorrect`, `ChainAlive`, `RingStays`, `CacheEmpty`
  (`ProfilerProofs`). The inductive invariant `IInv` has three groups besides
  `TypeOK`: `Listing` (every object is on the list, nothing is registered
  before loading), `Worker` (the lock is the worker's from the first entry to
  the last store, and there is room for the sample it stores) and `Alive`
  (`WorkAlive`, `RingAlive`, and `QueueAlive`: no workqueue with work on it is
  destroyed, and the device is closed before unloading starts). `TypeOK` is not
  inductive without `RoomForSample`: the index is tested before the four stores
  and moved after them.
* `MonitorImplementsProfiler`, `MonitorTypeCorrect`, `RowsKept`
  (`ProfilerProofs`). Every step of the module with its monitor is a step of
  `Profiler` or a stutter, so each theorem about `Profiler` holds of `MonSpec`.
  `QuietRowsKept` concerns a monitor that runs while no sample is stored; its
  invariant `MonInv` relates every long of the ring to the index of the monitor
  and that of the work. `InColumns`: a long holds its column of a sample or
  nothing. `RowsWhole`: a row below `BufdMax` is full, blank, being stored or
  being printed. `StoreGoesOn` and `RowGoesOn`: in the last two cases the
  longs before the column are done and the others are not. All but the first
  hold until the two have met (`Quiet`). A row stored while it is cleared may
  stay half full after both are done, which is why `overlap` is never reset.
* `LoaderTypeCorrect`, `ClosesItsOwn`, `FailureCloses`, `HandlesHold`,
  `ReturnsWhole` (`LoaderProofs`). The inductive invariant says what each load
  owns: `Settled` for one that is not in progress, `Loading` and `Finishing` for
  the one that is, at each value of `pc`. Two facts carry the proof. `Reaches`:
  whatever is open for a load, but for `rust.out`, is a number that one of its
  two objects keeps, so closing the objects closes it. `Open` and `Closable`: a
  number an object keeps stands for what the object opened, or, in the steps
  from `close_fds` to the end of a failed call, for that or for nothing. In that
  stretch the library opens nothing, so no stale number gets a new meaning
  before the second close of it. `Entered` says
  that an `iu_obj` which `iu_obj_load` replaces in `objs` is one that a parser's
  failure put under number 1 and holds no descriptor, so destroying it closes
  nothing.
* `ProgramTypeCorrect`, `ViewsStayInside`, `GuardsExclude` (`ProgramProofs`). The
  inductive invariant `IInv` is `TypeOK` with `PacketInv` and `LockInv`.
  `PacketInv` adds to `ViewsInside` that the length in a program's context is
  that of the packet and, for `xdp_md`, that `data_slice` is the packet
  (`CtxFresh`): without it a view built from a stale length could be too long.
  `LockInv` adds to `GuardsOwnLocks` that a spinning program names a lock
  (`SpinsFor`), that the table is empty (`NoEntries`), and that a lock left
  behind stays taken (`LeftTaken`), so that no other program gets it.
* `LocksImplementShared` (`ProgramProofs`). Every step of `Program` is a step of
  `SharedLocks` or a stutter, step by step from `LockInv`: the locks of a CPU's
  guards are those it owns and did not lose (`OwnsItsGuards`), so what `drop` and
  `Return` unlock is the caller's, and the handler, whose table is empty, loses
  exactly what the CPU owns.
* `ClockTypeCorrect`, `FastClockIsAtomic` (`FastClockProofs`). Every step of
  `FastClock` is a step of `AtomicClock` or a stutter. `IInv == TypeOK /\ InTurn
  /\ Latch /\ Readers`: every stored reading of the counter is in its range
  (`InTurn`); the update and the copy readers are sent to convert the counter
  exactly, and the other copy agrees with the update but for fields the writer has
  not come to (`Latch`); a reader since whose first look `seq` has not moved
  holds what the present copy holds, and its time lies between call and now
  (`Readers`). The bound on `lag` makes an equal `seq` mean that nothing moved.
* `HelpersTypeCorrect`, `StringsInOrder`, `NamesTerminated` (`HelpersProofs`).
  `CompareLoop` and `CopyLoop` are the loop invariants: the first `idx`
  characters are equal; the first `idx` bytes of the buffer are written, with
    with the name's unless it changed, and the rest is not.
* `ChecksumsRight`, `FetchesLocal`, `DerivesPlain` (`HelpersProofs`). `AddLoop`:
  `sum` is the sum of the words up to `idx`, with the checksum's own word zero.
  `Partial` is a recursive function; that it has the values it is defined by,
  its bounds and what storing the checksum adds to it are lemmas proved by
  `NatInd`. `FoldOnce` is the arithmetic of one fold: the complement of the
  folded and truncated sum makes the total a multiple of `WordMax` exactly when
  the folded sum needed no second fold, which is `ChecksumVerifies`. The other two follow from one step each: the address
  `this_cpu_ptr` computes is in the caller's area, and `derive` accepts no
  struct with a field that is not plain.
* `MapsTypeCorrect`, `KeyRemoved`, `RecordsInOrder`, `QueueServed`
  (`MapsProofs`). `Key` says
  that the key is there for somebody who will delete it, and only in a map that
  was bound: without the second half a deletion that fails would leave it.
  `Records` has `Owned` (a program between reserving and submitting has a busy
  record of its own, behind the consumer) and `Complete` (what is ready is
  complete, what was consumed was ready). `QueueServes` is inductive once the
  programs between pushing and popping are known to be finitely many (`Serves`).
* `RunsAloneSucceed` (`MapsProofs`). `Runs` says of each run of `map_test` that
  overlapped no other what it has printed so far (`Printed`), that the element
  it holds a reference to is the one it looked up, and that the value there is
  its pid; any other run that starts makes it a run that overlapped.

Only model-checked is liveness under fairness (`ShorterPeriodPreempts`,
`ThreadStops`, `SamplingGoesOn`, `ReadsEnd`, `RecordsDelivered`), which is
outside the prover's reach. Every invariant and every action property of the
passing runs is the property of a theorem. Two refinements are proved and in no
run: that `MonSpec` implements `Profiler` and that `Program` implements
`SharedLocks`. The library's induction theorems take
an operator as a parameter, which the provers cannot instantiate; where a proof
needs an induction (the sums of the checksum) `HelpersProofs` states it for a
set, `NatInd`, from the least number outside the set.

## 6. What is not modelled

The helpers of the runtime that are one call into the kernel; `random32.rs`;
`sysctl.rs`, which hands a buffer to the kernel. The
bindings, build scripts, `entry_link`, the samples but `map_test`, and
virtual-machine scripts have no state of their own worth a model. Known and not
covered by a property: a write to the proc file of the scheduler before its
cache and thread exist (`mp2.c:702`), the buffer that each write to the scheduler leaks
(`mp2.c:612`), the object a registration of a process that does not exist leaks
(`mp2.c:357`), the descriptor of `rust.out` that each load leaks
(`libiu.cpp:1127`), the counters of a process that are read and then reset
(`mp3_given.h:35`), what a failing `mp3_init` leaves behind (`mp3.c:530`), the
row `monitor.c` prints at 48000 when its search finds nothing
(`monitor.c:57`), a registration without memory (`mp3.c:253`). In the modelled parts: see the ends of
sections 3.1, 3.3 and 3.5 to 3.8.

## 7. Where the code and its documents disagree

* `unload`: `mp2_exit` waits for the thread and for callbacks while it holds the
  lock they need (`mp2.c:733`). `mp3_exit` has the same shape (`mp3.c:558`).
* `panic`: a program that panics with a guard alive leaves its lock taken, since
  the guard is not among the cleanup entries (`spinlock.rs:27`).

Three more follow from the models, without a run of their own. Two tasks that are
not admissible together may both be admitted, since `Admission` and
`mp2_registration` are two critical sections (`mp2.c:320`, against the comment at
`mp2.c:292`). `SwitchTo` turns a SLEEPING current task READY (`mp2.c:112`, against
step 6a of the README of the scheduler). `Fold` turns the failure of a parser
into 1, so `iu_object__open` returns an object that was not loaded
(`libiu.cpp:1051`, against line 195 of the README of the runtime):
`NothingHalfLoaded` says that it then owns nothing.
