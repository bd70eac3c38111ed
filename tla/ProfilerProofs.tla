--------------------------- MODULE ProfilerProofs ---------------------------
(***************************************************************************)
(* Theorems about Profiler, for every set of processes and callers and     *)
(* every size of the ring, and about its monitor: it is a user of the      *)
(* device, so the theorems hold while it runs, and it prints the samples.  *)
(***************************************************************************)
EXTENDS Monitor, TLAPS

\* Nothing happened yet in a module that is not loaded.
Fresh ==
    mod \in {"absent", "failed"} =>
        list = <<>> /\ \A c \in Caller : call[c].op = "none"

\* A call names a process.
NamesProc == \A c \in Caller : call[c].op # "none" => call[c].pid \in Proc

\* Every object of the cache is on the list.
AllListed == live = Len(list)

\* There is room for the sample that is being stored.
RoomForSample == wpc = "store" => sampling_idx + 4 <= RingLen

\* The worker has the lock from the first process to the last store.
WorkLocked == wpc \in {"wrap", "store"} <=> lock = "work"

\* A workqueue with dwork on it is not destroyed yet, and the device is
\* closed before mp3_exit runs.
QueueAlive ==
    /\ dwork = "queued" => mod \in {"loaded", "flush"}
    /\ mod = "flush" => refs = 0

Listing == Fresh /\ NamesProc /\ AllListed
Worker  == RoomForSample /\ WorkLocked
Alive   == WorkAlive /\ RingAlive /\ QueueAlive

\* The inductive invariant.
IInv == TypeOK /\ Listing /\ Worker /\ Alive

\* Taking an entry off a list leaves a list that is one shorter.
LEMMA ShorterList ==
    ASSUME NEW S, NEW s \in Seq(S), NEW i \in DOMAIN s
    PROVE  /\ RemoveAt(s, i) \in Seq(S)
           /\ Len(RemoveAt(s, i)) = Len(s) - 1
           /\ Len(s) >= 1
<1>1. i \in 1 .. Len(s) /\ Len(s) \in Nat
  OBVIOUS
<1>2. /\ SubSeq(s, 1, i - 1) \in Seq(S)
      /\ SubSeq(s, i + 1, Len(s)) \in Seq(S)
      /\ Len(SubSeq(s, 1, i - 1)) = i - 1
      /\ Len(SubSeq(s, i + 1, Len(s))) = Len(s) - i
  BY <1>1
<1>3. ASSUME NEW a \in Seq(S), NEW b \in Seq(S)
      PROVE  a \o b \in Seq(S) /\ Len(a \o b) = Len(a) + Len(b)
  OBVIOUS
<1>4. RemoveAt(s, i) = SubSeq(s, 1, i - 1) \o SubSeq(s, i + 1, Len(s))
  BY DEF RemoveAt
<1>5. /\ RemoveAt(s, i) \in Seq(S)
      /\ Len(RemoveAt(s, i)) = (i - 1) + (Len(s) - i)
  BY <1>2, <1>3, <1>4
<1> QED
  BY <1>1, <1>5

\* The types of the variables are kept.
LEMMA TypeStep ==
    ASSUME TypeOK, Listing, Worker, [Next]_vars
    PROVE  TypeOK'
<1> USE ProfilerAssumption DEF TypeOK, None, Slot, RingLen, Column, EMPTY,
          Worker, RoomForSample
<1>1. CASE mp3_init
  BY <1>1 DEF mp3_init, vars, tasks, work, sampler, buffer, module
<1>2. CASE ExitCancel
  BY <1>2 DEF ExitCancel, vars, tasks, work, sampler, buffer, module
<1>3. CASE ExitDestroy
  <2>1. Len(list) \in Nat /\ live - Len(list) = 0
    BY DEF Listing, AllListed
  <2> QED
    BY <1>3, <2>1
     DEF ExitDestroy, vars, tasks, work, sampler, buffer, module
<1>4. CASE ExitRemove
  BY <1>4 DEF ExitRemove, vars, tasks, work, sampler, buffer, module
<1>5. CASE ExitFree
  BY <1>5 DEF ExitFree, vars, tasks, work, sampler, buffer, module
<1>6. CASE Tick
  BY <1>6 DEF Tick, vars, tasks, work, sampler, buffer, module
<1>7. CASE TimerExpires
  BY <1>7
     DEF TimerExpires, vars, tasks, work, sampler, buffer, module
<1>8. CASE WorkStart
  BY <1>8 DEF WorkStart, vars, tasks, work, sampler, buffer, module
<1>9. CASE WorkCheck
  BY <1>9 DEF WorkCheck, vars, tasks, work, sampler, buffer, module
<1>10. CASE WorkRequeue
  BY <1>10
     DEF WorkRequeue, queue_delayed_work, vars,
         tasks, work, sampler, buffer, module
<1>11. CASE WorkStamp
  BY <1>11 DEF WorkStamp, vars, tasks, work, sampler, buffer, module
<1>12. CASE WorkLock
  BY <1>12 DEF WorkLock, vars, tasks, work, sampler, buffer, module
<1>13. CASE WorkWrap
  BY <1>13 DEF WorkWrap, vars, tasks, work, sampler, buffer, module
<1>14. CASE WorkStore
  BY <1>14 DEF WorkStore, vars, tasks, work, sampler, buffer, module
<1>15. CASE WorkUnlock
  <2>1. PICK n \in 0 .. Samples : sampling_idx = 4 * n
    OBVIOUS
  <2>2. n + 1 \in 0 .. Samples /\ sampling_idx' = 4 * (n + 1)
    BY <1>15, <2>1 DEF WorkUnlock, Worker, RoomForSample, WorkLocked
  <2>3. sampling_idx' \in {4 * m : m \in 0 .. Samples}
    BY <2>2
  <2> QED
    BY <1>15, <2>3 DEF WorkUnlock, tasks, work
<1>16. CASE open_callback
  BY <1>16
     DEF open_callback, vars, tasks, work, sampler, buffer, module
<1>17. CASE release_callback
  BY <1>17
     DEF release_callback, vars, tasks, work, sampler, buffer, module
<1>18. ASSUME NEW i \in Slot, ClearLong(i) PROVE TypeOK'
  BY <1>18 DEF ClearLong, vars, tasks, work, sampler, buffer, module
<1>19. ASSUME NEW c \in Caller, Enter(c) PROVE TypeOK'
  BY <1>19 DEF Enter, vars, tasks, work, sampler, buffer, module
<1>20. ASSUME NEW c \in Caller, mp3_registration(c) PROVE TypeOK'
  <2>1. call[c].pid \in Proc
    BY <1>20 DEF mp3_registration, Listing, NamesProc
  <2>2. list' \in Seq(Proc) /\ live' \in Nat
    BY <1>20, <2>1 DEF mp3_registration
  <2>3. skipped' \in BOOLEAN
    BY <1>20, Zenon DEF mp3_registration
  <2>4. /\ dwork' \in {"idle", "timer", "queued"}
        /\ due' \in 0 .. Period
    BY <1>20 DEF mp3_registration, queue_delayed_work, work
  <2>5. call' \in [Caller -> [op : {"none", "R", "U", "read", "dead"},
                            pid : Proc \cup {NULL}]]
    BY <1>20 DEF mp3_registration, Return
  <2>6. UNCHANGED <<age, wpc, next, ring, sampling_idx,
                    refs, mod, lock>>
    BY <1>20 DEF mp3_registration, buffer, module
  <2> QED
    BY <2>2, <2>3, <2>4, <2>5, <2>6
<1>21. ASSUME NEW c \in Caller, RegistrationOops(c) PROVE TypeOK'
  BY <1>21
     DEF RegistrationOops, vars, tasks, work, sampler, buffer, module
<1>22. ASSUME NEW c \in Caller, RegistrationAfterDestroy(c) PROVE TypeOK'
  BY <1>22
     DEF RegistrationAfterDestroy, vars,
         tasks, work, sampler, buffer, module
<1>23. ASSUME NEW c \in Caller, mp3_unregistration(c) PROVE TypeOK'
  <2>1. ASSUME NEW i \in DOMAIN list
        PROVE  RemoveAt(list, i) \in Seq(Proc) /\ live - 1 \in Nat
    BY ShorterList DEF Listing, AllListed
  <2>2. list' \in Seq(Proc) /\ live' \in Nat
    BY <1>23, <2>1 DEF mp3_unregistration, Entries, tasks
  <2>3. call' \in [Caller -> [op : {"none", "R", "U", "read", "dead"},
                            pid : Proc \cup {NULL}]]
    BY <1>23 DEF mp3_unregistration, Return
  <2>4. UNCHANGED <<work, sampler, buffer, module>>
    BY <1>23 DEF mp3_unregistration
  <2> QED
    BY <2>2, <2>3, <2>4
       DEF vars, tasks, work, sampler, buffer, module
<1>24. ASSUME NEW c \in Caller, mp3_read(c) PROVE TypeOK'
  BY <1>24
     DEF mp3_read, Return, vars, tasks, work, sampler, buffer, module
<1>25. CASE UNCHANGED vars
  BY <1>25 DEF vars, tasks, work, sampler, buffer, module
<1> QED
  BY <1>1, <1>2, <1>3, <1>4, <1>5, <1>6, <1>7, <1>8, <1>9, <1>10, <1>11, <1>12,
     <1>13, <1>14, <1>15, <1>16, <1>17, <1>18, <1>19, <1>20, <1>21, <1>22,
     <1>23, <1>24, <1>25
     DEF Next, ModuleStep, DeviceStep, mp3_exit,
         mp3_work_function, CallStep

\* Calls and the list: what does not depend on the worker.
LEMMA ListStep ==
    ASSUME TypeOK, Listing, [Next]_vars
    PROVE  Listing'
<1> USE ProfilerAssumption DEF TypeOK, None, Slot, RingLen, Column, EMPTY,
          Listing, Fresh, NamesProc, AllListed
<1>1. CASE mp3_init
  BY <1>1 DEF mp3_init, vars, tasks, work, sampler, buffer, module
<1>2. CASE ExitCancel
  BY <1>2 DEF ExitCancel, vars, tasks, work, sampler, buffer, module
<1>3. CASE ExitDestroy
  BY <1>3 DEF ExitDestroy, vars, tasks, work, sampler, buffer, module
<1>4. CASE ExitRemove
  BY <1>4 DEF ExitRemove, vars, tasks, work, sampler, buffer, module
<1>5. CASE ExitFree
  BY <1>5 DEF ExitFree, vars, tasks, work, sampler, buffer, module
<1>6. CASE Tick
  BY <1>6 DEF Tick, vars, tasks, work, sampler, buffer, module
<1>7. CASE TimerExpires
  BY <1>7
     DEF TimerExpires, vars, tasks, work, sampler, buffer, module
<1>8. CASE WorkStart
  BY <1>8 DEF WorkStart, vars, tasks, work, sampler, buffer, module
<1>9. CASE WorkCheck
  BY <1>9 DEF WorkCheck, vars, tasks, work, sampler, buffer, module
<1>10. CASE WorkRequeue
  BY <1>10
     DEF WorkRequeue, queue_delayed_work, vars,
         tasks, work, sampler, buffer, module
<1>11. CASE WorkStamp
  BY <1>11 DEF WorkStamp, vars, tasks, work, sampler, buffer, module
<1>12. CASE WorkLock
  BY <1>12 DEF WorkLock, vars, tasks, work, sampler, buffer, module
<1>13. CASE WorkWrap
  BY <1>13 DEF WorkWrap, vars, tasks, work, sampler, buffer, module
<1>14. CASE WorkStore
  BY <1>14 DEF WorkStore, vars, tasks, work, sampler, buffer, module
<1>15. CASE WorkUnlock
  BY <1>15 DEF WorkUnlock, vars, tasks, work, sampler, buffer, module
<1>16. CASE open_callback
  BY <1>16
     DEF open_callback, vars, tasks, work, sampler, buffer, module
<1>17. CASE release_callback
  BY <1>17
     DEF release_callback, vars, tasks, work, sampler, buffer, module
<1>18. ASSUME NEW i \in Slot, ClearLong(i) PROVE Listing'
  BY <1>18 DEF ClearLong, vars, tasks, work, sampler, buffer, module
<1>19. ASSUME NEW c \in Caller, Enter(c) PROVE Listing'
  BY <1>19 DEF Enter, vars, tasks, work, sampler, buffer, module
<1>20. ASSUME NEW c \in Caller, mp3_registration(c) PROVE Listing'
  <2>1. AllListed' /\ mod \notin {"absent", "failed"}
    BY <1>20 DEF mp3_registration
  <2> QED
    BY <1>20, <2>1
     DEF mp3_registration, Return, vars,
         tasks, work, sampler, buffer, module
<1>21. ASSUME NEW c \in Caller, RegistrationOops(c) PROVE Listing'
  BY <1>21
     DEF RegistrationOops, vars, tasks, work, sampler, buffer, module
<1>22. ASSUME NEW c \in Caller, RegistrationAfterDestroy(c) PROVE Listing'
  BY <1>22
     DEF RegistrationAfterDestroy, vars,
         tasks, work, sampler, buffer, module
<1>23. ASSUME NEW c \in Caller, mp3_unregistration(c) PROVE Listing'
  <2>1. ASSUME NEW i \in DOMAIN list
        PROVE  Len(RemoveAt(list, i)) = Len(list) - 1
    BY ShorterList
  <2>2. AllListed'
    BY <1>23, <2>1 DEF mp3_unregistration, Entries, tasks
  <2>3. Fresh'
    BY <1>23
     DEF mp3_unregistration, Return, vars,
         tasks, work, sampler, buffer, module
  <2> QED
    BY <1>23, <2>2, <2>3 DEF mp3_unregistration, Return
<1>24. ASSUME NEW c \in Caller, mp3_read(c) PROVE Listing'
  BY <1>24
     DEF mp3_read, Return, vars, tasks, work, sampler, buffer, module
<1>25. CASE UNCHANGED vars
  BY <1>25 DEF vars, tasks, work, sampler, buffer, module
<1> QED
  BY <1>1, <1>2, <1>3, <1>4, <1>5, <1>6, <1>7, <1>8, <1>9, <1>10, <1>11, <1>12,
     <1>13, <1>14, <1>15, <1>16, <1>17, <1>18, <1>19, <1>20, <1>21, <1>22,
     <1>23, <1>24, <1>25
     DEF Next, ModuleStep, DeviceStep, mp3_exit,
         mp3_work_function, CallStep

\* Where the worker is, and the lock.
LEMMA WorkStep ==
    ASSUME TypeOK, Worker, [Next]_vars
    PROVE  Worker'
<1> USE ProfilerAssumption DEF TypeOK, None, Slot, RingLen, Column, EMPTY,
          Worker, RoomForSample, WorkLocked
<1>1. CASE mp3_init
  BY <1>1 DEF mp3_init, vars, tasks, work, sampler, buffer, module
<1>2. CASE ExitCancel
  BY <1>2 DEF ExitCancel, vars, tasks, work, sampler, buffer, module
<1>3. CASE ExitDestroy
  BY <1>3 DEF ExitDestroy, vars, tasks, work, sampler, buffer, module
<1>4. CASE ExitRemove
  BY <1>4 DEF ExitRemove, vars, tasks, work, sampler, buffer, module
<1>5. CASE ExitFree
  BY <1>5 DEF ExitFree, vars, tasks, work, sampler, buffer, module
<1>6. CASE Tick
  BY <1>6 DEF Tick, vars, tasks, work, sampler, buffer, module
<1>7. CASE TimerExpires
  BY <1>7
     DEF TimerExpires, vars, tasks, work, sampler, buffer, module
<1>8. CASE WorkStart
  BY <1>8 DEF WorkStart, vars, tasks, work, sampler, buffer, module
<1>9. CASE WorkCheck
  BY <1>9 DEF WorkCheck, vars, tasks, work, sampler, buffer, module
<1>10. CASE WorkRequeue
  BY <1>10
     DEF WorkRequeue, queue_delayed_work, vars,
         tasks, work, sampler, buffer, module
<1>11. CASE WorkStamp
  BY <1>11 DEF WorkStamp, vars, tasks, work, sampler, buffer, module
<1>12. CASE WorkLock
  BY <1>12 DEF WorkLock, vars, tasks, work, sampler, buffer, module
<1>13. CASE WorkWrap
  BY <1>13 DEF WorkWrap, vars, tasks, work, sampler, buffer, module
<1>14. CASE WorkStore
  BY <1>14 DEF WorkStore, vars, tasks, work, sampler, buffer, module
<1>15. CASE WorkUnlock
  BY <1>15 DEF WorkUnlock, vars, tasks, work, sampler, buffer, module
<1>16. CASE open_callback
  BY <1>16
     DEF open_callback, vars, tasks, work, sampler, buffer, module
<1>17. CASE release_callback
  BY <1>17
     DEF release_callback, vars, tasks, work, sampler, buffer, module
<1>18. ASSUME NEW i \in Slot, ClearLong(i) PROVE Worker'
  BY <1>18 DEF ClearLong, vars, tasks, work, sampler, buffer, module
<1>19. ASSUME NEW c \in Caller, Enter(c) PROVE Worker'
  BY <1>19 DEF Enter, vars, tasks, work, sampler, buffer, module
<1>20. ASSUME NEW c \in Caller, mp3_registration(c) PROVE Worker'
  BY <1>20
     DEF mp3_registration, queue_delayed_work, Return, vars,
         tasks, work, sampler, buffer, module
<1>21. ASSUME NEW c \in Caller, RegistrationOops(c) PROVE Worker'
  BY <1>21
     DEF RegistrationOops, vars, tasks, work, sampler, buffer, module
<1>22. ASSUME NEW c \in Caller, RegistrationAfterDestroy(c) PROVE Worker'
  BY <1>22
     DEF RegistrationAfterDestroy, vars,
         tasks, work, sampler, buffer, module
<1>23. ASSUME NEW c \in Caller, mp3_unregistration(c) PROVE Worker'
  BY <1>23
     DEF mp3_unregistration, Entries, Return, vars,
         tasks, work, sampler, buffer, module
<1>24. ASSUME NEW c \in Caller, mp3_read(c) PROVE Worker'
  BY <1>24
     DEF mp3_read, Return, vars, tasks, work, sampler, buffer, module
<1>25. CASE UNCHANGED vars
  BY <1>25 DEF vars, tasks, work, sampler, buffer, module
<1> QED
  BY <1>1, <1>2, <1>3, <1>4, <1>5, <1>6, <1>7, <1>8, <1>9, <1>10, <1>11, <1>12,
     <1>13, <1>14, <1>15, <1>16, <1>17, <1>18, <1>19, <1>20, <1>21, <1>22,
     <1>23, <1>24, <1>25
     DEF Next, ModuleStep, DeviceStep, mp3_exit,
         mp3_work_function, CallStep

\* The chain of samples and the life of the ring.
LEMMA AliveStep ==
    ASSUME TypeOK, Listing, Alive, [Next]_vars
    PROVE  Alive'
<1> USE ProfilerAssumption DEF TypeOK, None, Slot, RingLen, Column, EMPTY,
          Listing, Fresh, Alive, WorkAlive, RingAlive, QueueAlive, Running
<1>1. CASE mp3_init
  BY <1>1 DEF mp3_init, vars, tasks, work, sampler, buffer, module
<1>2. CASE ExitCancel
  BY <1>2 DEF ExitCancel, vars, tasks, work, sampler, buffer, module
<1>3. CASE ExitDestroy
  BY <1>3 DEF ExitDestroy, vars, tasks, work, sampler, buffer, module
<1>4. CASE ExitRemove
  BY <1>4 DEF ExitRemove, vars, tasks, work, sampler, buffer, module
<1>5. CASE ExitFree
  BY <1>5 DEF ExitFree, vars, tasks, work, sampler, buffer, module
<1>6. CASE Tick
  BY <1>6 DEF Tick, vars, tasks, work, sampler, buffer, module
<1>7. CASE TimerExpires
  BY <1>7
     DEF TimerExpires, vars, tasks, work, sampler, buffer, module
<1>8. CASE WorkStart
  BY <1>8 DEF WorkStart, vars, tasks, work, sampler, buffer, module
<1>9. CASE WorkCheck
  BY <1>9 DEF WorkCheck, vars, tasks, work, sampler, buffer, module
<1>10. CASE WorkRequeue
  BY <1>10
     DEF WorkRequeue, queue_delayed_work, vars,
         tasks, work, sampler, buffer, module
<1>11. CASE WorkStamp
  BY <1>11 DEF WorkStamp, vars, tasks, work, sampler, buffer, module
<1>12. CASE WorkLock
  BY <1>12 DEF WorkLock, vars, tasks, work, sampler, buffer, module
<1>13. CASE WorkWrap
  BY <1>13 DEF WorkWrap, vars, tasks, work, sampler, buffer, module
<1>14. CASE WorkStore
  BY <1>14 DEF WorkStore, vars, tasks, work, sampler, buffer, module
<1>15. CASE WorkUnlock
  BY <1>15 DEF WorkUnlock, vars, tasks, work, sampler, buffer, module
<1>16. CASE open_callback
  BY <1>16
     DEF open_callback, vars, tasks, work, sampler, buffer, module
<1>17. CASE release_callback
  BY <1>17
     DEF release_callback, vars, tasks, work, sampler, buffer, module
<1>18. ASSUME NEW i \in Slot, ClearLong(i) PROVE Alive'
  BY <1>18 DEF ClearLong, vars, tasks, work, sampler, buffer, module
<1>19. ASSUME NEW c \in Caller, Enter(c) PROVE Alive'
  BY <1>19 DEF Enter, vars, tasks, work, sampler, buffer, module
<1>20. ASSUME NEW c \in Caller, mp3_registration(c) PROVE Alive'
  BY <1>20
     DEF mp3_registration, queue_delayed_work, Return, vars,
         tasks, work, sampler, buffer, module
<1>21. ASSUME NEW c \in Caller, RegistrationOops(c) PROVE Alive'
  BY <1>21
     DEF RegistrationOops, vars, tasks, work, sampler, buffer, module
<1>22. ASSUME NEW c \in Caller, RegistrationAfterDestroy(c) PROVE Alive'
  BY <1>22
     DEF RegistrationAfterDestroy, vars,
         tasks, work, sampler, buffer, module
<1>23. ASSUME NEW c \in Caller, mp3_unregistration(c) PROVE Alive'
  BY <1>23
     DEF mp3_unregistration, Entries, Return, vars,
         tasks, work, sampler, buffer, module
<1>24. ASSUME NEW c \in Caller, mp3_read(c) PROVE Alive'
  BY <1>24
     DEF mp3_read, Return, vars, tasks, work, sampler, buffer, module
<1>25. CASE UNCHANGED vars
  BY <1>25 DEF vars, tasks, work, sampler, buffer, module
<1> QED
  BY <1>1, <1>2, <1>3, <1>4, <1>5, <1>6, <1>7, <1>8, <1>9, <1>10, <1>11, <1>12,
     <1>13, <1>14, <1>15, <1>16, <1>17, <1>18, <1>19, <1>20, <1>21, <1>22,
     <1>23, <1>24, <1>25
     DEF Next, ModuleStep, DeviceStep, mp3_exit,
         mp3_work_function, CallStep

\* The invariant holds when the module is not loaded.
LEMMA InitIInv == Init => IInv
<1> SUFFICES ASSUME Init PROVE IInv
  OBVIOUS
<1>1. TypeOK
  <2>1. sampling_idx = 4 * 0 /\ 0 \in 0 .. Samples
    BY ProfilerAssumption DEF Init
  <2>2. sampling_idx \in {4 * n : n \in 0 .. Samples}
    BY <2>1
  <2>3. skipped \in BOOLEAN
    BY Zenon DEF Init
  <2> QED
    BY <2>2, <2>3, ProfilerAssumption
       DEF Init, TypeOK, None, Slot, RingLen, Column, EMPTY
<1>2. Listing
  BY DEF Init, Listing, Fresh, NamesProc, AllListed, None
<1>3. Worker
  BY DEF Init, Worker, RoomForSample, WorkLocked
<1>4. Alive
  BY DEF Init, Alive, WorkAlive, RingAlive, QueueAlive
<1> QED
  BY <1>1, <1>2, <1>3, <1>4 DEF IInv

\* Every step keeps the invariant.
LEMMA NextIInv == IInv /\ [Next]_vars => IInv'
  BY TypeStep, ListStep, WorkStep, AliveStep DEF IInv

\* The inductive invariant of the profiler module.
LEMMA SpecIInv == Spec => []IInv
  BY InitIInv, NextIInv, PTL DEF Spec

\* Types: the index of the ring is a multiple of four inside it, or its end,
\* whatever the worker, the callbacks and the monitor do to it (mp3.c:171).
THEOREM ProfilerTypeCorrect == Spec => []TypeOK
<1>1. IInv => TypeOK
  BY DEF IInv
<1> QED
  BY <1>1, SpecIInv, PTL

\* The chain of samples is not cut while a process is registered, except by
\* a run that comes too soon (mp3.c:142), for any number of callers.
THEOREM ChainAlive == Spec => []WorkAlive
<1>1. IInv => WorkAlive
  BY DEF IInv, Alive
<1> QED
  BY <1>1, SpecIInv, PTL

\* The ring and the workqueue outlive every run of the work and every mapping
\* of a monitor (mp3.c:544).
THEOREM RingStays == Spec => []RingAlive
<1>1. IInv => RingAlive
  BY DEF IInv, Alive
<1> QED
  BY <1>1, SpecIInv, PTL

\* mp3_exit leaves no object in the cache it destroys (mp3.c:573).
THEOREM CacheEmpty == Spec => CacheEmptyAtDestroy
<1>1. IInv /\ [Next]_vars
        => [mod = "flush" /\ mod' = "teardown" => live' = 0]_vars
  <2> SUFFICES ASSUME IInv, Next, mod = "flush", mod' = "teardown"
               PROVE  live' = 0
    OBVIOUS
  <2>1. ExitDestroy
    BY DEF Next, ModuleStep, DeviceStep, mp3_exit, mp3_work_function, CallStep,
       mp3_init, ExitCancel, ExitRemove, ExitFree, Tick, TimerExpires,
       WorkStart, WorkCheck, WorkRequeue, WorkStamp, WorkLock, 
       WorkWrap, WorkStore, WorkUnlock, open_callback,
       release_callback, ClearLong, Enter, mp3_registration,
       RegistrationOops, RegistrationAfterDestroy, mp3_unregistration,
       mp3_read, module
  <2>2. live = Len(list) /\ Len(list) \in Nat
    BY DEF IInv, Listing, AllListed, TypeOK
  <2> QED
    BY <2>1, <2>2 DEF ExitDestroy
<1> QED
  BY <1>1, SpecIInv, PTL DEF Spec, CacheEmptyAtDestroy
-----------------------------------------------------------------------------
(* The monitor is a user of the device.                                    *)

MonTyped ==
    /\ mpc \in {"off", "search", "while", "print", "clear"}
    /\ index \in 0 .. BufdMax /\ column \in Column
    /\ found \in BOOLEAN /\ overlap \in BOOLEAN

\* The index of the monitor stays within the ring, which is longer than BUFD_MAX.
LEMMA MonTypedStep == MonTyped /\ [MonNext]_monVars => MonTyped'
<1> SUFFICES ASSUME MonTyped, [MonNext]_monVars PROVE MonTyped'
  OBVIOUS
<1> USE DEF MonTyped
<1>0. BufdMax \in Nat /\ 0 < BufdMax
  BY MonitorAssumption, ProfilerAssumption
<1>1. overlap' \in BOOLEAN
  BY DEF MonNext, monVars
<1>2. CASE buf_init
  BY <1>1, <1>2 DEF buf_init
<1>3. CASE Search
  <2>1. (index < BufdMax) \in BOOLEAN
    OBVIOUS
  <2>2. found' \in BOOLEAN
    BY <1>3, <2>1, Zenon DEF Search
  <2>3. index' \in 0 .. BufdMax
    BY <1>0, <1>3 DEF Search
  <2>4. mpc' \in {"search", "while"} /\ column' = column
    BY <1>3 DEF Search
  <2> QED
    BY <1>1, <2>2, <2>3, <2>4
<1>4. CASE BeginRow
  BY <1>1, <1>4 DEF BeginRow, Column
<1>5. CASE PrintValue
  BY <1>1, <1>5 DEF PrintValue
<1>6. CASE ClearValue
  BY <1>0, <1>1, <1>6 DEF ClearValue, Column
<1>7. CASE buf_exit
  <2>1. found' \in BOOLEAN
    BY <1>7, Zenon DEF buf_exit
  <2>2. mpc' = "off" /\ index' = 0 /\ column' = 1
    BY <1>7 DEF buf_exit
  <2> QED
    BY <1>0, <1>1, <2>1, <2>2 DEF Column
<1>8. CASE UNCHANGED observed
  BY <1>1, <1>8 DEF observed
<1> QED
  BY <1>2, <1>3, <1>4, <1>5, <1>6, <1>7, <1>8 DEF MonNext, main, monVars

\* What the monitor does to the ring and to the device, every user may do.
LEMMA MonStep == MonTyped /\ [MonNext]_monVars => [Next]_vars
<1> SUFFICES ASSUME MonTyped, [MonNext]_monVars PROVE [Next]_vars
  OBVIOUS
<1>1. index \in Slot
  BY MonitorAssumption, ProfilerAssumption DEF MonTyped, Slot, RingLen
<1>2. ASSUME Running, main PROVE [Next]_vars
  <2>1. CASE buf_init
    BY <1>2, <2>1 DEF buf_init, Next, DeviceStep
  <2>2. CASE Search \/ BeginRow \/ PrintValue
    BY <2>2 DEF Search, BeginRow, PrintValue
  <2>3. CASE ClearValue
    BY <1>1, <1>2, <2>3 DEF ClearValue, Next, DeviceStep
  <2>4. CASE buf_exit
    BY <1>2, <2>4 DEF buf_exit, Next, DeviceStep
  <2> QED
    BY <1>2, <2>1, <2>2, <2>3, <2>4 DEF main
<1>3. CASE UNCHANGED monVars
  BY <1>3 DEF monVars
<1> QED
  BY <1>2, <1>3 DEF MonNext, Next

\* The types of the monitor's own variables.
LEMMA MonTypedHolds == MonSpec => []MonTyped
<1>1. MonInit => MonTyped
  <2>1. 0 \in 0 .. BufdMax
    BY MonitorAssumption, ProfilerAssumption
  <2>2. MonInit => found \in BOOLEAN /\ overlap \in BOOLEAN
    BY Zenon DEF MonInit
  <2>3. MonInit => mpc = "off" /\ index = 0 /\ column = 1
    BY DEF MonInit
  <2> QED
    BY <2>1, <2>2, <2>3 DEF MonTyped, Column
<1> QED
  BY <1>1, MonTypedStep, PTL DEF MonSpec

\* A monitor is a user of the device like any other: every behaviour of Monitor
\* is one of Profiler, so what holds of the module holds under a monitor.
THEOREM MonitorImplementsProfiler == MonSpec => Spec
<1>1. MonInit => Init
  BY DEF MonInit
<1> QED
  BY <1>1, MonStep, MonTypedHolds, PTL DEF MonSpec, Spec

\* The monitor's index stays within the ring and what it prints is a column of
\* a sample or -1.
THEOREM MonitorTypeCorrect == MonSpec => []MonTypeOK
<1> DEFINE P == printed \in Column \cup {EMPTY}
<1>1. MonInit => P
  BY DEF MonInit
<1>2. TypeOK /\ MonTyped /\ P /\ [MonNext]_monVars => P'
  <2> SUFFICES ASSUME TypeOK, MonTyped, P, [MonNext]_monVars PROVE P'
    OBVIOUS
  <2>1. CASE PrintValue
    <3>1. index \in Slot
      BY MonitorAssumption, ProfilerAssumption DEF MonTyped, Slot, RingLen
    <3> QED
      BY <2>1, <3>1 DEF PrintValue, TypeOK
  <2>2. CASE ~ PrintValue
    BY <2>2 DEF MonNext, main, buf_init, Search, BeginRow, ClearValue, buf_exit,
                observed, monVars
  <2> QED
    BY <2>1, <2>2
<1>3. TypeOK /\ MonTyped /\ P => MonTypeOK
  BY DEF MonTyped, MonTypeOK
<1> QED
  BY <1>1, <1>2, <1>3, MonTypedHolds, MonitorImplementsProfiler,
     ProfilerTypeCorrect, PTL DEF MonSpec

-----------------------------------------------------------------------------
(* The rows of a monitor.                                                  *)

\* Column k of row n.
Long(n, k) == ring[4 * n + k - 1]

\* Every long holds its column or nothing.
InColumns ==
    \A n \in 0 .. Samples - 1, k \in Column : Long(n, k) \in {k, EMPTY}

\* The rows a monitor comes to when its search finds something.
Row == {n \in 0 .. Samples - 1 : 4 * n < BufdMax}

Full(n)     == \A k \in Column : Long(n, k) # EMPTY
Blank(n)    == \A k \in Column : Long(n, k) = EMPTY
Storing(n)  == wpc = "store" /\ sampling_idx = 4 * n
Printing(n) == /\ mpc \in {"print", "clear"} /\ found
               /\ index = 4 * n + column - 1

\* The search has found nothing so far.
NothingBelow(i) == \A j \in 0 .. i - 1 : ring[j] = EMPTY

\* A row is stored, printed, full or blank, as long as nobody else is there.
RowsWhole == \A n \in Row : Storing(n) \/ Printing(n) \/ Full(n) \/ Blank(n)

\* The work has stored the longs of its sample before the column it is at.
StoreGoesOn ==
    wpc = "store" => \A k \in 1 .. next - 1 : ring[sampling_idx + k - 1] # EMPTY

\* The monitor is at the beginning of a row, or has printed and cleared the
\* longs of its row before the column it is at.
RowGoesOn ==
    /\ mpc = "while" => \E n \in Row : index = 4 * n
    /\ mpc \in {"print", "clear"} =>
          \E n \in Row :
             /\ index = 4 * n + column - 1
             /\ \A k \in Column : Long(n, k) = EMPTY <=> k < column
    /\ mpc = "clear" => printed = column

\* The work and the monitor have not met.
Quiet ==
    /\ mpc = "off" \/ wpc # "store"
    /\ RowsWhole /\ StoreGoesOn
    /\ mpc = "search" => NothingBelow(index)
    /\ mpc \in {"while", "print", "clear"} =>
          IF found THEN RowGoesOn ELSE NothingBelow(BufdMax)

\* What holds between a store of the work and an access of the monitor.
MonInv ==
    /\ InColumns
    /\ wpc # "store" => next = 1
    /\ mpc = "off" => index = 0
    /\ mpc \in {"off", "search"} => ~ found
    /\ ~ overlap => Quiet

\* Rows, columns and longs.
LEMMA Geometry ==
    /\ Samples \in Nat \ {0} /\ BufdMax \in Nat \ {0}
    /\ \A n \in Row : n \in 0 .. Samples - 1 /\ 4 * n + 4 <= BufdMax
    /\ \A n \in 0 .. Samples - 1, k \in Column : 4 * n + k - 1 \in Slot
    /\ \A i \in 0 .. BufdMax - 1 : \E n \in Row, k \in Column : i = 4 * n + k - 1
    /\ 0 .. BufdMax \subseteq Slot
<1>1. PICK m \in 1 .. Samples - 1 : BufdMax = 4 * m
  BY MonitorAssumption
<1>2. Samples \in Nat \ {0} /\ m \in Nat \ {0}
  BY ProfilerAssumption, <1>1
<1>3. \A n \in Row : n \in 0 .. Samples - 1 /\ 4 * n + 4 <= BufdMax
  BY <1>1, <1>2 DEF Row
<1>4. \A n \in 0 .. Samples - 1, k \in Column : 4 * n + k - 1 \in Slot
  BY <1>2 DEF Slot, RingLen, Column
<1>5. ASSUME NEW i \in 0 .. BufdMax - 1
      PROVE  \E n \in Row, k \in Column : i = 4 * n + k - 1
  <2> DEFINE n == i \div 4
            k == (i % 4) + 1
  <2>1. i = 4 * n + k - 1 /\ k \in Column /\ n \in Int
    BY DEF Column
  <2>2. n \in 0 .. Samples - 1 /\ 4 * n < BufdMax
    BY <1>1, <1>2
  <2> QED
    BY <2>1, <2>2 DEF Row
<1>6. 0 .. BufdMax \subseteq Slot
  BY <1>1, <1>2 DEF Slot, RingLen
<1> QED
  BY <1>1, <1>2, <1>3, <1>4, <1>5, <1>6

\* A long is one column of one row.
LEMMA OneLong ==
    ASSUME NEW n \in 0 .. Samples - 1, NEW m \in 0 .. Samples - 1,
           NEW k \in Column, NEW j \in Column
    PROVE  4 * n + k - 1 = 4 * m + j - 1 <=> n = m /\ k = j
  BY Geometry DEF Column

\* To store in a long changes one column of one row.
LEMMA StoreLong ==
    ASSUME NEW m \in 0 .. Samples - 1, NEW j \in Column, NEW v,
           \A i \in Slot : ring'[i] = IF i = 4 * m + j - 1 THEN v ELSE ring[i]
    PROVE  \A n \in 0 .. Samples - 1, k \in Column :
              Long(n, k)' = IF n = m /\ k = j THEN v ELSE Long(n, k)
<1> SUFFICES ASSUME NEW n \in 0 .. Samples - 1, NEW k \in Column
             PROVE  Long(n, k)' = IF n = m /\ k = j THEN v ELSE Long(n, k)
  OBVIOUS
<1>1. 4 * n + k - 1 \in Slot
  BY Geometry
<1>2. 4 * n + k - 1 = 4 * m + j - 1 <=> n = m /\ k = j
  BY OneLong
<1> QED
  BY <1>1, <1>2 DEF Long

\* A step that is nobody's store.
LEMMA Calm ==
    ASSUME MonInv, MonTyped, wpc' = "store" <=> wpc = "store",
           UNCHANGED <<ring, sampling_idx, next, observed>>,
           ~ overlap' => ~ overlap
    PROVE  MonInv'
  BY DEF MonInv, InColumns, Quiet, RowsWhole, StoreGoesOn, RowGoesOn, NothingBelow,
         Long, Row, Full, Blank, Storing, Printing, observed
\* The work begins to store in a row of its own.
LEMMA WrapQuiet ==
    ASSUME TypeOK, MonTyped, MonInv, WorkWrap, UNCHANGED observed,
           overlap' = (overlap \/ (mpc' # "off" /\ wpc' = "store"))
    PROVE  MonInv'
<1>1. /\ wpc = "wrap" /\ wpc' = "store" /\ next = 1 /\ next' = 1 /\ ring' = ring
      /\ mpc' = mpc /\ index' = index /\ found' = found
  BY DEF WorkWrap, MonInv, observed
<1>2. InColumns'
  BY <1>1 DEF MonInv, InColumns, Long
<1>3. ASSUME ~ overlap' PROVE Quiet'
  <2>1. Quiet /\ mpc = "off"
    BY <1>1, <1>3 DEF MonInv
  <2>2. RowsWhole'
    BY <1>1, <2>1
    DEF Quiet, RowsWhole, Row, Storing, Printing, Full, Blank, Long
  <2>3. StoreGoesOn'
    BY <1>1 DEF StoreGoesOn
  <2> QED
    BY <1>1, <2>1, <2>2, <2>3 DEF Quiet
<1> QED
  BY <1>1, <1>2, <1>3 DEF MonInv

\* The work stores a long of its sample.
LEMMA StoreQuiet ==
    ASSUME TypeOK, Worker, MonTyped, MonInv, WorkStore, UNCHANGED observed,
           overlap' = (overlap \/ (mpc' # "off" /\ wpc' = "store"))
    PROVE  MonInv'
<1>1. /\ wpc = "store" /\ wpc' = "store" /\ next \in Column /\ next' = next + 1
      /\ mpc' = mpc /\ index' = index /\ found' = found
      /\ sampling_idx' = sampling_idx
  BY DEF WorkStore, observed, TypeOK, Column
<1>2. PICK m \in 0 .. Samples - 1 : sampling_idx = 4 * m
  <2>1. PICK m \in 0 .. Samples : sampling_idx = 4 * m
    BY DEF TypeOK
  <2>2. 4 * m + 4 <= 4 * Samples
    BY <1>1, <2>1 DEF Worker, RoomForSample, RingLen
  <2> QED
    BY <2>1, <2>2, Geometry
<1>3. ring' = [ring EXCEPT ![4 * m + next - 1] = next]
  BY <1>2 DEF WorkStore
<1>4. \A n \in 0 .. Samples - 1, k \in Column :
         Long(n, k)' = IF n = m /\ k = next THEN next ELSE Long(n, k)
  <2>1. PICK j \in Column : j = next
    BY <1>1
  <2>2. \A i \in Slot : ring'[i] = IF i = 4 * m + j - 1 THEN j ELSE ring[i]
    BY <1>3, <2>1 DEF TypeOK
  <2>3. \A n \in 0 .. Samples - 1, k \in Column :
           Long(n, k)' = IF n = m /\ k = j THEN j ELSE Long(n, k)
    BY <2>2, StoreLong DEF Long
  <2> QED
    BY <2>1, <2>3
<1>5. InColumns'
  BY <1>4 DEF MonInv, InColumns
<1>6. ASSUME ~ overlap' PROVE Quiet'
  <2>1. Quiet /\ mpc = "off"
    BY <1>1, <1>6 DEF MonInv
  <2>2. RowsWhole'
    <3> SUFFICES ASSUME NEW n \in Row, n # m
                 PROVE  Full(n)' \/ Blank(n)'
      BY <1>1, <1>2 DEF RowsWhole, Storing, Row
    <3>1. n \in 0 .. Samples - 1
      BY Geometry
    <3>2. Full(n) \/ Blank(n)
      BY <2>1, <1>2, <3>1, Geometry DEF Quiet, RowsWhole, Storing, Printing
    <3>3. \A k \in Column : Long(n, k)' = Long(n, k)
      BY <1>4, <3>1
    <3> QED
      BY <3>2, <3>3 DEF Full, Blank
  <2>3. StoreGoesOn'
    <3> SUFFICES ASSUME NEW k \in 1 .. next
                 PROVE  ring'[4 * m + k - 1] # EMPTY
      BY <1>1, <1>2 DEF StoreGoesOn, Column
    <3>1. k \in Column
      BY <1>1 DEF Column
    <3>2. k # next => Long(m, k) # EMPTY
      <4>1. k # next => k \in 1 .. next - 1
        BY <1>1 DEF Column
      <4> QED
        BY <1>1, <1>2, <2>1, <4>1 DEF Quiet, StoreGoesOn, Long
    <3>3. Long(m, k)' # EMPTY
      BY <1>1, <1>4, <3>1, <3>2 DEF Column, EMPTY
    <3> QED
      BY <3>3 DEF Long
  <2> QED
    BY <1>1, <2>1, <2>2, <2>3 DEF Quiet
<1> QED
  BY <1>1, <1>5, <1>6 DEF MonInv

\* The work has stored a whole sample.
LEMMA UnlockQuiet ==
    ASSUME TypeOK, Worker, MonTyped, MonInv, WorkUnlock, UNCHANGED observed,
           overlap' = (overlap \/ (mpc' # "off" /\ wpc' = "store"))
    PROVE  MonInv'
<1>1. /\ wpc = "store" /\ wpc' = "idle" /\ next = 5 /\ next' = 1 /\ ring' = ring
      /\ mpc' = mpc /\ index' = index /\ found' = found
  BY DEF WorkUnlock, observed
<1>2. InColumns'
  BY <1>1 DEF MonInv, InColumns, Long
<1>3. ASSUME ~ overlap' PROVE Quiet'
  <2>1. Quiet /\ mpc = "off"
    BY <1>1, <1>3 DEF MonInv, Quiet
  <2>2. RowsWhole'
    <3> SUFFICES ASSUME NEW n \in Row
                 PROVE  Full(n) \/ Blank(n)
      BY <1>1 DEF RowsWhole, Row, Full, Blank, Long
    <3>1. CASE Storing(n)
      <4>1. \A k \in Column : k \in 1 .. next - 1
        BY <1>1 DEF Column
      <4> QED
        BY <1>1, <2>1, <3>1, <4>1 DEF Quiet, StoreGoesOn, Storing, Full, Long
    <3>2. CASE ~ Storing(n)
      BY <2>1, <3>2 DEF Quiet, RowsWhole, Printing
    <3> QED
      BY <3>1, <3>2
  <2>3. StoreGoesOn'
    BY <1>1 DEF StoreGoesOn
  <2> QED
    BY <1>1, <2>1, <2>2, <2>3 DEF Quiet
<1> QED
  BY <1>1, <1>2, <1>3 DEF MonInv

\* What the module does while the monitor waits.
LEMMA ModuleQuiet ==
    ASSUME TypeOK, Worker, MonTyped, MonInv, ModuleStep, UNCHANGED observed,
           overlap' = (overlap \/ (mpc' # "off" /\ wpc' = "store"))
    PROVE  MonInv'
<1>1. CASE WorkWrap \/ WorkStore \/ WorkUnlock
  BY <1>1, WrapQuiet, StoreQuiet, UnlockQuiet
<1>2. CASE ~ (WorkWrap \/ WorkStore \/ WorkUnlock)
  <2>1. /\ UNCHANGED <<ring, sampling_idx, next>>
        /\ wpc' = "store" <=> wpc = "store"
    BY <1>2 DEF ModuleStep, mp3_exit, mp3_work_function, CallStep,
       mp3_init, ExitCancel, ExitDestroy, ExitRemove, ExitFree, Tick, TimerExpires,
       WorkStart, WorkCheck, WorkRequeue, WorkStamp, WorkLock, Enter,
       mp3_registration, RegistrationOops, RegistrationAfterDestroy,
       mp3_unregistration, mp3_read, buffer, sampler
  <2>2. ~ overlap' => ~ overlap
    OBVIOUS
  <2> QED
    BY <2>1, <2>2, Calm
<1> QED
  BY <1>1, <1>2
\* The monitor begins, and searches.
LEMMA SearchQuiet ==
    ASSUME MonTyped, MonInv, buf_init \/ Search,
           overlap' = (overlap \/ (mpc' # "off" /\ wpc' = "store"))
    PROVE  MonInv'
<1>1. UNCHANGED <<ring, sampling_idx, next, wpc, column>>
  BY DEF buf_init, open_callback, Search, vars, buffer, sampler
<1>2. InColumns' /\ (wpc' # "store" => next' = 1)
  BY <1>1 DEF MonInv, InColumns, Long
<1>3. /\ mpc \in {"off", "search"} /\ mpc' \in {"search", "while"} /\ ~ found
      /\ mpc' = "search" => ~ found'
  BY DEF buf_init, Search, MonInv
<1>4. ASSUME ~ overlap' PROVE Quiet'
  <2>1. Quiet /\ wpc' # "store" /\ wpc # "store"
    BY <1>1, <1>3, <1>4 DEF MonInv
  <2>2. \A n \in Row : Full(n) \/ Blank(n)
    BY <1>3, <2>1 DEF Quiet, RowsWhole, Storing, Printing
  <2>3. RowsWhole' /\ StoreGoesOn'
    BY <1>1, <2>1, <2>2 DEF RowsWhole, StoreGoesOn, Row, Full, Blank, Long
  <2>4. CASE buf_init
    <3>1. index' = 0 /\ mpc' = "search"
      BY <2>4 DEF buf_init, MonInv
    <3>2. NothingBelow(index)'
      BY <3>1 DEF NothingBelow
    <3> QED
      BY <2>1, <2>3, <3>1, <3>2 DEF Quiet
  <2>5. CASE Search
    <3>1. NothingBelow(index) /\ index \in Nat
      BY <2>1, <2>5 DEF Quiet, Search, MonTyped
    <3>2. CASE ring[index] = EMPTY /\ index' = index + 1 /\ mpc' = mpc
      <4>1. NothingBelow(index)'
        BY <1>1, <3>1, <3>2 DEF NothingBelow
      <4> QED
        BY <1>3, <2>1, <2>3, <2>5, <3>2, <4>1 DEF Quiet, Search
    <3>3. CASE mpc' = "while" /\ index = BufdMax /\ index' = index /\ ~ found'
      <4>1. NothingBelow(BufdMax)'
        BY <1>1, <3>1, <3>3 DEF NothingBelow
      <4> QED
        BY <2>1, <2>3, <3>3, <4>1 DEF Quiet
    <3>4. CASE /\ mpc' = "while" /\ index < BufdMax /\ ring[index] # EMPTY
               /\ index' = index /\ found'
      <4>1. PICK n \in Row, k \in Column : index = 4 * n + k - 1
        BY <3>1, <3>4, Geometry
      <4>2. Full(n)
        BY <2>2, <3>4, <4>1 DEF Blank, Long
      <4>3. k = 1
        <5> SUFFICES ASSUME k \in 2 .. 4 PROVE FALSE
          BY DEF Column
        <5>1. 4 * n \in 0 .. index - 1 /\ 4 * n + 1 - 1 = 4 * n
          BY <4>1, Geometry
        <5>2. Long(n, 1) = EMPTY
          BY <3>1, <5>1 DEF NothingBelow, Long
        <5> QED
          BY <4>2, <5>2 DEF Full, Column
      <4>4. index' = 4 * n /\ n \in Row'
        BY <1>1, <3>4, <4>1, <4>3, Geometry DEF Row
      <4>5. RowGoesOn'
        BY <3>4, <4>4 DEF RowGoesOn
      <4> QED
        BY <2>1, <2>3, <3>4, <4>5 DEF Quiet
    <3>5. index = BufdMax \/ index < BufdMax
      BY <3>1, Geometry DEF MonTyped
    <3>6. CASE mpc' = "while"
      <4>1. /\ found' = (index < BufdMax) /\ index' = index
            /\ index = BufdMax \/ ring[index] # EMPTY
        BY <2>5, <3>6 DEF Search
      <4>2. found' <=> index < BufdMax
        BY <4>1, Zenon
      <4>3. index = BufdMax => ~ (index < BufdMax)
        BY Geometry
      <4> QED
        BY <3>3, <3>4, <3>5, <3>6, <4>1, <4>2, <4>3, Zenon
    <3> QED
      BY <2>5, <3>2, <3>6 DEF Search
  <2> QED
    BY <2>4, <2>5
<1>5. mpc' # "off" /\ (mpc' = "search" => ~ found')
  BY <1>3
<1> QED
  BY <1>2, <1>4, <1>5 DEF MonInv

\* The monitor begins a row, prints a value of it, and ends.
LEMMA PrintQuiet ==
    ASSUME MonTyped, MonInv, BeginRow \/ PrintValue \/ buf_exit,
           overlap' = (overlap \/ (mpc' # "off" /\ wpc' = "store"))
    PROVE  MonInv'
<1>1. UNCHANGED <<ring, sampling_idx, next, wpc>>
  BY DEF BeginRow, PrintValue, buf_exit, release_callback, vars, buffer, sampler
<1>2. InColumns' /\ (wpc' # "store" => next' = 1)
  BY <1>1 DEF MonInv, InColumns, Long
<1>3. /\ mpc' = "off" => index' = 0
      /\ mpc' \in {"off", "search"} => ~ found'
  BY DEF BeginRow, PrintValue, buf_exit
<1>4. ASSUME ~ overlap' PROVE Quiet'
  <2>1. Quiet /\ wpc # "store" /\ mpc # "off"
    BY <1>1, <1>4 DEF MonInv, Quiet, BeginRow, PrintValue, buf_exit
  <2>2. StoreGoesOn'
    BY <1>1, <2>1 DEF StoreGoesOn
  <2>3. CASE BeginRow
    <3>1. /\ mpc = "while" /\ mpc' = "print" /\ column' = 1 /\ ring[index] # EMPTY
          /\ index' = index /\ found' = found
      BY <2>3 DEF BeginRow
    <3>2. \A n \in Row : Full(n) \/ Blank(n)
      BY <2>1, <3>1 DEF Quiet, RowsWhole, Storing, Printing
    <3>3. RowsWhole'
      BY <1>1, <3>2 DEF RowsWhole, Row, Full, Blank, Long
    <3>4. CASE ~ found
      <4>1. NothingBelow(BufdMax) /\ NothingBelow(BufdMax)'
        BY <1>1, <2>1, <3>1, <3>4 DEF Quiet, NothingBelow
      <4> QED
        BY <1>1, <2>1, <2>2, <3>1, <3>3, <3>4, <4>1 DEF Quiet
    <3>5. CASE found
      <4>1. PICK n \in Row : index = 4 * n
        BY <2>1, <3>1, <3>5 DEF Quiet, RowGoesOn
      <4>2. 4 * n + 1 - 1 = 4 * n
        BY Geometry
      <4>3. Full(n)
        BY <3>1, <3>2, <4>1, <4>2 DEF Blank, Long, Column
      <4>4. \A k \in Column : Long(n, k)' = EMPTY <=> k < column'
        BY <1>1, <3>1, <4>3 DEF Full, Long, Column
      <4>5. index' = 4 * n + column' - 1
        BY <3>1, <4>1, <4>2
      <4>6. RowGoesOn'
        BY <3>1, <4>4, <4>5 DEF RowGoesOn, Row
      <4> QED
        BY <1>1, <2>1, <2>2, <3>1, <3>3, <3>5, <4>6 DEF Quiet
    <3> QED
      BY <3>4, <3>5
  <2>4. CASE PrintValue
    <3>1. /\ mpc = "print" /\ mpc' = "clear" /\ printed' = ring[index]
          /\ index' = index /\ found' = found /\ column' = column
      BY <2>4 DEF PrintValue
    <3>2. RowsWhole'
      BY <1>1, <2>1, <3>1
      DEF Quiet, RowsWhole, Row, Full, Blank, Long, Storing, Printing
    <3>3. CASE ~ found
      BY <1>1, <2>1, <2>2, <3>1, <3>2, <3>3 DEF Quiet, NothingBelow
    <3>4. CASE found
      <4>1. PICK n \in Row :
               /\ index = 4 * n + column - 1
               /\ \A k \in Column : Long(n, k) = EMPTY <=> k < column
        BY <2>1, <3>1, <3>4 DEF Quiet, RowGoesOn
      <4>2. Long(n, column) \in {column, EMPTY} /\ Long(n, column) # EMPTY
        BY <4>1, Geometry DEF MonInv, InColumns, MonTyped, Column
      <4>3. printed' = column
        BY <3>1, <4>1, <4>2 DEF Long
      <4>4. RowGoesOn'
        BY <1>1, <3>1, <4>1, <4>3 DEF RowGoesOn, Row, Long
      <4> QED
        BY <1>1, <2>1, <2>2, <3>1, <3>2, <3>4, <4>4 DEF Quiet
    <3> QED
      BY <3>3, <3>4
  <2>5. CASE buf_exit
    <3>1. mpc = "while" /\ mpc' = "off"
      BY <2>5 DEF buf_exit
    <3>2. RowsWhole'
      BY <1>1, <2>1, <3>1
      DEF Quiet, RowsWhole, Row, Full, Blank, Long, Storing, Printing
    <3> QED
      BY <2>2, <3>1, <3>2 DEF Quiet
  <2> QED
    BY <2>3, <2>4, <2>5
<1> QED
  BY <1>2, <1>3, <1>4 DEF MonInv

\* The monitor clears a value and goes on, within the row or behind it.
LEMMA ClearQuiet ==
    ASSUME TypeOK, MonTyped, MonInv, ClearValue,
           overlap' = (overlap \/ (mpc' # "off" /\ wpc' = "store"))
    PROVE  MonInv'
<1>1. /\ UNCHANGED <<sampling_idx, next, wpc>> /\ found' = found
      /\ ring' = [ring EXCEPT ![index] = EMPTY]
      /\ mpc = "clear" /\ mpc' \in {"while", "print"}
  BY DEF ClearValue, ClearLong, sampler
<1>2. \A i \in Slot : ring'[i] = IF i = index THEN EMPTY ELSE ring[i]
  BY <1>1 DEF TypeOK
<1>3. InColumns'
  <2>1. \A n \in 0 .. Samples - 1, k \in Column :
           Long(n, k)' = Long(n, k) \/ Long(n, k)' = EMPTY
    BY <1>2, Geometry DEF Long
  <2> QED
    BY <2>1 DEF MonInv, InColumns
<1>4. ASSUME ~ overlap' PROVE Quiet'
  <2>1. Quiet /\ wpc # "store"
    BY <1>1, <1>4 DEF MonInv, Quiet
  <2>2. StoreGoesOn'
    BY <1>1, <2>1 DEF StoreGoesOn
  <2>3. CASE ~ found
    <3>1. NothingBelow(BufdMax)
      BY <1>1, <2>1, <2>3 DEF Quiet
    <3>2. NothingBelow(BufdMax)'
      BY <1>2, <3>1, Geometry DEF NothingBelow
    <3>3. RowsWhole'
      <4>1. \A n \in Row, k \in Column : 4 * n + k - 1 \in 0 .. BufdMax - 1
        BY Geometry DEF Column
      <4>2. \A n \in Row : Blank(n)'
        BY <3>2, <4>1 DEF NothingBelow, Blank, Long
      <4> QED
        BY <4>2 DEF RowsWhole, Row
    <3> QED
      BY <1>1, <2>1, <2>2, <2>3, <3>2, <3>3 DEF Quiet
  <2>4. CASE found
    <3>1. PICK m \in Row :
             /\ index = 4 * m + column - 1
             /\ \A k \in Column : Long(m, k) = EMPTY <=> k < column
      BY <1>1, <2>1, <2>4 DEF Quiet, RowGoesOn
    <3>2. /\ m \in 0 .. Samples - 1 /\ 4 * m + 4 <= BufdMax
          /\ column \in Column /\ BufdMax \in Nat
      BY Geometry DEF MonTyped
    <3>3. \A n \in 0 .. Samples - 1, k \in Column :
             Long(n, k)' = IF n = m /\ k = column THEN EMPTY ELSE Long(n, k)
      <4>1. PICK j \in Column : j = column
        BY <3>2
      <4>2. \A i \in Slot : ring'[i] = IF i = 4 * m + j - 1 THEN EMPTY ELSE ring[i]
        BY <1>2, <3>1, <4>1
      <4>3. \A n \in 0 .. Samples - 1, k \in Column :
               Long(n, k)' = IF n = m /\ k = j THEN EMPTY ELSE Long(n, k)
        BY <3>2, <4>2, StoreLong DEF Long
      <4> QED
        BY <4>1, <4>3
    <3>4. ASSUME NEW n \in Row, n # m PROVE Full(n)' \/ Blank(n)'
      <4>1. n \in 0 .. Samples - 1
        BY Geometry
      <4>2. Full(n) \/ Blank(n)
        <5>1. 4 * n + column - 1 # 4 * m + column - 1
          BY <3>2, <3>4, <4>1, OneLong
        <5> QED
          BY <2>1, <3>1, <5>1 DEF Quiet, RowsWhole, Storing, Printing
      <4>3. \A k \in Column : Long(n, k)' = Long(n, k)
        BY <3>3, <3>4, <4>1
      <4> QED
        BY <4>2, <4>3 DEF Full, Blank
    <3>5. CASE column = 4
      <4>1. mpc' = "while" /\ index + 1 = 4 * m + 4
        BY <3>1, <3>2, <3>5 DEF ClearValue
      <4>2. Blank(m)'
        <5> SUFFICES ASSUME NEW k \in Column PROVE Long(m, k)' = EMPTY
          BY DEF Blank
        <5>1. k = 4 \/ k < 4
          BY DEF Column
        <5>2. k < 4 => Long(m, k) = EMPTY
          BY <3>1, <3>5
        <5>3. Long(m, k)' = IF k = 4 THEN EMPTY ELSE Long(m, k)
          BY <3>2, <3>3, <3>5
        <5> QED
          BY <5>1, <5>2, <5>3
      <4>3. RowsWhole'
        BY <3>4, <4>2 DEF RowsWhole, Row
      <4>4. \E n \in Row : index' = 4 * n
        <5>1. CASE 4 * m + 4 >= BufdMax
          <6>1. index' = 0
            BY <4>1, <5>1 DEF ClearValue
          <6>2. 0 \in Row
            BY Geometry DEF Row
          <6> QED
            BY <6>1, <6>2
        <5>2. CASE 4 * m + 4 < BufdMax
          <6>1. index' = 4 * (m + 1)
            BY <3>2, <4>1, <5>2 DEF ClearValue
          <6>2. m + 1 \in Row
            <7>1. PICK b \in 1 .. Samples - 1 : BufdMax = 4 * b
              BY MonitorAssumption
            <7> QED
              BY <3>2, <5>2, <7>1, Geometry DEF Row
          <6> QED
            BY <6>1, <6>2
        <5> QED
          BY <3>2, <5>1, <5>2
      <4>5. RowGoesOn'
        BY <4>1, <4>4 DEF RowGoesOn, Row
      <4> QED
        BY <1>1, <2>1, <2>2, <2>4, <4>1, <4>3, <4>5 DEF Quiet
    <3>6. CASE column # 4
      <4>1. /\ mpc' = "print" /\ column' = column + 1 /\ column \in 1 .. 3
            /\ index' = 4 * m + column' - 1
        BY <3>1, <3>2, <3>6 DEF ClearValue, Column
      <4>2. Printing(m)'
        BY <1>1, <2>4, <4>1 DEF Printing
      <4>3. RowsWhole'
        BY <3>4, <4>2 DEF RowsWhole, Row
      <4>4. ASSUME NEW k \in Column PROVE Long(m, k)' = EMPTY <=> k < column'
        <5>1. Long(m, k)' = IF k = column THEN EMPTY ELSE Long(m, k)
          BY <3>2, <3>3
        <5>2. Long(m, k) = EMPTY <=> k < column
          BY <3>1
        <5>3. k < column' <=> k < column \/ k = column
          BY <4>1 DEF Column
        <5> QED
          BY <5>1, <5>2, <5>3
      <4>5. RowGoesOn'
        BY <4>1, <4>4 DEF RowGoesOn, Row
      <4> QED
        BY <1>1, <2>1, <2>2, <2>4, <4>1, <4>3, <4>5 DEF Quiet
    <3> QED
      BY <3>5, <3>6
  <2> QED
    BY <2>3, <2>4
<1> QED
  BY <1>1, <1>3, <1>4 DEF MonInv

\* Every step keeps what the work and the monitor know of the ring.
LEMMA MonInvStep ==
    TypeOK /\ Worker /\ MonTyped /\ MonInv /\ [MonNext]_monVars => MonInv'
<1> SUFFICES ASSUME TypeOK, Worker, MonTyped, MonInv, [MonNext]_monVars
             PROVE  MonInv'
  OBVIOUS
<1>1. CASE MonNext
  BY <1>1, ModuleQuiet, SearchQuiet, PrintQuiet, ClearQuiet DEF MonNext, main
<1>2. CASE UNCHANGED monVars
  BY <1>2, Calm DEF monVars, vars, buffer, sampler
<1> QED
  BY <1>1, <1>2

\* The rows that a monitor prints are the samples that the work has stored,
\* column by column, whatever size the ring has and wherever below its end the
\* monitor wraps, as long as the two do not meet.
THEOREM RowsKept == MonSpec => []QuietRowsKept
<1>1. MonInit => MonInv
  <2> SUFFICES ASSUME MonInit PROVE MonInv
    OBVIOUS
  <2>1. \A n \in 0 .. Samples - 1, k \in Column : Long(n, k) = EMPTY
    BY Geometry DEF MonInit, Init, Long
  <2>2. \A n \in Row : Blank(n)
    BY <2>1, Geometry DEF Blank
  <2> QED
    BY <2>1, <2>2
    DEF MonInit, Init, MonInv, InColumns, Quiet, RowsWhole, StoreGoesOn
<1>2. IInv => TypeOK /\ Worker
  BY DEF IInv
<1>3. MonInv => QuietRowsKept
  BY DEF MonInv, Quiet, RowGoesOn, QuietRowsKept
<1> QED
  BY <1>1, <1>2, <1>3, MonInvStep, MonTypedHolds, MonitorImplementsProfiler,
     SpecIInv, PTL DEF MonSpec
=============================================================================
