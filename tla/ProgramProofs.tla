---------------------------- MODULE ProgramProofs ----------------------------
(***************************************************************************)
(* Theorems about Program, for every set of CPUs and locks.                *)
(***************************************************************************)
EXTENDS Program, TLAPS

\* The context measures headers with the length of the packet, and that of xdp
\* is the packet as it is.
CtxFresh ==
    \A c \in CPU :
        /\ ctx[c].len = pkt[c].len
        /\ kind[c] = "xdp" => ctx[c].buf = pkt[c].buf
                              /\ ctx[c].slice = pkt[c].len

\* A program that spins waits for a lock.
SpinsFor == \A c \in CPU : pc[c] = "spin" => want[c] \in Lock

\* Nothing was ever entered in a table of cleanup entries.
NoEntries == \A c \in CPU : \A s \in Slot : entries[c][s] = NULL

\* A lock left behind stays taken.
LeftTaken == \A l \in left : lock[l] # NULL

\* What the packets need, what the locks need, and the inductive invariant.
PacketInv == CtxFresh /\ ViewsInside
LockInv   == SpinsFor /\ NoEntries /\ LeftTaken /\ GuardsOwnLocks

IInv == TypeOK /\ PacketInv /\ LockInv

Views == [buf : Buffer, end : Length, of : {"context", "field", "program"}]

\* Keeping a view that is one keeps the types.
LEMMA KeepTypes ==
    ASSUME TypeOK, NEW c \in CPU, NEW v \in Views, Keep(c, v)
    PROVE  TypeOK'
<1>1. views' \in [CPU -> SUBSET Views]
  <2>1. views \in [CPU -> SUBSET Views]
    BY DEF TypeOK, Views
  <2>2. views' = [views EXCEPT ![c] = views[c] \cup {v}]
    BY DEF Keep
  <2> QED
    BY <2>1, <2>2
<1>2. UNCHANGED <<pc, kind, pkt, ctx, lock, held, want, entries, left>>
  BY DEF Keep, locks
<1> QED
  BY <1>1, <1>2 DEF TypeOK, Views

\* Ending borrows keeps the type of the views.
LEMMA EndTypes ==
    ASSUME TypeOK, NEW c \in CPU, EndBorrows(c)
    PROVE  views' \in [CPU -> SUBSET Views]
  BY DEF TypeOK, EndBorrows, Views

\* The types of the variables are kept: a view that a header function builds
\* ends inside a packet, and a spinning program has a lock to take.
LEMMA TypeStep ==
    ASSUME TypeOK, PacketInv, LockInv, [Next]_vars
    PROVE  TypeOK'
<1> USE ProgramAssumption DEF TypeOK, Length, Buffer, ETH, IP, UDP, TCP
<1>a. \A c \in CPU : /\ pkt[c].buf \in Buffer /\ pkt[c].len \in Length
                      /\ ctx[c].buf \in Buffer /\ ctx[c].slice \in Length
                      /\ ctx[c].len \in Length
  OBVIOUS
<1>b. \A b \in Buffer, e \in Length, o \in {"context", "field", "program"} :
          View(b, e, o) \in Views
  BY DEF View, Views
<1>1. ASSUME NEW c \in CPU, prog_run(c) PROVE TypeOK'
  <2>1. PICK k \in {"xdp", "sched_cls", "other"}, n \in Length :
            /\ kind' = [kind EXCEPT ![c] = k]
            /\ pkt' = [pkt EXCEPT ![c] = [buf |-> 0, len |-> n]]
            /\ ctx' = [ctx EXCEPT ![c] = [buf |-> 0, slice |-> n, len |-> n]]
    BY <1>1 DEF prog_run
  <2>2. 0 \in Buffer
    OBVIOUS
  <2>3. pkt' \in [CPU -> [buf : Buffer, len : Length]]
    BY <2>1, <2>2
  <2>4. ctx' \in [CPU -> [buf : Buffer, slice : Length, len : Length]]
    BY <2>1, <2>2
  <2> QED
    BY <1>1, <2>1, <2>3, <2>4 DEF prog_run, locks
<1>2. ASSUME NEW c \in CPU, data_slice(c) PROVE TypeOK'
  BY <1>a, <1>b, <1>2, KeepTypes DEF data_slice
<1>3. ASSUME NEW c \in CPU, data_slice_mut(c) PROVE TypeOK'
  BY <1>a, <1>b, <1>3, KeepTypes DEF data_slice_mut
<1>4. ASSUME NEW c \in CPU, NEW h \in {ETH, IP, UDP, TCP}, Header(c, h)
      PROVE  TypeOK'
  BY <1>a, <1>b, <1>4, KeepTypes DEF Header
<1>5. ASSUME NEW c \in CPU, NEW h \in {ETH, IP, UDP, TCP}, HeaderPanics(c, h)
      PROVE  TypeOK'
  BY <1>5 DEF HeaderPanics, packet, locks
<1>6. ASSUME NEW c \in CPU, bpf_xdp_adjust_tail(c) PROVE TypeOK'
  <2>1. views' \in [CPU -> SUBSET Views]
    BY <1>6, EndTypes DEF bpf_xdp_adjust_tail
  <2>2. CASE UNCHANGED <<pkt, ctx>>
    BY <1>6, <2>1, <2>2 DEF bpf_xdp_adjust_tail, locks, Views
  <2>3. ASSUME NEW n \in Length,
               pkt' = [pkt EXCEPT ![c].len = n],
               ctx' = [ctx EXCEPT ![c] =
                          [buf |-> pkt[c].buf, slice |-> n, len |-> n]]
        PROVE  TypeOK'
    <3>1. pkt' \in [CPU -> [buf : Buffer, len : Length]]
      BY <2>3
    <3>2. [buf |-> pkt[c].buf, slice |-> n, len |-> n]
              \in [buf : Buffer, slice : Length, len : Length]
      BY <1>a
    <3>3. ctx' \in [CPU -> [buf : Buffer, slice : Length, len : Length]]
      BY <2>3, <3>2
    <3> QED
      BY <1>6, <2>1, <3>1, <3>3 DEF bpf_xdp_adjust_tail, locks, Views
  <2> QED
    BY <1>6, <2>2, <2>3 DEF bpf_xdp_adjust_tail
<1>7. ASSUME NEW c \in CPU, bpf_clone_redirect(c) PROVE TypeOK'
  <2>1. views' \in [CPU -> SUBSET Views]
    BY <1>7, EndTypes DEF bpf_clone_redirect
  <2>2. PICK b \in Buffer :
            /\ pkt' = [pkt EXCEPT ![c].buf = b]
            /\ \/ ctx' = ctx
               \/ ctx' = [ctx EXCEPT ![c] =
                             [buf |-> b, slice |-> pkt[c].len,
                              len |-> ctx[c].len]]
    BY <1>7 DEF bpf_clone_redirect
  <2>3. pkt' \in [CPU -> [buf : Buffer, len : Length]]
    <3>1. pkt' = [pkt EXCEPT ![c].buf = b]
      BY <2>2
    <3>2. pkt \in [CPU -> [buf : Buffer, len : Length]]
      OBVIOUS
    <3> HIDE DEF Buffer, Length, TypeOK
    <3> QED
      BY ONLY <3>1, <3>2, b \in Buffer
  <2>4. [buf |-> b, slice |-> pkt[c].len, len |-> ctx[c].len]
            \in [buf : Buffer, slice : Length, len : Length]
    <3>1. b \in Buffer /\ pkt[c].len \in Length /\ ctx[c].len \in Length
      BY <1>a, <2>2
    <3> HIDE DEF Buffer, Length
    <3> QED
      BY <3>1
  <2>5. ctx' \in [CPU -> [buf : Buffer, slice : Length, len : Length]]
    BY <2>2, <2>4
  <2> QED
    BY <1>7, <2>1, <2>3, <2>5 DEF bpf_clone_redirect, locks, Views
<1>8. ASSUME NEW c \in CPU, LockStep(c) PROVE TypeOK'
  <2>1. ASSUME NEW l \in Lock, iu_spinlock_guard_new(c, l) PROVE TypeOK'
    BY <2>1 DEF iu_spinlock_guard_new, packet
  <2>2. ASSUME NEW l \in Lock, drop(c, l) PROVE TypeOK'
    BY <2>2 DEF drop, Unlocked, packet
  <2>3. CASE bpf_spin_lock(c)
    <3>1. want[c] \in Lock
      BY <2>3 DEF bpf_spin_lock, LockInv, SpinsFor
    <3> QED
      BY <2>3, <3>1 DEF bpf_spin_lock, packet
  <2> QED
    BY <1>8, <2>1, <2>2, <2>3 DEF LockStep
<1>9. ASSUME NEW c \in CPU,
             Return(c) \/ panic(c) \/ cleanup_all(c) \/ iu_landingpad(c)
      PROVE  TypeOK'
  <2>1. CASE Return(c)
    BY <2>1 DEF Return, Unlocked, packet
  <2>2. CASE panic(c)
    BY <2>2 DEF panic, packet, locks
  <2>3. CASE cleanup_all(c)
    BY <2>3 DEF cleanup_all, Unlocked, packet
  <2>4. CASE iu_landingpad(c)
    BY <2>4 DEF iu_landingpad, packet, locks
  <2> QED
    BY <1>9, <2>1, <2>2, <2>3, <2>4
<1>10. CASE UNCHANGED vars
  BY <1>10 DEF vars
<1> QED
  BY <1>1, <1>2, <1>3, <1>4, <1>5, <1>6, <1>7, <1>8, <1>9, <1>10
   DEF Next, PacketStep

\* Steps on locks and panics leave the packets alone.
LEMMA PacketsAlone ==
    ASSUME PacketInv, UNCHANGED packet
    PROVE  PacketInv'
  BY DEF PacketInv, CtxFresh, ViewsInside, Inside, packet

\* Keeping a view that is inside, if it is borrowed from the context, or the
\* field data_slice of an xdp_md, keeps all views inside.
LEMMA KeepInside ==
    ASSUME TypeOK, PacketInv, NEW c \in CPU, NEW v, Keep(c, v),
           v.of = "context" \/ (v.of = "field" /\ kind[c] = "xdp")
               => Inside(c, v)
    PROVE  PacketInv'
<1>1. UNCHANGED <<kind, pkt, ctx>>
  BY DEF Keep
<1>2. \A d \in CPU : views'[d] \subseteq views[d] \cup (IF d = c THEN {v} ELSE {})
  BY DEF Keep, TypeOK
<1>3. \A d \in CPU : \A w : Inside(d, w) => Inside(d, w)'
  BY <1>1 DEF Inside
<1>4. ViewsInside'
  BY <1>1, <1>2, <1>3 DEF PacketInv, ViewsInside
<1> QED
  BY <1>1, <1>4 DEF PacketInv, CtxFresh

\* A helper that changes the packet of one CPU ends the borrows from its
\* context and leaves the views of the other CPUs inside.
LEMMA HelperInside ==
    ASSUME TypeOK, PacketInv, NEW c \in CPU, EndBorrows(c), UNCHANGED kind,
           \A d \in CPU \ {c} : pkt'[d] = pkt[d]
    PROVE  ViewsInside'
<1>1. \A v \in views'[c] : v.of = "program"
  BY DEF EndBorrows, TypeOK
<1>2. \A d \in CPU \ {c} : views'[d] = views[d]
  BY DEF EndBorrows, TypeOK
<1>3. SUFFICES ASSUME NEW d \in CPU, NEW v \in views'[d],
                      v.of = "context" \/ (v.of = "field" /\ kind[d] = "xdp")
               PROVE  Inside(d, v)'
  BY DEF ViewsInside
<1>4. d # c /\ v \in views[d] /\ pkt'[d] = pkt[d]
  BY <1>1, <1>2, <1>3
<1> QED
  BY <1>3, <1>4 DEF PacketInv, ViewsInside, Inside

\* Every helper leaves the context and the views borrowed from it inside the
\* packet.
LEMMA PacketInvStep ==
    ASSUME TypeOK, PacketInv, [Next]_vars
    PROVE  PacketInv'
<1> USE ProgramAssumption DEF TypeOK, Length, Buffer, ETH, IP, UDP, TCP,
          PacketInv, CtxFresh, ViewsInside, Inside
<1>1. ASSUME NEW c \in CPU, prog_run(c) PROVE PacketInv'
  BY <1>1 DEF prog_run
<1>2. ASSUME NEW c \in CPU, data_slice(c) PROVE PacketInv'
  <2> DEFINE v == View(ctx[c].buf, ctx[c].slice, "field")
  <2>1. v.of = "field" /\ v.buf = ctx[c].buf /\ v.end = ctx[c].slice
    BY DEF View
  <2>2. Keep(c, v)
    BY <1>2 DEF data_slice
  <2>3. kind[c] = "xdp" => v.buf = pkt[c].buf /\ v.end = pkt[c].len
    BY <2>1
  <2>4. kind[c] = "xdp" => Inside(c, v)
    <3>1. pkt[c].len <= pkt[c].len
      OBVIOUS
    <3> QED
      BY <2>3, <3>1
  <2> HIDE DEF v
  <2> QED
    BY <2>1, <2>2, <2>4, KeepInside
<1>3. ASSUME NEW c \in CPU, data_slice_mut(c) PROVE PacketInv'
  <2> DEFINE v(of) == View(pkt[c].buf, pkt[c].len, of)
  <2>1. \A of : v(of).of = of /\ v(of).buf = pkt[c].buf
                              /\ v(of).end = pkt[c].len
    BY DEF View
  <2>2. \E of : Keep(c, v(of))
    BY <1>3 DEF data_slice_mut
  <2>3. \A of : Inside(c, v(of))
    BY <2>1
  <2> HIDE DEF v
  <2> QED
    BY <2>2, <2>3, KeepInside
<1>4. ASSUME NEW c \in CPU, NEW h \in {ETH, IP, UDP, TCP}, Header(c, h)
      PROVE  PacketInv'
  <2> DEFINE v == View(pkt[c].buf, h, "context")
  <2>1. v.buf = pkt[c].buf /\ v.end = h
    BY DEF View
  <2>2. Keep(c, v) /\ h <= ctx[c].len
    BY <1>4 DEF Header
  <2>3. Inside(c, v)
    BY <2>1, <2>2
  <2> HIDE DEF v
  <2> QED
    BY <2>2, <2>3, KeepInside
<1>5. ASSUME NEW c \in CPU, bpf_xdp_adjust_tail(c) PROVE PacketInv'
  <2>1. ViewsInside'
    BY <1>5, HelperInside DEF bpf_xdp_adjust_tail
  <2>2. CtxFresh'
    <3>1. CASE UNCHANGED <<pkt, ctx>>
      BY <1>5, <3>1 DEF bpf_xdp_adjust_tail
    <3>2. ASSUME NEW n \in Length, pkt' = [pkt EXCEPT ![c].len = n],
                 ctx' = [ctx EXCEPT ![c] =
                            [buf |-> pkt[c].buf, slice |-> n, len |-> n]]
          PROVE  CtxFresh'
      BY <1>5, <3>2 DEF bpf_xdp_adjust_tail
    <3> QED
      BY <1>5, <3>1, <3>2 DEF bpf_xdp_adjust_tail
  <2> QED
    BY <2>1, <2>2
<1>6. ASSUME NEW c \in CPU, bpf_clone_redirect(c) PROVE PacketInv'
  <2>1. ViewsInside'
    BY <1>6, HelperInside DEF bpf_clone_redirect
  <2>2. CtxFresh'
    BY <1>6 DEF bpf_clone_redirect, Runs
  <2> QED
    BY <2>1, <2>2
<1>7. ASSUME NEW c \in CPU, NEW h \in {ETH, IP, UDP, TCP}, HeaderPanics(c, h)
      PROVE  PacketInv'
  BY <1>7, PacketsAlone DEF HeaderPanics
<1>8. ASSUME NEW c \in CPU,
             \/ LockStep(c) \/ Return(c) \/ panic(c) \/ cleanup_all(c)
             \/ iu_landingpad(c)
      PROVE  PacketInv'
  <2>1. UNCHANGED packet
    BY <1>8 DEF LockStep, iu_spinlock_guard_new, drop, bpf_spin_lock, Return,
                panic, cleanup_all, iu_landingpad
  <2> QED
    BY <2>1, PacketsAlone
<1>9. CASE UNCHANGED vars
  BY <1>9, PacketsAlone DEF vars, packet
<1> QED
  BY <1>1, <1>2, <1>3, <1>4, <1>5, <1>6, <1>7, <1>8, <1>9
   DEF Next, PacketStep

\* A guard is live exactly while its lock is taken: no step gives a lock to a
\* second guard, and no entry of the table unlocks one behind a guard's back.
LEMMA LockInvStep ==
    ASSUME TypeOK, LockInv, [Next]_vars
    PROVE  LockInv'
<1> USE ProgramAssumption DEF TypeOK, LockInv, SpinsFor, NoEntries, LeftTaken,
          GuardsOwnLocks
<1>1. ASSUME NEW c \in CPU, prog_run(c) \/ PacketStep(c) PROVE LockInv'
  BY <1>1 DEF prog_run, PacketStep, data_slice, data_slice_mut, Header,
              HeaderPanics, bpf_xdp_adjust_tail, bpf_clone_redirect, Keep,
              locks
<1>2. ASSUME NEW c \in CPU, NEW l \in Lock, iu_spinlock_guard_new(c, l)
      PROVE  LockInv'
  BY <1>2 DEF iu_spinlock_guard_new
<1>3. ASSUME NEW c \in CPU, bpf_spin_lock(c) PROVE LockInv'
  BY <1>3 DEF bpf_spin_lock
<1>4. ASSUME NEW c \in CPU, NEW l \in Lock, drop(c, l) PROVE LockInv'
  BY <1>4 DEF drop, Unlocked
<1>5. ASSUME NEW c \in CPU, Return(c) PROVE LockInv'
  BY <1>5 DEF Return, Unlocked
<1>6. ASSUME NEW c \in CPU, panic(c) \/ iu_landingpad(c) PROVE LockInv'
  BY <1>6 DEF panic, iu_landingpad, locks
<1>7. ASSUME NEW c \in CPU, cleanup_all(c) PROVE LockInv'
  <2>1. {l \in Lock : \E s \in Slot : entries[c][s] = l} = {}
    OBVIOUS
  <2>2. lock' = lock /\ left' = left \cup held[c]
    BY <1>7, <2>1 DEF cleanup_all, Unlocked
  <2>3. NoEntries'
    <3>1. entries' = [entries EXCEPT ![c] = [s \in Slot |-> NULL]]
      BY <1>7 DEF cleanup_all
    <3> DEFINE none == [s \in Slot |-> NULL]
    <3>2. \A s \in Slot : none[s] = NULL
      OBVIOUS
    <3>3. entries' = [entries EXCEPT ![c] = none]
      BY <3>1
    <3> HIDE DEF none
    <3>4. \A d \in CPU : entries'[d] = none \/ entries'[d] = entries[d]
      BY <3>3
    <3> QED
      BY <3>2, <3>4
  <2>4. SpinsFor'
    BY <1>7 DEF cleanup_all
  <2>5. LeftTaken'
    BY <2>2
  <2>6. GuardsOwnLocks'
    BY <1>7, <2>2 DEF cleanup_all
  <2> QED
    BY <2>3, <2>4, <2>5, <2>6
<1>8. CASE UNCHANGED vars
  BY <1>8 DEF vars
<1> QED
  BY <1>1, <1>2, <1>3, <1>4, <1>5, <1>6, <1>7, <1>8 DEF Next, LockStep

\* The invariant is inductive.
THEOREM ProgramInvariant == Spec => []IInv
<1>1. Init => IInv
  BY ProgramAssumption
   DEF Init, IInv, TypeOK, PacketInv, LockInv, CtxFresh, ViewsInside, SpinsFor,
       NoEntries, LeftTaken, GuardsOwnLocks, Length, Buffer, TCP
<1>2. IInv /\ [Next]_vars => IInv'
  BY TypeStep, PacketInvStep, LockInvStep DEF IInv
<1> QED
  BY <1>1, <1>2, PTL DEF Spec

\* Every variable keeps its type.
THEOREM ProgramTypeCorrect == Spec => []TypeOK
<1>1. IInv => TypeOK
  BY DEF IInv
<1> QED
  BY <1>1, ProgramInvariant, PTL

\* A view borrowed from the context of a program lies inside the packet,
\* whatever helpers the program calls.
THEOREM ViewsStayInside == Spec => []ViewsInside
<1>1. IInv => ViewsInside
  BY DEF IInv, PacketInv
<1> QED
  BY <1>1, ProgramInvariant, PTL

\* Two guards for one lock are never live at a time, on any CPUs, and only a
\* panic leaves a lock without guard.
THEOREM GuardsExclude == Spec => []GuardsOwnLocks
<1>1. IInv => GuardsOwnLocks
  BY DEF IInv, LockInv
<1> QED
  BY <1>1, ProgramInvariant, PTL

-----------------------------------------------------------------------------
(* Program implements SharedLocks.                                         *)

\* The locks that a CPU took and no panic left behind are those of its guards.
LEMMA OwnsItsGuards ==
    ASSUME TypeOK, LockInv, NEW c \in CPU
    PROVE  /\ held[c] \subseteq Shared!OwnedBy(c)
           /\ held[c] \cap left = {}
           /\ Shared!OwnedBy(c) \subseteq held[c] \cup left
BY DEF TypeOK, LockInv, GuardsOwnLocks, Shared!OwnedBy

\* Taking a lock, dropping guards, and a panic, whose handler finds its table
\* empty and forgets the guards. Nothing else touches a lock.
LEMMA LocksShared ==
    ASSUME TypeOK, LockInv, [Next]_vars
    PROVE  [Shared!Next]_Shared!vars
<1> USE DEF Shared!vars
<1>1. ASSUME NEW c \in CPU, bpf_spin_lock(c) PROVE Shared!Next
  <2>1. want[c] \in Lock
    BY <1>1 DEF bpf_spin_lock, LockInv, SpinsFor
  <2>2. Shared!Acquire(c, want[c])
    BY <1>1 DEF bpf_spin_lock, Shared!Acquire
  <2> QED
    BY <2>1, <2>2 DEF Shared!Next
<1>2. ASSUME NEW c \in CPU, NEW S \in SUBSET held[c],
             lock' = Unlocked(S), UNCHANGED left
      PROVE  Shared!Next
  <2>1. S \in SUBSET Shared!OwnedBy(c) /\ S \cap left = {}
    BY <1>2, OwnsItsGuards
  <2>2. Shared!Release(S)
    BY <1>2, <2>1 DEF Unlocked, Shared!Release
  <2> QED
    BY <2>1, <2>2 DEF Shared!Next
<1>3. ASSUME NEW c \in CPU, NEW l \in Lock, drop(c, l) PROVE Shared!Next
  BY <1>3, <1>2 DEF drop
<1>4. ASSUME NEW c \in CPU, Return(c) PROVE Shared!Next
  BY <1>4, <1>2 DEF Return
<1>5. ASSUME NEW c \in CPU, cleanup_all(c) PROVE Shared!Next
  <2>1. lock' = lock /\ left' = left \cup held[c]
    <3>1. {l \in Lock : \E s \in Slot : entries[c][s] = l} = {}
      BY ProgramAssumption DEF LockInv, NoEntries
    <3> QED
      BY <1>5, <3>1 DEF cleanup_all, Unlocked, TypeOK
  <2>2. left' = left \cup Shared!OwnedBy(c)
    BY <2>1, OwnsItsGuards
  <2> QED
    BY <2>1, <2>2 DEF Shared!Lose, Shared!Next
<1>6. ASSUME NEW c \in CPU,
             prog_run(c) \/ PacketStep(c) \/ panic(c) \/ iu_landingpad(c)
                \/ \E l \in Lock : iu_spinlock_guard_new(c, l)
      PROVE  UNCHANGED Shared!vars
  BY <1>6 DEF prog_run, PacketStep, data_slice, data_slice_mut, Header,
              HeaderPanics, Keep, bpf_xdp_adjust_tail, bpf_clone_redirect,
              panic, iu_landingpad, iu_spinlock_guard_new, locks
<1>7. CASE UNCHANGED vars
  BY <1>7 DEF vars
<1> QED
  BY <1>1, <1>3, <1>4, <1>5, <1>6, <1>7 DEF Next, LockStep

\* Whatever programs take, drop, return and panic on whatever CPUs, a lock
\* passes from owner to owner only when its owner unlocks it, and one that a
\* panic left behind (panic.rs: no entry is ever made in the table) stays taken.
THEOREM LocksImplementShared == Spec => LocksAreShared
<1>1. Init => Shared!Init
  BY DEF Init, Shared!Init
<1>2. IInv /\ [Next]_vars => [Shared!Next]_Shared!vars
  BY LocksShared DEF IInv
<1> QED
  BY <1>1, <1>2, ProgramInvariant, PTL DEF Spec, LocksAreShared, Shared!Spec
=============================================================================
