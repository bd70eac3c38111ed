------------------------------ MODULE Program --------------------------------
(***************************************************************************)
(* Inner-unikernel programs in the kernel (inner_unikernel_rt/src): one    *)
(* program at a time on each CPU, called with a packet or without, views   *)
(* into that packet, helpers that change it, spinlocks shared by all CPUs, *)
(* and panics, which end a program wherever it is: the runtime is built    *)
(* with panic = "abort", so no destructor runs, only the panic handler.    *)
(*                                                                         *)
(* Lengths count the headers that fit: a packet shorter than an Ethernet   *)
(* header has length 0, one that ends behind it 1, and so on.              *)
(***************************************************************************)
EXTENDS Integers, FiniteSets

CONSTANTS
    CPU, Lock,
    ENTRIES_SIZE,   \* size of the table of cleanup entries of a CPU
    MaxMoves,       \* bound: how often the kernel moves a packet
    MaxViews,       \* bound: views a program keeps at a time
    NULL

ASSUME ProgramAssumption ==
    /\ ENTRIES_SIZE \in Nat \ {0} /\ MaxMoves \in Nat /\ MaxViews \in Nat
    /\ NULL \notin CPU /\ NULL \notin Lock

VARIABLES
    pc,        \* idle, run, spin (in bpf_spin_lock), panic, landing
    kind,      \* the type of the program
    pkt,       \* what the kernel knows of the packet: xdp_buff or sk_buff
    ctx,       \* what the program has of it: xdp_md or __sk_buff
    views,     \* references into the packet that the program may still use
    lock,      \* a bpf_spin_lock: the CPU that took it
    held,      \* live iu_spinlock_guards of a program
    want,      \* the lock a guard is being built for
    entries,   \* iu_cleanup_entries: the guard to unlock, or an invalid entry
    left       \* history: locks a program held when it panicked

vars == <<pc, kind, pkt, ctx, views, lock, held, want, entries, left>>

packet == <<kind, pkt, ctx, views>>
locks  == <<lock, held, want, entries, left>>

ETH == 1   IP == 2   UDP == 3   TCP == 4
Length == 0 .. TCP
Buffer == 0 .. MaxMoves
Slot   == 1 .. ENTRIES_SIZE

\* A reference is borrowed from the context by a function, is the field
\* data_slice, or is borrowed from the program itself (data_slice_mut of xdp
\* takes its lifetime from &self), and then outlives changes of the context.
View(buf, end, of) == [buf |-> buf, end |-> end, of |-> of]

TypeOK ==
    /\ pc \in [CPU -> {"idle", "run", "spin", "panic", "landing"}]
    /\ kind \in [CPU -> {"xdp", "sched_cls", "other"}]
    /\ pkt \in [CPU -> [buf : Buffer, len : Length]]
    /\ ctx \in [CPU -> [buf : Buffer, slice : Length, len : Length]]
    /\ views \in [CPU -> SUBSET [buf : Buffer, end : Length,
                                 of : {"context", "field", "program"}]]
    /\ lock \in [Lock -> CPU \cup {NULL}]
    /\ held \in [CPU -> SUBSET Lock]
    /\ want \in [CPU -> Lock \cup {NULL}]
    /\ entries \in [CPU -> [Slot -> Lock \cup {NULL}]]
    /\ left \in SUBSET Lock

Init ==
    /\ pc = [c \in CPU |-> "idle"]
    /\ kind = [c \in CPU |-> "other"]
    /\ pkt = [c \in CPU |-> [buf |-> 0, len |-> 0]]
    /\ ctx = [c \in CPU |-> [buf |-> 0, slice |-> 0, len |-> 0]]
    /\ views = [c \in CPU |-> {}]
    /\ lock = [l \in Lock |-> NULL]
    /\ held = [c \in CPU |-> {}]
    /\ want = [c \in CPU |-> NULL]
    /\ entries = [c \in CPU |-> [s \in Slot |-> NULL]]
    /\ left = {}

-----------------------------------------------------------------------------
(* The packet. slice is the length of data_slice; len is what the header   *)
(* functions measure: data_length of xdp_md, len of __sk_buff.             *)

Runs(c, k) == pc[c] = "run" /\ kind[c] = k

\* prog_run and convert_ctx.
prog_run(c) ==
    /\ pc[c] = "idle" /\ pc' = [pc EXCEPT ![c] = "run"]
    /\ \E k \in {"xdp", "sched_cls", "other"}, n \in Length :
          /\ k = "other" => n = 0
          /\ kind' = [kind EXCEPT ![c] = k]
          /\ pkt' = [pkt EXCEPT ![c] = [buf |-> 0, len |-> n]]
          /\ ctx' = [ctx EXCEPT ![c] = [buf |-> 0, slice |-> n, len |-> n]]
    /\ views' = [views EXCEPT ![c] = {}]
    /\ UNCHANGED locks

\* The program keeps a reference beside those it has. (Exclusive borrows would
\* end some of these: keeping them only asks more of the properties.)
Keep(c, v) ==
    /\ Cardinality(views[c]) < MaxViews
    /\ views' = [views EXCEPT ![c] = @ \cup {v}]
    /\ UNCHANGED <<pc, kind, pkt, ctx, locks>>

\* A use of the public field data_slice.
data_slice(c) ==
    /\ pc[c] = "run" /\ kind[c] # "other"
    /\ Keep(c, View(ctx[c].buf, ctx[c].slice, "field"))

\* eth_header, ip_header, udp_header, tcp_header. For xdp only the first is
\* implemented, the others panic. The slice is built from the kernel's pointer
\* and the length in the context; a header that does not fit panics.
Implemented(k) == IF k = "xdp" THEN {ETH} ELSE {ETH, IP, UDP, TCP}

Header(c, h) ==
    /\ pc[c] = "run" /\ kind[c] # "other"
    /\ h \in Implemented(kind[c]) /\ h <= ctx[c].len
    /\ Keep(c, View(pkt[c].buf, h, "context"))

HeaderPanics(c, h) ==
    /\ pc[c] = "run" /\ kind[c] # "other"
    /\ h \notin Implemented(kind[c]) \/ h > ctx[c].len
    /\ pc' = [pc EXCEPT ![c] = "panic"]
    /\ UNCHANGED <<packet, locks>>

data_slice_mut(c) ==
    \/ Runs(c, "xdp") /\ Keep(c, View(pkt[c].buf, pkt[c].len, "program"))
    \/ Runs(c, "sched_cls") /\ Keep(c, View(pkt[c].buf, pkt[c].len, "context"))

\* A helper borrows the context for itself.
EndBorrows(c) ==
    views' = [views EXCEPT ![c] = {v \in @ : v.of = "program"}]

\* Mutant: the length is the difference the wrong way round.
bpf_xdp_adjust_tail_swapped(c) ==
    /\ Runs(c, "xdp") /\ EndBorrows(c)
    /\ \/ UNCHANGED <<pkt, ctx>>
       \/ \E n \in Length \ {0} :
             /\ pkt' = [pkt EXCEPT ![c].len = n]
             /\ ctx' = [ctx EXCEPT ![c] =
                           [buf |-> pkt[c].buf, slice |-> 0 - n,
                            len |-> 0 - n]]
    /\ UNCHANGED <<pc, kind, locks>>

\* Mutant: data_slice keeps the old length.
bpf_xdp_adjust_tail_stale(c) ==
    /\ Runs(c, "xdp") /\ EndBorrows(c)
    /\ \/ UNCHANGED <<pkt, ctx>>
       \/ \E n \in Length \ {0} :
             /\ pkt' = [pkt EXCEPT ![c].len = n]
             /\ ctx' = [ctx EXCEPT ![c].len = n]
    /\ UNCHANGED <<pc, kind, locks>>

\* The kernel refuses, or moves the tail: not into the Ethernet header.
bpf_xdp_adjust_tail(c) ==
    /\ Runs(c, "xdp") /\ EndBorrows(c)
    /\ \/ UNCHANGED <<pkt, ctx>>
       \/ \E n \in Length \ {0} :
             /\ pkt' = [pkt EXCEPT ![c].len = n]
             /\ ctx' = [ctx EXCEPT ![c] =
                           [buf |-> pkt[c].buf, slice |-> n, len |-> n]]
    /\ UNCHANGED <<pc, kind, locks>>

\* The kernel may move the packet to have it for itself, whether the redirection
\* succeeds or not; only on success the context takes the new place.
bpf_clone_redirect(c) ==
    /\ Runs(c, "sched_cls") /\ EndBorrows(c)
    /\ \E b \in Buffer :
          /\ b \in {pkt[c].buf, pkt[c].buf + 1}
          /\ pkt' = [pkt EXCEPT ![c].buf = b]
          /\ \/ UNCHANGED ctx
             \/ ctx' = [ctx EXCEPT ![c] =
                           [buf |-> b, slice |-> pkt[c].len,
                            len |-> ctx[c].len]]
    /\ UNCHANGED <<pc, kind, locks>>

-----------------------------------------------------------------------------
(* Spinlocks.                                                              *)

\* iu_spinlock_guard::new.
iu_spinlock_guard_new(c, l) ==
    /\ pc[c] = "run" /\ pc' = [pc EXCEPT ![c] = "spin"]
    /\ want' = [want EXCEPT ![c] = l]
    /\ UNCHANGED <<packet, lock, held, entries, left>>

\* Mutant: the result of an attempt to take the lock is ignored.
bpf_spin_lock_try(c) ==
    /\ pc[c] = "spin" /\ pc' = [pc EXCEPT ![c] = "run"]
    /\ lock' = [lock EXCEPT ![want[c]] = c]
    /\ held' = [held EXCEPT ![c] = @ \cup {want[c]}]
    /\ want' = [want EXCEPT ![c] = NULL]
    /\ UNCHANGED <<packet, entries, left>>

\* The kernel's lock is taken, and the guard is built. It is not entered in the
\* table of cleanup entries: find_next_emtpy_entry has no caller.
bpf_spin_lock(c) ==
    /\ pc[c] = "spin" /\ pc' = [pc EXCEPT ![c] = "run"]
    /\ lock[want[c]] = NULL
    /\ lock' = [lock EXCEPT ![want[c]] = c]
    /\ held' = [held EXCEPT ![c] = @ \cup {want[c]}]
    /\ want' = [want EXCEPT ![c] = NULL]
    /\ UNCHANGED <<packet, entries, left>>

\* bpf_spin_unlock of each lock in a set.
Unlocked(S) == [l \in Lock |-> IF l \in S THEN NULL ELSE lock[l]]

\* Drop of one guard.
drop(c, l) ==
    /\ pc[c] = "run" /\ l \in held[c]
    /\ lock' = Unlocked({l})
    /\ held' = [held EXCEPT ![c] = @ \ {l}]
    /\ UNCHANGED <<pc, packet, want, entries, left>>

\* The program returns Ok or Err; its scopes drop the guards that are left.
Return(c) ==
    /\ pc[c] = "run" /\ pc' = [pc EXCEPT ![c] = "idle"]
    /\ lock' = Unlocked(held[c])
    /\ held' = [held EXCEPT ![c] = {}]
    /\ UNCHANGED <<packet, want, entries, left>>

-----------------------------------------------------------------------------
(* Panics.                                                                 *)

\* An assertion, an index, an unwrap, or __iu_check_stack on any call.
panic(c) ==
    /\ pc[c] = "run" /\ pc' = [pc EXCEPT ![c] = "panic"]
    /\ UNCHANGED <<packet, locks>>

\* The handler first runs the cleanup entries of this CPU and invalidates them.
cleanup_all(c) ==
    /\ pc[c] = "panic" /\ pc' = [pc EXCEPT ![c] = "landing"]
    /\ LET cleaned == {l \in Lock : \E s \in Slot : entries[c][s] = l} IN
          /\ lock' = Unlocked(cleaned)
          /\ left' = (left \ cleaned) \cup (held[c] \ cleaned)
    /\ entries' = [entries EXCEPT ![c] = [s \in Slot |-> NULL]]
    /\ held' = [held EXCEPT ![c] = {}]
    /\ UNCHANGED <<packet, want>>

\* The kernel abandons the program's stack.
iu_landingpad(c) ==
    /\ pc[c] = "landing" /\ pc' = [pc EXCEPT ![c] = "idle"]
    /\ UNCHANGED <<packet, locks>>

-----------------------------------------------------------------------------
PacketStep(c) ==
    \/ data_slice(c) \/ data_slice_mut(c)
    \/ \E h \in {ETH, IP, UDP, TCP} : Header(c, h) \/ HeaderPanics(c, h)
    \/ bpf_xdp_adjust_tail(c) \/ bpf_clone_redirect(c)

LockStep(c) ==
    \/ \E l \in Lock : iu_spinlock_guard_new(c, l) \/ drop(c, l)
    \/ bpf_spin_lock(c)

Next ==
    \E c \in CPU : \/ prog_run(c) \/ PacketStep(c) \/ LockStep(c)
                   \/ Return(c) \/ panic(c) \/ cleanup_all(c)
                   \/ iu_landingpad(c)

Spec == Init /\ [][Next]_vars

-----------------------------------------------------------------------------
(* Safety.                                                                 *)

\* A view borrowed from the context lies inside the packet as it is now,
\* whatever helpers were called since it was built or since the context was
\* filled in. For xdp_md this includes the field data_slice; that of __sk_buff
\* stays on the old buffer when bpf_clone_redirect fails.
Inside(c, v) == v.buf = pkt[c].buf /\ v.end <= pkt[c].len

ViewsInside ==
    \A c \in CPU : \A v \in views[c] :
        v.of = "context" \/ (v.of = "field" /\ kind[c] = "xdp")
            => Inside(c, v)

\* A lock is taken exactly while one guard for it is live, on the CPU that took
\* it, except for the locks that panicking programs left behind.
GuardsOwnLocks ==
    \A c \in CPU, l \in Lock :
        l \in held[c] <=> (lock[l] = c /\ l \notin left)

\* The guards, the helpers and the panic handler together implement locks that
\* pass from owner to owner, on any CPUs: no guard, whatever drops or forgets it,
\* unlocks what somebody else has locked or what a panic has left.
Shared == INSTANCE SharedLocks WITH owner <- lock, lost <- left

LocksAreShared == Shared!Spec

-----------------------------------------------------------------------------
(* What the documents promise and the code does not keep.                  *)

\* panic.rs:79: the handler cleans up everything, so a CPU that runs no program
\* has no lock.
PanicReleases ==
    \A l \in Lock : lock[l] # NULL => pc[lock[l]] # "idle"
=============================================================================
