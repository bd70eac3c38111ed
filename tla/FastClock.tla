------------------------------ MODULE FastClock ------------------------------
(***************************************************************************)
(* The clock of the runtime (inner_unikernel_rt/src/timekeeping.rs with    *)
(* seqlock.rs): programs read the kernel's fast timekeeper without a lock. *)
(* It is a latch: two copies of what converts a counter into a time and a  *)
(* sequence number whose low bit says which copy to use, so that a reader  *)
(* that interrupts an update always finds a copy nobody is writing.        *)
(*                                                                         *)
(* Times are in ticks of the counter (mult is 1 and shift is 0). seq is    *)
(* kept as the pair of its low bit and the bits above it.                  *)
(***************************************************************************)
EXTENDS Integers, FiniteSets

CONSTANTS
    Reader,
    HalfTurn,    \* half a turn of the hardware counter
    Rounds,      \* values of the bits of seq above the lowest
    MaxTime,     \* bound: the ticks of the counter
    MaxResumes   \* bound: how often the machine resumes from sleep

ASSUME FastClockAssumption ==
    /\ HalfTurn \in Nat /\ Rounds \in Nat \ {0}
    /\ MaxTime \in Nat /\ MaxResumes \in Nat

VARIABLES
    time,    \* ticks since the start
    offs,    \* offs_boot: ticks the machine slept
    cycle,   \* the hardware counter
    seq,     \* seq of struct TimeKeeperFast
    base,    \* its two copies
    new,     \* the update being written into the copies
    left,    \* fields the writer has not come to in the copy it writes
    asks, from, ret,   \* the reads, as in AtomicClock
    pc,      \* a reader: idle, seq, read, offs
    start,   \* the sequence number it read
    todo,    \* fields it has not read
    got,     \* fields it has read
    now,     \* the monotonic time it has computed
    lag      \* history: increments of seq since it read it

clock  == <<time, offs, cycle>>
writer == <<seq, base, new, left>>
local  == <<start, todo, got, now>>
vars   == <<clock, writer, asks, from, ret, pc, local, lag>>

Mask  == 2 * HalfTurn + 1
Turn  == 0 .. Mask
Field == {"base", "cycle_last"}
Read  == Field \cup {"cycle"}
Seq   == [high : 0 .. Rounds - 1, low : 0 .. 1]

TypeOK ==
    /\ time \in 0 .. MaxTime /\ offs \in 0 .. MaxResumes /\ cycle \in Turn
    /\ seq \in Seq
    /\ base \in [0 .. 1 -> [Field -> Nat]]
    /\ new \in [Field -> Nat]
    /\ left \in SUBSET Field
    /\ asks \in [Reader -> {"none", "mono", "boot"}]
    /\ from \in [Reader -> Nat] /\ ret \in [Reader -> Nat]
    /\ pc \in [Reader -> {"idle", "seq", "read", "offs"}]
    /\ start \in [Reader -> Seq]
    /\ todo \in [Reader -> SUBSET Read]
    /\ got \in [Reader -> [Read -> Nat]]
    /\ now \in [Reader -> Nat]
    /\ lag \in [Reader -> 0 .. 2 * Rounds - 1]

Init ==
    /\ time = 0 /\ offs = 0 /\ cycle \in Turn
    /\ seq = [high |-> 0, low |-> 0]
    /\ new = [f \in Field |-> IF f = "base" THEN 0 ELSE cycle]
    /\ base = [i \in 0 .. 1 |-> new]
    /\ left = {}
    /\ asks = [r \in Reader |-> "none"]
    /\ from = [r \in Reader |-> 0] /\ ret = [r \in Reader |-> 0]
    /\ pc = [r \in Reader |-> "idle"]
    /\ start = [r \in Reader |-> seq]
    /\ todo = [r \in Reader |-> {}]
    /\ got = [r \in Reader |-> [f \in Read |-> 0]]
    /\ now = [r \in Reader |-> 0]
    /\ lag = [r \in Reader |-> 0]

-----------------------------------------------------------------------------
(* The kernel: the counter, sleep, and the writer of the timekeeper.       *)

\* Time goes on; the kernel updates the timekeeper at least once in half a turn
\* of the counter.
Tick ==
    /\ time < MaxTime /\ time - base[seq.low]["base"] < HalfTurn
    /\ time' = time + 1
    /\ cycle' = IF cycle = Mask THEN 0 ELSE cycle + 1
    /\ UNCHANGED <<offs, writer, asks, from, ret, pc, local, lag>>

\* Resuming from sleep adds to the offset of the boot clock.
Resume ==
    /\ offs < MaxResumes /\ offs' = offs + 1
    /\ UNCHANGED <<time, cycle, writer, asks, from, ret, pc, local, lag>>

\* seq wraps around. No reader is interrupted while all its values go by.
Increment ==
    /\ \A r \in Reader : pc[r] = "read" => lag[r] < 2 * Rounds - 1
    /\ lag' = [r \in Reader |-> IF pc[r] = "read" THEN lag[r] + 1 ELSE lag[r]]
    /\ seq' = [high |-> IF seq.low = 0 THEN seq.high
                       ELSE IF seq.high = Rounds - 1 THEN 0 ELSE seq.high + 1,
               low |-> 1 - seq.low]

\* An update, at most one a tick: readers are sent to copy 1, copy 0 is
\* written, readers are sent back, copy 1 is written.
UpdateBegin ==
    /\ seq.low = 0 /\ left = {} /\ base[0]["base"] < time
    /\ Increment
    /\ new' = [f \in Field |-> IF f = "base" THEN time ELSE cycle]
    /\ left' = Field
    /\ UNCHANGED <<clock, base, asks, from, ret, pc, local>>

UpdateField(f) ==
    /\ f \in left /\ left' = left \ {f}
    /\ base' = [base EXCEPT ![1 - seq.low][f] = new[f]]
    /\ UNCHANGED <<clock, seq, new, asks, from, ret, pc, local, lag>>

UpdateSwitch ==
    /\ seq.low = 1 /\ left = {}
    /\ Increment
    /\ left' = Field
    /\ UNCHANGED <<clock, base, new, asks, from, ret, pc, local>>

WriterStep == UpdateBegin \/ UpdateSwitch \/ \E f \in Field : UpdateField(f)

-----------------------------------------------------------------------------
(* The reader.                                                             *)

\* Mutant: the difference is not taken modulo the width of the counter.
clocksource_delta_unmasked(cur, last) == cur - last

\* (cur - last) & mask for two readings of the counter, and 0 when that is more
\* than half a turn.
clocksource_delta(cur, last) ==
    LET d == IF cur >= last THEN cur - last ELSE cur + Mask + 1 - last IN
    IF d > HalfTurn THEN 0 ELSE d

\* ktime_get_mono_fast_ns and ktime_get_boot_fast_ns begin.
ktime_get_fast_ns(r, k) ==
    /\ pc[r] = "idle" /\ pc' = [pc EXCEPT ![r] = "seq"]
    /\ asks' = [asks EXCEPT ![r] = k]
    /\ from' = [from EXCEPT ![r] = IF k = "mono" THEN time ELSE time + offs]
    /\ UNCHANGED <<clock, writer, ret, local, lag>>

\* Mutant: the reader of an ordinary sequence lock waits for the writer.
raw_read_seqcount_even(r) ==
    /\ pc[r] = "seq" /\ pc' = [pc EXCEPT ![r] = "read"]
    /\ seq.low = 0
    /\ start' = [start EXCEPT ![r] = seq]
    /\ todo' = [todo EXCEPT ![r] = Read]
    /\ lag' = [lag EXCEPT ![r] = 0]
    /\ UNCHANGED <<clock, writer, asks, from, ret, got, now>>

raw_read_seqcount_latch(r) ==
    /\ pc[r] = "seq" /\ pc' = [pc EXCEPT ![r] = "read"]
    /\ start' = [start EXCEPT ![r] = seq]
    /\ todo' = [todo EXCEPT ![r] = Read]
    /\ lag' = [lag EXCEPT ![r] = 0]
    /\ UNCHANGED <<clock, writer, asks, from, ret, got, now>>

\* One of the plain reads from the copy, or of the counter (tk_clock_read).
\* Nothing orders them between the two reads of seq.
ReadField(r, f) ==
    /\ pc[r] = "read" /\ f \in todo[r]
    /\ todo' = [todo EXCEPT ![r] = @ \ {f}]
    /\ got' = [got EXCEPT ![r][f] =
                  IF f = "cycle" THEN cycle ELSE base[start[r].low][f]]
    /\ UNCHANGED <<clock, writer, asks, from, ret, pc, start, now, lag>>

\* Mutant: only the low bit is compared.
read_seqcount_latch_retry_low(r) == seq.low # start[r].low

read_seqcount_latch_retry(r) == seq # start[r]

\* The time an iteration computes.
Computed(r) ==
    got[r]["base"] + clocksource_delta(got[r]["cycle"], got[r]["cycle_last"])

\* got and now are 0 outside of the code that uses them.
Retry(r) ==
    /\ pc[r] = "read" /\ todo[r] = {} /\ read_seqcount_latch_retry(r)
    /\ pc' = [pc EXCEPT ![r] = "seq"]
    /\ got' = [got EXCEPT ![r] = [f \in Read |-> 0]]
    /\ UNCHANGED <<clock, writer, asks, from, ret, start, todo, now, lag>>

Done(r) ==
    /\ pc[r] = "read" /\ todo[r] = {} /\ ~ read_seqcount_latch_retry(r)
    /\ \/ /\ asks[r] = "boot" /\ pc' = [pc EXCEPT ![r] = "offs"]
          /\ now' = [now EXCEPT ![r] = Computed(r)]
          /\ UNCHANGED <<asks, ret>>
       \/ /\ asks[r] = "mono" /\ pc' = [pc EXCEPT ![r] = "idle"]
          /\ asks' = [asks EXCEPT ![r] = "none"]
          /\ ret' = [ret EXCEPT ![r] = Computed(r)]
          /\ UNCHANGED now
    /\ got' = [got EXCEPT ![r] = [f \in Read |-> 0]]
    /\ UNCHANGED <<clock, writer, from, start, todo, lag>>

\* The boot clock adds offs_boot, read without any lock.
AddOffset(r) ==
    /\ pc[r] = "offs" /\ pc' = [pc EXCEPT ![r] = "idle"]
    /\ asks' = [asks EXCEPT ![r] = "none"]
    /\ ret' = [ret EXCEPT ![r] = now[r] + offs]
    /\ now' = [now EXCEPT ![r] = 0]
    /\ UNCHANGED <<clock, writer, from, start, todo, got, lag>>

ReaderStep(r) ==
    \/ raw_read_seqcount_latch(r)
    \/ \E f \in Read : ReadField(r, f)
    \/ Retry(r) \/ Done(r) \/ AddOffset(r)

Next ==
    \/ Tick \/ Resume \/ WriterStep
    \/ \E r \in Reader :
          ReaderStep(r) \/ \E k \in {"mono", "boot"} : ktime_get_fast_ns(r, k)

Spec == Init /\ [][Next]_vars

\* A program that reads the clock runs on; the writer it interrupted may not.
FairSpec == Spec /\ \A r \in Reader : WF_vars(ReaderStep(r))

-----------------------------------------------------------------------------
(* Correctness.                                                            *)

Atomic == INSTANCE AtomicClock WITH mono <- time, boot <- time + offs

\* Whatever the writer does meanwhile, ktime_get_fast_ns returns a time at which
\* the clock stood between its call and its return.
ReadsAreAtomic == Atomic!Spec

\* A read ends even if the writer stops in the middle of an update for ever,
\* as it does while the reader interrupts it.
ReadsEnd == \A r \in Reader : pc[r] # "idle" ~> pc[r] = "idle"
=============================================================================
