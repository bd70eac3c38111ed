----------------------------- MODULE AtomicClock -----------------------------
(***************************************************************************)
(* What a clock promises to those who read it: a read returns a time at    *)
(* which the clock stood between the call and the return. There are two    *)
(* clocks; mono stands still while the machine sleeps and boot does not.   *)
(***************************************************************************)
EXTENDS Integers

CONSTANT Reader

VARIABLES mono, boot,
          asks,    \* the clock a reader is reading, or none
          from,    \* what that clock showed at the call
          ret      \* what the last read returned

vars == <<mono, boot, asks, from, ret>>

Shows(k) == IF k = "mono" THEN mono ELSE boot

Init ==
    /\ mono = 0 /\ boot = 0
    /\ asks = [r \in Reader |-> "none"]
    /\ from = [r \in Reader |-> 0]
    /\ ret = [r \in Reader |-> 0]

Advance == mono' = mono + 1 /\ boot' = boot + 1 /\ UNCHANGED <<asks, from, ret>>
Resume  == boot' = boot + 1 /\ UNCHANGED <<mono, asks, from, ret>>

Call(r, k) ==
    /\ asks[r] = "none"
    /\ asks' = [asks EXCEPT ![r] = k]
    /\ from' = [from EXCEPT ![r] = Shows(k)]
    /\ UNCHANGED <<mono, boot, ret>>

Return(r) ==
    /\ asks[r] # "none"
    /\ \E t \in from[r] .. Shows(asks[r]) : ret' = [ret EXCEPT ![r] = t]
    /\ asks' = [asks EXCEPT ![r] = "none"]
    /\ UNCHANGED <<mono, boot, from>>

Next ==
    \/ Advance \/ Resume
    \/ \E r \in Reader : Return(r) \/ \E k \in {"mono", "boot"} : Call(r, k)

Spec == Init /\ [][Next]_vars
=============================================================================
