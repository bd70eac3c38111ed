----------------------------- MODULE SharedLocks ------------------------------
(***************************************************************************)
(* What bpf_spin_lock promises to the programs that share locks: a lock    *)
(* passes from one CPU to another only through its owner, who releases it, *)
(* and a lock that its owner gave up without releasing is never had again. *)
(***************************************************************************)
CONSTANTS CPU, Lock, NULL

VARIABLES
    owner,     \* the CPU that took a lock
    lost       \* the locks whose owner has gone

vars == <<owner, lost>>

OwnedBy(c) == {l \in Lock : owner[l] = c}

Init == owner = [l \in Lock |-> NULL] /\ lost = {}

Acquire(c, l) ==
    /\ owner[l] = NULL
    /\ owner' = [owner EXCEPT ![l] = c]
    /\ UNCHANGED lost

\* One lock, or several at a time.
Release(S) ==
    /\ S \cap lost = {}
    /\ owner' = [l \in Lock |-> IF l \in S THEN NULL ELSE owner[l]]
    /\ UNCHANGED lost

\* A CPU gives up all that it owns, and owns it still.
Lose(c) == lost' = lost \cup OwnedBy(c) /\ UNCHANGED owner

Next ==
    \E c \in CPU :
        \/ \E l \in Lock : Acquire(c, l)
        \/ \E S \in SUBSET OwnedBy(c) : Release(S)
        \/ Lose(c)

Spec == Init /\ [][Next]_vars
=============================================================================
