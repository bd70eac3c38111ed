-------------------------------- MODULE Maps ---------------------------------
(***************************************************************************)
(* Programs that share the kernel's maps (inner_unikernel_rt/src/map.rs    *)
(* and base_helper.rs): samples/map_test, attached to a system call and so *)
(* run on several CPUs at once, programs that send records through a ring  *)
(* buffer, and programs that share a queue. A helper call is one step; the *)
(* maps are the kernel's, the programs keep references into them between   *)
(* steps.                                                                  *)
(***************************************************************************)
EXTENDS Integers, Sequences, FiniteSets

CONSTANTS
    CPU,
    Pid,          \* process numbers
    Slot,         \* elements the hash map takes from for its keys
    Capacity,     \* records that fit in the ring buffer, values in the queue
    MaxRecords,   \* bound: records that are reserved, values that are pushed
    NULL,
    EINVAL, ENOENT, ENOMEM, E2BIG

ASSUME MapsAssumption ==
    /\ Pid \subseteq Nat \ {0}
    /\ NULL \notin Slot \cup {"array"} /\ "array" \notin Slot
    /\ Capacity \in Nat \ {0} /\ MaxRecords \in Nat
    /\ {EINVAL, ENOENT, ENOMEM, E2BIG} \subseteq Nat \ {0}

VARIABLES
    prog,       \* the program that is attached
    bound,      \* the loader has given the maps their kernel objects
    pc,         \* the helper a program calls next
    pid,        \* the task a program runs in, -1 if there is none
    element,    \* the hash map: the element of key 0
    value,      \* values of elements, free ones too, and of array[0]
    ref,        \* the reference a lookup has returned
    saw,        \* history: what a program printed of values, while alone
    result,     \* what it returned, Err(0) before
    alone,      \* history: nothing else has run since it began
    reserved, consumed,   \* the ring buffer's records are numbered from 1
    state, data,          \* of its records
    writer,     \* history: the task that reserved a record
    mine,       \* the record a program has reserved and not submitted
    delivered,  \* history: what the consumer has read
    queue,      \* the values in the queue, the oldest first
    pushed, popped   \* history: all that were pushed, and popped

hash == <<element, value, ref, saw, alone>>
recs == <<state, data, writer>>
ring == <<recs, reserved, consumed, mine, delivered>>
fifo == <<queue, pushed, popped>>
vars == <<prog, bound, pc, pid, result, hash, ring, fifo>>

None   == -2                \* printed for a key that is not found
NoTask == -1
MapTest == {"lookup1", "update", "lookup2", "delete", "lookup3",
            "update2", "lookup4"}
RingProgram == {"reserve", "write", "submit"}
QueueProgram == {"push", "peek", "pop"}
Programs == {"map_test", "ring", "queue"}

\* The helper a program calls first.
Entry == CASE prog = "map_test" -> "lookup1"
           [] prog = "ring"     -> "reserve"
           [] prog = "queue"    -> "push"

Returned == [ok : BOOLEAN, val : Int]

TypeOK ==
    /\ prog \in Programs /\ bound \in BOOLEAN
    /\ pc \in [CPU -> {"idle"} \cup MapTest \cup RingProgram \cup QueueProgram]
    /\ pid \in [CPU -> Pid \cup {NoTask}]
    /\ element \in Slot \cup {NULL}
    /\ value \in [Slot \cup {"array"} -> Pid \cup {0, NoTask}]
    /\ ref \in [CPU -> Slot \cup {"array", NULL}]
    /\ saw \in [CPU -> Seq(Pid \cup {0, NoTask, None})]
    /\ result \in [CPU -> Returned]
    /\ alone \in [CPU -> BOOLEAN]
    /\ state \in [1 .. MaxRecords -> {"free", "busy", "ready"}]
    /\ data \in [1 .. MaxRecords -> Int] /\ writer \in [1 .. MaxRecords -> Int]
    /\ reserved \in 0 .. MaxRecords /\ consumed \in 0 .. reserved
    /\ reserved - consumed <= Capacity
    /\ mine \in [CPU -> 0 .. reserved]
    /\ delivered \in Seq(Int) /\ Len(delivered) = consumed
    /\ queue \in Seq(Pid \cup {NoTask}) /\ Len(queue) <= Capacity
    /\ pushed \in Seq(Pid \cup {NoTask}) /\ popped \in Seq(Pid \cup {NoTask})

to_result(val) == [ok |-> val >= 0, val |-> val]
Err(val)       == [ok |-> FALSE, val |-> val]
Ok0            == [ok |-> TRUE, val |-> 0]

\* IUMap::new leaves the pointer to the kernel's map null, for the loader.
Init ==
    /\ prog \in Programs /\ bound \in BOOLEAN
    /\ pc = [c \in CPU |-> "idle"] /\ pid = [c \in CPU |-> NoTask]
    /\ element = NULL /\ value = [s \in Slot \cup {"array"} |-> 0]
    /\ ref = [c \in CPU |-> NULL] /\ saw = [c \in CPU |-> <<>>]
    /\ result = [c \in CPU |-> Err(0)]
    /\ alone = [c \in CPU |-> FALSE]
    /\ state = [i \in 1 .. MaxRecords |-> "free"]
    /\ data = [i \in 1 .. MaxRecords |-> 0]
    /\ writer = [i \in 1 .. MaxRecords |-> 0]
    /\ reserved = 0 /\ consumed = 0 /\ mine = [c \in CPU |-> 0]
    /\ delivered = <<>>
    /\ queue = <<>> /\ pushed = <<>> /\ popped = <<>>

\* Mutant: a program without a task takes what it reads through a null pointer.
prog_run_null(c) ==
    /\ pc[c] = "idle"
    /\ pid' = [pid EXCEPT ![c] = 0]
    /\ pc' = [pc EXCEPT ![c] = Entry]
    /\ UNCHANGED <<prog, bound, result, hash, ring, fifo>>

\* The kernel calls a program: get_current_task is asked for the pid.
prog_run(c) ==
    /\ pc[c] = "idle"
    /\ \E p \in Pid \cup {NoTask} : pid' = [pid EXCEPT ![c] = p]
    /\ pc' = [pc EXCEPT ![c] = Entry]
    /\ alone' = [d \in CPU |-> d = c /\ \A e \in CPU \ {c} : pc[e] = "idle"]
    /\ saw' = [d \in CPU |-> <<>>]
    /\ result' = [result EXCEPT ![c] = Err(0)]
    /\ UNCHANGED <<prog, bound, element, value, ref, ring, fifo>>

Return(c, r) ==
    /\ pc' = [pc EXCEPT ![c] = "idle"]
    /\ result' = [result EXCEPT ![c] = r]

-----------------------------------------------------------------------------
(* map_test. The stages follow each other; ? ends a program at an error.   *)

Stages == <<"lookup1", "update", "lookup2", "delete", "lookup3",
            "update2", "lookup4">>

\* A program goes on to the next stage, or returns Ok(0) behind the last.
Continue(c) ==
    \E i \in DOMAIN Stages :
       /\ Stages[i] = pc[c]
       /\ IF i = Len(Stages)
          THEN Return(c, Ok0)
          ELSE pc' = [pc EXCEPT ![c] = Stages[i + 1]] /\ UNCHANGED result

\* What a program does with the result of a helper that may fail.
Question(c, r) == IF r.ok THEN Continue(c) ELSE Return(c, r)

Looks(c) == pc[c] \in {"lookup1", "lookup2", "lookup3", "lookup4"}

Note(c, v) == saw' = IF alone[c] THEN [saw EXCEPT ![c] = Append(@, v)] ELSE saw

\* A map without a kernel object finds nothing.
bpf_map_lookup_elem(c) ==
    /\ Looks(c) /\ ref[c] = NULL
    /\ LET found == IF ~ bound THEN NULL
                    ELSE IF pc[c] = "lookup4" THEN "array" ELSE element IN
       IF found = NULL
       THEN /\ Note(c, None) /\ Continue(c)
            /\ UNCHANGED ref
       ELSE ref' = [ref EXCEPT ![c] = found] /\ UNCHANGED <<saw, pc, result>>
    /\ UNCHANGED <<prog, bound, pid, element, value, alone, ring, fifo>>

\* The value is read when it is printed: meanwhile its element may be deleted,
\* and taken for another value. Errors of printing are dropped.
bpf_printk(c) ==
    /\ Looks(c) /\ ref[c] # NULL
    /\ Note(c, value[ref[c]])
    /\ ref' = [ref EXCEPT ![c] = NULL]
    /\ Continue(c)
    /\ UNCHANGED <<prog, bound, pid, element, value, alone, ring, fifo>>

\* The kernel puts a new element in the place of the old one, which is free at
\* once, or finds no memory. An array is written in place.
bpf_map_update_elem(c) ==
    /\ \/ /\ pc[c] \in {"update", "update2"} /\ ~ bound
          /\ Question(c, Err(EINVAL)) /\ UNCHANGED <<element, value>>
       \/ /\ pc[c] = "update" /\ bound
          /\ \/ \E s \in Slot \ {element} :
                   /\ element' = s /\ value' = [value EXCEPT ![s] = pid[c]]
                   /\ Question(c, to_result(0))
             \/ Question(c, to_result(-ENOMEM)) /\ UNCHANGED <<element, value>>
       \/ /\ pc[c] = "update2" /\ bound
          /\ value' = [value EXCEPT !["array"] = pid[c]]
          /\ Question(c, to_result(0)) /\ UNCHANGED element
    /\ UNCHANGED <<prog, bound, pid, ref, saw, alone, ring, fifo>>

\* Mutant: the check for a map without a kernel object is inverted.
bpf_map_delete_elem_inverted(c) ==
    /\ pc[c] = "delete"
    /\ IF ~ bound THEN element' = NULL ELSE UNCHANGED element
    /\ Question(c, IF bound THEN Err(EINVAL)
                   ELSE to_result(IF element = NULL THEN -ENOENT ELSE 0))
    /\ UNCHANGED <<prog, bound, pid, value, ref, saw, alone, ring, fifo>>

bpf_map_delete_elem(c) ==
    /\ pc[c] = "delete"
    /\ IF bound THEN element' = NULL ELSE UNCHANGED element
    /\ Question(c, IF ~ bound THEN Err(EINVAL)
                   ELSE to_result(IF element = NULL THEN -ENOENT ELSE 0))
    /\ UNCHANGED <<prog, bound, pid, value, ref, saw, alone, ring, fifo>>

-----------------------------------------------------------------------------
(* The ring buffer. A program reserves a record, writes its pid into it    *)
(* and submits it. A panic in between leaves the record as it is: records  *)
(* are no cleanup entries.                                                 *)

bpf_ringbuf_reserve(c) ==
    /\ pc[c] = "reserve" /\ reserved < MaxRecords
    /\ IF bound /\ reserved - consumed < Capacity
       THEN /\ reserved' = reserved + 1
            /\ state' = [state EXCEPT ![reserved'] = "busy"]
            /\ writer' = [writer EXCEPT ![reserved'] = pid[c]]
            /\ mine' = [mine EXCEPT ![c] = reserved']
            /\ pc' = [pc EXCEPT ![c] = "write"] /\ UNCHANGED result
       ELSE Return(c, Ok0) /\ UNCHANGED <<reserved, state, writer, mine>>
    /\ UNCHANGED <<prog, bound, pid, hash, data, consumed, delivered, fifo>>

Write(c) ==
    /\ pc[c] = "write" /\ pc' = [pc EXCEPT ![c] = "submit"]
    /\ data' = [data EXCEPT ![mine[c]] = pid[c]]
    /\ UNCHANGED <<prog, bound, pid, result, hash,
                   state, writer, reserved, consumed, mine, delivered, fifo>>

\* Mutant: the record is still the program's when it is submitted.
bpf_ringbuf_submit_early(c) ==
    /\ pc[c] = "write" /\ state[mine[c]] = "busy"
    /\ state' = [state EXCEPT ![mine[c]] = "ready"]
    /\ UNCHANGED <<prog, bound, pc, pid, result, hash,
                   data, writer, reserved, consumed, mine, delivered, fifo>>

\* Mutant: the record is not marked.
bpf_ringbuf_submit_lost(c) ==
    /\ pc[c] = "submit"
    /\ Return(c, Ok0)
    /\ UNCHANGED <<prog, bound, pid, hash, ring, fifo>>

bpf_ringbuf_submit(c) ==
    /\ pc[c] = "submit"
    /\ state' = [state EXCEPT ![mine[c]] = "ready"]
    /\ mine' = [mine EXCEPT ![c] = 0]
    /\ Return(c, Ok0)
    /\ UNCHANGED <<prog, bound, pid, hash, data, writer,
                   reserved, consumed, delivered, fifo>>

\* The same holds of a value that a program has pushed and not popped.
panic(c) ==
    /\ pc[c] \in {"write", "submit", "peek", "pop"}
    /\ pc' = [pc EXCEPT ![c] = "idle"] /\ mine' = [mine EXCEPT ![c] = 0]
    /\ UNCHANGED <<prog, bound, pid, result, hash,
                   recs, reserved, consumed, delivered, fifo>>

\* The consumer takes records in their order and waits for a busy one.
Consume ==
    /\ consumed < reserved /\ state[consumed + 1] = "ready"
    /\ consumed' = consumed + 1
    /\ delivered' = Append(delivered, data[consumed'])
    /\ UNCHANGED <<prog, bound, pc, pid, result, hash, recs, reserved, mine, fifo>>

-----------------------------------------------------------------------------
(* The queue. A program pushes its pid, looks at the oldest value and pops *)
(* it; each call may end it. Where the value goes is left out.             *)

bpf_map_push_elem(c) ==
    /\ pc[c] = "push" /\ Len(pushed) < MaxRecords
    /\ IF bound /\ Len(queue) < Capacity
       THEN /\ queue' = Append(queue, pid[c])
            /\ pushed' = Append(pushed, pid[c])
            /\ pc' = [pc EXCEPT ![c] = "peek"] /\ UNCHANGED result
       ELSE /\ Return(c, IF bound THEN to_result(-E2BIG) ELSE Err(EINVAL))
            /\ UNCHANGED <<queue, pushed>>
    /\ UNCHANGED <<prog, bound, pid, hash, ring, popped>>

bpf_map_peek_elem(c) ==
    /\ pc[c] = "peek"
    /\ IF bound /\ queue # <<>>
       THEN pc' = [pc EXCEPT ![c] = "pop"] /\ UNCHANGED result
       ELSE Return(c, IF bound THEN to_result(-ENOENT) ELSE Err(EINVAL))
    /\ UNCHANGED <<prog, bound, pid, hash, ring, fifo>>

\* Mutant: the kernel's peek is called, of three functions that look alike.
bpf_map_pop_elem_peek(c) ==
    /\ pc[c] = "pop"
    /\ IF bound /\ queue # <<>>
       THEN /\ popped' = Append(popped, Head(queue))
            /\ Return(c, Ok0) /\ UNCHANGED queue
       ELSE /\ Return(c, IF bound THEN to_result(-ENOENT) ELSE Err(EINVAL))
            /\ UNCHANGED <<queue, popped>>
    /\ UNCHANGED <<prog, bound, pid, hash, ring, pushed>>

bpf_map_pop_elem(c) ==
    /\ pc[c] = "pop"
    /\ IF bound /\ queue # <<>>
       THEN /\ queue' = Tail(queue) /\ popped' = Append(popped, Head(queue))
            /\ Return(c, Ok0)
       ELSE /\ Return(c, IF bound THEN to_result(-ENOENT) ELSE Err(EINVAL))
            /\ UNCHANGED <<queue, popped>>
    /\ UNCHANGED <<prog, bound, pid, hash, ring, pushed>>

-----------------------------------------------------------------------------
Step(c) ==
    \/ bpf_map_lookup_elem(c) \/ bpf_printk(c)
    \/ bpf_map_update_elem(c) \/ bpf_map_delete_elem(c)
    \/ bpf_ringbuf_reserve(c) \/ Write(c) \/ bpf_ringbuf_submit(c)
    \/ bpf_map_push_elem(c) \/ bpf_map_peek_elem(c) \/ bpf_map_pop_elem(c)

Next == Consume \/ \E c \in CPU : prog_run(c) \/ Step(c) \/ panic(c)

Spec == Init /\ [][Next]_vars

\* A program runs on until it returns, and the consumer goes on polling.
FairSpec == Spec /\ WF_vars(Consume) /\ \A c \in CPU : WF_vars(Step(c))

-----------------------------------------------------------------------------
(* Correctness.                                                            *)

\* However runs of map_test overlap, and whichever of them fail, the key is
\* gone unless a program is on its way from its update to its deletion.
CleanAfter ==
    (\A c \in CPU : pc[c] \notin {"lookup2", "delete"}) => element = NULL

\* A run that overlaps no other finds nothing, its own pid, nothing, and its
\* own pid in the array, unless the kernel finds no memory or the maps were
\* never bound.
AloneSucceeds ==
    \A c \in CPU :
       prog = "map_test" /\ alone[c] /\ pc[c] = "idle" =>
          IF bound
          THEN \/ /\ result[c] = Ok0
                  /\ saw[c] = <<None, pid[c], None, pid[c]>>
               \/ result[c] = Err(-ENOMEM) /\ saw[c] = <<None>>
          ELSE result[c] = Err(EINVAL)

\* The consumer gets the records in the order of their reservation, each as its
\* program completed it.
RecordsComplete == \A i \in 1 .. consumed : delivered[i] = writer[i]

\* Values leave the queue once each and in the order they came, and who pushed
\* one finds something to pop, however runs overlap and whichever panic: pop
\* returns no -ENOENT.
QueueServes ==
    /\ popped \o queue = pushed
    /\ Cardinality({c \in CPU : pc[c] \in {"peek", "pop"}}) <= Len(queue)

\* No program will submit it.
Abandoned(i) == state[i] = "busy" /\ \A c \in CPU : mine[c] # i

\* Every record reserved reaches the consumer, unless a panic abandoned it or
\* one before it.
RecordsDelivered ==
    \A i \in 1 .. MaxRecords :
       reserved >= i ~> consumed >= i \/ \E j \in 1 .. i : Abandoned(j)
=============================================================================
