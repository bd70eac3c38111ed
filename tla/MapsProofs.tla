----------------------------- MODULE MapsProofs ------------------------------
(***************************************************************************)
(* Runs of map_test leave no key behind, the ring buffer delivers complete *)
(* records, and no value of the queue is lost or popped twice, for every   *)
(* number of CPUs, elements and records.                                   *)
(***************************************************************************)
EXTENDS Maps, TLAPS, SequenceTheorems, FiniteSetTheorems

Stage == {"idle"} \cup MapTest \cup RingProgram \cup QueueProgram

-----------------------------------------------------------------------------
(* The inductive invariant.                                                *)

\* The key is there for a program that will delete it.
Key ==
    /\ element # NULL => \E c \in CPU : pc[c] \in {"lookup2", "delete"}
    /\ ~ bound => element = NULL

\* A program has a record between its reservation and its submission: it is
\* busy, behind the consumer, and nobody else's.
Owned(c) ==
    /\ pc[c] \in {"write", "submit"} <=> mine[c] # 0
    /\ mine[c] # 0 =>
          /\ mine[c] \in consumed + 1 .. reserved
          /\ state[mine[c]] = "busy" /\ writer[mine[c]] = pid[c]
          /\ \A d \in CPU : d # c => mine[d] # mine[c]
    /\ pc[c] = "submit" => data[mine[c]] = pid[c]

\* Records that are ready are complete, and those consumed were ready.
Complete ==
    /\ \A i \in 1 .. reserved : state[i] = "ready" => data[i] = writer[i]
    /\ \A i \in 1 .. consumed : state[i] = "ready"
    /\ RecordsComplete

Records == Complete /\ \A c \in CPU : Owned(c)

\* What a run of map_test that overlaps no other has printed at its stages.
Printed(c) ==
    CASE pc[c] = "lookup1" -> <<>>
      [] pc[c] \in {"update", "lookup2"} -> <<None>>
      [] pc[c] \in {"delete", "lookup3"} -> <<None, pid[c]>>
      [] OTHER -> <<None, pid[c], None>>

Succeeds(c) ==
    IF bound
    THEN \/ /\ result[c] = Ok0
            /\ saw[c] = <<None, pid[c], None, pid[c]>>
         \/ result[c] = Err(-ENOMEM) /\ saw[c] = <<None>>
    ELSE result[c] = Err(EINVAL)

\* Such a run finds what it has put into the maps itself: nobody else is there.
Alone(c) ==
    /\ \A d \in CPU \ {c} : pc[d] = "idle"
    /\ ref[c] # NULL => \/ pc[c] = "lookup2" /\ ref[c] = element
                        \/ pc[c] = "lookup4" /\ ref[c] = "array"
    /\ pc[c] \in MapTest => saw[c] = Printed(c)
    /\ ~ bound => pc[c] \in {"lookup1", "update", "idle"}
    /\ pc[c] \in {"lookup1", "lookup3"} => element = NULL
    /\ pc[c] \in {"lookup2", "delete"} => element # NULL
    /\ pc[c] = "lookup2" => value[element] = pid[c]
    /\ pc[c] = "lookup4" => value["array"] = pid[c]
    /\ pc[c] = "idle" => Succeeds(c)

Along(c) ==
    /\ pc[c] \in MapTest \cup {"idle"}
    /\ ref[c] # NULL => Looks(c)
    /\ alone[c] => Alone(c)

Runs == prog = "map_test" => \A c \in CPU : Along(c)

IInv == TypeOK /\ Key /\ Records /\ Runs

-----------------------------------------------------------------------------
(* Lemmas.                                                                 *)

Follower(s) ==
    CASE s = "lookup1" -> "update"
      [] s = "update"  -> "lookup2"
      [] s = "lookup2" -> "delete"
      [] s = "delete"  -> "lookup3"
      [] s = "lookup3" -> "update2"
      [] s = "update2" -> "lookup4"
      [] OTHER         -> "idle"

\* What going on to the next stage does to a program.
LEMMA Follows ==
    ASSUME NEW c \in CPU, Continue(c)
    PROVE  /\ pc[c] \in MapTest
           /\ pc' = [pc EXCEPT ![c] = Follower(pc[c])]
           /\ result' = result \/ result' = [result EXCEPT ![c] = Ok0]
           /\ pc[c] = "lookup4" => result' = [result EXCEPT ![c] = Ok0]
<1>1. PICK i \in 1 .. 7 :
         /\ Stages[i] = pc[c]
         /\ IF i = 7 THEN Return(c, Ok0)
            ELSE pc' = [pc EXCEPT ![c] = Stages[i + 1]] /\ UNCHANGED result
  BY DEF Continue, Stages
<1>2. CASE i = 7
  BY <1>1, <1>2 DEF Return, Stages, MapTest, Follower
<1>3. CASE i # 7
  <2>1. /\ Stages[i] \in MapTest /\ Stages[i + 1] = Follower(Stages[i])
        /\ Stages[i] # "lookup4"
    BY <1>3 DEF Stages, MapTest, Follower
  <2>. QED  BY <1>1, <1>3, <2>1
<1>. QED  BY <1>2, <1>3

\* The stages that follow are stages.
LEMMA FollowerType ==
    ASSUME NEW s \in MapTest
    PROVE  /\ Follower(s) \in MapTest \cup {"idle"}
           /\ s = "lookup2" => Follower(s) = "delete"
           /\ s = "update" => Follower(s) = "lookup2"
<1>. USE DEF Follower, MapTest
<1>1. s \in {"lookup1", "update", "lookup2", "delete"} => Follower(s) \in MapTest
  OBVIOUS
<1>2. s \in {"lookup3", "update2", "lookup4"} => Follower(s) \in MapTest \cup {"idle"}
  OBVIOUS
<1>3. Follower(s) \in MapTest \cup {"idle"}  BY <1>1, <1>2
<1>. QED  BY <1>3

\* Results are results.
LEMMA ReturnedType ==
    /\ Ok0 \in Returned /\ Ok0.ok
    /\ \A v \in Int : Err(v) \in Returned /\ ~ Err(v).ok
    /\ \A v \in Int : to_result(v) \in Returned /\ (to_result(v).ok <=> v >= 0)
<1>1. Ok0 \in Returned /\ Ok0.ok  BY DEF Ok0, Returned
<1>2. \A v \in Int : Err(v) \in Returned /\ ~ Err(v).ok  BY DEF Err, Returned
<1>3. ASSUME NEW v \in Int
      PROVE  to_result(v) \in Returned /\ (to_result(v).ok <=> v >= 0)
  <2>1. (v >= 0) \in BOOLEAN  OBVIOUS
  <2>. QED  BY <2>1, Zenon DEF to_result, Returned
<1>. QED  BY <1>1, <1>2, <1>3

\* Initially there is nothing.
LEMMA InitInvariant == Init => IInv
<1>. SUFFICES ASSUME Init PROVE IInv  OBVIOUS
<1>1. TypeOK  BY MapsAssumption, ReturnedType DEF Init, TypeOK
<1>2. Key /\ Records
  BY DEF Init, Key, Records, Complete, RecordsComplete, Owned
<1>3. Runs  BY DEF Init, Runs, Along
<1>. QED  BY <1>1, <1>2, <1>3 DEF IInv

\* Steps keep the types.
LEMMA TypeStep == TypeOK /\ Records /\ [Next]_vars => TypeOK'
<1>. SUFFICES ASSUME TypeOK, Records, [Next]_vars PROVE TypeOK'  OBVIOUS
<1>. USE DEF vars, hash, recs, ring, fifo, Stage
<1>0. /\ pc \in [CPU -> Stage]
      /\ result \in [CPU -> Returned] /\ pid \in [CPU -> Pid \cup {NoTask}]
      /\ reserved \in 0 .. MaxRecords /\ consumed \in 0 .. reserved
      /\ mine \in [CPU -> 0 .. reserved]
      /\ state \in [1 .. MaxRecords -> {"free", "busy", "ready"}]
      /\ writer \in [1 .. MaxRecords -> Int] /\ data \in [1 .. MaxRecords -> Int]
      /\ ENOMEM \in Nat \ {0} /\ ENOENT \in Nat \ {0} /\ EINVAL \in Nat \ {0}
      /\ E2BIG \in Nat \ {0}
  BY MapsAssumption DEF TypeOK
<1>a. MaxRecords \in Nat /\ Capacity \in Nat  BY MapsAssumption
<1>b. ASSUME NEW c \in CPU PROVE pid[c] \in Int
  <2>1. pid[c] \in Pid \/ pid[c] = -1  BY <1>0 DEF NoTask
  <2>2. \A p \in Pid : p \in Int  BY MapsAssumption
  <2>3. -1 \in Int  OBVIOUS
  <2>. QED  BY <2>1, <2>2, <2>3
<1>. USE <1>a, <1>b
<1>1. ASSUME NEW c \in CPU, prog_run(c) PROVE TypeOK'
  <2>1. pc' \in [CPU -> Stage]
    <3>1. Entry \in Stage
      BY DEF Entry, TypeOK, Programs, MapTest, RingProgram, QueueProgram
    <3>. QED  BY <3>1, <1>0, <1>1 DEF prog_run
  <2>2. pid' \in [CPU -> Pid \cup {NoTask}]  BY <1>0, <1>1 DEF prog_run
  <2>3. result' \in [CPU -> Returned]
    BY <1>0, <1>1, ReturnedType DEF prog_run
  <2>4. alone' \in [CPU -> BOOLEAN]  BY <1>1 DEF prog_run
  <2>5. saw' \in [CPU -> Seq(Pid \cup {0, NoTask, None})]  BY <1>1 DEF prog_run
  <2>. QED  BY <2>1, <2>2, <2>3, <2>4, <2>5, <1>1 DEF prog_run, TypeOK
<1>2. ASSUME NEW c \in CPU, NEW v \in Pid \cup {0, NoTask, None}, Note(c, v)
      PROVE  saw' \in [CPU -> Seq(Pid \cup {0, NoTask, None})]
  <2>1. saw \in [CPU -> Seq(Pid \cup {0, NoTask, None})]  BY DEF TypeOK
  <2>2. Append(saw[c], v) \in Seq(Pid \cup {0, NoTask, None})
    BY <2>1, AppendProperties
  <2>. QED  BY <1>2, <2>1, <2>2 DEF Note
<1>3. ASSUME NEW c \in CPU, Continue(c)
      PROVE  /\ pc' \in [CPU -> Stage]
             /\ result' \in [CPU -> Returned]
  <2>1. Follower(pc[c]) \in {"idle"} \cup MapTest  BY <1>3, Follows, FollowerType
  <2>. QED  BY <1>0, <1>3, <2>1, Follows, ReturnedType
<1>4. ASSUME NEW c \in CPU, NEW r \in Returned, Question(c, r)
      PROVE  /\ pc' \in [CPU -> Stage]
             /\ result' \in [CPU -> Returned]
  <2>1. CASE r.ok  BY <2>1, <1>3, <1>4 DEF Question
  <2>2. CASE ~ r.ok  BY <2>2, <1>0, <1>4 DEF Question, Return
  <2>. QED  BY <2>1, <2>2
<1>5. ASSUME NEW c \in CPU, bpf_map_lookup_elem(c) PROVE TypeOK'
  <2>1. CASE Note(c, None) /\ Continue(c) /\ UNCHANGED ref
    BY <2>1, <1>2, <1>3, <1>5 DEF bpf_map_lookup_elem, TypeOK
  <2>2. CASE /\ \E s \in Slot \cup {"array"} : ref' = [ref EXCEPT ![c] = s]
             /\ UNCHANGED <<saw, pc, result>>
    BY <2>2, <1>5 DEF bpf_map_lookup_elem, TypeOK
  <2>3. element \in Slot \cup {NULL}  BY DEF TypeOK
  <2>. QED  BY <2>1, <2>2, <2>3, <1>5 DEF bpf_map_lookup_elem
<1>6. ASSUME NEW c \in CPU, bpf_printk(c) PROVE TypeOK'
  <2>1. value[ref[c]] \in Pid \cup {0, NoTask, None}
    BY <1>6 DEF bpf_printk, TypeOK
  <2>2. ref' \in [CPU -> Slot \cup {"array", NULL}]
    BY <1>6 DEF bpf_printk, TypeOK
  <2>. QED  BY <2>1, <2>2, <1>2, <1>3, <1>6 DEF bpf_printk, TypeOK
<1>7. ASSUME NEW c \in CPU, bpf_map_update_elem(c) PROVE TypeOK'
  <2>1. \E r \in Returned : Question(c, r)
    BY <1>0, <1>7, ReturnedType DEF bpf_map_update_elem
  <2>2. element' \in Slot \cup {NULL}
    BY <1>7 DEF bpf_map_update_elem, TypeOK
  <2>3. value' \in [Slot \cup {"array"} -> Pid \cup {0, NoTask}]
    BY <1>0, <1>7 DEF bpf_map_update_elem, TypeOK
  <2>. QED  BY <2>1, <2>2, <2>3, <1>4, <1>7 DEF bpf_map_update_elem, TypeOK
<1>8. ASSUME NEW c \in CPU, bpf_map_delete_elem(c) PROVE TypeOK'
  <2>1. \E r \in Returned : Question(c, r)
    BY <1>0, <1>8, ReturnedType DEF bpf_map_delete_elem
  <2>. QED  BY <2>1, <1>4, <1>8 DEF bpf_map_delete_elem, TypeOK
<1>9. ASSUME NEW c \in CPU, bpf_ringbuf_reserve(c) PROVE TypeOK'
  <2>1. CASE bound /\ reserved - consumed < Capacity
    <3>1. /\ reserved \in 0 .. MaxRecords /\ consumed \in 0 .. reserved
          /\ MaxRecords \in Nat /\ reserved' = reserved + 1 /\ reserved < MaxRecords
      BY <1>9, <2>1 DEF bpf_ringbuf_reserve, TypeOK
    <3>2. /\ reserved' \in 1 .. MaxRecords /\ consumed \in 0 .. reserved'
          /\ reserved' - consumed <= Capacity
      BY <3>1, <2>1
    <3>3. mine' \in [CPU -> 0 .. reserved']
      <4>1. mine' = [mine EXCEPT ![c] = reserved']
        BY <1>9, <2>1 DEF bpf_ringbuf_reserve
      <4>2. mine \in [CPU -> 0 .. reserved']
        <5>. SUFFICES ASSUME NEW d \in CPU PROVE mine[d] \in 0 .. reserved'  BY <1>0
        <5>1. mine[d] \in 0 .. reserved  BY <1>0
        <5>. QED  BY <5>1, <3>1
      <4>3. reserved' \in 0 .. reserved'  BY <3>2
      <4>. QED  BY <4>1, <4>2, <4>3
    <3>4. /\ state' \in [1 .. MaxRecords -> {"free", "busy", "ready"}]
          /\ writer' \in [1 .. MaxRecords -> Int]
      BY <1>0, <1>9, <2>1, <3>2 DEF bpf_ringbuf_reserve
    <3>5. pc' \in [CPU -> Stage]
      BY <1>0, <1>9, <2>1 DEF bpf_ringbuf_reserve, RingProgram
    <3>6. UNCHANGED <<prog, bound, pid, result, element, value, ref, saw, alone,
                      data, consumed, delivered, queue, pushed, popped>>
      BY <1>9, <2>1 DEF bpf_ringbuf_reserve
    <3>7. /\ reserved' \in 0 .. MaxRecords /\ consumed' \in 0 .. reserved'
          /\ reserved' - consumed' <= Capacity
      <4>1. consumed' = consumed  BY <3>6
      <4>2. reserved' \in 0 .. MaxRecords  BY <3>2
      <4>. QED  BY <3>2, <4>1, <4>2
    <3>8. data' \in [1 .. MaxRecords -> Int] /\ result' \in [CPU -> Returned]
      BY <1>0, <3>6, Zenon
    <3>. QED  BY <3>3, <3>4, <3>5, <3>6, <3>7, <3>8, Zenon DEF TypeOK
  <2>2. CASE ~ (bound /\ reserved - consumed < Capacity)
    BY <1>9, <2>2, ReturnedType DEF bpf_ringbuf_reserve, Return, TypeOK
  <2>. QED  BY <2>1, <2>2
<1>10. ASSUME NEW c \in CPU, Write(c) PROVE TypeOK'
  <2>1. data' \in [1 .. MaxRecords -> Int]  BY <1>0, <1>10 DEF Write
  <2>2. pc' \in [CPU -> Stage]
    BY <1>0, <1>10 DEF Write, RingProgram
  <2>. QED  BY <2>1, <2>2, <1>10 DEF Write, TypeOK
<1>11. ASSUME NEW c \in CPU, bpf_ringbuf_submit(c) PROVE TypeOK'
  <2>1. state' \in [1 .. MaxRecords -> {"free", "busy", "ready"}]
    BY <1>11 DEF bpf_ringbuf_submit, TypeOK
  <2>2. mine' \in [CPU -> 0 .. reserved]
    BY <1>11 DEF bpf_ringbuf_submit, TypeOK
  <2>. QED
    BY <2>1, <2>2, <1>11, ReturnedType DEF bpf_ringbuf_submit, Return, TypeOK
<1>12. ASSUME NEW c \in CPU, panic(c) PROVE TypeOK'
  BY <1>12 DEF panic, TypeOK
<1>13. CASE Consume
  <2>1. /\ consumed' \in 0 .. reserved /\ consumed' \in 1 .. MaxRecords
        /\ reserved - consumed' <= Capacity
    BY <1>13 DEF Consume, TypeOK
  <2>2. data[consumed'] \in Int /\ delivered \in Seq(Int) /\ Len(delivered) = consumed
    BY <2>1 DEF TypeOK
  <2>3. delivered' \in Seq(Int) /\ Len(delivered') = consumed'
    BY <2>2, <1>13, AppendProperties DEF Consume
  <2>. QED  BY <2>1, <2>3, <1>13 DEF Consume, TypeOK
<1>14. CASE UNCHANGED vars  BY <1>14 DEF TypeOK
<1>15. \A v \in {-E2BIG, -ENOENT, 0} : v \in Int  BY <1>0
<1>16. Err(EINVAL) \in Returned /\ to_result(-E2BIG) \in Returned
       /\ to_result(-ENOENT) \in Returned /\ Ok0 \in Returned
  BY <1>0, <1>15, ReturnedType
<1>17. ASSUME NEW c \in CPU, NEW r \in Returned, Return(c, r)
       PROVE  pc' \in [CPU -> Stage] /\ result' \in [CPU -> Returned]
  BY <1>17, <1>0 DEF Return
<1>18. ASSUME NEW c \in CPU, bpf_map_push_elem(c) PROVE TypeOK'
  <2>1. CASE bound /\ Len(queue) < Capacity
    <3>1. pid[c] \in Pid \cup {NoTask} /\ pushed \in Seq(Pid \cup {NoTask})
          /\ queue \in Seq(Pid \cup {NoTask})
      BY DEF TypeOK
    <3>2. /\ queue' \in Seq(Pid \cup {NoTask}) /\ Len(queue') <= Capacity
          /\ pushed' \in Seq(Pid \cup {NoTask})
      <4>1. queue' = Append(queue, pid[c]) /\ pushed' = Append(pushed, pid[c])
        BY <2>1, <1>18 DEF bpf_map_push_elem
      <4>2. Len(queue) \in Nat /\ Len(queue) < Capacity  BY <3>1, <2>1
      <4>3. \A q \in Seq(Pid \cup {NoTask}) :
               /\ Append(q, pid[c]) \in Seq(Pid \cup {NoTask})
               /\ Len(Append(q, pid[c])) = Len(q) + 1
        BY <3>1, AppendProperties
      <4>4. queue' \in Seq(Pid \cup {NoTask}) /\ Len(queue') = Len(queue) + 1
            /\ pushed' \in Seq(Pid \cup {NoTask})
        BY <4>1, <4>3, <3>1, Zenon
      <4>. QED  BY <4>2, <4>4
    <3>3. pc' \in [CPU -> Stage]
      BY <2>1, <1>0, <1>18 DEF bpf_map_push_elem, QueueProgram
    <3>4. UNCHANGED <<prog, bound, pid, result, element, value, ref, saw, alone,
                      state, data, writer, reserved, consumed, mine, delivered,
                      popped>>
      BY <2>1, <1>18 DEF bpf_map_push_elem
    <3>. QED  BY <3>2, <3>3, <3>4 DEF TypeOK
  <2>2. CASE ~ (bound /\ Len(queue) < Capacity)
    <3>1. \E r \in Returned : Return(c, r)
      BY <2>2, <1>16, <1>18 DEF bpf_map_push_elem
    <3>2. pc' \in [CPU -> Stage] /\ result' \in [CPU -> Returned]
      BY <3>1, <1>17
    <3>. QED  BY <3>2, <2>2, <1>18 DEF bpf_map_push_elem, TypeOK
  <2>. QED  BY <2>1, <2>2
<1>19. ASSUME NEW c \in CPU, bpf_map_peek_elem(c) PROVE TypeOK'
  <2>1. CASE pc' = [pc EXCEPT ![c] = "pop"] /\ UNCHANGED result
    <3>1. pc' \in [CPU -> Stage]  BY <2>1, <1>0 DEF QueueProgram
    <3>. QED  BY <3>1, <2>1, <1>19 DEF bpf_map_peek_elem, TypeOK
  <2>2. CASE \E r \in Returned : Return(c, r)
    <3>1. pc' \in [CPU -> Stage] /\ result' \in [CPU -> Returned]
      BY <2>2, <1>17
    <3>. QED  BY <3>1, <1>19 DEF bpf_map_peek_elem, TypeOK
  <2>. QED  BY <2>1, <2>2, <1>16, <1>19 DEF bpf_map_peek_elem
<1>20. ASSUME NEW c \in CPU, bpf_map_pop_elem(c) PROVE TypeOK'
  <2>1. \E r \in Returned : Return(c, r)
    BY <1>16, <1>20 DEF bpf_map_pop_elem
  <2>2. pc' \in [CPU -> Stage] /\ result' \in [CPU -> Returned]
    BY <2>1, <1>17
  <2>3. queue \in Seq(Pid \cup {NoTask}) /\ popped \in Seq(Pid \cup {NoTask})
        /\ Len(queue) <= Capacity
    BY DEF TypeOK
  <2>4. /\ queue' \in Seq(Pid \cup {NoTask}) /\ Len(queue') <= Capacity
        /\ popped' \in Seq(Pid \cup {NoTask})
    <3>1. CASE bound /\ queue # <<>>
      <4>1. queue' = Tail(queue) /\ popped' = Append(popped, Head(queue))
        BY <3>1, <1>20 DEF bpf_map_pop_elem
      <4>2. /\ Head(queue) \in Pid \cup {NoTask}
            /\ Tail(queue) \in Seq(Pid \cup {NoTask})
            /\ Len(Tail(queue)) = Len(queue) - 1
        BY <3>1, <2>3, HeadTailProperties
      <4>3. popped' \in Seq(Pid \cup {NoTask})
        <5>1. \A q \in Seq(Pid \cup {NoTask}), x \in Pid \cup {NoTask} :
                 Append(q, x) \in Seq(Pid \cup {NoTask})
          BY AppendProperties
        <5>. QED  BY <5>1, <4>1, <4>2, <2>3, Zenon
      <4>4. Len(queue) \in Nat  BY <2>3
      <4>5. Len(queue') <= Capacity
        <5>1. Len(queue') = Len(queue) - 1  BY <4>1, <4>2, Zenon
        <5>2. Len(queue) <= Capacity  BY <2>3
        <5>. QED  BY <5>1, <5>2, <4>4
      <4>. QED  BY <4>1, <4>2, <4>3, <4>5
    <3>2. CASE ~ (bound /\ queue # <<>>)
      BY <3>2, <2>3, <1>20 DEF bpf_map_pop_elem
    <3>. QED  BY <3>1, <3>2
  <2>. QED  BY <2>2, <2>4, <1>20 DEF bpf_map_pop_elem, TypeOK
<1>. QED
  BY <1>1, <1>5, <1>6, <1>7, <1>8, <1>9, <1>10, <1>11, <1>12, <1>13, <1>14,
     <1>18, <1>19, <1>20 DEF Next, Step

\* The helpers of map_test move a program along its stages.
LEMMA MapStep ==
    ASSUME TypeOK, NEW c \in CPU,
           \/ bpf_map_lookup_elem(c) \/ bpf_printk(c)
           \/ bpf_map_update_elem(c) \/ bpf_map_delete_elem(c)
    PROVE  /\ pc[c] \in MapTest
           /\ \E s \in MapTest \cup {"idle"} : pc' = [pc EXCEPT ![c] = s]
           /\ UNCHANGED <<prog, bound, pid, ring>>
<1>1. pc \in [CPU -> Stage]  BY DEF TypeOK, Stage
<1>2. ASSUME Continue(c)
      PROVE  \E s \in MapTest \cup {"idle"} : pc' = [pc EXCEPT ![c] = s]
  BY <1>2, Follows, FollowerType
<1>3. ASSUME NEW r \in Returned, Question(c, r)
      PROVE  \E s \in MapTest \cup {"idle"} : pc' = [pc EXCEPT ![c] = s]
  BY <1>2, <1>3 DEF Question, Return
<1>4. CASE bpf_map_lookup_elem(c)
  <2>1. pc[c] \in MapTest  BY <1>4 DEF bpf_map_lookup_elem, Looks, MapTest
  <2>2. CASE pc' = pc
    <3>1. pc' = [pc EXCEPT ![c] = pc[c]]  BY <2>2, <1>1
    <3>. QED  BY <3>1, <2>1, <1>4 DEF bpf_map_lookup_elem
  <2>3. CASE Continue(c)  BY <2>1, <2>3, <1>2, <1>4 DEF bpf_map_lookup_elem
  <2>. QED  BY <2>2, <2>3, <1>4 DEF bpf_map_lookup_elem
<1>5. CASE bpf_printk(c)
  BY <1>2, <1>5 DEF bpf_printk, Looks, MapTest
<1>6. ENOMEM \in Nat /\ ENOENT \in Nat /\ EINVAL \in Nat  BY MapsAssumption
<1>7. CASE bpf_map_update_elem(c)
  <2>1. \E r \in Returned : Question(c, r)
    BY <1>6, <1>7, ReturnedType DEF bpf_map_update_elem
  <2>. QED  BY <2>1, <1>3, <1>7 DEF bpf_map_update_elem, MapTest
<1>8. CASE bpf_map_delete_elem(c)
  <2>1. \E r \in Returned : Question(c, r)
    BY <1>6, <1>8, ReturnedType DEF bpf_map_delete_elem
  <2>. QED  BY <2>1, <1>3, <1>8 DEF bpf_map_delete_elem, MapTest
<1>. QED  BY <1>4, <1>5, <1>7, <1>8

\* The helpers of a queue move a program along its own stages.
LEMMA QueueStep ==
    ASSUME NEW c \in CPU,
           bpf_map_push_elem(c) \/ bpf_map_peek_elem(c) \/ bpf_map_pop_elem(c)
    PROVE  /\ pc[c] \in QueueProgram
           /\ \E s \in QueueProgram \cup {"idle"} : pc' = [pc EXCEPT ![c] = s]
           /\ UNCHANGED <<prog, bound, pid, hash, ring>>
<1>1. CASE bpf_map_push_elem(c)
  BY <1>1 DEF bpf_map_push_elem, QueueProgram, Return
<1>2. CASE bpf_map_peek_elem(c)
  BY <1>2 DEF bpf_map_peek_elem, QueueProgram, Return, fifo
<1>3. CASE bpf_map_pop_elem(c)
  BY <1>3 DEF bpf_map_pop_elem, QueueProgram, Return
<1>. QED  BY <1>1, <1>2, <1>3

\* Who puts the key there goes on to delete it.
LEMMA KeyStep == TypeOK /\ Key /\ [Next]_vars => Key'
<1>. SUFFICES ASSUME TypeOK, Key, [Next]_vars PROVE Key'  OBVIOUS
<1>0. pc \in [CPU -> Stage]  BY DEF TypeOK, Stage
<1>1. ASSUME NEW c \in CPU, NEW s, pc' = [pc EXCEPT ![c] = s],
             pc[c] \notin {"lookup2", "delete"} \/ s \in {"lookup2", "delete"},
             UNCHANGED <<bound, element>>
      PROVE  Key'
  BY <1>0, <1>1 DEF Key
<1>2. ASSUME NEW c \in CPU, prog_run(c) \/ panic(c) PROVE Key'
  <2>1. pc[c] \in {"idle", "write", "submit", "peek", "pop"}
        /\ UNCHANGED <<bound, element>>
    BY <1>2 DEF prog_run, panic, hash
  <2>2. \E s : pc' = [pc EXCEPT ![c] = s]  BY <1>2, Zenon DEF prog_run, panic
  <2>. QED  BY <2>1, <2>2, <1>1
<1>3. ASSUME NEW c \in CPU, Continue(c), pc[c] # "delete", UNCHANGED <<bound, element>>
      PROVE  Key'
  <2>1. pc[c] = "lookup2" => Follower(pc[c]) = "delete"  BY DEF Follower
  <2>. QED  BY <2>1, <1>1, <1>3, Follows
<1>4. ASSUME NEW c \in CPU, bpf_map_lookup_elem(c) \/ bpf_printk(c) PROVE Key'
  <2>1. pc[c] # "delete" /\ UNCHANGED <<bound, element>>
    BY <1>4 DEF bpf_map_lookup_elem, bpf_printk, Looks
  <2>2. CASE Continue(c)  BY <2>1, <2>2, <1>3
  <2>3. CASE pc' = pc  BY <2>1, <2>3 DEF Key
  <2>. QED  BY <2>2, <2>3, <1>4 DEF bpf_map_lookup_elem, bpf_printk
<1>5. ASSUME NEW c \in CPU, NEW r \in Returned, Question(c, r),
             pc[c] \in {"update", "update2"}, UNCHANGED <<bound, element>>
      PROVE  Key'
  <2>1. CASE r.ok  BY <2>1, <1>3, <1>5 DEF Question
  <2>2. CASE ~ r.ok  BY <2>2, <1>1, <1>5 DEF Question, Return
  <2>. QED  BY <2>1, <2>2
<1>6. ENOMEM \in Nat \ {0} /\ ENOENT \in Nat /\ EINVAL \in Nat  BY MapsAssumption
<1>7. ASSUME NEW c \in CPU, bpf_map_update_elem(c) PROVE Key'
  <2>1. CASE UNCHANGED element
    <3>1. pc[c] \in {"update", "update2"} /\ UNCHANGED <<bound, element>>
      BY <2>1, <1>7 DEF bpf_map_update_elem
    <3>2. \E r \in Returned : Question(c, r)
      BY <1>6, <1>7, ReturnedType DEF bpf_map_update_elem
    <3>. QED  BY <3>1, <3>2, <1>5
  <2>2. CASE pc[c] = "update" /\ bound /\ Question(c, to_result(0))
    <3>1. to_result(0).ok  BY ReturnedType
    <3>2. pc' = [pc EXCEPT ![c] = Follower("update")]
      BY <2>2, <3>1, Follows DEF Question
    <3>3. pc'[c] = "lookup2"  BY <3>2, <1>0 DEF Follower
    <3>. QED  BY <3>3, <2>2, <1>7 DEF bpf_map_update_elem, Key
  <2>. QED  BY <2>1, <2>2, <1>7 DEF bpf_map_update_elem
<1>8. ASSUME NEW c \in CPU, bpf_map_delete_elem(c) PROVE Key'
  <2>1. CASE bound  BY <2>1, <1>8 DEF bpf_map_delete_elem, Key
  <2>2. CASE ~ bound  BY <2>2, <1>8 DEF bpf_map_delete_elem, Key
  <2>. QED  BY <2>1, <2>2
<1>9. ASSUME NEW c \in CPU,
             bpf_ringbuf_reserve(c) \/ Write(c) \/ bpf_ringbuf_submit(c)
      PROVE  Key'
  <2>1. UNCHANGED <<bound, element>>
    BY <1>9 DEF bpf_ringbuf_reserve, Write, bpf_ringbuf_submit, hash
  <2>2. pc[c] \in {"reserve", "write", "submit"}
    BY <1>9 DEF bpf_ringbuf_reserve, Write, bpf_ringbuf_submit
  <2>3. \E s : pc' = [pc EXCEPT ![c] = s]
    BY <1>9, Zenon DEF bpf_ringbuf_reserve, Write, bpf_ringbuf_submit, Return
  <2>. QED  BY <2>1, <2>2, <2>3, <1>1
<1>10. CASE Consume  BY <1>10 DEF Consume, Key, hash
<1>11. CASE UNCHANGED vars  BY <1>11 DEF vars, hash, Key
<1>12. ASSUME NEW c \in CPU,
              bpf_map_push_elem(c) \/ bpf_map_peek_elem(c) \/ bpf_map_pop_elem(c)
       PROVE  Key'
  <2>1. UNCHANGED <<bound, element>> /\ pc[c] \in QueueProgram
    BY <1>12, QueueStep DEF hash
  <2>2. \E s \in QueueProgram \cup {"idle"} : pc' = [pc EXCEPT ![c] = s]
    BY <1>12, QueueStep
  <2>. QED  BY <2>1, <2>2, <1>1 DEF QueueProgram
<1>. QED
  BY <1>2, <1>4, <1>7, <1>8, <1>9, <1>10, <1>11, <1>12 DEF Next, Step

\* What a map_test program does to the ring buffer: nothing.
LEMMA OutsideRing ==
    ASSUME TypeOK, Records, NEW c \in CPU, NEW s,
           pc[c] \notin {"write", "submit"}, s \notin {"write", "submit"},
           pc' = [pc EXCEPT ![c] = s], UNCHANGED ring,
           \A d \in CPU : d # c => pid'[d] = pid[d]
    PROVE  Records'
<1>0. pc \in [CPU -> Stage]  BY DEF TypeOK, Stage
<1>1. Complete'  BY DEF Records, Complete, RecordsComplete, ring, recs
<1>2. mine[c] = 0  BY DEF Records, Owned
<1>3. ASSUME NEW d \in CPU PROVE Owned(d)'
  <2>1. CASE d = c  BY <2>1, <1>0, <1>2 DEF Owned, ring
  <2>2. CASE d # c
    <3>1. pc'[d] = pc[d] /\ pid'[d] = pid[d]  BY <2>2, <1>0
    <3>. QED  BY <3>1 DEF Records, Owned, ring, recs
  <2>. QED  BY <2>1, <2>2
<1>. QED  BY <1>1, <1>3 DEF Records

\* The types of the ring buffer.
RingTypes ==
    /\ pc \in [CPU -> Stage]
    /\ pid \in [CPU -> Pid \cup {NoTask}]
    /\ MaxRecords \in Nat /\ reserved \in 0 .. MaxRecords
    /\ consumed \in 0 .. reserved
    /\ state \in [1 .. MaxRecords -> {"free", "busy", "ready"}]
    /\ data \in [1 .. MaxRecords -> Int] /\ writer \in [1 .. MaxRecords -> Int]
    /\ mine \in [CPU -> 0 .. reserved]

\* Reserving appends a busy record.
LEMMA ReserveStep ==
    ASSUME TypeOK, Records, NEW c \in CPU, bpf_ringbuf_reserve(c)
    PROVE  Records'
<1>0. RingTypes  BY MapsAssumption DEF TypeOK, RingTypes, Stage
<1>1. CASE ~ (bound /\ reserved - consumed < Capacity)
  <2>1. pc' = [pc EXCEPT ![c] = "idle"] /\ UNCHANGED <<ring, pid>>
    BY <1>1 DEF bpf_ringbuf_reserve, Return, ring, recs
  <2>2. pc[c] = "reserve"  BY DEF bpf_ringbuf_reserve
  <2>. QED  BY <2>1, <2>2, OutsideRing
<1>2. CASE bound /\ reserved - consumed < Capacity
  <2>1. /\ pc[c] = "reserve" /\ pc' = [pc EXCEPT ![c] = "write"]
        /\ reserved' = reserved + 1 /\ reserved' \in 1 .. MaxRecords
        /\ state' = [state EXCEPT ![reserved'] = "busy"]
        /\ writer' = [writer EXCEPT ![reserved'] = pid[c]]
        /\ mine' = [mine EXCEPT ![c] = reserved']
        /\ UNCHANGED <<pid, data, consumed, delivered>>
    BY <1>0, <1>2 DEF bpf_ringbuf_reserve, RingTypes
  <2>2. /\ state'[reserved'] = "busy" /\ writer'[reserved'] = pid[c]
        /\ \A i \in 1 .. reserved : state'[i] = state[i] /\ writer'[i] = writer[i]
    BY <1>0, <2>1 DEF RingTypes
  <2>3. Complete'
    <3>1. ASSUME NEW i \in 1 .. reserved', state'[i] = "ready"
          PROVE  data'[i] = writer'[i]
      <4>1. i \in 1 .. reserved  BY <3>1, <2>1, <2>2, <1>0 DEF RingTypes
      <4>. QED  BY <4>1, <3>1, <2>1, <2>2 DEF Records, Complete
    <3>2. ASSUME NEW i \in 1 .. consumed'
          PROVE  state'[i] = "ready" /\ delivered'[i] = writer'[i]
      <4>1. i \in 1 .. consumed /\ i \in 1 .. reserved
        BY <2>1, <1>0 DEF RingTypes
      <4>. QED  BY <4>1, <2>1, <2>2 DEF Records, Complete, RecordsComplete
    <3>. QED  BY <3>1, <3>2 DEF Complete, RecordsComplete
  <2>4. ASSUME NEW d \in CPU PROVE Owned(d)'
    <3>1. \A e \in CPU : mine[e] # reserved' /\ mine[e] \in Int
      BY <2>1, <1>0 DEF RingTypes
    <3>2. CASE d = c
      <4>1. mine'[d] = reserved' /\ pc'[d] = "write"
        BY <3>2, <2>1, <1>0 DEF RingTypes
      <4>2. \A e \in CPU : e # d => mine'[e] # reserved'
        BY <3>1, <3>2, <2>1, <1>0 DEF RingTypes
      <4>3. reserved' \in consumed' + 1 .. reserved' /\ reserved' # 0
        BY <2>1, <1>0 DEF RingTypes
      <4>. QED  BY <4>1, <4>2, <4>3, <2>1, <2>2, <3>2 DEF Owned
    <3>3. CASE d # c
      <4>1. mine'[d] = mine[d] /\ pc'[d] = pc[d] /\ pid'[d] = pid[d]
        BY <3>3, <2>1, <1>0 DEF RingTypes
      <4>2. Owned(d)  BY DEF Records
      <4>3. mine[d] # 0 => mine[d] \in 1 .. reserved
        BY <1>0 DEF RingTypes
      <4>4. \A e \in CPU : e # d /\ mine[d] # 0 => mine'[e] # mine[d]
        BY <4>2, <3>1, <2>1, <1>0 DEF Owned, RingTypes
      <4>5. mine[d] # 0 => mine[d] \in consumed' + 1 .. reserved'
        BY <4>2, <2>1, <1>0 DEF Owned, RingTypes
      <4>. QED  BY <4>1, <4>2, <4>3, <4>4, <4>5, <2>1, <2>2 DEF Owned
    <3>. QED  BY <3>2, <3>3
  <2>. QED  BY <2>3, <2>4 DEF Records
<1>. QED  BY <1>1, <1>2

\* Writing, submitting and abandoning a record touch no other record.
LEMMA RecordStep ==
    ASSUME TypeOK, Records, NEW c \in CPU,
           Write(c) \/ bpf_ringbuf_submit(c) \/ (panic(c) /\ pc[c] \in {"write", "submit"})
    PROVE  Records'
<1>0. RingTypes  BY MapsAssumption DEF TypeOK, RingTypes, Stage
<1>1. pc[c] \in {"write", "submit"}  BY DEF Write, bpf_ringbuf_submit, panic
<1>2. DEFINE m == mine[c]
<1>3. /\ m \in consumed + 1 .. reserved /\ m \in 1 .. MaxRecords
      /\ state[m] = "busy" /\ writer[m] = pid[c]
      /\ \A d \in CPU : d # c => mine[d] # m
  <2>1. Owned(c) /\ m # 0  BY <1>1 DEF Records, Owned
  <2>. QED  BY <2>1, <1>0 DEF Owned, RingTypes
<1>. HIDE DEF m
<1>4. /\ UNCHANGED <<pid, writer, reserved, consumed, delivered>>
      /\ \A d \in CPU : d # c => pc'[d] = pc[d] /\ mine'[d] = mine[d]
      /\ \A i \in 1 .. MaxRecords : i # m => data'[i] = data[i] /\ state'[i] = state[i]
  BY <1>0, Zenon DEF RingTypes, Write, bpf_ringbuf_submit, panic, Return, recs, m
<1>5. ASSUME NEW d \in CPU, d # c PROVE Owned(d)'
  <2>1. Owned(d) /\ pc'[d] = pc[d] /\ mine'[d] = mine[d] /\ pid' = pid
    BY <1>4, <1>5 DEF Records
  <2>2. CASE mine[d] = 0
    BY <2>1, <2>2 DEF Owned
  <2>3. CASE mine[d] # 0
    <3>1. mine[d] \in consumed + 1 .. reserved /\ mine[d] \in 1 .. MaxRecords
      BY <2>1, <2>3, <1>0 DEF Owned, RingTypes
    <3>2. mine[d] # m  BY <1>3, <1>5
    <3>3. data'[mine[d]] = data[mine[d]] /\ state'[mine[d]] = state[mine[d]]
      BY <3>1, <3>2, <1>4
    <3>4. ASSUME NEW e \in CPU, e # d PROVE mine'[e] # mine[d]
      <4>1. mine[e] # mine[d]  BY <2>1, <2>3, <3>4 DEF Owned
      <4>2. mine'[e] = mine[e] \/ e = c  BY <1>4
      <4>3. mine'[c] \in {0, m}
        BY <1>0 DEF RingTypes, Write, bpf_ringbuf_submit, panic, m
      <4>. QED  BY <4>1, <4>2, <4>3, <3>2, <2>3
    <3>. QED  BY <2>1, <2>3, <3>3, <3>4, <1>4 DEF Owned
  <2>. QED  BY <2>2, <2>3
<1>6. CASE Write(c)
  <2>1. /\ pc'[c] = "submit" /\ mine' = mine /\ state' = state
        /\ data'[m] = pid[c]
    BY <1>0, <1>3, <1>6 DEF RingTypes, Write, m
  <2>2. Owned(c)'  BY <2>1, <1>3, <1>4 DEF Owned, m
  <2>3. Complete'
    <3>1. ASSUME NEW i \in 1 .. reserved, state[i] = "ready"
          PROVE  data'[i] = writer[i]
      <4>1. i # m /\ i \in 1 .. MaxRecords  BY <3>1, <1>3, <1>0 DEF RingTypes
      <4>. QED  BY <4>1, <3>1, <1>4 DEF Records, Complete
    <3>. QED  BY <3>1, <2>1, <1>4 DEF Records, Complete, RecordsComplete
  <2>. QED  BY <2>2, <2>3, <1>5 DEF Records
<1>7. CASE bpf_ringbuf_submit(c)
  <2>1. /\ pc[c] = "submit" /\ pc'[c] = "idle" /\ mine'[c] = 0
        /\ state'[m] = "ready" /\ data' = data
    BY <1>0, <1>3, <1>7 DEF RingTypes, bpf_ringbuf_submit, Return, m
  <2>2. Owned(c)'  BY <2>1 DEF Owned
  <2>3. data[m] = writer[m]  BY <2>1, <1>3 DEF Records, Owned, m
  <2>4. Complete'
    <3>1. ASSUME NEW i \in 1 .. reserved, state'[i] = "ready"
          PROVE  data[i] = writer[i]
      <4>1. i \in 1 .. MaxRecords  BY <1>0 DEF RingTypes
      <4>2. i = m \/ state[i] = "ready"  BY <4>1, <3>1, <1>4
      <4>. QED  BY <4>2, <2>3 DEF Records, Complete
    <3>2. ASSUME NEW i \in 1 .. consumed PROVE state'[i] = "ready"
      <4>1. i \in 1 .. MaxRecords /\ state[i] = "ready"
        BY <1>0 DEF RingTypes, Records, Complete
      <4>. QED  BY <4>1, <2>1, <1>4
    <3>. QED  BY <3>1, <3>2, <2>1, <1>4 DEF Records, Complete, RecordsComplete
  <2>. QED  BY <2>2, <2>4, <1>5 DEF Records
<1>8. CASE panic(c)
  <2>1. pc'[c] = "idle" /\ mine'[c] = 0 /\ UNCHANGED <<state, data>>
    BY <1>0, <1>8 DEF RingTypes, panic, recs
  <2>2. Owned(c)'  BY <2>1 DEF Owned
  <2>3. Complete'  BY <2>1, <1>4 DEF Records, Complete, RecordsComplete
  <2>. QED  BY <2>2, <2>3, <1>5 DEF Records
<1>. QED  BY <1>6, <1>7, <1>8

\* The consumer takes a record that is ready, so nobody's.
LEMMA ConsumeStep ==
    ASSUME TypeOK, Records, Consume
    PROVE  Records'
<1>0. RingTypes /\ delivered \in Seq(Int) /\ Len(delivered) = consumed
  BY MapsAssumption DEF TypeOK, RingTypes, Stage
<1>1. /\ consumed + 1 \in 1 .. reserved /\ consumed + 1 \in 1 .. MaxRecords
      /\ state[consumed + 1] = "ready" /\ consumed' = consumed + 1
      /\ delivered' = Append(delivered, data[consumed + 1])
      /\ UNCHANGED <<pc, pid, state, data, writer, reserved, mine>>
  BY <1>0 DEF Consume, RingTypes, recs
<1>2. data[consumed + 1] \in Int  BY <1>0, <1>1 DEF RingTypes
<1>3. data[consumed + 1] = writer[consumed + 1]
  BY <1>1 DEF Records, Complete
<1>4. Complete'
  <2>1. ASSUME NEW i \in 1 .. consumed'
        PROVE  state[i] = "ready" /\ delivered'[i] = writer[i]
    <3>1. i \in 1 .. consumed \/ i = consumed + 1  BY <1>0, <1>1 DEF RingTypes
    <3>2. CASE i = consumed + 1
      BY <3>2, <1>0, <1>1, <1>2, <1>3, AppendProperties
    <3>3. CASE i \in 1 .. consumed
      <4>1. delivered'[i] = delivered[i]
        BY <3>3, <1>0, <1>1, <1>2, AppendProperties
      <4>. QED  BY <4>1, <3>3 DEF Records, Complete, RecordsComplete
    <3>. QED  BY <3>1, <3>2, <3>3
  <2>. QED  BY <2>1, <1>1 DEF Records, Complete, RecordsComplete
<1>5. ASSUME NEW d \in CPU PROVE Owned(d)'
  <2>1. Owned(d)  BY DEF Records
  <2>2. mine[d] # 0 => mine[d] \in consumed' + 1 .. reserved
    BY <2>1, <1>0, <1>1 DEF Owned, RingTypes
  <2>. QED  BY <2>1, <2>2, <1>1 DEF Owned
<1>. QED  BY <1>4, <1>5 DEF Records

\* Every step keeps the records.
LEMMA RecordsStep == TypeOK /\ Records /\ [Next]_vars => Records'
<1>. SUFFICES ASSUME TypeOK, Records, [Next]_vars PROVE Records'  OBVIOUS
<1>1. ASSUME NEW c \in CPU, prog_run(c) PROVE Records'
  <2>1. \E s \in {"reserve", "lookup1", "push"} : pc' = [pc EXCEPT ![c] = s]
    BY <1>1 DEF prog_run, Entry, TypeOK, Programs
  <2>2. \A d \in CPU : d # c => pid'[d] = pid[d]
    BY <1>1 DEF prog_run, TypeOK
  <2>3. pc[c] = "idle" /\ UNCHANGED ring  BY <1>1 DEF prog_run
  <2>. QED  BY <2>1, <2>2, <2>3, OutsideRing
<1>2. ASSUME NEW c \in CPU,
             \/ bpf_map_lookup_elem(c) \/ bpf_printk(c)
             \/ bpf_map_update_elem(c) \/ bpf_map_delete_elem(c)
      PROVE  Records'
  <2>1. /\ pc[c] \in MapTest /\ UNCHANGED ring /\ pid' = pid
        /\ \E s \in MapTest \cup {"idle"} : pc' = [pc EXCEPT ![c] = s]
    BY <1>2, MapStep
  <2>2. \A s \in MapTest \cup {"idle"} : s \notin {"write", "submit"}
    BY DEF MapTest
  <2>. QED  BY <2>1, <2>2, OutsideRing
<1>3. CASE UNCHANGED vars
  BY <1>3 DEF vars, ring, recs, Records, Complete, RecordsComplete, Owned
<1>4. ASSUME NEW c \in CPU,
             bpf_map_push_elem(c) \/ bpf_map_peek_elem(c) \/ bpf_map_pop_elem(c)
      PROVE  Records'
  <2>1. /\ pc[c] \in QueueProgram /\ UNCHANGED ring /\ pid' = pid
        /\ \E s \in QueueProgram \cup {"idle"} : pc' = [pc EXCEPT ![c] = s]
    BY <1>4, QueueStep
  <2>2. \A s \in QueueProgram \cup {"idle"} : s \notin {"write", "submit"}
    BY DEF QueueProgram
  <2>. QED  BY <2>1, <2>2, OutsideRing
<1>5. ASSUME NEW c \in CPU, panic(c), pc[c] \in {"peek", "pop"} PROVE Records'
  <2>1. mine[c] = 0  BY <1>5 DEF Records, Owned
  <2>2. UNCHANGED ring
    BY <2>1, <1>5 DEF panic, ring, TypeOK
  <2>. QED  BY <2>2, <1>5, OutsideRing DEF panic
<1>6. ASSUME NEW c \in CPU, panic(c) PROVE Records'
  BY <1>5, <1>6, RecordStep DEF panic
<1>. QED
  BY <1>1, <1>2, <1>3, <1>4, <1>6, ReserveStep, RecordStep, ConsumeStep
     DEF Next, Step

\* Only the run itself can disturb what is known of a run that is alone, and it
\* is known anew when a program starts.
LEMMA Elsewhere ==
    ASSUME TypeOK, Runs, prog = "map_test",
           NEW c \in CPU, pc[c] # "idle",
           NEW s, pc' = [pc EXCEPT ![c] = s], ref' = [ref EXCEPT ![c] = ref'[c]],
           UNCHANGED <<prog, bound, pid, alone>>,
           Along(c)'
    PROVE  Runs'
<1>1. \A d \in CPU \ {c} : ~ alone[d]  BY DEF Runs, Along, Alone
<1>2. \A d \in CPU \ {c} : pc'[d] = pc[d] /\ ref'[d] = ref[d]  BY DEF TypeOK
<1>3. ASSUME NEW d \in CPU \ {c} PROVE Along(d)'
  <2>1. Along(d)  BY DEF Runs
  <2>. QED  BY <1>1, <1>2, <2>1 DEF Along, Looks
<1>. QED  BY <1>3 DEF Runs

\* A run that starts where all others are idle finds no key.
LEMMA RunsBegin ==
    ASSUME TypeOK, Key, Runs, prog = "map_test", NEW c \in CPU, prog_run(c)
    PROVE  Runs'
<1>0. /\ pc[c] = "idle" /\ pc' = [pc EXCEPT ![c] = "lookup1"]
      /\ UNCHANGED <<prog, bound, element, value, ref>>
      /\ saw' = [d \in CPU |-> <<>>]
      /\ alone' = [d \in CPU |-> d = c /\ \A e \in CPU \ {c} : pc[e] = "idle"]
  BY DEF prog_run, Entry
<1>1. pc \in [CPU -> Stage]  BY DEF TypeOK, Stage
<1>2. ASSUME NEW d \in CPU \ {c} PROVE Along(d)'
  <2>1. ~ alone'[d] /\ pc'[d] = pc[d]  BY <1>0, <1>1
  <2>2. Along(d)  BY DEF Runs
  <2>. QED  BY <1>0, <2>1, <2>2 DEF Along, Looks
<1>3. ref'[c] = NULL /\ pc'[c] = "lookup1"
  BY <1>0, <1>1 DEF Runs, Along, Looks
<1>4. ASSUME alone'[c] PROVE Alone(c)'
  <2>1. \A d \in CPU \ {c} : pc[d] = "idle"  BY <1>0, <1>4
  <2>2. \A d \in CPU \ {c} : pc'[d] = "idle"  BY <1>0, <1>1, <2>1
  <2>3. element' = NULL  BY <1>0, <2>1 DEF Key
  <2>4. saw'[c] = Printed(c)'  BY <1>0, <1>3 DEF Printed
  <2>. QED  BY <1>3, <2>2, <2>3, <2>4 DEF Alone
<1>5. Along(c)'  BY <1>3, <1>4 DEF Along, MapTest
<1>. QED  BY <1>2, <1>5 DEF Runs

\* What is appended to a short sequence.
LEMMA Appended ==
    ASSUME NEW a, NEW b
    PROVE  /\ Append(<<>>, a) = <<a>>
           /\ Append(<<a>>, b) = <<a, b>>
           /\ Append(<<a, b>>, a) = <<a, b, a>>
           /\ Append(<<a, b, a>>, b) = <<a, b, a, b>>
<1>. DEFINE X == {a, b}
<1>1. ASSUME NEW s \in Seq(X), NEW x \in X, NEW t \in Seq(X),
             Len(t) = Len(s) + 1, t[Len(s) + 1] = x,
             \A i \in 1 .. Len(s) : t[i] = s[i]
      PROVE  Append(s, x) = t
  <2>. HIDE DEF X
  <2>1. /\ Append(s, x) \in Seq(X) /\ Len(Append(s, x)) = Len(s) + 1
        /\ \A i \in 1 .. Len(s) : Append(s, x)[i] = s[i]
        /\ Append(s, x)[Len(s) + 1] = x
    BY AppendProperties
  <2>2. Len(s) \in Nat  OBVIOUS
  <2>3. \A i \in 1 .. Len(t) : Append(s, x)[i] = t[i]  BY <1>1, <2>1, <2>2
  <2>. QED  BY <1>1, <2>1, <2>3, SeqEqual
<1>2. Append(<<>>, a) = <<a>>  OBVIOUS
<1>3. Append(<<a>>, b) = <<a, b>>
  <2>. DEFINE s == <<a>>
              t == <<a, b>>
  <2>1. /\ s \in Seq(X) /\ t \in Seq(X) /\ b \in X
        /\ Len(s) = 1 /\ Len(t) = 2 /\ t[2] = b
        /\ t[1] = s[1]
    OBVIOUS
  <2>. HIDE DEF s, t, X
  <2>2. /\ Len(t) = Len(s) + 1 /\ t[Len(s) + 1] = b
        /\ \A i \in 1 .. Len(s) : t[i] = s[i]
    BY <2>1
  <2>3. Append(s, b) = t  BY <1>1, <2>1, <2>2
  <2>. QED  BY <2>3 DEF s, t
<1>4. Append(<<a, b>>, a) = <<a, b, a>>
  <2>. DEFINE s == <<a, b>>
              t == <<a, b, a>>
  <2>1. /\ s \in Seq(X) /\ t \in Seq(X) /\ a \in X
        /\ Len(s) = 2 /\ Len(t) = 3 /\ t[3] = a
        /\ t[1] = s[1] /\ t[2] = s[2]
    OBVIOUS
  <2>. HIDE DEF s, t, X
  <2>2. /\ Len(t) = Len(s) + 1 /\ t[Len(s) + 1] = a
        /\ \A i \in 1 .. Len(s) : t[i] = s[i]
    BY <2>1
  <2>3. Append(s, a) = t  BY <1>1, <2>1, <2>2
  <2>. QED  BY <2>3 DEF s, t
<1>5. Append(<<a, b, a>>, b) = <<a, b, a, b>>
  <2>. DEFINE s == <<a, b, a>>
              t == <<a, b, a, b>>
  <2>1. /\ s \in Seq(X) /\ t \in Seq(X) /\ b \in X
        /\ Len(s) = 3 /\ Len(t) = 4 /\ t[4] = b
        /\ t[1] = s[1] /\ t[2] = s[2] /\ t[3] = s[3]
    OBVIOUS
  <2>. HIDE DEF s, t, X
  <2>2. /\ Len(t) = Len(s) + 1 /\ t[Len(s) + 1] = b
        /\ \A i \in 1 .. Len(s) : t[i] = s[i]
    BY <2>1
  <2>3. Append(s, b) = t  BY <1>1, <2>1, <2>2
  <2>. QED  BY <2>3 DEF s, t
<1>. QED  BY <1>2, <1>3, <1>4, <1>5

\* What a run notes, it has printed when it is at the next stage.
LEMMA RunNotes ==
    ASSUME TypeOK, Runs, prog = "map_test",
           NEW c \in CPU, NEW v, Note(c, v), Continue(c), alone[c], Looks(c),
           v = IF pc[c] \in {"lookup1", "lookup3"} THEN None ELSE pid[c],
           pid' = pid
    PROVE  /\ pc'[c] \in MapTest => saw'[c] = Printed(c)'
           /\ pc'[c] = "idle" =>
                 result'[c] = Ok0 /\ saw'[c] = <<None, pid[c], None, pid[c]>>
           /\ pc'[c] = Follower(pc[c])
<1>1. /\ pc \in [CPU -> Stage] /\ saw \in [CPU -> Seq(Pid \cup {0, NoTask, None})]
      /\ result \in [CPU -> Returned]
  BY DEF TypeOK, Stage
<1>2. saw[c] = Printed(c)  BY DEF Runs, Along, Alone, Looks, MapTest
<1>3. saw'[c] = Append(saw[c], v)  BY <1>1 DEF Note
<1>4. pc'[c] = Follower(pc[c])  BY <1>1, Follows
<1>5. pc[c] = "lookup4" => result'[c] = Ok0  BY <1>1, Follows
<1>6. pc[c] \in {"lookup1", "lookup2", "lookup3", "lookup4"}  BY DEF Looks
<1>7. /\ Append(<<>>, None) = <<None>>
      /\ Append(<<None>>, pid[c]) = <<None, pid[c]>>
      /\ Append(<<None, pid[c]>>, None) = <<None, pid[c], None>>
      /\ Append(<<None, pid[c], None>>, pid[c]) = <<None, pid[c], None, pid[c]>>
  BY <1>1, Appended
<1>8. CASE pc[c] = "lookup1"
  BY <1>8, <1>2, <1>3, <1>4, <1>7 DEF Follower, Printed
<1>9. CASE pc[c] = "lookup2"
  BY <1>9, <1>2, <1>3, <1>4, <1>7 DEF Follower, Printed
<1>10. CASE pc[c] = "lookup3"
  BY <1>10, <1>2, <1>3, <1>4, <1>7 DEF Follower, Printed
<1>11. CASE pc[c] = "lookup4"
  BY <1>11, <1>2, <1>3, <1>4, <1>5, <1>7 DEF Follower, Printed, MapTest
<1>. QED  BY <1>6, <1>8, <1>9, <1>10, <1>11

\* The lookups and the printing of a run.
LEMMA RunsLook ==
    ASSUME TypeOK, Key, Runs, prog = "map_test",
           NEW c \in CPU, bpf_map_lookup_elem(c) \/ bpf_printk(c)
    PROVE  Runs'
<1>0. /\ pc \in [CPU -> Stage] /\ ref \in [CPU -> Slot \cup {"array", NULL}]
      /\ result \in [CPU -> Returned] /\ NULL \notin Slot /\ NULL # "array"
  BY MapsAssumption DEF TypeOK, Stage
<1>1. /\ Looks(c) /\ UNCHANGED <<prog, bound, pid, alone, element, value>>
      /\ pc[c] \in {"lookup1", "lookup2", "lookup3", "lookup4"}
  BY DEF bpf_map_lookup_elem, bpf_printk, Looks
<1>2. ref' = [ref EXCEPT ![c] = ref'[c]]
  BY <1>0 DEF bpf_map_lookup_elem, bpf_printk
<1>3. \E s \in MapTest \cup {"idle"} : pc' = [pc EXCEPT ![c] = s]  BY MapStep
<1>4. pc'[c] \in MapTest \cup {"idle"}  BY <1>0, <1>3
<1>5. \A d \in CPU \ {c} : pc'[d] = pc[d]  BY <1>0, <1>3
<1>6. Along(c)  BY DEF Runs
<1>7. CASE Continue(c) /\ ref'[c] = NULL
  <2>1. pc'[c] = Follower(pc[c])  BY <1>0, <1>7, Follows
  <2>2. ASSUME alone[c],
               NEW v, v = (IF pc[c] \in {"lookup1", "lookup3"} THEN None ELSE pid[c]),
               Note(c, v),
               bound
        PROVE  Alone(c)'
    <3>1. /\ pc'[c] \in MapTest => saw'[c] = Printed(c)'
          /\ pc'[c] = "idle" =>
                result'[c] = Ok0 /\ saw'[c] = <<None, pid[c], None, pid[c]>>
      BY <1>1, <1>7, <2>2, RunNotes
    <3>2. pc'[c] \in {"update", "delete", "update2", "idle"}
      BY <1>1, <2>1 DEF Follower
    <3>3. pc'[c] = "delete" => element' # NULL
      BY <1>1, <2>1, <1>6, <2>2 DEF Follower, Along, Alone
    <3>4. \A d \in CPU \ {c} : pc'[d] = "idle"
      BY <1>5, <1>6, <2>2 DEF Along, Alone
    <3>5. pc'[c] = "idle" => Succeeds(c)'
      BY <3>1, <1>1, <2>2 DEF Succeeds
    <3>. QED  BY <3>1, <3>2, <3>3, <3>4, <3>5, <1>7, <1>1, <2>2 DEF Alone
  <2>3. ASSUME alone[c], ~ bound PROVE Alone(c)'
    <3>1. pc[c] = "lookup1" /\ pc'[c] = "update"
      BY <2>1, <2>3, <1>1, <1>6 DEF Along, Alone, Follower
    <3>2. ref[c] = NULL  BY <2>3, <3>1, <1>6 DEF Along, Alone
    <3>3. Note(c, None)  BY <3>2, <1>0, <1>7 DEF bpf_map_lookup_elem, bpf_printk
    <3>4. saw'[c] = Printed(c)'
      <4>1. "update" \in MapTest  BY DEF MapTest
      <4>. QED  BY <3>1, <3>3, <1>1, <1>7, <2>3, <4>1, RunNotes
    <3>5. \A d \in CPU \ {c} : pc'[d] = "idle"
      BY <1>5, <1>6, <2>3 DEF Along, Alone
    <3>. QED  BY <3>1, <3>4, <3>5, <1>7 DEF Alone
  <2>4. ASSUME alone[c], bound
        PROVE  Note(c, IF pc[c] \in {"lookup1", "lookup3"} THEN None ELSE pid[c])
    <3>1. CASE bpf_map_lookup_elem(c)
      <4>1. Note(c, None) /\ pc[c] \in {"lookup1", "lookup3"}
        BY <3>1, <1>0, <1>1, <1>6, <1>7, <2>4
           DEF bpf_map_lookup_elem, Along, Alone
      <4>. QED  BY <4>1
    <3>2. CASE bpf_printk(c)
      <4>1. Note(c, value[ref[c]]) /\ ref[c] # NULL  BY <3>2 DEF bpf_printk
      <4>2. value[ref[c]] = pid[c] /\ pc[c] \notin {"lookup1", "lookup3"}
        BY <4>1, <1>6, <2>4 DEF Along, Alone
      <4>. QED  BY <4>1, <4>2
    <3>. QED  BY <3>1, <3>2
  <2>5. Along(c)'  BY <2>2, <2>3, <2>4, <1>1, <1>4, <1>7 DEF Along
  <2>. QED  BY <2>5, <1>1, <1>2, <1>3, Elsewhere
<1>8. CASE ref'[c] # NULL
  <2>1. /\ bpf_map_lookup_elem(c) /\ UNCHANGED <<saw, pc, result>> /\ bound
        /\ ref'[c] = IF pc[c] = "lookup4" THEN "array" ELSE element
    BY <1>0, <1>8 DEF bpf_map_lookup_elem, bpf_printk
  <2>2. ASSUME alone[c] PROVE Alone(c)'
    <3>1. pc[c] \in {"lookup2", "lookup4"}
      BY <2>1, <2>2, <1>1, <1>6, <1>8 DEF Along, Alone
    <3>. QED  BY <2>1, <2>2, <3>1, <1>1, <1>6 DEF Along, Alone, Printed
  <2>3. Along(c)'  BY <2>1, <2>2, <1>1, <1>6 DEF Along, Looks
  <2>. QED  BY <2>3, <1>1, <1>2, <1>3, Elsewhere
<1>9. (Continue(c) /\ ref'[c] = NULL) \/ ref'[c] # NULL
  BY <1>0 DEF bpf_map_lookup_elem, bpf_printk
<1>. QED  BY <1>7, <1>8, <1>9

\* The updates of a run, and its deletion.
LEMMA RunsChange ==
    ASSUME TypeOK, Key, Runs, prog = "map_test",
           NEW c \in CPU, bpf_map_update_elem(c) \/ bpf_map_delete_elem(c)
    PROVE  Runs'
<1>0. /\ pc \in [CPU -> Stage] /\ ref \in [CPU -> Slot \cup {"array", NULL}]
      /\ result \in [CPU -> Returned] /\ NULL \notin Slot
      /\ value \in [Slot \cup {"array"} -> Pid \cup {0, NoTask}]
      /\ ENOMEM \in Nat \ {0} /\ EINVAL \in Nat /\ ENOENT \in Nat
  BY MapsAssumption DEF TypeOK, Stage
<1>1. /\ pc[c] \in {"update", "update2", "delete"}
      /\ UNCHANGED <<prog, bound, pid, alone, ref, saw>>
  BY DEF bpf_map_update_elem, bpf_map_delete_elem
<1>2. ref' = [ref EXCEPT ![c] = ref'[c]]  BY <1>0, <1>1
<1>3. \E s \in MapTest \cup {"idle"} : pc' = [pc EXCEPT ![c] = s]  BY MapStep
<1>4. pc'[c] \in MapTest \cup {"idle"}  BY <1>0, <1>3
<1>5. \A d \in CPU \ {c} : pc'[d] = pc[d]  BY <1>0, <1>3
<1>6. Along(c)  BY DEF Runs
<1>7. ref[c] = NULL  BY <1>1, <1>6 DEF Along, Looks
<1>8. ASSUME alone[c], Continue(c), bound,
             pc[c] = "update" => element' # NULL /\ value'[element'] = pid[c],
             pc[c] = "update2" => value'["array"] = pid[c],
             pc[c] = "delete" => element' = NULL
      PROVE  Alone(c)'
  <2>1. pc'[c] = Follower(pc[c])  BY <1>0, <1>8, Follows
  <2>2. saw[c] = Printed(c)  BY <1>1, <1>6, <1>8 DEF Along, Alone, MapTest
  <2>3. \A d \in CPU \ {c} : pc'[d] = "idle"
    BY <1>5, <1>6, <1>8 DEF Along, Alone
  <2>4. CASE pc[c] = "update"
    <3>1. pc'[c] = "lookup2"  BY <2>1, <2>4 DEF Follower
    <3>2. saw'[c] = Printed(c)'  BY <3>1, <2>2, <2>4, <1>1 DEF Printed
    <3>. QED  BY <3>1, <3>2, <2>3, <2>4, <1>1, <1>7, <1>8 DEF Alone
  <2>5. CASE pc[c] = "update2"
    <3>1. pc'[c] = "lookup4"  BY <2>1, <2>5 DEF Follower
    <3>2. saw'[c] = Printed(c)'  BY <3>1, <2>2, <2>5, <1>1 DEF Printed
    <3>. QED  BY <3>1, <3>2, <2>3, <2>5, <1>1, <1>7, <1>8 DEF Alone
  <2>6. CASE pc[c] = "delete"
    <3>1. pc'[c] = "lookup3"  BY <2>1, <2>6 DEF Follower
    <3>2. saw'[c] = Printed(c)'  BY <3>1, <2>2, <2>6, <1>1 DEF Printed
    <3>. QED  BY <3>1, <3>2, <2>3, <2>6, <1>1, <1>7, <1>8 DEF Alone
  <2>. QED  BY <2>4, <2>5, <2>6, <1>1
<1>9. ASSUME NEW r \in Returned, alone[c], Return(c, r),
             IF bound THEN pc[c] = "update" /\ r = Err(-ENOMEM) ELSE r = Err(EINVAL)
      PROVE  Alone(c)'
  <2>1. pc'[c] = "idle" /\ result'[c] = r  BY <1>0, <1>9 DEF Return
  <2>2. \A d \in CPU \ {c} : pc'[d] = "idle"
    BY <1>5, <1>6, <1>9 DEF Along, Alone
  <2>3. Succeeds(c)'
    <3>1. CASE bound
      <4>1. saw[c] = <<None>>
        BY <3>1, <1>6, <1>9 DEF Along, Alone, MapTest, Printed
      <4>. QED  BY <4>1, <3>1, <2>1, <1>1, <1>9 DEF Succeeds
    <3>2. CASE ~ bound  BY <3>2, <2>1, <1>1, <1>9 DEF Succeeds
    <3>. QED  BY <3>1, <3>2
  <2>. QED  BY <2>1, <2>2, <2>3, <1>1, <1>7 DEF Alone, MapTest
<1>10. Err(EINVAL) \in Returned /\ ~ Err(EINVAL).ok
  BY <1>0, ReturnedType
<1>11. /\ to_result(0).ok
       /\ to_result(-ENOMEM) = Err(-ENOMEM) /\ ~ Err(-ENOMEM).ok
       /\ Err(-ENOMEM) \in Returned
  <2>1. -ENOMEM \in Int /\ ~ (-ENOMEM >= 0)  BY <1>0
  <2>2. to_result(-ENOMEM) = Err(-ENOMEM)
    <3>1. (-ENOMEM >= 0) = FALSE  BY <2>1
    <3>. QED  BY <3>1 DEF to_result, Err
  <2>. QED  BY <2>1, <2>2, ReturnedType
<1>12. ASSUME alone[c] PROVE Alone(c)'
  <2>1. CASE ~ bound
    <3>1. pc[c] = "update"  BY <2>1, <1>1, <1>6, <1>12 DEF Along, Alone
    <3>2. Question(c, Err(EINVAL))
      BY <3>1, <2>1 DEF bpf_map_update_elem, bpf_map_delete_elem
    <3>3. Return(c, Err(EINVAL))  BY <3>2, <1>10 DEF Question
    <3>. QED  BY <3>3, <2>1, <1>9, <1>10, <1>12
  <2>2. CASE bound /\ pc[c] = "update"
    <3>1. CASE \E s \in Slot \ {element} :
                  /\ element' = s /\ value' = [value EXCEPT ![s] = pid[c]]
                  /\ Question(c, to_result(0))
      <4>1. Continue(c)  BY <3>1, <1>11 DEF Question
      <4>2. element' # NULL /\ value'[element'] = pid[c]  BY <3>1, <1>0
      <4>. QED  BY <4>1, <4>2, <2>2, <1>8, <1>12
    <3>2. CASE Question(c, to_result(-ENOMEM))
      <4>1. Return(c, Err(-ENOMEM))  BY <3>2, <1>11 DEF Question
      <4>. QED  BY <4>1, <2>2, <1>9, <1>11, <1>12
    <3>. QED  BY <3>1, <3>2, <2>2 DEF bpf_map_update_elem, bpf_map_delete_elem
  <2>3. CASE bound /\ pc[c] = "update2"
    <3>1. value' = [value EXCEPT !["array"] = pid[c]] /\ Question(c, to_result(0))
      BY <2>3 DEF bpf_map_update_elem, bpf_map_delete_elem
    <3>2. Continue(c) /\ value'["array"] = pid[c]
      BY <3>1, <1>0, <1>11 DEF Question
    <3>. QED  BY <3>2, <2>3, <1>8, <1>12
  <2>4. CASE bound /\ pc[c] = "delete"
    <3>1. element # NULL  BY <2>4, <1>6, <1>12 DEF Along, Alone
    <3>2. element' = NULL /\ Question(c, to_result(0))
      BY <2>4, <3>1 DEF bpf_map_update_elem, bpf_map_delete_elem
    <3>3. Continue(c)  BY <3>2, <1>11 DEF Question
    <3>. QED  BY <3>2, <3>3, <2>4, <1>8, <1>12
  <2>. QED  BY <2>1, <2>2, <2>3, <2>4, <1>1
<1>13. Along(c)'  BY <1>1, <1>4, <1>7, <1>12 DEF Along
<1>. QED  BY <1>13, <1>1, <1>2, <1>3, Elsewhere

\* Every step keeps what is known of runs.
LEMMA RunsStep == TypeOK /\ Key /\ Runs /\ [Next]_vars => Runs'
<1>. SUFFICES ASSUME TypeOK, Key, Runs, [Next]_vars PROVE Runs'  OBVIOUS
<1>1. prog' = prog
  BY DEF Next, Step, vars, Consume, prog_run, panic, bpf_map_lookup_elem, bpf_printk,
         bpf_map_update_elem, bpf_map_delete_elem, bpf_ringbuf_reserve, Write,
         bpf_ringbuf_submit, bpf_map_push_elem, bpf_map_peek_elem, bpf_map_pop_elem
<1>2. CASE prog # "map_test"  BY <1>1, <1>2 DEF Runs
<1>3. CASE prog = "map_test"
  <2>1. ASSUME NEW c \in CPU
        PROVE  pc[c] \notin RingProgram \cup QueueProgram
    <3>1. pc[c] \in MapTest \cup {"idle"}  BY <1>3 DEF Runs, Along
    <3>. QED  BY <3>1 DEF MapTest, RingProgram, QueueProgram
  <2>2. ASSUME NEW c \in CPU
        PROVE  ~ \/ bpf_ringbuf_reserve(c) \/ Write(c) \/ bpf_ringbuf_submit(c)
                 \/ bpf_map_push_elem(c) \/ bpf_map_peek_elem(c)
                 \/ bpf_map_pop_elem(c) \/ panic(c)
    BY <2>1 DEF bpf_ringbuf_reserve, Write, bpf_ringbuf_submit, bpf_map_push_elem,
                bpf_map_peek_elem, bpf_map_pop_elem, panic, RingProgram, QueueProgram
  <2>3. CASE Consume \/ UNCHANGED vars
    <3>1. UNCHANGED <<prog, bound, pc, pid, result, hash>>
      BY <2>3 DEF Consume, vars
    <3>. QED  BY <3>1 DEF hash, Runs, Along, Alone, Looks, Printed, Succeeds
  <2>. QED  BY <1>3, <2>2, <2>3, RunsBegin, RunsLook, RunsChange DEF Next, Step
<1>. QED  BY <1>2, <1>3

\* The invariant is inductive.
LEMMA InvariantHolds == Spec => []IInv
<1>1. IInv /\ [Next]_vars => IInv'
  BY TypeStep, KeyStep, RecordsStep, RunsStep DEF IInv
<1>. QED  BY <1>1, InitInvariant, PTL DEF Spec

-----------------------------------------------------------------------------
(* The queue.                                                              *)

\* The programs that have pushed a value and not yet tried to pop one.
Waiting == {c \in CPU : pc[c] \in {"peek", "pop"}}

\* There may be any number of CPUs, but a cardinality only of finitely many.
Serves == QueueServes /\ IsFiniteSet(Waiting)

\* A program that leaves its stage adds itself to those waiting, or goes.
LEMMA WaitingStep ==
    ASSUME TypeOK, Serves, NEW c \in CPU, NEW s, pc' = [pc EXCEPT ![c] = s]
    PROVE  /\ IsFiniteSet(Waiting')
           /\ Cardinality(Waiting) \in Nat
           /\ s \in {"peek", "pop"} =>
                 /\ pc[c] \in {"peek", "pop"} => Waiting' = Waiting
                 /\ Cardinality(Waiting') <= Cardinality(Waiting) + 1
           /\ s \notin {"peek", "pop"} =>
                 /\ Cardinality(Waiting') <= Cardinality(Waiting)
                 /\ pc[c] \in {"peek", "pop"} =>
                       Cardinality(Waiting') = Cardinality(Waiting) - 1
<1>0. pc \in [CPU -> Stage]  BY DEF TypeOK, Stage
<1>1. IsFiniteSet(Waiting) /\ Cardinality(Waiting) \in Nat
  BY FS_CardinalityType DEF Serves
<1>2. s \in {"peek", "pop"} => Waiting' = Waiting \cup {c}
  BY <1>0 DEF Waiting
<1>3. s \notin {"peek", "pop"} => Waiting' = Waiting \ {c}
  BY <1>0 DEF Waiting
<1>4. pc[c] \in {"peek", "pop"} <=> c \in Waiting  BY DEF Waiting
<1>5. CASE s \in {"peek", "pop"}
  <2>1. /\ IsFiniteSet(Waiting \cup {c})
        /\ Cardinality(Waiting \cup {c}) =
              IF c \in Waiting THEN Cardinality(Waiting) ELSE Cardinality(Waiting) + 1
    BY <1>1, FS_AddElement
  <2>2. Cardinality(Waiting \cup {c}) <= Cardinality(Waiting) + 1
    BY <1>1, <2>1
  <2>3. pc[c] \in {"peek", "pop"} => Waiting' = Waiting
    BY <1>2, <1>4, <1>5
  <2>. QED  BY <1>1, <1>2, <1>5, <2>1, <2>2, <2>3
<1>6. CASE s \notin {"peek", "pop"}
  <2>1. /\ IsFiniteSet(Waiting \ {c})
        /\ Cardinality(Waiting \ {c}) =
              IF c \in Waiting THEN Cardinality(Waiting) - 1 ELSE Cardinality(Waiting)
    BY <1>1, FS_RemoveElement
  <2>2. Cardinality(Waiting \ {c}) <= Cardinality(Waiting)
    BY <1>1, <2>1
  <2>. QED  BY <1>1, <1>3, <1>4, <1>6, <2>1, <2>2
<1>. QED  BY <1>5, <1>6

\* What the other programs do leaves the queue and those waiting alone.
LEMMA OutsideQueue ==
    ASSUME TypeOK, Serves, NEW c \in CPU, NEW s, pc' = [pc EXCEPT ![c] = s],
           s \notin {"peek", "pop"}, UNCHANGED fifo
    PROVE  Serves'
<1>1. /\ IsFiniteSet(Waiting') /\ Cardinality(Waiting') <= Cardinality(Waiting)
      /\ Cardinality(Waiting) \in Nat /\ Cardinality(Waiting') \in Nat
  <2>1. /\ IsFiniteSet(Waiting') /\ Cardinality(Waiting') <= Cardinality(Waiting)
        /\ Cardinality(Waiting) \in Nat
    BY WaitingStep
  <2>. QED  BY <2>1, FS_CardinalityType
<1>2. Len(queue) \in Nat  BY DEF TypeOK
<1>3. Cardinality(Waiting) <= Len(queue) /\ popped \o queue = pushed
  BY DEF Serves, QueueServes, Waiting
<1>4. queue' = queue /\ popped' = popped /\ pushed' = pushed  BY DEF fifo
<1>5. Cardinality(Waiting') <= Len(queue')  BY <1>1, <1>2, <1>3, <1>4
<1>. QED  BY <1>1, <1>3, <1>4, <1>5 DEF Serves, QueueServes, Waiting

\* Each value that is pushed is there for one that waits.
LEMMA PushStep ==
    ASSUME TypeOK, Serves, NEW c \in CPU, bpf_map_push_elem(c)
    PROVE  Serves'
<1>1. CASE ~ (bound /\ Len(queue) < Capacity)
  BY <1>1, OutsideQueue DEF bpf_map_push_elem, Return, fifo
<1>2. CASE bound /\ Len(queue) < Capacity
  <2>1. /\ queue' = Append(queue, pid[c]) /\ pushed' = Append(pushed, pid[c])
        /\ pc' = [pc EXCEPT ![c] = "peek"] /\ popped' = popped
    BY <1>2 DEF bpf_map_push_elem
  <2>2. /\ pid[c] \in Pid \cup {NoTask}
        /\ queue \in Seq(Pid \cup {NoTask}) /\ popped \in Seq(Pid \cup {NoTask})
    BY DEF TypeOK
  <2>3. /\ IsFiniteSet(Waiting') /\ Cardinality(Waiting') <= Cardinality(Waiting) + 1
        /\ Cardinality(Waiting) \in Nat
    BY <2>1, WaitingStep
  <2>4. Cardinality(Waiting') \in Nat  BY <2>3, FS_CardinalityType
  <2>5. Cardinality(Waiting) <= Len(queue) /\ popped \o queue = pushed
    BY DEF Serves, QueueServes, Waiting
  <2>6. Len(queue') = Len(queue) + 1 /\ Len(queue) \in Nat
    BY <2>1, <2>2, AppendProperties
  <2>7. Cardinality(Waiting') <= Len(queue')  BY <2>3, <2>4, <2>5, <2>6
  <2>8. popped \o Append(queue, pid[c]) = Append(popped \o queue, pid[c])
    BY <2>2
  <2>9. popped' \o queue' = pushed'  BY <2>1, <2>5, <2>8
  <2>. QED  BY <2>3, <2>7, <2>9 DEF Serves, QueueServes, Waiting
<1>. QED  BY <1>1, <1>2

\* One that waits goes with a value, or the queue is as it was.
LEMMA PopStep ==
    ASSUME TypeOK, Serves, NEW c \in CPU, bpf_map_pop_elem(c)
    PROVE  Serves'
<1>1. CASE ~ (bound /\ queue # <<>>)
  <2>1. pc' = [pc EXCEPT ![c] = "idle"]
    BY <1>1, Zenon DEF bpf_map_pop_elem, Return
  <2>2. UNCHANGED fifo  BY <1>1 DEF bpf_map_pop_elem, fifo
  <2>. QED  BY <2>1, <2>2, OutsideQueue
<1>2. CASE bound /\ queue # <<>>
  <2>1. /\ queue' = Tail(queue) /\ popped' = Append(popped, Head(queue))
        /\ pc' = [pc EXCEPT ![c] = "idle"] /\ pushed' = pushed
        /\ pc[c] \in {"peek", "pop"}
    BY <1>2 DEF bpf_map_pop_elem, Return
  <2>2. /\ queue \in Seq(Pid \cup {NoTask}) /\ popped \in Seq(Pid \cup {NoTask})
        /\ queue # <<>>
    BY <1>2 DEF TypeOK
  <2>3. /\ IsFiniteSet(Waiting') /\ Cardinality(Waiting') = Cardinality(Waiting) - 1
        /\ Cardinality(Waiting) \in Nat
    <3>1. "idle" \notin {"peek", "pop"}  OBVIOUS
    <3>. QED  BY <3>1, <2>1, WaitingStep, Zenon
  <2>4. Cardinality(Waiting) <= Len(queue) /\ popped \o queue = pushed
    BY DEF Serves, QueueServes, Waiting
  <2>5. Len(queue') = Len(queue) - 1 /\ Len(queue) \in Nat
    BY <2>1, <2>2, HeadTailProperties
  <2>6. Cardinality(Waiting') <= Len(queue')  BY <2>3, <2>4, <2>5
  <2>7. Append(popped, Head(queue)) \o Tail(queue) = popped \o queue
    BY <2>2
  <2>8. popped' \o queue' = pushed'  BY <2>1, <2>4, <2>7
  <2>. QED  BY <2>3, <2>6, <2>8 DEF Serves, QueueServes, Waiting
<1>. QED  BY <1>1, <1>2

\* Every step serves the queue.
LEMMA ServesStep == TypeOK /\ Serves /\ [Next]_vars => Serves'
<1>. SUFFICES ASSUME TypeOK, Serves, [Next]_vars PROVE Serves'  OBVIOUS
<1>1. ASSUME NEW c \in CPU, prog_run(c) PROVE Serves'
  <2>1. Entry \notin {"peek", "pop"}  BY DEF Entry, TypeOK, Programs
  <2>. QED  BY <2>1, <1>1, OutsideQueue DEF prog_run
<1>2. ASSUME NEW c \in CPU,
             \/ bpf_map_lookup_elem(c) \/ bpf_printk(c)
             \/ bpf_map_update_elem(c) \/ bpf_map_delete_elem(c)
      PROVE  Serves'
  <2>1. UNCHANGED fifo
    BY <1>2 DEF bpf_map_lookup_elem, bpf_printk, bpf_map_update_elem,
                bpf_map_delete_elem
  <2>2. \E s \in MapTest \cup {"idle"} : pc' = [pc EXCEPT ![c] = s]
    BY <1>2, MapStep
  <2>3. \A s \in MapTest \cup {"idle"} : s \notin {"peek", "pop"}  BY DEF MapTest
  <2>. QED  BY <2>1, <2>2, <2>3, OutsideQueue
<1>3. ASSUME NEW c \in CPU,
             bpf_ringbuf_reserve(c) \/ Write(c) \/ bpf_ringbuf_submit(c) \/ panic(c)
      PROVE  Serves'
  <2>1. UNCHANGED fifo
    BY <1>3 DEF bpf_ringbuf_reserve, Write, bpf_ringbuf_submit, panic
  <2>2. \E s \in {"write", "submit", "idle"} : pc' = [pc EXCEPT ![c] = s]
    BY <1>3, Zenon DEF bpf_ringbuf_reserve, Write, bpf_ringbuf_submit, panic, Return
  <2>. QED  BY <2>1, <2>2, OutsideQueue
<1>4. ASSUME NEW c \in CPU, bpf_map_peek_elem(c) PROVE Serves'
  <2>1. pc[c] = "peek" /\ UNCHANGED fifo  BY <1>4 DEF bpf_map_peek_elem
  <2>2. CASE pc' = [pc EXCEPT ![c] = "pop"]
    <3>1. Waiting' = Waiting  BY <2>1, <2>2, WaitingStep
    <3>. QED  BY <3>1, <2>1 DEF Serves, QueueServes, Waiting, fifo
  <2>3. CASE pc' = [pc EXCEPT ![c] = "idle"]  BY <2>1, <2>3, OutsideQueue
  <2>. QED  BY <2>2, <2>3, <1>4 DEF bpf_map_peek_elem, Return
<1>5. CASE Consume
  BY <1>5 DEF Consume, Serves, QueueServes, Waiting, fifo
<1>6. CASE UNCHANGED vars
  BY <1>6 DEF vars, fifo, Serves, QueueServes, Waiting
<1>. QED
  BY <1>1, <1>2, <1>3, <1>4, <1>5, <1>6, PushStep, PopStep DEF Next, Step

\* Nobody waits at first.
LEMMA InitServes == Init => Serves
<1>. SUFFICES ASSUME Init PROVE Serves  OBVIOUS
<1>1. Waiting = {}  BY DEF Init, Waiting
<1>2. IsFiniteSet(Waiting) /\ Cardinality(Waiting) = 0  BY <1>1, FS_EmptySet
<1>3. queue = <<>> /\ popped = <<>> /\ pushed = <<>>  BY DEF Init
<1>4. Len(queue) = 0 /\ popped \o queue = pushed  BY <1>3
<1>. QED  BY <1>2, <1>4 DEF Serves, QueueServes, Waiting

-----------------------------------------------------------------------------
(* Theorems.                                                               *)

\* The helpers of maps and of the ring buffer keep the type of every variable:
\* references name elements, and the ring holds at most Capacity records.
THEOREM MapsTypeCorrect == Spec => []TypeOK
<1>1. IInv => TypeOK  BY DEF IInv
<1>. QED  BY <1>1, InvariantHolds, PTL

\* Runs of map_test on any number of CPUs leave key 0 behind only while one of
\* them is between its bpf_map_update_elem and its bpf_map_delete_elem.
THEOREM KeyRemoved == Spec => []CleanAfter
<1>1. IInv => CleanAfter  BY DEF IInv, Key, CleanAfter
<1>. QED  BY <1>1, InvariantHolds, PTL

\* A run of map_test that no other overlaps has each of its four lookups find
\* what it has put there, for any number of CPUs and elements and whatever the
\* runs before it have left behind.
THEOREM RunsAloneSucceed == Spec => []AloneSucceeds
<1>1. IInv => AloneSucceeds
  BY DEF IInv, Runs, Along, Alone, Succeeds, AloneSucceeds
<1>. QED  BY <1>1, InvariantHolds, PTL

\* The records of bpf_ringbuf_reserve reach the consumer in their order, each
\* with what its program wrote before bpf_ringbuf_submit, whatever panics.
THEOREM RecordsInOrder == Spec => []RecordsComplete
<1>1. IInv => RecordsComplete  BY DEF IInv, Records, Complete
<1>. QED  BY <1>1, InvariantHolds, PTL

\* bpf_map_pop_elem hands out every value of bpf_map_push_elem once and in
\* their order, and a program on any CPU that has pushed a value finds one to
\* pop, however many overlap and whichever panic.
THEOREM QueueServed == Spec => []QueueServes
<1>1. IInv => TypeOK  BY DEF IInv
<1>2. IInv /\ Serves /\ [Next]_vars => Serves'  BY <1>1, ServesStep
<1>3. Serves => QueueServes  BY DEF Serves
<1>. QED  BY <1>2, <1>3, InitServes, InvariantHolds, PTL DEF Spec
=============================================================================
