--------------------------- MODULE FastClockProofs ---------------------------
(***************************************************************************)
(* FastClock implements AtomicClock for every number of readers, every     *)
(* width of the counter and of the sequence number.                        *)
(***************************************************************************)
EXTENDS FastClock, TLAPS

-----------------------------------------------------------------------------
(* The inductive invariant.                                                *)

\* Whatever has been read of a counter lies inside its turn.
InTurn ==
    /\ new["cycle_last"] \in Turn
    /\ \A i \in 0 .. 1 : base[i]["cycle_last"] \in Turn
    /\ \A r \in Reader : /\ got[r]["cycle"] \in Turn
                         /\ got[r]["cycle_last"] \in Turn

\* A copy from which the present time can be computed.
Exact(b, last) ==
    /\ b <= time /\ time - b <= HalfTurn
    /\ \/ last + (time - b) = cycle
       \/ last + (time - b) = cycle + Mask + 1

\* The copy readers are sent to is exact; the other one is being replaced by the
\* update, which is exact too.
Latch ==
    /\ Exact(base[seq.low]["base"], base[seq.low]["cycle_last"])
    /\ Exact(new["base"], new["cycle_last"])
    /\ base[seq.low]["base"] <= new["base"]
    /\ seq.low = 0 => \A f \in Field : base[0][f] = new[f]
    /\ \A f \in Field : f \notin left => base[1 - seq.low][f] = new[f]

\* What a reader of the boot clock must have reached on the monotonic one.
Due(r) == IF asks[r] = "boot" THEN from[r] - offs ELSE from[r]

Position(s) == 2 * s.high + s.low

\* The time the copy a reader uses gives for the reading of the counter it took.
Given(r) == base[seq.low]["base"]
              + clocksource_delta(got[r]["cycle"], base[seq.low]["cycle_last"])

\* While seq stands still, what a reader has read is what the copy holds.
Snapshot(r) ==
    /\ \/ Position(start[r]) + lag[r] = Position(seq)
       \/ Position(start[r]) + lag[r] = Position(seq) + 2 * Rounds
    /\ lag[r] = 0 =>
          /\ start[r] = seq
          /\ \A f \in Field : f \notin todo[r] => got[r][f] = base[seq.low][f]
          /\ "cycle" \notin todo[r] => Due(r) <= Given(r) /\ Given(r) <= time

ReadInv(r) ==
    /\ pc[r] = "idle" <=> asks[r] = "none"
    /\ pc[r] \in {"seq", "read"} => Due(r) <= time
    /\ pc[r] = "read" => Snapshot(r)
    /\ pc[r] = "offs" => asks[r] = "boot" /\ Due(r) <= now[r] /\ now[r] <= time

Readers == \A r \in Reader : ReadInv(r)

IInv == TypeOK /\ InTurn /\ Latch /\ Readers

-----------------------------------------------------------------------------
(* Lemmas about the operators.                                             *)

\* The difference of two readings is between 0 and half a turn.
LEMMA DeltaBound ==
    ASSUME NEW a \in Turn, NEW b \in Turn
    PROVE  clocksource_delta(a, b) \in 0 .. HalfTurn
  BY FastClockAssumption, SMT DEF clocksource_delta, Turn, Mask

\* From an exact copy, the difference to the counter gives the present time.
LEMMA ExactDelta ==
    ASSUME NEW b \in Nat, NEW last \in Turn, time \in Nat, cycle \in Turn,
           Exact(b, last)
    PROVE  b + clocksource_delta(cycle, last) = time
  BY FastClockAssumption, SMT DEF clocksource_delta, Exact, Turn, Mask

\* Positions of sequence numbers.
LEMMA PositionType ==
    ASSUME NEW s \in Seq
    PROVE  /\ s.high \in 0 .. Rounds - 1 /\ s.low \in 0 .. 1
           /\ Position(s) \in 0 .. 2 * Rounds - 1
  <1>1. s.high \in 0 .. Rounds - 1 /\ s.low \in 0 .. 1
    BY SMT DEF Seq
  <1>2. QED
    BY <1>1, FastClockAssumption, SMT DEF Position

\* A reader whose seq is the present one has seen no increment: fewer than all
\* values of seq went by.
LEMMA SameSeq ==
    ASSUME NEW r \in Reader, TypeOK, Snapshot(r), start[r] = seq
    PROVE  lag[r] = 0
  <1>1. Position(seq) \in 0 .. 2 * Rounds - 1 /\ Rounds \in Nat
    BY PositionType, FastClockAssumption DEF TypeOK
  <1>2. lag[r] \in 0 .. 2 * Rounds - 1
    BY DEF TypeOK
  <1>3. \/ Position(seq) + lag[r] = Position(seq)
        \/ Position(seq) + lag[r] = Position(seq) + 2 * Rounds
    BY DEF Snapshot
  <1>4. QED
    BY <1>1, <1>2, <1>3, SMT

\* An increment moves seq to the next position, which wraps around.
LEMMA IncrementMoves ==
    ASSUME TypeOK, Increment
    PROVE  /\ seq' \in Seq /\ seq'.low = 1 - seq.low
           /\ lag' \in [Reader -> 0 .. 2 * Rounds - 1]
           /\ \/ Position(seq') = Position(seq) + 1
              \/ Position(seq') = Position(seq) + 1 - 2 * Rounds
  <1> DEFINE h == IF seq.low = 0 THEN seq.high
                  ELSE IF seq.high = Rounds - 1 THEN 0 ELSE seq.high + 1
  <1>1. seq.high \in 0 .. Rounds - 1 /\ seq.low \in 0 .. 1
    BY PositionType DEF TypeOK
  <1>2. h \in 0 .. Rounds - 1 /\ 1 - seq.low \in 0 .. 1
    BY <1>1, FastClockAssumption, SMT
  <1>3. seq' = [high |-> h, low |-> 1 - seq.low]
    BY DEF Increment
  <1>4. seq'.high = h /\ seq'.low = 1 - seq.low
    BY <1>3
  <1>5. seq' \in Seq
    BY <1>2, <1>3 DEF Seq
  <1>6. \/ Position(seq') = Position(seq) + 1
        \/ Position(seq') = Position(seq) + 1 - 2 * Rounds
    BY <1>1, <1>4, FastClockAssumption, SMT DEF Position
  <1>7. lag' \in [Reader -> 0 .. 2 * Rounds - 1]
    BY FastClockAssumption, SMT DEF TypeOK, Increment
  <1>8. QED
    BY <1>4, <1>5, <1>6, <1>7

\* After an increment a reader is still its lag behind, and the lag is not 0.
LEMMA IncrementSnapshot ==
    ASSUME TypeOK, Increment, UNCHANGED start,
           NEW r \in Reader, pc[r] = "read", Snapshot(r)
    PROVE  Snapshot(r)'
  <1>1. lag[r] \in Nat /\ lag'[r] = lag[r] + 1
    BY SMT DEF TypeOK, Increment
  <1>2. lag'[r] \in 0 .. 2 * Rounds - 1 /\ lag'[r] # 0
    BY <1>1, IncrementMoves, SMT
  <1>3. /\ Position(seq) \in 0 .. 2 * Rounds - 1
        /\ Position(seq') \in 0 .. 2 * Rounds - 1
        /\ Position(start[r]) \in 0 .. 2 * Rounds - 1
    BY IncrementMoves, PositionType DEF TypeOK
  <1>4. \/ Position(start[r]) + lag[r] = Position(seq)
        \/ Position(start[r]) + lag[r] = Position(seq) + 2 * Rounds
    BY DEF Snapshot
  <1>5. \/ Position(start[r]) + lag'[r] = Position(seq')
        \/ Position(start[r]) + lag'[r] = Position(seq') + 2 * Rounds
    BY <1>1, <1>2, <1>3, <1>4, IncrementMoves, FastClockAssumption, SMT
  <1>6. QED
    BY <1>2, <1>5 DEF Snapshot, Position

-----------------------------------------------------------------------------
(* The invariant is inductive.                                             *)

LEMMA InitInv == Init => IInv
  <1> SUFFICES ASSUME Init PROVE IInv
    OBVIOUS
  <1>1. TypeOK
    BY FastClockAssumption, SMT DEF Init, TypeOK, Seq, Field, Read, Turn, Mask
  <1>2. InTurn
    BY FastClockAssumption, SMT DEF Init, InTurn, Field, Read, Turn, Mask
  <1>3. Latch
    BY FastClockAssumption, SMT DEF Init, Latch, Exact, Field, Turn, Mask
  <1>4. Readers
    BY SMT DEF Init, Readers, ReadInv
  <1>5. QED
    BY <1>1, <1>2, <1>3, <1>4 DEF IInv

\* The counter and the clock move together.
LEMMA TickInv == IInv /\ Tick => IInv'
  <1> SUFFICES ASSUME IInv, Tick PROVE IInv'
    OBVIOUS
  <1> USE FastClockAssumption DEF Tick, clock, writer, local
  <1>1. TypeOK'
    BY SMT DEF IInv, TypeOK, Turn, Mask
  <1>2. InTurn'
    BY DEF IInv, InTurn
  <1>3. Latch'
    <2>1. /\ base[seq.low]["base"] \in Nat /\ base[seq.low]["cycle_last"] \in Turn
          /\ new["base"] \in Nat /\ new["cycle_last"] \in Turn
      BY PositionType DEF IInv, TypeOK, InTurn, Field
    <2>2. /\ Exact(base[seq.low]["base"], base[seq.low]["cycle_last"])'
          /\ Exact(new["base"], new["cycle_last"])'
      <3> DEFINE b == base[seq.low]["base"]
      <3>1. /\ time \in Nat /\ cycle \in Turn /\ time' = time + 1
            /\ cycle' = IF cycle = Mask THEN 0 ELSE cycle + 1
            /\ time - b < HalfTurn
        BY DEF IInv, TypeOK
      <3>2. b <= new["base"] /\ Exact(b, base[seq.low]["cycle_last"])
            /\ Exact(new["base"], new["cycle_last"])
        BY DEF IInv, Latch
      <3>3. time' - b <= HalfTurn /\ time' - new["base"] <= HalfTurn
        BY <2>1, <3>1, <3>2, SMT
      <3> HIDE DEF b
      <3>4. \A c \in Nat, l \in Turn :
                Exact(c, l) /\ time' - c <= HalfTurn => Exact(c, l)'
        BY <3>1, SMT DEF Exact, Turn, Mask
      <3>5. QED
        BY <2>1, <3>2, <3>3, <3>4 DEF b
    <2>3. QED
      BY <2>2 DEF IInv, Latch
  <1>4. Readers'
    <2> SUFFICES ASSUME NEW r \in Reader PROVE ReadInv(r)'
      BY DEF Readers
    <2>1. ReadInv(r)
      BY DEF IInv, Readers
    <2>2. Due(r)' = Due(r) /\ Given(r)' = Given(r)
      BY DEF Due, Given, clocksource_delta
    <2>3. /\ time' = time + 1 /\ time \in Int /\ Due(r) \in Int /\ now[r] \in Int
      BY SMT DEF IInv, TypeOK, Due
    <2>4. pc[r] = "read" => Snapshot(r)'
      <3> SUFFICES ASSUME pc[r] = "read" PROVE Snapshot(r)'
        OBVIOUS
      <3>1. Given(r) \in Int
        <4>1. /\ base[seq.low]["base"] \in Int /\ base[seq.low]["cycle_last"] \in Turn
              /\ got[r]["cycle"] \in Turn
          BY PositionType DEF IInv, TypeOK, InTurn, Field
        <4>2. QED
          BY <4>1, DeltaBound, SMT DEF Given
      <3>2. QED
        BY <2>1, <2>2, <2>3, <3>1, SMT DEF ReadInv, Snapshot, Position
    <2>5. QED
      BY <2>1, <2>2, <2>3, <2>4, SMT DEF ReadInv
  <1>5. QED
    BY <1>1, <1>2, <1>3, <1>4 DEF IInv

\* The offset grows, so that a reader of the boot clock has less to reach.
LEMMA ResumeInv == IInv /\ Resume => IInv'
  <1> SUFFICES ASSUME IInv, Resume PROVE IInv'
    OBVIOUS
  <1> USE DEF Resume, clock, writer, local
  <1>1. TypeOK'
    BY FastClockAssumption, SMT DEF IInv, TypeOK
  <1>2. InTurn' /\ Latch'
    BY DEF IInv, InTurn, Latch, Exact
  <1>3. Readers'
    <2> SUFFICES ASSUME NEW r \in Reader PROVE ReadInv(r)'
      BY DEF Readers
    <2>1. ReadInv(r)
      BY DEF IInv, Readers
    <2>2. /\ Due(r) \in Int /\ Due(r)' \in Int /\ Due(r)' <= Due(r)
          /\ time \in Int /\ now[r] \in Int /\ Given(r)' = Given(r)
      BY SMT DEF IInv, TypeOK, Due, Given, clocksource_delta
    <2>3. Given(r) \in Int
      <3>1. /\ base[seq.low]["base"] \in Int /\ base[seq.low]["cycle_last"] \in Turn
            /\ got[r]["cycle"] \in Turn
        BY PositionType DEF IInv, TypeOK, InTurn, Field
      <3>2. QED
        BY <3>1, DeltaBound, FastClockAssumption, SMT DEF Given
    <2>4. QED
      BY <2>1, <2>2, <2>3, SMT DEF ReadInv, Snapshot, Position
  <1>4. QED
    BY <1>1, <1>2, <1>3 DEF IInv

\* Readers are not affected by an increment: those that read have a lag then.
LEMMA IncrementReaders ==
    ASSUME IInv, Increment,
           UNCHANGED <<time, offs, asks, from, pc, start, todo, got, now>>
    PROVE  Readers'
  <1> SUFFICES ASSUME NEW r \in Reader PROVE ReadInv(r)'
    BY DEF Readers
  <1>1. ReadInv(r) /\ TypeOK
    BY DEF IInv, Readers
  <1>2. Due(r)' = Due(r)
    BY DEF Due
  <1>3. pc[r] = "read" => Snapshot(r)'
    BY <1>1, IncrementSnapshot DEF ReadInv
  <1>4. QED
    BY <1>1, <1>2, <1>3 DEF ReadInv

\* Both copies are exact when an update begins, so that readers may be sent to
\* the second.
LEMMA UpdateBeginInv == IInv /\ UpdateBegin => IInv'
  <1> SUFFICES ASSUME IInv, UpdateBegin PROVE IInv'
    OBVIOUS
  <1> USE DEF UpdateBegin, clock, local
  <1>1. /\ seq' \in Seq /\ seq'.low = 1 /\ seq.low = 0
        /\ lag' \in [Reader -> 0 .. 2 * Rounds - 1]
    BY IncrementMoves, SMT DEF IInv
  <1>2. /\ new'["base"] = time /\ new'["cycle_last"] = cycle
        /\ new' \in [Field -> Nat]
    BY FastClockAssumption, SMT DEF IInv, TypeOK, Field, Turn, Mask
  <1>3. TypeOK'
    BY <1>1, <1>2 DEF IInv, TypeOK
  <1>4. InTurn'
    BY <1>2 DEF IInv, InTurn, TypeOK
  <1>5. Latch'
    <2>1. /\ base[1]["base"] = base[0]["base"]
          /\ base[1]["cycle_last"] = base[0]["cycle_last"]
      BY <1>1, SMT DEF IInv, Latch, Field
    <2>2. /\ Exact(base[1]["base"], base[1]["cycle_last"])
          /\ base[1]["base"] <= time
      BY <1>1, <2>1 DEF IInv, Latch, Exact
    <2>3. Exact(time, cycle)
      BY FastClockAssumption, SMT DEF Exact, IInv, TypeOK, Turn, Mask
    <2>4. QED
      BY <1>1, <1>2, <2>2, <2>3, SMT DEF Latch, Exact
  <1>6. Readers'
    BY IncrementReaders
  <1>7. QED
    BY <1>3, <1>4, <1>5, <1>6 DEF IInv

\* The copy written is not the one readers are sent to.
LEMMA UpdateFieldInv ==
    ASSUME IInv, NEW f \in Field, UpdateField(f)
    PROVE  IInv'
  <1> USE DEF UpdateField, clock, local
  <1>1. seq.low \in 0 .. 1 /\ 1 - seq.low \in 0 .. 1 /\ 1 - seq.low # seq.low
    <2>1. seq.low \in 0 .. 1
      BY PositionType DEF IInv, TypeOK
    <2>2. QED
      BY <2>1, SMT
  <1>2. base \in [0 .. 1 -> [Field -> Nat]] /\ new \in [Field -> Nat]
    BY DEF IInv, TypeOK
  <1>3. /\ base'[seq.low] = base[seq.low]
        /\ \A g \in Field : base'[1 - seq.low][g] =
                              IF g = f THEN new[f] ELSE base[1 - seq.low][g]
        /\ base' \in [0 .. 1 -> [Field -> Nat]]
    BY <1>1, <1>2, SMT
  <1>4. TypeOK'
    BY <1>3 DEF IInv, TypeOK
  <1>5. InTurn'
    <2> SUFFICES ASSUME NEW i \in 0 .. 1 PROVE base'[i]["cycle_last"] \in Turn
      BY DEF IInv, InTurn
    <2>1. i = seq.low \/ i = 1 - seq.low
      BY <1>1, SMT
    <2>2. QED
      BY <1>1, <1>3, <2>1 DEF IInv, InTurn, Field
  <1>6. Latch'
    <2>1. \A g \in Field : g \notin left' => base'[1 - seq.low][g] = new[g]
      BY <1>3 DEF IInv, Latch
    <2>2. seq.low = 0 => \A g \in Field : base'[0][g] = new[g]
      BY <1>3 DEF IInv, Latch
    <2>3. QED
      BY <1>3, <2>1, <2>2 DEF IInv, Latch, Exact
  <1>7. Readers'
    <2> SUFFICES ASSUME NEW r \in Reader PROVE ReadInv(r)'
      BY DEF Readers
    <2>1. ReadInv(r)
      BY DEF IInv, Readers
    <2>2. Due(r)' = Due(r) /\ Given(r)' = Given(r)
      BY <1>3 DEF Due, Given, clocksource_delta
    <2>3. QED
      BY <1>3, <2>1, <2>2 DEF ReadInv, Snapshot, Position
  <1>8. QED
    BY <1>4, <1>5, <1>6, <1>7 DEF IInv

\* The copy written is complete when readers are sent back to it.
LEMMA UpdateSwitchInv == IInv /\ UpdateSwitch => IInv'
  <1> SUFFICES ASSUME IInv, UpdateSwitch PROVE IInv'
    OBVIOUS
  <1> USE DEF UpdateSwitch, clock, local
  <1>1. /\ seq' \in Seq /\ seq'.low = 0 /\ seq.low = 1
        /\ lag' \in [Reader -> 0 .. 2 * Rounds - 1]
    BY IncrementMoves, SMT DEF IInv
  <1>2. TypeOK' /\ InTurn'
    BY <1>1 DEF IInv, TypeOK, InTurn
  <1>3. Latch'
    <2>1. \A f \in Field : base[0][f] = new[f]
      BY <1>1, SMT DEF IInv, Latch
    <2>2. /\ base[0]["base"] = new["base"]
          /\ base[0]["cycle_last"] = new["cycle_last"]
      BY <2>1 DEF Field
    <2>3. Exact(new["base"], new["cycle_last"])' /\ new["base"] \in Nat
      BY DEF IInv, TypeOK, Latch, Exact, Field
    <2>4. QED
      BY <1>1, <2>1, <2>2, <2>3, SMT DEF Latch, Exact
  <1>4. Readers'
    BY IncrementReaders
  <1>5. QED
    BY <1>2, <1>3, <1>4 DEF IInv

\* A step of a reader leaves the writer, the clock and other readers alone.
LEMMA ReaderMoves ==
    ASSUME IInv, NEW r \in Reader, UNCHANGED <<clock, writer>>,
           TypeOK', ReadInv(r)',
           got'[r]["cycle"] \in Turn, got'[r]["cycle_last"] \in Turn,
           \A q \in Reader \ {r} :
               /\ asks'[q] = asks[q] /\ from'[q] = from[q] /\ pc'[q] = pc[q]
               /\ start'[q] = start[q] /\ todo'[q] = todo[q]
               /\ got'[q] = got[q] /\ now'[q] = now[q] /\ lag'[q] = lag[q]
    PROVE  IInv'
  <1> USE DEF clock, writer
  <1>1. InTurn'
    <2> SUFFICES ASSUME NEW q \in Reader
                 PROVE  got'[q]["cycle"] \in Turn /\ got'[q]["cycle_last"] \in Turn
      BY DEF IInv, InTurn
    <2>1. CASE q = r
      BY <2>1
    <2>2. CASE q # r
      BY <2>2 DEF IInv, InTurn
    <2>3. QED
      BY <2>1, <2>2
  <1>2. Latch'
    BY DEF IInv, Latch, Exact
  <1>3. Readers'
    <2> SUFFICES ASSUME NEW q \in Reader, q # r PROVE ReadInv(q)'
      BY DEF Readers
    <2>1. ReadInv(q)
      BY DEF IInv, Readers
    <2>2. Due(q)' = Due(q) /\ Given(q)' = Given(q)
      BY DEF Due, Given, clocksource_delta
    <2>3. QED
      BY <2>1, <2>2 DEF ReadInv, Snapshot, Position
  <1>4. QED
    BY <1>1, <1>2, <1>3 DEF IInv

LEMMA CallInv ==
    ASSUME IInv, NEW r \in Reader, NEW k \in {"mono", "boot"},
           ktime_get_fast_ns(r, k)
    PROVE  IInv'
  <1> USE DEF ktime_get_fast_ns, clock, writer, local
  <1>1. TypeOK'
    BY SMT DEF IInv, TypeOK
  <1>2. ReadInv(r)'
    <2>1. /\ pc'[r] = "seq" /\ asks'[r] = k
          /\ from'[r] = IF k = "mono" THEN time ELSE time + offs
      BY SMT DEF IInv, TypeOK
    <2>2. Due(r)' = time
      BY <2>1, SMT DEF IInv, TypeOK, Due
    <2>3. QED
      BY <2>1, <2>2, SMT DEF ReadInv, IInv, TypeOK
  <1>3. got[r]["cycle"] \in Turn /\ got[r]["cycle_last"] \in Turn
    BY DEF IInv, InTurn
  <1>4. QED
    BY <1>1, <1>2, <1>3, ReaderMoves DEF IInv, TypeOK

LEMMA ReadSeqInv ==
    ASSUME IInv, NEW r \in Reader, raw_read_seqcount_latch(r)
    PROVE  IInv'
  <1> USE DEF raw_read_seqcount_latch, clock, writer
  <1>1. TypeOK'
    BY FastClockAssumption, SMT DEF IInv, TypeOK
  <1>2. /\ pc'[r] = "read" /\ start'[r] = seq /\ todo'[r] = Read /\ lag'[r] = 0
        /\ Due(r)' = Due(r) /\ pc[r] = "seq"
    BY SMT DEF IInv, TypeOK, Due
  <1>3. Snapshot(r)'
    <2>1. Position(seq) \in Int
      BY PositionType, FastClockAssumption, SMT DEF IInv, TypeOK
    <2>2. QED
      BY <1>2, <2>1, SMT DEF Snapshot, Position, Read, Field
  <1>4. ReadInv(r)'
    BY <1>2, <1>3 DEF ReadInv, IInv, Readers
  <1>5. got[r]["cycle"] \in Turn /\ got[r]["cycle_last"] \in Turn
    BY DEF IInv, InTurn
  <1>6. QED
    BY <1>1, <1>4, <1>5, ReaderMoves DEF IInv, TypeOK

\* What is read while seq stands still is what the copy in use holds.
LEMMA ReadFieldInv ==
    ASSUME IInv, NEW r \in Reader, NEW f \in Read, ReadField(r, f)
    PROVE  IInv'
  <1> USE DEF ReadField, clock, writer
  <1> DEFINE v == IF f = "cycle" THEN cycle ELSE base[start[r].low][f]
  <1>1. /\ start[r].low \in 0 .. 1
        /\ f # "cycle" => f \in Field /\ base[start[r].low][f] \in Nat
        /\ f = "cycle_last" => v \in Turn
        /\ f = "cycle" => v \in Turn /\ v = cycle
        /\ v \in Nat
    <2>1. start[r].low \in 0 .. 1
      BY PositionType DEF IInv, TypeOK
    <2>2. f # "cycle" => f \in Field /\ base[start[r].low][f] \in Nat
      BY <2>1 DEF IInv, TypeOK, Read
    <2>3. cycle \in Turn /\ cycle \in Nat
      BY FastClockAssumption, SMT DEF IInv, TypeOK, Turn, Mask
    <2>4. QED
      BY <2>1, <2>2, <2>3 DEF IInv, InTurn
  <1> HIDE DEF v
  <1>2. /\ got'[r] \in [Read -> Nat] /\ got'[r][f] = v
        /\ \A g \in Read \ {f} : got'[r][g] = got[r][g]
        /\ got' \in [Reader -> [Read -> Nat]]
        /\ \A q \in Reader \ {r} : got'[q] = got[q]
    <2>1. got' = [got EXCEPT ![r][f] = v] /\ got \in [Reader -> [Read -> Nat]]
      BY DEF v, IInv, TypeOK
    <2>2. QED
      BY <1>1, <2>1, SMT
  <1>3. /\ todo' \in [Reader -> SUBSET Read] /\ todo'[r] = todo[r] \ {f}
        /\ \A q \in Reader \ {r} : todo'[q] = todo[q]
    BY SMT DEF IInv, TypeOK
  <1>4. TypeOK'
    BY <1>2, <1>3 DEF IInv, TypeOK
  <1>5. got'[r]["cycle"] \in Turn /\ got'[r]["cycle_last"] \in Turn
    BY <1>1, <1>2 DEF IInv, InTurn, Read, Field
  <1>6. Snapshot(r)'
    <2>1. Snapshot(r) /\ ReadInv(r)
      BY DEF IInv, Readers, ReadInv
    <2> SUFFICES ASSUME lag[r] = 0
                 PROVE  /\ \A g \in Field : g \notin todo'[r] =>
                                got'[r][g] = base[seq.low][g]
                        /\ "cycle" \notin todo'[r] =>
                                Due(r)' <= Given(r)' /\ Given(r)' <= time
      BY <2>1 DEF Snapshot, Position
    <2>2. start[r] = seq
      BY <2>1 DEF Snapshot
    <2>3. \A g \in Field : g \notin todo'[r] => got'[r][g] = base[seq.low][g]
      <3> SUFFICES ASSUME NEW g \in Field, g \notin todo'[r]
                   PROVE  got'[r][g] = base[seq.low][g]
        OBVIOUS
      <3>1. CASE g = f
        BY <1>2, <2>2, <3>1 DEF v, Field
      <3>2. CASE g # f
        BY <1>2, <1>3, <2>1, <3>2 DEF Snapshot, Read
      <3>3. QED
        BY <3>1, <3>2
    <2>4. Due(r)' = Due(r) /\ Due(r) <= time /\ time \in Nat
      BY <2>1 DEF Due, ReadInv, IInv, TypeOK
    <2>5. CASE f = "cycle"
      <3>1. /\ base[seq.low]["base"] \in Nat
            /\ base[seq.low]["cycle_last"] \in Turn
            /\ Exact(base[seq.low]["base"], base[seq.low]["cycle_last"])
            /\ cycle \in Turn
        BY PositionType DEF IInv, TypeOK, InTurn, Latch, Field
      <3>2. base[seq.low]["base"]
              + clocksource_delta(cycle, base[seq.low]["cycle_last"]) = time
        BY <2>4, <3>1, ExactDelta
      <3>3. got'[r]["cycle"] = cycle
        BY <1>1, <1>2, <2>5
      <3>4. Given(r)' = time
        BY <3>2, <3>3 DEF Given, clocksource_delta, Mask
      <3>5. QED
        BY <2>3, <2>4, <3>4, SMT
    <2>6. CASE f # "cycle"
      <3>1. got'[r]["cycle"] = got[r]["cycle"]
        BY <1>2, <2>6 DEF Read
      <3>2. Given(r)' = Given(r)
        BY <3>1 DEF Given, clocksource_delta
      <3>3. "cycle" \notin todo'[r] => "cycle" \notin todo[r]
        BY <1>3, <2>6
      <3>4. QED
        BY <2>1, <2>3, <2>4, <3>2, <3>3 DEF Snapshot
    <2>7. QED
      BY <2>5, <2>6
  <1>7. ReadInv(r)'
    BY <1>6 DEF ReadInv, IInv, Readers, Due
  <1>8. QED
    BY <1>2, <1>3, <1>4, <1>5, <1>7, ReaderMoves DEF IInv, TypeOK

LEMMA RetryInv ==
    ASSUME IInv, NEW r \in Reader, Retry(r)
    PROVE  IInv'
  <1> USE DEF Retry, clock, writer
  <1>1. TypeOK'
    BY SMT DEF IInv, TypeOK
  <1>2. /\ pc'[r] = "seq" /\ Due(r)' = Due(r) /\ got'[r] = [f \in Read |-> 0]
        /\ \A q \in Reader \ {r} : got'[q] = got[q] /\ pc'[q] = pc[q]
    BY DEF IInv, TypeOK, Due
  <1>3. ReadInv(r)'
    BY <1>2 DEF ReadInv, IInv, Readers
  <1>4. got'[r]["cycle"] \in Turn /\ got'[r]["cycle_last"] \in Turn
    BY <1>2, FastClockAssumption, SMT DEF Read, Field, Turn, Mask
  <1>5. QED
    BY <1>1, <1>2, <1>3, <1>4, ReaderMoves

\* When seq has not changed, what the iteration computed is a time at which the
\* clock stood during the call.
LEMMA DoneExact ==
    ASSUME IInv, NEW r \in Reader, pc[r] = "read", todo[r] = {},
           ~ read_seqcount_latch_retry(r)
    PROVE  Computed(r) \in Nat /\ Due(r) <= Computed(r) /\ Computed(r) <= time
  <1>1. Snapshot(r) /\ start[r] = seq
    BY DEF IInv, Readers, ReadInv, read_seqcount_latch_retry
  <1>2. lag[r] = 0
    BY <1>1, SameSeq DEF IInv
  <1>3. \A f \in Field : got[r][f] = base[seq.low][f]
    BY <1>1, <1>2 DEF Snapshot
  <1>4. Computed(r) = Given(r)
    BY <1>3 DEF Computed, Given, Field
  <1>5. Given(r) \in Nat
    <2>1. /\ base[seq.low]["base"] \in Nat /\ base[seq.low]["cycle_last"] \in Turn
          /\ got[r]["cycle"] \in Turn
      BY PositionType DEF IInv, TypeOK, InTurn, Field
    <2>2. QED
      BY <2>1, DeltaBound, FastClockAssumption, SMT DEF Given
  <1>6. QED
    BY <1>1, <1>2, <1>4, <1>5 DEF Snapshot

LEMMA DoneInv ==
    ASSUME IInv, NEW r \in Reader, Done(r)
    PROVE  IInv'
  <1> USE DEF Done, clock, writer
  <1>1. Computed(r) \in Nat /\ Due(r) <= Computed(r) /\ Computed(r) <= time
    BY DoneExact
  <1> HIDE DEF Computed
  <1>2. TypeOK'
    <2>1. /\ now' \in [Reader -> Nat] /\ ret' \in [Reader -> Nat]
          /\ asks' \in [Reader -> {"none", "mono", "boot"}]
          /\ pc' \in [Reader -> {"idle", "seq", "read", "offs"}]
      <3>1. CASE asks[r] = "boot"
        BY <1>1, <3>1 DEF IInv, TypeOK
      <3>2. CASE asks[r] = "mono"
        <4>1. /\ pc' = [pc EXCEPT ![r] = "idle"]
              /\ asks' = [asks EXCEPT ![r] = "none"]
              /\ ret' = [ret EXCEPT ![r] = Computed(r)] /\ now' = now
          BY <3>2
        <4>2. QED
          BY <1>1, <4>1 DEF IInv, TypeOK
      <3>3. QED
        BY <3>1, <3>2
    <2>2. got' \in [Reader -> [Read -> Nat]]
      BY SMT DEF IInv, TypeOK
    <2>3. QED
      BY <2>1, <2>2 DEF IInv, TypeOK
  <1>3. /\ got'[r] = [f \in Read |-> 0]
        /\ \A q \in Reader \ {r} : /\ got'[q] = got[q] /\ pc'[q] = pc[q]
                                   /\ asks'[q] = asks[q] /\ now'[q] = now[q]
    BY SMT DEF IInv, TypeOK
  <1>4. ReadInv(r)'
    <2>1. CASE asks[r] = "boot"
      <3>1. /\ pc'[r] = "offs" /\ now'[r] = Computed(r) /\ asks'[r] = "boot"
            /\ Due(r)' = Due(r)
        BY <2>1 DEF IInv, TypeOK, Due
      <3>2. QED
        BY <1>1, <3>1 DEF ReadInv
    <2>2. CASE asks[r] = "mono"
      <3>1. pc'[r] = "idle" /\ asks'[r] = "none"
        BY <2>2 DEF IInv, TypeOK
      <3>2. QED
        BY <3>1 DEF ReadInv
    <2>3. QED
      BY <2>1, <2>2
  <1>5. got'[r]["cycle"] \in Turn /\ got'[r]["cycle_last"] \in Turn
    BY <1>3, FastClockAssumption, SMT DEF Read, Field, Turn, Mask
  <1>6. QED
    BY <1>2, <1>3, <1>4, <1>5, ReaderMoves

LEMMA AddOffsetInv ==
    ASSUME IInv, NEW r \in Reader, AddOffset(r)
    PROVE  IInv'
  <1> USE DEF AddOffset, clock, writer
  <1>1. TypeOK'
    BY SMT DEF IInv, TypeOK
  <1>2. pc'[r] = "idle" /\ asks'[r] = "none"
    BY DEF IInv, TypeOK
  <1>3. ReadInv(r)'
    BY <1>2 DEF ReadInv
  <1>4. got[r]["cycle"] \in Turn /\ got[r]["cycle_last"] \in Turn
    BY DEF IInv, InTurn
  <1>5. QED
    BY <1>1, <1>3, <1>4, ReaderMoves DEF IInv, TypeOK

LEMMA NextInv == IInv /\ [Next]_vars => IInv'
  <1> SUFFICES ASSUME IInv, [Next]_vars PROVE IInv'
    OBVIOUS
  <1>1. CASE Tick \/ Resume \/ UpdateBegin \/ UpdateSwitch
    BY <1>1, TickInv, ResumeInv, UpdateBeginInv, UpdateSwitchInv
  <1>2. CASE \E f \in Field : UpdateField(f)
    BY <1>2, UpdateFieldInv
  <1>3. ASSUME NEW r \in Reader, NEW k \in {"mono", "boot"},
               ktime_get_fast_ns(r, k)
        PROVE  IInv'
    BY <1>3, CallInv
  <1>4. ASSUME NEW r \in Reader, ReaderStep(r) PROVE IInv'
    BY <1>4, ReadSeqInv, ReadFieldInv, RetryInv, DoneInv, AddOffsetInv
       DEF ReaderStep
  <1>5. CASE UNCHANGED vars
    BY <1>5 DEF vars, clock, writer, local, IInv, TypeOK, InTurn, Latch, Exact,
       Readers, ReadInv, Due, Snapshot, Position, Given, clocksource_delta
  <1>6. QED
    BY <1>1, <1>2, <1>3, <1>4, <1>5 DEF Next, WriterStep

\* Every variable keeps its type, for every width of counter and sequence number.
THEOREM ClockTypeCorrect == Spec => []TypeOK
  <1>1. IInv => TypeOK
    BY DEF IInv
  <1>2. QED
    BY InitInv, NextInv, <1>1, PTL DEF Spec

-----------------------------------------------------------------------------
(* The refinement.                                                         *)

LEMMA InitAtomic == Init => Atomic!Init
  BY SMT DEF Init, Atomic!Init

\* Every step that is not one of the clock, a call or a return is a stutter.
LEMMA NextAtomic == IInv /\ [Next]_vars => [Atomic!Next]_Atomic!vars
  <1> SUFFICES ASSUME IInv, [Next]_vars PROVE [Atomic!Next]_Atomic!vars
    OBVIOUS
  <1> USE DEF Atomic!Next, Atomic!vars, clock, writer, local
  <1>1. time \in Nat /\ offs \in Nat
    BY DEF IInv, TypeOK
  <1>2. CASE Tick
    BY <1>1, <1>2, SMT DEF Tick, Atomic!Advance
  <1>3. CASE Resume
    BY <1>1, <1>3, SMT DEF Resume, Atomic!Resume
  <1>4. CASE UpdateBegin \/ UpdateSwitch \/ \E f \in Field : UpdateField(f)
    BY <1>4 DEF UpdateBegin, UpdateSwitch, UpdateField
  <1>5. ASSUME NEW r \in Reader, NEW k \in {"mono", "boot"},
               ktime_get_fast_ns(r, k)
        PROVE  Atomic!Next
    <2>1. asks[r] = "none"
      BY <1>5 DEF ktime_get_fast_ns, IInv, Readers, ReadInv
    <2>2. Atomic!Call(r, k)
      BY <1>5, <2>1 DEF ktime_get_fast_ns, Atomic!Call, Atomic!Shows
    <2>3. QED
      BY <2>2
  <1>6. ASSUME NEW r \in Reader,
               raw_read_seqcount_latch(r) \/ Retry(r)
                  \/ \E f \in Read : ReadField(r, f)
        PROVE  UNCHANGED Atomic!vars
    BY <1>6 DEF raw_read_seqcount_latch, Retry, ReadField
  <1>7. ASSUME NEW r \in Reader, Done(r)
        PROVE  [Atomic!Next]_Atomic!vars
    <2>1. CASE asks[r] = "boot"
      BY <1>7, <2>1 DEF Done
    <2>2. CASE asks[r] = "mono"
      <3>1. Computed(r) \in Nat /\ Due(r) <= Computed(r) /\ Computed(r) <= time
        BY <1>7, DoneExact DEF Done
      <3>2. Computed(r) \in from[r] .. time
        BY <1>1, <2>2, <3>1, SMT DEF Due, IInv, TypeOK
      <3>3. Atomic!Return(r)
        BY <1>7, <2>2, <3>2 DEF Done, Atomic!Return, Atomic!Shows
      <3>4. QED
        BY <3>3
    <2>3. QED
      BY <1>7, <2>1, <2>2 DEF Done
  <1>8. ASSUME NEW r \in Reader, AddOffset(r)
        PROVE  Atomic!Next
    <2>1. asks[r] = "boot" /\ Due(r) <= now[r] /\ now[r] <= time
      BY <1>8 DEF AddOffset, IInv, Readers, ReadInv
    <2>2. now[r] + offs \in from[r] .. time + offs
      BY <1>1, <2>1, SMT DEF Due, IInv, TypeOK
    <2>3. Atomic!Return(r)
      BY <1>8, <2>1, <2>2 DEF AddOffset, Atomic!Return, Atomic!Shows
    <2>4. QED
      BY <2>3
  <1>9. CASE UNCHANGED vars
    BY <1>9 DEF vars
  <1>10. QED
    BY <1>2, <1>3, <1>4, <1>5, <1>6, <1>7, <1>8, <1>9
       DEF Next, WriterStep, ReaderStep

\* ktime_get_fast_ns, with the writer at any point of an update and seq wrapping
\* around, returns a time at which the clock stood during the call.
THEOREM FastClockIsAtomic == Spec => ReadsAreAtomic
  <1>1. IInv /\ [Next]_vars => IInv' /\ [Atomic!Next]_Atomic!vars
    BY NextInv, NextAtomic
  <1>2. QED
    BY InitInv, InitAtomic, <1>1, PTL DEF Spec, ReadsAreAtomic, Atomic!Spec
=============================================================================
