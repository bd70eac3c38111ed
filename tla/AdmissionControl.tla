-------------------------- MODULE AdmissionControl --------------------------
(***************************************************************************)
(* The arithmetic of mp2_admission_control (mp2.c): fixed point, on        *)
(* unsigned long, over the parameters of the registered tasks and of the   *)
(* one that asks to be admitted.                                           *)
(***************************************************************************)
EXTENDS Naturals, Sequences, SequencesExt

CONSTANT ULONG_MAX    \* the largest unsigned long

ASSUME ULongAssumption == ULONG_MAX \in Nat

\* n as an unsigned long: C arithmetic wraps.
ULong(n) == n % (ULONG_MAX + 1)

\* The loop of mp2_admission_control: both totals start from the parameters
\* of the new task and take in every task on the list.
TotalPeriod(tasks, period) ==
    FoldLeft(LAMBDA sum, t : ULong(sum + t.period), period, tasks)

TotalProcessingTime(tasks, processing_time) ==
    FoldLeft(LAMBDA sum, t : ULong(sum + t.processing_time),
             processing_time, tasks)

\* The division traps when every period is zero.
DivisionTraps(tasks, period) == TotalPeriod(tasks, period) = 0

\* 0 when the new task is admitted, 1 when it is not (the code's rv).
mp2_admission_control(tasks, period, processing_time) ==
    IF ULong(TotalProcessingTime(tasks, processing_time) * 1000)
          \div TotalPeriod(tasks, period) <= 693
    THEN 0 ELSE 1
=============================================================================
