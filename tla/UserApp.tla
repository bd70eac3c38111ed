------------------------------ MODULE UserApp -------------------------------
(***************************************************************************)
(* Mp2 driven by instances of the test application                         *)
(* (rate-monotonic-scheduler/userapp.c): each process registers itself,    *)
(* reads the status file, yields, runs its jobs with a yield after each,   *)
(* and deregisters.                                                        *)
(***************************************************************************)
EXTENDS Mp2

CONSTANTS
    AppPeriod,       \* argv[1] of a process, in ms
    AppTime,         \* what calc_job_time measured, in ms
    NumberOfJobs     \* argv[2] of a process

ASSUME UserAppAssumption ==
    /\ AppPeriod \in [Proc -> Periods \ {0}]
    /\ AppTime \in [Proc -> ProcTimes]
    /\ NumberOfJobs \in [Proc -> Nat \ {0}]
    /\ \A p \in Proc : p \in Names[p]

VARIABLES
    apc,     \* the statement of main() a process is at
    jobs     \* the jobs it still has to run

app     == <<apc, jobs>>
appVars == <<vars, app>>

Statement == {"register_process", "read_proc_fs", "yield_process", "factorial",
              "deregister_process", "last_read", "exit"}

AppTypeOK ==
    /\ TypeOK
    /\ apc \in [Proc -> Statement]
    /\ jobs \in [Proc -> Nat]

AppInit ==
    /\ Init
    /\ apc = [p \in Proc |-> "register_process"]
    /\ jobs = NumberOfJobs

\* From one statement to the next; return codes are ignored.
Goto(p, from, to) ==
    /\ apc[p] = from
    /\ apc' = [apc EXCEPT ![p] = to]

\* fopen fails while there is no proc file, and main() goes on.
NoFile(p) ==
    /\ onrq[p] /\ call[p].op = "none"
    /\ mod \notin {"loaded", "stopping"}
    /\ UNCHANGED vars

\* Mutant: period and processing time change places in the message.
register_process_swapped(p) ==
    /\ Goto(p, "register_process", "read_proc_fs")
    /\ NoFile(p) \/ Enter(p, "admission", p, AppTime[p], AppPeriod[p])
    /\ UNCHANGED jobs

register_process(p) ==
    /\ Goto(p, "register_process", "read_proc_fs")
    /\ NoFile(p) \/ Enter(p, "admission", p, AppPeriod[p], AppTime[p])
    /\ UNCHANGED jobs

\* The listing is printed; main() does not look for its own pid in it.
read_proc_fs(p) ==
    /\ \/ Goto(p, "read_proc_fs", "yield_process")
       \/ Goto(p, "last_read", "exit")
    /\ NoFile(p) \/ EnterRead(p)
    /\ UNCHANGED jobs

yield_process(p) ==
    /\ Goto(p, "yield_process",
            IF jobs[p] > 0 THEN "factorial" ELSE "deregister_process")
    /\ NoFile(p) \/ Enter(p, "yield", p, 0, 0)
    /\ UNCHANGED jobs

factorial(p) ==
    /\ Goto(p, "factorial", "yield_process")
    /\ onrq[p] /\ call[p].op = "none"
    /\ jobs' = [jobs EXCEPT ![p] = @ - 1]
    /\ UNCHANGED vars

deregister_process(p) ==
    /\ Goto(p, "deregister_process", "last_read")
    /\ NoFile(p) \/ Enter(p, "deregistration", p, 0, 0)
    /\ UNCHANGED jobs

main(p) == register_process(p) \/ read_proc_fs(p) \/ yield_process(p)
           \/ factorial(p) \/ deregister_process(p)

Kernel ==
    \/ Tick \/ mp2_init \/ ExitStop \/ ExitStep
    \/ DispatcherStep
    \/ \E s \in Slot : TimerStep(s)
    \/ \E c \in Proc : CallStep(c) \/ Reschedule(c)

AppNext ==
    \/ \E p \in Proc : main(p)
    \/ Kernel /\ UNCHANGED app

AppSpec == AppInit /\ [][AppNext]_appVars

-----------------------------------------------------------------------------
(* Safety.                                                                 *)

\* The process of a RUNNING task is awake: it is on a run queue and will stay
\* there, whatever order its wake-up, its yields and the timer come in.
RunningIsAwake ==
    \A s \in Registered : obj[s].state = "RUNNING" =>
        onrq[obj[s].pid] /\ tstate[obj[s].pid] = "TASK_RUNNING"
=============================================================================
