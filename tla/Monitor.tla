------------------------------- MODULE Monitor -------------------------------
(***************************************************************************)
(* Profiler with its reader (page-fault-profiler/monitor.c): a program     *)
(* that maps the ring, looks for the first value that is not -1, prints    *)
(* rows of four values, each set to -1 once printed, until a row would     *)
(* begin with -1, and ends. It is run one instance at a time. It takes no  *)
(* lock: the work stores samples between any two of its accesses.          *)
(***************************************************************************)
EXTENDS Profiler

CONSTANT BufdMax    \* BUFD_MAX: where the monitor's index wraps

ASSUME MonitorAssumption ==
    BufdMax \in {4 * n : n \in 1 .. Samples - 1}

VARIABLES
    mpc,       \* where main() is
    index,     \* the long it looks at
    column,    \* the column of the row it prints
    printed,   \* the value it printed last
    found,     \* history: the search ended below BUFD_MAX
    overlap    \* history: a monitor ran while a sample was stored

observed == <<mpc, index, column, printed, found>>
monVars == <<vars, observed, overlap>>

MonTypeOK ==
    /\ TypeOK
    /\ mpc \in {"off", "search", "while", "print", "clear"}
    /\ index \in 0 .. BufdMax
    /\ column \in Column
    /\ printed \in Column \cup {EMPTY}
    /\ found \in BOOLEAN /\ overlap \in BOOLEAN

MonInit ==
    /\ Init
    /\ mpc = "off" /\ index = 0 /\ column = 1 /\ printed = EMPTY
    /\ found = FALSE /\ overlap = FALSE

\* buf_init opens the device and maps the ring.
buf_init ==
    /\ mpc = "off" /\ mpc' = "search"
    /\ open_callback
    /\ UNCHANGED <<index, column, printed, found>>

\* The for loop over index < BUFD_MAX. When it finds nothing, index is left
\* at BUFD_MAX, and the while loop begins there.
Search ==
    /\ mpc = "search"
    /\ \/ /\ index < BufdMax /\ ring[index] = EMPTY
          /\ index' = index + 1
          /\ UNCHANGED <<mpc, found>>
       \/ /\ index = BufdMax \/ ring[index] # EMPTY
          /\ mpc' = "while" /\ found' = (index < BufdMax)
          /\ UNCHANGED index
    /\ UNCHANGED <<vars, column, printed>>

\* while(buf[index] != -1)
BeginRow ==
    /\ mpc = "while" /\ ring[index] # EMPTY
    /\ mpc' = "print" /\ column' = 1
    /\ UNCHANGED <<vars, index, printed, found>>

PrintValue ==
    /\ mpc = "print" /\ mpc' = "clear"
    /\ printed' = ring[index]
    /\ UNCHANGED <<vars, index, column, found>>

\* Mutant: the index wraps one past the end.
ClearValueLate ==
    /\ mpc = "clear"
    /\ ClearLong(index)
    /\ index' = IF index + 1 > BufdMax THEN 0 ELSE index + 1
    /\ IF column = 4 THEN mpc' = "while" /\ UNCHANGED column
       ELSE mpc' = "print" /\ column' = column + 1
    /\ UNCHANGED <<printed, found>>

\* buf[index++] = -1, and the index wraps.
ClearValue ==
    /\ mpc = "clear"
    /\ ClearLong(index)
    /\ index' = IF index + 1 >= BufdMax THEN 0 ELSE index + 1
    /\ IF column = 4 THEN mpc' = "while" /\ UNCHANGED column
       ELSE mpc' = "print" /\ column' = column + 1
    /\ UNCHANGED <<printed, found>>

\* buf_exit and the end of the process release the device.
buf_exit ==
    /\ mpc = "while" /\ ring[index] = EMPTY
    /\ release_callback
    /\ mpc' = "off" /\ index' = 0 /\ column' = 1 /\ printed' = EMPTY
    /\ found' = FALSE

main == buf_init \/ Search \/ BeginRow \/ PrintValue \/ ClearValue \/ buf_exit

MonNext ==
    /\ (Running /\ main) \/ (ModuleStep /\ UNCHANGED observed)
    /\ overlap' = (overlap \/ (mpc' # "off" /\ wpc' = "store"))

MonSpec == MonInit /\ [][MonNext]_monVars

-----------------------------------------------------------------------------
(* Safety.                                                                 *)

\* As long as no sample was stored while a monitor ran, the rows printed are
\* the samples: the work and the monitor wrap at different ends of the ring,
\* and a monitor goes on where the one before it left the ring. Void for a
\* search that found nothing: its row begins at BUFD_MAX and goes on at 0.
QuietRowsKept == mpc = "clear" /\ found /\ ~overlap => printed = column
=============================================================================
