------------------------------- MODULE Helpers -------------------------------
(***************************************************************************)
(* Algorithms of the runtime (inner_unikernel_rt/src) that loop over data: *)
(* the comparison of strings (base_helper.rs), the copy of a task's name   *)
(* (task_struct.rs), which the task may change meanwhile, the checksum of  *)
(* a header (xdp_impl.rs), reads of per-CPU variables by width             *)
(* (per_cpu.rs), and the outcome of deriving FieldTransmute. One call is   *)
(* made from the initial state; an iteration of its loop is a step.        *)
(***************************************************************************)
EXTENDS FieldTransmute

CONSTANTS
    Char,        \* code points, bytes of a name, with 0
    MaxLen,      \* bound: the length of a string
    CommLen,     \* length of comm in task_struct
    MaxN,        \* bound: the size of a buffer
    WordMax,     \* the largest word: 2^16 - 1 in the code
    Count,       \* words of an IP header: 10 in the code
    Depth,       \* bound: constructors around the name of a type
    Fields,      \* bound: fields of a declaration
    NCPU,        \* CPUs, numbered from 0
    Value,       \* what a per-CPU variable may hold: one cell, 0 and the CPUs
    EINVAL

ASSUME HelpersAssumption ==
    /\ Char \subseteq Nat /\ 0 \in Char
    /\ MaxLen \in Nat /\ CommLen \in Nat \ {0} /\ MaxN \in Nat
    /\ WordMax \in Nat \ {0, 1}
    /\ Count \in 1 .. WordMax + 2     \* so that one fold leaves one carry
    /\ Depth \in Nat /\ Fields \in Nat
    /\ NCPU \in Nat \ {0} /\ Value \subseteq Nat /\ 0 .. NCPU - 1 \subseteq Value
    /\ EINVAL \in Nat \ {0}

VARIABLES
    pc,             \* idle, the loop a call is in, or what it has done
    idx,            \* the position of the loop
    s1, s2, cnt,    \* arguments of bpf_strcmp and bpf_strncmp
    comm, buf,      \* the name of the task, the caller's buffer
    size,           \* bytes of the name that are copied
    renamed,        \* history: the name was changed during the copy
    words, sum,     \* the header, and the sum of its words
    mem, cpu,       \* the per-CPU areas, and the CPU the program is on
    decl,           \* a declaration
    ret             \* what the call returned

compared == <<s1, s2, cnt>>
named    == <<comm, buf, size, renamed>>
summed   == <<words, sum>>
percpu   == <<mem, cpu>>
vars     == <<pc, idx, compared, named, summed, percpu, decl, ret>>

Strings == UNION {[1 .. n -> Char] : n \in 0 .. MaxLen}
Word    == 0 .. WordMax
CHECK   == 1                   \* the place of iphdr.check
NoLimit == MaxLen + 1          \* cnt of bpf_strcmp: longer than any string
Unset   == -1                  \* what is in a buffer that nobody has written
Comm    == {c \in [1 .. CommLen -> Char] : c[CommLen] = 0}
NoDecl  == [data |-> "struct", named |-> TRUE, fields |-> <<>>]

\* The area of a CPU: cells of 32 bits. cpu_number and numa_node are ints, a
\* pointer takes two cells.
cpu_number == 0
numa_node == 1
current_task == 2
AreaSize == 4
__per_cpu_offset(c) == c * AreaSize
Memory == {m \in [0 .. NCPU * AreaSize - 1 -> Value] :
              \A c \in 0 .. NCPU - 1 : m[__per_cpu_offset(c) + cpu_number] = c}

TypeOK ==
    /\ pc \in {"idle", "compare", "copy", "add",
               "compared", "copied", "added", "fetched", "derived"}
    /\ idx \in Nat
    /\ s1 \in Strings /\ s2 \in Strings /\ cnt \in 0 .. NoLimit
    /\ comm \in Comm
    /\ buf \in Seq(Char \cup {Unset})
    /\ size \in 0 .. CommLen - 1 /\ renamed \in BOOLEAN
    /\ words \in [1 .. Count -> Word] /\ sum \in Nat
    /\ mem \in Memory /\ cpu \in 0 .. NCPU - 1

Init ==
    /\ pc = "idle" /\ idx = 0
    /\ s1 = <<>> /\ s2 = <<>> /\ cnt = 0
    /\ comm = [i \in 1 .. CommLen |-> 0] /\ buf = <<>> /\ size = 0
    /\ renamed = FALSE
    /\ words = [i \in 1 .. Count |-> 0] /\ sum = 0
    /\ mem = [a \in 0 .. NCPU * AreaSize - 1 |->
                 IF a % AreaSize = cpu_number THEN a \div AreaSize ELSE 0]
    /\ cpu = 0 /\ decl = NoDecl /\ ret = 0

-----------------------------------------------------------------------------
(* bpf_strcmp and bpf_strncmp: both take a character of each string until  *)
(* they differ, one ends, both end, or cnt have been taken.                *)

bpf_strcmp ==
    /\ pc = "idle" /\ pc' = "compare"
    /\ s1' \in Strings /\ s2' \in Strings /\ cnt' = NoLimit
    /\ UNCHANGED <<idx, named, summed, percpu, decl, ret>>

bpf_strncmp ==
    /\ pc = "idle" /\ pc' = "compare"
    /\ s1' \in Strings /\ s2' \in Strings /\ cnt' \in 0 .. MaxLen
    /\ UNCHANGED <<idx, named, summed, percpu, decl, ret>>

CompareNext ==
    /\ pc = "compare" /\ idx < cnt
    /\ idx < Len(s1) /\ idx < Len(s2) /\ s1[idx + 1] = s2[idx + 1]
    /\ idx' = idx + 1
    /\ UNCHANGED <<pc, compared, named, summed, percpu, decl, ret>>

CompareDiffer ==
    /\ pc = "compare" /\ idx < cnt
    /\ \/ /\ idx < Len(s1) /\ idx < Len(s2) /\ s1[idx + 1] # s2[idx + 1]
          /\ ret' = IF s1[idx + 1] < s2[idx + 1] THEN -1 ELSE 1
       \/ /\ idx = Len(s1) /\ idx < Len(s2) /\ ret' = -1
       \/ /\ idx = Len(s2) /\ idx < Len(s1) /\ ret' = 1
    /\ pc' = "compared"
    /\ UNCHANGED <<idx, compared, named, summed, percpu, decl>>

\* Mutant: a string that ends is equal to what it is a prefix of.
CompareEqual_prefix ==
    /\ pc = "compare"
    /\ idx = cnt \/ idx = Len(s1) \/ idx = Len(s2)
    /\ pc' = "compared" /\ ret' = 0
    /\ UNCHANGED <<idx, compared, named, summed, percpu, decl>>

CompareEqual ==
    /\ pc = "compare"
    /\ idx = cnt \/ (idx = Len(s1) /\ idx = Len(s2))
    /\ pc' = "compared" /\ ret' = 0
    /\ UNCHANGED <<idx, compared, named, summed, percpu, decl>>
-----------------------------------------------------------------------------
(* get_comm, for a buffer of n bytes.                                      *)

\* Mutant: a buffer of no bytes is not refused.
get_comm_unchecked(n) ==
    /\ pc = "idle" /\ pc' = "copy"
    /\ comm' \in Comm
    /\ buf' = [i \in 1 .. n |-> Unset]
    /\ size' = IF n < CommLen THEN n - 1 ELSE CommLen - 1
    /\ UNCHANGED <<idx, compared, renamed, summed, percpu, decl, ret>>

get_comm(n) ==
    /\ pc = "idle"
    /\ comm' \in Comm
    /\ buf' = [i \in 1 .. n |-> Unset]
    /\ LET s == IF n < CommLen THEN n - 1 ELSE CommLen - 1 IN
       IF n = 0 \/ s = 0
       THEN pc' = "copied" /\ ret' = -EINVAL /\ UNCHANGED size
       ELSE pc' = "copy" /\ size' = s /\ UNCHANGED ret
    /\ UNCHANGED <<idx, compared, renamed, summed, percpu, decl>>

\* The task is given another name: nothing keeps it from that.
Rename ==
    /\ pc = "copy" /\ comm' \in Comm \ {comm} /\ renamed' = TRUE
    /\ UNCHANGED <<pc, idx, compared, buf, size, summed, percpu, decl, ret>>

CopyByte ==
    /\ pc = "copy" /\ idx < size
    /\ buf' = [buf EXCEPT ![idx + 1] = comm[idx + 1]]
    /\ idx' = idx + 1
    /\ UNCHANGED <<pc, compared, comm, size, renamed, summed, percpu, decl, ret>>

\* Mutant: the terminator is left to the name that is copied.
Terminate_not ==
    /\ pc = "copy" /\ idx = size /\ pc' = "copied" /\ ret' = 0
    /\ UNCHANGED <<idx, compared, named, summed, percpu, decl>>

Terminate ==
    /\ pc = "copy" /\ idx = size /\ pc' = "copied" /\ ret' = 0
    /\ buf' = [buf EXCEPT ![size + 1] = 0]
    /\ UNCHANGED <<idx, compared, comm, size, renamed, summed, percpu, decl>>

-----------------------------------------------------------------------------
(* compute_ip_checksum: the sum of the words is folded once.               *)

\* Mutant: the old checksum is added too.
compute_ip_checksum_stale ==
    /\ pc = "idle" /\ pc' = "add"
    /\ words' \in [1 .. Count -> Word]
    /\ UNCHANGED <<idx, compared, named, sum, percpu, decl, ret>>

compute_ip_checksum ==
    /\ pc = "idle" /\ pc' = "add"
    /\ \E w \in [1 .. Count -> Word] : words' = [w EXCEPT ![CHECK] = 0]
    /\ UNCHANGED <<idx, compared, named, sum, percpu, decl, ret>>

AddWord ==
    /\ pc = "add" /\ idx < Count
    /\ sum' = sum + words[idx + 1] /\ idx' = idx + 1
    /\ UNCHANGED <<pc, compared, named, words, percpu, decl, ret>>

\* !sum as u16 for the folded sum f: the complement of its low 16 bits.
Folded      == (sum % (WordMax + 1)) + (sum \div (WordMax + 1))
Inverted(f) == WordMax - (f % (WordMax + 1))

Fold ==
    /\ pc = "add" /\ idx = Count /\ pc' = "added"
    /\ ret' = Inverted(Folded)
    /\ UNCHANGED <<idx, compared, named, summed, percpu, decl>>

-----------------------------------------------------------------------------
(* Reads of per-CPU variables, and derive(FieldTransmute).                 *)

\* gs:[addr] for a type of so many cells: gs is the area of this CPU.
this_cpu_read(m, c, addr, cells) ==
    [i \in 1 .. cells |-> m[__per_cpu_offset(c) + addr + i - 1]]

\* Mutant: the address of the variable in the first CPU's area.
this_cpu_ptr_first(m, c, addr) == addr

\* The address of the variable of this CPU, from its own number.
this_cpu_ptr(m, c, addr) ==
    addr + __per_cpu_offset(this_cpu_read(m, c, cpu_number, 1)[1])

\* bpf_get_smp_processor_id reads an u32, bpf_get_numa_node_id an u64 though
\* numa_node is an int, get_current_task a pointer; cleanup_entries_this_cpu
\* asks for an address. Programs do not migrate.
Fetch ==
    /\ pc = "idle" /\ pc' = "fetched"
    /\ mem' \in Memory /\ cpu' \in 0 .. NCPU - 1
    /\ ret' = [id   |-> this_cpu_read(mem', cpu', cpu_number, 1),
               node |-> this_cpu_read(mem', cpu', numa_node, 2),
               task |-> this_cpu_read(mem', cpu', current_task, 2),
               addr |-> this_cpu_ptr(mem', cpu', current_task)]
    /\ UNCHANGED <<idx, compared, named, summed, decl>>

derive ==
    /\ pc = "idle" /\ pc' = "derived"
    /\ decl' \in Declaration(Depth, Fields)
    /\ ret' = ensure_numberic(decl')
    /\ UNCHANGED <<idx, compared, named, summed, percpu>>

Next ==
    \/ bpf_strcmp \/ bpf_strncmp
    \/ CompareNext \/ CompareDiffer \/ CompareEqual
    \/ \E n \in 0 .. MaxN : get_comm(n)
    \/ Rename \/ CopyByte \/ Terminate
    \/ compute_ip_checksum \/ AddWord \/ Fold
    \/ Fetch \/ derive

Spec == Init /\ [][Next]_vars

-----------------------------------------------------------------------------
(* Correctness.                                                            *)

\* The first place where a and b differ within their first n characters is k,
\* and a is the smaller there.
Less(a, b, n) ==
    \E k \in 0 .. MaxLen :
       /\ k < n /\ k <= Len(a) /\ k < Len(b)
       /\ \A i \in 1 .. k : a[i] = b[i]
       /\ k = Len(a) \/ a[k + 1] < b[k + 1]

\* bpf_strcmp and bpf_strncmp order strings as a dictionary does, by their
\* first cnt characters.
CompareIsOrder ==
    pc = "compared" =>
       /\ ret \in {-1, 0, 1}
       /\ ret = -1 <=> Less(s1, s2, cnt)
       /\ ret = 1  <=> Less(s2, s1, cnt)

\* Whatever happens to the name while get_comm copies it, the caller gets a
\* string that ends within its buffer and nothing is written behind it; when
\* the task kept its name, it is as much of the name as fits.
CommIsString ==
    pc = "copied" =>
       IF ret = 0
       THEN /\ size + 1 \in DOMAIN buf /\ buf[size + 1] = 0
            /\ \A i \in 1 .. size : buf[i] # Unset
            /\ \A i \in DOMAIN buf : i > size + 1 => buf[i] = Unset
            /\ ~ renamed => \A i \in 1 .. size : buf[i] = comm[i]
            /\ size = CommLen - 1 \/ size = Len(buf) - 1
       ELSE \A i \in DOMAIN buf : buf[i] = Unset

Total(w) ==
    LET S[i \in 0 .. Count] == IF i = 0 THEN 0 ELSE S[i - 1] + w[i] IN S[Count]

\* A header with the checksum of compute_ip_checksum passes the check of its
\* receiver (RFC 1071), except when folding the sum once leaves a carry.
ChecksumVerifies ==
    pc = "added" =>
       (Total([words EXCEPT ![CHECK] = ret]) % WordMax = 0
           <=> Folded <= WordMax)

\* A CPU reads its own variables, by value and by address, and numa_node in the
\* lower half of what is read for it.
FetchIsLocal ==
    pc = "fetched" =>
       /\ ret.id = <<cpu>>
       /\ ret.task = [i \in 1 .. 2 |-> mem[ret.addr + i - 1]]
       /\ ret.node[1] = mem[cpu * AreaSize + numa_node]
       /\ ret.node[2] = ret.task[1]

\* Every pattern of bytes is a value of a struct that gets a constructor over
\* the bytes of a packet.
AcceptedIsPlain ==
    pc = "derived" /\ ret = "new" /\ decl.data = "struct" =>
       \A i \in DOMAIN decl.fields : Plain(decl.fields[i])
=============================================================================
