------------------------------- MODULE Loader --------------------------------
(***************************************************************************)
(* The loader of inner-unikernel programs (libiu/libiu.cpp) inside a       *)
(* process that uses it: iu_object__open parses a file, creates its maps,  *)
(* loads the base program and the programs in it; each step may fail. Two  *)
(* objects keep the descriptors it opens: the iu_obj of libiu and the      *)
(* bpf_object of libbpf, and each closes the numbers it holds.             *)
(*                                                                         *)
(* The kernel gives out the lowest free number, so a number that was       *)
(* closed soon means something else.                                       *)
(***************************************************************************)
EXTENDS Integers, FiniteSets

CONSTANTS
    Obj,         \* the loads: each calls iu_object__open once
    Map, Prog,   \* the maps and programs in the file
    MaxFd,       \* the limit on descriptors of the process
    MaxFiles,    \* bound: files the application has open itself
    NULL

ASSUME LoaderAssumption ==
    /\ MaxFd \in Nat \ {0} /\ MaxFiles \in Nat
    /\ NULL \notin Obj /\ NULL \notin Map \cup Prog

VARIABLES
    fdt,       \* the descriptor table of the process
    iu,        \* iu_obj: map_defs, progs and the descriptors it keeps
    bpf,       \* bpf_object: the descriptors it keeps, loaded
    objs,      \* objs: base descriptor -> iu_obj
    status,    \* a load: not begun, in progress, returned, failed, closed
    pc, cur,   \* where the call of iu_object__open is, and its object
    todo,      \* maps or programs its loop has not come to
    ret,
    stray      \* history: a close hit a descriptor of somebody else

vars == <<fdt, iu, bpf, objs, status, pc, cur, todo, ret, stray>>

Fd   == 1 .. MaxFd
NOFD == -1

Kind == {"free", "app", "elf", "map", "rust", "base", "prog"}
Desc(kind, o, item) == [kind |-> kind, obj |-> o, item |-> item]
Free == Desc("free", NULL, NULL)
App  == Desc("app", NULL, NULL)

NoIu  == [defs |-> {}, map_fd |-> [m \in Map |-> NOFD], prog_fd |-> NOFD,
          progs |-> {}, fd |-> [p \in Prog |-> NOFD]]
NoBpf == [efile |-> NOFD, map_fd |-> [m \in Map |-> NOFD],
          instances |-> [p \in Prog |-> NOFD], loaded |-> FALSE]

TypeOK ==
    /\ fdt \in [Fd -> [kind : Kind, obj : Obj \cup {NULL},
                       item : Map \cup Prog \cup {NULL}]]
    /\ iu \in [Obj -> [defs : SUBSET Map, map_fd : [Map -> Fd \cup {NOFD}],
                       prog_fd : Fd \cup {NOFD}, progs : SUBSET Prog,
                       fd : [Prog -> Fd \cup {NOFD}]]]
    /\ bpf \in [Obj -> [efile : Fd \cup {NOFD},
                        map_fd : [Map -> Fd \cup {NOFD}],
                        instances : [Prog -> Fd \cup {NOFD}],
                        loaded : BOOLEAN]]
    /\ objs \in [Fd -> Obj \cup {NULL}]
    /\ status \in [Obj -> {"none", "opening", "returned", "failed", "closed"}]
    /\ pc \in {"idle", "parse", "fix", "base", "remove", "progs", "close_fds",
               "end", "finish", "dead"}
    /\ cur \in Obj \cup {NULL}
    /\ todo \in SUBSET (Map \cup Prog)
    /\ ret \in Fd \cup {-1, 0}
    /\ stray \in BOOLEAN

\* Number 1 is the standard output of the application.
Init ==
    /\ fdt = [f \in Fd |-> IF f = 1 THEN App ELSE Free]
    /\ iu = [o \in Obj |-> NoIu] /\ bpf = [o \in Obj |-> NoBpf]
    /\ objs = [f \in Fd |-> NULL]
    /\ status = [o \in Obj |-> "none"]
    /\ pc = "idle" /\ cur = NULL /\ todo = {} /\ ret = 0
    /\ stray = FALSE

-----------------------------------------------------------------------------
(* Descriptors.                                                            *)

\* What open, BPF_MAP_CREATE and BPF_PROG_LOAD return when they succeed.
Lowest(f) == fdt[f] = Free /\ \A g \in Fd : fdt[g] = Free => f <= g

Opened(f, desc) == Lowest(f) /\ fdt' = [fdt EXCEPT ![f] = desc]

\* close of every number in a set of pairs of a number and what it is
\* believed to be. A number that is free gets EBADF, which nobody looks at.
Close(S) ==
    /\ fdt' = [f \in Fd |-> IF \E d \in S : d[1] = f THEN Free ELSE fdt[f]]
    /\ stray' = (stray \/ \E d \in S : d[1] \in Fd
                                       /\ fdt[d[1]] \notin {Free, d[2]})

\* What ~iu_obj and ~iu_map close. The programs have no destructor.
OfIuObj(o) ==
    {<<iu[o].map_fd[m], Desc("map", o, m)>> : m \in Map}
    \cup {<<iu[o].prog_fd, Desc("base", o, NULL)>>}

\* What bpf_object__close closes.
OfBpfObject(o) ==
    {<<bpf[o].map_fd[m], Desc("map", o, m)>> : m \in Map}
    \cup {<<bpf[o].instances[p], Desc("prog", o, p)>> : p \in Prog}
    \cup {<<bpf[o].efile, Desc("elf", o, NULL)>>}

-----------------------------------------------------------------------------
(* iu_object__open, one step for each call that opens or closes.           *)

\* No memory, or a kernel release that does not parse: NULL at once.
OpenFails(o) ==
    /\ pc = "idle" /\ status[o] = "none"
    /\ status' = [status EXCEPT ![o] = "failed"]
    /\ UNCHANGED <<fdt, iu, bpf, objs, pc, cur, todo, ret, stray>>

\* iu_obj::iu_obj opens the file.
iu_object__open(o) ==
    /\ pc = "idle" /\ status[o] = "none"
    /\ pc' = "parse" /\ cur' = o
    /\ status' = [status EXCEPT ![o] = "opening"]
    /\ \/ UNCHANGED <<fdt, bpf>>
       \/ \E f \in Fd : /\ Opened(f, Desc("elf", o, NULL))
                        /\ bpf' = [bpf EXCEPT ![o].efile = f]
    /\ UNCHANGED <<iu, objs, todo, ret, stray>>

\* Mutant: the results of the parsers are added up.
FoldSum(r, next) == r + next

\* ret = ret < 0 ?: next. An error becomes 1 in place of the next parser, and
\* the parser after that one runs and replaces it.
Fold(r, next) == IF r < 0 THEN 1 ELSE next

ElfInvalid ==
    /\ pc = "parse"
    /\ ret' = -1 /\ pc' = "end"
    /\ UNCHANGED <<fdt, iu, bpf, objs, status, cur, todo, stray>>

\* What a parser leaves in map_defs or progs: a failing one stops anywhere.
Finds(runs, result, all) ==
    IF ~runs THEN {{}} ELSE IF result = 0 THEN {all} ELSE SUBSET all

parse_elf ==
    /\ pc = "parse" /\ bpf[cur].efile # NOFD
    /\ \E scns, maps, progs, rela \in {-1, 0} :
          LET ret2 == Fold(scns, maps)
              ret3 == Fold(ret2, progs)
          IN  \E d \in Finds(scns = 0, maps, Map),
                 p \in Finds(ret2 >= 0, progs, Prog) :
                 /\ ret' = Fold(ret3, rela)
                 /\ iu' = [iu EXCEPT ![cur].defs = d, ![cur].progs = p]
                 /\ todo' = d
    /\ pc' = IF ret' = 0 THEN "fix" ELSE "end"
    /\ UNCHANGED <<fdt, bpf, objs, status, cur, stray>>

\* A file without symbol table, or an error before it was found: parse_progs
\* runs all the same and dereferences a null pointer. Without .rela.dyn,
\* parse_rela_dyn uses a pointer that the constructor left uninitialised.
ParseCrash ==
    /\ pc = "parse" /\ bpf[cur].efile # NOFD
    /\ pc' = "dead"
    /\ UNCHANGED <<fdt, iu, bpf, objs, status, cur, todo, ret, stray>>

\* The file was not mapped, or a map was not created. A file with an empty
\* section of maps may fail here too.
FixMapsFails ==
    /\ pc = "fix" /\ (todo # {} \/ iu[cur].defs = {})
    /\ ret' = -1 /\ pc' = "end"
    /\ UNCHANGED <<fdt, iu, bpf, objs, status, cur, todo, stray>>

\* Mutant: the number is not given to the bpf_object.
CreateMapAlone(m) ==
    /\ pc = "fix" /\ m \in todo
    /\ \E f \in Fd :
          /\ Opened(f, Desc("map", cur, m))
          /\ iu' = [iu EXCEPT ![cur].map_fd[m] = f]
    /\ todo' = todo \ {m}
    /\ UNCHANGED <<bpf, objs, status, pc, cur, ret, stray>>

\* One round of the loop of fix_maps, in the order of a hash table.
CreateMap(m) ==
    /\ pc = "fix" /\ m \in todo
    /\ \E f \in Fd :
          /\ Opened(f, Desc("map", cur, m))
          /\ iu' = [iu EXCEPT ![cur].map_fd[m] = f]
          /\ bpf' = [bpf EXCEPT ![cur].map_fd[m] = f]
    /\ todo' = todo \ {m}
    /\ UNCHANGED <<objs, status, pc, cur, ret, stray>>

\* load writes the image to rust.out and opens that. Nothing closes it.
OpenRustOut ==
    /\ pc = "fix" /\ todo = {}
    /\ pc' = "base"
    /\ \/ UNCHANGED fdt
       \/ \E f \in Fd : Opened(f, Desc("rust", cur, NULL))
    /\ UNCHANGED <<iu, bpf, objs, status, cur, todo, ret, stray>>

\* Mutant: the number of the base program is returned and not kept.
LoadBaseForgotten ==
    /\ pc = "base"
    /\ \/ /\ ret' = -1 /\ pc' = "end"
          /\ UNCHANGED <<fdt, iu>>
       \/ /\ \E f \in Fd : fdt[f] = Desc("rust", cur, NULL)
          /\ \E f \in Fd : /\ Opened(f, Desc("base", cur, NULL))
                           /\ ret' = f
          /\ pc' = "remove" /\ UNCHANGED iu
    /\ UNCHANGED <<bpf, objs, status, cur, todo, stray>>

\* BPF_PROG_LOAD_IU_BASE; it fails without the image.
LoadBase ==
    /\ pc = "base"
    /\ \/ /\ ret' = -1 /\ pc' = "end"
          /\ UNCHANGED <<fdt, iu>>
       \/ /\ \E f \in Fd : fdt[f] = Desc("rust", cur, NULL)
          /\ \E f \in Fd : /\ Opened(f, Desc("base", cur, NULL))
                           /\ iu' = [iu EXCEPT ![cur].prog_fd = f]
                           /\ ret' = f
          /\ pc' = "remove"
    /\ UNCHANGED <<bpf, objs, status, cur, todo, stray>>

\* remove("rust.out").
RemoveRustOut ==
    /\ pc = "remove" /\ pc' \in {"progs", "close_fds"}
    /\ todo' = iu[cur].progs
    /\ UNCHANGED <<fdt, iu, bpf, objs, status, cur, ret, stray>>

\* BPF_PROG_LOAD_IU of one program.
LoadProg(p) ==
    /\ pc = "progs" /\ p \in todo
    /\ \/ pc' = "close_fds" /\ UNCHANGED <<fdt, iu, bpf, todo>>
       \/ \E f \in Fd :
             /\ Opened(f, Desc("prog", cur, p))
             /\ iu' = [iu EXCEPT ![cur].fd[p] = f]
             /\ bpf' = [bpf EXCEPT ![cur].instances[p] = f]
             /\ todo' = todo \ {p}
             /\ UNCHANGED pc
    /\ UNCHANGED <<objs, status, cur, ret, stray>>

LoadDone ==
    /\ pc = "progs" /\ todo = {}
    /\ pc' = "end"
    /\ bpf' = [bpf EXCEPT ![cur].loaded = TRUE]
    /\ UNCHANGED <<fdt, iu, objs, status, cur, todo, ret, stray>>

\* Mutant: ret keeps the number of the base program.
CloseFdsKept ==
    /\ pc = "close_fds" /\ pc' = "end"
    /\ todo' = {}
    /\ Close({<<iu[cur].fd[p], Desc("prog", cur, p)>> : p \in Prog}
             \cup {<<iu[cur].prog_fd, Desc("base", cur, NULL)>>})
    /\ UNCHANGED <<iu, bpf, objs, status, cur, ret>>

\* The label close_fds. The numbers stay in both objects.
CloseFds ==
    /\ pc = "close_fds" /\ pc' = "end"
    /\ ret' = -1 /\ todo' = {}
    /\ Close({<<iu[cur].fd[p], Desc("prog", cur, p)>> : p \in Prog}
             \cup {<<iu[cur].prog_fd, Desc("base", cur, NULL)>>})
    /\ UNCHANGED <<iu, bpf, objs, status, cur>>

\* The end of iu_obj_load: objs takes the iu_obj, and destroys the one it had
\* under that number, or it is destroyed.
iu_obj_load ==
    /\ pc = "end" /\ pc' = "finish"
    /\ todo' = {}
    /\ LET gone == IF ret < 0 THEN cur ELSE objs[ret] IN
          IF gone = NULL THEN UNCHANGED <<fdt, iu, stray>>
          ELSE Close(OfIuObj(gone)) /\ iu' = [iu EXCEPT ![gone] = NoIu]
    /\ objs' = IF ret < 0 THEN objs ELSE [objs EXCEPT ![ret] = cur]
    /\ UNCHANGED <<bpf, status, cur, ret>>

\* Mutant: efile.fd keeps the number.
elf_finish_kept ==
    /\ pc = "finish" /\ ret >= 0
    /\ pc' = "idle" /\ cur' = NULL /\ ret' = 0
    /\ Close({<<bpf[cur].efile, Desc("elf", cur, NULL)>>})
    /\ status' = [status EXCEPT ![cur] = "returned"]
    /\ UNCHANGED <<iu, bpf, objs, todo>>

\* iu_object__elf_finish, and iu_object__open returns the object ...
elf_finish ==
    /\ pc = "finish" /\ ret >= 0
    /\ pc' = "idle" /\ cur' = NULL /\ ret' = 0
    /\ Close({<<bpf[cur].efile, Desc("elf", cur, NULL)>>})
    /\ bpf' = [bpf EXCEPT ![cur].efile = NOFD]
    /\ status' = [status EXCEPT ![cur] = "returned"]
    /\ UNCHANGED <<iu, objs, todo>>

\* ... or closes it, with bpf_object__close, and returns NULL.
OpenReturnsNull ==
    /\ pc = "finish" /\ ret < 0
    /\ pc' = "idle" /\ cur' = NULL /\ ret' = 0
    /\ Close(OfBpfObject(cur))
    /\ bpf' = [bpf EXCEPT ![cur] = NoBpf]
    /\ status' = [status EXCEPT ![cur] = "failed"]
    /\ UNCHANGED <<iu, objs, todo>>

-----------------------------------------------------------------------------
(* The application. It closes an object in one of two ways, keeps its      *)
(* standard output open, and opens and closes files of its own.            *)

bpf_object__close(o) ==
    /\ pc = "idle" /\ status[o] = "returned"
    /\ Close(OfBpfObject(o))
    /\ bpf' = [bpf EXCEPT ![o] = NoBpf]
    /\ status' = [status EXCEPT ![o] = "closed"]
    /\ UNCHANGED <<iu, objs, pc, cur, todo, ret>>

iu_obj_close(f) ==
    /\ pc = "idle" /\ objs[f] # NULL /\ status[objs[f]] = "returned"
    /\ Close(OfIuObj(objs[f]))
    /\ iu' = [iu EXCEPT ![objs[f]] = NoIu]
    /\ status' = [status EXCEPT ![objs[f]] = "closed"]
    /\ objs' = [objs EXCEPT ![f] = NULL]
    /\ UNCHANGED <<bpf, pc, cur, todo, ret>>

Files == {f \in Fd : fdt[f] = App}

OpenFile ==
    /\ pc = "idle"
    /\ Cardinality(Files) < MaxFiles
    /\ \E f \in Fd : Opened(f, App)
    /\ UNCHANGED <<iu, bpf, objs, status, pc, cur, todo, ret, stray>>

CloseFile ==
    /\ pc = "idle"
    /\ \E f \in Files \ {1} : fdt' = [fdt EXCEPT ![f] = Free]
    /\ UNCHANGED <<iu, bpf, objs, status, pc, cur, todo, ret, stray>>

-----------------------------------------------------------------------------
load == OpenRustOut \/ LoadBase \/ RemoveRustOut
        \/ (\E p \in Prog : LoadProg(p)) \/ LoadDone \/ CloseFds

OpenStep ==
    \/ ElfInvalid \/ parse_elf \/ ParseCrash
    \/ FixMapsFails \/ (\E m \in Map : CreateMap(m))
    \/ load
    \/ iu_obj_load \/ elf_finish \/ OpenReturnsNull

ClientStep ==
    \/ \E o \in Obj : OpenFails(o) \/ iu_object__open(o)
                      \/ bpf_object__close(o)
    \/ \E f \in Fd : iu_obj_close(f)
    \/ OpenFile \/ CloseFile

Next == OpenStep \/ ClientStep

Spec == Init /\ [][Next]_vars

-----------------------------------------------------------------------------
(* Safety.                                                                 *)

\* No close hits a descriptor of another load or of the application, although
\* both objects keep numbers that the other one, or close_fds, has closed.
\* libiu.cpp:638 has it in mind: so won't close incorrect fd.
NoStrayClose == ~stray

\* A load that returned NULL leaves no map and no program open, wherever it
\* failed: close_fds, ~iu_obj and bpf_object__close together reach them all.
\* The descriptor of rust.out stays (libiu.cpp:1127).
FailedLoadCloses ==
    \A o \in Obj : status[o] = "failed" =>
        \A f \in Fd : fdt[f].obj = o => fdt[f].kind = "rust"

\* While a loaded object is in use, libiu finds it under its base descriptor,
\* and what iu_obj_get_map, iu_obj_get_prog and the bpf_object give for its
\* maps and programs are descriptors of these.
InUse(o) == status[o] = "returned" /\ bpf[o].loaded

HandlesValid ==
    \A o \in Obj : InUse(o) =>
        \E b \in Fd :
            /\ objs[b] = o /\ fdt[b] = Desc("base", o, NULL)
            /\ \A m \in iu[o].defs : \E f \in Fd :
                  /\ fdt[f] = Desc("map", o, m)
                  /\ iu[o].map_fd[m] = f /\ bpf[o].map_fd[m] = f
            /\ \A p \in iu[o].progs : \E f \in Fd :
                  /\ fdt[f] = Desc("prog", o, p)
                  /\ iu[o].fd[p] = f /\ bpf[o].instances[p] = f

\* What iu_object__open returns is loaded, or owns nothing: a parser's failure
\* that became a number >= 0 skips the rest (libiu.cpp:1049, where README.md
\* promises that a returned object is loaded), and nothing else is half-way.
NothingHalfLoaded ==
    \A o \in Obj : status[o] = "returned" =>
        bpf[o].loaded \/ \A f \in Fd : fdt[f].obj # o
=============================================================================
