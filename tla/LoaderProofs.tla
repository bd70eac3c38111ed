---------------------------- MODULE LoaderProofs -----------------------------
(***************************************************************************)
(* The loader closes what it opened and nothing else: for every number of  *)
(* loads, maps, programs and descriptors, wherever a load fails, and       *)
(* however the application closes what it was given.                       *)
(***************************************************************************)
EXTENDS Loader, TLAPS

-----------------------------------------------------------------------------
(* The inductive invariant: what a load owns, at rest and in progress.     *)

Open(f, desc)     == f # NOFD => fdt[f] = desc
Closable(f, desc) == f # NOFD => fdt[f] \in {Free, desc}

MapsOpen(o)  == \A m \in Map : Open(bpf[o].map_fd[m], Desc("map", o, m))
ProgsOpen(o) == \A p \in Prog : Open(bpf[o].instances[p], Desc("prog", o, p))
BaseOpen(o)  == Open(iu[o].prog_fd, Desc("base", o, NULL))
ElfOpen(o)   == Open(bpf[o].efile, Desc("elf", o, NULL))

\* Two objects keep the same numbers of maps and programs.
Agree(o) == iu[o].map_fd = bpf[o].map_fd /\ iu[o].fd = bpf[o].instances

\* Whatever a load has open, but for rust.out, one of the objects can close.
Reached(o, f) ==
    \/ fdt[f].kind = "rust"
    \/ fdt[f] = Desc("elf", o, NULL) /\ bpf[o].efile = f
    \/ fdt[f] = Desc("base", o, NULL) /\ iu[o].prog_fd = f
    \/ \E m \in Map : fdt[f] = Desc("map", o, m) /\ bpf[o].map_fd[m] = f
    \/ \E p \in Prog : fdt[f] = Desc("prog", o, p) /\ bpf[o].instances[p] = f
Reaches(o) == \A f \in Fd : fdt[f].obj = o => Reached(o, f)

Only(o, kinds) == \A f \in Fd : fdt[f].obj = o => fdt[f].kind \in kinds

\* An iu_obj is entered under its base program, which is open, or, when a
\* parser's failure became 1, under the standard output, with no descriptor.
NotEntered(o) == \A f \in Fd : objs[f] # o
Entered(o) ==
    \A f \in Fd : objs[f] = o =>
       \/ fdt[f] = Desc("base", o, NULL)
       \/ f = 1 /\ iu[o].prog_fd = NOFD /\ \A m \in Map : iu[o].map_fd[m] = NOFD

MapsCreated(o) == \A m \in iu[o].defs : bpf[o].map_fd[m] # NOFD
Whole(o) ==
    /\ MapsCreated(o) /\ iu[o].prog_fd # NOFD
    /\ \A p \in iu[o].progs : bpf[o].instances[p] # NOFD

Owner(o) ==
    /\ Agree(o) /\ Reaches(o)
    /\ MapsOpen(o) /\ ProgsOpen(o) /\ BaseOpen(o) /\ ElfOpen(o)

Complete(o) == bpf[o].loaded => Whole(o) /\ objs[iu[o].prog_fd] = o

\* A load that is not in progress.
Settled(o) ==
    /\ status[o] = "none" =>
          iu[o] = NoIu /\ bpf[o] = NoBpf /\ NotEntered(o) /\ Only(o, {})
    /\ status[o] = "failed" => NotEntered(o) /\ Only(o, {"rust"})
    /\ status[o] = "closed" =>
          /\ Entered(o)
          /\ \A f \in Fd : fdt[f] = Desc("base", o, NULL) => iu[o].prog_fd = f
    /\ status[o] = "returned" =>
          /\ Owner(o) /\ Entered(o) /\ Complete(o)
          /\ ~ bpf[o].loaded => Only(o, {})

\* No map and no program has been created.
NoProg(o) == \A p \in Prog : bpf[o].instances[p] = NOFD
Bare(o) ==
    /\ Agree(o) /\ Only(o, {"elf"}) /\ ~ bpf[o].loaded
    /\ iu[o].prog_fd = NOFD /\ NoProg(o)
    /\ \A m \in Map : bpf[o].map_fd[m] = NOFD

\* The load in progress, up to the end of iu_obj_load ...
Loading(o) ==
    /\ Agree(o) /\ Reaches(o) /\ NotEntered(o) /\ MapsOpen(o) /\ ElfOpen(o)
    /\ IF pc = "end" /\ ret < 0
       THEN /\ Closable(iu[o].prog_fd, Desc("base", o, NULL))
            /\ \A p \in Prog : Closable(bpf[o].instances[p], Desc("prog", o, p))
       ELSE ProgsOpen(o) /\ BaseOpen(o)
    /\ pc = "parse" => Bare(o)
    /\ pc = "fix" =>
          /\ iu[o].prog_fd = NOFD /\ NoProg(o) /\ todo \subseteq iu[o].defs
          /\ \A m \in iu[o].defs : bpf[o].map_fd[m] = NOFD <=> m \in todo
    /\ pc = "base" => iu[o].prog_fd = NOFD /\ NoProg(o) /\ MapsCreated(o)
    /\ pc \in {"remove", "progs"} =>
          ret \in Fd /\ ret = iu[o].prog_fd /\ MapsCreated(o)
    /\ pc = "remove" => NoProg(o)
    /\ pc = "progs" =>
          /\ todo \subseteq iu[o].progs
          /\ \A p \in iu[o].progs : bpf[o].instances[p] = NOFD <=> p \in todo
    /\ pc = "end" /\ ret >= 0 =>
          \/ ret = 1 /\ Bare(o)
          \/ ret = iu[o].prog_fd /\ Whole(o) /\ bpf[o].loaded

\* ... and after it.
Finishing(o) ==
    IF ret < 0
    THEN /\ iu[o] = NoIu /\ NotEntered(o) /\ Reaches(o) /\ ElfOpen(o)
         /\ \A m \in Map : Closable(bpf[o].map_fd[m], Desc("map", o, m))
         /\ \A p \in Prog : Closable(bpf[o].instances[p], Desc("prog", o, p))
    ELSE /\ Owner(o) /\ Entered(o) /\ Complete(o)
         /\ ~ bpf[o].loaded => Only(o, {"elf"})

Call ==
    IF pc = "idle" THEN \A o \in Obj : status[o] # "opening"
    ELSE /\ cur \in Obj /\ status[cur] = "opening"
         /\ \A o \in Obj \ {cur} : status[o] # "opening"
         /\ pc = "finish" => Finishing(cur)
         /\ pc \notin {"finish", "dead"} => Loading(cur)

IInv ==
    /\ TypeOK /\ ~ stray /\ fdt[1] = App
    /\ Call /\ \A o \in Obj : Settled(o)

-----------------------------------------------------------------------------
(* Lemmas.                                                                 *)

DescType == [kind : Kind, obj : Obj \cup {NULL}, item : Map \cup Prog \cup {NULL}]
IuType == [defs : SUBSET Map, map_fd : [Map -> Fd \cup {NOFD}],
           prog_fd : Fd \cup {NOFD}, progs : SUBSET Prog,
           fd : [Prog -> Fd \cup {NOFD}]]
BpfType == [efile : Fd \cup {NOFD}, map_fd : [Map -> Fd \cup {NOFD}],
            instances : [Prog -> Fd \cup {NOFD}], loaded : BOOLEAN]

\* Objects that hold no number are objects.
LEMMA NoneTypes == NoIu \in IuType /\ NoBpf \in BpfType
BY DEF NoIu, NoBpf, IuType, BpfType

\* Descriptors are descriptors.
LEMMA DescTypes ==
    /\ Free \in DescType /\ App \in DescType /\ Free # App
    /\ Free.obj = NULL /\ App.obj = NULL
    /\ \A k \in Kind, o \in Obj \cup {NULL}, i \in Map \cup Prog \cup {NULL} :
          /\ Desc(k, o, i) \in DescType
          /\ Desc(k, o, i).kind = k /\ Desc(k, o, i).obj = o /\ Desc(k, o, i).item = i
BY DEF Free, App, Desc, DescType, Kind

\* Numbers are numbers.
LEMMA FdTypes == 1 \in Fd /\ Fd \subseteq Nat /\ NOFD = -1 /\ NOFD \notin Fd /\ 0 \notin Fd
BY LoaderAssumption DEF Fd, NOFD

\* A number that is given out was free, so it was not the standard output.
LEMMA OpenedFd ==
    ASSUME TypeOK, fdt[1] = App, NEW f \in Fd, NEW d \in DescType, Opened(f, d)
    PROVE  /\ fdt' \in [Fd -> DescType]
           /\ fdt[f] = Free /\ fdt'[f] = d /\ f # 1 /\ fdt'[1] = App
           /\ \A g \in Fd : g # f => fdt'[g] = fdt[g]
<1>1. fdt \in [Fd -> DescType]  BY DEF TypeOK, DescType
<1>2. fdt[f] = Free /\ fdt' = [fdt EXCEPT ![f] = d]  BY DEF Opened, Lowest
<1>3. f # 1  BY <1>2, DescTypes
<1>. QED  BY <1>1, <1>2, <1>3, FdTypes

\* What was open stays open when another number is given out.
LEMMA StillOpen ==
    ASSUME TypeOK, fdt[1] = App, NEW f \in Fd, NEW d \in DescType, Opened(f, d),
           NEW o \in Obj, bpf'[o] = bpf[o]
    PROVE  /\ MapsOpen(o) => MapsOpen(o)'
           /\ ProgsOpen(o) => ProgsOpen(o)'
           /\ ElfOpen(o) => ElfOpen(o)'
<1>1. bpf[o] \in BpfType  BY DEF TypeOK, BpfType
<1>2. fdt[f] = Free /\ \A g \in Fd : g # f => fdt'[g] = fdt[g]  BY OpenedFd
<1>3. \A k \in Kind \ {"free"}, i \in Map \cup Prog \cup {NULL} : Desc(k, o, i) # Free  BY DEF Desc, Free
<1>4. \A n \in Fd \cup {NOFD}, k \in Kind \ {"free"}, i \in Map \cup Prog \cup {NULL} :
         Open(n, Desc(k, o, i)) => (n # NOFD => fdt'[n] = Desc(k, o, i))
  BY <1>2, <1>3 DEF Open
<1>5. "map" \in Kind \ {"free"} /\ "prog" \in Kind \ {"free"}
      /\ "elf" \in Kind \ {"free"}
  BY DEF Kind
<1>6. MapsOpen(o) => MapsOpen(o)'
  <2>1. \A m \in Map : bpf[o].map_fd[m] \in Fd \cup {NOFD}  BY <1>1 DEF BpfType
  <2>. QED  BY <2>1, <1>4, <1>5 DEF MapsOpen, Open
<1>7. ProgsOpen(o) => ProgsOpen(o)'
  <2>1. \A p \in Prog : bpf[o].instances[p] \in Fd \cup {NOFD}  BY <1>1 DEF BpfType
  <2>. QED  BY <2>1, <1>4, <1>5 DEF ProgsOpen, Open
<1>8. ElfOpen(o) => ElfOpen(o)'
  <2>1. bpf[o].efile \in Fd \cup {NOFD}  BY <1>1 DEF BpfType
  <2>. QED  BY <2>1, <1>4, <1>5 DEF ElfOpen, Open
<1>. QED  BY <1>6, <1>7, <1>8

\* A load at rest stays as it is while nothing of it is touched.
LEMMA Elsewhere ==
    ASSUME NEW o \in Obj, Settled(o),
           iu'[o] = iu[o], bpf'[o] = bpf[o], status'[o] = status[o],
           \A f \in Fd : fdt'[f] = fdt[f] \/ (fdt[f].obj # o /\ fdt'[f].obj # o),
           \A f \in Fd : objs'[f] = objs[f] \/ (objs[f] # o /\ objs'[f] # o),
           TypeOK
    PROVE  Settled(o)'
<1>0. /\ iu[o] \in IuType /\ bpf[o] \in BpfType
  BY DEF TypeOK, IuType, BpfType
<1>1. \A f \in Fd : fdt[f].obj = o \/ fdt'[f].obj = o => fdt'[f] = fdt[f]
  OBVIOUS
<1>2. \A k \in Kind, i \in Map \cup Prog \cup {NULL}, f \in Fd :
         fdt[f] = Desc(k, o, i) <=> fdt'[f] = Desc(k, o, i)
  BY <1>1, DescTypes
<1>3. \A f \in Fd : objs[f] = o <=> objs'[f] = o  OBVIOUS
<1>4. \A ks : Only(o, ks) => Only(o, ks)'  BY <1>1 DEF Only
<1>5. NotEntered(o) => NotEntered(o)'  BY <1>3 DEF NotEntered
<1>6. "base" \in Kind /\ "map" \in Kind /\ "prog" \in Kind /\ "elf" \in Kind
  BY DEF Kind
<1>7. Entered(o) => Entered(o)'  BY <1>2, <1>3, <1>6 DEF Entered
<1>8. Agree(o) => Agree(o)'  BY DEF Agree
<1>9. BaseOpen(o) => BaseOpen(o)'
  BY <1>0, <1>2, <1>6 DEF BaseOpen, Open, IuType
<1>10. ElfOpen(o) => ElfOpen(o)'
  BY <1>0, <1>2, <1>6 DEF ElfOpen, Open, BpfType
<1>11. MapsOpen(o) => MapsOpen(o)'
  BY <1>0, <1>2, <1>6 DEF MapsOpen, Open, BpfType
<1>12. ProgsOpen(o) => ProgsOpen(o)'
  BY <1>0, <1>2, <1>6 DEF ProgsOpen, Open, BpfType
<1>13. Reaches(o) => Reaches(o)'
  BY <1>1 DEF Reaches, Reached
<1>14. objs[iu[o].prog_fd] = o /\ iu[o].prog_fd \in Fd => objs'[iu[o].prog_fd] = o
  BY <1>3
<1>15. Complete(o) => Complete(o)'
  BY <1>0, <1>14 DEF Complete, Whole, MapsCreated, IuType
<1>16. Owner(o) => Owner(o)'
  BY <1>8, <1>9, <1>10, <1>11, <1>12, <1>13 DEF Owner
<1>17. (\A f \in Fd : fdt[f] = Desc("base", o, NULL) => iu[o].prog_fd = f)
         => (\A f \in Fd : fdt[f] = Desc("base", o, NULL) => iu[o].prog_fd = f)'
  BY <1>2, <1>6
<1>. QED
  BY <1>4, <1>5, <1>7, <1>15, <1>16, <1>17 DEF Settled

\* A step of iu_object__open touches no other load and not the application.
LEMMA InCall ==
    ASSUME IInv, TypeOK', pc # "idle", pc' # "idle", cur' = cur, stray' = stray,
           status' = status, fdt'[1] = fdt[1],
           \A o \in Obj \ {cur} : iu'[o] = iu[o] /\ bpf'[o] = bpf[o],
           \A f \in Fd : \/ fdt'[f] = fdt[f]
                         \/ fdt[f].obj \in {cur, NULL} /\ fdt'[f].obj \in {cur, NULL},
           \A f \in Fd : objs'[f] = objs[f] \/ {objs[f], objs'[f]} \subseteq {cur, NULL},
           pc' = "finish" => Finishing(cur)',
           pc' \notin {"finish", "dead"} => Loading(cur)'
    PROVE  IInv'
<1>1. cur \in Obj /\ status[cur] = "opening" /\ TypeOK
  BY DEF IInv, Call
<1>2. \A o \in Obj \ {cur} : status[o] # "opening"  BY DEF IInv, Call
<1>3. Call'
  BY <1>1, <1>2 DEF Call
<1>4. ASSUME NEW o \in Obj PROVE Settled(o)'
  <2>1. CASE o = cur  BY <2>1, <1>1 DEF Settled
  <2>2. CASE o # cur
    <3>1. o # NULL  BY LoaderAssumption
    <3>. QED  BY <2>2, <3>1, <1>1, Elsewhere DEF IInv
  <2>. QED  BY <2>1, <2>2
<1>. QED  BY <1>3, <1>4 DEF IInv

-----------------------------------------------------------------------------
(* The steps of iu_object__open keep the invariant.                        *)

\* The fields of the objects in progress, which have their types.
LEMMA CurTypes ==
    ASSUME IInv, pc # "idle"
    PROVE  /\ TypeOK /\ cur \in Obj /\ cur # NULL /\ status[cur] = "opening"
           /\ iu \in [Obj -> IuType] /\ bpf \in [Obj -> BpfType]
           /\ fdt \in [Fd -> DescType] /\ fdt[1] = App /\ ~ stray
           /\ iu[cur] \in IuType /\ bpf[cur] \in BpfType
           /\ pc = "finish" => Finishing(cur)
           /\ pc \notin {"finish", "dead"} => Loading(cur)
BY LoaderAssumption DEF IInv, Call, TypeOK, IuType, BpfType, DescType

\* The file is no ELF file, or a parser fails.
LEMMA ElfInvalidStep == IInv /\ ElfInvalid => IInv'
<1>. SUFFICES ASSUME IInv, ElfInvalid PROVE IInv'  OBVIOUS
<1>1. /\ pc = "parse" /\ pc' = "end" /\ ret' = -1
      /\ UNCHANGED <<fdt, iu, bpf, objs, status, cur, todo, stray>>
  BY DEF ElfInvalid
<1>2. TypeOK'  BY <1>1 DEF IInv, TypeOK
<1>3. Loading(cur) /\ Bare(cur)  BY <1>1, CurTypes DEF Loading
<1>4. Loading(cur)'
  BY <1>1, <1>3 DEF Loading, Bare, Agree, Reaches, Reached, NotEntered, MapsOpen,
     ElfOpen, Open, Closable, NoProg
<1>. QED  BY <1>1, <1>2, <1>4, InCall

\* The parsers find maps and programs, and succeed or fail.
LEMMA ParseStep == IInv /\ parse_elf => IInv'
<1>. SUFFICES ASSUME IInv, parse_elf PROVE IInv'  OBVIOUS
<1>1. PICK d \in SUBSET Map, p \in SUBSET Prog :
         /\ iu' = [iu EXCEPT ![cur].defs = d, ![cur].progs = p]
         /\ todo' = d
  <2>1. \A runs \in BOOLEAN, result \in {-1, 0}, S \in {Map, Prog} : Finds(runs, result, S) \subseteq SUBSET S
    BY DEF Finds
  <2>2. PICK scns, maps, progs, rela \in {-1, 0} :
           \E d \in Finds(scns = 0, maps, Map),
              p \in Finds(Fold(scns, maps) >= 0, progs, Prog) :
              /\ ret' = Fold(Fold(Fold(scns, maps), progs), rela)
              /\ iu' = [iu EXCEPT ![cur].defs = d, ![cur].progs = p]
              /\ todo' = d
    BY Zenon DEF parse_elf
  <2>3. (scns = 0) \in BOOLEAN /\ (Fold(scns, maps) >= 0) \in BOOLEAN
    BY <2>2 DEF Fold
  <2>4. /\ Finds(scns = 0, maps, Map) \subseteq SUBSET Map
        /\ Finds(Fold(scns, maps) >= 0, progs, Prog) \subseteq SUBSET Prog
    BY <2>1, <2>3
  <2>. QED  BY <2>2, <2>4, Zenon
<1>2. ret' \in {-1, 0, 1}  BY DEF parse_elf, Fold
<1>3. /\ pc = "parse" /\ pc' = IF ret' = 0 THEN "fix" ELSE "end"
      /\ UNCHANGED <<fdt, bpf, objs, status, cur, stray>>
  BY DEF parse_elf
<1>4. Loading(cur) /\ Bare(cur) /\ iu[cur] \in IuType /\ iu \in [Obj -> IuType]
      /\ cur \in Obj /\ TypeOK
  BY <1>3, CurTypes DEF Loading
<1>5. /\ iu'[cur].defs = d /\ iu'[cur].map_fd = iu[cur].map_fd
      /\ iu'[cur].prog_fd = iu[cur].prog_fd /\ iu'[cur].fd = iu[cur].fd
      /\ iu'[cur] \in IuType
  BY <1>1, <1>4, Zenon DEF IuType
<1>6. iu' \in [Obj -> IuType] /\ \A o \in Obj \ {cur} : iu'[o] = iu[o]
  BY <1>1, <1>4, <1>5, Zenon
<1>7. TypeOK'
  BY <1>1, <1>2, <1>3, <1>4, <1>6, FdTypes DEF TypeOK, IuType
<1>8. Bare(cur)'
  BY <1>3, <1>4, <1>5 DEF Bare, Agree, Only, NoProg
<1>9. Loading(cur)'
  <2>1. Agree(cur)' /\ NotEntered(cur)' /\ ElfOpen(cur)' /\ MapsOpen(cur)'
        /\ Reaches(cur)'
    BY <1>3, <1>4, <1>5 DEF Loading, Bare, Agree, NotEntered, ElfOpen, MapsOpen,
       Open, Reaches, Reached
  <2>2. (ProgsOpen(cur) /\ BaseOpen(cur))'
    BY <1>8 DEF Bare, NoProg, ProgsOpen, BaseOpen, Open
  <2>3. /\ \A p1 \in Prog : Closable(bpf[cur].instances[p1], Desc("prog", cur, p1))'
        /\ Closable(iu[cur].prog_fd, Desc("base", cur, NULL))'
    BY <1>8 DEF Bare, NoProg, Closable
  <2>4. CASE ret' = 0
    BY <2>1, <2>2, <2>4, <1>1, <1>3, <1>5, <1>8 DEF Loading, Bare
  <2>5. CASE ret' # 0
    BY <2>1, <2>2, <2>3, <2>5, <1>2, <1>3, <1>8 DEF Loading
  <2>. QED  BY <2>4, <2>5
<1>. QED  BY <1>3, <1>6, <1>7, <1>9, InCall

\* A parser dereferences a null pointer.
LEMMA CrashStep == IInv /\ ParseCrash => IInv'
<1>. SUFFICES ASSUME IInv, ParseCrash PROVE IInv'  OBVIOUS
<1>1. /\ pc = "parse" /\ pc' = "dead"
      /\ UNCHANGED <<fdt, iu, bpf, objs, status, cur, todo, ret, stray>>
  BY DEF ParseCrash
<1>2. TypeOK'  BY <1>1 DEF IInv, TypeOK
<1>. QED  BY <1>1, <1>2, InCall

\* A failure before the base program: nothing but maps is open.
LEMMA FixMapsFailsStep == IInv /\ FixMapsFails => IInv'
<1>. SUFFICES ASSUME IInv, FixMapsFails PROVE IInv'  OBVIOUS
<1>1. /\ pc = "fix" /\ pc' = "end" /\ ret' = -1
      /\ UNCHANGED <<fdt, iu, bpf, objs, status, cur, todo, stray>>
  BY DEF FixMapsFails
<1>2. TypeOK'  BY <1>1 DEF IInv, TypeOK
<1>3. Loading(cur)  BY <1>1, CurTypes
<1>4. Loading(cur)'
  BY <1>1, <1>3 DEF Loading, Agree, Reaches, Reached, NotEntered, MapsOpen,
     ElfOpen, Open, Closable, NoProg
<1>. QED  BY <1>1, <1>2, <1>4, InCall

\* A map has a new descriptor, which both objects keep.
LEMMA CreateMapStep == ASSUME IInv, NEW m \in Map, CreateMap(m) PROVE IInv'
<1>1. /\ pc = "fix" /\ m \in todo /\ todo' = todo \ {m}
      /\ UNCHANGED <<objs, status, pc, cur, ret, stray>>
  BY DEF CreateMap
<1>2. PICK f \in Fd :
         /\ Opened(f, Desc("map", cur, m))
         /\ iu' = [iu EXCEPT ![cur].map_fd[m] = f]
         /\ bpf' = [bpf EXCEPT ![cur].map_fd[m] = f]
  BY Zenon DEF CreateMap
<1>3. /\ TypeOK /\ cur \in Obj /\ Loading(cur) /\ cur # NULL
      /\ iu \in [Obj -> IuType] /\ bpf \in [Obj -> BpfType]
      /\ iu[cur] \in IuType /\ bpf[cur] \in BpfType /\ fdt[1] = App
  BY <1>1, CurTypes
<1>4. /\ iu'[cur] \in IuType /\ iu'[cur].defs = iu[cur].defs
      /\ iu'[cur].map_fd = [iu[cur].map_fd EXCEPT ![m] = f]
      /\ iu'[cur].prog_fd = iu[cur].prog_fd /\ iu'[cur].fd = iu[cur].fd
  BY <1>2, <1>3, Zenon DEF IuType
<1>5. /\ bpf'[cur] \in BpfType /\ bpf'[cur].efile = bpf[cur].efile
      /\ bpf'[cur].map_fd = [bpf[cur].map_fd EXCEPT ![m] = f]
      /\ bpf'[cur].instances = bpf[cur].instances
  BY <1>2, <1>3, Zenon DEF BpfType
<1>6. /\ iu' \in [Obj -> IuType] /\ \A o \in Obj \ {cur} : iu'[o] = iu[o]
      /\ bpf' \in [Obj -> BpfType] /\ \A o \in Obj \ {cur} : bpf'[o] = bpf[o]
  BY <1>2, <1>3, <1>4, <1>5, Zenon
<1>7. Desc("map", cur, m) \in DescType /\ Desc("map", cur, m).obj = cur
      /\ Free.obj = NULL
  BY <1>3, DescTypes DEF Kind
<1>8. /\ fdt' \in [Fd -> DescType] /\ fdt[f] = Free /\ fdt'[f] = Desc("map", cur, m)
      /\ fdt'[1] = App /\ \A g \in Fd : g # f => fdt'[g] = fdt[g]
  BY <1>2, <1>3, <1>7, OpenedFd
<1>9. TypeOK'
  BY <1>1, <1>3, <1>6, <1>8 DEF TypeOK, DescType, IuType, BpfType
<1>10. /\ iu[cur].prog_fd = NOFD /\ NoProg(cur) /\ todo \subseteq iu[cur].defs
       /\ \A n \in iu[cur].defs : bpf[cur].map_fd[n] = NOFD <=> n \in todo
  BY <1>1, <1>3 DEF Loading
<1>11. f # NOFD /\ bpf[cur].map_fd[m] = NOFD  BY <1>1, <1>10, FdTypes
<1>12. \A n \in Map : bpf'[cur].map_fd[n] = IF n = m THEN f ELSE bpf[cur].map_fd[n]
  BY <1>3, <1>5 DEF BpfType
<1>13. Loading(cur)'
  <2>1. Agree(cur)'  BY <1>3, <1>4, <1>5, <1>1 DEF Loading, Agree
  <2>2. NotEntered(cur)'  BY <1>1, <1>3 DEF Loading, NotEntered
  <2>3. MapsOpen(cur)'
    <3>. SUFFICES ASSUME NEW n \in Map, bpf'[cur].map_fd[n] # NOFD
                  PROVE  fdt'[bpf'[cur].map_fd[n]] = Desc("map", cur, n)
      BY <1>1 DEF MapsOpen, Open
    <3>1. CASE n = m  BY <3>1, <1>8, <1>12
    <3>2. CASE n # m
      <4>1. bpf'[cur].map_fd[n] = bpf[cur].map_fd[n] /\ bpf[cur].map_fd[n] \in Fd
        BY <3>2, <1>3, <1>12 DEF BpfType
      <4>2. fdt[bpf[cur].map_fd[n]] = Desc("map", cur, n)
        BY <4>1, <1>3, FdTypes DEF Loading, MapsOpen, Open
      <4>3. Desc("map", cur, n) # Free  BY DEF Desc, Free
      <4>. QED  BY <4>1, <4>2, <4>3, <1>8
    <3>. QED  BY <3>1, <3>2
  <2>4. ElfOpen(cur)'
    <3>1. Desc("elf", cur, NULL) # Free  BY DEF Desc, Free
    <3>2. bpf[cur].efile \in Fd \cup {NOFD}  BY <1>3 DEF BpfType
    <3>3. ElfOpen(cur)  BY <1>3 DEF Loading
    <3>. QED  BY <3>1, <3>2, <3>3, <1>1, <1>5, <1>8 DEF ElfOpen, Open
  <2>5. Reaches(cur)'
    <3>. SUFFICES ASSUME NEW g \in Fd, fdt'[g].obj = cur PROVE Reached(cur, g)'
      BY <1>1 DEF Reaches
    <3>1. CASE g = f  BY <3>1, <1>1, <1>8, <1>12 DEF Reached
    <3>2. CASE g # f
      <4>1. fdt'[g] = fdt[g] /\ Reached(cur, g)
        BY <3>2, <1>3, <1>8 DEF Loading, Reaches
      <4>2. g # NOFD  BY FdTypes
      <4>. QED  BY <4>1, <4>2, <1>1, <1>4, <1>5, <1>11, <1>12 DEF Reached
    <3>. QED  BY <3>1, <3>2
  <2>6. NoProg(cur)' /\ iu'[cur].prog_fd = NOFD
    BY <1>1, <1>4, <1>5, <1>10 DEF NoProg
  <2>7. ProgsOpen(cur)' /\ BaseOpen(cur)'
    BY <2>6, <1>1 DEF ProgsOpen, BaseOpen, NoProg, Open
  <2>8. \A n \in iu'[cur].defs : bpf'[cur].map_fd[n] = NOFD <=> n \in todo'
    BY <1>1, <1>3, <1>4, <1>10, <1>11, <1>12 DEF IuType
  <2>9. todo' \subseteq iu'[cur].defs  BY <1>1, <1>4, <1>10
  <2>. QED
    BY <1>1, <2>1, <2>2, <2>3, <2>4, <2>5, <2>6, <2>7, <2>8, <2>9 DEF Loading
<1>. QED  BY <1>1, <1>3, <1>6, <1>7, <1>8, <1>9, <1>13, InCall

\* The image is written and opened, or not.
LEMMA OpenRustOutStep == IInv /\ OpenRustOut => IInv'
<1>. SUFFICES ASSUME IInv, OpenRustOut PROVE IInv'  OBVIOUS
<1>1. /\ pc = "fix" /\ todo = {} /\ pc' = "base"
      /\ UNCHANGED <<iu, bpf, objs, status, cur, todo, ret, stray>>
  BY DEF OpenRustOut
<1>2. /\ TypeOK /\ cur \in Obj /\ Loading(cur) /\ cur # NULL
      /\ iu[cur] \in IuType /\ bpf[cur] \in BpfType /\ fdt[1] = App
      /\ fdt \in [Fd -> DescType]
  BY <1>1, CurTypes
<1>3. /\ iu[cur].prog_fd = NOFD /\ NoProg(cur) /\ MapsCreated(cur)
  BY <1>1, <1>2 DEF Loading, MapsCreated
<1>4. Agree(cur)' /\ NotEntered(cur)' /\ NoProg(cur)' /\ MapsCreated(cur)'
      /\ ProgsOpen(cur)' /\ BaseOpen(cur)'
  BY <1>1, <1>2, <1>3 DEF Loading, Agree, NotEntered, NoProg, MapsCreated,
     ProgsOpen, BaseOpen, Open
<1>5. CASE fdt' = fdt
  <2>1. TypeOK'  BY <1>1, <1>2, <1>5 DEF TypeOK
  <2>2. MapsOpen(cur)' /\ ElfOpen(cur)' /\ Reaches(cur)'
    BY <1>1, <1>2, <1>5 DEF Loading, MapsOpen, ElfOpen, Reaches, Reached, Open
  <2>3. Loading(cur)'  BY <1>1, <1>3, <1>4, <2>2 DEF Loading
  <2>. QED  BY <1>1, <1>5, <2>1, <2>3, InCall
<1>6. ASSUME NEW f \in Fd, Opened(f, Desc("rust", cur, NULL)) PROVE IInv'
  <2>1. Desc("rust", cur, NULL) \in DescType /\ Desc("rust", cur, NULL).obj = cur
        /\ Desc("rust", cur, NULL).kind = "rust" /\ Free.obj = NULL
    BY <1>2, DescTypes DEF Kind
  <2>2. /\ fdt' \in [Fd -> DescType] /\ fdt[f] = Free
        /\ fdt'[f] = Desc("rust", cur, NULL)
        /\ fdt'[1] = App /\ \A g \in Fd : g # f => fdt'[g] = fdt[g]
    BY <1>2, <1>6, <2>1, OpenedFd
  <2>3. TypeOK'  BY <1>1, <1>2, <2>2 DEF TypeOK, DescType
  <2>4. MapsOpen(cur)' /\ ElfOpen(cur)'
    BY <1>1, <1>2, <1>6, <2>1, StillOpen DEF Loading
  <2>5. Reaches(cur)'
    BY <1>1, <1>2, <2>1, <2>2 DEF Loading, Reaches, Reached
  <2>6. Loading(cur)'  BY <1>1, <1>3, <1>4, <2>4, <2>5 DEF Loading
  <2>. QED  BY <1>1, <1>2, <2>1, <2>2, <2>3, <2>6, InCall
<1>. QED  BY <1>5, <1>6 DEF OpenRustOut

\* The base program is loaded, or not.
LEMMA LoadBaseStep == IInv /\ LoadBase => IInv'
<1>. SUFFICES ASSUME IInv, LoadBase PROVE IInv'  OBVIOUS
<1>1. pc = "base" /\ UNCHANGED <<bpf, objs, status, cur, todo, stray>>
  BY DEF LoadBase
<1>2. /\ TypeOK /\ cur \in Obj /\ Loading(cur) /\ cur # NULL
      /\ iu \in [Obj -> IuType] /\ iu[cur] \in IuType /\ bpf[cur] \in BpfType
      /\ fdt[1] = App /\ fdt \in [Fd -> DescType]
  BY <1>1, CurTypes
<1>3. iu[cur].prog_fd = NOFD /\ NoProg(cur) /\ MapsCreated(cur)
      /\ Agree(cur) /\ NotEntered(cur) /\ MapsOpen(cur) /\ ElfOpen(cur)
      /\ Reaches(cur)
  BY <1>1, <1>2 DEF Loading
<1>4. CASE ret' = -1 /\ pc' = "end" /\ UNCHANGED <<fdt, iu>>
  <2>1. TypeOK'  BY <1>1, <1>2, <1>4 DEF TypeOK
  <2>2. Loading(cur)'
    BY <1>1, <1>3, <1>4 DEF Loading, Agree, NotEntered, NoProg, MapsOpen, ElfOpen,
       Reaches, Reached, Open, Closable
  <2>. QED  BY <1>1, <1>4, <2>1, <2>2, InCall
<1>5. ASSUME NEW f \in Fd, Opened(f, Desc("base", cur, NULL)), ret' = f,
             pc' = "remove", iu' = [iu EXCEPT ![cur].prog_fd = f]
      PROVE  IInv'
  <2>1. Desc("base", cur, NULL) \in DescType /\ Desc("base", cur, NULL).obj = cur
        /\ Free.obj = NULL
    BY <1>2, DescTypes DEF Kind
  <2>2. /\ fdt' \in [Fd -> DescType] /\ fdt[f] = Free
        /\ fdt'[f] = Desc("base", cur, NULL)
        /\ fdt'[1] = App /\ \A g \in Fd : g # f => fdt'[g] = fdt[g]
    BY <1>2, <1>5, <2>1, OpenedFd
  <2>3. /\ iu'[cur] \in IuType /\ iu'[cur].defs = iu[cur].defs
        /\ iu'[cur].map_fd = iu[cur].map_fd
        /\ iu'[cur].prog_fd = f /\ iu'[cur].fd = iu[cur].fd
    BY <1>2, <1>5, Zenon DEF IuType
  <2>4. iu' \in [Obj -> IuType] /\ \A o \in Obj \ {cur} : iu'[o] = iu[o]
    BY <1>2, <1>5, <2>3, Zenon
  <2>5. TypeOK'
    BY <1>1, <1>2, <1>5, <2>2, <2>4 DEF TypeOK, DescType, IuType
  <2>6. MapsOpen(cur)' /\ ElfOpen(cur)'
    BY <1>1, <1>2, <1>3, <1>5, <2>1, StillOpen
  <2>7. f # NOFD  BY FdTypes
  <2>8. Reaches(cur)'
    <3>. SUFFICES ASSUME NEW g \in Fd, fdt'[g].obj = cur PROVE Reached(cur, g)'
      BY <1>1 DEF Reaches
    <3>1. CASE g = f  BY <3>1, <1>1, <2>2, <2>3 DEF Reached
    <3>2. CASE g # f
      <4>1. fdt'[g] = fdt[g] /\ Reached(cur, g) /\ g # NOFD
        BY <3>2, <1>3, <2>2, FdTypes DEF Reaches
      <4>. QED  BY <4>1, <1>1, <1>3, <2>3 DEF Reached
    <3>. QED  BY <3>1, <3>2
  <2>9. ProgsOpen(cur)' /\ BaseOpen(cur)' /\ NoProg(cur)'
    BY <1>1, <1>3, <2>2, <2>3 DEF ProgsOpen, BaseOpen, NoProg, Open
  <2>10. Agree(cur)' /\ NotEntered(cur)' /\ MapsCreated(cur)'
    BY <1>1, <1>3, <2>3 DEF Agree, NotEntered, MapsCreated
  <2>11. Loading(cur)'
    BY <1>1, <1>5, <2>3, <2>6, <2>8, <2>9, <2>10 DEF Loading
  <2>. QED  BY <1>1, <1>2, <1>5, <2>1, <2>2, <2>4, <2>5, <2>11, InCall
<1>. QED  BY <1>4, <1>5, Zenon DEF LoadBase

\* rust.out is removed, or not.
LEMMA RemoveRustOutStep == IInv /\ RemoveRustOut => IInv'
<1>. SUFFICES ASSUME IInv, RemoveRustOut PROVE IInv'  OBVIOUS
<1>1. /\ pc = "remove" /\ pc' \in {"progs", "close_fds"} /\ todo' = iu[cur].progs
      /\ UNCHANGED <<fdt, iu, bpf, objs, status, cur, ret, stray>>
  BY DEF RemoveRustOut
<1>2. TypeOK /\ Loading(cur) /\ iu[cur] \in IuType  BY <1>1, CurTypes
<1>3. TypeOK'  BY <1>1, <1>2 DEF TypeOK, IuType
<1>4. Loading(cur)'
  BY <1>1, <1>2 DEF Loading, Agree, Reaches, Reached, NotEntered, MapsOpen,
     ElfOpen, ProgsOpen, BaseOpen, Open, NoProg, MapsCreated, IuType
<1>. QED  BY <1>1, <1>3, <1>4, InCall

\* A program has a new descriptor, which both objects keep, or none.
LEMMA LoadProgStep == ASSUME IInv, NEW p \in Prog, LoadProg(p) PROVE IInv'
<1>1. /\ pc = "progs" /\ p \in todo /\ UNCHANGED <<objs, status, cur, ret, stray>>
  BY DEF LoadProg
<1>2. /\ TypeOK /\ cur \in Obj /\ Loading(cur) /\ cur # NULL
      /\ iu \in [Obj -> IuType] /\ bpf \in [Obj -> BpfType]
      /\ iu[cur] \in IuType /\ bpf[cur] \in BpfType /\ fdt[1] = App
  BY <1>1, CurTypes
<1>3. /\ Agree(cur) /\ NotEntered(cur) /\ MapsOpen(cur) /\ ElfOpen(cur)
      /\ Reaches(cur) /\ ProgsOpen(cur) /\ BaseOpen(cur) /\ MapsCreated(cur)
      /\ ret \in Fd /\ ret = iu[cur].prog_fd /\ todo \subseteq iu[cur].progs
      /\ \A q \in iu[cur].progs : bpf[cur].instances[q] = NOFD <=> q \in todo
  BY <1>1, <1>2 DEF Loading
<1>4. CASE pc' = "close_fds" /\ UNCHANGED <<fdt, iu, bpf, todo>>
  <2>1. TypeOK'  BY <1>1, <1>2, <1>4 DEF TypeOK
  <2>2. Loading(cur)'
    BY <1>1, <1>3, <1>4 DEF Loading, Agree, NotEntered, MapsOpen, ElfOpen,
       Reaches, Reached, ProgsOpen, BaseOpen, Open
  <2>. QED  BY <1>1, <1>4, <2>1, <2>2, InCall
<1>5. ASSUME NEW f \in Fd, Opened(f, Desc("prog", cur, p)),
             iu' = [iu EXCEPT ![cur].fd[p] = f],
             bpf' = [bpf EXCEPT ![cur].instances[p] = f],
             todo' = todo \ {p}, UNCHANGED pc
      PROVE  IInv'
  <2>1. /\ iu'[cur] \in IuType /\ iu'[cur].defs = iu[cur].defs
        /\ iu'[cur].fd = [iu[cur].fd EXCEPT ![p] = f]
        /\ iu'[cur].map_fd = iu[cur].map_fd /\ iu'[cur].progs = iu[cur].progs
        /\ iu'[cur].prog_fd = iu[cur].prog_fd
    BY <1>2, <1>5, Zenon DEF IuType
  <2>2. /\ bpf'[cur] \in BpfType /\ bpf'[cur].efile = bpf[cur].efile
        /\ bpf'[cur].instances = [bpf[cur].instances EXCEPT ![p] = f]
        /\ bpf'[cur].map_fd = bpf[cur].map_fd
    BY <1>2, <1>5, Zenon DEF BpfType
  <2>3. /\ iu' \in [Obj -> IuType] /\ \A o \in Obj \ {cur} : iu'[o] = iu[o]
        /\ bpf' \in [Obj -> BpfType] /\ \A o \in Obj \ {cur} : bpf'[o] = bpf[o]
    BY <1>2, <1>5, <2>1, <2>2, Zenon
  <2>4. Desc("prog", cur, p) \in DescType /\ Desc("prog", cur, p).obj = cur
        /\ Free.obj = NULL
    BY <1>2, DescTypes DEF Kind
  <2>5. /\ fdt' \in [Fd -> DescType] /\ fdt[f] = Free
        /\ fdt'[f] = Desc("prog", cur, p)
        /\ fdt'[1] = App /\ \A g \in Fd : g # f => fdt'[g] = fdt[g]
    BY <1>2, <1>5, <2>4, OpenedFd
  <2>6. TypeOK'
    BY <1>1, <1>2, <1>5, <2>3, <2>5 DEF TypeOK, DescType, IuType, BpfType
  <2>7. p \in iu[cur].progs /\ bpf[cur].instances[p] = NOFD /\ f # NOFD
    BY <1>1, <1>3, FdTypes
  <2>8. \A q \in Prog :
           bpf'[cur].instances[q] = IF q = p THEN f ELSE bpf[cur].instances[q]
    BY <1>2, <2>2 DEF BpfType
  <2>9. \A n \in Fd \cup {NOFD}, k \in Kind \ {"free"}, i \in Map \cup Prog \cup {NULL} :
           Open(n, Desc(k, cur, i)) => (n # NOFD => fdt'[n] = Desc(k, cur, i))
    BY <2>5 DEF Open, Desc, Free
  <2>10. MapsOpen(cur)' /\ ElfOpen(cur)' /\ BaseOpen(cur)'
    <3>1. "map" \in Kind \ {"free"} /\ "base" \in Kind \ {"free"}
          /\ "elf" \in Kind \ {"free"}
      BY DEF Kind
    <3>2. \A m \in Map : bpf[cur].map_fd[m] \in Fd \cup {NOFD}
      BY <1>2 DEF BpfType
    <3>3. bpf[cur].efile \in Fd \cup {NOFD} /\ iu[cur].prog_fd \in Fd \cup {NOFD}
      BY <1>2 DEF BpfType, IuType
    <3>4. MapsOpen(cur)'
      BY <1>1, <1>3, <2>2, <2>9, <3>1, <3>2 DEF MapsOpen, Open
    <3>5. ElfOpen(cur)' /\ BaseOpen(cur)'
      BY <1>1, <1>3, <2>1, <2>2, <2>9, <3>1, <3>3 DEF ElfOpen, BaseOpen, Open
    <3>. QED  BY <3>4, <3>5
  <2>11. ProgsOpen(cur)'
    <3>. SUFFICES ASSUME NEW q \in Prog, bpf'[cur].instances[q] # NOFD
                  PROVE  fdt'[bpf'[cur].instances[q]] = Desc("prog", cur, q)
      BY <1>1 DEF ProgsOpen, Open
    <3>1. CASE q = p  BY <3>1, <2>5, <2>8
    <3>2. CASE q # p
      <4>1. /\ bpf'[cur].instances[q] = bpf[cur].instances[q]
            /\ bpf[cur].instances[q] \in Fd \cup {NOFD}
        BY <3>2, <1>2, <2>8 DEF BpfType
      <4>2. Open(bpf[cur].instances[q], Desc("prog", cur, q))
        BY <1>3 DEF ProgsOpen
      <4>3. "prog" \in Kind \ {"free"}  BY DEF Kind
      <4>. QED  BY <4>1, <4>2, <4>3, <2>9
    <3>. QED  BY <3>1, <3>2
  <2>12. Reaches(cur)'
    <3>. SUFFICES ASSUME NEW g \in Fd, fdt'[g].obj = cur PROVE Reached(cur, g)'
      BY <1>1 DEF Reaches
    <3>1. CASE g = f  BY <3>1, <1>1, <2>5, <2>8 DEF Reached
    <3>2. CASE g # f
      <4>1. fdt'[g] = fdt[g] /\ Reached(cur, g) /\ g # NOFD
        BY <3>2, <1>3, <2>5, FdTypes DEF Reaches
      <4>. QED  BY <4>1, <1>1, <2>1, <2>2, <2>7, <2>8 DEF Reached
    <3>. QED  BY <3>1, <3>2
  <2>13. Agree(cur)' /\ NotEntered(cur)' /\ MapsCreated(cur)'
    BY <1>1, <1>3, <2>1, <2>2 DEF Agree, NotEntered, MapsCreated
  <2>14. /\ todo' \subseteq iu'[cur].progs
         /\ \A q \in iu'[cur].progs : bpf'[cur].instances[q] = NOFD <=> q \in todo'
    BY <1>2, <1>3, <1>5, <2>1, <2>7, <2>8 DEF IuType
  <2>15. Loading(cur)'
    BY <1>1, <1>3, <1>5, <2>1, <2>10, <2>11, <2>12, <2>13, <2>14 DEF Loading
  <2>. QED  BY <1>1, <1>2, <1>5, <2>3, <2>4, <2>5, <2>6, <2>15, InCall
<1>. QED  BY <1>4, <1>5, Zenon DEF LoadProg

\* Every program is loaded.
LEMMA LoadDoneStep == IInv /\ LoadDone => IInv'
<1>. SUFFICES ASSUME IInv, LoadDone PROVE IInv'  OBVIOUS
<1>1. /\ pc = "progs" /\ todo = {} /\ pc' = "end"
      /\ bpf' = [bpf EXCEPT ![cur].loaded = TRUE]
      /\ UNCHANGED <<fdt, iu, objs, status, cur, todo, ret, stray>>
  BY DEF LoadDone
<1>2. /\ TypeOK /\ cur \in Obj /\ Loading(cur)
      /\ bpf \in [Obj -> BpfType] /\ bpf[cur] \in BpfType
  BY <1>1, CurTypes
<1>3. /\ bpf'[cur] \in BpfType /\ bpf'[cur].efile = bpf[cur].efile
      /\ bpf'[cur].instances = bpf[cur].instances
      /\ bpf'[cur].map_fd = bpf[cur].map_fd /\ bpf'[cur].loaded
  BY <1>1, <1>2, Zenon DEF BpfType
<1>4. bpf' \in [Obj -> BpfType] /\ \A o \in Obj \ {cur} : bpf'[o] = bpf[o]
  BY <1>1, <1>2, <1>3, Zenon
<1>5. TypeOK'  BY <1>1, <1>2, <1>4 DEF TypeOK, BpfType
<1>6. /\ ret = iu[cur].prog_fd /\ ret # NOFD /\ ~ (ret < 0)
      /\ ret' = iu'[cur'].prog_fd /\ ~ (ret' < 0)
  BY <1>1, <1>2, FdTypes DEF Loading
<1>7. Whole(cur)'
  BY <1>1, <1>2, <1>3, <1>6 DEF Loading, Whole, MapsCreated
<1>8. /\ Agree(cur)' /\ NotEntered(cur)' /\ MapsOpen(cur)' /\ ElfOpen(cur)'
      /\ Reaches(cur)' /\ ProgsOpen(cur)' /\ BaseOpen(cur)'
  BY <1>1, <1>2, <1>3 DEF Loading, Agree, NotEntered, MapsOpen, ElfOpen,
     Reaches, Reached, ProgsOpen, BaseOpen, Open
<1>9. Loading(cur)'  BY <1>1, <1>3, <1>6, <1>7, <1>8 DEF Loading
<1>. QED  BY <1>1, <1>4, <1>5, <1>9, InCall

\* close of numbers that mean what they are believed to mean hits nobody else:
\* what was that is free afterwards, and the rest is as it was.
LEMMA CloseOwn ==
    ASSUME TypeOK, NEW S, Close(S),
           \A d \in S : d[1] \in Fd => fdt[d[1]] \in {Free, d[2]}
    PROVE  /\ stray' = stray /\ fdt' \in [Fd -> DescType]
           /\ \A f \in Fd : \/ fdt'[f] = fdt[f] /\ \A d \in S : d[1] # f
                            \/ fdt'[f] = Free /\ \E d \in S : d[1] = f
           /\ \A f \in Fd : fdt'[f] # fdt[f] =>
                 \E d \in S : d[1] = f /\ fdt[f] = d[2]
<1>1. fdt \in [Fd -> DescType] /\ Free \in DescType  BY DescTypes DEF TypeOK, DescType
<1>2. stray' = (stray \/ \E d \in S : d[1] \in Fd /\ fdt[d[1]] \notin {Free, d[2]})
  BY DEF Close
<1>3. stray' = stray
  <2>1. ~ \E d \in S : d[1] \in Fd /\ fdt[d[1]] \notin {Free, d[2]}  OBVIOUS
  <2>2. stray \in BOOLEAN  BY DEF TypeOK
  <2>. QED  BY <2>1, <2>2, <1>2, Zenon
<1>4. fdt' = [f \in Fd |-> IF \E d \in S : d[1] = f THEN Free ELSE fdt[f]]
  BY DEF Close
<1>5. fdt' \in [Fd -> DescType]  BY <1>1, <1>4
<1>6. \A f \in Fd : \/ fdt'[f] = fdt[f] /\ \A d \in S : d[1] # f
                    \/ fdt'[f] = Free /\ \E d \in S : d[1] = f
  BY <1>4
<1>7. \A f \in Fd : fdt'[f] # fdt[f] => \E d \in S : d[1] = f /\ fdt[f] = d[2]
  BY <1>6
<1>. QED  BY <1>3, <1>5, <1>6, <1>7

\* A program cannot be loaded: those that were, and the base program, go.
LEMMA CloseFdsStep == IInv /\ CloseFds => IInv'
<1>. SUFFICES ASSUME IInv, CloseFds PROVE IInv'  OBVIOUS
<1>. DEFINE S == {<<iu[cur].fd[p], Desc("prog", cur, p)>> : p \in Prog}
                 \cup {<<iu[cur].prog_fd, Desc("base", cur, NULL)>>}
<1>1. /\ pc = "close_fds" /\ pc' = "end" /\ ret' = -1 /\ todo' = {} /\ Close(S)
      /\ UNCHANGED <<iu, bpf, objs, status, cur>>
  BY DEF CloseFds
<1>2. /\ TypeOK /\ cur \in Obj /\ Loading(cur) /\ cur # NULL
      /\ iu[cur] \in IuType /\ bpf[cur] \in BpfType /\ fdt[1] = App /\ ~ stray
      /\ fdt \in [Fd -> DescType]
  BY <1>1, CurTypes
<1>3. /\ Agree(cur) /\ NotEntered(cur) /\ MapsOpen(cur) /\ ElfOpen(cur)
      /\ Reaches(cur) /\ ProgsOpen(cur) /\ BaseOpen(cur)
  BY <1>1, <1>2 DEF Loading
<1>4. \A d \in S : d[1] \in Fd => fdt[d[1]] = d[2]
  BY <1>3, FdTypes DEF Agree, ProgsOpen, BaseOpen, Open
<1>5. \A d \in S : d[2].obj = cur /\ d[2].kind \in {"prog", "base"} /\ d[2] # App
  BY <1>2, DescTypes DEF Kind
<1>. HIDE DEF S
<1>6. /\ stray' = stray /\ fdt' \in [Fd -> DescType]
      /\ \A f \in Fd : \/ fdt'[f] = fdt[f] /\ \A d \in S : d[1] # f
                       \/ fdt'[f] = Free /\ \E d \in S : d[1] = f
      /\ \A f \in Fd : fdt'[f] # fdt[f] =>
            \E d \in S : d[1] = f /\ fdt[f] = d[2]
  BY <1>1, <1>2, <1>4, CloseOwn
<1>7. \A f \in Fd : fdt'[f] # fdt[f] =>
         fdt'[f] = Free /\ fdt[f].obj = cur /\ fdt[f].kind \in {"prog", "base"}
  BY <1>5, <1>6
<1>8. TypeOK'  BY <1>1, <1>2, <1>6 DEF TypeOK, DescType
<1>9. fdt'[1] = fdt[1]
  BY <1>2, <1>7, FdTypes, DescTypes
<1>10. /\ Closable(iu[cur].prog_fd, Desc("base", cur, NULL))'
       /\ \A p \in Prog : Closable(bpf[cur].instances[p], Desc("prog", cur, p))'
  <2>1. \A p \in Prog : bpf[cur].instances[p] \in Fd \cup {NOFD}
    BY <1>2 DEF BpfType
  <2>2. iu[cur].prog_fd \in Fd \cup {NOFD}  BY <1>2 DEF IuType
  <2>3. \A p \in Prog : Closable(bpf[cur].instances[p], Desc("prog", cur, p))'
    BY <2>1, <1>1, <1>3, <1>6 DEF ProgsOpen, Open, Closable
  <2>4. Closable(iu[cur].prog_fd, Desc("base", cur, NULL))'
    BY <2>2, <1>1, <1>3, <1>6 DEF BaseOpen, Open, Closable
  <2>. QED  BY <2>3, <2>4
<1>11. MapsOpen(cur)' /\ ElfOpen(cur)'
  <2>1. \A m \in Map : bpf[cur].map_fd[m] \in Fd \cup {NOFD}  BY <1>2 DEF BpfType
  <2>2. bpf[cur].efile \in Fd \cup {NOFD}  BY <1>2 DEF BpfType
  <2>3. \A m : Desc("map", cur, m).kind = "map"  BY DEF Desc
  <2>4. Desc("elf", cur, NULL).kind = "elf"  BY DEF Desc
  <2>5. MapsOpen(cur)'
    BY <2>1, <2>3, <1>1, <1>3, <1>7 DEF MapsOpen, Open
  <2>6. ElfOpen(cur)'
    BY <2>2, <2>4, <1>1, <1>3, <1>7 DEF ElfOpen, Open
  <2>. QED  BY <2>5, <2>6
<1>12. Agree(cur)' /\ NotEntered(cur)'  BY <1>1, <1>3 DEF Agree, NotEntered
<1>13. Reaches(cur)'
  <2>. SUFFICES ASSUME NEW g \in Fd, fdt'[g].obj = cur PROVE Reached(cur, g)'
    BY <1>1 DEF Reaches
  <2>1. fdt'[g] = fdt[g] /\ Reached(cur, g)
    BY <1>2, <1>3, <1>7, DescTypes DEF Reaches
  <2>. QED  BY <2>1, <1>1 DEF Reached
<1>14. Loading(cur)'
  BY <1>1, <1>10, <1>11, <1>12, <1>13 DEF Loading
<1>15. Free.obj = NULL  BY DescTypes
<1>. QED
  BY <1>1, <1>2, <1>6, <1>7, <1>8, <1>9, <1>14, <1>15, InCall

\* Who is entered has been returned, unless the call in progress entered it.
LEMMA WhoIsEntered ==
    ASSUME IInv, NEW f \in Fd, NEW o \in Obj, objs[f] = o, status[o] # "opening"
    PROVE  status[o] \in {"returned", "closed"} /\ Entered(o)
<1>1. Settled(o) /\ status[o] \in {"none", "returned", "failed", "closed"}
  BY DEF IInv, TypeOK
<1>2. ~ NotEntered(o)  BY DEF NotEntered
<1>. QED  BY <1>1, <1>2 DEF Settled

\* What the end of iu_obj_load does to a load that failed: its iu_obj goes.
LEMMA LoadFailedStep == IInv /\ iu_obj_load /\ ret < 0 => IInv'
<1>. SUFFICES ASSUME IInv, iu_obj_load, ret < 0 PROVE IInv'  OBVIOUS
<1>. DEFINE S == OfIuObj(cur)
<1>1. /\ pc = "end" /\ pc' = "finish" /\ todo' = {}
      /\ UNCHANGED <<bpf, status, cur, ret, objs>>
  BY DEF iu_obj_load
<1>2. /\ TypeOK /\ cur \in Obj /\ Loading(cur) /\ cur # NULL
      /\ iu \in [Obj -> IuType]
      /\ iu[cur] \in IuType /\ bpf[cur] \in BpfType /\ fdt[1] = App /\ ~ stray
      /\ fdt \in [Fd -> DescType]
  BY <1>1, CurTypes
<1>3. Close(S) /\ iu' = [iu EXCEPT ![cur] = NoIu]
  BY <1>2 DEF iu_obj_load
<1>4. /\ Agree(cur) /\ NotEntered(cur) /\ MapsOpen(cur) /\ ElfOpen(cur)
      /\ Reaches(cur)
      /\ Closable(iu[cur].prog_fd, Desc("base", cur, NULL))
      /\ \A p \in Prog : Closable(bpf[cur].instances[p], Desc("prog", cur, p))
  BY <1>1, <1>2 DEF Loading
<1>5. \A d \in S : d[1] \in Fd => fdt[d[1]] \in {Free, d[2]}
  BY <1>4, FdTypes DEF Agree, MapsOpen, Open, Closable, OfIuObj
<1>6. \A d \in S : d[2].obj = cur /\ d[2].kind \in {"map", "base"}
  BY <1>2, DescTypes DEF Kind, OfIuObj
<1>17. /\ \A m \in Map : \E d \in S : d[1] = iu[cur].map_fd[m]
       /\ \E d \in S : d[1] = iu[cur].prog_fd
  <2>1. /\ \A m \in Map : <<iu[cur].map_fd[m], Desc("map", cur, m)>> \in S
        /\ <<iu[cur].prog_fd, Desc("base", cur, NULL)>> \in S
    BY DEF OfIuObj
  <2>. USE <2>1
  <2>. HIDE DEF S
  <2>2. \A m \in Map : \E d \in S : d[1] = iu[cur].map_fd[m]
    <3>. SUFFICES ASSUME NEW m \in Map PROVE \E d \in S : d[1] = iu[cur].map_fd[m]
      OBVIOUS
    <3>. WITNESS <<iu[cur].map_fd[m], Desc("map", cur, m)>> \in S
    <3>. QED  OBVIOUS
  <2>3. \E d \in S : d[1] = iu[cur].prog_fd
    <3>. WITNESS <<iu[cur].prog_fd, Desc("base", cur, NULL)>> \in S
    <3>. QED  OBVIOUS
  <2>. QED  BY <2>2, <2>3
<1>. HIDE DEF S
<1>7. /\ stray' = stray /\ fdt' \in [Fd -> DescType]
      /\ \A f \in Fd : \/ fdt'[f] = fdt[f] /\ \A d \in S : d[1] # f
                       \/ fdt'[f] = Free /\ \E d \in S : d[1] = f
      /\ \A f \in Fd : fdt'[f] # fdt[f] =>
            \E d \in S : d[1] = f /\ fdt[f] = d[2]
  BY <1>2, <1>3, <1>5, CloseOwn
<1>8. \A f \in Fd : fdt'[f] # fdt[f] =>
         fdt'[f] = Free /\ fdt[f].obj = cur /\ fdt[f].kind \in {"map", "base"}
  BY <1>6, <1>7
<1>9. /\ iu' \in [Obj -> IuType] /\ iu'[cur] = NoIu
      /\ \A o \in Obj \ {cur} : iu'[o] = iu[o]
  BY <1>2, <1>3, NoneTypes
<1>10. TypeOK'  BY <1>1, <1>2, <1>7, <1>9 DEF TypeOK, DescType, IuType
<1>11. fdt'[1] = fdt[1] /\ Free.obj = NULL
  BY <1>2, <1>8, FdTypes, DescTypes
<1>12. /\ \A m \in Map : Closable(bpf[cur].map_fd[m], Desc("map", cur, m))'
       /\ \A p \in Prog : Closable(bpf[cur].instances[p], Desc("prog", cur, p))'
  <2>1. \A m \in Map : bpf[cur].map_fd[m] \in Fd \cup {NOFD}  BY <1>2 DEF BpfType
  <2>2. \A p \in Prog : bpf[cur].instances[p] \in Fd \cup {NOFD}  BY <1>2 DEF BpfType
  <2>3. \A m \in Map : Closable(bpf[cur].map_fd[m], Desc("map", cur, m))'
    BY <2>1, <1>1, <1>4, <1>7 DEF MapsOpen, Open, Closable
  <2>4. \A p \in Prog : Closable(bpf[cur].instances[p], Desc("prog", cur, p))'
    BY <2>2, <1>1, <1>4, <1>7 DEF Closable
  <2>. QED  BY <2>3, <2>4
<1>13. ElfOpen(cur)'
  <2>1. bpf[cur].efile \in Fd \cup {NOFD}  BY <1>2 DEF BpfType
  <2>2. Desc("elf", cur, NULL).kind = "elf"  BY DEF Desc
  <2>. QED  BY <2>1, <2>2, <1>1, <1>4, <1>8 DEF ElfOpen, Open
<1>14. Reaches(cur)'
  <2>. SUFFICES ASSUME NEW g \in Fd, fdt'[g].obj = cur PROVE Reached(cur, g)'
    BY <1>1 DEF Reaches
  <2>1. /\ fdt'[g] = fdt[g] /\ Reached(cur, g) /\ \A d \in S : d[1] # g
    BY <1>2, <1>4, <1>7, <1>11 DEF Reaches
  <2>2. iu[cur].prog_fd # g /\ \A m \in Map : bpf[cur].map_fd[m] # g
    BY <2>1, <1>4, <1>17 DEF Agree
  <2>. QED  BY <2>1, <2>2, <1>1 DEF Reached
<1>15. NotEntered(cur)'  BY <1>1, <1>4 DEF NotEntered
<1>16. Finishing(cur)'
  BY <1>1, <1>9, <1>12, <1>13, <1>14, <1>15 DEF Finishing
<1>. QED
  BY <1>1, <1>2, <1>7, <1>8, <1>9, <1>10, <1>11, <1>16, InCall

\* How a load is once it is entered.
LEMMA EnteredFinishes ==
    ASSUME TypeOK, cur \in Obj, Owner(cur), NotEntered(cur), ret \in Fd, ~ (ret < 0),
           \/ ret = 1 /\ Bare(cur)
           \/ ret = iu[cur].prog_fd /\ Whole(cur) /\ bpf[cur].loaded,
           objs' = [objs EXCEPT ![ret] = cur],
           iu'[cur] = iu[cur], UNCHANGED <<fdt, bpf, cur, ret>>
    PROVE  Finishing(cur)'
<1>1. Owner(cur)'
  BY DEF Owner, Agree, Reaches, Reached, MapsOpen, ProgsOpen, BaseOpen, ElfOpen, Open
<1>2. \A f \in Fd : objs'[f] = cur => f = ret
  BY DEF TypeOK, NotEntered
<1>3. objs'[ret] = cur  BY DEF TypeOK
<1>4. CASE ret = 1 /\ Bare(cur)
  <2>1. Entered(cur)'  BY <1>2, <1>4 DEF Entered, Bare, Agree
  <2>2. Complete(cur)' /\ Only(cur, {"elf"})'  BY <1>4 DEF Complete, Bare, Only
  <2>. QED  BY <2>1, <2>2, <1>1 DEF Finishing
<1>5. CASE ret = iu[cur].prog_fd /\ Whole(cur) /\ bpf[cur].loaded
  <2>1. Entered(cur)'
    BY <1>2, <1>5, FdTypes DEF Entered, Owner, BaseOpen, Open
  <2>2. Complete(cur)'
    BY <1>3, <1>5 DEF Complete, Whole, MapsCreated
  <2>. QED  BY <2>1, <2>2, <1>1, <1>5 DEF Finishing
<1>. QED  BY <1>4, <1>5

\* The iu_obj of a load is entered in objs, where it may take another's place.
LEMMA LoadEnteredStep == IInv /\ iu_obj_load /\ ret >= 0 => IInv'
<1>. SUFFICES ASSUME IInv, iu_obj_load, ret >= 0 PROVE IInv'  OBVIOUS
<1>1. /\ pc = "end" /\ pc' = "finish" /\ todo' = {}
      /\ UNCHANGED <<bpf, status, cur, ret>>
  BY DEF iu_obj_load
<1>2. /\ TypeOK /\ cur \in Obj /\ Loading(cur) /\ cur # NULL
      /\ iu \in [Obj -> IuType] /\ status[cur] = "opening"
      /\ iu[cur] \in IuType /\ bpf[cur] \in BpfType /\ fdt[1] = App /\ ~ stray
      /\ fdt \in [Fd -> DescType]
  BY <1>1, CurTypes
<1>3. ~ (ret < 0)  BY <1>2 DEF TypeOK, Fd
<1>4. /\ Owner(cur) /\ NotEntered(cur)
      /\ \/ ret = 1 /\ Bare(cur)
         \/ ret = iu[cur].prog_fd /\ Whole(cur) /\ bpf[cur].loaded
  BY <1>1, <1>2, <1>3 DEF Loading, Owner
<1>5. ret \in Fd
  BY <1>2, <1>4, FdTypes DEF Whole, IuType
<1>6. /\ objs \in [Fd -> Obj \cup {NULL}]
      /\ objs' = [objs EXCEPT ![ret] = cur]
      /\ objs[ret] # NULL => Close(OfIuObj(objs[ret])) /\ iu' = [iu EXCEPT ![objs[ret]] = NoIu]
      /\ objs[ret] = NULL => UNCHANGED <<fdt, iu, stray>>
  BY <1>2, <1>3 DEF iu_obj_load, TypeOK
<1>7. CASE objs[ret] = NULL
  <2>1. TypeOK'  BY <1>1, <1>2, <1>6, <1>7 DEF TypeOK
  <2>2. Finishing(cur)'  BY <2>1, <1>1, <1>2, <1>3, <1>4, <1>5, <1>6, <1>7, EnteredFinishes
  <2>3. \A f \in Fd : objs'[f] = objs[f] \/ {objs[f], objs'[f]} \subseteq {cur, NULL}
    BY <1>5, <1>6, <1>7
  <2>. QED  BY <2>1, <2>2, <2>3, <1>1, <1>2, <1>6, <1>7, InCall
<1>8. CASE objs[ret] # NULL
  <2>1. PICK gone \in Obj \ {cur} : objs[ret] = gone
    BY <1>4, <1>5, <1>6, <1>8 DEF NotEntered
  <2>2. status[gone] # "opening"  BY <2>1, <1>1 DEF IInv, Call
  <2>3. status[gone] \in {"returned", "closed"} /\ Entered(gone) /\ Settled(gone)
    BY <2>1, <2>2, <1>5, WhoIsEntered DEF IInv
  <2>4. ret = 1
    <3>1. CASE fdt[ret] = Desc("base", gone, NULL)
      <4>1. fdt[ret] # Desc("base", cur, NULL)  BY <3>1, <2>1 DEF Desc
      <4>2. ret = iu[cur].prog_fd => fdt[ret] = Desc("base", cur, NULL)
        BY <1>4, <1>5, FdTypes DEF Owner, BaseOpen, Open
      <4>. QED  BY <4>1, <4>2, <1>4
    <3>. QED  BY <3>1, <2>1, <2>3, <1>5 DEF Entered
  <2>5. iu[gone].prog_fd = NOFD /\ \A m \in Map : iu[gone].map_fd[m] = NOFD
    <3>1. fdt[1] # Desc("base", gone, NULL)  BY <1>2 DEF Desc, App
    <3>. QED  BY <3>1, <2>1, <2>3, <2>4, <1>5 DEF Entered
  <2>6. stray' = stray /\ fdt' = fdt
    <3>1. Close(OfIuObj(gone))  BY <2>1, <1>6, <1>8
    <3>2. \A d \in OfIuObj(gone) : d[1] \notin Fd
      BY <2>5, FdTypes DEF OfIuObj
    <3>3. /\ stray' = stray /\ fdt' \in [Fd -> DescType]
          /\ \A f \in Fd : fdt'[f] = fdt[f]
      BY <3>1, <3>2, <1>2, CloseOwn
    <3>. QED  BY <3>3, <1>2
  <2>7. /\ iu' \in [Obj -> IuType] /\ iu'[gone] = NoIu
        /\ \A o \in Obj \ {gone} : iu'[o] = iu[o]
    BY <2>1, <1>2, <1>6, <1>8, NoneTypes
  <2>8. TypeOK'  BY <2>6, <2>7, <1>1, <1>2, <1>5, <1>6 DEF TypeOK, IuType
  <2>9. Finishing(cur)'
    BY <2>1, <2>6, <2>7, <2>8, <1>1, <1>2, <1>3, <1>4, <1>5, <1>6, EnteredFinishes
  <2>10. Settled(gone)'
    <3>1. \A f \in Fd : objs'[f] = gone => objs[f] = gone /\ f # 1
      BY <2>1, <2>4, <1>5, <1>6
    <3>2. Entered(gone)'  BY <3>1, <2>3, <2>5, <2>6 DEF Entered
    <3>3. CASE status[gone] = "closed"
      BY <3>2, <3>3, <2>3, <2>5, <2>6, <2>7, <1>1, FdTypes DEF Settled
    <3>4. CASE status[gone] = "returned"
      <4>1. Owner(gone) /\ Complete(gone) /\ (~ bpf[gone].loaded => Only(gone, {}))
        BY <3>4, <2>3 DEF Settled
      <4>2. ~ bpf[gone].loaded  BY <4>1, <2>5 DEF Complete, Whole
      <4>3. Only(gone, {})  BY <4>1, <4>2
      <4>4. \A p \in Prog : bpf[gone].instances[p] = NOFD
        <5>. SUFFICES ASSUME NEW p \in Prog, bpf[gone].instances[p] # NOFD PROVE FALSE
          OBVIOUS
        <5>1. bpf[gone].instances[p] \in Fd
          BY <2>1, <1>2 DEF TypeOK
        <5>2. fdt[bpf[gone].instances[p]].obj = gone
          BY <4>1, DescTypes DEF Owner, ProgsOpen, Open, Kind
        <5>. QED  BY <5>1, <5>2, <4>3 DEF Only
      <4>5. /\ iu[gone].map_fd = NoIu.map_fd /\ iu[gone].fd = NoIu.fd
        BY <4>1, <4>4, <2>1, <2>5, <1>2 DEF Owner, Agree, NoIu, IuType
      <4>6. Owner(gone)'
        <5>1. Agree(gone)'  BY <4>1, <4>5, <2>7, <1>1 DEF Owner, Agree
        <5>2. Reaches(gone)'  BY <4>3, <2>6 DEF Only, Reaches
        <5>3. BaseOpen(gone)'  BY <2>7 DEF NoIu, BaseOpen, Open
        <5>4. MapsOpen(gone)' /\ ProgsOpen(gone)' /\ ElfOpen(gone)'
          BY <4>1, <2>6, <1>1 DEF Owner, MapsOpen, ProgsOpen, ElfOpen, Open
        <5>. QED  BY <5>1, <5>2, <5>3, <5>4 DEF Owner
      <4>7. Complete(gone)' /\ Only(gone, {})'
        BY <4>2, <4>3, <2>6, <1>1 DEF Complete, Only
      <4>. QED  BY <4>6, <4>7, <3>2, <3>4, <1>1 DEF Settled
    <3>. QED  BY <3>3, <3>4, <2>3
  <2>11. ASSUME NEW o \in Obj PROVE Settled(o)'
    <3>1. CASE o = cur  BY <3>1, <1>1, <1>2 DEF Settled
    <3>2. CASE o = gone  BY <3>2, <2>10
    <3>3. CASE o # cur /\ o # gone
      <4>1. \A f \in Fd : objs'[f] = objs[f] \/ (objs[f] # o /\ objs'[f] # o)
        BY <3>3, <2>1, <1>5, <1>6
      <4>. QED  BY <4>1, <3>3, <2>6, <2>7, <1>1, <1>2, Elsewhere DEF IInv
    <3>. QED  BY <3>1, <3>2, <3>3
  <2>12. Call'
    BY <2>9, <1>1, <1>2 DEF IInv, Call
  <2>. QED  BY <2>6, <2>8, <2>11, <2>12, <1>2 DEF IInv
<1>. QED  BY <1>7, <1>8

-----------------------------------------------------------------------------
(* The end of iu_object__open, and the application, keep the invariant.    *)

\* A step that concerns one load, and after which none is in progress.
LEMMA AtRest ==
    ASSUME IInv, TypeOK', NEW c \in Obj, pc' = "idle", stray' = stray,
           fdt'[1] = fdt[1], Settled(c)', status'[c] # "opening",
           \A o \in Obj \ {c} :
              /\ status'[o] = status[o] /\ status[o] # "opening"
              /\ iu'[o] = iu[o] /\ bpf'[o] = bpf[o],
           \A f \in Fd : \/ fdt'[f] = fdt[f]
                         \/ fdt[f].obj \in {c, NULL} /\ fdt'[f].obj \in {c, NULL},
           \A f \in Fd : objs'[f] = objs[f] \/ {objs[f], objs'[f]} \subseteq {c, NULL}
    PROVE  IInv'
<1>1. Call'  BY DEF Call
<1>2. ASSUME NEW o \in Obj PROVE Settled(o)'
  <2>1. CASE o = c  BY <2>1
  <2>2. CASE o # c
    <3>1. o # NULL  BY LoaderAssumption
    <3>. QED  BY <2>2, <3>1, Elsewhere DEF IInv
  <2>. QED  BY <2>1, <2>2
<1>. QED  BY <1>1, <1>2 DEF IInv

\* The loaded object is returned without its ELF file.
LEMMA ElfFinishStep == IInv /\ elf_finish => IInv'
<1>. SUFFICES ASSUME IInv, elf_finish PROVE IInv'  OBVIOUS
<1>1. PICK c \in Obj : c = cur  BY CurTypes DEF elf_finish
<1>. DEFINE S == {<<bpf[c].efile, Desc("elf", c, NULL)>>}
<1>2. /\ pc = "finish" /\ pc' = "idle" /\ cur' = NULL /\ ret' = 0 /\ ~ (ret < 0)
      /\ Close(S) /\ bpf' = [bpf EXCEPT ![c].efile = NOFD]
      /\ status' = [status EXCEPT ![c] = "returned"]
      /\ UNCHANGED <<iu, objs, todo>>
  BY <1>1, CurTypes DEF elf_finish, TypeOK, Fd
<1>3. /\ TypeOK /\ c # NULL /\ bpf \in [Obj -> BpfType]
      /\ iu[c] \in IuType /\ bpf[c] \in BpfType /\ fdt[1] = App /\ ~ stray
      /\ fdt \in [Fd -> DescType]
      /\ Owner(c) /\ Entered(c) /\ Complete(c) /\ (~ bpf[c].loaded => Only(c, {"elf"}))
  BY <1>1, <1>2, CurTypes DEF Finishing
<1>4. /\ bpf'[c] \in BpfType /\ bpf'[c].efile = NOFD
      /\ bpf'[c].instances = bpf[c].instances
      /\ bpf'[c].map_fd = bpf[c].map_fd /\ bpf'[c].loaded = bpf[c].loaded
  BY <1>2, <1>3, Zenon DEF BpfType
<1>5. bpf' \in [Obj -> BpfType] /\ \A o \in Obj \ {c} : bpf'[o] = bpf[o]
  BY <1>2, <1>3, <1>4, Zenon
<1>6. \A d \in S : d[1] \in Fd => fdt[d[1]] = d[2]
  BY <1>3, FdTypes DEF Owner, ElfOpen, Open
<1>7. /\ stray' = stray /\ fdt' \in [Fd -> DescType]
      /\ \A f \in Fd : \/ fdt'[f] = fdt[f] /\ bpf[c].efile # f
                       \/ fdt'[f] = Free /\ bpf[c].efile = f
                          /\ fdt[f] = Desc("elf", c, NULL)
  <2>1. /\ stray' = stray /\ fdt' \in [Fd -> DescType]
        /\ \A f \in Fd : \/ fdt'[f] = fdt[f] /\ \A d \in S : d[1] # f
                         \/ fdt'[f] = Free /\ \E d \in S : d[1] = f
    BY <1>2, <1>3, <1>6, CloseOwn
  <2>. QED  BY <2>1, <1>6
<1>8. /\ Desc("elf", c, NULL).obj = c /\ Desc("elf", c, NULL).kind = "elf"
      /\ Free.obj = NULL /\ App.obj = NULL
  BY DescTypes DEF Kind
<1>9. TypeOK'
  BY <1>2, <1>3, <1>5, <1>7, FdTypes DEF TypeOK, DescType, BpfType
<1>10. fdt'[1] = fdt[1]  BY <1>3, <1>7, <1>8, FdTypes
<1>11. Owner(c)'
  <2>1. \A f \in Fd, k \in {"map", "prog", "base"}, i \in Map \cup Prog \cup {NULL} :
           fdt[f] = Desc(k, c, i) => fdt'[f] = Desc(k, c, i)
    BY <1>7 DEF Desc
  <2>2. \A m \in Map : bpf[c].map_fd[m] \in Fd \cup {NOFD}  BY <1>3 DEF BpfType
  <2>3. \A p \in Prog : bpf[c].instances[p] \in Fd \cup {NOFD}  BY <1>3 DEF BpfType
  <2>4. iu[c].prog_fd \in Fd \cup {NOFD}  BY <1>3 DEF IuType
  <2>5. MapsOpen(c)'
    BY <1>3, <1>4, <2>1, <2>2 DEF Owner, MapsOpen, Open
  <2>6. ProgsOpen(c)'
    BY <1>3, <1>4, <2>1, <2>3 DEF Owner, ProgsOpen, Open
  <2>7. BaseOpen(c)' /\ ElfOpen(c)'
    BY <1>2, <1>3, <1>4, <2>1, <2>4 DEF Owner, BaseOpen, ElfOpen, Open
  <2>8. Agree(c)'  BY <1>2, <1>3, <1>4 DEF Owner, Agree
  <2>9. Reaches(c)'
    <3>. SUFFICES ASSUME NEW g \in Fd, fdt'[g].obj = c PROVE Reached(c, g)'
      BY DEF Reaches
    <3>1. fdt'[g] = fdt[g] /\ Reached(c, g) /\ bpf[c].efile # g
      BY <1>3, <1>7, <1>8 DEF Owner, Reaches
    <3>. QED  BY <3>1, <1>2, <1>4 DEF Reached
  <2>. QED  BY <2>5, <2>6, <2>7, <2>8, <2>9 DEF Owner
<1>12. Entered(c)' /\ Complete(c)'
  <2>1. \A f \in Fd : fdt[f] = Desc("base", c, NULL) => fdt'[f] = fdt[f]
    BY <1>7 DEF Desc
  <2>2. Entered(c)'  BY <2>1, <1>2, <1>3 DEF Entered
  <2>3. Complete(c)'  BY <1>2, <1>3, <1>4 DEF Complete, Whole, MapsCreated
  <2>. QED  BY <2>2, <2>3
<1>13. ~ bpf'[c].loaded => Only(c, {})'
  <2>. SUFFICES ASSUME ~ bpf'[c].loaded, NEW f \in Fd, fdt'[f].obj = c PROVE FALSE
    BY DEF Only
  <2>1. fdt'[f] = fdt[f] /\ bpf[c].efile # f  BY <1>3, <1>7, <1>8
  <2>2. fdt[f].kind = "elf"  BY <2>1, <1>3, <1>4 DEF Only
  <2>3. Reached(c, f)  BY <2>1, <1>3 DEF Owner, Reaches
  <2>4. \A k, i : Desc(k, c, i).kind = k  BY DEF Desc
  <2>. QED  BY <2>1, <2>2, <2>3, <2>4 DEF Reached
<1>14. status \in [Obj -> {"none", "opening", "returned", "failed", "closed"}]
       /\ \A o \in Obj \ {c} : status[o] # "opening"
  BY <1>1, <1>2, <1>3 DEF TypeOK, IInv, Call
<1>15. Settled(c)'
  BY <1>2, <1>11, <1>12, <1>13, <1>14 DEF Settled
<1>. QED
  BY <1>2, <1>3, <1>5, <1>7, <1>8, <1>9, <1>10, <1>14, <1>15, AtRest

\* A load that failed is closed with all that bpf_object keeps.
LEMMA OpenReturnsNullStep == IInv /\ OpenReturnsNull => IInv'
<1>. SUFFICES ASSUME IInv, OpenReturnsNull PROVE IInv'  OBVIOUS
<1>1. PICK c \in Obj : c = cur  BY CurTypes DEF OpenReturnsNull
<1>. DEFINE S == OfBpfObject(c)
<1>2. /\ pc = "finish" /\ pc' = "idle" /\ cur' = NULL /\ ret' = 0 /\ ret < 0
      /\ Close(S) /\ bpf' = [bpf EXCEPT ![c] = NoBpf]
      /\ status' = [status EXCEPT ![c] = "failed"]
      /\ UNCHANGED <<iu, objs, todo>>
  BY <1>1 DEF OpenReturnsNull
<1>3. /\ TypeOK /\ c # NULL /\ bpf \in [Obj -> BpfType]
      /\ iu[c] \in IuType /\ bpf[c] \in BpfType /\ fdt[1] = App /\ ~ stray
      /\ fdt \in [Fd -> DescType] /\ Finishing(c)
  BY <1>1, <1>2, CurTypes
<1>4. /\ iu[c] = NoIu /\ NotEntered(c) /\ Reaches(c) /\ ElfOpen(c)
      /\ \A m \in Map : Closable(bpf[c].map_fd[m], Desc("map", c, m))
      /\ \A p \in Prog : Closable(bpf[c].instances[p], Desc("prog", c, p))
  BY <1>2, <1>3 DEF Finishing
<1>5. \A d \in S : d[1] \in Fd => fdt[d[1]] \in {Free, d[2]}
  BY <1>4, FdTypes DEF ElfOpen, Open, Closable, OfBpfObject
<1>6. \A d \in S : d[2].obj = c  BY DescTypes DEF Kind, OfBpfObject
<1>7. /\ \A m \in Map : <<bpf[c].map_fd[m], Desc("map", c, m)>> \in S
      /\ \A p \in Prog : <<bpf[c].instances[p], Desc("prog", c, p)>> \in S
      /\ <<bpf[c].efile, Desc("elf", c, NULL)>> \in S
  BY DEF OfBpfObject
<1>. HIDE DEF S
<1>8. /\ stray' = stray /\ fdt' \in [Fd -> DescType]
      /\ \A f \in Fd : \/ fdt'[f] = fdt[f] /\ \A d \in S : d[1] # f
                       \/ fdt'[f] = Free /\ \E d \in S : d[1] = f
      /\ \A f \in Fd : fdt'[f] # fdt[f] => fdt[f].obj = c
  BY <1>2, <1>3, <1>5, <1>6, CloseOwn
<1>9. Free.obj = NULL /\ App.obj = NULL  BY DescTypes
<1>10. bpf' \in [Obj -> BpfType] /\ \A o \in Obj \ {c} : bpf'[o] = bpf[o]
  BY <1>2, <1>3, NoneTypes
<1>11. TypeOK'
  BY <1>2, <1>3, <1>8, <1>10, FdTypes DEF TypeOK, DescType, BpfType
<1>12. fdt'[1] = fdt[1]  BY <1>3, <1>8, <1>9, FdTypes
<1>13. Only(c, {"rust"})'
  <2>. SUFFICES ASSUME NEW f \in Fd, fdt'[f].obj = c PROVE fdt'[f].kind = "rust"
    BY DEF Only
  <2>1. fdt'[f] = fdt[f] /\ (\A d \in S : d[1] # f) /\ Reached(c, f)
    BY <1>3, <1>4, <1>8, <1>9 DEF Reaches
  <2>2. /\ \A m \in Map : bpf[c].map_fd[m] # f
        /\ \A p \in Prog : bpf[c].instances[p] # f
        /\ bpf[c].efile # f
    BY <2>1, <1>7
  <2>3. iu[c].prog_fd # f  BY <1>4, FdTypes DEF NoIu
  <2>. QED  BY <2>1, <2>2, <2>3 DEF Reached
<1>14. NotEntered(c)'  BY <1>2, <1>4 DEF NotEntered
<1>15. status \in [Obj -> {"none", "opening", "returned", "failed", "closed"}]
       /\ \A o \in Obj \ {c} : status[o] # "opening"
  BY <1>1, <1>2, <1>3 DEF TypeOK, IInv, Call
<1>16. Settled(c)'  BY <1>2, <1>13, <1>14, <1>15 DEF Settled
<1>. QED
  BY <1>2, <1>3, <1>8, <1>9, <1>10, <1>11, <1>12, <1>15, <1>16, AtRest

\* The first step of a call: the file is opened, or not.
LEMMA OpenStarts == ASSUME IInv, NEW o \in Obj, iu_object__open(o) PROVE IInv'
<1>1. /\ pc = "idle" /\ status[o] = "none" /\ pc' = "parse" /\ cur' = o
      /\ status' = [status EXCEPT ![o] = "opening"]
      /\ UNCHANGED <<iu, objs, todo, ret, stray>>
  BY DEF iu_object__open
<1>2. /\ TypeOK /\ Settled(o) /\ fdt[1] = App /\ ~ stray
      /\ bpf \in [Obj -> BpfType] /\ fdt \in [Fd -> DescType]
      /\ status \in [Obj -> {"none", "opening", "returned", "failed", "closed"}]
      /\ \A q \in Obj : status[q] # "opening" /\ Settled(q)
  BY <1>1 DEF IInv, TypeOK, BpfType, DescType, Call
<1>3. iu[o] = NoIu /\ bpf[o] = NoBpf /\ NotEntered(o) /\ Only(o, {})
  BY <1>1, <1>2 DEF Settled
<1>4. o # NULL /\ Free.obj = NULL /\ Desc("elf", o, NULL) \in DescType
      /\ Desc("elf", o, NULL).obj = o /\ Desc("elf", o, NULL).kind = "elf"
  BY LoaderAssumption, DescTypes DEF Kind
<1>5. /\ NoIu.map_fd = NoBpf.map_fd /\ NoIu.fd = NoBpf.instances
      /\ NoIu.prog_fd = NOFD /\ ~ NoBpf.loaded /\ NoBpf.efile = NOFD
      /\ \A m \in Map : NoBpf.map_fd[m] = NOFD
      /\ \A p \in Prog : NoBpf.instances[p] = NOFD
  BY DEF NoIu, NoBpf
<1>6. CASE UNCHANGED <<fdt, bpf>>
  <2>1. TypeOK'  BY <1>1, <1>2, <1>6 DEF TypeOK
  <2>2. Bare(o)'
    BY <1>1, <1>3, <1>5, <1>6 DEF Bare, Agree, Only, NoProg
  <2>3. Loading(o)'
    BY <2>2, <1>1, <1>3, <1>5, <1>6 DEF Loading, Bare, Only, Agree, Reaches,
       NotEntered, MapsOpen, ElfOpen, ProgsOpen, BaseOpen, Open, NoProg
  <2>4. Call'  BY <2>3, <1>1, <1>2 DEF Call
  <2>5. ASSUME NEW q \in Obj PROVE Settled(q)'
    <3>1. CASE q = o  BY <3>1, <1>1, <1>2 DEF Settled
    <3>2. CASE q # o  BY <3>2, <1>1, <1>2, <1>6, Elsewhere
    <3>. QED  BY <3>1, <3>2
  <2>. QED  BY <2>1, <2>4, <2>5, <1>1, <1>2, <1>6 DEF IInv
<1>7. ASSUME NEW f \in Fd, Opened(f, Desc("elf", o, NULL)),
             bpf' = [bpf EXCEPT ![o].efile = f]
      PROVE  IInv'
  <2>1. /\ bpf'[o] \in BpfType /\ bpf'[o].efile = f
        /\ bpf'[o].instances = bpf[o].instances
        /\ bpf'[o].map_fd = bpf[o].map_fd /\ bpf'[o].loaded = bpf[o].loaded
    BY <1>2, <1>7, Zenon DEF BpfType
  <2>2. bpf' \in [Obj -> BpfType] /\ \A q \in Obj \ {o} : bpf'[q] = bpf[q]
    BY <1>2, <1>7, <2>1, Zenon
  <2>3. /\ fdt' \in [Fd -> DescType] /\ fdt[f] = Free
        /\ fdt'[f] = Desc("elf", o, NULL)
        /\ fdt'[1] = App /\ \A g \in Fd : g # f => fdt'[g] = fdt[g]
    BY <1>2, <1>4, <1>7, OpenedFd
  <2>4. TypeOK'  BY <1>1, <1>2, <2>2, <2>3 DEF TypeOK, DescType, BpfType
  <2>5. \A g \in Fd : fdt'[g].obj = o => g = f
    BY <2>3, <1>3 DEF Only
  <2>6. Bare(o)'
    BY <2>1, <2>3, <2>5, <1>1, <1>3, <1>4, <1>5 DEF Bare, Agree, Only, NoProg
  <2>7. Loading(o)'
    <3>1. Reaches(o)'  BY <2>1, <2>3, <2>5 DEF Reaches, Reached
    <3>2. ElfOpen(o)'  BY <2>1, <2>3 DEF ElfOpen, Open
    <3>3. MapsOpen(o)' /\ ProgsOpen(o)' /\ BaseOpen(o)'
      BY <2>6 DEF Bare, NoProg, MapsOpen, ProgsOpen, BaseOpen, Open
    <3>4. Agree(o)' /\ NotEntered(o)'  BY <2>6, <1>1, <1>3 DEF Bare, NotEntered
    <3>. QED  BY <3>1, <3>2, <3>3, <3>4, <2>6, <1>1 DEF Loading
  <2>8. Call'  BY <2>7, <1>1, <1>2 DEF Call
  <2>9. ASSUME NEW q \in Obj PROVE Settled(q)'
    <3>1. CASE q = o  BY <3>1, <1>1, <1>2 DEF Settled
    <3>2. CASE q # o
      <4>1. \A g \in Fd : fdt'[g] = fdt[g] \/ (fdt[g].obj # q /\ fdt'[g].obj # q)
        <5>1. q # NULL  BY LoaderAssumption
        <5>. QED  BY <5>1, <3>2, <2>3, <1>4
      <4>. QED  BY <4>1, <3>2, <1>1, <1>2, <2>2, Elsewhere
    <3>. QED  BY <3>1, <3>2
  <2>. QED  BY <2>3, <2>4, <2>8, <2>9, <1>1, <1>2 DEF IInv
<1>. QED  BY <1>6, <1>7, Zenon DEF iu_object__open

\* A call that fails before it begins.
LEMMA OpenFailsStep == ASSUME IInv, NEW o \in Obj, OpenFails(o) PROVE IInv'
<1>1. /\ pc = "idle" /\ status[o] = "none"
      /\ status' = [status EXCEPT ![o] = "failed"]
      /\ UNCHANGED <<fdt, iu, bpf, objs, pc, cur, todo, ret, stray>>
  BY DEF OpenFails
<1>2. /\ TypeOK /\ Settled(o) /\ \A q \in Obj : status[q] # "opening"
      /\ status \in [Obj -> {"none", "opening", "returned", "failed", "closed"}]
  BY <1>1 DEF IInv, Call, TypeOK
<1>3. TypeOK'  BY <1>1, <1>2 DEF TypeOK
<1>4. NotEntered(o) /\ Only(o, {})  BY <1>1, <1>2 DEF Settled
<1>5. Settled(o)'  BY <1>1, <1>2, <1>4 DEF Settled, NotEntered, Only
<1>. QED  BY <1>1, <1>2, <1>3, <1>5, AtRest

\* The application closes the bpf_object: the base program stays.
LEMMA CloseBpfStep == ASSUME IInv, NEW o \in Obj, bpf_object__close(o) PROVE IInv'
<1>. DEFINE S == OfBpfObject(o)
<1>1. /\ pc = "idle" /\ status[o] = "returned" /\ Close(S)
      /\ bpf' = [bpf EXCEPT ![o] = NoBpf]
      /\ status' = [status EXCEPT ![o] = "closed"]
      /\ UNCHANGED <<iu, objs, pc, cur, todo, ret>>
  BY DEF bpf_object__close
<1>2. /\ TypeOK /\ Settled(o) /\ fdt[1] = App /\ \A q \in Obj : status[q] # "opening"
      /\ bpf \in [Obj -> BpfType] /\ fdt \in [Fd -> DescType] /\ o # NULL
      /\ status \in [Obj -> {"none", "opening", "returned", "failed", "closed"}]
  BY <1>1, LoaderAssumption DEF IInv, TypeOK, BpfType, DescType, Call
<1>3. Owner(o) /\ Entered(o)  BY <1>1, <1>2 DEF Settled
<1>4. \A d \in S : d[1] \in Fd => fdt[d[1]] = d[2]
  BY <1>3, FdTypes DEF Owner, MapsOpen, ProgsOpen, ElfOpen, Open, OfBpfObject
<1>5. \A d \in S : d[2].obj = o /\ d[2].kind # "base"
  BY DescTypes DEF Kind, OfBpfObject
<1>. HIDE DEF S
<1>6. /\ stray' = stray /\ fdt' \in [Fd -> DescType]
      /\ \A f \in Fd : \/ fdt'[f] = fdt[f] /\ \A d \in S : d[1] # f
                       \/ fdt'[f] = Free /\ \E d \in S : d[1] = f
      /\ \A f \in Fd : fdt'[f] # fdt[f] =>
            \E d \in S : d[1] = f /\ fdt[f] = d[2]
  BY <1>1, <1>2, <1>4, CloseOwn
<1>7. /\ \A f \in Fd : fdt'[f] # fdt[f] =>
            fdt'[f] = Free /\ fdt[f].obj = o /\ fdt[f].kind # "base"
      /\ Free.obj = NULL /\ App.obj = NULL
  BY <1>5, <1>6, DescTypes
<1>8. bpf' \in [Obj -> BpfType] /\ \A q \in Obj \ {o} : bpf'[q] = bpf[q]
  BY <1>1, <1>2, NoneTypes
<1>9. TypeOK'  BY <1>1, <1>2, <1>6, <1>8 DEF TypeOK, DescType, BpfType
<1>10. fdt'[1] = fdt[1]  BY <1>2, <1>7, FdTypes
<1>11. \A f \in Fd : fdt[f] = Desc("base", o, NULL) <=> fdt'[f] = Desc("base", o, NULL)
  BY <1>2, <1>7 DEF Desc, Free
<1>12. Entered(o)'  BY <1>1, <1>3, <1>11 DEF Entered
<1>13. \A f \in Fd : fdt[f] = Desc("base", o, NULL) => iu[o].prog_fd = f
  <2>1. \A k, i : Desc(k, o, i).kind = k /\ Desc(k, o, i).obj = o  BY DEF Desc
  <2>. QED  BY <2>1, <1>3 DEF Owner, Reaches, Reached
<1>14. Settled(o)'  BY <1>1, <1>2, <1>11, <1>12, <1>13 DEF Settled
<1>. QED
  BY <1>1, <1>2, <1>6, <1>7, <1>8, <1>9, <1>10, <1>14, AtRest

\* The application closes the iu_obj: the programs stay.
LEMMA CloseIuStep == ASSUME IInv, NEW b \in Fd, iu_obj_close(b) PROVE IInv'
<1>1. PICK o \in Obj : objs[b] = o
  BY DEF iu_obj_close, IInv, TypeOK
<1>. DEFINE S == OfIuObj(o)
<1>2. /\ pc = "idle" /\ status[o] = "returned" /\ Close(S)
      /\ iu' = [iu EXCEPT ![o] = NoIu] /\ objs' = [objs EXCEPT ![b] = NULL]
      /\ status' = [status EXCEPT ![o] = "closed"]
      /\ UNCHANGED <<bpf, pc, cur, todo, ret>>
  BY <1>1 DEF iu_obj_close
<1>3. /\ TypeOK /\ Settled(o) /\ fdt[1] = App /\ \A q \in Obj : status[q] # "opening"
      /\ iu \in [Obj -> IuType] /\ fdt \in [Fd -> DescType] /\ o # NULL
      /\ objs \in [Fd -> Obj \cup {NULL}]
      /\ status \in [Obj -> {"none", "opening", "returned", "failed", "closed"}]
  BY <1>2, LoaderAssumption DEF IInv, TypeOK, IuType, DescType, Call
<1>4. Owner(o) /\ Entered(o)  BY <1>2, <1>3 DEF Settled
<1>5. \A d \in S : d[1] \in Fd => fdt[d[1]] = d[2]
  BY <1>4, FdTypes DEF Owner, Agree, MapsOpen, BaseOpen, Open, OfIuObj
<1>6. \A d \in S : d[2].obj = o  BY DescTypes DEF Kind, OfIuObj
<1>7. <<iu[o].prog_fd, Desc("base", o, NULL)>> \in S  BY DEF OfIuObj
<1>. HIDE DEF S
<1>8. /\ stray' = stray /\ fdt' \in [Fd -> DescType]
      /\ \A f \in Fd : \/ fdt'[f] = fdt[f] /\ \A d \in S : d[1] # f
                       \/ fdt'[f] = Free /\ \E d \in S : d[1] = f
      /\ \A f \in Fd : fdt'[f] # fdt[f] => fdt[f].obj = o
  BY <1>2, <1>3, <1>5, <1>6, CloseOwn
<1>9. Free.obj = NULL /\ App.obj = NULL  BY DescTypes
<1>10. iu' \in [Obj -> IuType] /\ \A q \in Obj \ {o} : iu'[q] = iu[q]
  BY <1>2, <1>3, NoneTypes
<1>11. TypeOK'  BY <1>2, <1>3, <1>8, <1>10 DEF TypeOK, DescType, IuType
<1>12. fdt'[1] = fdt[1]  BY <1>3, <1>8, <1>9, FdTypes
<1>13. \A f \in Fd : fdt[f] = Desc("base", o, NULL) => iu[o].prog_fd = f
  <2>1. \A k, i : Desc(k, o, i).kind = k /\ Desc(k, o, i).obj = o  BY DEF Desc
  <2>. QED  BY <2>1, <1>4 DEF Owner, Reaches, Reached
<1>14. \A f \in Fd : fdt'[f] # Desc("base", o, NULL)
  <2>. SUFFICES ASSUME NEW f \in Fd, fdt'[f] = Desc("base", o, NULL) PROVE FALSE
    OBVIOUS
  <2>1. Desc("base", o, NULL) # Free  BY DEF Desc, Free
  <2>2. fdt[f] = Desc("base", o, NULL) /\ \A d \in S : d[1] # f  BY <2>1, <1>8
  <2>. QED  BY <2>2, <1>7, <1>13
<1>15. \A f \in Fd : objs[f] = o => f = b
  <2>1. Open(iu[o].prog_fd, Desc("base", o, NULL))  BY <1>4 DEF Owner, BaseOpen
  <2>2. \A f \in Fd : objs[f] = o => iu[o].prog_fd = f \/ (f = 1 /\ iu[o].prog_fd = NOFD)
    BY <1>4, <1>13 DEF Entered
  <2>. QED  BY <2>2, <1>1, FdTypes
<1>16. Entered(o)'  BY <1>2, <1>3, <1>15 DEF Entered
<1>17. Settled(o)'  BY <1>2, <1>3, <1>14, <1>16 DEF Settled
<1>18. \A f \in Fd : objs'[f] = objs[f] \/ {objs[f], objs'[f]} \subseteq {o, NULL}
  BY <1>1, <1>2, <1>3
<1>. QED
  BY <1>2, <1>3, <1>8, <1>9, <1>10, <1>11, <1>12, <1>17, <1>18, AtRest

\* The files of the application are its own.
LEMMA FileStep == IInv /\ (OpenFile \/ CloseFile) => IInv'
<1>. SUFFICES ASSUME IInv, OpenFile \/ CloseFile PROVE IInv'  OBVIOUS
<1>1. /\ pc = "idle" /\ TypeOK /\ fdt[1] = App /\ fdt \in [Fd -> DescType]
      /\ UNCHANGED <<iu, bpf, objs, status, pc, cur, todo, ret, stray>>
  BY DEF OpenFile, CloseFile, IInv, TypeOK, DescType
<1>2. Free \in DescType /\ App \in DescType /\ Free.obj = NULL /\ App.obj = NULL
  BY DescTypes
<1>3. /\ fdt' \in [Fd -> DescType] /\ fdt'[1] = App
      /\ \A f \in Fd : fdt'[f] = fdt[f] \/ (fdt[f].obj = NULL /\ fdt'[f].obj = NULL)
  <2>1. ASSUME NEW f \in Fd, Opened(f, App)
        PROVE  /\ fdt' \in [Fd -> DescType] /\ fdt'[1] = App
               /\ \A g \in Fd : fdt'[g] = fdt[g] \/ (fdt[g].obj = NULL /\ fdt'[g].obj = NULL)
    BY <2>1, <1>1, <1>2, OpenedFd
  <2>2. ASSUME NEW f \in Files \ {1}, fdt' = [fdt EXCEPT ![f] = Free]
        PROVE  /\ fdt' \in [Fd -> DescType] /\ fdt'[1] = App
               /\ \A g \in Fd : fdt'[g] = fdt[g] \/ (fdt[g].obj = NULL /\ fdt'[g].obj = NULL)
    BY <2>2, <1>1, <1>2, FdTypes DEF Files
  <2>. QED  BY <2>1, <2>2 DEF OpenFile, CloseFile
<1>4. TypeOK'  BY <1>1, <1>3 DEF TypeOK, DescType
<1>5. Call'  BY <1>1 DEF IInv, Call
<1>6. ASSUME NEW o \in Obj PROVE Settled(o)'
  <2>1. o # NULL /\ Settled(o)  BY LoaderAssumption DEF IInv
  <2>. QED  BY <2>1, <1>1, <1>3, Elsewhere
<1>. QED  BY <1>1, <1>3, <1>4, <1>5, <1>6 DEF IInv
\* The process begins with its standard output and nothing loaded.
LEMMA InitInvariant == Init => IInv
<1>. SUFFICES ASSUME Init PROVE IInv  OBVIOUS
<1>1. /\ fdt = [f \in Fd |-> IF f = 1 THEN App ELSE Free]
      /\ iu = [o \in Obj |-> NoIu] /\ bpf = [o \in Obj |-> NoBpf]
      /\ objs = [f \in Fd |-> NULL] /\ status = [o \in Obj |-> "none"]
      /\ pc = "idle" /\ cur = NULL /\ todo = {} /\ ret = 0 /\ stray = FALSE
  BY DEF Init
<1>2. fdt \in [Fd -> DescType] /\ fdt[1] = App
      /\ \A f \in Fd : fdt[f].obj = NULL
  BY <1>1, DescTypes, FdTypes
<1>3. iu \in [Obj -> IuType] /\ bpf \in [Obj -> BpfType]
  BY <1>1, NoneTypes
<1>4. TypeOK
  BY <1>1, <1>2, <1>3 DEF TypeOK, DescType, IuType, BpfType
<1>5. ASSUME NEW o \in Obj PROVE Settled(o)
  <2>1. o # NULL  BY LoaderAssumption
  <2>2. NotEntered(o) /\ Only(o, {})  BY <1>1, <1>2, <2>1 DEF NotEntered, Only
  <2>. QED  BY <1>1, <2>2 DEF Settled
<1>6. Call  BY <1>1 DEF Call
<1>. QED  BY <1>1, <1>2, <1>4, <1>5, <1>6 DEF IInv

\* Every step of the library and of the application keeps the invariant.
LEMMA StepInvariant == IInv /\ [Next]_vars => IInv'
<1>. SUFFICES ASSUME IInv, [Next]_vars PROVE IInv'  OBVIOUS
<1>1. CASE OpenStep
  <2>1. CASE iu_obj_load
    <3>1. ret < 0 \/ ret >= 0  BY DEF IInv, TypeOK, Fd
    <3>. QED  BY <2>1, <3>1, LoadFailedStep, LoadEnteredStep
  <2>2. CASE load
    BY <2>2, OpenRustOutStep, LoadBaseStep, RemoveRustOutStep, LoadProgStep,
       LoadDoneStep, CloseFdsStep DEF load
  <2>3. CASE ElfInvalid \/ parse_elf \/ ParseCrash \/ FixMapsFails
    BY <2>3, ElfInvalidStep, ParseStep, CrashStep, FixMapsFailsStep
  <2>4. CASE elf_finish \/ OpenReturnsNull
    BY <2>4, ElfFinishStep, OpenReturnsNullStep
  <2>5. CASE \E m \in Map : CreateMap(m)
    BY <2>5, CreateMapStep
  <2>. QED  BY <1>1, <2>1, <2>2, <2>3, <2>4, <2>5 DEF OpenStep
<1>2. CASE ClientStep
  BY <1>2, OpenFailsStep, OpenStarts, CloseBpfStep, CloseIuStep, FileStep
  DEF ClientStep
<1>3. CASE UNCHANGED vars
  <2>1. /\ fdt' = fdt /\ iu' = iu /\ bpf' = bpf /\ objs' = objs
        /\ status' = status /\ pc' = pc /\ cur' = cur /\ todo' = todo
        /\ ret' = ret /\ stray' = stray
    BY <1>3 DEF vars
  <2>2. TypeOK' /\ ~ stray' /\ fdt'[1] = App  BY <2>1 DEF IInv, TypeOK
  <2>3. ASSUME NEW o \in Obj PROVE Settled(o)'
    BY <2>1, <2>3 DEF IInv, Settled, NotEntered, Only, Entered, Owner, Agree,
       Reaches, Reached, MapsOpen, ProgsOpen, BaseOpen, ElfOpen, Open, Complete,
       Whole, MapsCreated
  <2>4. ASSUME NEW o \in Obj, Loading(o) PROVE Loading(o)'
    BY <2>1, <2>4 DEF Loading, Agree, Reaches, Reached, NotEntered, MapsOpen,
       ElfOpen, ProgsOpen, BaseOpen, Open, Closable, Bare, Only, NoProg,
       MapsCreated, Whole
  <2>5. ASSUME NEW o \in Obj, Finishing(o) PROVE Finishing(o)'
    BY <2>1, <2>5 DEF Finishing, NotEntered, Reaches, Reached, ElfOpen, Open,
       Closable, Owner, Agree, MapsOpen, ProgsOpen, BaseOpen, Entered, Complete,
       Whole, MapsCreated, Only
  <2>6. Call'  BY <2>1, <2>4, <2>5 DEF IInv, Call
  <2>. QED  BY <2>2, <2>3, <2>6 DEF IInv
<1>. QED  BY <1>1, <1>2, <1>3 DEF Next

-----------------------------------------------------------------------------
(* Theorems.                                                               *)

\* What the loads own is what the invariant says, wherever a call of
\* iu_object__open (libiu.cpp) stands.
THEOREM InvariantHolds == Spec => []IInv
BY InitInvariant, StepInvariant, PTL DEF Spec

\* The descriptor table and the two objects keep their types.
THEOREM LoaderTypeCorrect == Spec => []TypeOK
<1>1. IInv => TypeOK  BY DEF IInv
<1>. QED  BY <1>1, InvariantHolds, PTL

\* No close of ~iu_obj, bpf_object__close, close_fds or elf_finish hits a
\* descriptor of another load or of the application, although the objects
\* share numbers and keep stale ones.
THEOREM ClosesItsOwn == Spec => []NoStrayClose
<1>1. IInv => NoStrayClose  BY DEF IInv, NoStrayClose
<1>. QED  BY <1>1, InvariantHolds, PTL

\* When iu_object__open returns NULL, whatever failed, no map, program or
\* file of the load is open any more, but for rust.out.
THEOREM FailureCloses == Spec => []FailedLoadCloses
<1>1. IInv => FailedLoadCloses
  BY DEF IInv, Settled, Only, FailedLoadCloses
<1>. QED  BY <1>1, InvariantHolds, PTL

\* What iu_object__open returns is loaded, or owns no descriptor.
THEOREM ReturnsWhole == Spec => []NothingHalfLoaded
<1>1. IInv => NothingHalfLoaded
  BY DEF IInv, Settled, Only, NothingHalfLoaded
<1>. QED  BY <1>1, InvariantHolds, PTL

\* The numbers that iu_obj_get_map, iu_obj_get_prog and the bpf_object give
\* out for a loaded object are open, and are its maps and programs.
THEOREM HandlesHold == Spec => []HandlesValid
<1>1. ASSUME IInv PROVE HandlesValid
  <2>. SUFFICES ASSUME NEW o \in Obj, InUse(o)
                PROVE \E b \in Fd :
                  /\ objs[b] = o /\ fdt[b] = Desc("base", o, NULL)
                  /\ \A m \in iu[o].defs : \E f \in Fd :
                        /\ fdt[f] = Desc("map", o, m)
                        /\ iu[o].map_fd[m] = f /\ bpf[o].map_fd[m] = f
                  /\ \A p \in iu[o].progs : \E f \in Fd :
                        /\ fdt[f] = Desc("prog", o, p)
                        /\ iu[o].fd[p] = f /\ bpf[o].instances[p] = f
    BY DEF HandlesValid
  <2>1. iu[o] \in IuType /\ bpf[o] \in BpfType
    BY <1>1 DEF IInv, TypeOK, IuType, BpfType
  <2>2. Owner(o) /\ Whole(o) /\ objs[iu[o].prog_fd] = o
    BY <1>1 DEF IInv, Settled, InUse, Complete
  <2>3. iu[o].prog_fd \in Fd /\ fdt[iu[o].prog_fd] = Desc("base", o, NULL)
    BY <2>1, <2>2 DEF Owner, BaseOpen, Open, Whole, IuType
  <2>4. ASSUME NEW m \in iu[o].defs
        PROVE /\ bpf[o].map_fd[m] \in Fd /\ iu[o].map_fd[m] = bpf[o].map_fd[m]
              /\ fdt[bpf[o].map_fd[m]] = Desc("map", o, m)
    BY <2>1, <2>2 DEF Owner, Agree, MapsOpen, Open, Whole, MapsCreated,
       IuType, BpfType
  <2>5. ASSUME NEW p \in iu[o].progs
        PROVE /\ bpf[o].instances[p] \in Fd /\ iu[o].fd[p] = bpf[o].instances[p]
              /\ fdt[bpf[o].instances[p]] = Desc("prog", o, p)
    BY <2>1, <2>2 DEF Owner, Agree, ProgsOpen, Open, Whole, IuType, BpfType
  <2>. QED  BY <2>2, <2>3, <2>4, <2>5
<1>. QED  BY <1>1, InvariantHolds, PTL
=============================================================================
