---------------------------- MODULE HelpersProofs ----------------------------
(***************************************************************************)
(* The comparison of strings and the copy of a task's name are right for   *)
(* strings and names of every length, every buffer and every set of        *)
(* characters; the checksum for every header that one fold is enough for;  *)
(* reads of per-CPU variables for any number of CPUs; the derivation for   *)
(* declarations of every size. What the loops have computed is in the      *)
(* inductive invariant; the sums of the checksum are a recursive function, *)
(* whose values are known by induction over the words.                     *)
(***************************************************************************)
EXTENDS Helpers, TLAPS, SequenceTheorems, WellFoundedInduction

-----------------------------------------------------------------------------
(* The inductive invariant.                                                *)

\* What bpf_strcmp has passed is a common prefix.
CompareLoop ==
    /\ pc = "idle" => idx = 0
    /\ pc = "compare" =>
          /\ idx <= cnt /\ idx <= Len(s1) /\ idx <= Len(s2)
          /\ \A i \in 1 .. idx : s1[i] = s2[i]

\* What get_comm has passed is written, the rest of the buffer is not.
CopyLoop ==
    /\ pc = "idle" => ~ renamed
    /\ pc = "copy" =>
          /\ size >= 1 /\ size + 1 <= Len(buf) /\ idx <= size
          /\ size = CommLen - 1 \/ size = Len(buf) - 1
          /\ \A i \in 1 .. Len(buf) :
                /\ i > idx => buf[i] = Unset
                /\ i <= idx => /\ buf[i] # Unset
                               /\ ~ renamed => buf[i] = comm[i]

\* The sums of the first words, for any words.
Partial(w) ==
    LET S[i \in 0 .. Count] == IF i = 0 THEN 0 ELSE S[i - 1] + w[i] IN S

\* f holds the sums of the first n words.
Recurs(f, w, n) ==
    /\ f \in [0 .. n -> Nat] /\ f[0] = 0
    /\ \A i \in 1 .. n : f[i] = f[i - 1] + w[i]

\* What compute_ip_checksum has passed is in the sum, and there was no checksum.
AddLoop ==
    /\ pc = "idle" => idx = 0 /\ sum = 0
    /\ pc = "add" => /\ idx <= Count /\ words[CHECK] = 0
                     /\ sum = Partial(words)[idx]

IInv ==
    /\ TypeOK /\ CompareLoop /\ CopyLoop /\ AddLoop
    /\ CompareIsOrder /\ CommIsString
    /\ ChecksumVerifies /\ FetchIsLocal /\ AcceptedIsPlain

-----------------------------------------------------------------------------
(* Lemmas.                                                                 *)

\* Strings are sequences of bounded length.
LEMMA StringIsSeq ==
    ASSUME NEW s \in Strings
    PROVE  s \in Seq(Char) /\ Len(s) \in 0 .. MaxLen
<1>1. PICK n \in 0 .. MaxLen : s \in [1 .. n -> Char]  BY DEF Strings
<1>2. MaxLen \in Nat  BY HelpersAssumption
<1>3. s \in Seq(Char)  BY <1>1, <1>2, SeqDef
<1>4. Len(s) \in Nat /\ 1 .. Len(s) = 1 .. n  BY <1>1, <1>3, LenProperties
<1>5. Len(s) = n
  <2>1. CASE Len(s) > n
    <3>1. Len(s) \in 1 .. Len(s)  BY <2>1, <1>4, <1>2
    <3>. QED  BY <3>1, <2>1, <1>4, <1>2
  <2>2. CASE Len(s) < n
    <3>1. n \in 1 .. n  BY <2>2, <1>4, <1>2
    <3>. QED  BY <3>1, <2>2, <1>4, <1>2
  <2>. QED  BY <2>1, <2>2, <1>4, <1>2
<1>. QED  BY <1>2, <1>3, <1>5

\* Initially everything is zero.
LEMMA InitInvariant == Init => IInv
<1>. SUFFICES ASSUME Init PROVE IInv  OBVIOUS
<1>. USE HelpersAssumption
<1>1. s1 \in Strings /\ s2 \in Strings
  <2>1. << >> \in Seq(Char) /\ Len(<< >>) = 0  OBVIOUS
  <2>2. << >> \in [1 .. 0 -> Char]  BY <2>1, LenProperties
  <2>3. << >> \in Strings  BY <2>2 DEF Strings
  <2>. QED  BY <2>3 DEF Init
<1>2. comm \in Comm  BY DEF Init, Comm
<1>3. buf \in Seq(Char \cup {Unset})  BY DEF Init
<1>4. mem \in Memory
  <2>1. mem \in [0 .. NCPU * AreaSize - 1 -> Value]
    <3>. SUFFICES ASSUME NEW a \in 0 .. NCPU * 4 - 1, a % 4 = 0
                  PROVE  a \div 4 \in Value
         BY DEF Init, AreaSize, cpu_number
    <3>. QED  OBVIOUS
  <2>2. ASSUME NEW c \in 0 .. NCPU - 1
        PROVE  mem[__per_cpu_offset(c) + cpu_number] = c
    <3>1. /\ c * 4 + 0 \in 0 .. NCPU * 4 - 1
          /\ (c * 4 + 0) % 4 = 0 /\ (c * 4 + 0) \div 4 = c  OBVIOUS
    <3>. QED  BY <3>1 DEF Init, AreaSize, cpu_number, __per_cpu_offset
  <2>. QED  BY <2>1, <2>2 DEF Memory
<1>5. words \in [1 .. Count -> Word]  BY DEF Init, Word
<1>6. /\ pc = "idle" /\ idx = 0 /\ cnt = 0 /\ size = 0 /\ renamed = FALSE
      /\ sum = 0 /\ cpu = 0
  BY DEF Init
<1>7. /\ cnt \in 0 .. NoLimit /\ size \in 0 .. CommLen - 1
      /\ cpu \in 0 .. NCPU - 1
  BY <1>6 DEF NoLimit
<1>8. TypeOK  BY <1>7, <1>1, <1>2, <1>3, <1>4, <1>5, <1>6 DEF TypeOK
<1>. QED  BY <1>6, <1>8 DEF IInv, CompareLoop, CopyLoop, AddLoop, CompareIsOrder,
                              CommIsString, ChecksumVerifies, FetchIsLocal,
                              AcceptedIsPlain

\* Steps keep the types.
LEMMA TypeStep == TypeOK /\ CopyLoop /\ [Next]_vars => TypeOK'
<1>. SUFFICES ASSUME TypeOK, CopyLoop, [Next]_vars PROVE TypeOK'  OBVIOUS
<1>. USE HelpersAssumption
<1>. USE DEF TypeOK, vars, compared, named, summed, percpu, Unset
<1>1. CASE bpf_strcmp  BY <1>1 DEF bpf_strcmp, NoLimit
<1>2. CASE bpf_strncmp  BY <1>2 DEF bpf_strncmp, NoLimit
<1>3. CASE CompareNext  BY <1>3 DEF CompareNext
<1>4. CASE CompareDiffer  BY <1>4 DEF CompareDiffer
<1>5. CASE CompareEqual  BY <1>5 DEF CompareEqual
<1>6. ASSUME NEW n \in 0 .. MaxN, get_comm(n) PROVE TypeOK'
  <2>1. [i \in 1 .. n |-> Unset] \in Seq(Char \cup {Unset})  BY <1>6, IsASeq
  <2>2. size' \in 0 .. CommLen - 1
    <3>1. CASE n = 0  BY <3>1, <1>6 DEF get_comm
    <3>2. CASE n # 0  BY <3>2, <1>6 DEF get_comm
    <3>. QED  BY <3>1, <3>2
  <2>. QED  BY <2>1, <2>2, <1>6 DEF get_comm
<1>7. CASE Rename  BY <1>7 DEF Rename
<1>8. CASE CopyByte
  <2>1. idx + 1 \in 1 .. Len(buf) /\ idx + 1 \in 1 .. CommLen
    BY <1>8 DEF CopyByte, CopyLoop
  <2>2. comm[idx + 1] \in Char  BY <2>1 DEF Comm
  <2>3. buf' \in Seq(Char \cup {Unset})  BY <1>8, <2>1, <2>2, ExceptSeq DEF CopyByte
  <2>. QED  BY <1>8, <2>3 DEF CopyByte
<1>9. CASE Terminate
  <2>1. size + 1 \in 1 .. Len(buf)  BY <1>9 DEF Terminate, CopyLoop
  <2>2. buf' \in Seq(Char \cup {Unset})  BY <1>9, <2>1, ExceptSeq DEF Terminate
  <2>. QED  BY <1>9, <2>2 DEF Terminate
<1>10. CASE compute_ip_checksum
  <2>1. PICK w \in [1 .. Count -> Word] : words' = [w EXCEPT ![CHECK] = 0]
    BY <1>10 DEF compute_ip_checksum
  <2>2. 0 \in Word  BY DEF Word
  <2>3. words' \in [1 .. Count -> Word]  BY <2>1, <2>2
  <2>. QED  BY <1>10, <2>3 DEF compute_ip_checksum
<1>11. CASE AddWord
  <2>1. words[idx + 1] \in Nat  BY <1>11 DEF AddWord, Word
  <2>. QED  BY <1>11, <2>1 DEF AddWord
<1>12. CASE Fold  BY <1>12 DEF Fold
<1>13. CASE Fetch  BY <1>13 DEF Fetch
<1>14. CASE derive  BY <1>14 DEF derive
<1>15. CASE UNCHANGED vars  BY <1>15
<1>. QED
  BY <1>1, <1>2, <1>3, <1>4, <1>5, <1>6, <1>7, <1>8, <1>9, <1>10, <1>11, <1>12,
     <1>13, <1>14, <1>15 DEF Next

\* The loop of the comparison.
LEMMA CompareLoopStep == TypeOK /\ CompareLoop /\ [Next]_vars => CompareLoop'
<1>. SUFFICES ASSUME TypeOK, CompareLoop, [Next]_vars PROVE CompareLoop'  OBVIOUS
<1>. USE DEF CompareLoop, vars, compared, named, summed, percpu
<1>0. /\ cnt \in Nat /\ MaxLen \in Nat /\ idx \in Nat
      /\ s1 \in Seq(Char) /\ s2 \in Seq(Char)
      /\ Len(s1) \in Nat /\ Len(s2) \in Nat
  BY HelpersAssumption, StringIsSeq DEF TypeOK, NoLimit
<1>1. ASSUME bpf_strcmp \/ bpf_strncmp PROVE CompareLoop'
  <2>1. s1' \in Strings /\ s2' \in Strings  BY <1>1 DEF bpf_strcmp, bpf_strncmp
  <2>2. Len(s1') \in Nat /\ Len(s2') \in Nat  BY <2>1, <1>0, StringIsSeq
  <2>3. cnt' \in Nat  BY <1>1, <1>0 DEF bpf_strcmp, bpf_strncmp, NoLimit
  <2>4. idx' = 0 /\ pc' = "compare"  BY <1>1 DEF bpf_strcmp, bpf_strncmp
  <2>. QED  BY <2>2, <2>3, <2>4
<1>2. CASE CompareNext  BY <1>0, <1>2 DEF CompareNext
<1>3. CASE CompareDiffer  BY <1>3 DEF CompareDiffer
<1>4. CASE CompareEqual  BY <1>4 DEF CompareEqual
<1>5. ASSUME NEW n \in 0 .. MaxN, get_comm(n) PROVE CompareLoop'
  BY <1>5 DEF get_comm
<1>6. CASE Rename \/ CopyByte \/ Terminate
  BY <1>6 DEF Rename, CopyByte, Terminate
<1>7. CASE compute_ip_checksum \/ AddWord \/ Fold
  BY <1>7 DEF compute_ip_checksum, AddWord, Fold
<1>8. CASE Fetch \/ derive  BY <1>8 DEF Fetch, derive
<1>9. CASE UNCHANGED vars  BY <1>9
<1>. QED
  BY <1>1, <1>2, <1>3, <1>4, <1>5, <1>6, <1>7, <1>8, <1>9 DEF Next

\* Where the loop of the comparison decides, it decides as Less does.
LEMMA CompareDecides ==
    TypeOK /\ CompareLoop /\ (CompareDiffer \/ CompareEqual) => CompareIsOrder'
<1>. SUFFICES ASSUME TypeOK, CompareLoop, CompareDiffer \/ CompareEqual
              PROVE  CompareIsOrder'
     OBVIOUS
<1>0. /\ cnt \in Nat /\ MaxLen \in Nat /\ idx \in 0 .. MaxLen
      /\ s1 \in Seq(Char) /\ s2 \in Seq(Char)
      /\ Len(s1) \in 0 .. MaxLen /\ Len(s2) \in 0 .. MaxLen
      /\ Char \subseteq Nat
      /\ pc = "compare" /\ idx <= cnt /\ idx <= Len(s1) /\ idx <= Len(s2)
      /\ \A i \in 1 .. idx : s1[i] = s2[i]
      /\ s1' = s1 /\ s2' = s2 /\ cnt' = cnt
  BY HelpersAssumption, StringIsSeq
     DEF TypeOK, NoLimit, CompareLoop, CompareDiffer, CompareEqual, compared
<1>1. /\ \A i \in 1 .. Len(s1) : s1[i] \in Nat
      /\ \A i \in 1 .. Len(s2) : s2[i] \in Nat
  BY <1>0, ElementOfSeq
<1>2. CASE CompareEqual
  <2>1. ~ Less(s1, s2, cnt) /\ ~ Less(s2, s1, cnt)
    BY <1>0, <1>1, <1>2 DEF CompareEqual, Less
  <2>. QED  BY <2>1, <1>0, <1>2 DEF CompareEqual, CompareIsOrder
<1>3. CASE /\ idx < cnt /\ ret' = -1 /\ idx < Len(s2)
           /\ \/ idx = Len(s1)
              \/ idx < Len(s1) /\ s1[idx + 1] < s2[idx + 1]
  <2>1. Less(s1, s2, cnt)  BY <1>0, <1>3 DEF Less
  <2>2. ~ Less(s2, s1, cnt)
    <3>. SUFFICES ASSUME NEW k \in 0 .. MaxLen,
                         k <= Len(s2), k < Len(s1),
                         \A i \in 1 .. k : s2[i] = s1[i],
                         k = Len(s2) \/ s2[k + 1] < s1[k + 1]
                  PROVE  FALSE
         BY DEF Less
    <3>1. CASE k < idx
      <4>1. k + 1 \in 1 .. idx  BY <3>1, <1>0
      <4>. QED  BY <4>1, <3>1, <1>0, <1>1, <1>3
    <3>2. CASE k = idx  BY <3>2, <1>0, <1>1, <1>3
    <3>3. CASE k > idx
      <4>1. idx + 1 \in 1 .. k  BY <3>3, <1>0
      <4>. QED  BY <4>1, <3>3, <1>0, <1>1, <1>3
    <3>. QED  BY <3>1, <3>2, <3>3, <1>0
  <2>. QED  BY <2>1, <2>2, <1>0, <1>3 DEF CompareIsOrder
<1>4. CASE /\ idx < cnt /\ ret' = 1 /\ idx < Len(s1)
           /\ \/ idx = Len(s2)
              \/ idx < Len(s2) /\ s2[idx + 1] < s1[idx + 1]
  <2>1. Less(s2, s1, cnt)  BY <1>0, <1>4 DEF Less
  <2>2. ~ Less(s1, s2, cnt)
    <3>. SUFFICES ASSUME NEW k \in 0 .. MaxLen,
                         k <= Len(s1), k < Len(s2),
                         \A i \in 1 .. k : s1[i] = s2[i],
                         k = Len(s1) \/ s1[k + 1] < s2[k + 1]
                  PROVE  FALSE
         BY DEF Less
    <3>1. CASE k < idx
      <4>1. k + 1 \in 1 .. idx  BY <3>1, <1>0
      <4>. QED  BY <4>1, <3>1, <1>0, <1>1, <1>4
    <3>2. CASE k = idx  BY <3>2, <1>0, <1>1, <1>4
    <3>3. CASE k > idx
      <4>1. idx + 1 \in 1 .. k  BY <3>3, <1>0
      <4>. QED  BY <4>1, <3>3, <1>0, <1>1, <1>4
    <3>. QED  BY <3>1, <3>2, <3>3, <1>0
  <2>. QED  BY <2>1, <2>2, <1>0, <1>4 DEF CompareIsOrder
<1>5. CASE CompareDiffer
  <2>1. CASE idx < Len(s1) /\ idx < Len(s2) /\ s1[idx + 1] # s2[idx + 1]
    <3>1. s1[idx + 1] \in Nat /\ s2[idx + 1] \in Nat  BY <2>1, <1>0, <1>1
    <3>. QED  BY <2>1, <3>1, <1>3, <1>4, <1>5 DEF CompareDiffer
  <2>2. CASE ~ (idx < Len(s1) /\ idx < Len(s2) /\ s1[idx + 1] # s2[idx + 1])
    BY <2>2, <1>3, <1>4, <1>5 DEF CompareDiffer
  <2>. QED  BY <2>1, <2>2
<1>. QED  BY <1>2, <1>5

\* The loop of the copy.
LEMMA CopyLoopStep ==
    TypeOK /\ CompareLoop /\ CopyLoop /\ [Next]_vars => CopyLoop'
<1>. SUFFICES ASSUME TypeOK, CompareLoop, CopyLoop, [Next]_vars PROVE CopyLoop'
     OBVIOUS
<1>. USE HelpersAssumption DEF CopyLoop, vars, compared, named, summed, percpu
<1>0. /\ idx \in Nat /\ size \in Nat /\ buf \in Seq(Char \cup {Unset})
      /\ Len(buf) \in Nat /\ renamed \in BOOLEAN
  BY LenProperties DEF TypeOK
<1>1. CASE bpf_strcmp \/ bpf_strncmp  BY <1>1 DEF bpf_strcmp, bpf_strncmp
<1>2. CASE CompareNext \/ CompareDiffer \/ CompareEqual
  BY <1>2 DEF CompareNext, CompareDiffer, CompareEqual
<1>3. ASSUME NEW n \in 0 .. MaxN, get_comm(n) PROVE CopyLoop'
  <2>1. Len(buf') = n /\ \A i \in 1 .. n : buf'[i] = Unset
    BY <1>3 DEF get_comm
  <2>2. /\ idx' = 0 /\ ~ renamed' /\ pc' \in {"copied", "copy"}
    BY <1>3 DEF get_comm, CompareLoop
  <2>3. CASE pc' = "copy"
    <3>1. n # 0 /\ size' = (IF n < CommLen THEN n - 1 ELSE CommLen - 1) /\ size' # 0
      BY <2>3, <1>3 DEF get_comm
    <3>2. size' >= 1 /\ size' + 1 <= n /\ (size' = CommLen - 1 \/ size' = n - 1)
      BY <3>1
    <3>. QED  BY <2>1, <2>2, <2>3, <3>2
  <2>. QED  BY <2>2, <2>3
<1>4. CASE Rename  BY <1>4 DEF Rename
<1>5. CASE CopyByte
  <2>1. idx + 1 \in 1 .. Len(buf) /\ idx + 1 \in 1 .. CommLen
    BY <1>5, <1>0 DEF CopyByte, TypeOK
  <2>2. comm[idx + 1] \in Char /\ comm[idx + 1] # Unset
    BY <2>1 DEF TypeOK, Comm, Unset
  <2>3. /\ Len(buf') = Len(buf)
        /\ \A i \in 1 .. Len(buf) :
              buf'[i] = IF i = idx + 1 THEN comm[idx + 1] ELSE buf[i]
    BY <1>5, <1>0, <2>1, <2>2, ExceptSeq DEF CopyByte
  <2>4. /\ pc = "copy" /\ pc' = "copy" /\ idx < size /\ idx' = idx + 1
        /\ size' = size /\ comm' = comm /\ renamed' = renamed
    BY <1>5 DEF CopyByte
  <2>5. ASSUME NEW i \in 1 .. Len(buf')
        PROVE  /\ i > idx' => buf'[i] = Unset
               /\ i <= idx' => buf'[i] # Unset /\ (~ renamed => buf'[i] = comm[i])
    <3>1. i \in 1 .. Len(buf)  BY <2>3
    <3>2. CASE i = idx + 1  BY <3>1, <3>2, <1>0, <2>2, <2>3, <2>4
    <3>3. CASE i # idx + 1
      <4>1. buf'[i] = buf[i]  BY <3>1, <3>3, <2>3
      <4>2. /\ i > idx => buf[i] = Unset
            /\ i <= idx => buf[i] # Unset /\ (~ renamed => buf[i] = comm[i])
        BY <3>1, <2>4
      <4>. QED  BY <4>1, <4>2, <3>1, <3>3, <1>0, <2>4
    <3>. QED  BY <3>2, <3>3
  <2>6. size >= 1 /\ size + 1 <= Len(buf') /\ idx' <= size
    BY <2>3, <2>4, <1>0
  <2>7. size = CommLen - 1 \/ size = Len(buf') - 1  BY <2>3, <2>4
  <2>. QED  BY <2>4, <2>5, <2>6, <2>7
<1>6. CASE Terminate  BY <1>6 DEF Terminate
<1>7. CASE compute_ip_checksum \/ AddWord \/ Fold
  BY <1>7 DEF compute_ip_checksum, AddWord, Fold
<1>8. CASE Fetch \/ derive  BY <1>8 DEF Fetch, derive
<1>9. CASE UNCHANGED vars  BY <1>9
<1>. QED
  BY <1>1, <1>2, <1>3, <1>4, <1>5, <1>6, <1>7, <1>8, <1>9 DEF Next

\* get_comm ends with a string, or refuses the buffer.
LEMMA CopyEnds ==
    /\ TypeOK /\ CopyLoop
    /\ Terminate \/ \E n \in 0 .. MaxN : get_comm(n)
    => CommIsString'
<1>. SUFFICES ASSUME TypeOK, CopyLoop,
                     Terminate \/ \E n \in 0 .. MaxN : get_comm(n)
              PROVE  CommIsString'
     OBVIOUS
<1>. USE HelpersAssumption
<1>1. CASE Terminate
  <2>1. /\ idx = size /\ ret' = 0 /\ size' = size /\ comm' = comm
        /\ renamed' = renamed /\ pc = "copy"
        /\ buf' = [buf EXCEPT ![size + 1] = 0]
    BY <1>1 DEF Terminate
  <2>2. size \in Nat /\ buf \in Seq(Char \cup {Unset}) /\ Len(buf) \in Nat
    BY LenProperties DEF TypeOK
  <2>3. size + 1 \in 1 .. Len(buf)  BY <2>1, <2>2 DEF CopyLoop
  <2>4. /\ buf' \in Seq(Char \cup {Unset}) /\ Len(buf') = Len(buf)
        /\ \A i \in 1 .. Len(buf) : buf'[i] = IF i = size + 1 THEN 0 ELSE buf[i]
    BY <2>1, <2>2, <2>3, ExceptSeq
  <2>5. DOMAIN buf' = 1 .. Len(buf)  BY <2>4, LenProperties
  <2>6. /\ size + 1 \in DOMAIN buf' /\ buf'[size + 1] = 0
        /\ size = CommLen - 1 \/ size = Len(buf') - 1
    BY <2>1, <2>3, <2>4, <2>5 DEF CopyLoop
  <2>7. ASSUME NEW i \in 1 .. size
        PROVE  buf'[i] # Unset /\ (~ renamed => buf'[i] = comm[i])
    <3>1. i \in 1 .. Len(buf) /\ i <= idx /\ i # size + 1  BY <2>1, <2>2, <2>3
    <3>2. buf[i] # Unset /\ (~ renamed => buf[i] = comm[i])
      BY <3>1, <2>1 DEF CopyLoop
    <3>. QED  BY <3>1, <3>2, <2>4
  <2>8. ASSUME NEW i \in DOMAIN buf', i > size + 1 PROVE buf'[i] = Unset
    <3>1. i \in 1 .. Len(buf) /\ i > idx /\ i # size + 1
      BY <2>1, <2>2, <2>5, <2>8
    <3>2. buf[i] = Unset  BY <3>1, <2>1 DEF CopyLoop
    <3>. QED  BY <3>1, <3>2, <2>4
  <2>. QED  BY <2>1, <2>6, <2>7, <2>8 DEF CommIsString
<1>2. ASSUME NEW n \in 0 .. MaxN, get_comm(n) PROVE CommIsString'
  <2>1. buf' = [i \in 1 .. n |-> Unset]  BY <1>2 DEF get_comm
  <2>2. pc' = "copied" => ret' = -EINVAL  BY <1>2 DEF get_comm
  <2>. QED  BY <2>1, <2>2 DEF CommIsString
<1>. QED  BY <1>1, <1>2

-----------------------------------------------------------------------------
(* Sums of words, and their checksum.                                      *)

\* Induction over the natural numbers, for a set.
LEMMA NatInd ==
    ASSUME NEW S, 0 \in S, \A n \in Nat : n \in S => n + 1 \in S
    PROVE  \A n \in Nat : n \in S
<1>. SUFFICES ASSUME Nat \ S # {} PROVE FALSE  OBVIOUS
<1>. DEFINE R == OpToRel(<, Nat)
<1>1. IsWellFoundedOn(R, Nat)  BY NatLessThanWellFounded
<1>2. \A a, b \in Nat : <<a, b>> \in R <=> a < b  BY DEF OpToRel
<1>3. PICK x \in Nat \ S : \A y \in Nat \ S : ~ (<<y, x>> \in R)
  <2>. HIDE DEF R
  <2>. QED BY <1>1, WFMin
<1>4. x # 0 /\ x - 1 \in Nat /\ x - 1 < x /\ (x - 1) + 1 = x  OBVIOUS
<1>5. x - 1 \in S  BY <1>2, <1>3, <1>4
<1>. QED BY <1>3, <1>4, <1>5

\* There are such sums.
LEMMA PartialExists ==
    ASSUME NEW w \in [1 .. Count -> Nat], Count \in Nat
    PROVE  \E f : Recurs(f, w, Count)
<1>. DEFINE T == {n \in Nat : n <= Count => \E f : Recurs(f, w, n)}
<1>1. 0 \in T
  <2>1. Recurs([i \in 0 .. 0 |-> 0], w, 0)  BY DEF Recurs
  <2>. QED  BY <2>1
<1>2. ASSUME NEW n \in Nat, n \in T PROVE n + 1 \in T
  <2>. SUFFICES ASSUME n + 1 <= Count PROVE \E f : Recurs(f, w, n + 1)  OBVIOUS
  <2>1. PICK f : Recurs(f, w, n)  BY <1>2
  <2>. DEFINE g == [i \in 0 .. n + 1 |-> IF i <= n THEN f[i] ELSE f[n] + w[n + 1]]
  <2>2. f[n] \in Nat /\ w[n + 1] \in Nat /\ \A i \in 0 .. n : f[i] \in Nat
    BY <2>1 DEF Recurs
  <2>3. g \in [0 .. n + 1 -> Nat] /\ g[0] = 0  BY <2>1, <2>2 DEF Recurs
  <2>4. ASSUME NEW i \in 1 .. n + 1 PROVE g[i] = g[i - 1] + w[i]
    <3>1. CASE i <= n  BY <3>1, <2>1 DEF Recurs
    <3>2. CASE i = n + 1  BY <3>2
    <3>. QED  BY <3>1, <3>2
  <2>. QED  BY <2>3, <2>4 DEF Recurs
<1>3. \A n \in Nat : n \in T
  <2>. HIDE DEF T
  <2>. QED  BY <1>1, <1>2, NatInd
<1>. QED  BY <1>3

\* The sums are what their recursive definition says.
LEMMA PartialRecurs ==
    ASSUME NEW w \in [1 .. Count -> Nat], Count \in Nat
    PROVE  Recurs(Partial(w), w, Count)
<1>. DEFINE Body(S) == [i \in 0 .. Count |-> IF i = 0 THEN 0 ELSE S[i - 1] + w[i]]
            g == Partial(w)
<1>1. PICK f : Recurs(f, w, Count)  BY PartialExists
<1>2. f = Body(f)  BY <1>1 DEF Recurs
<1>3. g = Body(g)
  <2>1. g = CHOOSE S : S = Body(S)  BY DEF Partial
  <2>. HIDE DEF Body, g
  <2>. QED  BY <2>1, <1>2
<1>4. \A n \in Nat : n <= Count => g[n] = f[n]
  <2>. DEFINE T == {n \in Nat : n <= Count => g[n] = f[n]}
  <2>. HIDE DEF g
  <2>1. 0 \in T  BY <1>2, <1>3
  <2>2. ASSUME NEW n \in Nat, n \in T PROVE n + 1 \in T
    <3>. SUFFICES ASSUME n + 1 <= Count PROVE g[n + 1] = f[n + 1]  OBVIOUS
    <3>1. n + 1 \in 0 .. Count /\ n + 1 # 0 /\ (n + 1) - 1 = n  OBVIOUS
    <3>2. g[n + 1] = g[n] + w[n + 1]
      <4>1. g[n + 1] = Body(g)[n + 1]  BY <1>3
      <4>. QED  BY <4>1, <3>1
    <3>3. f[n + 1] = f[n] + w[n + 1]
      BY <3>1, <1>1 DEF Recurs
    <3>. QED  BY <3>2, <3>3, <2>2
  <2>3. \A n \in Nat : n \in T
    <3>. HIDE DEF T
    <3>. QED  BY <2>1, <2>2, NatInd
  <2>. QED  BY <2>3
<1>5. g = f
  <2>. HIDE DEF g
  <2>1. g = [i \in 0 .. Count |-> g[i]]  BY <1>3
  <2>2. f = [i \in 0 .. Count |-> f[i]]  BY <1>1 DEF Recurs
  <2>. QED  BY <2>1, <2>2, <1>4
<1>. QED  BY <1>1, <1>5

\* Quotient and remainder.
LEMMA DivMod ==
    ASSUME NEW a \in Nat, NEW b \in Nat \ {0}
    PROVE  a \div b \in Nat /\ a % b \in 0 .. b - 1 /\ a = b * (a \div b) + (a % b)
<1>. DEFINE q == a \div b
            r == a % b
<1>1. q \in Int  OBVIOUS
<1>2. r \in 0 .. b - 1  OBVIOUS
<1>3. a = b * q + r  OBVIOUS
<1>. HIDE DEF q, r
<1>4. q >= 0
  <2>. SUFFICES ASSUME q <= -1 PROVE FALSE  BY <1>1
  <2>1. b * q <= -b  BY <1>1
  <2>. QED  BY <2>1, <1>1, <1>2, <1>3
<1>5. q \in Nat  BY <1>1, <1>4
<1>. QED  BY <1>2, <1>3, <1>5 DEF q, r

\* A remainder is known by its bounds.
LEMMA ModIs ==
    ASSUME NEW b \in Nat \ {0}, NEW k \in Nat, NEW c \in 0 .. b - 1
    PROVE  (b * k + c) % b = c
OBVIOUS

\* Arithmetic in ones' complement: the complement of a sum that is folded once
\* cancels the sum, unless the folded sum still has a carry.
LEMMA FoldOnce ==
    ASSUME NEW W \in Nat \ {0, 1}, NEW s \in Nat, s <= (W + 1) * W,
           NEW f, f = (s % (W + 1)) + (s \div (W + 1))
    PROVE  (s + (W - (f % (W + 1)))) % W = 0 <=> f <= W
<1>. DEFINE q == s \div (W + 1)
            r == s % (W + 1)
<1>1. q \in Nat /\ r \in 0 .. W /\ s = (W + 1) * q + r
  <2>. DEFINE b == W + 1
  <2>1. b \in Nat \ {0} /\ b - 1 = W  OBVIOUS
  <2>. HIDE DEF b
  <2>2. /\ s \div b \in Nat /\ s % b \in 0 .. b - 1
        /\ s = b * (s \div b) + (s % b)
    BY <2>1, DivMod
  <2>. QED  BY <2>1, <2>2 DEF b
<1>. HIDE DEF q, r
<1>2. f = r + q  BY DEF q, r
<1>3. q <= W
  <2>. SUFFICES ASSUME q >= W + 1 PROVE FALSE  BY <1>1
  <2>1. (W + 1) * q >= (W + 1) * (W + 1)  BY <1>1
  <2>2. (W + 1) * (W + 1) = (W + 1) * W + W + 1 OBVIOUS
  <2>. QED  BY <2>1, <2>2, <1>1
<1>4. CASE f <= W
  <2>1. f % (W + 1) = f  BY <1>4, <1>1, <1>2
  <2>2. s + (W - f) = W * (q + 1) + 0  BY <1>1, <1>2
  <2>3. (s + (W - f)) % W = 0  BY <2>2, <1>1, ModIs
  <2>. QED  BY <1>4, <2>1, <2>3
<1>5. CASE f >= W + 1
  <2>1. f % (W + 1) = f - (W + 1)
    <3>1. f = (W + 1) * 1 + (f - (W + 1)) /\ f - (W + 1) \in 0 .. (W + 1) - 1
      BY <1>5, <1>1, <1>2, <1>3
    <3>. QED  BY <3>1, ModIs
  <2>2. s + (W - (f - (W + 1))) = W * (q + 2) + 1  BY <1>1, <1>2
  <2>3. (s + (W - (f - (W + 1)))) % W = 1
    <3>1. 1 \in 0 .. W - 1 /\ q + 2 \in Nat  BY <1>1
    <3>. QED  BY <3>1, <2>2, ModIs
  <2>. QED  BY <1>5, <2>1, <2>3, <1>1, <1>2
<1>. QED  BY <1>4, <1>5, <1>1, <1>2

\* So are the sums of the words of a header.
LEMMA PartialOfWords ==
    ASSUME NEW w \in [1 .. Count -> Word]
    PROVE  Recurs(Partial(w), w, Count)
<1>1. Count \in Nat /\ Word \subseteq Nat  BY HelpersAssumption DEF Word
<1>2. w \in [1 .. Count -> Nat]  BY <1>1
<1>. QED  BY <1>1, <1>2, PartialRecurs

\* The sums of words without a checksum are bounded.
LEMMA PartialBound ==
    ASSUME NEW w \in [1 .. Count -> Word], w[CHECK] = 0,
           NEW n \in Nat, n \in 1 .. Count
    PROVE  Partial(w)[n] \in 0 .. (n - 1) * WordMax
<1>. DEFINE P == Partial(w)
            T == {m \in Nat : m + 1 <= Count => P[m + 1] \in 0 .. m * WordMax}
<1>0. Count \in Nat \ {0} /\ WordMax \in Nat  BY HelpersAssumption
<1>1. Recurs(P, w, Count)
  <2>1. w \in [1 .. Count -> Nat]  BY <1>0 DEF Word
  <2>. QED  BY <2>1, <1>0, PartialRecurs
<1>. HIDE DEF P
<1>2. 0 \in T
  <2>1. 1 \in 1 .. Count /\ P[1] = P[1 - 1] + w[1] /\ P[0] = 0  BY <1>0, <1>1 DEF Recurs
  <2>2. w[1] = 0  BY DEF CHECK
  <2>3. P[1] = 0  BY <2>1, <2>2
  <2>. QED  BY <2>3, <1>0
<1>3. ASSUME NEW m \in Nat, m \in T PROVE m + 1 \in T
  <2>. SUFFICES ASSUME m + 2 <= Count PROVE P[m + 2] \in 0 .. (m + 1) * WordMax
       BY <1>0
  <2>1. P[m + 1] \in 0 .. m * WordMax  BY <1>3, <1>0
  <2>2. P[m + 2] = P[(m + 2) - 1] + w[m + 2]  BY <1>1, <1>0 DEF Recurs
  <2>3. w[m + 2] \in 0 .. WordMax  BY <1>0 DEF Word
  <2>4. (m + 2) - 1 = m + 1  OBVIOUS
  <2>5. (m + 1) * WordMax = m * WordMax + WordMax  BY <1>0
  <2>6. m * WordMax \in Nat  BY <1>0
  <2>. HIDE DEF T
  <2>. QED  BY <2>1, <2>2, <2>3, <2>4, <2>5, <2>6, <1>0
<1>4. n - 1 \in T
  <2>. HIDE DEF T
  <2>1. \A m \in Nat : m \in T  BY <1>2, <1>3, NatInd
  <2>. QED  BY <2>1, <1>0
<1>5. P[n] \in 0 .. (n - 1) * WordMax
  <2>1. (n - 1) + 1 = n  BY <1>0
  <2>. QED  BY <1>4, <2>1, <1>0
<1>. QED  BY <1>5 DEF P

\* To store a checksum adds it to every sum from its place on.
LEMMA PartialStore ==
    ASSUME NEW w \in [1 .. Count -> Word], w[CHECK] = 0, NEW r \in Word
    PROVE  Partial([w EXCEPT ![CHECK] = r])[Count] = Partial(w)[Count] + r
<1>. DEFINE v == [w EXCEPT ![CHECK] = r]
            P == Partial(w)
            Q == Partial(v)
            T == {m \in Nat : m + 1 <= Count => Q[m + 1] = P[m + 1] + r}
<1>0. Count \in Nat \ {0} /\ WordMax \in Nat /\ r \in Nat
  BY HelpersAssumption DEF Word
<1>1. Recurs(P, w, Count) /\ Recurs(Q, v, Count)
  <2>. HIDE DEF T
  <2>0. Word \subseteq Nat  BY <1>0 DEF Word
  <2>1. w \in [1 .. Count -> Nat]  BY <2>0
  <2>2. v \in [1 .. Count -> Nat]  BY <2>0, <1>0
  <2>. HIDE DEF v
  <2>. QED  BY <2>1, <2>2, <1>0, PartialRecurs
<1>2. v[1] = r /\ \A i \in 2 .. Count : v[i] = w[i]
  BY <1>0 DEF CHECK
<1>3. \A i \in 1 .. Count : w[i] \in Nat  BY <1>0 DEF Word
<1>. HIDE DEF P, Q, v
<1>4. 0 \in T
  <2>1. /\ P[1] = P[1 - 1] + w[1] /\ P[0] = 0
        /\ Q[1] = Q[1 - 1] + v[1] /\ Q[0] = 0
    BY <1>0, <1>1 DEF Recurs
  <2>2. w[1] = 0  BY DEF CHECK
  <2>. QED  BY <2>1, <2>2, <1>2, <1>0
<1>5. ASSUME NEW m \in Nat, m \in T PROVE m + 1 \in T
  <2>. SUFFICES ASSUME m + 2 <= Count PROVE Q[m + 2] = P[m + 2] + r
       BY <1>0
  <2>1. Q[m + 1] = P[m + 1] + r  BY <1>5, <1>0
  <2>2. /\ P[m + 2] = P[(m + 2) - 1] + w[m + 2]
        /\ Q[m + 2] = Q[(m + 2) - 1] + v[m + 2]
    BY <1>1, <1>0 DEF Recurs
  <2>3. (m + 2) - 1 = m + 1 /\ v[m + 2] = w[m + 2]  BY <1>2, <1>0
  <2>4. P[m + 1] \in Nat /\ w[m + 2] \in Nat  BY <1>0, <1>1, <1>3 DEF Recurs
  <2>. HIDE DEF T
  <2>. QED  BY <2>1, <2>2, <2>3, <2>4, <1>0
<1>6. Count - 1 \in T
  <2>. HIDE DEF T
  <2>1. \A m \in Nat : m \in T  BY <1>4, <1>5, NatInd
  <2>. QED  BY <2>1, <1>0
<1>7. Q[Count] = P[Count] + r
  <2>1. (Count - 1) + 1 = Count  BY <1>0
  <2>. QED  BY <1>6, <2>1, <1>0
<1>. QED  BY <1>7 DEF P, Q, v

\* The loop of the checksum.
LEMMA AddLoopStep ==
    TypeOK /\ CompareLoop /\ AddLoop /\ [Next]_vars => AddLoop'
<1>. SUFFICES ASSUME TypeOK, CompareLoop, AddLoop, [Next]_vars PROVE AddLoop'
     OBVIOUS
<1>. USE DEF AddLoop, vars, compared, named, summed, percpu
<1>0. Count \in Nat \ {0} /\ WordMax \in Nat /\ idx \in Nat
  BY HelpersAssumption DEF TypeOK
<1>1. CASE bpf_strcmp \/ bpf_strncmp  BY <1>1 DEF bpf_strcmp, bpf_strncmp
<1>2. CASE CompareNext \/ CompareDiffer \/ CompareEqual
  BY <1>2 DEF CompareNext, CompareDiffer, CompareEqual
<1>3. ASSUME NEW n \in 0 .. MaxN, get_comm(n) PROVE AddLoop'
  BY <1>3 DEF get_comm
<1>4. CASE Rename \/ CopyByte \/ Terminate
  BY <1>4 DEF Rename, CopyByte, Terminate
<1>5. CASE compute_ip_checksum
  <2>1. PICK w \in [1 .. Count -> Word] : words' = [w EXCEPT ![CHECK] = 0]
    BY <1>5 DEF compute_ip_checksum
  <2>2. words' \in [1 .. Count -> Word] /\ words'[CHECK] = 0
    BY <2>1, <1>0 DEF Word, CHECK
  <2>3. Partial(words')[0] = 0  BY <2>2, <1>0, PartialOfWords DEF Recurs
  <2>. QED  BY <2>2, <2>3, <1>0, <1>5 DEF compute_ip_checksum
<1>6. CASE AddWord
  <2>1. /\ pc' = "add" /\ words' = words /\ idx' = idx + 1 /\ idx < Count
        /\ sum' = sum + words[idx + 1] /\ sum = Partial(words)[idx]
        /\ words[CHECK] = 0
    BY <1>6 DEF AddWord
  <2>2. Recurs(Partial(words), words, Count)  BY PartialOfWords DEF TypeOK
  <2>3. Partial(words)[idx + 1] = Partial(words)[idx] + words[idx + 1]
    <3>1. idx + 1 \in 1 .. Count /\ (idx + 1) - 1 = idx  BY <1>0, <2>1
    <3>. QED  BY <2>2, <3>1 DEF Recurs
  <2>. QED  BY <2>1, <2>3, <1>0
<1>7. CASE Fold  BY <1>7 DEF Fold
<1>8. CASE Fetch \/ derive  BY <1>8 DEF Fetch, derive
<1>9. CASE UNCHANGED vars  BY <1>9
<1>. QED
  BY <1>1, <1>2, <1>3, <1>4, <1>5, <1>6, <1>7, <1>8, <1>9 DEF Next

\* The checksum is right where compute_ip_checksum returns it.
LEMMA FoldVerifies == TypeOK /\ AddLoop /\ Fold => ChecksumVerifies'
<1>. SUFFICES ASSUME TypeOK, AddLoop, Fold PROVE ChecksumVerifies'  OBVIOUS
<1>0. /\ WordMax \in Nat \ {0, 1} /\ Count \in Nat \ {0}
      /\ Count - 1 <= WordMax + 1
  BY HelpersAssumption
<1>1. /\ words' = words /\ sum' = sum /\ ret' = Inverted(Folded)
      /\ words[CHECK] = 0 /\ sum = Partial(words)[Count]
      /\ words \in [1 .. Count -> Word]
  BY DEF Fold, AddLoop, TypeOK, summed
<1>. DEFINE r == WordMax - (Folded % (WordMax + 1))
<1>2. sum \in Nat /\ sum <= (WordMax + 1) * WordMax
  <2>1. sum \in 0 .. (Count - 1) * WordMax  BY <1>0, <1>1, PartialBound
  <2>2. (Count - 1) * WordMax <= (WordMax + 1) * WordMax
    <3>1. (WordMax + 1 - (Count - 1)) * WordMax >= 0  BY <1>0
    <3>. QED  BY <3>1, <1>0
  <2>3. (Count - 1) * WordMax \in Nat /\ (WordMax + 1) * WordMax \in Nat  BY <1>0
  <2>. QED  BY <2>1, <2>2, <2>3
<1>3. r \in Word /\ r \in Nat
  <2>. DEFINE q == sum \div (WordMax + 1)
              m == sum % (WordMax + 1)
              b == WordMax + 1
  <2>0. b \in Nat \ {0} /\ b - 1 = WordMax  BY <1>0
  <2>1. q \in Nat /\ m \in 0 .. WordMax
    <3>. HIDE DEF b
    <3>1. sum \div b \in Nat /\ sum % b \in 0 .. b - 1  BY <1>2, <2>0, DivMod
    <3>. QED  BY <3>1, <2>0 DEF b
  <2>2. Folded \in Nat  BY <2>1, <1>0 DEF Folded
  <2>3. Folded % (WordMax + 1) \in 0 .. WordMax
    <3>. HIDE DEF b
    <3>1. Folded % b \in 0 .. b - 1  BY <2>2, <2>0, DivMod
    <3>. QED  BY <3>1, <2>0 DEF b
  <2>. QED  BY <2>3, <1>0 DEF Word
<1>4. Total([words EXCEPT ![CHECK] = r]) = sum + r
  <2>. DEFINE v == [words EXCEPT ![CHECK] = r]
  <2>1. Total(v) = Partial(v)[Count]  BY DEF Total, Partial
  <2>. HIDE DEF r
  <2>2. Partial(v)[Count] = Partial(words)[Count] + r  BY <1>1, <1>3, PartialStore
  <2>. QED  BY <2>1, <2>2, <1>1
<1>5. (sum + r) % WordMax = 0 <=> Folded <= WordMax
  BY <1>0, <1>2, FoldOnce DEF Folded
<1>6. ret' = r /\ Folded' = Folded  BY <1>1 DEF Inverted, Folded
<1>. HIDE DEF r
<1>. QED  BY <1>1, <1>4, <1>5, <1>6 DEF ChecksumVerifies

-----------------------------------------------------------------------------
(* Calls that take one step.                                               *)

\* A CPU finds its own area.
LEMMA FetchLocal == Fetch => FetchIsLocal'
<1>. SUFFICES ASSUME Fetch PROVE FetchIsLocal'  OBVIOUS
<1>. DEFINE c == cpu'
            m == mem'
<1>0. NCPU \in Nat \ {0}  BY HelpersAssumption
<1>1. /\ c \in Nat /\ c < NCPU
      /\ \A d \in 0 .. NCPU - 1 : m[d * 4 + 0] = d
  BY <1>0 DEF Fetch, Memory, __per_cpu_offset, AreaSize, cpu_number
<1>2. m[c * 4] = c
  <2>1. c \in 0 .. NCPU - 1 /\ c * 4 + 0 = c * 4  BY <1>0, <1>1
  <2>. QED  BY <2>1, <1>1
<1>. HIDE DEF c, m
<1>3. ASSUME NEW a \in Nat
      PROVE  this_cpu_read(m, c, a, 1) = <<m[c * 4 + a]>>
  <2>1. c * 4 + a + 1 - 1 = c * 4 + a  BY <1>1
  <2>2. this_cpu_read(m, c, a, 1) = [i \in 1 .. 1 |-> m[c * 4 + a + i - 1]]
    BY DEF this_cpu_read, __per_cpu_offset, AreaSize
  <2>3. [i \in 1 .. 1 |-> m[c * 4 + a + i - 1]] = <<m[c * 4 + a + 1 - 1]>>
    OBVIOUS
  <2>. QED  BY <2>1, <2>2, <2>3
<1>4. this_cpu_read(m, c, cpu_number, 1) = <<c>>
  <2>1. c * 4 + 0 = c * 4  BY <1>1
  <2>. QED  BY <1>2, <1>3, <2>1 DEF cpu_number
<1>5. this_cpu_ptr(m, c, current_task) = 2 + c * 4
  BY <1>4 DEF this_cpu_ptr, __per_cpu_offset, AreaSize, current_task
<1>6. /\ ret'.id = <<c>> /\ ret'.addr = 2 + c * 4
      /\ ret'.node = [i \in 1 .. 2 |-> m[c * 4 + 1 + i - 1]]
      /\ ret'.task = [i \in 1 .. 2 |-> m[c * 4 + 2 + i - 1]]
  BY <1>4, <1>5 DEF Fetch, this_cpu_read, __per_cpu_offset, AreaSize,
                    numa_node, current_task, c, m
<1>7. ret'.task = [i \in 1 .. 2 |-> m[ret'.addr + i - 1]]
  <2>1. \A i \in 1 .. 2 : c * 4 + 2 + i - 1 = (2 + c * 4) + i - 1  BY <1>1
  <2>. QED  BY <1>6, <2>1
<1>8. ret'.node[1] = m[c * 4 + 1] /\ ret'.node[2] = ret'.task[1]
  <2>1. /\ c * 4 + 1 + 1 - 1 = c * 4 + 1
        /\ c * 4 + 1 + 2 - 1 = c * 4 + 2 + 1 - 1  BY <1>1
  <2>2. /\ ret'.node[1] = m[c * 4 + 1 + 1 - 1]
        /\ ret'.node[2] = m[c * 4 + 1 + 2 - 1]
        /\ ret'.task[1] = m[c * 4 + 2 + 1 - 1]
    BY <1>6
  <2>. QED  BY <2>1, <2>2
<1>. QED
  BY <1>6, <1>7, <1>8 DEF FetchIsLocal, AreaSize, numa_node, c, m

\* What the macro and the compiler accept is plain data.
LEMMA DeriveAccepts == derive => AcceptedIsPlain'
<1>. SUFFICES ASSUME derive, ret' = "new", decl'.data = "struct",
                     NEW i \in DOMAIN decl'.fields
              PROVE  Plain(decl'.fields[i])
     BY DEF AcceptedIsPlain
<1>1. ensure_numberic(decl') = "new"  BY DEF derive
<1>2. direct_packet_access_ok(decl'.fields[i])  BY <1>1 DEF ensure_numberic
<1>. QED  BY <1>2 DEF direct_packet_access_ok, Plain

-----------------------------------------------------------------------------
(* The invariant holds.                                                    *)

\* The invariant is inductive.
LEMMA StepInvariant == IInv /\ [Next]_vars => IInv'
<1>. SUFFICES ASSUME IInv, [Next]_vars PROVE IInv'  OBVIOUS
<1>. USE DEF IInv
<1>1. TypeOK' /\ CompareLoop' /\ CopyLoop' /\ AddLoop'
  BY TypeStep, CompareLoopStep, CopyLoopStep, AddLoopStep
<1>2. CompareIsOrder' /\ CommIsString'
  <2>1. CASE CompareDiffer \/ CompareEqual
    <3>1. pc' = "compared"  BY <2>1 DEF CompareDiffer, CompareEqual
    <3>. QED  BY <2>1, <3>1, CompareDecides DEF CommIsString
  <2>2. CASE Terminate \/ \E n \in 0 .. MaxN : get_comm(n)
    <3>1. pc' # "compared"  BY <2>2 DEF Terminate, get_comm
    <3>. QED  BY <2>2, <3>1, CopyEnds DEF CompareIsOrder
  <2>3. CASE bpf_strcmp \/ bpf_strncmp \/ CompareNext \/ Rename \/ CopyByte
    <3>1. pc' \notin {"compared", "copied"}
      BY <2>3 DEF bpf_strcmp, bpf_strncmp, CompareNext, Rename, CopyByte
    <3>. QED  BY <3>1 DEF CompareIsOrder, CommIsString
  <2>4. CASE \/ compute_ip_checksum \/ AddWord \/ Fold \/ Fetch \/ derive
    <3>1. pc' \notin {"compared", "copied"}
      BY <2>4 DEF compute_ip_checksum, AddWord, Fold, Fetch, derive
    <3>. QED  BY <3>1 DEF CompareIsOrder, CommIsString
  <2>5. CASE UNCHANGED vars
    BY <2>5 DEF vars, compared, named, CompareIsOrder, CommIsString, Less
  <2>. QED  BY <2>1, <2>2, <2>3, <2>4, <2>5 DEF Next
<1>3. ChecksumVerifies' /\ FetchIsLocal' /\ AcceptedIsPlain'
  <2>1. CASE Fold
    <3>1. pc' = "added"  BY <2>1 DEF Fold
    <3>. QED  BY <2>1, <3>1, FoldVerifies DEF FetchIsLocal, AcceptedIsPlain
  <2>2. CASE Fetch
    <3>1. pc' = "fetched"  BY <2>2 DEF Fetch
    <3>. QED  BY <2>2, <3>1, FetchLocal DEF ChecksumVerifies, AcceptedIsPlain
  <2>3. CASE derive
    <3>1. pc' = "derived"  BY <2>3 DEF derive
    <3>. QED  BY <2>3, <3>1, DeriveAccepts DEF ChecksumVerifies, FetchIsLocal
  <2>4. CASE \/ bpf_strcmp \/ bpf_strncmp
             \/ CompareNext \/ CompareDiffer \/ CompareEqual
             \/ Rename \/ CopyByte \/ Terminate \/ compute_ip_checksum \/ AddWord
             \/ \E n \in 0 .. MaxN : get_comm(n)
    <3>1. pc' \notin {"added", "fetched", "derived"}
      BY <2>4 DEF bpf_strcmp, bpf_strncmp, CompareNext, CompareDiffer, CompareEqual,
                  Rename, CopyByte, Terminate, compute_ip_checksum, AddWord, get_comm
    <3>. QED  BY <3>1 DEF ChecksumVerifies, FetchIsLocal, AcceptedIsPlain
  <2>5. CASE UNCHANGED vars
    BY <2>5 DEF vars, summed, percpu, ChecksumVerifies, FetchIsLocal, AcceptedIsPlain,
                Folded
  <2>. QED  BY <2>1, <2>2, <2>3, <2>4, <2>5 DEF Next
<1>. QED  BY <1>1, <1>2, <1>3

\* It holds in every behaviour.
LEMMA InvariantHolds == Spec => []IInv
<1>1. Init => IInv  BY InitInvariant
<1>2. IInv /\ [Next]_vars => IInv'  BY StepInvariant
<1>. QED  BY <1>1, <1>2, PTL DEF Spec

-----------------------------------------------------------------------------
(* Theorems.                                                               *)

\* Every position and buffer of the helpers has its type: in particular no size
\* is negative, which in the code would be a size that wrapped around.
THEOREM HelpersTypeCorrect == Spec => []TypeOK
<1>1. IInv => TypeOK  BY DEF IInv
<1>. QED  BY <1>1, InvariantHolds, PTL

\* bpf_strcmp and bpf_strncmp order strings of every length.
THEOREM StringsInOrder == Spec => []CompareIsOrder
<1>1. IInv => CompareIsOrder  BY DEF IInv
<1>. QED  BY <1>1, InvariantHolds, PTL

\* get_comm gives every buffer a string, for every history of renames.
THEOREM NamesTerminated == Spec => []CommIsString
<1>1. IInv => CommIsString  BY DEF IInv
<1>. QED  BY <1>1, InvariantHolds, PTL

\* compute_ip_checksum is right for headers of every length and word, as far as
\* one fold goes: the receiver's check passes exactly when no carry is left.
THEOREM ChecksumsRight == Spec => []ChecksumVerifies
<1>1. IInv => ChecksumVerifies  BY DEF IInv
<1>. QED  BY <1>1, InvariantHolds, PTL

\* this_cpu_read and this_cpu_ptr find the area of the CPU, for any number of
\* CPUs and whatever the areas hold.
THEOREM FetchesLocal == Spec => []FetchIsLocal
<1>1. IInv => FetchIsLocal  BY DEF IInv
<1>. QED  BY <1>1, InvariantHolds, PTL

\* derive(FieldTransmute) gives no constructor to a struct that is not plain
\* data, however deep its types and whatever their names.
THEOREM DerivesPlain == Spec => []AcceptedIsPlain
<1>1. IInv => AcceptedIsPlain  BY DEF IInv
<1>. QED  BY <1>1, InvariantHolds, PTL
=============================================================================
