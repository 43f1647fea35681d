--------------------------- MODULE SyscallProofs ---------------------------
(***************************************************************************)
(* Theorems about system calls: the types (CallsTypeOK), the registers     *)
(* that a caller gets back (RegistersAreKept) and the statistics           *)
(* (StatisticsAreRight).  The inductive invariant has three parts.         *)
(* DataInv bounds the counters, the pids and the times, FrameInv says what *)
(* is on the stack at each step of syscall_entry, and StatInv how far the  *)
(* statistics are ahead of the callers while a call is under way.          *)
(***************************************************************************)
EXTENDS Syscall, SequenceTheorems, Lemmas

StackWords == Words \cup {CPU_FRAME}

(* A stack of sixteen words, the last of them f and nine words b below it. *)
Framed(s, b, f) ==
  /\ s \in Seq(StackWords) /\ Len(s) = 16 /\ s[16] = f
  /\ \A i \in 1 .. 9 : s[i + 6] = b[i]

(* A stack of three parts, the last one of a single word.                  *)
LEMMA FrameSeq ==
  ASSUME NEW a \in Seq(StackWords), Len(a) = 6, NEW b \in Seq(StackWords), Len(b) = 9,
         NEW f \in StackWords
  PROVE  Framed(a \o b \o <<f>>, b, f)
<1> DEFINE ab == a \o b
<1>1. ab \in Seq(StackWords) /\ Len(ab) = 15 /\ \A i \in 1 .. 9 : ab[i + 6] = b[i]
  <2>1. /\ ab \in Seq(StackWords) /\ Len(ab) = Len(a) + Len(b)
        /\ \A i \in 1 .. Len(a) + Len(b) : ab[i] = IF i <= Len(a) THEN a[i] ELSE b[i - Len(a)]
    BY ConcatProperties
  <2> HIDE DEF ab
  <2>2. ASSUME NEW i \in 1 .. 9 PROVE ab[i + 6] = b[i]
    <3>1. i + 6 \in 1 .. Len(a) + Len(b) /\ ~(i + 6 <= Len(a)) /\ (i + 6) - Len(a) = i
      OBVIOUS
    <3> QED BY <2>1, <3>1
  <2> QED BY <2>1, <2>2
<1> HIDE DEF ab
<1>2. <<f>> \in Seq(StackWords) /\ Len(<<f>>) = 1 /\ <<f>>[1] = f
  OBVIOUS
<1> DEFINE u == <<f>>
<1>3. u \in Seq(StackWords) /\ Len(u) = 1 /\ u[1] = f
  BY <1>2
<1> HIDE DEF u
<1>4. /\ ab \o u \in Seq(StackWords) /\ Len(ab \o u) = Len(ab) + Len(u)
      /\ \A i \in 1 .. Len(ab) + Len(u) : (ab \o u)[i] =
           IF i <= Len(ab) THEN ab[i] ELSE u[i - Len(ab)]
  BY <1>1, <1>3, ConcatProperties, ZenonT(30)
<1> DEFINE w == ab \o u
<1> HIDE DEF w
<1>5. /\ w \in Seq(StackWords) /\ Len(w) = 16
      /\ \A i \in 1 .. 16 : w[i] = IF i <= 15 THEN ab[i] ELSE u[i - 15]
  <2>1. Len(ab) + Len(u) = 16 /\ Len(ab) = 15
    BY <1>1, <1>3
  <2>2. w \in Seq(StackWords) /\ Len(w) = Len(ab) + Len(u)
    BY <1>4 DEF w
  <2>3. \A i \in 1 .. Len(ab) + Len(u) : w[i] = IF i <= Len(ab) THEN ab[i] ELSE u[i - Len(ab)]
    BY <1>4 DEF w
  <2> QED BY <2>1, <2>2, <2>3
<1>6. w[16] = f /\ \A i \in 1 .. 9 : w[i + 6] = b[i]
  BY <1>1, <1>3, <1>5
<1>7. Framed(w, b, f)
  BY <1>5, <1>6 DEF Framed
<1> QED BY <1>7, Zenon DEF w, u, ab

(* What is left of such a stack when six words are dropped.                *)
LEMMA DropSeq ==
  ASSUME NEW s \in Seq(StackWords), Len(s) = 16
  PROVE  /\ SubSeq(s, 7, Len(s)) \in Seq(StackWords) /\ Len(SubSeq(s, 7, Len(s))) = 10
         /\ \A i \in 1 .. 10 : SubSeq(s, 7, Len(s))[i] = s[i + 6]
<1>1. PICK t : t = SubSeq(s, 7, 16)
  OBVIOUS
<1>2. \A i \in 7 .. 16 : s[i] \in StackWords
  <2>1. s \in [1 .. 16 -> StackWords]
    BY LenProperties
  <2>2. \A i \in 7 .. 16 : i \in 1 .. 16
    OBVIOUS
  <2> QED BY <2>1, <2>2, Zenon
<1>3. /\ t \in Seq(StackWords) /\ Len(t) = IF 7 <= 16 THEN 16 - 7 + 1 ELSE 0
      /\ \A i \in 1 .. 16 - 7 + 1 : t[i] = s[7 + i - 1]
  BY <1>1, <1>2, SubSeqProperties
<1>4. 16 - 7 + 1 = 10 /\ \A i \in 1 .. 10 : 7 + i - 1 = i + 6
  OBVIOUS
<1> QED BY <1>1, <1>3, <1>4

(* A sequence with one element replaced.                                   *)
Replaced(q, t, i, v) ==
  /\ q \in Seq(StackWords) /\ Len(q) = Len(t) /\ q[i] = v
  /\ \A j \in 1 .. Len(t) : j # i => q[j] = t[j]

(* That is what EXCEPT does to it.                                         *)
LEMMA ReplaceSeq ==
  ASSUME NEW t \in Seq(StackWords), NEW i \in 1 .. Len(t), NEW v \in StackWords
  PROVE  Replaced([t EXCEPT ![i] = v], t, i, v)
BY DEF Replaced

(* What is popped when the ninth of ten words is replaced, and what stays. *)
LEMMA PopSeq ==
  ASSUME NEW t \in Seq(StackWords), Len(t) = 10, NEW v \in StackWords
  PROVE  LET saved == [t EXCEPT ![9] = v]
         IN /\ \A i \in 1 .. 8 : saved[i] = t[i]
            /\ saved[9] = v
            /\ SubSeq(saved, 10, Len(saved)) = <<t[10]>>
<1>0. PICK n : n = 9
  OBVIOUS
<1>1. n \in 1 .. Len(t)
  BY <1>0
<1> DEFINE saved == [t EXCEPT ![n] = v]
<1>b. Replaced(saved, t, n, v)
  BY <1>1, ReplaceSeq
<1> HIDE DEF saved
<1>a. /\ saved \in Seq(StackWords) /\ Len(saved) = Len(t) /\ saved[n] = v
      /\ \A j \in 1 .. Len(t) : j # n => saved[j] = t[j]
  BY <1>b DEF Replaced
<1>2. /\ saved[9] = v /\ \A i \in 1 .. 10 : i # 9 => saved[i] = t[i]
  BY <1>0, <1>a
<1>3. saved \in Seq(StackWords) /\ Len(saved) = 10
  BY <1>a
<1>4. saved[10] \in StackWords /\ saved[10] = t[10]
  <2>1. 10 \in 1 .. Len(saved) /\ 10 \in 1 .. 10 /\ 10 # 9
    BY <1>3
  <2> QED BY <1>2, <1>3, <2>1, ElementOfSeq, Zenon
<1>5. SubSeq(saved, 10, Len(saved)) = <<t[10]>>
  <2>1. PICK w : w = SubSeq(saved, 10, 10)
    OBVIOUS
  <2>2. \A i \in 10 .. 10 : saved[i] \in StackWords
    BY <1>4
  <2>3. /\ w \in Seq(StackWords) /\ Len(w) = IF 10 <= 10 THEN 10 - 10 + 1 ELSE 0
        /\ \A i \in 1 .. 10 - 10 + 1 : w[i] = saved[10 + i - 1]
    BY <2>1, <2>2, SubSeqProperties
  <2>4. w \in Seq(StackWords) /\ Len(w) = 1 /\ w[1] = t[10]
    BY <1>4, <2>3
  <2>5. w = <<t[10]>>
    BY <2>4, <1>4
  <2> QED BY <1>3, <2>1, <2>5
<1>6. /\ \A i \in 1 .. 8 : saved[i] = t[i]
      /\ saved[9] = v /\ SubSeq(saved, 10, Len(saved)) = <<t[10]>>
  BY <1>2, <1>5
<1> QED BY <1>0, <1>6 DEF saved

-----------------------------------------------------------------------------
(* Words and ints.                                                         *)

IsInt(i) == i \in Int /\ Word(i) \in Words /\ i = Signed(Word(i))

(* A word has 12 bits at least.                                            *)
LEMMA WordSize == WORD \in Nat /\ WORD >= 4096 /\ HALF \in Nat \ {0} /\ HALF <= WORD
<1>1. HALF \in Nat /\ HALF >= 64
  BY SyscallAssumption DEF NR_SYSCALLS
<1>2. \A h \in Nat : h >= 64 => h * h \in Nat /\ h * h >= 64 * h
  OBVIOUS
<1>3. HALF * HALF \in Nat /\ HALF * HALF >= 64 * HALF
  BY <1>1, <1>2
<1> QED BY <1>1, <1>3 DEF WORD

(* The int that a word is read as.                                         *)
LEMMA SignedWord ==
  ASSUME NEW w \in Words
  PROVE  /\ IsInt(Signed(w)) /\ Word(Signed(w)) = w /\ Signed(w) \in Int
         /\ Signed(w) >= 0 => Signed(w) = w
<1> USE WordSize
<1>1. w \in Nat /\ w < WORD
  BY DEF Words
<1>2. Word(Signed(w)) = w
  <2>1. \A v \in 0 .. WORD - 1 : v % WORD = v /\ (v - WORD) % WORD = v
    <3> SUFFICES ASSUME NEW v \in 0 .. WORD - 1 PROVE v % WORD = v /\ (v - WORD) % WORD = v
      OBVIOUS
    <3>1. (WORD * (-1) + v) % WORD = v /\ (WORD * 0 + v) % WORD = v
      <4>1. WORD \in Nat \ {0} /\ -1 \in Int /\ 0 \in Int
        OBVIOUS
      <4> QED BY <4>1, ModUnique
    <3>2. WORD * (-1) + v = v - WORD /\ WORD * 0 + v = v
      OBVIOUS
    <3> QED BY <3>1, <3>2
  <2> QED BY <1>1, <2>1 DEF Word, Signed
<1>3. Signed(w) \in Int /\ (Signed(w) >= 0 => Signed(w) = w)
  BY <1>1 DEF Signed
<1> QED BY <1>2, <1>3 DEF IsInt

(* A small number is the int that its word is read as.                     *)
LEMMA SmallInt ==
  ASSUME NEW i \in Nat, 2 * i < WORD
  PROVE  IsInt(i)
<1> USE WordSize
<1>1. i \in Words /\ Signed(i) = i
  BY DEF Words, Signed
<1> QED BY <1>1, SignedWord

(* So is minus one.                                                        *)
LEMMA MinusOneInt == IsInt(-1)
<1> USE WordSize
<1>1. WORD - 1 \in Words /\ Signed(WORD - 1) = -1
  BY DEF Words, Signed
<1> QED BY <1>1, SignedWord

-----------------------------------------------------------------------------
(* The stack while handle_syscall runs for syscall_entry.                  *)

Parameters(e, r) == <<e, r.ebx, r.ecx, r.edx, r.esi, r.edi>>
Saved(r) ==
  <<r.es, r.ds, r.ebp, r.edi, r.esi, r.edx, r.ecx, r.ebx, r.eax>>
Frame(e, r) == Parameters(e, r) \o Saved(r) \o <<CPU_FRAME>>

(* Every field of a set of registers is a word.                            *)
LEMMA FieldsAreWords ==
  ASSUME NEW r \in [Registers -> Words]
  PROVE  /\ r.eax \in Words /\ r.ebx \in Words /\ r.ecx \in Words /\ r.edx \in Words
         /\ r.esi \in Words /\ r.edi \in Words /\ r.ebp \in Words
         /\ r.ds \in Words /\ r.es \in Words
BY DEF Registers

(* The two parts that syscall_entry pushes.                                *)
LEMMA PushedSeq ==
  ASSUME NEW e \in Words, NEW r \in [Registers -> Words]
  PROVE  /\ Parameters(e, r) \in Seq(StackWords) /\ Len(Parameters(e, r)) = 6
         /\ Saved(r) \in Seq(StackWords) /\ Len(Saved(r)) = 9
<1>1. Words \subseteq StackWords
  BY DEF StackWords
<1>2. Len(Parameters(e, r)) = 6 /\ Len(Saved(r)) = 9
  BY DEF Parameters, Saved
<1>3. Parameters(e, r) \in Seq(StackWords)
  BY <1>1, FieldsAreWords DEF Parameters
<1>4. Saved(r) \in Seq(StackWords)
  BY <1>1, FieldsAreWords DEF Saved
<1> QED BY <1>2, <1>3, <1>4

(* What the frame is made of, and what is left of it above the parameters. *)
LEMMA FrameIs ==
  ASSUME NEW e \in Words, NEW r \in [Registers -> Words]
  PROVE  LET t == SubSeq(Frame(e, r), 7, Len(Frame(e, r)))
         IN /\ Frame(e, r) \in Seq(StackWords) /\ Frame(e, r) # <<>>
            /\ t \in Seq(StackWords) /\ Len(t) = 10 /\ t[10] = CPU_FRAME
            /\ \A i \in 1 .. 9 : t[i] = Saved(r)[i]
<1>0. CPU_FRAME \in StackWords
  BY DEF StackWords
<1> DEFINE s == Frame(e, r)
<1> DEFINE t == SubSeq(s, 7, Len(s))
<1>1. /\ s \in Seq(StackWords) /\ Len(s) = 16 /\ s[16] = CPU_FRAME
      /\ \A i \in 1 .. 9 : s[i + 6] = Saved(r)[i]
  <2>1. PICK a : a = Parameters(e, r)
    OBVIOUS
  <2>2. PICK b : b = Saved(r)
    OBVIOUS
  <2>3. a \in Seq(StackWords) /\ Len(a) = 6 /\ b \in Seq(StackWords) /\ Len(b) = 9
    BY <2>1, <2>2, PushedSeq
  <2>4. s = a \o b \o <<CPU_FRAME>>
    BY <2>1, <2>2, Zenon DEF Frame
  <2>5. Framed(a \o b \o <<CPU_FRAME>>, b, CPU_FRAME)
    BY <1>0, <2>3, FrameSeq
  <2> HIDE DEF s
  <2>6. Framed(s, b, CPU_FRAME)
    BY <2>4, <2>5, Zenon
  <2> QED BY <2>2, <2>6 DEF Framed
<1> HIDE DEF s
<1>2. /\ t \in Seq(StackWords) /\ Len(t) = 10 /\ \A i \in 1 .. 10 : t[i] = s[i + 6]
  BY <1>1, DropSeq
<1> HIDE DEF t
<1>3. t[10] = CPU_FRAME /\ \A i \in 1 .. 9 : t[i] = Saved(r)[i]
  BY <1>1, <1>2
<1>4. s # <<>>
  <2>1. Len(<<>>) = 0
    OBVIOUS
  <2>2. Len(s) # Len(<<>>)
    BY <1>1, <2>1
  <2> QED BY <2>2, Zenon
<1> QED BY <1>1, <1>2, <1>3, <1>4 DEF s, t

(* The registers that syscall_entry pops from the words it has saved.      *)
Popped(q) ==
  [es |-> q[1], ds |-> q[2], ebp |-> q[3], edi |-> q[4], esi |-> q[5],
   edx |-> q[6], ecx |-> q[7], ebx |-> q[8], eax |-> q[9]]

(* They are the caller's, but for eax.                                     *)
Restored(q, r, v) ==
  /\ Popped(q) \in [Registers -> Words] /\ Popped(q)["eax"] = v
  /\ \A n \in Registers \ {"eax"} : Popped(q)[n] = r[n]

(* What is popped from the frame when v is stored over the saved eax, and  *)
(* what stays on the stack.                                                *)
LEMMA PopFrame ==
  ASSUME NEW e \in Words, NEW r \in [Registers -> Words], NEW v \in Words
  PROVE  LET saved == [SubSeq(Frame(e, r), 7, Len(Frame(e, r))) EXCEPT ![9] = v]
         IN Restored(saved, r, v) /\ SubSeq(saved, 10, Len(saved)) = <<CPU_FRAME>>
<1> DEFINE t == SubSeq(Frame(e, r), 7, Len(Frame(e, r)))
<1> DEFINE saved == [t EXCEPT ![9] = v]
<1>1. /\ t \in Seq(StackWords) /\ Len(t) = 10 /\ t[10] = CPU_FRAME
      /\ \A i \in 1 .. 9 : t[i] = Saved(r)[i]
  BY FrameIs
<1>2. v \in StackWords
  BY DEF StackWords
<1> HIDE DEF t
<1>3. /\ \A i \in 1 .. 8 : saved[i] = t[i]
      /\ saved[9] = v /\ SubSeq(saved, 10, Len(saved)) = <<t[10]>>
  BY <1>1, <1>2, PopSeq
<1> HIDE DEF saved
<1>4. /\ saved[1] = Saved(r)[1] /\ saved[2] = Saved(r)[2] /\ saved[3] = Saved(r)[3]
      /\ saved[4] = Saved(r)[4] /\ saved[5] = Saved(r)[5] /\ saved[6] = Saved(r)[6]
      /\ saved[7] = Saved(r)[7] /\ saved[8] = Saved(r)[8]
  <2>1. \A i \in 1 .. 8 : i \in 1 .. 9
    OBVIOUS
  <2>2. \A i \in 1 .. 8 : saved[i] = Saved(r)[i]
    BY <1>1, <1>3, <2>1, Zenon
  <2> QED BY <2>2
<1>5. /\ saved[1] = r.es /\ saved[2] = r.ds /\ saved[3] = r.ebp /\ saved[4] = r.edi
      /\ saved[5] = r.esi /\ saved[6] = r.edx /\ saved[7] = r.ecx /\ saved[8] = r.ebx
  BY <1>4 DEF Saved
<1>6. Restored(saved, r, v)
  BY <1>3, <1>5, FieldsAreWords DEF Restored, Popped, Registers
<1>7. SubSeq(saved, 10, Len(saved)) = <<CPU_FRAME>>
  BY <1>1, <1>3
<1> QED BY <1>6, <1>7 DEF saved, t

-----------------------------------------------------------------------------
(* The inductive invariant.                                                *)

(* No counter runs past the calls, no time past the ticks, and every       *)
(* result is an int.                                                       *)
DataInv ==
  /\ pc \in {"boot", "user", "syscall_entry", "handle_syscall", "return"}
  /\ total_calls \in 0 .. MaxCalls
  /\ pc \in {"syscall_entry", "handle_syscall"} => total_calls < MaxCalls
  /\ calls_per_type \in [0 .. NR_SYSCALLS - 1 -> Nat]
  /\ \A n \in 0 .. NR_SYSCALLS - 1 : calls_per_type[n] <= total_calls
  /\ next_pid \in 100 .. 100 + total_calls
  /\ timer_ticks \in 0 .. MaxTicks
  /\ current_time \in 0 .. timer_ticks \div TicksPerSecond
  /\ time_word \in 0 .. current_time
  /\ printed \in 0 .. MaxText
  /\ IsInt(result)

(* The caller's registers are in regs or on the stack, at every step.      *)
FrameInv ==
  /\ regs \in [Registers -> Words] /\ params \in [Registers -> Words]
  /\ caller \in [Registers -> Words]
  /\ pc = "syscall_entry" => regs = caller /\ stack = <<CPU_FRAME>>
  /\ pc \in {"handle_syscall", "return"} =>
       \/ stack = <<>> /\ regs = caller
       \/ \E e \in Words : stack = Frame(e, caller)
  /\ pc \in {"boot", "user"} =>
       /\ \A r \in Registers \ {"eax"} : regs[r] = caller[r]
       /\ total_calls > 0 => Signed(regs["eax"]) = result
       /\ stack \in {<<>>, <<CPU_FRAME>>}

(* The statistics are ahead of the callers by the result that is on its    *)
(* way back.                                                               *)
SumOfTypes == SumOn(calls_per_type, 0 .. NR_SYSCALLS - 1)
StatInv ==
  /\ answered = [ok |-> answered.ok, failed |-> answered.failed]
  /\ answered.ok \in Nat /\ answered.failed \in Nat
  /\ successful_calls = answered.ok + (IF pc = "return" /\ result >= 0 THEN 1 ELSE 0)
  /\ failed_calls = answered.failed + (IF pc = "return" /\ ~(result >= 0) THEN 1 ELSE 0)
  /\ total_calls = successful_calls + failed_calls
  /\ SumOfTypes \in successful_calls .. total_calls
  /\ DOMAIN calls_per_type = 0 .. NR_SYSCALLS - 1
  /\ \A n \in 0 .. NR_SYSCALLS - 1 :
       /\ calls_per_type[n] \in Nat
       /\ calls_per_type[n] > 0 => pc # "boot" /\ syscall_table[n] # "NULL"

IInv == DataInv /\ FrameInv /\ StatInv

(* Division is monotone.                                                   *)
LEMMA DivMonotone ==
  ASSUME NEW n \in Nat \ {0}, NEW a \in Nat, NEW b \in Nat, a <= b
  PROVE  a \div n \in Nat /\ b \div n \in Nat /\ a \div n <= b \div n
<1> DEFINE p == a \div n
<1> DEFINE q == b \div n
<1>1. /\ a = n * p + (a % n) /\ p \in Nat /\ a % n \in 0 .. n - 1
      /\ b = n * q + (b % n) /\ q \in Nat /\ b % n \in 0 .. n - 1
  OBVIOUS
<1> HIDE DEF p, q
<1>2. \A x, y \in Nat : x > y => n * x >= n * y + n
  <2> TAKE x \in Nat, y \in Nat
  <2>1. HAVE x > y
  <2>2. PICK d \in Nat : x = y + 1 + d
    <3>1. x - y - 1 \in Nat /\ x = y + 1 + (x - y - 1)
      BY <2>1
    <3> QED BY <3>1
  <2>3. n * (y + 1 + d) = n * y + n + n * d /\ n * d \in Nat /\ n * y \in Nat
    OBVIOUS
  <2> QED BY <2>2, <2>3
<1>3. p > q => n * p >= n * q + n
  BY <1>1, <1>2
<1>4. n * p \in Nat /\ n * q \in Nat
  BY <1>1
<1>5. ~(p > q)
  <2> DEFINE np == n * p
  <2> DEFINE nq == n * q
  <2> HIDE DEF np, nq
  <2>1. a = np + (a % n) /\ b = nq + (b % n) /\ np \in Nat /\ nq \in Nat
    BY <1>1, <1>4 DEF np, nq
  <2>2. p > q => np >= nq + n
    BY <1>3 DEF np, nq
  <2> QED BY <1>1, <2>1, <2>2
<1> QED BY <1>1, <1>5 DEF p, q

(* What sys_write prints.                                                  *)
LEMMA WritesText ==
  ASSUME NEW m \in Nat, NEW n \in 0 .. m, NEW i \in Int
  PROVE  Max({0, Min({n, i})}) \in 0 .. m
<1>1. Min({n, i}) \in {n, i} /\ Min({n, i}) <= n
  <2> DEFINE P(x) == x \in {n, i} /\ \A y \in {n, i} : x <= y
  <2>1. \E x : P(x)
    <3>1. CASE n <= i
      <4>1. P(n)
        BY <3>1
      <4> QED BY <4>1
    <3>2. CASE ~(n <= i)
      <4>1. P(i)
        BY <3>2
      <4> QED BY <4>1
    <3> QED BY <3>1, <3>2
  <2> QED BY <2>1 DEF Min
<1> DEFINE z == Min({n, i})
<1>2. z \in Int /\ z <= m
  BY <1>1
<1> HIDE DEF z
<1>3. Max({0, z}) \in {0, z} /\ Max({0, z}) >= 0
  <2> DEFINE P(x) == x \in {0, z} /\ \A y \in {0, z} : x >= y
  <2>1. \E x : P(x)
    <3>1. CASE z >= 0
      <4>1. P(z)
        BY <1>2, <3>1
      <4> QED BY <4>1
    <3>2. CASE ~(z >= 0)
      <4>1. P(0)
        BY <1>2, <3>2
      <4> QED BY <4>1
    <3> QED BY <3>1, <3>2
  <2> QED BY <2>1, <1>2 DEF Max
<1>4. Max({0, z}) \in 0 .. m
  BY <1>2, <1>3
<1> QED BY <1>4 DEF z

-----------------------------------------------------------------------------
(* There are finitely many system calls.                                   *)
LEMMA FiniteTypes == IsFiniteSet(0 .. NR_SYSCALLS - 1)
<1>1. 0 \in Int /\ NR_SYSCALLS - 1 \in Int
  BY DEF NR_SYSCALLS
<1> QED BY <1>1, FS_Interval

(* The invariant holds initially.                                          *)
LEMMA InitIInv == Init => IInv
<1> SUFFICES ASSUME Init PROVE IInv
  OBVIOUS
<1>1. DataInv
  <2>1. IsInt(0)
    BY WordSize, SmallInt
  <2>2. 0 \div TicksPerSecond \in Nat
    BY SyscallAssumption, DivMonotone
  <2> QED BY <2>1, <2>2, SyscallAssumption DEF Init, DataInv, NR_SYSCALLS
<1>2. FrameInv
  <2>1. 0 \in Words
    BY WordSize DEF Words
  <2>2. [r \in Registers |-> 0] \in [Registers -> Words]
    BY <2>1
  <2> QED BY <2>2 DEF Init, FrameInv
<1>3. StatInv
  <2>1. SumOfTypes = 0
    <3> DEFINE S == 0 .. NR_SYSCALLS - 1
    <3> DEFINE h == [s \in SUBSET S |-> 0]
    <3>1. IsFiniteSet(S)
      BY FiniteTypes
    <3>2. \A n \in S : calls_per_type[n] = 0
      BY DEF Init
    <3>3. Accumulates(h, calls_per_type, S)
      BY <3>2 DEF Accumulates
    <3>4. SumOn(calls_per_type, S) = h[S]
      BY <3>1, <3>3, FoldIsSum
    <3> QED BY <3>4 DEF SumOfTypes
  <2>2. answered = [ok |-> 0, failed |-> 0] /\ pc # "return"
    BY DEF Init
  <2>3. successful_calls = 0 /\ failed_calls = 0 /\ total_calls = 0
    BY DEF Init
  <2>4. \A n \in 0 .. NR_SYSCALLS - 1 : calls_per_type[n] = 0
    BY DEF Init
  <2>5. DOMAIN calls_per_type = 0 .. NR_SYSCALLS - 1
    BY DEF Init
  <2> QED BY <2>1, <2>2, <2>3, <2>4, <2>5 DEF StatInv
<1> QED BY <1>1, <1>2, <1>3 DEF IInv

(* What a handler returns and changes stays within its bounds.             *)
LEMMA HandlerData ==
  ASSUME IInv, pc = "handle_syscall", Handler
  PROVE  /\ next_pid' \in 100 .. 100 + total_calls + 1
         /\ current_time' \in 0 .. timer_ticks \div TicksPerSecond
         /\ time_word' \in 0 .. current_time'
         /\ printed' \in 0 .. MaxText
         /\ IsInt(result')
<1> USE SyscallAssumption
<1>1. /\ total_calls \in Nat /\ total_calls < MaxCalls
      /\ next_pid \in 100 .. 100 + total_calls
      /\ timer_ticks \in 0 .. MaxTicks
      /\ current_time \in 0 .. timer_ticks \div TicksPerSecond
      /\ time_word \in 0 .. current_time
  BY DEF IInv, DataInv
<1>2. params.ebx \in Words /\ params.edx \in Words
  BY FieldsAreWords DEF IInv, FrameInv
<1>3. /\ timer_ticks \div TicksPerSecond \in Nat
      /\ timer_ticks \div TicksPerSecond <= MaxTicks \div TicksPerSecond
      /\ MaxTicks \div TicksPerSecond \in Nat
  BY <1>1, DivMonotone
<1>4. \A i \in {0, 1} : IsInt(i)
  BY WordSize, SmallInt
<1>a. current_time \in Nat /\ time_word \in Nat
  BY <1>1, <1>3
<1>5. ASSUME NEW h, NEW v, IsInt(v), Returns(h, v)
      PROVE  /\ next_pid' \in 100 .. 100 + total_calls + 1
             /\ current_time' \in 0 .. timer_ticks \div TicksPerSecond
             /\ time_word' \in 0 .. current_time'
             /\ printed' \in 0 .. MaxText
             /\ IsInt(result')
  <2>1. /\ next_pid' = next_pid /\ current_time' = current_time
        /\ time_word' = time_word /\ printed' = 0 /\ result' = v
    BY <1>5 DEF Returns
  <2>2. IsInt(result')
    BY <1>5, <2>1, Zenon
  <2> QED BY <1>1, <2>1, <2>2
<1>6. CASE sys_exit
  BY <1>4, <1>5, <1>6, Zenon DEF sys_exit
<1>7. CASE sys_read
  <2>1. IsInt(IF params.ebx = 0 THEN 0 ELSE -1)
    BY <1>4, MinusOneInt
  <2> QED BY <1>5, <1>7, <2>1, Zenon DEF sys_read
<1>8. CASE sys_getpid
  BY <1>4, <1>5, <1>8, Zenon DEF sys_getpid
<1>9. CASE sys_getuid
  BY <1>4, <1>5, <1>9, Zenon DEF sys_getuid
<1>10. CASE sys_brk
  BY <1>2, <1>5, <1>10, SignedWord, Zenon DEF sys_brk
<1>11. CASE sys_pause
  BY <1>4, <1>5, <1>11, Zenon DEF sys_pause
<1>12. CASE sys_kill
  BY <1>4, <1>5, <1>12, Zenon DEF sys_kill
<1>13. CASE sys_fork
  <2>1. /\ next_pid' = next_pid + 1 /\ current_time' = current_time
        /\ time_word' = time_word /\ printed' = 0 /\ result' = next_pid
    BY <1>13 DEF sys_fork
  <2>2. next_pid \in Nat /\ 2 * next_pid < WORD
    BY <1>1, WordSize, RangeAssumption
  <2>3. IsInt(result')
    BY <2>1, <2>2, SmallInt
  <2> QED BY <1>1, <2>1, <2>3
<1>14. CASE sys_write
  <2>1. next_pid' = next_pid /\ current_time' = current_time /\ time_word' = time_word
    BY <1>14 DEF sys_write
  <2>2. printed' \in 0 .. MaxText /\ IsInt(result')
    <3>1. Signed(params.edx) \in Int /\ IsInt(Signed(params.edx))
      BY <1>2, SignedWord
    <3>2. CASE /\ result' = Signed(params.edx)
               /\ \E text \in 0 .. MaxText : printed' = Max({0, Min({text, Signed(params.edx)})})
      BY <3>1, <3>2, WritesText
    <3>3. CASE result' = -1 /\ printed' = 0
      BY <3>3, MinusOneInt
    <3> QED BY <1>14, <3>2, <3>3 DEF sys_write
  <2> QED BY <1>1, <2>1, <2>2
<1>15. CASE sys_time
  <2> DEFINE now == timer_ticks \div TicksPerSecond
  <2>1. /\ next_pid' = next_pid /\ current_time' = now /\ printed' = 0 /\ result' = now
        /\ time_word' = IF params.ebx # 0 THEN now ELSE time_word
    BY <1>15 DEF sys_time
  <2>2. now \in Nat /\ 2 * now < WORD
    <3>1. now \in Nat /\ now <= MaxTicks \div TicksPerSecond
      BY <1>3
    <3> HIDE DEF now
    <3> QED BY <3>1, <1>3, WordSize, RangeAssumption
  <2>3. IsInt(result')
    BY <2>1, <2>2, SmallInt
  <2>4. current_time <= now
    BY <1>1, <1>3
  <2> HIDE DEF now
  <2>5. time_word' \in 0 .. now /\ current_time' \in 0 .. now
    BY <1>1, <1>a, <2>1, <2>2, <2>4
  <2> QED BY <1>1, <2>1, <2>3, <2>5 DEF now
<1> QED
  BY <1>6, <1>7, <1>8, <1>9, <1>10, <1>11, <1>12, <1>13, <1>14, <1>15, Zenon DEF Handler

(* Every step keeps DataInv.                                               *)
LEMMA DataStep == IInv /\ [Next]_vars => DataInv'
<1> SUFFICES ASSUME IInv, [Next]_vars PROVE DataInv'
  OBVIOUS
<1> USE SyscallAssumption
<1>0. DataInv
  BY DEF IInv
<1>1. ASSUME UNCHANGED <<stats, effects, timer_ticks, result>>,
             pc' \in {"boot", "user", "syscall_entry", "handle_syscall", "return"},
             pc' \in {"syscall_entry", "handle_syscall"} => total_calls < MaxCalls
      PROVE  DataInv'
  BY <1>0, <1>1 DEF DataInv, stats, effects, IsInt, Word, Signed, Words, WORD, NR_SYSCALLS
<1>2. CASE init_syscalls
  BY <1>1, <1>2 DEF init_syscalls
<1>3. CASE timer_handler
  <2>1. /\ UNCHANGED <<stats, effects, pc, result>> /\ timer_ticks' = timer_ticks + 1
        /\ timer_ticks < MaxTicks
    BY <1>3 DEF timer_handler, cpu
  <2>2. UNCHANGED <<total_calls, calls_per_type, next_pid, current_time, time_word, printed, pc, result>>
    BY <2>1 DEF stats, effects
  <2>3. timer_ticks \in Nat /\ timer_ticks' \in 0 .. MaxTicks
    BY <1>0, <2>1 DEF DataInv
  <2>4. current_time' \in 0 .. timer_ticks' \div TicksPerSecond
    <3> DEFINE p == timer_ticks \div TicksPerSecond
    <3> DEFINE q == timer_ticks' \div TicksPerSecond
    <3>1. p \in Nat /\ q \in Nat /\ p <= q
      BY <2>1, <2>3, DivMonotone
    <3>2. current_time' \in 0 .. p
      BY <1>0, <2>2 DEF DataInv
    <3> HIDE DEF p, q
    <3>3. current_time' \in 0 .. q
      BY <3>1, <3>2
    <3> QED BY <3>3 DEF q
  <2> QED BY <1>0, <2>2, <2>3, <2>4 DEF DataInv, IsInt, Word, Signed, Words, WORD, NR_SYSCALLS
<1>4. ASSUME NEW n \in Numbers, NEW arg \in Arguments, NEW count \in Arguments,
             SYSCALL(n, arg, count) \/ CallHandleSyscall(n, arg, count)
      PROVE  DataInv'
  BY <1>1, <1>4 DEF SYSCALL, CallHandleSyscall
<1>5. CASE syscall_entry
  <2>1. pc = "syscall_entry" /\ pc' = "handle_syscall"
    BY <1>5 DEF syscall_entry
  <2>2. UNCHANGED <<stats, effects, timer_ticks, result>>
    BY <1>5 DEF syscall_entry
  <2> QED BY <1>0, <1>1, <2>1, <2>2 DEF DataInv
<1>6. CASE handle_syscall
  <2>1. /\ pc = "handle_syscall" /\ pc' = "return" /\ total_calls' = total_calls + 1
        /\ timer_ticks' = timer_ticks
    BY <1>6 DEF handle_syscall
  <2>2. total_calls \in Nat /\ total_calls' \in 0 .. MaxCalls
    BY <1>0, <2>1 DEF DataInv
  <2>3. /\ next_pid' \in 100 .. 100 + total_calls + 1
        /\ current_time' \in 0 .. timer_ticks \div TicksPerSecond
        /\ time_word' \in 0 .. current_time'
        /\ printed' \in 0 .. MaxText
        /\ IsInt(result')
    <3>1. CASE Handler
      BY <2>1, <3>1, HandlerData
    <3>2. CASE result' = -1 /\ UNCHANGED effects
      <4>1. UNCHANGED <<next_pid, current_time, time_word, printed>>
        BY <3>2 DEF effects
      <4>2. IsInt(result')
        BY <3>2, MinusOneInt
      <4>3. next_pid \in 100 .. 100 + total_calls
        BY <1>0 DEF DataInv
      <4>4. next_pid' \in 100 .. 100 + total_calls + 1
        BY <2>2, <4>1, <4>3
      <4>5. /\ current_time \in 0 .. timer_ticks \div TicksPerSecond
            /\ time_word \in 0 .. current_time /\ printed \in 0 .. MaxText
        BY <1>0 DEF DataInv
      <4> QED BY <4>1, <4>2, <4>4, <4>5
    <3> QED BY <1>6, <3>1, <3>2, Zenon DEF handle_syscall
  <2>4. /\ calls_per_type' \in [0 .. NR_SYSCALLS - 1 -> Nat]
        /\ \A n \in 0 .. NR_SYSCALLS - 1 : calls_per_type'[n] <= total_calls'
    <3>1. /\ calls_per_type \in [0 .. NR_SYSCALLS - 1 -> Nat]
          /\ \A n \in 0 .. NR_SYSCALLS - 1 : calls_per_type[n] <= total_calls
      BY <1>0 DEF DataInv
    <3>2. PICK m : calls_per_type' = [calls_per_type EXCEPT ![m] = @ + 1]
                   \/ calls_per_type' = calls_per_type
      BY <1>6 DEF handle_syscall
    <3> DEFINE f == calls_per_type'
    <3>3. \A n \in 0 .. NR_SYSCALLS - 1 : f[n] \in {calls_per_type[n], calls_per_type[n] + 1}
      BY <3>1, <3>2
    <3>4. f \in [0 .. NR_SYSCALLS - 1 -> Nat]
      <4>1. f = [n \in 0 .. NR_SYSCALLS - 1 |-> f[n]]
        BY <3>1, <3>2
      <4> HIDE DEF f
      <4>2. \A n \in 0 .. NR_SYSCALLS - 1 : f[n] \in Nat
        BY <3>1, <3>3
      <4> QED BY <4>1, <4>2
    <3> QED BY <2>1, <2>2, <3>1, <3>3, <3>4
  <2>5. IsInt(result)' /\ (0 .. timer_ticks \div TicksPerSecond)' = 0 .. timer_ticks \div TicksPerSecond
    BY <2>1, <2>3 DEF IsInt, Word, Signed, Words, WORD
  <2>6. next_pid' \in 100 .. 100 + total_calls'
    BY <2>1, <2>2, <2>3
  <2>7. timer_ticks' \in 0 .. MaxTicks
    BY <1>0, <2>1 DEF DataInv
  <2> QED BY <2>1, <2>2, <2>3, <2>4, <2>5, <2>6, <2>7 DEF DataInv, NR_SYSCALLS
<1>7. CASE syscall_entry_returns
  <2>1. pc' = "user" /\ UNCHANGED <<stats, effects, timer_ticks, result>>
    BY <1>7 DEF syscall_entry_returns
  <2> QED BY <1>1, <2>1
<1>8. CASE ReturnToC
  <2>1. pc' = "user" /\ UNCHANGED <<stats, effects, timer_ticks, result>>
    BY <1>8 DEF ReturnToC
  <2> QED BY <1>1, <2>1
<1>9. CASE UNCHANGED vars
  <2>1. UNCHANGED <<stats, effects, timer_ticks, result>> /\ pc' = pc
    BY <1>9 DEF vars, cpu
  <2> QED BY <1>0, <1>1, <2>1 DEF DataInv
<1> QED BY <1>2, <1>3, <1>4, <1>5, <1>6, <1>7, <1>8, <1>9 DEF Next

(* The registers that a caller loads are words.                            *)
LEMMA LoadedWords ==
  ASSUME NEW n \in Numbers, NEW arg \in Arguments, NEW count \in Arguments
  PROVE  Loaded(n, arg, count) \in [Registers -> Words]
<1>1. n \in Words /\ arg \in Words /\ count \in Words
  BY SyscallAssumption DEF Words
<1>2. 1001 \in Words /\ 1002 \in Words /\ 1003 \in Words /\ 1004 \in Words
      /\ 1005 \in Words /\ 1006 \in Words
  BY WordSize DEF Words
<1> QED BY <1>1, <1>2 DEF Loaded, Registers

(* The word that is left when the low half of eax has been replaced.       *)
LEMMA LowHalfReplaced ==
  ASSUME NEW w \in Words
  PROVE  w - (w % HALF) + KERNEL_DS \in Words
<1>1. HALF \in Nat \ {0} /\ HALF > 16 /\ WORD \in Nat /\ WORD = HALF * HALF
  BY WordSize, SyscallAssumption DEF NR_SYSCALLS, WORD
<1>2. w \in Nat /\ w < WORD
  BY <1>1 DEF Words
<1> DEFINE q == w \div HALF
<1>3. w = HALF * q + (w % HALF) /\ q \in Nat /\ w % HALF \in 0 .. HALF - 1
  BY <1>1, <1>2
<1> DEFINE p == HALF * q
<1>4. p \in Nat /\ w - (w % HALF) = p /\ p <= w
  BY <1>1, <1>3
<1>5. p + HALF <= WORD
  <2>1. q + 1 <= HALF
    <3> HIDE DEF q
    <3>1. ASSUME q >= HALF PROVE HALF * q >= HALF * HALF
      <4>1. PICK d \in Nat : q = HALF + d
        <5>1. q - HALF \in Nat /\ q = HALF + (q - HALF)
          BY <1>1, <1>3, <3>1
        <5> QED BY <5>1
      <4>2. HALF * (HALF + d) = HALF * HALF + HALF * d /\ HALF * d \in Nat /\ HALF * HALF \in Nat
        BY <1>1
      <4> QED BY <4>1, <4>2
    <3>2. ~(q >= HALF)
      BY <1>1, <1>2, <1>4, <3>1
    <3> QED BY <1>1, <1>3, <3>2
  <2> HIDE DEF q
  <2>2. PICK d \in Nat : HALF = q + 1 + d
    <3>1. HALF - q - 1 \in Nat /\ HALF = q + 1 + (HALF - q - 1)
      BY <1>1, <1>3, <2>1
    <3> QED BY <3>1
  <2>3. HALF * (q + 1 + d) = HALF * q + HALF + HALF * d /\ HALF * d \in Nat
    BY <1>1, <1>3
  <2> QED BY <1>1, <1>4, <2>2, <2>3
<1> HIDE DEF p, q
<1>6. p + 16 \in Words
  BY <1>1, <1>4, <1>5 DEF Words
<1> QED BY <1>4, <1>6 DEF KERNEL_DS

(* Every step keeps FrameInv.                                              *)
LEMMA FrameStep == IInv /\ [Next]_vars => FrameInv'
<1> SUFFICES ASSUME IInv, [Next]_vars PROVE FrameInv'
  OBVIOUS
<1>0. FrameInv
  BY DEF IInv
<1>t. /\ regs \in [Registers -> Words] /\ params \in [Registers -> Words]
      /\ caller \in [Registers -> Words]
  BY <1>0 DEF FrameInv
<1>w. Word(result) \in Words /\ Signed(Word(result)) = result
  BY DEF IInv, DataInv, IsInt
<1>1. ASSUME UNCHANGED <<regs, stack, params, caller, result, total_calls>>,
             pc' = pc \/ (pc = "boot" /\ pc' = "user")
      PROVE  FrameInv'
  BY <1>0, <1>1 DEF FrameInv, Frame, Parameters, Saved, Signed
<1>2. CASE init_syscalls
  BY <1>1, <1>2 DEF init_syscalls, stats
<1>3. CASE timer_handler
  BY <1>1, <1>3 DEF timer_handler, stats, cpu
<1>4. ASSUME NEW n \in Numbers, NEW arg \in Arguments, NEW count \in Arguments,
             SYSCALL(n, arg, count)
      PROVE  FrameInv'
  <2>1. /\ regs' = Loaded(n, arg, count) /\ caller' = regs' /\ params' = params
        /\ stack' = <<CPU_FRAME>> /\ pc' = "syscall_entry"
    BY <1>4 DEF SYSCALL
  <2>2. regs' \in [Registers -> Words]
    BY <2>1, LoadedWords
  <2> QED BY <1>t, <2>1, <2>2 DEF FrameInv
<1>5. ASSUME NEW n \in Numbers, NEW arg \in Arguments, NEW count \in Arguments,
             CallHandleSyscall(n, arg, count)
      PROVE  FrameInv'
  <2>1. /\ regs' = Loaded(n, arg, count) /\ caller' = regs' /\ params' = regs'
        /\ stack' = <<>> /\ pc' = "handle_syscall"
    BY <1>5 DEF CallHandleSyscall
  <2>2. regs' \in [Registers -> Words]
    BY <2>1, LoadedWords
  <2> QED BY <2>1, <2>2 DEF FrameInv
<1>6. CASE syscall_entry
  <2>1. PICK e : e = regs.eax - (regs.eax % HALF) + KERNEL_DS
    OBVIOUS
  <2>2. /\ pc = "syscall_entry" /\ pc' = "handle_syscall" /\ caller' = caller
        /\ regs' = [regs EXCEPT !.eax = e, !.ds = KERNEL_DS, !.es = KERNEL_DS]
        /\ stack' = <<e, regs.ebx, regs.ecx, regs.edx, regs.esi, regs.edi>>
                    \o <<regs.es, regs.ds, regs.ebp, regs.edi, regs.esi,
                         regs.edx, regs.ecx, regs.ebx, regs.eax>> \o stack
        /\ params' = regs'
    BY <1>6, <2>1 DEF syscall_entry
  <2>3. e \in Words
    BY <1>t, <2>1, FieldsAreWords, LowHalfReplaced
  <2>4. KERNEL_DS \in Words
    BY WordSize DEF KERNEL_DS, Words
  <2>5. regs' \in [Registers -> Words]
    BY <1>t, <2>2, <2>3, <2>4
  <2>6. regs = caller /\ stack = <<CPU_FRAME>>
    BY <1>0, <2>2 DEF FrameInv
  <2>7. stack' = Frame(e, regs)
    BY <2>2, <2>6, Zenon DEF Frame, Parameters, Saved
  <2>8. stack' = Frame(e, caller')
    BY <2>2, <2>6, <2>7, Zenon
  <2>9. \E x \in Words : stack' = Frame(x, caller')
    BY <2>3, <2>8
  <2>10. (\E x \in Words : stack = Frame(x, caller))'
    BY <2>9 DEF Frame, Parameters, Saved, Words, WORD
  <2> QED BY <1>t, <2>2, <2>5, <2>10 DEF FrameInv
<1>7. CASE handle_syscall
  <2>1. /\ pc = "handle_syscall" /\ pc' = "return"
        /\ UNCHANGED <<regs, stack, params, caller>>
    BY <1>7 DEF handle_syscall
  <2> QED BY <1>0, <2>1 DEF FrameInv, Frame, Parameters, Saved
<1>8. CASE syscall_entry_returns
  <2>1. /\ pc = "return" /\ pc' = "user" /\ stack # <<>>
        /\ UNCHANGED <<caller, params, result>>
    BY <1>8 DEF syscall_entry_returns
  <2>2. PICK e \in Words : stack = Frame(e, caller)
    BY <1>0, <2>1 DEF FrameInv
  <2> DEFINE saved == [SubSeq(stack, 7, Len(stack)) EXCEPT ![9] = Word(result)]
  <2>3. regs' = Popped(saved) /\ stack' = SubSeq(saved, 10, Len(saved))
    BY <1>8, Zenon DEF syscall_entry_returns, Popped
  <2>4. Restored(saved, caller, Word(result)) /\ SubSeq(saved, 10, Len(saved)) = <<CPU_FRAME>>
    BY <1>t, <1>w, <2>2, PopFrame
  <2> HIDE DEF saved
  <2>5. /\ regs' \in [Registers -> Words] /\ regs'["eax"] = Word(result)
        /\ \A n \in Registers \ {"eax"} : regs'[n] = caller[n]
    BY <2>3, <2>4, Zenon DEF Restored
  <2>6. Signed(regs["eax"])' = result'
    BY <1>w, <2>1, <2>5 DEF Signed
  <2>7. stack' = <<CPU_FRAME>>
    BY <2>3, <2>4
  <2> QED BY <1>t, <2>1, <2>5, <2>6, <2>7 DEF FrameInv
<1>9. CASE ReturnToC
  <2>1. /\ pc = "return" /\ pc' = "user" /\ stack = <<>>
        /\ UNCHANGED <<caller, params, result, stack>>
        /\ regs' = [regs EXCEPT !.eax = Word(result)]
    BY <1>9 DEF ReturnToC
  <2>2. regs = caller
    <3>1. ASSUME NEW e \in Words, stack = Frame(e, caller) PROVE FALSE
      BY <1>t, <2>1, <3>1, FrameIs
    <3> QED BY <1>0, <2>1, <3>1 DEF FrameInv
  <2>3. /\ regs' \in [Registers -> Words] /\ regs'["eax"] = Word(result)
        /\ \A n \in Registers \ {"eax"} : regs'[n] = caller[n]
    BY <1>t, <1>w, <2>1, <2>2 DEF Registers
  <2>4. Signed(regs["eax"])' = result'
    BY <1>w, <2>1, <2>3 DEF Signed
  <2> QED BY <1>t, <2>1, <2>3, <2>4 DEF FrameInv
<1>10. CASE UNCHANGED vars
  BY <1>1, <1>10 DEF vars, stats, cpu
<1> QED BY <1>2, <1>3, <1>4, <1>5, <1>6, <1>7, <1>8, <1>9, <1>10 DEF Next

(* One more call of one type is one more call.                             *)
LEMMA SumBump ==
  ASSUME NEW f, NEW T, IsFiniteSet(T), DOMAIN f = T, \A x \in T : f[x] \in Nat, NEW n \in T
  PROVE  SumOn([f EXCEPT ![n] = @ + 1], T) = SumOn(f, T) + 1
<1> DEFINE g == [f EXCEPT ![n] = @ + 1]
<1> DEFINE S == T \ {n}
<1>1. IsFiniteSet(S) /\ n \notin S /\ S \cup {n} = T
  BY FS_RemoveElement
<1>2. (\A y \in S : f[y] \in Nat /\ g[y] = f[y]) /\ g[n] = f[n] + 1 /\ f[n] \in Nat
  OBVIOUS
<1> HIDE DEF g, S
<1>3. SumOn(f, S) \in Nat /\ SumOn(g, S \cup {n}) = SumOn(f, S) + g[n]
  BY <1>1, <1>2, SumSteps
<1>4. SumOn(f, S \cup {n}) = SumOn(f, S) + f[n]
  BY <1>1, <1>2, SumSteps
<1>5. SumOn(g, T) = SumOn(f, S) + g[n] /\ SumOn(f, T) = SumOn(f, S) + f[n]
  BY <1>1, <1>3, <1>4, Zenon
<1>6. SumOn(g, T) = SumOn(f, T) + 1
  BY <1>2, <1>3, <1>5
<1> QED BY <1>6 DEF g

(* Every step keeps StatInv.                                               *)
LEMMA StatStep == IInv /\ [Next]_vars => StatInv'
<1> SUFFICES ASSUME IInv, [Next]_vars PROVE StatInv'
  OBVIOUS
<1>0. StatInv
  BY DEF IInv
<1> DEFINE T == 0 .. NR_SYSCALLS - 1
<1>f. IsFiniteSet(T)
  BY FiniteTypes
<1>1. ASSUME UNCHANGED <<stats, answered, result>>,
             pc' = pc \/ (pc # "return" /\ pc' \notin {"return", "boot"}),
             syscall_table' = syscall_table \/ pc = "boot"
      PROVE  StatInv'
  <2>1. UNCHANGED <<total_calls, successful_calls, failed_calls, calls_per_type, answered, result>>
    BY <1>1 DEF stats
  <2>2. SumOfTypes' = SumOfTypes
    BY <2>1 DEF SumOfTypes, NR_SYSCALLS
  <2>3. \A n \in T : calls_per_type'[n] > 0 => pc' # "boot" /\ syscall_table'[n] # "NULL"
    BY <1>0, <1>1, <2>1 DEF StatInv
  <2>4. pc' = "return" <=> pc = "return"
    BY <1>1
  <2> QED BY <1>0, <2>1, <2>2, <2>3, <2>4 DEF StatInv
<1>2. CASE init_syscalls
  BY <1>1, <1>2 DEF init_syscalls
<1>3. CASE timer_handler
  BY <1>1, <1>3 DEF timer_handler, cpu
<1>4. ASSUME NEW n \in Numbers, NEW arg \in Arguments, NEW count \in Arguments,
             SYSCALL(n, arg, count) \/ CallHandleSyscall(n, arg, count)
      PROVE  StatInv'
  BY <1>1, <1>4 DEF SYSCALL, CallHandleSyscall
<1>5. CASE syscall_entry
  <2>1. /\ pc = "syscall_entry" /\ pc' = "handle_syscall" /\ syscall_table' = syscall_table
        /\ UNCHANGED <<stats, answered, result>>
    BY <1>5 DEF syscall_entry
  <2> QED BY <1>1, <2>1
<1>6. CASE handle_syscall
  <2> DEFINE n == Signed(params.eax)
  <2>1. /\ pc = "handle_syscall" /\ pc' = "return" /\ total_calls' = total_calls + 1
        /\ UNCHANGED <<syscall_table, answered>>
    BY <1>6 DEF handle_syscall
  <2>2. /\ answered.ok \in Nat /\ answered.failed \in Nat
        /\ answered = [ok |-> answered.ok, failed |-> answered.failed]
        /\ successful_calls = answered.ok /\ failed_calls = answered.failed
        /\ total_calls = successful_calls + failed_calls
        /\ SumOfTypes \in successful_calls .. total_calls
        /\ DOMAIN calls_per_type = T /\ \A m \in T : calls_per_type[m] \in Nat
        /\ \A m \in T : calls_per_type[m] > 0 => syscall_table[m] # "NULL"
    BY <1>0, <2>1 DEF StatInv
  <2>3. CASE /\ is_valid_syscall(n) /\ syscall_table[n] # "NULL"
             /\ calls_per_type' = [calls_per_type EXCEPT ![n] = @ + 1]
             /\ successful_calls' = successful_calls + IF Succeeds(result') THEN 1 ELSE 0
             /\ failed_calls' = failed_calls + IF Succeeds(result') THEN 0 ELSE 1
    <3>1. n \in T
      <4>1. n \in Int
        BY FieldsAreWords, SignedWord DEF IInv, FrameInv
      <4> HIDE DEF n
      <4> QED BY <2>3, <4>1 DEF is_valid_syscall, NR_SYSCALLS
    <3> HIDE DEF n
    <3>2. SumOn([calls_per_type EXCEPT ![n] = @ + 1], T) = SumOfTypes + 1
      BY <1>f, <2>2, <3>1, SumBump DEF SumOfTypes
    <3>3. SumOfTypes' = SumOfTypes + 1
      BY <2>3, <3>2 DEF SumOfTypes, NR_SYSCALLS
    <3>4. /\ DOMAIN calls_per_type' = T /\ \A m \in T : calls_per_type'[m] \in Nat
          /\ \A m \in T : calls_per_type'[m] > 0 => syscall_table'[m] # "NULL"
      BY <2>1, <2>2, <2>3, <3>1
    <3>5. /\ successful_calls' = answered'.ok + (IF pc' = "return" /\ result' >= 0 THEN 1 ELSE 0)
          /\ failed_calls' = answered'.failed + (IF pc' = "return" /\ ~(result' >= 0) THEN 1 ELSE 0)
          /\ total_calls' = successful_calls' + failed_calls'
          /\ SumOfTypes' \in successful_calls' .. total_calls'
      BY <2>1, <2>2, <2>3, <3>3 DEF Succeeds
    <3> QED BY <2>1, <2>2, <3>4, <3>5 DEF StatInv
  <2>4. CASE /\ result' = -1 /\ failed_calls' = failed_calls + 1
             /\ UNCHANGED <<successful_calls, calls_per_type>>
    <3>1. SumOfTypes' = SumOfTypes
      BY <2>4 DEF SumOfTypes, NR_SYSCALLS
    <3>2. /\ DOMAIN calls_per_type' = T /\ \A m \in T : calls_per_type'[m] \in Nat
          /\ \A m \in T : calls_per_type'[m] > 0 => syscall_table'[m] # "NULL"
      BY <2>1, <2>2, <2>4
    <3>3. /\ successful_calls' = answered'.ok + (IF pc' = "return" /\ result' >= 0 THEN 1 ELSE 0)
          /\ failed_calls' = answered'.failed + (IF pc' = "return" /\ ~(result' >= 0) THEN 1 ELSE 0)
          /\ total_calls' = successful_calls' + failed_calls'
          /\ SumOfTypes' \in successful_calls' .. total_calls'
      BY <2>1, <2>2, <2>4, <3>1
    <3> QED BY <2>1, <2>2, <3>2, <3>3 DEF StatInv
  <2> QED BY <1>6, <2>3, <2>4, Zenon DEF handle_syscall
<1>7. ASSUME pc = "return", pc' = "user", Answer(regs'.eax),
             UNCHANGED <<syscall_table, stats, result>>
      PROVE  StatInv'
  <2>1. UNCHANGED <<total_calls, successful_calls, failed_calls, calls_per_type, result>>
    BY <1>7 DEF stats
  <2>2. /\ answered.ok \in Nat /\ answered.failed \in Nat
        /\ answered = [ok |-> answered.ok, failed |-> answered.failed]
        /\ successful_calls = answered.ok + (IF result >= 0 THEN 1 ELSE 0)
        /\ failed_calls = answered.failed + (IF ~(result >= 0) THEN 1 ELSE 0)
        /\ total_calls = successful_calls + failed_calls
        /\ SumOfTypes \in successful_calls .. total_calls
        /\ DOMAIN calls_per_type = T /\ \A m \in T : calls_per_type[m] \in Nat
        /\ \A m \in T : calls_per_type[m] > 0 => syscall_table[m] # "NULL"
    BY <1>0, <1>7 DEF StatInv
  <2>3. Signed(regs'.eax) = result
    <3>1. FrameInv'
      BY FrameStep
    <3>2. total_calls' > 0
      BY <2>1, <2>2
    <3>3. Signed(regs["eax"])' = result'
      BY <1>7, <3>1, <3>2 DEF FrameInv
    <3> QED BY <2>1, <3>3 DEF Signed
  <2>4. answered' = IF result >= 0 THEN [answered EXCEPT !.ok = @ + 1]
                                   ELSE [answered EXCEPT !.failed = @ + 1]
    BY <1>7, <2>3 DEF Answer
  <2>5. SumOfTypes' = SumOfTypes
    BY <2>1 DEF SumOfTypes, NR_SYSCALLS
  <2>6. PICK a, b : a = answered.ok /\ b = answered.failed
    OBVIOUS
  <2>7. answered' = [ok |-> IF result >= 0 THEN a + 1 ELSE a,
                     failed |-> IF result >= 0 THEN b ELSE b + 1]
    BY <2>2, <2>4, <2>6
  <2>8. /\ answered' = [ok |-> answered'.ok, failed |-> answered'.failed]
        /\ answered'.ok = (IF result >= 0 THEN a + 1 ELSE a)
        /\ answered'.failed = (IF result >= 0 THEN b ELSE b + 1)
    BY <2>7
  <2>9. /\ successful_calls' = answered'.ok + (IF pc' = "return" /\ result' >= 0 THEN 1 ELSE 0)
        /\ failed_calls' = answered'.failed + (IF pc' = "return" /\ ~(result' >= 0) THEN 1 ELSE 0)
        /\ answered'.ok \in Nat /\ answered'.failed \in Nat
    BY <1>7, <2>1, <2>2, <2>6, <2>8
  <2>10. \A m \in T : calls_per_type'[m] > 0 => pc' # "boot" /\ syscall_table'[m] # "NULL"
    BY <1>7, <2>1, <2>2
  <2> QED BY <2>1, <2>2, <2>5, <2>8, <2>9, <2>10 DEF StatInv
<1>8. CASE syscall_entry_returns
  <2>1. /\ pc = "return" /\ pc' = "user" /\ Answer(regs'.eax)
        /\ UNCHANGED <<syscall_table, stats, result>>
    BY <1>8 DEF syscall_entry_returns
  <2> QED BY <1>7, <2>1
<1>9. CASE ReturnToC
  <2>1. /\ pc = "return" /\ pc' = "user" /\ Answer(regs'.eax)
        /\ UNCHANGED <<syscall_table, stats, result>>
    BY <1>9 DEF ReturnToC
  <2> QED BY <1>7, <2>1
<1>10. CASE UNCHANGED vars
  BY <1>1, <1>10 DEF vars, cpu
<1> QED BY <1>2, <1>3, <1>4, <1>5, <1>6, <1>8, <1>9, <1>10 DEF Next

(* The invariant holds in every reachable state.                           *)
THEOREM CallsInductive == Spec => []IInv
<1>1. IInv /\ [Next]_vars => IInv'
  BY DataStep, FrameStep, StatStep DEF IInv
<1> QED BY <1>1, InitIInv, PTL DEF Spec

(* Types: whatever calls are made, the counters stay within the calls, a   *)
(* pid of sys_fork is 100 or more, the time is not ahead of the ticks and  *)
(* every result is a C int.                                                *)
THEOREM CallsTypeOK == Spec => []TypeOK
<1>1. IInv => TypeOK
  <2> SUFFICES ASSUME IInv PROVE TypeOK
    OBVIOUS
  <2>1. successful_calls \in Nat /\ failed_calls \in Nat
    BY DEF IInv, StatInv
  <2>2. calls_per_type \in [0 .. NR_SYSCALLS - 1 -> 0 .. MaxCalls]
    <3>1. /\ calls_per_type \in [0 .. NR_SYSCALLS - 1 -> Nat] /\ total_calls \in 0 .. MaxCalls
          /\ \A n \in 0 .. NR_SYSCALLS - 1 : calls_per_type[n] <= total_calls
      BY DEF IInv, DataInv
    <3> QED BY <3>1, SyscallAssumption
  <2>3. /\ total_calls \in 0 .. MaxCalls /\ next_pid \in 100 .. 100 + MaxCalls
        /\ timer_ticks \in 0 .. MaxTicks
        /\ current_time \in 0 .. timer_ticks \div TicksPerSecond
        /\ time_word \in 0 .. current_time /\ printed \in 0 .. MaxText
        /\ pc \in {"boot", "user", "syscall_entry", "handle_syscall", "return"}
    BY SyscallAssumption DEF IInv, DataInv
  <2>4. {regs, params, caller} \subseteq [Registers -> Words]
    BY DEF IInv, FrameInv
  <2>5. Word(result) \in Words /\ result = Signed(Word(result))
    BY DEF IInv, DataInv, IsInt
  <2>6. \A i \in DOMAIN stack : stack[i] \in Words \cup {CPU_FRAME}
    <3>1. stack \in Seq(StackWords)
      <4>1. <<>> \in Seq(StackWords) /\ <<CPU_FRAME>> \in Seq(StackWords)
        BY DEF StackWords
      <4>2. ASSUME NEW e \in Words, stack = Frame(e, caller) PROVE stack \in Seq(StackWords)
        BY <4>2, FrameIs DEF IInv, FrameInv
      <4>3. \/ stack \in {<<>>, <<CPU_FRAME>>} \/ \E e \in Words : stack = Frame(e, caller)
        BY DEF IInv, FrameInv, DataInv
      <4> QED BY <4>1, <4>2, <4>3
    <3> QED BY <3>1, LenProperties, ElementOfSeq DEF StackWords
  <2> QED BY <2>1, <2>2, <2>3, <2>4, <2>5, <2>6 DEF TypeOK
<1> QED BY <1>1, CallsInductive, PTL

(* Whichever way a call comes and whatever handle_syscall does with it,    *)
(* syscall_entry gives every register but eax back, eax holds the result,  *)
(* and the stack is left for iret.                                         *)
THEOREM RegistersAreKept == Spec => []RegistersKept
<1>1. IInv => RegistersKept
  BY DEF IInv, FrameInv, RegistersKept
<1> QED BY <1>1, CallsInductive, PTL

(* After any sequence of calls the statistics tell what the callers saw.   *)
THEOREM StatisticsAreRight == Spec => []StatisticsAgree
<1>1. IInv => StatisticsAgree
  <2> SUFFICES ASSUME StatInv PROVE StatisticsAgree
    BY DEF IInv
  <2>1. FoldFunction(+, 0, calls_per_type) = SumOfTypes
    <3>1. FoldFunction(+, 0, calls_per_type) = SumOn(calls_per_type, DOMAIN calls_per_type)
      BY DEF FoldFunction, SumOn
    <3> QED BY <3>1 DEF SumOfTypes, StatInv
  <2>2. SumOfTypes >= successful_calls /\ SumOfTypes <= total_calls
    BY DEF StatInv
  <2>3. /\ FoldFunction(+, 0, calls_per_type) >= successful_calls
        /\ FoldFunction(+, 0, calls_per_type) <= total_calls
    BY <2>1, <2>2, Zenon
  <2>4. pc = "user" => /\ successful_calls = answered.ok /\ failed_calls = answered.failed
                       /\ total_calls = successful_calls + failed_calls
    BY DEF StatInv
  <2>5. \A n \in DOMAIN calls_per_type : calls_per_type[n] > 0 => syscall_table[n] # "NULL"
    BY DEF StatInv
  <2> QED BY <2>3, <2>4, <2>5, Zenon DEF StatisticsAgree
<1> QED BY <1>1, CallsInductive, PTL
=============================================================================
