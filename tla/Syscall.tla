------------------------------ MODULE Syscall ------------------------------
(***************************************************************************)
(* System calls: the dispatch, handlers and statistics of kernel/syscall.c *)
(* and the register frame of syscall_entry in syscall_asm.s.               *)
(*                                                                         *)
(* A call comes through syscall_entry, as the comments of syscall_asm.s    *)
(* mean it (int 0x80; the IDT has no gate for it, see Interrupts), or from *)
(* C code that calls handle_syscall() itself.  One call is handled at a    *)
(* time; the timer ticks between any two steps.                            *)
(*                                                                         *)
(* Registers hold words of two halves, HALF = 2^16 in the code.  A text is *)
(* its length, and so is what has been printed.                            *)
(***************************************************************************)
EXTENDS Integers, Sequences, FiniteSetsExt, Functions

CONSTANTS
  HALF,             \* how many values half a register has
  TicksPerSecond,   \* 100 in sys_time
  Numbers,          \* the numbers that callers put in eax
  Arguments,        \* the words they put in ebx and edx
  MaxText,          \* bound: the length of a text to write
  MaxCalls,         \* bound: calls made
  MaxTicks          \* bound: timer ticks

WORD        == HALF * HALF
NR_SYSCALLS == 64
KERNEL_DS   == 16

ASSUME SyscallAssumption ==
  /\ HALF \in Nat /\ HALF >= NR_SYSCALLS
  /\ TicksPerSecond \in Nat \ {0}
  /\ Numbers \subseteq 0 .. WORD - 1 /\ Arguments \subseteq 0 .. WORD - 1
  /\ MaxText \in Nat /\ MaxCalls \in Nat /\ MaxTicks \in Nat
(* Within the bounds neither a pid nor a time exceeds the largest int.     *)
ASSUME RangeAssumption ==
  2 * (100 + MaxCalls) < WORD /\ 2 * (MaxTicks \div TicksPerSecond) < WORD

VARIABLES
  syscall_table,
  total_calls, successful_calls, failed_calls, calls_per_type,
  next_pid,                 \* of sys_fork
  current_time, timer_ticks,
  time_word,                \* the caller's word that sys_time stores to
  printed,                  \* characters the last call printed
  pc, regs, stack,          \* CPU; the top of the stack comes first
  params, result,           \* of handle_syscall
  caller,                   \* history: the registers at the call
  answered                  \* history: results the callers got

stats   == <<total_calls, successful_calls, failed_calls, calls_per_type>>
effects == <<next_pid, current_time, time_word, printed>>
cpu     == <<pc, regs, stack, params, result, caller, answered>>
vars    == <<syscall_table, stats, effects, timer_ticks, cpu>>

Registers == {"eax", "ebx", "ecx", "edx", "esi", "edi", "ebp", "ds", "es"}

(* A word read as an int, and an int stored in a word.                     *)
Signed(w) == IF 2 * w >= WORD THEN w - WORD ELSE w
Word(i)   == i % WORD

(* The frame the CPU pushes at an interrupt: eip, cs and eflags.           *)
CPU_FRAME == -1

Init ==
  /\ syscall_table = [n \in 0 .. NR_SYSCALLS - 1 |-> "NULL"]
  /\ total_calls = 0 /\ successful_calls = 0 /\ failed_calls = 0
  /\ calls_per_type = [n \in 0 .. NR_SYSCALLS - 1 |-> 0]
  /\ next_pid = 100 /\ current_time = 0 /\ timer_ticks = 0
  /\ time_word = 0 /\ printed = 0
  /\ pc = "boot" /\ regs = [r \in Registers |-> 0] /\ stack = <<>>
  /\ params = regs /\ result = 0
  /\ caller = regs /\ answered = [ok |-> 0, failed |-> 0]

is_valid_syscall(n) == n >= 0 /\ n < NR_SYSCALLS

init_syscalls ==
  /\ pc = "boot" /\ pc' = "user"
  /\ syscall_table' =
       [n \in 0 .. NR_SYSCALLS - 1 |->
          CASE n = 1  -> "sys_exit"   [] n = 2  -> "sys_fork"   [] n = 3  -> "sys_read"
            [] n = 4  -> "sys_write"  [] n = 20 -> "sys_getpid" [] n = 24 -> "sys_getuid"
            [] n = 13 -> "sys_time"   [] n = 45 -> "sys_brk"    [] n = 29 -> "sys_pause"
            [] n = 37 -> "sys_kill"   [] OTHER  -> "NULL"]
  /\ UNCHANGED <<stats, effects, timer_ticks, regs, stack, params, result, caller, answered>>

timer_handler ==
  /\ timer_ticks < MaxTicks /\ timer_ticks' = timer_ticks + 1
  /\ UNCHANGED <<syscall_table, stats, effects, cpu>>

-----------------------------------------------------------------------------
(* The caller loads a number and arguments; the other registers hold       *)
(* values of its own.                                                      *)
Loaded(n, arg, count) ==
  [eax |-> n, ebx |-> arg, ecx |-> 1001, edx |-> count, esi |-> 1002,
   edi |-> 1003, ebp |-> 1004, ds |-> 1005, es |-> 1006]

(* int 0x80.                                                               *)
SYSCALL(n, arg, count) ==
  /\ pc = "user" /\ total_calls < MaxCalls /\ pc' = "syscall_entry"
  /\ regs' = Loaded(n, arg, count) /\ caller' = regs'
  /\ stack' = <<CPU_FRAME>>
  /\ UNCHANGED <<syscall_table, stats, effects, timer_ticks, params, result, answered>>

(* C code calls handle_syscall() with parameters of its own.               *)
CallHandleSyscall(n, arg, count) ==
  /\ pc = "user" /\ total_calls < MaxCalls /\ pc' = "handle_syscall"
  /\ regs' = Loaded(n, arg, count) /\ caller' = regs'
  /\ params' = regs' /\ stack' = <<>>
  /\ UNCHANGED <<syscall_table, stats, effects, timer_ticks, result, answered>>

(* The registers are saved.  mov ax, KERNEL_DS then replaces the low half  *)
(* of eax, before the parameters are pushed.                               *)
syscall_entry ==
  /\ pc = "syscall_entry" /\ pc' = "handle_syscall"
  /\ LET eax == regs.eax - (regs.eax % HALF) + KERNEL_DS
     IN /\ regs' = [regs EXCEPT !.eax = eax, !.ds = KERNEL_DS, !.es = KERNEL_DS]
        /\ stack' = <<eax, regs.ebx, regs.ecx, regs.edx, regs.esi, regs.edi>>
                    \o <<regs.es, regs.ds, regs.ebp, regs.edi, regs.esi,
                         regs.edx, regs.ecx, regs.ebx, regs.eax>> \o stack
        /\ params' = regs'
  /\ UNCHANGED <<syscall_table, stats, effects, timer_ticks, result, caller, answered>>

-----------------------------------------------------------------------------
(* The handlers.  Those that only return a number: exit, pause and kill    *)
(* change no task, and brk no memory.                                      *)
Returns(h, value) ==
  /\ syscall_table[params.eax] = h /\ result' = value
  /\ printed' = 0 /\ UNCHANGED <<next_pid, current_time, time_word>>

sys_exit   == Returns("sys_exit", 0)
sys_read   == Returns("sys_read", IF params.ebx = 0 THEN 0 ELSE -1)
sys_getpid == Returns("sys_getpid", 1)
sys_getuid == Returns("sys_getuid", 0)
sys_brk    == Returns("sys_brk", Signed(params.ebx))
sys_pause  == Returns("sys_pause", 0)
sys_kill   == Returns("sys_kill", 0)

sys_fork ==
  /\ syscall_table[params.eax] = "sys_fork"
  /\ result' = next_pid /\ next_pid' = next_pid + 1
  /\ printed' = 0 /\ UNCHANGED <<current_time, time_word>>

(* It prints the text up to its end or count, and returns count.           *)
sys_write ==
  /\ syscall_table[params.eax] = "sys_write"
  /\ \/ /\ params.ebx \in {1, 2} /\ result' = Signed(params.edx)
        /\ \E text \in 0 .. MaxText :
             printed' = Max({0, Min({text, Signed(params.edx)})})
     \/ /\ params.ebx \notin {1, 2} /\ result' = -1 /\ printed' = 0
  /\ UNCHANGED <<next_pid, current_time, time_word>>

(* Mutant: the ticks are not converted.                                    *)
time_in_ticks ==
  /\ syscall_table[params.eax] = "sys_time"
  /\ current_time' = timer_ticks
  /\ time_word' = IF params.ebx # 0 THEN current_time' ELSE time_word
  /\ result' = current_time'
  /\ printed' = 0 /\ UNCHANGED next_pid

sys_time ==
  /\ syscall_table[params.eax] = "sys_time"
  /\ current_time' = timer_ticks \div TicksPerSecond
  /\ time_word' = IF params.ebx # 0 THEN current_time' ELSE time_word
  /\ result' = current_time'
  /\ printed' = 0 /\ UNCHANGED next_pid

Handler ==
  \/ sys_exit \/ sys_fork \/ sys_read \/ sys_write \/ sys_getpid
  \/ sys_getuid \/ sys_time \/ sys_brk \/ sys_pause \/ sys_kill

(* Mutant: a result of 0 counts as a failure.                              *)
succeeds_above_zero(r) == r > 0

Succeeds(r) == r >= 0

handle_syscall ==
  /\ pc = "handle_syscall" /\ pc' = "return"
  /\ total_calls' = total_calls + 1
  /\ LET n == Signed(params.eax)
     IN \/ /\ is_valid_syscall(n) /\ syscall_table[n] # "NULL"
           /\ Handler
           /\ calls_per_type' = [calls_per_type EXCEPT ![n] = @ + 1]
           /\ successful_calls' = successful_calls + IF Succeeds(result') THEN 1 ELSE 0
           /\ failed_calls' = failed_calls + IF Succeeds(result') THEN 0 ELSE 1
        \/ /\ ~(is_valid_syscall(n) /\ syscall_table[n] # "NULL")
           /\ result' = -1 /\ failed_calls' = failed_calls + 1
           /\ UNCHANGED <<effects, successful_calls, calls_per_type>>
  /\ UNCHANGED <<syscall_table, timer_ticks, regs, stack, params, caller, answered>>

-----------------------------------------------------------------------------
Answer(r) ==
  answered' = IF Signed(r) >= 0 THEN [answered EXCEPT !.ok = @ + 1]
                                ELSE [answered EXCEPT !.failed = @ + 1]

(* Mutant: the result is stored one word too low, over the saved ebx.      *)
entry_returns_in_ebx ==
  /\ pc = "return" /\ stack # <<>> /\ pc' = "user"
  /\ LET saved == [SubSeq(stack, 7, Len(stack)) EXCEPT ![8] = Word(result)]
     IN /\ regs' = [es |-> saved[1], ds |-> saved[2], ebp |-> saved[3], edi |-> saved[4],
                    esi |-> saved[5], edx |-> saved[6], ecx |-> saved[7],
                    ebx |-> saved[8], eax |-> saved[9]]
        /\ stack' = SubSeq(saved, 10, Len(saved))
  /\ Answer(regs'.eax)
  /\ UNCHANGED <<syscall_table, stats, effects, timer_ticks, params, result, caller>>

(* The parameters are dropped, the result is stored over the saved eax and *)
(* the registers are popped; the CPU's frame is left for iret.             *)
syscall_entry_returns ==
  /\ pc = "return" /\ stack # <<>> /\ pc' = "user"
  /\ LET saved == [SubSeq(stack, 7, Len(stack)) EXCEPT ![9] = Word(result)]
     IN /\ regs' = [es |-> saved[1], ds |-> saved[2], ebp |-> saved[3], edi |-> saved[4],
                    esi |-> saved[5], edx |-> saved[6], ecx |-> saved[7],
                    ebx |-> saved[8], eax |-> saved[9]]
        /\ stack' = SubSeq(saved, 10, Len(saved))
  /\ Answer(regs'.eax)
  /\ UNCHANGED <<syscall_table, stats, effects, timer_ticks, params, result, caller>>

(* handle_syscall() returns to C, its result in eax.                       *)
ReturnToC ==
  /\ pc = "return" /\ stack = <<>> /\ pc' = "user"
  /\ regs' = [regs EXCEPT !.eax = Word(result)]
  /\ Answer(regs'.eax)
  /\ UNCHANGED <<syscall_table, stats, effects, timer_ticks, stack, params, result, caller>>

Next ==
  \/ init_syscalls \/ timer_handler
  \/ \E n \in Numbers, arg, count \in Arguments :
       SYSCALL(n, arg, count) \/ CallHandleSyscall(n, arg, count)
  \/ syscall_entry \/ handle_syscall \/ syscall_entry_returns \/ ReturnToC

Spec == Init /\ [][Next]_vars

-----------------------------------------------------------------------------
(* Properties.                                                             *)

Words == 0 .. WORD - 1

(* Types; the time is never ahead of the ticks, nor is a pid of sys_fork   *)
(* one of task.c, which has fewer than 100.                                *)
TypeOK ==
  /\ total_calls \in 0 .. MaxCalls /\ successful_calls \in Nat /\ failed_calls \in Nat
  /\ calls_per_type \in [0 .. NR_SYSCALLS - 1 -> 0 .. MaxCalls]
  /\ next_pid \in 100 .. 100 + MaxCalls
  /\ timer_ticks \in 0 .. MaxTicks
  /\ current_time \in 0 .. timer_ticks \div TicksPerSecond
  /\ time_word \in 0 .. current_time /\ printed \in 0 .. MaxText
  /\ pc \in {"boot", "user", "syscall_entry", "handle_syscall", "return"}
  /\ {regs, params, caller} \subseteq [Registers -> Words]
  /\ Word(result) \in Words /\ result = Signed(Word(result))
  /\ \A i \in DOMAIN stack : stack[i] \in Words \cup {CPU_FRAME}

(* syscall_entry gives the caller its registers back, all but eax, which   *)
(* holds the result, and leaves the stack as iret needs it: every push has *)
(* its pop, and the offset of the saved eax counts the pushes since.       *)
RegistersKept ==
  pc = "user" =>
    /\ \A r \in Registers \ {"eax"} : regs[r] = caller[r]
    /\ total_calls > 0 => Signed(regs.eax) = result
    /\ stack \in {<<>>, <<CPU_FRAME>>}

(* The statistics tell what the callers saw, whichever way a call came and *)
(* whatever it returned: every call is in exactly one of the two classes,  *)
(* a rejected number in none of the types, and a count or an address of    *)
(* 2^31 and more, which is negative as a result, is a failure to both.     *)
StatisticsAgree ==
  pc = "user" =>
    /\ successful_calls = answered.ok /\ failed_calls = answered.failed
    /\ total_calls = successful_calls + failed_calls
    /\ FoldFunction(+, 0, calls_per_type) >= successful_calls
    /\ FoldFunction(+, 0, calls_per_type) <= total_calls
    /\ \A n \in DOMAIN calls_per_type : calls_per_type[n] > 0 => syscall_table[n] # "NULL"
=============================================================================
