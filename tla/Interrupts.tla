----------------------------- MODULE Interrupts -----------------------------
(***************************************************************************)
(* Interrupt dispatch: kernel/interrupt.c, the order of the steps in the   *)
(* stubs of interrupt_asm.s, and the end of keyboard_interrupt_handler in  *)
(* keyboard.c, over the pair of 8259 PICs they program.                    *)
(*                                                                         *)
(* A frame of the stack is one entry of the CPU into the kernel: the       *)
(* vector, the interrupt flag it saved and the next step of its stub.  A   *)
(* handler is one step; devices raise their lines between any two steps.   *)
(*                                                                         *)
(* Taken as the C code means it: the stub passes the saved registers       *)
(* (interrupt_asm.s pushes no pointer before the call) and load_idt loads  *)
(* idt_ptr (its caller passes no argument).  The two PICs and the          *)
(* keyboard controller are external; they are quiet until init_pic().      *)
(* schedule(), which every tenth tick calls, is in Task.                   *)
(***************************************************************************)
EXTENDS Integers, Sequences, FiniteSets

CONSTANTS
  Lines,        \* the request lines of the PICs that devices drive
  Exceptions,   \* the exceptions kernel_main's code may raise
  MaxRequests,  \* bound: interrupts raised on each line
  MaxFaults     \* bound: exceptions and spurious interrupts

ASSUME InterruptsAssumption ==
  /\ Lines \subseteq (0 .. 15) \ {2} /\ Exceptions \subseteq 0 .. 31
  /\ MaxRequests \in Nat /\ MaxFaults \in Nat

VARIABLES
  interrupt_handlers,            \* the table of C handlers
  interrupt_count, timer_ticks,
  iflag, stack, pc,              \* CPU: flag, frames, what kernel_main does
  irr, isr,                      \* PICs: requested, in service
  obf,                           \* keyboard controller: output buffer full
  raised, faults                 \* how often each line was raised; exceptions
                                 \* and spurious interrupts

pics    == <<irr, isr>>
devices == <<obf, raised, faults>>
counts  == <<interrupt_count, timer_ticks>>
vars    == <<interrupt_handlers, counts, iflag, stack, pc, pics, devices>>

IRQ_TIMER    == 32
IRQ_KEYBOARD == 33
EXCEPTION_DIVIDE_ERROR       == 0
EXCEPTION_GENERAL_PROTECTION == 13
EXCEPTION_PAGE_FAULT         == 14
Vectors  == 0 .. 47
Fatal    == {"divide_error_handler", "page_fault_handler",
             "general_protection_fault_handler"}
Handlers == Fatal \cup {"NULL", "timer_handler", "keyboard_handler",
                        "keyboard_interrupt_handler"}

INTERRUPT_GATE == "INTERRUPT_GATE"
TRAP_GATE      == "TRAP_GATE"

(* Mutant: the gates of the external interrupts are trap gates.            *)
init_idt_traps ==
  [v \in Vectors |-> IF v \in (0 .. 14) \ {9} THEN INTERRUPT_GATE
                     ELSE IF v \in 32 .. 39 THEN TRAP_GATE ELSE "none"]

(* The gates, which never change: none for the second PIC's vectors.       *)
init_idt ==
  [v \in Vectors |-> IF v \in ((0 .. 14) \ {9}) \cup (32 .. 39) THEN INTERRUPT_GATE
                     ELSE "none"]

Init ==
  /\ interrupt_handlers = [v \in Vectors |-> "NULL"]
  /\ interrupt_count = 0 /\ timer_ticks = 0
  /\ iflag = FALSE /\ stack = <<>> /\ pc = "init_interrupts"
  /\ irr = {} /\ isr = {}
  /\ obf = FALSE /\ raised = [l \in Lines |-> 0] /\ faults = 0

-----------------------------------------------------------------------------
(* The pair of PICs, as init_pic() programs them.  Smaller lines have      *)
(* priority, and those of the second PIC that of line 2 of the first.      *)

Master == 0 .. 7
MasterLine(l) == IF l \in Master THEN l ELSE 2
vector(l)     == 32 + l

Ahead(l, k) ==
  \/ MasterLine(l) < MasterLine(k)
  \/ MasterLine(l) = MasterLine(k) /\ l < k

(* The request the PICs offer the CPU: none while one of the same or of a  *)
(* higher priority is in service.                                          *)
Offered(l) == l \in irr /\ \A k \in (irr \ {l}) \cup isr : Ahead(l, k)

(* A non-specific EOI ends the service of the first line of that PIC.      *)
Served(pic) == {l \in isr \cap pic : \A k \in isr \cap pic : l <= k}

send_eoi(l) == isr \ (Served(Master) \cup IF l >= 8 THEN Served(8 .. 15) ELSE {})

(* A line is raised.  The keyboard controller raises line 1 when a byte    *)
(* fills its output buffer, which it does once the last one was read.  A   *)
(* tick that finds the last one still requested is lost.                   *)
Raise(l) ==
  /\ pc # "init_interrupts" /\ raised[l] < MaxRequests
  /\ raised' = [raised EXCEPT ![l] = @ + 1]
  /\ l = 1 => ~obf
  /\ obf' = (obf \/ l = 1)
  /\ irr' = irr \cup {l}
  /\ UNCHANGED <<interrupt_handlers, counts, iflag, stack, pc, isr, faults>>

-----------------------------------------------------------------------------
(* The CPU enters the kernel through the gate of v.  An interrupt gate     *)
(* clears the flag.  Without a gate the entry is a general protection      *)
(* fault.                                                                  *)
Enter(v, l) ==
  LET gate == init_idt[v]
      n    == IF gate = "none" THEN EXCEPTION_GENERAL_PROTECTION ELSE v
  IN /\ stack' = Append(stack, [n |-> n, line |-> l, iflag |-> iflag, step |-> "stub"])
     /\ iflag' = (iflag /\ gate = TRAP_GATE)

Top == stack[Len(stack)]
Step(from) == stack # <<>> /\ Top.step = from
Goto(to)   == stack' = [stack EXCEPT ![Len(stack)].step = to]

(* The CPU acknowledges the request: it is in service until its EOI.  An   *)
(* interrupt ends a hlt.                                                   *)
Acknowledge(l) ==
  /\ iflag /\ Offered(l)
  /\ Enter(vector(l), l)
  /\ irr' = irr \ {l} /\ isr' = isr \cup {l, MasterLine(l)}
  /\ pc' = IF pc = "hlt" THEN "main" ELSE pc
  /\ UNCHANGED <<interrupt_handlers, counts, devices>>

(* A request that goes away before it is acknowledged: the PIC answers     *)
(* with its last line, which is then not in service.                       *)
SpuriousInterrupt ==
  /\ iflag /\ irr = {} /\ faults < MaxFaults /\ faults' = faults + 1
  /\ Enter(vector(7), -1)
  /\ pc' = IF pc = "hlt" THEN "main" ELSE pc
  /\ UNCHANGED <<interrupt_handlers, counts, pics, obf, raised>>

(* kernel_main raises an exception; int 0x80 of a system call, for which   *)
(* there is no gate, is a general protection fault.                        *)
Exception(v) ==
  /\ stack = <<>> /\ pc # "hlt" /\ pc # "init_interrupts"
  /\ faults < MaxFaults /\ faults' = faults + 1
  /\ Enter(v, -1)
  /\ UNCHANGED <<interrupt_handlers, counts, pc, pics, obf, raised>>

(* cli, the first instruction of every stub, and the saving of registers.  *)
stub ==
  /\ Step("stub")
  /\ iflag' = FALSE
  /\ Goto(IF Top.n < 32 THEN "isr_handler" ELSE "irq_handler")
  /\ UNCHANGED <<interrupt_handlers, counts, pc, pics, devices>>

(* A fatal handler prints and loops for ever.  An exception without a      *)
(* handler is printed and returned from.                                   *)
isr_handler ==
  /\ Step("isr_handler")
  /\ interrupt_count' = interrupt_count + 1
  /\ Goto(IF interrupt_handlers[Top.n] \in Fatal THEN "stopped" ELSE "iret")
  /\ UNCHANGED <<interrupt_handlers, timer_ticks, iflag, pc, pics, devices>>

(* Mutant: an interrupt without a handler is left before its EOI.          *)
irq_returns_early ==
  /\ Step("irq_handler")
  /\ interrupt_count' = interrupt_count + 1
  /\ isr' = IF interrupt_handlers[Top.n] = "NULL" THEN isr ELSE send_eoi(Top.n - 32)
  /\ Goto(IF interrupt_handlers[Top.n] = "NULL" THEN "iret" ELSE "handler")
  /\ UNCHANGED <<interrupt_handlers, timer_ticks, iflag, pc, irr, devices>>

(* The EOI comes before the handler.                                       *)
irq_handler ==
  /\ Step("irq_handler")
  /\ interrupt_count' = interrupt_count + 1
  /\ isr' = send_eoi(Top.n - 32)
  /\ Goto(IF interrupt_handlers[Top.n] = "NULL" THEN "iret" ELSE "handler")
  /\ UNCHANGED <<interrupt_handlers, timer_ticks, iflag, pc, irr, devices>>

timer_handler ==
  /\ Step("handler") /\ interrupt_handlers[Top.n] = "timer_handler"
  /\ timer_ticks' = timer_ticks + 1
  /\ Goto("iret")
  /\ UNCHANGED <<interrupt_handlers, interrupt_count, iflag, pc, pics, devices>>

keyboard_handler ==
  /\ Step("handler") /\ interrupt_handlers[Top.n] = "keyboard_handler"
  /\ obf' = FALSE
  /\ Goto("iret")
  /\ UNCHANGED <<interrupt_handlers, counts, iflag, pc, pics, raised, faults>>

(* Mutant: the handler sends its EOI and does not read the byte.           *)
kbd_leaves_byte ==
  /\ Step("handler") /\ interrupt_handlers[Top.n] = "keyboard_interrupt_handler"
  /\ isr' = isr \ Served(Master)
  /\ Goto("iret")
  /\ UNCHANGED <<interrupt_handlers, counts, iflag, pc, irr, devices>>

(* The driver's handler sends an EOI of its own, the second one.           *)
keyboard_interrupt_handler ==
  /\ Step("handler") /\ interrupt_handlers[Top.n] = "keyboard_interrupt_handler"
  /\ obf' = FALSE
  /\ isr' = isr \ Served(Master)
  /\ Goto("iret")
  /\ UNCHANGED <<interrupt_handlers, counts, iflag, pc, irr, raised, faults>>

(* Mutant: the stub returns with the flag its sti has set.                 *)
iret_keeps_sti ==
  /\ Step("iret")
  /\ iflag' = TRUE
  /\ stack' = SubSeq(stack, 1, Len(stack) - 1)
  /\ UNCHANGED <<interrupt_handlers, counts, pc, pics, devices>>

(* The end of the stub: no interrupt is taken between its sti and iret.    *)
iret ==
  /\ Step("iret")
  /\ iflag' = Top.iflag
  /\ stack' = SubSeq(stack, 1, Len(stack) - 1)
  /\ UNCHANGED <<interrupt_handlers, counts, pc, pics, devices>>

-----------------------------------------------------------------------------
(* kernel_main, whenever no handler runs.                                  *)

Main(from, to) == stack = <<>> /\ pc = from /\ pc' = to

init_interrupts ==
  /\ Main("init_interrupts", "enable_interrupts")
  /\ interrupt_handlers' =
       [v \in Vectors |->
          CASE v = EXCEPTION_DIVIDE_ERROR       -> "divide_error_handler"
            [] v = EXCEPTION_PAGE_FAULT         -> "page_fault_handler"
            [] v = EXCEPTION_GENERAL_PROTECTION -> "general_protection_fault_handler"
            [] v = IRQ_TIMER                    -> "timer_handler"
            [] v = IRQ_KEYBOARD                 -> "keyboard_handler"
            [] OTHER                            -> "NULL"]
  /\ irr' = {} /\ isr' = {}
  /\ UNCHANGED <<counts, iflag, stack, devices>>

enable_interrupts ==
  /\ Main("enable_interrupts", "init_keyboard") /\ iflag' = TRUE
  /\ UNCHANGED <<interrupt_handlers, counts, stack, pics, devices>>

(* The driver takes over line 1, with interrupts enabled.                  *)
register_interrupt_handler ==
  /\ Main("init_keyboard", "main")
  /\ interrupt_handlers' =
       [interrupt_handlers EXCEPT ![IRQ_KEYBOARD] = "keyboard_interrupt_handler"]
  /\ UNCHANGED <<counts, iflag, stack, pics, devices>>

Hlt ==
  /\ Main("main", "hlt")
  /\ UNCHANGED <<interrupt_handlers, counts, iflag, stack, pics, devices>>

Kernel ==
  \/ \E l \in Lines : Acknowledge(l)
  \/ stub \/ isr_handler \/ irq_handler \/ iret
  \/ timer_handler \/ keyboard_handler \/ keyboard_interrupt_handler
  \/ init_interrupts \/ enable_interrupts \/ register_interrupt_handler \/ Hlt

Next ==
  \/ Kernel
  \/ \E l \in Lines : Raise(l)
  \/ SpuriousInterrupt
  \/ \E v \in Exceptions : Exception(v)

Spec == Init /\ [][Next]_vars

(* The CPU goes on; nothing is assumed of devices and faults.              *)
FairSpec == Spec /\ WF_vars(Kernel)

-----------------------------------------------------------------------------
(* Properties.                                                             *)

Frames == {stack[i] : i \in DOMAIN stack}

(* Types; the C code is never entered more than once at a time.            *)
TypeOK ==
  /\ interrupt_handlers \in [Vectors -> Handlers]
  /\ interrupt_count \in Nat /\ timer_ticks \in Nat /\ faults \in 0 .. MaxFaults
  /\ iflag \in BOOLEAN /\ obf \in BOOLEAN
  /\ Frames \subseteq [n : Vectors, line : Lines \cup {-1}, iflag : BOOLEAN,
                       step : {"stub", "isr_handler", "irq_handler", "handler",
                               "iret", "stopped"}]
  /\ Len(stack) <= 1
  /\ pc \in {"init_interrupts", "enable_interrupts", "init_keyboard", "main", "hlt"}
  /\ irr \subseteq Lines /\ isr \subseteq Lines \cup {2}
  /\ raised \in [Lines -> 0 .. MaxRequests]

(* A handler runs alone and leaves the flag as it found it: interrupts are *)
(* off whenever a stub or handler runs, and once it has returned they are  *)
(* on again exactly if enable_interrupts() was called.  The other modules  *)
(* rest on this: an interrupt handler is one step for them.                *)
HandlersRunAlone ==
  iflag <=> stack = <<>> /\ pc \notin {"init_interrupts", "enable_interrupts"}

(* The lines of interrupts whose EOI is still to come; that of one without *)
(* a gate never comes.                                                     *)
Unserved ==
  {f.line : f \in {g \in Frames : /\ g.line # -1
                                  /\ g.step \in {"stub", "irq_handler"} \/ g.n < 32}}

(* An EOI ends the service of the interrupt that is being handled and of   *)
(* no other, although the driver's handler sends two, a spurious interrupt *)
(* one that nobody asked for, and an EOI does not say whose it is.         *)
InServiceIsExact == isr = Unserved \cup {MasterLine(l) : l \in Unserved}

Stopped == \E f \in Frames : f.step = "stopped"

(* Until the kernel stops in a fatal handler every request is taken up,    *)
(* and the keyboard controller gets its byte read, without which it sends  *)
(* no other: no priority, mask or missing EOI keeps a line waiting.        *)
RequestsServed ==
  /\ \A l \in Lines : l \in irr ~> l \notin irr \/ Stopped
  /\ obf ~> ~obf \/ Stopped
=============================================================================
