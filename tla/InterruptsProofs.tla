-------------------------- MODULE InterruptsProofs --------------------------
(***************************************************************************)
(* Proofs about Interrupts, for every set of request lines, every set of   *)
(* exceptions and every bound.                                             *)
(***************************************************************************)
EXTENDS Interrupts, TLAPS

Steps  == {"stub", "isr_handler", "irq_handler", "handler", "iret", "stopped"}
Frame  == [n : Vectors, line : Lines \cup {-1}, iflag : BOOLEAN, step : Steps]
Pcs    == {"init_interrupts", "enable_interrupts", "init_keyboard", "main", "hlt"}
Before == {"init_interrupts", "enable_interrupts"}
Fault  == EXCEPTION_GENERAL_PROTECTION

(* The vector that the CPU goes through: the fault's, if v has no gate.    *)
Entry(v) == IF v \in ((0 .. 14) \ {9}) \cup (32 .. 39) THEN v ELSE Fault

Types ==
  /\ interrupt_handlers \in [Vectors -> Handlers]
  /\ interrupt_count \in Nat /\ timer_ticks \in Nat /\ faults \in 0 .. MaxFaults
  /\ iflag \in BOOLEAN /\ obf \in BOOLEAN
  /\ pc \in Pcs
  /\ irr \subseteq Lines /\ isr \subseteq Lines \cup {2}
  /\ raised \in [Lines -> 0 .. MaxRequests]

(* What frame f has in service: its line, until the EOI of irq_handler.    *)
Pending(f) ==
  IF f.line # -1 /\ (f.step \in {"stub", "irq_handler"} \/ f.n < 32)
  THEN {f.line, MasterLine(f.line)} ELSE {}

(* The only frame: an external interrupt has the vector of its line, or is *)
(* a fault because its line, one of the second PIC, has no gate; the fault *)
(* is never returned from.                                                 *)
FrameInv(f) ==
  /\ f.iflag = (pc \notin Before) /\ pc # "init_interrupts"
  /\ f.line # -1 /\ f.n >= 32 => f.line \in Master /\ f.n = 32 + f.line
  /\ f.line # -1 /\ f.n < 32 => f.n = Fault /\ f.step # "iret"
  /\ f.step \in {"isr_handler", "stopped"} => f.n < 32
  /\ f.step \in {"irq_handler", "handler"} => f.n >= 32
  /\ isr = Pending(f)

StackInv ==
  /\ stack = <<>> => isr = {}
  /\ stack # <<>> => \E f \in Frame : stack = <<f>> /\ FrameInv(f)

FaultIsFatal == pc # "init_interrupts" => interrupt_handlers[Fault] \in Fatal

IInv == Types /\ HandlersRunAlone /\ StackInv /\ FaultIsFatal

-----------------------------------------------------------------------------
(* Every gate of init_idt() is an interrupt gate.                          *)
LEMMA Gates ==
  ASSUME NEW v \in Vectors
  PROVE  /\ init_idt[v] # TRAP_GATE
         /\ init_idt[v] = "none" <=> v \notin ((0 .. 14) \ {9}) \cup (32 .. 39)
BY DEF init_idt, TRAP_GATE, INTERRUPT_GATE

(* An entry into the kernel when no handler runs.                          *)
LEMMA EnterAlone ==
  ASSUME stack = <<>>, NEW v \in Vectors, NEW l \in Lines \cup {-1},
         iflag \in BOOLEAN, Enter(v, l)
  PROVE  /\ iflag' = FALSE
         /\ \E g \in Frame :
              /\ stack' = <<g>> /\ g.line = l /\ g.iflag = iflag /\ g.step = "stub"
              /\ g.n = Entry(v)
<1>1. iflag' = FALSE
  BY Gates DEF Enter
<1>2. Fault \in Vectors
  BY DEF Fault, EXCEPTION_GENERAL_PROTECTION, Vectors
<1> DEFINE n == IF init_idt[v] = "none" THEN Fault ELSE v
           g == [n |-> n, line |-> l, iflag |-> iflag, step |-> "stub"]
<1>3. n = Entry(v)
  BY Gates DEF Entry
<1>4. g \in Frame
  BY <1>2 DEF Frame, Steps
<1>5. stack' = Append(<<>>, g)
  BY DEF Enter, Fault
<1>6. stack' = <<g>>
  BY <1>5
<1> QED
  BY <1>1, <1>3, <1>4, <1>6

(* A step of the stub whose frame is the only one.                         *)
LEMMA MoveAlone ==
  ASSUME NEW f \in Frame, stack = <<f>>, NEW to \in Steps, Goto(to)
  PROVE  \E g \in Frame : /\ stack' = <<g>> /\ g.step = to
                          /\ g.n = f.n /\ g.line = f.line /\ g.iflag = f.iflag
<1> DEFINE g == [f EXCEPT !.step = to]
<1>1. g \in Frame /\ g.step = to /\ g.n = f.n /\ g.line = f.line /\ g.iflag = f.iflag
  BY DEF Frame
<1>2. Len(stack) = 1
  OBVIOUS
<1>3. stack' = <<g>>
  BY <1>2 DEF Goto
<1> QED
  BY <1>1, <1>3

(* The frame that a step works on.                                         *)
LEMMA TheFrame ==
  ASSUME IInv, NEW s, Step(s)
  PROVE  \E f \in Frame : stack = <<f>> /\ Top = f /\ f.step = s /\ FrameInv(f)
<1>1. PICK f \in Frame : stack = <<f>> /\ FrameInv(f)
  BY DEF IInv, StackInv, Step
<1>2. Top = f
  BY <1>1 DEF Top
<1> QED
  BY <1>1, <1>2 DEF Step

(* A step of the stub that leaves main where it was keeps StackInv, if it  *)
(* keeps what FrameInv says of the frame with its new step.                *)
LEMMA StubStep ==
  ASSUME IInv, NEW f \in Frame, stack = <<f>>, FrameInv(f), pc' = pc,
         NEW to \in Steps, Goto(to),
         f.line # -1 /\ f.n < 32 => to # "iret",
         to \in {"isr_handler", "stopped"} => f.n < 32,
         to \in {"irq_handler", "handler"} => f.n >= 32,
         isr' = IF f.line # -1 /\ (to \in {"stub", "irq_handler"} \/ f.n < 32)
                THEN {f.line, MasterLine(f.line)} ELSE {}
  PROVE  StackInv' /\ stack # <<>> /\ stack' # <<>>
<1>1. PICK g \in Frame : /\ stack' = <<g>> /\ g.step = to
                         /\ g.n = f.n /\ g.line = f.line /\ g.iflag = f.iflag
  BY MoveAlone
<1>2. isr' = Pending(g)
  BY <1>1 DEF Pending
<1>3. g.iflag = (pc' \notin Before) /\ pc' # "init_interrupts"
  BY <1>1 DEF FrameInv
<1>4. /\ g.line # -1 /\ g.n >= 32 => g.line \in Master /\ g.n = 32 + g.line
      /\ g.line # -1 /\ g.n < 32 => g.n = Fault /\ g.step # "iret"
      /\ g.step \in {"isr_handler", "stopped"} => g.n < 32
      /\ g.step \in {"irq_handler", "handler"} => g.n >= 32
  BY <1>1 DEF FrameInv
<1>5. FrameInv(g)'
  BY <1>2, <1>3, <1>4 DEF FrameInv
<1>6. <<f>> # <<>> /\ <<g>> # <<>>
  OBVIOUS
<1> QED
  BY <1>1, <1>5, <1>6 DEF StackInv

(* An EOI sent while a line of the first PIC is in service, and one sent   *)
(* while none is.                                                          *)
LEMMA EOI ==
  /\ \A l \in Master : isr = {l, MasterLine(l)} => send_eoi(l) = {}
  /\ \A l : isr = {} => send_eoi(l) = {}
  /\ isr = {} => isr \ Served(Master) = {}
BY DEF send_eoi, Served, Master, MasterLine

-----------------------------------------------------------------------------
(* Initially nothing runs, nothing is in service and interrupts are off.   *)
LEMMA InitInv == Init => IInv
<1> SUFFICES ASSUME Init PROVE IInv
  OBVIOUS
<1>1. interrupt_handlers \in [Vectors -> Handlers]
  BY DEF Init, Handlers
<1>2. raised \in [Lines -> 0 .. MaxRequests] /\ faults \in 0 .. MaxFaults
  BY InterruptsAssumption DEF Init
<1>3. Types
  BY <1>1, <1>2 DEF Init, Types, Pcs
<1>4. HandlersRunAlone /\ StackInv /\ FaultIsFatal
  BY DEF Init, HandlersRunAlone, StackInv, FaultIsFatal
<1> QED
  BY <1>3, <1>4 DEF IInv

(* An interrupt, a spurious interrupt or an exception: the kernel is       *)
(* entered with no handler running, the flag as main has it.               *)
LEMMA EntryInv ==
  ASSUME IInv, stack = <<>>, pc # "init_interrupts", NEW v \in Vectors,
         NEW l \in Lines \cup {-1}, Enter(v, l), l # -1 => v = 32 + l,
         pc' = IF pc = "hlt" THEN "main" ELSE pc,
         isr' = IF l = -1 THEN {} ELSE {l, MasterLine(l)},
         irr' \subseteq Lines, faults' \in 0 .. MaxFaults,
         UNCHANGED <<interrupt_handlers, counts, obf, raised>>
  PROVE  IInv'
<1>0. iflag \in BOOLEAN
  BY DEF IInv, Types
<1>1. iflag' = FALSE
  BY <1>0, EnterAlone
<1>2. PICK g \in Frame :
        /\ stack' = <<g>> /\ g.line = l /\ g.iflag = iflag /\ g.step = "stub"
        /\ g.n = Entry(v)
  BY <1>0, EnterAlone, Zenon
<1>3. <<g>> # <<>>
  OBVIOUS
<1>4. Fault = 13
  BY DEF Fault, EXCEPTION_GENERAL_PROTECTION
<1>5. l # -1 => l \in 0 .. 15 /\ l # 2
  BY InterruptsAssumption
<1>6. Types'
  <2>1. isr' \subseteq Lines \cup {2}
    BY DEF MasterLine
  <2>2. pc' \in Pcs
    BY DEF IInv, Types, Pcs
  <2> QED
    BY <1>1, <2>1, <2>2 DEF IInv, Types, counts
<1>7. HandlersRunAlone'
  BY <1>1, <1>2, <1>3 DEF HandlersRunAlone
<1>8. FrameInv(g)'
  <2>1. isr' = Pending(g)
    BY <1>2 DEF Pending
  <2>2. g.iflag = (pc' \notin Before) /\ pc' # "init_interrupts"
    BY <1>2 DEF IInv, HandlersRunAlone, Before, Types
  <2>3. /\ g.line # -1 /\ g.n >= 32 => g.line \in Master /\ g.n = 32 + g.line
        /\ g.line # -1 /\ g.n < 32 => g.n = Fault
    BY <1>2, <1>4, <1>5, SMTT(30) DEF Master, Vectors, Entry
  <2> QED
    BY <1>2, <2>1, <2>2, <2>3 DEF FrameInv
<1>9. StackInv'
  BY <1>2, <1>3, <1>8 DEF StackInv
<1>10. FaultIsFatal'
  BY DEF IInv, FaultIsFatal
<1> QED
  BY <1>6, <1>7, <1>9, <1>10 DEF IInv

(* When interrupts are enabled no handler runs and main is past sti.       *)
LEMMA Enabled ==
  ASSUME IInv, iflag
  PROVE  stack = <<>> /\ isr = {} /\ pc # "init_interrupts"
BY DEF IInv, HandlersRunAlone, StackInv

(* A request is acknowledged: its line, and line 2 for one of the second   *)
(* PIC, are in service until its EOI.                                      *)
LEMMA AcknowledgeInv ==
  ASSUME IInv, NEW l \in Lines, Acknowledge(l)
  PROVE  IInv'
<1>1. stack = <<>> /\ isr = {} /\ pc # "init_interrupts"
  BY Enabled DEF Acknowledge
<1>2. l # -1 /\ vector(l) \in Vectors /\ vector(l) = 32 + l
  BY InterruptsAssumption DEF vector, Vectors
<1>3. irr' \subseteq Lines /\ faults' \in 0 .. MaxFaults
  BY DEF Acknowledge, devices, IInv, Types
<1>4. isr' = {l, MasterLine(l)}
  BY <1>1 DEF Acknowledge
<1>5. UNCHANGED <<interrupt_handlers, counts, obf, raised>>
  BY DEF Acknowledge, devices
<1> QED
  BY <1>1, <1>2, <1>3, <1>4, <1>5, EntryInv DEF Acknowledge

(* A spurious interrupt puts nothing in service.                           *)
LEMMA SpuriousInv ==
  ASSUME IInv, SpuriousInterrupt
  PROVE  IInv'
<1>1. stack = <<>> /\ isr = {} /\ pc # "init_interrupts"
  BY Enabled DEF SpuriousInterrupt
<1>2. vector(7) \in Vectors
  BY DEF vector, Vectors
<1>3. irr' \subseteq Lines /\ faults' \in 0 .. MaxFaults /\ isr' = {}
  BY <1>1, InterruptsAssumption DEF SpuriousInterrupt, pics, IInv, Types
<1>4. UNCHANGED <<interrupt_handlers, counts, obf, raised>>
  BY DEF SpuriousInterrupt
<1> QED
  BY <1>1, <1>2, <1>3, <1>4, EntryInv DEF SpuriousInterrupt

(* An exception of kernel_main, also before interrupts are enabled.        *)
LEMMA ExceptionInv ==
  ASSUME IInv, NEW v \in Exceptions, Exception(v)
  PROVE  IInv'
<1>1. stack = <<>> /\ isr = {} /\ pc # "init_interrupts"
  BY DEF Exception, IInv, StackInv
<1>2. v \in Vectors
  BY InterruptsAssumption DEF Vectors
<1>3. irr' \subseteq Lines /\ faults' \in 0 .. MaxFaults /\ isr' = {}
  BY <1>1, InterruptsAssumption DEF Exception, pics, IInv, Types
<1>4. UNCHANGED <<interrupt_handlers, counts, obf, raised>> /\ pc' = pc /\ pc # "hlt"
  BY DEF Exception
<1> QED
  BY <1>1, <1>2, <1>3, <1>4, EntryInv DEF Exception

-----------------------------------------------------------------------------
(* The steps of a stub.  Interrupts stay off, main stays where it was.     *)

(* cli: the interrupt goes to isr_handler() or irq_handler().              *)
LEMMA StubInv ==
  ASSUME IInv, stub
  PROVE  IInv'
<1>1. PICK f \in Frame : stack = <<f>> /\ Top = f /\ f.step = "stub" /\ FrameInv(f)
  BY TheFrame DEF stub
<1>2. f.n \in Int
  BY DEF Frame, Vectors
<1>3. isr = IF f.line # -1 THEN {f.line, MasterLine(f.line)} ELSE {}
  BY <1>1 DEF FrameInv, Pending
<1>4. UNCHANGED <<interrupt_handlers, counts, pc, pics, devices>> /\ iflag' = FALSE
  BY DEF stub
<1>5. StackInv' /\ stack' # <<>>
  <2>1. CASE f.n < 32
    <3>1. Goto("isr_handler")
      BY <1>1, <2>1 DEF stub
    <3> QED
      BY <1>1, <1>2, <1>3, <1>4, <2>1, <3>1, StubStep DEF Steps, pics
  <2>2. CASE ~(f.n < 32)
    <3>1. Goto("irq_handler")
      BY <1>1, <2>2 DEF stub
    <3> QED
      BY <1>1, <1>2, <1>3, <1>4, <2>2, <3>1, StubStep DEF Steps, pics
  <2> QED
    BY <2>1, <2>2
<1>6. Types' /\ FaultIsFatal'
  BY <1>4 DEF IInv, Types, FaultIsFatal, counts, pics, devices
<1>7. HandlersRunAlone'
  BY <1>4, <1>5 DEF HandlersRunAlone
<1> QED
  BY <1>5, <1>6, <1>7 DEF IInv

(* isr_handler(): the fault of a line without a gate never returns.        *)
LEMMA IsrHandlerInv ==
  ASSUME IInv, isr_handler
  PROVE  IInv'
<1>1. PICK f \in Frame : stack = <<f>> /\ Top = f /\ f.step = "isr_handler" /\ FrameInv(f)
  BY TheFrame DEF isr_handler
<1>2. f.n \in Int /\ f.n < 32
  BY <1>1 DEF FrameInv, Frame, Vectors
<1>3. isr = IF f.line # -1 THEN {f.line, MasterLine(f.line)} ELSE {}
  BY <1>1, <1>2 DEF FrameInv, Pending
<1>4. f.line # -1 => interrupt_handlers[f.n] \in Fatal
  BY <1>1, <1>2 DEF FrameInv, IInv, FaultIsFatal
<1>5. /\ UNCHANGED <<interrupt_handlers, timer_ticks, iflag, pc, pics, devices>>
      /\ interrupt_count' = interrupt_count + 1
  BY DEF isr_handler
<1>6. StackInv' /\ stack # <<>> /\ stack' # <<>>
  <2>1. CASE interrupt_handlers[f.n] \in Fatal
    <3>1. Goto("stopped")
      BY <1>1, <2>1 DEF isr_handler
    <3> QED
      BY <1>1, <1>2, <1>3, <1>5, <3>1, StubStep DEF Steps, pics
  <2>2. CASE interrupt_handlers[f.n] \notin Fatal
    <3>1. Goto("iret")
      BY <1>1, <2>2 DEF isr_handler
    <3> QED
      BY <1>1, <1>2, <1>3, <1>4, <1>5, <2>2, <3>1, StubStep DEF Steps, pics
  <2> QED
    BY <2>1, <2>2
<1>7. Types' /\ FaultIsFatal'
  BY <1>5 DEF IInv, Types, FaultIsFatal, pics, devices
<1>8. HandlersRunAlone'
  BY <1>5, <1>6 DEF IInv, HandlersRunAlone
<1> QED
  BY <1>6, <1>7, <1>8 DEF IInv

(* The EOI leaves nothing in service.                                      *)
LEMMA IrqHandlerInv ==
  ASSUME IInv, irq_handler
  PROVE  IInv'
<1>1. PICK f \in Frame : stack = <<f>> /\ Top = f /\ f.step = "irq_handler" /\ FrameInv(f)
  BY TheFrame DEF irq_handler
<1>2. f.n \in Int /\ f.n >= 32
  BY <1>1 DEF FrameInv, Frame, Vectors
<1>3. isr' = {}
  <2>1. isr' = send_eoi(f.n - 32)
    BY <1>1 DEF irq_handler
  <2>2. CASE f.line = -1
    <3>1. isr = {}
      BY <1>1, <2>2 DEF FrameInv, Pending
    <3> QED
      BY <2>1, <3>1, EOI
  <2>3. CASE f.line # -1
    <3>1. f.line \in Master /\ f.n - 32 = f.line
      BY <1>1, <1>2, <2>3 DEF FrameInv, Master
    <3>2. isr = {f.line, MasterLine(f.line)}
      BY <1>1, <2>3 DEF FrameInv, Pending
    <3> QED
      BY <2>1, <3>1, <3>2, EOI
  <2> QED
    BY <2>2, <2>3
<1>4. /\ UNCHANGED <<interrupt_handlers, timer_ticks, iflag, pc, irr, devices>>
      /\ interrupt_count' = interrupt_count + 1
  BY DEF irq_handler
<1>5. PICK to \in {"iret", "handler"} : Goto(to)
  BY DEF irq_handler
<1>6. StackInv' /\ stack # <<>> /\ stack' # <<>>
  BY <1>1, <1>2, <1>3, <1>4, <1>5, StubStep DEF Steps
<1>7. Types' /\ FaultIsFatal'
  BY <1>3, <1>4 DEF IInv, Types, FaultIsFatal, devices
<1>8. HandlersRunAlone'
  BY <1>4, <1>6 DEF IInv, HandlersRunAlone
<1> QED
  BY <1>6, <1>7, <1>8 DEF IInv

(* A registered handler: nothing is in service, and a second EOI finds     *)
(* nothing to end.                                                         *)
LEMMA HandlerInv ==
  ASSUME IInv, timer_handler \/ keyboard_handler \/ keyboard_interrupt_handler
  PROVE  IInv'
<1>1. Step("handler") /\ Goto("iret")
  BY DEF timer_handler, keyboard_handler, keyboard_interrupt_handler
<1>2. PICK f \in Frame : stack = <<f>> /\ Top = f /\ f.step = "handler" /\ FrameInv(f)
  BY <1>1, TheFrame
<1>3. f.n \in Int /\ f.n >= 32
  BY <1>2 DEF FrameInv, Frame, Vectors
<1>4. isr = {}
  BY <1>2, <1>3 DEF FrameInv, Pending
<1>5. isr' = {}
  BY <1>4, EOI DEF timer_handler, keyboard_handler, keyboard_interrupt_handler, pics
<1>6. /\ UNCHANGED <<interrupt_handlers, interrupt_count, iflag, pc, irr, raised, faults>>
      /\ timer_ticks' \in Nat /\ obf' \in BOOLEAN
  <2>1. CASE timer_handler
    BY <2>1 DEF timer_handler, pics, devices, IInv, Types
  <2>2. CASE keyboard_handler
    BY <2>2 DEF keyboard_handler, pics, counts, IInv, Types
  <2>3. CASE keyboard_interrupt_handler
    BY <2>3 DEF keyboard_interrupt_handler, counts, IInv, Types
  <2> QED
    BY <2>1, <2>2, <2>3
<1>7. StackInv' /\ stack # <<>> /\ stack' # <<>>
  BY <1>1, <1>2, <1>3, <1>5, <1>6, StubStep DEF Steps
<1>8. Types' /\ FaultIsFatal'
  BY <1>5, <1>6 DEF IInv, Types, FaultIsFatal
<1>9. HandlersRunAlone'
  BY <1>6, <1>7 DEF IInv, HandlersRunAlone
<1> QED
  BY <1>7, <1>8, <1>9 DEF IInv

(* The flag main had comes back with the frame.                            *)
LEMMA IretInv ==
  ASSUME IInv, iret
  PROVE  IInv'
<1>1. PICK f \in Frame : stack = <<f>> /\ Top = f /\ f.step = "iret" /\ FrameInv(f)
  BY TheFrame DEF iret
<1>2. f.n \in Int
  BY DEF Frame, Vectors
<1>3. isr = {}
  BY <1>1, <1>2 DEF FrameInv, Pending
<1>4. Len(stack) = 1 /\ stack' = SubSeq(stack, 1, 0)
  BY <1>1 DEF iret
<1>5. stack' = <<>>
  BY <1>1, <1>4
<1>6. UNCHANGED <<interrupt_handlers, counts, pc, pics, devices>> /\ iflag' = f.iflag
  BY <1>1 DEF iret
<1>7. Types' /\ FaultIsFatal'
  BY <1>6 DEF IInv, Types, FaultIsFatal, counts, pics, devices, Frame
<1>8. HandlersRunAlone'
  BY <1>1, <1>5, <1>6 DEF FrameInv, HandlersRunAlone, Before
<1>9. StackInv'
  BY <1>3, <1>5, <1>6 DEF StackInv, pics
<1> QED
  BY <1>7, <1>8, <1>9 DEF IInv

-----------------------------------------------------------------------------
(* A device raises a line: only requests and devices change.               *)
LEMMA RaiseInv ==
  ASSUME IInv, NEW l \in Lines, Raise(l)
  PROVE  IInv'
<1>1. UNCHANGED <<interrupt_handlers, counts, iflag, stack, pc, isr, faults>>
  BY DEF Raise
<1>2. raised' \in [Lines -> 0 .. MaxRequests]
  <2>1. raised[l] \in 0 .. MaxRequests /\ raised[l] < MaxRequests
    BY DEF IInv, Types, Raise
  <2>2. raised[l] + 1 \in 0 .. MaxRequests
    BY <2>1, InterruptsAssumption
  <2> QED
    BY <2>2 DEF IInv, Types, Raise
<1>3. obf' \in BOOLEAN /\ irr' \subseteq Lines
  BY DEF IInv, Types, Raise
<1>4. Types' /\ FaultIsFatal'
  BY <1>1, <1>2, <1>3 DEF IInv, Types, FaultIsFatal, counts
<1>5. HandlersRunAlone'
  BY <1>1 DEF IInv, HandlersRunAlone
<1>6. StackInv'
  BY <1>1 DEF IInv, StackInv, FrameInv
<1> QED
  BY <1>4, <1>5, <1>6 DEF IInv

(* kernel_main, with no handler running.                                   *)
LEMMA MainInv ==
  ASSUME IInv,
         init_interrupts \/ enable_interrupts \/ register_interrupt_handler \/ Hlt
  PROVE  IInv'
<1>1. stack = <<>> /\ stack' = <<>> /\ isr = {} /\ isr' = {}
  BY DEF init_interrupts, enable_interrupts, register_interrupt_handler, Hlt, Main,
         IInv, StackInv, pics
<1>2. UNCHANGED <<counts, devices>>
  BY DEF init_interrupts, enable_interrupts, register_interrupt_handler, Hlt
<1>3. irr' \subseteq Lines /\ pc' \in Pcs /\ iflag' \in BOOLEAN
  BY DEF init_interrupts, enable_interrupts, register_interrupt_handler, Hlt, Main,
         IInv, Types, pics, Pcs
<1>4. interrupt_handlers' \in [Vectors -> Handlers] /\ FaultIsFatal'
  <2>1. CASE init_interrupts
    <3>1. Fault \in Vectors /\ Fault = 13
      BY DEF Fault, EXCEPTION_GENERAL_PROTECTION, Vectors
    <3> QED
      BY <2>1, <3>1 DEF init_interrupts, FaultIsFatal, Handlers, Fatal, Fault,
         EXCEPTION_DIVIDE_ERROR, EXCEPTION_GENERAL_PROTECTION, EXCEPTION_PAGE_FAULT,
         IRQ_TIMER, IRQ_KEYBOARD
  <2>2. CASE register_interrupt_handler
    <3>1. Fault # IRQ_KEYBOARD /\ Fault \in Vectors
      BY DEF Fault, EXCEPTION_GENERAL_PROTECTION, IRQ_KEYBOARD, Vectors
    <3> QED
      BY <2>2, <3>1 DEF register_interrupt_handler, Main, FaultIsFatal, Handlers, IInv, Types
  <2>3. CASE enable_interrupts \/ Hlt
    BY <2>3 DEF enable_interrupts, Hlt, Main, FaultIsFatal, IInv, Types
  <2> QED
    BY <2>1, <2>2, <2>3
<1>5. Types'
  BY <1>1, <1>2, <1>3, <1>4 DEF IInv, Types, counts, devices
<1>6. HandlersRunAlone'
  BY <1>1 DEF IInv, HandlersRunAlone, init_interrupts, enable_interrupts,
     register_interrupt_handler, Hlt, Main
<1>7. StackInv'
  BY <1>1 DEF StackInv
<1> QED
  BY <1>4, <1>5, <1>6, <1>7 DEF IInv

(* Every step keeps the invariant.                                         *)
LEMMA NextInv == IInv /\ [Next]_vars => IInv'
<1> SUFFICES ASSUME IInv, [Next]_vars PROVE IInv'
  OBVIOUS
<1>1. CASE \E l \in Lines : Acknowledge(l)
  BY <1>1, AcknowledgeInv
<1>2. CASE stub
  BY <1>2, StubInv
<1>3. CASE isr_handler
  BY <1>3, IsrHandlerInv
<1>4. CASE irq_handler
  BY <1>4, IrqHandlerInv
<1>5. CASE iret
  BY <1>5, IretInv
<1>6. CASE timer_handler \/ keyboard_handler \/ keyboard_interrupt_handler
  BY <1>6, HandlerInv
<1>7. CASE init_interrupts \/ enable_interrupts \/ register_interrupt_handler \/ Hlt
  BY <1>7, MainInv
<1>8. CASE \E l \in Lines : Raise(l)
  BY <1>8, RaiseInv
<1>9. CASE SpuriousInterrupt
  BY <1>9, SpuriousInv
<1>10. CASE \E v \in Exceptions : Exception(v)
  BY <1>10, ExceptionInv
<1>11. CASE UNCHANGED vars
  BY <1>11 DEF vars, counts, pics, devices, IInv, Types, HandlersRunAlone, StackInv,
     FrameInv, FaultIsFatal
<1> QED
  BY <1>1, <1>2, <1>3, <1>4, <1>5, <1>6, <1>7, <1>8, <1>9, <1>10, <1>11 DEF Next, Kernel

-----------------------------------------------------------------------------
(* The invariant holds in every reachable state.                           *)
LEMMA Invariance == Spec => []IInv
<1>1. Init => IInv
  BY InitInv
<1>2. IInv /\ [Next]_vars => IInv'
  BY NextInv
<1> QED
  BY <1>1, <1>2, PTL DEF Spec

(* For every set of lines and exceptions: the stack holds at most one      *)
(* frame, so that interrupts do not nest however fast they come, and the   *)
(* requests, handlers and counters of interrupt.c stay in their ranges.    *)
THEOREM TypeCorrect == Spec => []TypeOK
<1>1. ASSUME IInv PROVE TypeOK
  <2>1. Len(stack) <= 1 /\ Frames \subseteq Frame
    <3>1. CASE stack = <<>>
      BY <3>1 DEF Frames
    <3>2. CASE stack # <<>>
      <4>1. PICK f \in Frame : stack = <<f>>
        BY <1>1, <3>2 DEF IInv, StackInv
      <4> QED
        BY <4>1 DEF Frames
    <3> QED
      BY <3>1, <3>2
  <2> QED
    BY <1>1, <2>1 DEF IInv, Types, TypeOK, Frame, Steps, Pcs
<1> QED
  BY <1>1, Invariance, PTL

(* For every set of lines and exceptions: interrupts are off while a stub  *)
(* or handler runs and as kernel_main left them when none does, although   *)
(* irq_handler() sends its EOI first and the stubs end with sti.           *)
THEOREM HandlersAreAlone == Spec => []HandlersRunAlone
<1>1. IInv => HandlersRunAlone
  BY DEF IInv
<1> QED
  BY <1>1, Invariance, PTL

(* For every set of lines and exceptions: what the PICs hold in service is *)
(* the interrupt whose EOI is still to come, and nothing else, whatever    *)
(* EOIs the driver and spurious interrupts send on top.                    *)
THEOREM ServiceIsExact == Spec => []InServiceIsExact
<1>1. ASSUME IInv PROVE InServiceIsExact
  <2>1. CASE stack = <<>>
    <3>1. Frames = {} /\ isr = {}
      BY <1>1, <2>1 DEF Frames, IInv, StackInv
    <3> QED
      BY <3>1 DEF InServiceIsExact, Unserved
  <2>2. CASE stack # <<>>
    <3>1. PICK f \in Frame : stack = <<f>> /\ isr = Pending(f)
      BY <1>1, <2>2 DEF IInv, StackInv, FrameInv
    <3>2. Frames = {f}
      BY <3>1 DEF Frames
    <3> DEFINE P == f.line # -1 /\ (f.step \in {"stub", "irq_handler"} \/ f.n < 32)
    <3>3. CASE P
      <4>1. Unserved = {f.line}
        BY <3>2, <3>3 DEF Unserved
      <4>2. isr = {f.line, MasterLine(f.line)}
        BY <3>1, <3>3 DEF Pending
      <4> QED
        BY <4>1, <4>2 DEF InServiceIsExact
    <3>4. CASE ~P
      <4>1. Unserved = {}
        BY <3>2, <3>4 DEF Unserved
      <4>2. isr = {}
        BY <3>1, <3>4 DEF Pending
      <4> QED
        BY <4>1, <4>2 DEF InServiceIsExact
    <3> QED
      BY <3>3, <3>4
  <2> QED
    BY <2>1, <2>2
<1> QED
  BY <1>1, Invariance, PTL
=============================================================================
