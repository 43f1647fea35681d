----------------------------- MODULE TaskProofs -----------------------------
(***************************************************************************)
(* Proofs about the task table and schedule(), for every MAX_TASKS and     *)
(* every interleaving of main and the timer interrupt.                     *)
(*                                                                         *)
(* That schedule() only switches to runnable tasks rests on two facts      *)
(* about an interrupt that falls into the scan of main: it makes no task   *)
(* runnable that was not, and when it changes current_task or makes a      *)
(* RUNNING task READY, the current task is runnable.  So if the current    *)
(* task is not runnable, nothing main has read in its scan has changed.    *)
(* An interrupt's own scan is bounded, since main does not run under it.   *)
(***************************************************************************)
EXTENDS Task, TLAPS

(* The tasks in the list: the first Linked slots.                          *)
Linked == next_pid - Unlinked
Listed == 0 .. Linked - 1

(* Before init_task_manager() there is no list, and create_task() fails.   *)
Booting ==
  \/ pc["main"] \in {"boot_scheduler", "boot_tasks"}
  \/ pc["main"] = "create" /\ ret = "boot_tasks"

BootInv ==
  /\ task_list = NULL <=> Booting
  /\ Booting => /\ pid = [t \in Slots |-> 0]
                /\ next_pid = 1 /\ task_count = 0
                /\ interrupts = FALSE
  /\ interrupts = FALSE => pc["irq"] = "idle"

CreateInv ==
  /\ pc["main"] \in {"append", "walk", "count"} =>
       ret # "boot_tasks" /\ next_pid > 1 /\ new_task = next_pid - 1
  /\ pc["main"] = "walk" => last \in Listed

(* The tasks a scan that started after cur has passed when it is at nxt.   *)
Passed(t, cur, nxt) ==
  IF cur < nxt THEN cur < t /\ t < nxt ELSE cur < t \/ t < nxt

Scanning  == {"is_ready", "is_running", "is_current"}
Switching == {"load_current", "store_running", "test_prev", "store_ready"}

(* The locals of schedule() in context x.                                  *)
PointerInv(x) ==
  /\ pc[x] \in {"is_ready", "compare"} => next_task[x] \in Listed \cup {NULL}
  /\ pc[x] \in {"is_running", "is_current", "save_prev", "set_current"} =>
       next_task[x] \in Listed
  /\ pc[x] \in {"set_current"} \cup Switching => prev_task[x] \in Listed
  /\ pc[x] = "store_running" => reg[x] \in Listed

(* If the current task is not runnable, what the scan has passed is not    *)
(* runnable either, and the first of its two tests of a state still holds. *)
ScanInv(x) ==
  /\ pc[x] \in Scanning /\ next_task[x] # NULL /\ ~Runnable(current_task) =>
       \A t \in Listed : Passed(t, current_task, next_task[x]) => ~Runnable(t)
  /\ pc[x] = "is_running" /\ ~Runnable(current_task) =>
       state[next_task[x]] # TASK_READY

(* What schedule() stores, and through which pointers.                     *)
SwitchInv(x) ==
  /\ pc[x] = "compare" =>
       \/ next_task[x] = NULL
       \/ Runnable(next_task[x])
       \/ next_task[x] = current_task /\ \A t \in Listed : ~Runnable(t)
  /\ pc[x] \in {"save_prev", "set_current"} => Runnable(next_task[x])
  /\ pc[x] \in Switching => Runnable(current_task)
  /\ pc[x] = "store_running" => Runnable(reg[x])
  /\ pc[x] = "store_ready" => Runnable(prev_task[x])

ScheduleInv == \A x \in Contexts : PointerInv(x) /\ ScanInv(x) /\ SwitchInv(x)

IInv == TypeOK /\ TableConsistent /\ BootInv /\ CreateInv /\ ScheduleInv

-----------------------------------------------------------------------------
(* The .bss image satisfies the inductive invariant.                       *)
LEMMA InitIInv == Init => IInv
<1> SUFFICES ASSUME Init PROVE IInv
  OBVIOUS
<1> USE TasksAssumption
<1>1. TypeOK
  <2>1. /\ next_pid \in 1 .. MAX_TASKS /\ task_count \in 0 .. MAX_TASKS
        /\ pid \in [Slots -> Int] /\ parent_pid \in [Slots -> Int]
    BY DEF Init
  <2>2. pc \in [Contexts -> MainPcs] /\ pc["irq"] \in SchedulePcs
    BY DEF Init, Contexts, MainPcs, SchedulePcs
  <2>3. interrupts \in BOOLEAN
    BY Zenon DEF Init
  <2> QED BY <2>1, <2>2, <2>3 DEF Init, TypeOK, Pointers
<1>2. TableConsistent
  BY DEF Init, TableConsistent
<1>3. BootInv /\ CreateInv
  BY DEF Init, BootInv, CreateInv, Booting, Contexts
<1>4. ScheduleInv
  BY DEF Init, ScheduleInv, PointerInv, ScanInv, SwitchInv, Scanning, Switching, Contexts
<1> QED BY <1>1, <1>2, <1>3, <1>4 DEF IInv

(* The list when there is one: 0, 1, 2 and so on up to Linked.             *)
LEMMA ListShape ==
  ASSUME TypeOK, TableConsistent, CreateInv, task_list # NULL
  PROVE  /\ task_list = 0 /\ current_task \in Listed
         /\ Linked \in 1 .. MAX_TASKS /\ Listed \subseteq Slots
         /\ \A t \in Slots : next[t] = IF t + 1 < Linked THEN t + 1 ELSE NULL
<1> USE TasksAssumption
<1>1. next_pid \in 1 .. MAX_TASKS /\ Unlinked \in {0, 1}
  BY DEF TypeOK, Unlinked
<1>2. current_task \in Listed
  BY <1>1 DEF TableConsistent, Listed, Linked
<1> QED BY <1>1, <1>2 DEF TableConsistent, Listed, Linked, Slots

(* schedule() only runs once there is a list, moves only its own program   *)
(* counter, and leaves the table alone.                                    *)
LEMMA ScheduleFrame ==
  ASSUME IInv, NEW x \in Contexts, schedule(x)
  PROVE  /\ task_list # NULL /\ ~Booting
         /\ pc[x] \in SchedulePcs \ {"idle"} /\ pc'[x] \in SchedulePcs
         /\ pc' = [pc EXCEPT ![x] = pc'[x]]
         /\ x = "main" => pc["irq"] = "idle"
         /\ UNCHANGED <<table, interrupts, creator, ret>>
         /\ Unlinked' = Unlinked /\ Uncounted' = Uncounted
         /\ Linked' = Linked /\ Listed' = Listed
<1>1. \E from \in SchedulePcs \ {"idle"}, to \in SchedulePcs : Goto(x, from, to)
  BY DEF schedule, schedule_starts, schedule_scans, schedule_switches, schedule_demotes,
         SchedulePcs
<1>2. /\ pc[x] \in SchedulePcs \ {"idle"} /\ pc'[x] \in SchedulePcs
      /\ pc' = [pc EXCEPT ![x] = pc'[x]]
      /\ x = "main" => pc["irq"] = "idle"
  BY <1>1 DEF Goto, IInv, TypeOK
<1>3. UNCHANGED <<table, interrupts, creator, ret>>
  BY DEF schedule
<1>4. task_list # NULL /\ ~Booting
  BY <1>2 DEF IInv, BootInv, Booting, Contexts, SchedulePcs
<1>5. Unlinked' = Unlinked /\ Uncounted' = Uncounted
  <2>1. CASE x = "irq"
    <3>1. pc'["main"] = pc["main"]
      BY <1>2, <2>1 DEF IInv, TypeOK, Contexts
    <3> QED BY <3>1 DEF Unlinked, Uncounted
  <2>2. CASE x = "main"
    BY <1>2, <2>2 DEF Unlinked, Uncounted, SchedulePcs
  <2> QED BY <2>1, <2>2 DEF Contexts
<1>6. Linked' = Linked /\ Listed' = Listed
  BY <1>3, <1>5 DEF Linked, Listed, table
<1> QED BY <1>2, <1>3, <1>4, <1>5, <1>6

(* No step of schedule() changes which tasks are runnable, and it makes    *)
(* only runnable tasks current.                                            *)
LEMMA ScheduleEffect ==
  ASSUME IInv, NEW x \in Contexts, schedule(x)
  PROVE  /\ \A t \in Slots : Runnable(t)' <=> Runnable(t)
         /\ current_task' # current_task =>
              /\ pc[x] = "set_current" /\ current_task' = next_task[x]
              /\ current_task' \in Listed /\ Runnable(current_task')
         /\ \A t \in Slots : state'[t] = TASK_READY /\ state[t] # TASK_READY =>
              Runnable(current_task) /\ current_task' = current_task
<1>1. /\ task_list # NULL /\ pc[x] \in SchedulePcs \ {"idle"}
      /\ PointerInv(x) /\ SwitchInv(x) /\ TypeOK
  BY ScheduleFrame DEF IInv, ScheduleInv
<1>2. Listed \subseteq Slots
  BY <1>1, ListShape DEF IInv
<1>3. CASE UNCHANGED <<state, current_task>>
  BY <1>3 DEF Runnable
<1>4. CASE pc[x] = "set_current"
  BY <1>1, <1>2, <1>4 DEF schedule, schedule_starts, schedule_scans, schedule_switches,
     schedule_demotes, Goto, PointerInv, SwitchInv, Runnable
<1>5. CASE pc[x] = "store_running"
  <2>1. /\ reg[x] \in Slots /\ Runnable(reg[x])
        /\ state' = [state EXCEPT ![reg[x]] = TASK_RUNNING] /\ UNCHANGED current_task
    BY <1>1, <1>2, <1>5 DEF schedule, schedule_starts, schedule_scans, schedule_switches,
       schedule_demotes, Goto, PointerInv, SwitchInv
  <2> QED BY <1>1, <2>1 DEF Runnable, TypeOK, TASK_READY, TASK_RUNNING
<1>6. CASE pc[x] = "store_ready"
  <2>1. /\ prev_task[x] \in Slots /\ Runnable(prev_task[x]) /\ Runnable(current_task)
        /\ state' = [state EXCEPT ![prev_task[x]] = TASK_READY] /\ UNCHANGED current_task
    BY <1>1, <1>2, <1>6 DEF schedule, schedule_starts, schedule_scans, schedule_switches,
       schedule_demotes, Goto, PointerInv, SwitchInv, Switching
  <2> QED BY <1>1, <2>1 DEF Runnable, TypeOK
<1>7. CASE pc[x] \notin {"set_current", "store_running", "store_ready"}
  <2>1. UNCHANGED <<state, current_task>>
    BY <1>7 DEF schedule, schedule_starts, schedule_scans, schedule_switches,
       schedule_demotes, Goto
  <2> QED BY <1>3, <2>1
<1> QED BY <1>4, <1>5, <1>6, <1>7

(* A step of one context keeps the other's invariant: it is main whose     *)
(* schedule() the interrupt has found half way.                            *)
LEMMA OtherContext ==
  ASSUME IInv, NEW x \in Contexts, NEW y \in Contexts, x # y, schedule(x)
  PROVE  (PointerInv(y) /\ ScanInv(y) /\ SwitchInv(y))'
<1>1. /\ TypeOK /\ PointerInv(y) /\ ScanInv(y) /\ SwitchInv(y) /\ SwitchInv(x)
      /\ PointerInv(x)
  BY DEF IInv, ScheduleInv
<1>2. /\ pc'[y] = pc[y] /\ Listed' = Listed /\ Listed \subseteq Slots
      /\ current_task \in Listed
  BY <1>1, ScheduleFrame, ListShape DEF IInv, TypeOK
<1>3. next_task'[y] = next_task[y] /\ prev_task'[y] = prev_task[y] /\ reg'[y] = reg[y]
  BY <1>1 DEF schedule, schedule_starts, schedule_scans, schedule_switches,
     schedule_demotes, TypeOK
<1>4. \A t \in Slots : Runnable(t)' <=> Runnable(t)
  BY ScheduleEffect
<1>5. PointerInv(y)'
  BY <1>1, <1>2, <1>3 DEF PointerInv
<1>6. Runnable(current_task)' \/ (~Runnable(current_task) /\ UNCHANGED current_task)
  BY <1>2, <1>4, ScheduleEffect DEF Runnable
<1>7. ScanInv(y)'
  BY <1>1, <1>2, <1>3, <1>4, <1>6, ScheduleEffect
     DEF ScanInv, PointerInv, Passed, Scanning
<1>8. SwitchInv(y)'
  BY <1>1, <1>2, <1>3, <1>4, <1>6, ScheduleEffect
     DEF SwitchInv, PointerInv, Switching
<1> QED BY <1>5, <1>7, <1>8

(* schedule() keeps the types, and its pointers stay in the list.          *)
LEMMA ScheduleTypes ==
  ASSUME IInv, NEW x \in Contexts, schedule(x)
  PROVE  TypeOK' /\ PointerInv(x)'
<1> USE DEF schedule, schedule_starts, schedule_scans, schedule_switches, schedule_demotes,
        Goto
<1>1. TypeOK /\ PointerInv(x)
  BY DEF IInv, ScheduleInv
<1>2. /\ UNCHANGED <<table, interrupts, creator, ret>>
      /\ pc' = [pc EXCEPT ![x] = pc'[x]] /\ pc'[x] \in SchedulePcs
      /\ Listed' = Listed
  BY ScheduleFrame
<1>3. /\ task_list = 0 /\ current_task \in Listed /\ Listed \subseteq Slots
      /\ \A t \in Listed : next[t] \in Listed \cup {NULL}
      /\ 0 \in Listed
  BY ScheduleFrame, ListShape DEF IInv, Listed, Slots
<1>4. /\ state' \in [Slots -> {TASK_RUNNING, TASK_READY, TASK_SLEEPING, TASK_ZOMBIE}]
      /\ current_task' \in Pointers
  BY <1>1, <1>3, ScheduleEffect DEF TypeOK, Pointers
<1>5. /\ next_task' \in [Contexts -> Pointers] /\ PointerInv(x)'
      /\ prev_task' \in [Contexts -> Pointers] /\ reg' \in [Contexts -> Pointers]
  <2> USE DEF TypeOK, PointerInv, Switching, Pointers
  <2>1. CASE pc[x] \in {"schedule", "first"}
    BY <1>1, <1>2, <1>3, <2>1
  <2>2. CASE pc[x] = "is_ready"
    <3>1. /\ UNCHANGED <<next_task, prev_task, reg>> /\ next_task[x] \in Listed \cup {NULL}
          /\ pc'[x] = "compare" \/ (pc'[x] = "is_running" /\ next_task[x] # NULL)
      BY <1>1, <2>2
    <3> QED BY <1>1, <1>2, <3>1
  <2>3. CASE pc[x] = "is_running"
    <3>1. /\ UNCHANGED <<prev_task, reg>> /\ next_task[x] \in Listed
          /\ \/ pc'[x] = "compare" /\ UNCHANGED next_task
             \/ /\ pc'[x] = "is_current"
                /\ next_task' = [next_task EXCEPT ![x] =
                                   IF next[next_task[x]] = NULL THEN task_list
                                                                ELSE next[next_task[x]]]
      BY <1>1, <2>3
    <3>2. (IF next[next_task[x]] = NULL THEN task_list ELSE next[next_task[x]]) \in Listed
      BY <1>3, <3>1
    <3> QED BY <1>1, <1>2, <1>3, <3>1, <3>2, ZenonT(60)
  <2>4. CASE pc[x] \in {"is_current", "compare", "save_prev"}
    BY <1>1, <1>2, <1>3, <2>4
  <2>5. CASE pc[x] \in {"set_current", "load_current", "store_running"}
    BY <1>1, <1>2, <1>3, <2>5
  <2>6. CASE pc[x] \in {"test_prev", "store_ready"}
    BY <1>1, <1>2, <1>3, <2>6
  <2> QED BY <2>1, <2>2, <2>3, <2>4, <2>5, <2>6, ScheduleFrame DEF SchedulePcs
<1>6. pc' \in [Contexts -> MainPcs] /\ pc'["irq"] \in SchedulePcs
  BY <1>1, <1>2 DEF TypeOK, MainPcs, Contexts
<1>7. TypeOK'
  BY <1>1, <1>2, <1>4, <1>5, <1>6 DEF TypeOK, table, creator
<1> QED BY <1>5, <1>7

(* The scan of schedule(): what it passes is not runnable, unless the      *)
(* current task is.                                                        *)
LEMMA ScheduleScan ==
  ASSUME IInv, NEW x \in Contexts, schedule(x)
  PROVE  ScanInv(x)'
<1> USE DEF schedule, schedule_starts, schedule_scans, schedule_switches, schedule_demotes,
        Goto
<1>1. TypeOK /\ PointerInv(x) /\ ScanInv(x)
  BY DEF IInv, ScheduleInv
<1>2. Listed' = Listed /\ pc'[x] \in SchedulePcs
  BY ScheduleFrame
<1>3. /\ task_list = 0 /\ current_task \in Listed /\ Listed \subseteq Slots
      /\ Linked \in 1 .. MAX_TASKS
      /\ \A t \in Slots : next[t] = IF t + 1 < Linked THEN t + 1 ELSE NULL
  BY ScheduleFrame, ListShape DEF IInv
<1>4. CASE pc[x] = "first"
  <2>1. /\ next_task'[x] \in {current_task + 1, NULL} /\ pc'[x] = "is_ready"
        /\ UNCHANGED <<state, current_task>>
    BY <1>1, <1>3, <1>4 DEF TypeOK
  <2>2. \A t \in Listed : ~Passed(t, current_task, current_task + 1)
    BY <1>3 DEF Passed, Listed
  <2> QED BY <1>2, <1>3, <2>1, <2>2 DEF ScanInv, Runnable
<1>5. CASE pc[x] = "is_ready"
  BY <1>1, <1>2, <1>5 DEF ScanInv, Scanning, Runnable, TypeOK
<1>6. CASE pc[x] = "is_running"
  <2>1. UNCHANGED <<state, current_task>> /\ next_task[x] \in Listed
    BY <1>1, <1>6 DEF PointerInv
  <2>2. CASE pc'[x] = "compare"
    BY <2>2 DEF ScanInv, Scanning
  <2>3. CASE pc'[x] = "is_current"
    <3>1. SUFFICES ASSUME ~Runnable(current_task), NEW t \in Listed,
                          Passed(t, current_task, next_task'[x])
                   PROVE  ~Runnable(t)
      BY <1>2, <2>1, <2>3 DEF ScanInv, Runnable
    <3>2. state[next_task[x]] \notin {TASK_READY, TASK_RUNNING}
      BY <1>1, <1>6, <2>3, <3>1 DEF ScanInv, TypeOK
    <3>3. next_task'[x] = IF next_task[x] + 1 < Linked THEN next_task[x] + 1 ELSE 0
      <4>1. next_task'[x] = IF next[next_task[x]] = NULL THEN task_list
                                                          ELSE next[next_task[x]]
        BY <1>1, <1>6, <2>3 DEF TypeOK
      <4>2. next_task[x] \in Nat
        BY <1>3, <2>1 DEF Listed
      <4> QED BY <1>3, <2>1, <4>1, <4>2 DEF NULL
    <3>4. t = next_task[x] \/ Passed(t, current_task, next_task[x])
      BY <1>3, <2>1, <3>1, <3>3 DEF Passed, Listed, Slots
    <3>5. next_task[x] # NULL
      BY <2>1 DEF Listed, NULL
    <3>6. CASE t = next_task[x]
      BY <3>2, <3>6 DEF Runnable
    <3>7. CASE Passed(t, current_task, next_task[x])
      BY <1>1, <1>6, <3>1, <3>5, <3>7 DEF ScanInv, Scanning
    <3> QED BY <3>4, <3>6, <3>7
  <2> QED BY <1>1, <1>6, <2>2, <2>3 DEF TypeOK
<1>7. CASE pc[x] = "is_current"
  BY <1>1, <1>2, <1>7 DEF ScanInv, Scanning, Runnable, TypeOK
<1>8. CASE pc[x] \notin {"first"} \cup Scanning
  <2>1. pc'[x] \notin Scanning
    BY <1>1, <1>8 DEF Scanning, TypeOK
  <2> QED BY <2>1 DEF ScanInv, Scanning
<1> QED BY <1>4, <1>5, <1>6, <1>7, <1>8 DEF Scanning

(* The end of schedule(): it stores only into runnable tasks.              *)
LEMMA ScheduleSwitch ==
  ASSUME IInv, NEW x \in Contexts, schedule(x)
  PROVE  SwitchInv(x)'
<1> USE DEF schedule, schedule_starts, schedule_scans, schedule_switches, schedule_demotes,
        Goto
<1>1. TypeOK /\ PointerInv(x) /\ ScanInv(x) /\ SwitchInv(x)
  BY DEF IInv, ScheduleInv
<1>2. Listed' = Listed /\ Listed \subseteq Slots /\ current_task \in Listed
  BY ScheduleFrame, ListShape DEF IInv
<1>3. \A t \in Slots : Runnable(t)' <=> Runnable(t)
  BY ScheduleEffect
<1>4. CASE pc[x] = "is_ready"
  BY <1>1, <1>4 DEF SwitchInv, Switching, Runnable, TypeOK
<1>5. CASE pc[x] = "is_running"
  BY <1>1, <1>5 DEF SwitchInv, Switching, Runnable, TypeOK
<1>6. CASE pc[x] = "is_current"
  <2>1. UNCHANGED <<state, current_task, next_task>>
    BY <1>6
  <2>2. CASE pc'[x] = "is_ready"
    BY <2>2 DEF SwitchInv, Switching
  <2>3. CASE pc'[x] = "compare"
    <3>1. next_task[x] = current_task
      BY <1>6, <2>3, <1>1 DEF TypeOK
    <3>2. next_task[x] # NULL /\ current_task \in Int /\ Listed \subseteq Int
      BY <1>2, <3>1 DEF Slots, NULL
    <3>3. \A t \in Listed : t = current_task \/ Passed(t, current_task, next_task[x])
      BY <3>1, <3>2 DEF Passed
    <3>4. ~Runnable(current_task) => \A t \in Listed : ~Runnable(t)
      BY <1>1, <1>6, <3>2, <3>3 DEF ScanInv, Scanning
    <3> QED BY <1>2, <2>1, <2>3, <3>1, <3>4 DEF SwitchInv, Switching, Runnable
  <2> QED BY <1>1, <1>6, <2>2, <2>3 DEF TypeOK
<1>7. CASE pc[x] = "compare"
  BY <1>1, <1>2, <1>7 DEF SwitchInv, PointerInv, Switching, Runnable, TypeOK
<1>8. CASE pc[x] = "save_prev"
  BY <1>1, <1>2, <1>8 DEF SwitchInv, Switching, Runnable, TypeOK
<1>9. CASE pc[x] = "set_current"
  BY <1>1, <1>2, <1>9 DEF SwitchInv, Switching, Runnable, TypeOK
<1>10. CASE pc[x] = "load_current"
  BY <1>1, <1>2, <1>10 DEF SwitchInv, Switching, Runnable, TypeOK
<1>11. CASE pc[x] = "store_running"
  <2>1. pc'[x] = "test_prev" /\ UNCHANGED current_task /\ Runnable(current_task)
    BY <1>1, <1>11 DEF TypeOK, SwitchInv, Switching
  <2> QED BY <1>2, <1>3, <2>1 DEF SwitchInv, Runnable
<1>12. CASE pc[x] \in {"test_prev", "store_ready"}
  BY <1>1, <1>2, <1>12 DEF SwitchInv, Switching, Runnable, TypeOK
<1>13. CASE pc[x] \notin {"is_ready", "is_running", "is_current", "compare", "save_prev",
                          "set_current"} \cup Switching
  <2>1. pc'[x] \in {"idle", "first", "is_ready"}
    BY <1>1, <1>13 DEF TypeOK, Switching
  <2> QED BY <2>1 DEF SwitchInv, Switching
<1> QED BY <1>4, <1>5, <1>6, <1>7, <1>8, <1>9, <1>10, <1>11, <1>12, <1>13 DEF Switching

(* schedule() in either context keeps the invariant.                       *)
LEMMA ScheduleStep ==
  ASSUME IInv, NEW x \in Contexts, schedule(x)
  PROVE  IInv'
<1>1. TypeOK'
  BY ScheduleTypes
<1>2. /\ UNCHANGED <<table, interrupts, creator, ret>> /\ ~Booting
      /\ Unlinked' = Unlinked /\ Uncounted' = Uncounted /\ Listed' = Listed
      /\ pc[x] \in SchedulePcs \ {"idle"} /\ pc'[x] \in SchedulePcs
      /\ pc' = [pc EXCEPT ![x] = pc'[x]] /\ TypeOK
  BY ScheduleFrame DEF IInv
<1>3. TableConsistent'
  <2>1. current_task' \in Listed
    BY ScheduleFrame, ScheduleEffect, ListShape DEF IInv
  <2> QED BY <1>2, <2>1 DEF IInv, TableConsistent, table, Listed, Linked
<1>4. BootInv' /\ CreateInv'
  <2>1. CASE x = "irq"
    <3>1. pc'["main"] = pc["main"] /\ interrupts # FALSE
      BY <1>2, <2>1 DEF TypeOK, Contexts, IInv, BootInv
    <3> QED BY <1>2, <3>1 DEF IInv, BootInv, Booting, CreateInv, table, creator
  <2>2. CASE x = "main"
    <3>1. pc'["main"] \in SchedulePcs /\ pc'["irq"] = pc["irq"]
      BY <1>2, <2>2 DEF TypeOK, Contexts
    <3> QED BY <1>2, <3>1 DEF IInv, BootInv, Booting, CreateInv, table, creator, SchedulePcs
  <2> QED BY <2>1, <2>2 DEF Contexts
<1>5. ScheduleInv'
  <2>1. (PointerInv(x) /\ ScanInv(x) /\ SwitchInv(x))'
    BY ScheduleTypes, ScheduleScan, ScheduleSwitch
  <2>2. ASSUME NEW y \in Contexts, y # x
        PROVE  (PointerInv(y) /\ ScanInv(y) /\ SwitchInv(y))'
    BY <2>2, OtherContext
  <2> QED BY <2>1, <2>2 DEF ScheduleInv
<1> QED BY <1>1, <1>3, <1>4, <1>5 DEF IInv

(* After a step with the interrupt idle and main outside schedule() there  *)
(* is nothing to say of the locals of schedule().                          *)
LEMMA QuietSchedule ==
  ASSUME pc'["irq"] \in {"idle", "schedule"},
         pc'["main"] \notin Scanning \cup Switching \cup {"compare", "save_prev", "set_current"}
  PROVE  ScheduleInv'
  BY DEF ScheduleInv, PointerInv, ScanInv, SwitchInv, Scanning, Switching, Contexts

(* The slot create_task() takes is the one after the last task.            *)
LEMMA FirstFreeSlot ==
  ASSUME IInv, task_list # NULL, FreeSlots # {}
  PROVE  FirstFree = next_pid /\ next_pid \in Slots
<1>1. next_pid \in 1 .. MAX_TASKS
  BY DEF IInv, TypeOK
<1>2. \A t \in Slots : t \in FreeSlots <=> t >= next_pid
  BY <1>1, TasksAssumption DEF IInv, TableConsistent, FreeSlots, INVALID_PID, Slots
<1>3. next_pid \in FreeSlots /\ next_pid \in Slots
  BY <1>1, <1>2, TasksAssumption DEF FreeSlots, Slots
<1>4. \A u \in FreeSlots : next_pid <= u
  BY <1>2 DEF FreeSlots
<1>5. FirstFree \in FreeSlots /\ \A u \in FreeSlots : FirstFree <= u
  BY <1>3, <1>4 DEF FirstFree
<1>6. FirstFree \in Int
  BY <1>5 DEF FreeSlots, Slots
<1> QED BY <1>1, <1>3, <1>4, <1>5, <1>6

(* create_task() keeps the invariant.                                      *)
LEMMA CreateStep == IInv /\ create_task => IInv'
<1> SUFFICES ASSUME IInv, create_task PROVE IInv'
  OBVIOUS
<1> USE TasksAssumption
<1>1. /\ UNCHANGED <<current_task, interrupts, next_task, prev_task, reg, ret>>
      /\ TypeOK /\ TableConsistent /\ BootInv /\ CreateInv
      /\ pc["irq"] = "idle" /\ pc' = [pc EXCEPT !["main"] = pc'["main"]]
  BY DEF create_task, create_task_fails, create_task_fills, create_task_appends,
         create_task_counts, Goto, IInv
<1>2. pc'["irq"] = "idle"
  BY <1>1 DEF TypeOK, Contexts
<1>3. CASE create_task_fails
  <2>1. pc["main"] = "create" /\ pc'["main"] = ret /\ UNCHANGED <<table, state, creator>>
    BY <1>1, <1>3 DEF create_task_fails, Goto, TypeOK, Contexts
  <2>2. ret \in {"idle", "boot_tasks", "boot_sti"}
    BY <1>1 DEF TypeOK
  <2>3. TypeOK'
    BY <1>1, <1>2, <2>1, <2>2 DEF TypeOK, table, creator, MainPcs, SchedulePcs
  <2>4. TableConsistent'
    BY <1>1, <2>1, <2>2 DEF TableConsistent, table, Unlinked, Uncounted
  <2>5. BootInv' /\ CreateInv'
    BY <1>1, <1>2, <2>1, <2>2 DEF BootInv, CreateInv, Booting, table, creator
  <2>6. ScheduleInv'
    BY <1>2, <2>1, <2>2, QuietSchedule DEF Scanning, Switching
  <2> QED BY <2>3, <2>4, <2>5, <2>6 DEF IInv
<1>4. CASE create_task_fills
  <2>1. /\ pc["main"] = "create" /\ pc'["main"] = "append" /\ task_count < MAX_TASKS
        /\ FreeSlots # {} /\ UNCHANGED <<next, task_count, task_list, last>>
        /\ new_task' = FirstFree /\ pid' = [pid EXCEPT ![FirstFree] = next_pid]
        /\ next_pid' = next_pid + 1 /\ state' = [state EXCEPT ![FirstFree] = TASK_READY]
        /\ parent_pid' = [parent_pid EXCEPT ![FirstFree] =
                            IF current_task # NULL THEN pid[current_task] ELSE INVALID_PID]
    BY <1>1, <1>4 DEF create_task_fills, Goto, TypeOK, Contexts
  <2>2. ~Booting /\ task_list # NULL
    BY <1>1, <2>1 DEF BootInv, FreeSlots, INVALID_PID
  <2>3. FirstFree = next_pid /\ next_pid \in Slots /\ task_count = next_pid
    BY <1>1, <2>1, <2>2, FirstFreeSlot DEF TableConsistent, Uncounted, TypeOK
  <2>4. current_task \in 0 .. next_pid - 1 /\ pid[current_task] = current_task
    BY <1>1, <2>1, <2>2, <2>3 DEF TableConsistent, Unlinked, TypeOK, Slots
  <2>5. TypeOK'
    <3>1. pid' \in [Slots -> Int] /\ parent_pid' \in [Slots -> Int]
      BY <1>1, <2>1, <2>3, <2>4 DEF TypeOK, INVALID_PID
    <3>2. next_pid' \in 1 .. MAX_TASKS /\ new_task' \in Pointers
      BY <1>1, <2>1, <2>3 DEF TypeOK, Slots, Pointers
    <3> QED BY <1>1, <1>2, <2>1, <3>1, <3>2 DEF TypeOK, MainPcs, SchedulePcs
  <2>6. TableConsistent'
    <3>1. Unlinked = 0 /\ Unlinked' = 1 /\ Uncounted = 0 /\ Uncounted' = 1
      BY <2>1 DEF Unlinked, Uncounted
    <3> QED BY <1>1, <2>1, <2>2, <2>3, <2>4, <3>1 DEF TableConsistent, TypeOK, NULL, Slots
  <2>7. BootInv' /\ CreateInv'
    BY <1>1, <1>2, <2>1, <2>2, <2>3 DEF BootInv, CreateInv, Booting, TypeOK
  <2>8. ScheduleInv'
    BY <1>2, <2>1, QuietSchedule DEF Scanning, Switching
  <2> QED BY <2>5, <2>6, <2>7, <2>8 DEF IInv
<1>5. CASE create_task_appends
  <2>1. /\ pc["main"] \in {"append", "walk"} /\ pc'["main"] \in {"walk", "count"}
        /\ UNCHANGED <<pid, parent_pid, next_pid, task_count, task_list, state, new_task>>
    BY <1>1, <1>5 DEF create_task_appends, Goto, TypeOK, Contexts
  <2>2. /\ ~Booting /\ task_list = 0 /\ Linked = next_pid - 1 /\ Listed \subseteq Slots
        /\ next_pid \in 2 .. MAX_TASKS /\ new_task = next_pid - 1
        /\ \A t \in Slots : next[t] = IF t + 1 < Linked THEN t + 1 ELSE NULL
    BY <1>1, <2>1, ListShape DEF BootInv, Booting, CreateInv, Linked, Unlinked, TypeOK
  <2>3. CASE pc'["main"] = "walk"
    <3>1. UNCHANGED next /\ last' \in Listed
      BY <1>1, <1>5, <2>1, <2>2, <2>3
         DEF create_task_appends, Goto, TypeOK, Contexts, CreateInv, Listed, NULL
    <3>2. Unlinked' = Unlinked /\ Uncounted' = Uncounted
      BY <2>1, <2>3 DEF Unlinked, Uncounted
    <3>3. TypeOK'
      BY <1>1, <1>2, <2>1, <2>2, <3>1, <2>3 DEF TypeOK, Pointers, MainPcs, SchedulePcs
    <3>4. TableConsistent'
      BY <1>1, <2>1, <3>1, <3>2 DEF TableConsistent
    <3>5. BootInv' /\ CreateInv'
      BY <1>1, <1>2, <2>1, <2>2, <2>3, <3>1, <3>2
         DEF BootInv, CreateInv, Booting, Linked, Listed, NULL
    <3>6. ScheduleInv'
      BY <1>2, <2>3, QuietSchedule DEF Scanning, Switching
    <3> QED BY <3>3, <3>4, <3>5, <3>6 DEF IInv
  <2>4. CASE pc'["main"] = "count"
    <3>1. /\ last \in Listed /\ next[last] = NULL /\ next' = [next EXCEPT ![last] = new_task]
          /\ pc["main"] = "walk" /\ UNCHANGED last
      BY <1>1, <1>5, <2>1, <2>4 DEF create_task_appends, Goto, TypeOK, Contexts, CreateInv
    <3>2. last = next_pid - 2
      BY <2>2, <3>1 DEF Listed, NULL
    <3>3. Unlinked = 1 /\ Unlinked' = 0 /\ Uncounted = 1 /\ Uncounted' = 1
      BY <3>1, <2>4 DEF Unlinked, Uncounted
    <3>4. TypeOK'
      BY <1>1, <1>2, <2>1, <2>2, <2>4, <3>1 DEF TypeOK, Pointers, MainPcs, SchedulePcs
    <3>5. TableConsistent'
      BY <1>1, <2>1, <2>2, <3>1, <3>2, <3>3 DEF TableConsistent, TypeOK, NULL, Slots
    <3>6. BootInv' /\ CreateInv'
      BY <1>1, <1>2, <2>1, <2>2, <2>4 DEF BootInv, CreateInv, Booting, NULL
    <3>7. ScheduleInv'
      BY <1>2, <2>4, QuietSchedule DEF Scanning, Switching
    <3> QED BY <3>4, <3>5, <3>6, <3>7 DEF IInv
  <2> QED BY <2>1, <2>3, <2>4
<1>6. CASE create_task_counts
  <2>1. /\ pc["main"] = "count" /\ pc'["main"] = ret /\ task_count' = task_count + 1
        /\ new_task' = NULL /\ last' = NULL
        /\ UNCHANGED <<pid, parent_pid, next, next_pid, task_list, state>>
    BY <1>1, <1>6 DEF create_task_counts, Goto, TypeOK, Contexts
  <2>2. ret \in {"idle", "boot_sti"} /\ ~Booting /\ task_list # NULL
    BY <1>1, <2>1 DEF TypeOK, CreateInv, BootInv, Booting
  <2>3. task_count = next_pid - 1 /\ Unlinked = 0 /\ Unlinked' = 0 /\ Uncounted' = 0
    BY <1>1, <2>1, <2>2 DEF TableConsistent, Uncounted, Unlinked
  <2>4. TypeOK'
    BY <1>1, <1>2, <2>1, <2>2, <2>3 DEF TypeOK, MainPcs, SchedulePcs, Pointers
  <2>5. TableConsistent'
    BY <1>1, <2>1, <2>2, <2>3 DEF TableConsistent, TypeOK
  <2>6. BootInv' /\ CreateInv'
    BY <1>1, <1>2, <2>1, <2>2 DEF BootInv, CreateInv, Booting
  <2>7. ScheduleInv'
    BY <1>2, <2>1, <2>2, QuietSchedule DEF Scanning, Switching
  <2> QED BY <2>4, <2>5, <2>6, <2>7 DEF IInv
<1> QED BY <1>3, <1>4, <1>5, <1>6 DEF create_task

(* The calls that only move main, and the tick of the timer.               *)
LEMMA CallStep ==
  ASSUME IInv, NEW from \in MainPcs, NEW to \in {"create", "schedule"},
         NEW then \in {"idle", "boot_tasks", "boot_sti"}, Call(from, to, then),
         \/ from = "boot_scheduler" /\ to = "create" /\ then = "boot_tasks"
         \/ from \in {"boot_demo", "idle"} /\ then # "boot_tasks"
  PROVE  IInv'
<1>1. /\ pc["main"] = from /\ pc'["main"] = to /\ ret' = then /\ pc["irq"] = "idle"
      /\ pc'["irq"] = "idle" /\ pc' \in [Contexts -> MainPcs]
      /\ UNCHANGED <<table, state, current_task, interrupts, next_task, prev_task, reg, creator>>
      /\ TypeOK /\ TableConsistent /\ BootInv /\ CreateInv
  BY DEF Call, Goto, IInv, TypeOK, Contexts, MainPcs, SchedulePcs
<1>2. TypeOK'
  BY <1>1 DEF TypeOK, table, creator, SchedulePcs
<1>3. TableConsistent'
  BY <1>1 DEF TableConsistent, table, Unlinked, Uncounted
<1>4. BootInv' /\ CreateInv'
  BY <1>1 DEF BootInv, CreateInv, Booting, table, creator
<1>5. ScheduleInv'
  BY <1>1, QuietSchedule DEF Scanning, Switching
<1> QED BY <1>2, <1>3, <1>4, <1>5 DEF IInv

(* timer_handler() keeps the invariant: main may be anywhere.              *)
LEMMA TimerStep == IInv /\ timer_handler => IInv'
<1> SUFFICES ASSUME IInv, timer_handler PROVE IInv'
  OBVIOUS
<1>1. /\ interrupts /\ pc'["main"] = pc["main"] /\ pc["irq"] = "idle"
      /\ pc'["irq"] = "schedule" /\ pc' \in [Contexts -> MainPcs]
      /\ UNCHANGED <<table, state, current_task, interrupts, next_task, prev_task, reg,
                     creator, ret>>
      /\ TypeOK /\ TableConsistent /\ BootInv /\ CreateInv /\ ScheduleInv
  BY DEF timer_handler, IInv, TypeOK, Contexts, MainPcs, SchedulePcs
<1>2. TypeOK'
  BY <1>1 DEF TypeOK, table, creator, SchedulePcs
<1>3. TableConsistent' /\ CreateInv' /\ Listed' = Listed
  BY <1>1 DEF TableConsistent, CreateInv, table, creator, Unlinked, Uncounted, Linked, Listed
<1>4. BootInv'
  BY <1>1 DEF BootInv, Booting, table
<1>5. ScheduleInv'
  BY <1>1, <1>3 DEF ScheduleInv, PointerInv, ScanInv, SwitchInv, Scanning, Switching,
     Contexts, Runnable
<1> QED BY <1>2, <1>3, <1>4, <1>5 DEF IInv

(* The other steps of main: the end of the boot, and the calls that change *)
(* a state or current_task.                                                *)
LEMMA MainStep ==
  ASSUME IInv,
         \/ init_task_manager \/ enable_interrupts \/ task_exit \/ task_sleep
         \/ \E t \in Slots : task_wake(t) \/ switch_to_task(t)
  PROVE  IInv'
<1> USE TasksAssumption
<1>1. /\ TypeOK /\ TableConsistent /\ BootInv /\ CreateInv
      /\ pc["irq"] = "idle" /\ pc' = [pc EXCEPT !["main"] = pc'["main"]]
      /\ UNCHANGED <<next_task, prev_task, creator, ret>>
  BY DEF IInv, init_task_manager, enable_interrupts, task_exit, task_sleep, task_leaves,
         task_wake, switch_to_task, Goto
<1>2. pc'["irq"] = "idle" /\ (pc'["main"] \in MainPcs => pc' \in [Contexts -> MainPcs])
  BY <1>1 DEF TypeOK, Contexts
<1>3. CASE init_task_manager
  <2>1. /\ pc["main"] = "boot_tasks" /\ pc'["main"] = "boot_demo"
        /\ pid' = [t \in Slots |-> IF t = 0 THEN 0 ELSE INVALID_PID]
        /\ state' = [t \in Slots |-> IF t = 0 THEN TASK_RUNNING ELSE TASK_ZOMBIE]
        /\ next' = [t \in Slots |-> NULL]
        /\ parent_pid' = [parent_pid EXCEPT ![0] = INVALID_PID]
        /\ current_task' = 0 /\ task_list' = 0 /\ task_count' = 1
        /\ UNCHANGED <<next_pid, interrupts, reg>>
    BY <1>1, <1>3 DEF init_task_manager, Goto, TypeOK, Contexts
  <2>2. next_pid = 1 /\ 0 \in Slots
    BY <1>1, <2>1 DEF BootInv, Booting, Slots
  <2>3. TypeOK'
    BY <1>1, <1>2, <2>1, <2>2 DEF TypeOK, MainPcs, SchedulePcs, Pointers, creator, INVALID_PID
  <2>4. TableConsistent'
    BY <1>1, <2>1, <2>2 DEF TableConsistent, Unlinked, Uncounted, TypeOK, INVALID_PID, Slots
  <2>5. BootInv' /\ CreateInv'
    BY <1>1, <1>2, <2>1 DEF BootInv, CreateInv, Booting, NULL
  <2>6. ScheduleInv'
    BY <1>2, <2>1, QuietSchedule DEF Scanning, Switching
  <2> QED BY <2>3, <2>4, <2>5, <2>6 DEF IInv
<1>4. CASE enable_interrupts
  <2>1. /\ pc["main"] = "boot_sti" /\ pc'["main"] = "idle" /\ interrupts' = TRUE
        /\ UNCHANGED <<table, state, current_task, reg>>
    BY <1>1, <1>4 DEF enable_interrupts, Goto, TypeOK, Contexts
  <2>2. interrupts' \in BOOLEAN
    BY Zenon, <2>1
  <2>3. TypeOK'
    BY <1>1, <1>2, <2>1, <2>2 DEF TypeOK, table, creator, MainPcs, SchedulePcs
  <2>4. TableConsistent'
    BY <1>1, <2>1 DEF TableConsistent, Unlinked, Uncounted, table
  <2>5. BootInv' /\ CreateInv'
    BY <1>1, <1>2, <2>1 DEF BootInv, CreateInv, Booting, table
  <2>6. ScheduleInv'
    BY <1>2, <2>1, QuietSchedule DEF Scanning, Switching
  <2> QED BY <2>3, <2>4, <2>5, <2>6 DEF IInv
<1>5. CASE task_exit \/ task_sleep
  <2>1. /\ pc["main"] \in {"idle", "store_zombie", "store_sleeping"}
        /\ pc'["main"] \in {"schedule", "store_zombie", "store_sleeping"}
        /\ UNCHANGED <<table, current_task, interrupts>> /\ reg' \in [Contexts -> Pointers]
        /\ state' \in [Slots -> {TASK_RUNNING, TASK_READY, TASK_SLEEPING, TASK_ZOMBIE}]
    BY <1>1, <1>5 DEF task_exit, task_sleep, task_leaves, Goto, TypeOK, Contexts, Pointers
  <2>2. TypeOK'
    BY <1>1, <1>2, <2>1 DEF TypeOK, table, creator, MainPcs, SchedulePcs
  <2>3. TableConsistent'
    BY <1>1, <2>1 DEF TableConsistent, Unlinked, Uncounted, table
  <2>4. BootInv' /\ CreateInv'
    BY <1>1, <1>2, <2>1 DEF BootInv, CreateInv, Booting, table
  <2>5. ScheduleInv'
    BY <1>2, <2>1, QuietSchedule DEF Scanning, Switching
  <2> QED BY <2>2, <2>3, <2>4, <2>5 DEF IInv
<1>6. ASSUME NEW t \in Slots, task_wake(t) \/ switch_to_task(t)
      PROVE  IInv'
  <2>1. /\ pc["main"] = "idle" /\ pc'["main"] = "idle" /\ pid[t] # INVALID_PID
        /\ UNCHANGED <<table, interrupts, reg>> /\ current_task' \in {current_task, t}
        /\ state' \in [Slots -> {TASK_RUNNING, TASK_READY, TASK_SLEEPING, TASK_ZOMBIE}]
    BY <1>1, <1>6 DEF task_wake, switch_to_task, Goto, TypeOK, Contexts
  <2>2. TypeOK'
    BY <1>1, <1>2, <2>1 DEF TypeOK, table, creator, MainPcs, SchedulePcs, Pointers
  <2>3. TableConsistent'
    <3>1. task_list # NULL /\ Unlinked = 0 /\ Unlinked' = 0 /\ Uncounted' = Uncounted
      BY <1>1, <2>1 DEF BootInv, Booting, Unlinked, Uncounted
    <3>2. t < next_pid
      BY <1>1, <2>1, <3>1 DEF TableConsistent
    <3> QED BY <1>1, <2>1, <3>1, <3>2 DEF TableConsistent, table, Slots, TypeOK
  <2>4. BootInv' /\ CreateInv'
    BY <1>1, <1>2, <2>1 DEF BootInv, CreateInv, Booting, table
  <2>5. ScheduleInv'
    BY <1>2, <2>1, QuietSchedule DEF Scanning, Switching
  <2> QED BY <2>2, <2>3, <2>4, <2>5 DEF IInv
<1> QED BY <1>3, <1>4, <1>5, <1>6

(* Every step keeps the invariant.                                         *)
LEMMA NextIInv == IInv /\ [Next]_vars => IInv'
<1> SUFFICES ASSUME IInv, [Next]_vars PROVE IInv'
  OBVIOUS
<1>1. CASE create_idle_task \/ create_demo_task \/ CallCreate \/ CallSchedule
  <2>1. {"boot_scheduler", "boot_demo", "idle"} \subseteq MainPcs
    BY DEF MainPcs, SchedulePcs
  <2>2. CASE Call("boot_scheduler", "create", "boot_tasks")
    BY <2>1, <2>2, CallStep
  <2>3. CASE Call("boot_demo", "create", "boot_sti")
    BY <2>1, <2>3, CallStep
  <2>4. CASE Call("idle", "create", "idle")
    BY <2>1, <2>4, CallStep
  <2>5. CASE Call("idle", "schedule", "idle")
    BY <2>1, <2>5, CallStep
  <2> QED BY <1>1, <2>2, <2>3, <2>4, <2>5
     DEF create_idle_task, create_demo_task, CallCreate, CallSchedule
<1>2. CASE create_task
  BY <1>2, CreateStep
<1>3. CASE \/ init_task_manager \/ enable_interrupts \/ task_exit \/ task_sleep
           \/ \E t \in Slots : task_wake(t) \/ switch_to_task(t)
  BY <1>3, MainStep
<1>4. CASE schedule("main") \/ schedule("irq")
  BY <1>4, ScheduleStep DEF Contexts
<1>5. CASE timer_handler
  BY <1>5, TimerStep
<1>6. CASE UNCHANGED vars
  BY <1>6 DEF vars, table, creator, IInv, TypeOK, TableConsistent, BootInv, CreateInv,
     ScheduleInv, PointerInv, ScanInv, SwitchInv, Booting, Listed, Linked, Unlinked,
     Uncounted, Runnable
<1> QED BY <1>1, <1>2, <1>3, <1>4, <1>5, <1>6 DEF Next, Main, Boot

-----------------------------------------------------------------------------
(* The inductive invariant holds in every reachable state.                 *)
THEOREM Inductive == Spec => []IInv
<1>1. Init => IInv
  BY InitIInv
<1>2. IInv /\ [Next]_vars => IInv'
  BY NextIInv
<1> QED BY <1>1, <1>2, PTL DEF Spec

(* The types of the task manager, for every MAX_TASKS: no counter passes   *)
(* it and no pointer leaves the table.                                     *)
THEOREM TypeCorrect == Spec => []TypeOK
<1>1. IInv => TypeOK
  BY DEF IInv
<1> QED BY <1>1, Inductive, PTL

(* The table, the list and the counters agree whatever interrupts          *)
(* create_task().                                                          *)
THEOREM TableIsConsistent == Spec => []TableConsistent
<1>1. IInv => TableConsistent
  BY DEF IInv
<1> QED BY <1>1, Inductive, PTL

(* schedule() switches to runnable tasks only, although interrupts may     *)
(* change states and current_task between its tests and its stores.        *)
THEOREM SwitchIsSafe == Spec => []SwitchToRunnable
<1>1. IInv => SwitchToRunnable
  BY DEF IInv, ScheduleInv, SwitchInv, SwitchToRunnable
<1> QED BY <1>1, Inductive, PTL

(* No step of schedule() makes a sleeping or finished task runnable.       *)
THEOREM NobodyIsRevived == Spec => NoResurrection
<1> DEFINE Step == \A t \in Slots :
      task_list # NULL /\ pid[t] # INVALID_PID /\ ~Runnable(t) /\ Runnable(t)'
        => \A x \in Contexts : pc[x] = "idle"
<1>1. IInv /\ [Next]_vars => [Step]_vars
  <2> SUFFICES ASSUME IInv, Next, NEW t \in Slots, task_list # NULL,
                      pid[t] # INVALID_PID, ~Runnable(t), Runnable(t)'
               PROVE  \A x \in Contexts : pc[x] = "idle"
    OBVIOUS
  <2>1. CASE schedule("main") \/ schedule("irq")
    BY <2>1, ScheduleEffect DEF Contexts
  <2>2. CASE create_task
    <3>1. state' # state
      BY DEF Runnable
    <3>2. create_task_fills
      BY <2>2, <3>1 DEF create_task, create_task_fails, create_task_appends,
         create_task_counts
    <3>3. FirstFree # t
      <4>1. FreeSlots # {}
        BY <3>2 DEF create_task_fills
      <4>2. pid[FirstFree] = INVALID_PID
        BY <4>1, FirstFreeSlot DEF IInv, TableConsistent, TypeOK
      <4> QED BY <4>2
    <3> QED BY <3>2, <3>3 DEF create_task_fills, Runnable, IInv, TypeOK
  <2>3. CASE init_task_manager
    <3>1. pc["main"] = "boot_tasks"
      BY <2>3 DEF init_task_manager, Goto
    <3> QED BY <3>1 DEF IInv, BootInv, Booting
  <2>4. CASE task_exit \/ task_sleep
    BY <2>4 DEF task_exit, task_sleep, task_leaves, Runnable, IInv, TypeOK,
       TASK_READY, TASK_RUNNING, TASK_SLEEPING, TASK_ZOMBIE
  <2>5. CASE \E u \in Slots : task_wake(u) \/ switch_to_task(u)
    BY <2>5 DEF task_wake, switch_to_task, Goto, Contexts
  <2>6. CASE UNCHANGED state
    BY <2>6 DEF Runnable
  <2> QED BY <2>1, <2>2, <2>3, <2>4, <2>5, <2>6
     DEF Next, Main, Boot, create_idle_task, create_demo_task, enable_interrupts,
         CallCreate, CallSchedule, Call, timer_handler
<1> QED BY <1>1, Inductive, PTL DEF Spec, NoResurrection

-----------------------------------------------------------------------------
(* How long a timer interrupt takes.                                       *)

(* How many tasks of a list of n the scan has to go through from nxt until *)
(* it is back at cur.                                                      *)
ToGo(nxt, cur, n) ==
  IF nxt = NULL THEN 0 ELSE IF nxt <= cur THEN cur - nxt ELSE cur + n - nxt

(* A bound on the steps that are left of a schedule() that is at step p    *)
(* with d tasks to go.                                                     *)
StepsAt(p, d) ==
  CASE p = "idle"          -> 0
    [] p = "store_ready"   -> 1
    [] p = "test_prev"     -> 2
    [] p = "store_running" -> 3
    [] p = "load_current"  -> 4
    [] p = "set_current"   -> 5
    [] p = "save_prev"     -> 6
    [] p = "compare"       -> 7
    [] p = "is_running"    -> 7 + 3 * d
    [] p = "is_ready"      -> 8 + 3 * d
    [] p = "is_current"    -> 9 + 3 * d
    [] p = "first"         -> 6 + 3 * MAX_TASKS
    [] OTHER               -> 7 + 3 * MAX_TASKS

StepsLeft == StepsAt(pc["irq"], ToGo(next_task["irq"], current_task, Linked))

(* An interrupt in progress has a number of steps left.                    *)
BoundedSteps ==
  StepsLeft \in 0 .. 7 + 3 * MAX_TASKS /\ (StepsLeft = 0 <=> pc["irq"] = "idle")

(* Whatever step is taken until it returns is one of them.                 *)
StepsFall == pc["irq"] # "idle" => StepsLeft' < StepsLeft

(* The scan of an interrupt is not at the task it started from: nothing    *)
(* changes current_task under it.  The scan of main may be.                *)
ScanIsOff ==
  pc["irq"] \in {"is_ready", "is_running"} => next_task["irq"] # current_task

(* The bound at each step.                                                 *)
LEMMA StepsAre ==
  ASSUME NEW d
  PROVE  /\ StepsAt("idle", d) = 0
         /\ StepsAt("store_ready", d) = 1
         /\ StepsAt("test_prev", d) = 2
         /\ StepsAt("store_running", d) = 3
         /\ StepsAt("load_current", d) = 4
         /\ StepsAt("set_current", d) = 5
         /\ StepsAt("save_prev", d) = 6
         /\ StepsAt("compare", d) = 7
         /\ StepsAt("is_running", d) = 7 + 3 * d
         /\ StepsAt("is_ready", d) = 8 + 3 * d
         /\ StepsAt("is_current", d) = 9 + 3 * d
         /\ StepsAt("first", d) = 6 + 3 * MAX_TASKS
         /\ StepsAt("schedule", d) = 7 + 3 * MAX_TASKS
BY DEF StepsAt

(* Every step of main goes from one step to another.                       *)
LEMMA MainGoes ==
  ASSUME Main
  PROVE  \E from, to : Goto("main", from, to)
<1>1. ASSUME create_task PROVE \E from, to : Goto("main", from, to)
  BY <1>1 DEF create_task, create_task_fails, create_task_fills, create_task_appends,
     create_task_counts
<1>2. ASSUME schedule("main") PROVE \E from, to : Goto("main", from, to)
  BY <1>2 DEF schedule, schedule_starts, schedule_scans, schedule_switches, schedule_demotes
<1> QED BY <1>1, <1>2 DEF Main, Boot, create_idle_task, init_task_manager,
     create_demo_task, enable_interrupts, CallCreate, CallSchedule, Call, task_exit,
     task_sleep, task_leaves, task_wake, switch_to_task

(* While an interrupt is in progress, main waits.                          *)
LEMMA OnlyInterrupt ==
  ASSUME Next, pc["irq"] # "idle"
  PROVE  schedule("irq")
BY MainGoes DEF Next, timer_handler, Goto

(* Where a scan in an interrupt is.                                        *)
LEMMA ScanIs ==
  ASSUME IInv, pc["irq"] # "idle"
  PROVE  /\ task_list = 0 /\ current_task \in Listed /\ Linked \in 1 .. MAX_TASKS
         /\ Listed \subseteq Slots
         /\ \A t \in Slots : next[t] = IF t + 1 < Linked THEN t + 1 ELSE NULL
         /\ pc["irq"] \in Scanning => next_task["irq"] \in Listed \cup {NULL}
         /\ pc["irq"] \in {"is_running", "is_current"} => next_task["irq"] \in Listed
         /\ pc["irq"] \in SchedulePcs
<1>1. task_list # NULL
  BY DEF IInv, BootInv
<1>2. PointerInv("irq") /\ pc["irq"] \in SchedulePcs
  BY DEF IInv, ScheduleInv, TypeOK, Contexts
<1> QED BY <1>1, <1>2, ListShape DEF IInv, PointerInv, Scanning

(* There are fewer tasks to go than tasks in the list.                     *)
LEMMA FewToGo ==
  ASSUME NEW n \in Nat \ {0}, NEW cur \in 0 .. n - 1, NEW nxt \in (0 .. n - 1) \cup {NULL}
  PROVE  ToGo(nxt, cur, n) \in 0 .. n - 1
BY DEF ToGo, NULL

(* One less after the next one.                                            *)
LEMMA OneLess ==
  ASSUME NEW n \in Nat \ {0}, NEW cur \in 0 .. n - 1, NEW nxt \in 0 .. n - 1, nxt # cur
  PROVE  ToGo(IF nxt + 1 < n THEN nxt + 1 ELSE 0, cur, n) = ToGo(nxt, cur, n) - 1
BY DEF ToGo, NULL

(* A step of the interrupt's schedule().                                   *)
LEMMA InterruptStep ==
  ASSUME IInv, ScanIsOff, schedule("irq")
  PROVE  StepsLeft' < StepsLeft /\ ScanIsOff'
<1> USE DEF schedule, schedule_starts, schedule_scans, schedule_switches, schedule_demotes,
        Goto
<1>0. /\ pc["irq"] \in SchedulePcs \ {"idle"} /\ Linked' = Linked
      /\ pc \in [Contexts -> MainPcs] /\ next_task \in [Contexts -> Pointers]
  BY ScheduleFrame DEF Contexts, IInv, TypeOK
<1>1. PICK n, cur, nxt : n = Linked /\ cur = current_task /\ nxt = next_task["irq"]
  OBVIOUS
<1>2. /\ n \in Nat \ {0} /\ n <= MAX_TASKS /\ MAX_TASKS \in Nat /\ cur \in 0 .. n - 1
      /\ task_list = 0
      /\ \A t \in 0 .. n - 1 : next[t] = IF t + 1 < n THEN t + 1 ELSE NULL
      /\ pc["irq"] \in Scanning => nxt \in (0 .. n - 1) \cup {NULL}
      /\ pc["irq"] \in {"is_running", "is_current"} => nxt \in 0 .. n - 1
  BY <1>0, <1>1, ScanIs, TasksAssumption DEF Listed
<1>3. StepsLeft = StepsAt(pc["irq"], ToGo(nxt, cur, n))
  BY <1>1 DEF StepsLeft
<1>4. StepsLeft' = StepsAt(pc'["irq"], ToGo(next_task'["irq"], current_task', n))
  BY <1>0, <1>1 DEF StepsLeft
<1>5. CASE pc["irq"] = "schedule"
  <2>1. pc'["irq"] \in {"idle", "first"}
    BY <1>0, <1>5 DEF Contexts
  <2> QED BY <1>2, <1>3, <1>4, <1>5, <2>1, StepsAre DEF ScanIsOff
<1>6. CASE pc["irq"] = "first"
  <2>1. /\ pc'["irq"] = "is_ready" /\ current_task' = cur
        /\ next_task'["irq"] = IF cur + 1 < n THEN cur + 1 ELSE NULL
    BY <1>0, <1>1, <1>2, <1>6 DEF Contexts
  <2>2. next_task'["irq"] # cur
    BY <1>2, <2>1 DEF NULL
  <2>3. ToGo(next_task'["irq"], cur, n) \in 0 .. n - 1
    <3>1. next_task'["irq"] \in (0 .. n - 1) \cup {NULL}
      BY <1>2, <2>1
    <3> QED BY <1>2, <3>1, FewToGo
  <2> QED BY <1>2, <1>3, <1>4, <1>6, <2>1, <2>2, <2>3, StepsAre DEF ScanIsOff
<1>7. CASE pc["irq"] = "is_ready"
  <2>1. /\ pc'["irq"] \in {"compare", "is_running"}
        /\ next_task'["irq"] = nxt /\ current_task' = cur
    BY <1>0, <1>1, <1>7 DEF Contexts
  <2>2. ToGo(nxt, cur, n) \in 0 .. n - 1 /\ nxt # cur
    BY <1>1, <1>2, <1>7, FewToGo DEF Scanning, ScanIsOff
  <2> QED BY <1>2, <1>3, <1>4, <1>7, <2>1, <2>2, StepsAre DEF ScanIsOff
<1>8. CASE pc["irq"] = "is_running"
  <2>1. ToGo(nxt, cur, n) \in 0 .. n - 1 /\ nxt # cur /\ nxt \in 0 .. n - 1
    BY <1>1, <1>2, <1>8, FewToGo DEF ScanIsOff
  <2>2. PICK d : d = ToGo(nxt, cur, n)
    OBVIOUS
  <2>3. d \in Nat /\ d - 1 \in Nat
    <3>1. ToGo(nxt, cur, n) # 0
      BY <1>2, <2>1 DEF ToGo, NULL
    <3> QED BY <1>2, <2>1, <2>2, <3>1
  <2>4. CASE pc'["irq"] = "compare"
    BY <1>3, <1>4, <1>8, <2>2, <2>3, <2>4, StepsAre DEF ScanIsOff
  <2>5. CASE pc'["irq"] # "compare"
    <3>1. /\ pc'["irq"] = "is_current" /\ current_task' = cur
          /\ next_task'["irq"] = IF next[nxt] = NULL THEN 0 ELSE next[nxt]
      BY <1>0, <1>1, <1>2, <1>8, <2>5 DEF Contexts
    <3>2. next_task'["irq"] = IF nxt + 1 < n THEN nxt + 1 ELSE 0
      BY <1>2, <2>1, <3>1 DEF NULL
    <3>3. ToGo(next_task'["irq"], cur, n) = d - 1
      BY <1>2, <2>1, <2>2, <3>2, OneLess
    <3> QED BY <1>3, <1>4, <1>8, <2>2, <2>3, <3>1, <3>3, StepsAre DEF ScanIsOff
  <2> QED BY <2>4, <2>5
<1>9. CASE pc["irq"] = "is_current"
  <2>1. /\ next_task'["irq"] = nxt /\ current_task' = cur
        /\ \/ pc'["irq"] = "compare"
           \/ pc'["irq"] = "is_ready" /\ nxt # cur
    BY <1>0, <1>1, <1>9 DEF Contexts
  <2>2. ToGo(nxt, cur, n) \in 0 .. n - 1
    BY <1>2, <1>9, FewToGo
  <2> QED BY <1>2, <1>3, <1>4, <1>9, <2>1, <2>2, StepsAre DEF ScanIsOff
<1>10. CASE pc["irq"] \in {"compare", "save_prev", "set_current"}
  <2>1. \/ pc["irq"] = "compare" /\ pc'["irq"] \in {"idle", "save_prev"}
        \/ pc["irq"] = "save_prev" /\ pc'["irq"] = "set_current"
        \/ pc["irq"] = "set_current" /\ pc'["irq"] = "load_current"
    BY <1>0, <1>10 DEF Contexts
  <2> QED BY <1>3, <1>4, <2>1, StepsAre DEF ScanIsOff
<1>11. CASE pc["irq"] \in Switching
  <2>1. \/ pc["irq"] = "load_current" /\ pc'["irq"] = "store_running"
        \/ pc["irq"] = "store_running" /\ pc'["irq"] = "test_prev"
        \/ pc["irq"] = "test_prev" /\ pc'["irq"] \in {"idle", "store_ready"}
        \/ pc["irq"] = "store_ready" /\ pc'["irq"] = "idle"
    BY <1>0, <1>11 DEF Contexts, Switching
  <2> QED BY <1>3, <1>4, <2>1, StepsAre DEF ScanIsOff
<1> QED BY <1>0, <1>5, <1>6, <1>7, <1>8, <1>9, <1>10, <1>11 DEF SchedulePcs, Switching

(* A timer interrupt returns after at most 7 + 3 * MAX_TASKS steps,        *)
(* whatever the states of the tasks and wherever it found main: its scan   *)
(* comes back to the task it started from.                                 *)
THEOREM InterruptIsBounded == Spec => []BoundedSteps /\ [][StepsFall]_vars
<1>1. IInv => BoundedSteps
  <2> SUFFICES ASSUME IInv PROVE BoundedSteps
    OBVIOUS
  <2>1. CASE pc["irq"] = "idle"
    BY <2>1, StepsAre, TasksAssumption DEF BoundedSteps, StepsLeft
  <2>2. CASE pc["irq"] # "idle"
    <3>1. PICK d : d = ToGo(next_task["irq"], current_task, Linked)
      OBVIOUS
    <3>2. MAX_TASKS \in Nat \ {0} /\ pc["irq"] \in SchedulePcs
      BY <2>2, ScanIs, TasksAssumption
    <3>3. pc["irq"] \in Scanning => d \in 0 .. MAX_TASKS - 1
      <4>1. /\ Linked \in Nat \ {0} /\ Linked <= MAX_TASKS /\ current_task \in 0 .. Linked - 1
            /\ pc["irq"] \in Scanning => next_task["irq"] \in (0 .. Linked - 1) \cup {NULL}
        BY <2>2, <3>2, ScanIs DEF Listed
      <4>2. pc["irq"] \in Scanning => d \in 0 .. Linked - 1
        BY <3>1, <4>1, FewToGo
      <4> QED BY <3>2, <4>1, <4>2
    <3>4. StepsLeft = StepsAt(pc["irq"], d)
      BY <3>1 DEF StepsLeft
    <3>5. CASE pc["irq"] \in Scanning
      BY <3>2, <3>3, <3>4, <3>5, StepsAre DEF BoundedSteps, Scanning
    <3>6. CASE pc["irq"] \notin Scanning
      BY <2>2, <3>2, <3>4, <3>6, StepsAre DEF BoundedSteps, Scanning, SchedulePcs
    <3> QED BY <3>5, <3>6
  <2> QED BY <2>1, <2>2
<1>2. Init => ScanIsOff
  BY DEF Init, ScanIsOff, Contexts
<1>3. IInv /\ ScanIsOff /\ [Next]_vars => ScanIsOff'
  <2> SUFFICES ASSUME IInv, ScanIsOff, [Next]_vars PROVE ScanIsOff'
    OBVIOUS
  <2>1. CASE UNCHANGED vars
    BY <2>1 DEF vars, ScanIsOff
  <2>2. CASE Next /\ pc["irq"] # "idle"
    BY <2>2, OnlyInterrupt, InterruptStep
  <2>3. CASE Next /\ pc["irq"] = "idle"
    <3>1. pc'["irq"] \in {"idle", "schedule"}
      <4>1. ASSUME NEW from, NEW to, Goto("main", from, to) PROVE pc'["irq"] = "idle"
        BY <2>3, <4>1 DEF Goto, IInv, TypeOK, Contexts
      <4>2. ASSUME timer_handler PROVE pc'["irq"] = "schedule"
        BY <4>2 DEF timer_handler, IInv, TypeOK, Contexts
      <4>3. ~schedule("irq")
        BY <2>3, ScheduleFrame DEF Contexts
      <4>4. ASSUME Main PROVE \E from, to : Goto("main", from, to)
        BY <4>4, MainGoes
      <4> QED BY <2>3, <4>1, <4>2, <4>3, <4>4 DEF Next
    <3> QED BY <3>1 DEF ScanIsOff
  <2> QED BY <2>1, <2>2, <2>3
<1>4. IInv /\ ScanIsOff /\ [Next]_vars => [StepsFall]_vars
  BY OnlyInterrupt, InterruptStep DEF StepsFall
<1> QED BY <1>1, <1>2, <1>3, <1>4, Inductive, PTL DEF Spec
=============================================================================
