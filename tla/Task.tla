-------------------------------- MODULE Task --------------------------------
(***************************************************************************)
(* The task table and the round-robin schedule() of kernel/task.c.         *)
(*                                                                         *)
(* schedule() runs in two contexts: "main", the code kernel_main runs,     *)
(* with interrupts enabled, and "irq", the timer interrupt, which calls it *)
(* every tenth tick (interrupt.c:165-177).  The interrupt runs to its end  *)
(* before main goes on; it can fall between any two accesses main makes to *)
(* shared state, and each of those accesses is a step of its own here.     *)
(* The build has no -O option, so `current_task->state = TASK_RUNNING`     *)
(* loads current_task and then stores through it: two steps.               *)
(*                                                                         *)
(* No call of schedule() switches the CPU: its call of switch_to_task() is *)
(* commented out (task.c:125), and save_task_context() and                 *)
(* restore_task_context() are empty.  A task is its slot in tasks[], a     *)
(* pointer is a slot or NULL; a local variable is NULL when it is dead.    *)
(***************************************************************************)
EXTENDS Integers

CONSTANT MAX_TASKS

ASSUME TasksAssumption == MAX_TASKS \in Nat \ {0}

VARIABLES
  pid, state, parent_pid, next,     \* tasks[]
  current_task, task_list, next_pid, task_count,
  interrupts,                       \* the interrupt flag
  pc, next_task, prev_task, reg,    \* schedule() in each context: program
                                    \* counter, its locals, and the register
                                    \* that holds a loaded current_task
  new_task, last, ret               \* create_task() in main, and where main
                                    \* goes when it returns

table   == <<pid, parent_pid, next, next_pid, task_count, task_list>>
creator == <<new_task, last>>
vars    == <<table, state, current_task, interrupts, pc, next_task, prev_task,
             reg, creator, ret>>

NULL        == -1
INVALID_PID == -1
Slots       == 0 .. MAX_TASKS - 1
Pointers    == Slots \cup {NULL}
Contexts    == {"main", "irq"}

TASK_RUNNING  == "TASK_RUNNING"
TASK_READY    == "TASK_READY"
TASK_SLEEPING == "TASK_SLEEPING"
TASK_ZOMBIE   == "TASK_ZOMBIE"

Runnable(t) == state[t] \in {TASK_READY, TASK_RUNNING}

-----------------------------------------------------------------------------
(* The .bss image: every pid is 0, every state 0 (TASK_RUNNING).  main is  *)
(* about to call init_scheduler(), before init_task_manager().             *)
Init ==
  /\ pid = [t \in Slots |-> 0]
  /\ state = [t \in Slots |-> TASK_RUNNING]
  /\ parent_pid = [t \in Slots |-> 0]
  /\ next = [t \in Slots |-> NULL]
  /\ current_task = NULL /\ task_list = NULL
  /\ next_pid = 1 /\ task_count = 0
  /\ interrupts = FALSE
  /\ pc = [x \in Contexts |-> IF x = "main" THEN "boot_scheduler" ELSE "idle"]
  /\ next_task = [x \in Contexts |-> NULL]
  /\ prev_task = [x \in Contexts |-> NULL]
  /\ reg = [x \in Contexts |-> NULL]
  /\ new_task = NULL /\ last = NULL /\ ret = "idle"

(* Context x goes from one step to another.  main waits for an interrupt   *)
(* to return.                                                              *)
Goto(x, from, to) ==
  /\ x = "main" => pc["irq"] = "idle"
  /\ pc[x] = from
  /\ pc' = [pc EXCEPT ![x] = to]

-----------------------------------------------------------------------------
(* create_task().  Only main creates tasks.                                *)

FreeSlots == {t \in Slots : pid[t] = INVALID_PID}
FirstFree == CHOOSE t \in FreeSlots : \A u \in FreeSlots : t <= u

(* Mutant: a call that finds no room is counted too.                       *)
create_task_counts_failure ==
  /\ task_count >= MAX_TASKS \/ FreeSlots = {}
  /\ Goto("main", "create", ret)
  /\ task_count' = task_count + 1
  /\ UNCHANGED <<pid, parent_pid, next, next_pid, task_list, state, creator>>

create_task_fails ==
  /\ task_count >= MAX_TASKS \/ FreeSlots = {}
  /\ Goto("main", "create", ret)
  /\ UNCHANGED <<table, state, creator>>

(* The first free slot gets a pid, the READY state and a parent.           *)
create_task_fills ==
  /\ task_count < MAX_TASKS /\ FreeSlots # {}
  /\ Goto("main", "create", "append")
  /\ new_task' = FirstFree
  /\ pid' = [pid EXCEPT ![FirstFree] = next_pid]
  /\ next_pid' = next_pid + 1
  /\ state' = [state EXCEPT ![FirstFree] = TASK_READY]
  /\ parent_pid' = [parent_pid EXCEPT ![FirstFree] =
                      IF current_task # NULL THEN pid[current_task]
                                             ELSE INVALID_PID]
  /\ UNCHANGED <<next, task_count, task_list, last>>

(* Mutant: the new task replaces the second task of the list.              *)
create_task_skips_walk ==
  /\ Goto("main", "append", "count")
  /\ next' = [next EXCEPT ![task_list] = new_task]
  /\ UNCHANGED <<pid, parent_pid, next_pid, task_count, task_list, state, creator>>

(* The walk to the end of the list, and the link.  The list is never empty *)
(* here: the one call made before init_task_manager() fails.               *)
create_task_appends ==
  /\ \/ /\ Goto("main", "append", "walk")
        /\ last' = task_list
        /\ UNCHANGED next
     \/ /\ Goto("main", "walk", "walk") /\ next[last] # NULL
        /\ last' = next[last]
        /\ UNCHANGED next
     \/ /\ Goto("main", "walk", "count") /\ next[last] = NULL
        /\ next' = [next EXCEPT ![last] = new_task]
        /\ UNCHANGED last
  /\ UNCHANGED <<pid, parent_pid, next_pid, task_count, task_list, state, new_task>>

create_task_counts ==
  /\ Goto("main", "count", ret)
  /\ task_count' = task_count + 1
  /\ new_task' = NULL /\ last' = NULL
  /\ UNCHANGED <<pid, parent_pid, next, next_pid, task_list, state>>

create_task ==
  /\ \/ create_task_fails
     \/ create_task_fills
     \/ create_task_appends
     \/ create_task_counts
  /\ UNCHANGED <<current_task, interrupts, next_task, prev_task, reg, ret>>

-----------------------------------------------------------------------------
(* schedule() in context x.                                                *)

(* The early return, and the task after the current one.                   *)
schedule_starts(x) ==
  /\ \/ /\ Goto(x, "schedule", "idle")
        /\ current_task # NULL => next[current_task] = NULL
        /\ UNCHANGED next_task
     \/ /\ Goto(x, "schedule", "first")
        /\ current_task # NULL /\ next[current_task] # NULL
        /\ UNCHANGED next_task
     \/ /\ Goto(x, "first", "is_ready")
        /\ next_task' = [next_task EXCEPT ![x] = next[current_task]]
  /\ UNCHANGED <<state, current_task, prev_task, reg>>

(* Mutant: the test skips sleeping tasks only.                             *)
schedule_scans_zombies(x) ==
  /\ \/ /\ Goto(x, "is_ready", "compare")
        /\ next_task[x] # NULL => state[next_task[x]] # TASK_SLEEPING
        /\ UNCHANGED next_task
     \/ /\ Goto(x, "is_ready", "is_current")
        /\ next_task[x] # NULL /\ state[next_task[x]] = TASK_SLEEPING
        /\ next_task' = [next_task EXCEPT ![x] =
                           IF next[next_task[x]] = NULL THEN task_list
                                                        ELSE next[next_task[x]]]
     \/ /\ Goto(x, "is_current", "compare") /\ next_task[x] = current_task
        /\ UNCHANGED next_task
     \/ /\ Goto(x, "is_current", "is_ready") /\ next_task[x] # current_task
        /\ UNCHANGED next_task
  /\ UNCHANGED <<state, current_task, prev_task, reg>>

(* Mutant: the scan does not stop where it started.                        *)
schedule_never_breaks(x) ==
  /\ \/ /\ Goto(x, "is_ready", "compare")
        /\ next_task[x] # NULL => Runnable(next_task[x])
        /\ UNCHANGED next_task
     \/ /\ Goto(x, "is_ready", "is_ready")
        /\ next_task[x] # NULL /\ ~Runnable(next_task[x])
        /\ next_task' = [next_task EXCEPT ![x] =
                           IF next[next_task[x]] = NULL THEN task_list
                                                        ELSE next[next_task[x]]]
  /\ UNCHANGED <<state, current_task, prev_task, reg>>

(* The scan for a runnable task.  The condition reads state twice, once    *)
(* for TASK_READY and once for TASK_RUNNING.                               *)
schedule_scans(x) ==
  /\ \/ /\ Goto(x, "is_ready", "compare")
        /\ next_task[x] # NULL => state[next_task[x]] = TASK_READY
        /\ UNCHANGED next_task
     \/ /\ Goto(x, "is_ready", "is_running")
        /\ next_task[x] # NULL /\ state[next_task[x]] # TASK_READY
        /\ UNCHANGED next_task
     \/ /\ Goto(x, "is_running", "compare")
        /\ state[next_task[x]] = TASK_RUNNING
        /\ UNCHANGED next_task
     \/ /\ Goto(x, "is_running", "is_current")
        /\ state[next_task[x]] # TASK_RUNNING
        /\ next_task' = [next_task EXCEPT ![x] =
                           IF next[next_task[x]] = NULL THEN task_list
                                                        ELSE next[next_task[x]]]
     \/ /\ Goto(x, "is_current", "compare") /\ next_task[x] = current_task
        /\ UNCHANGED next_task
     \/ /\ Goto(x, "is_current", "is_ready") /\ next_task[x] # current_task
        /\ UNCHANGED next_task
  /\ UNCHANGED <<state, current_task, prev_task, reg>>

(* The switch: current_task, then the new task's state.                    *)
schedule_switches(x) ==
  \/ /\ Goto(x, "compare", "idle")
     /\ next_task[x] \in {NULL, current_task}
     /\ next_task' = [next_task EXCEPT ![x] = NULL]
     /\ UNCHANGED <<state, current_task, prev_task, reg>>
  \/ /\ Goto(x, "compare", "save_prev")
     /\ next_task[x] \notin {NULL, current_task}
     /\ UNCHANGED <<state, current_task, next_task, prev_task, reg>>
  \/ /\ Goto(x, "save_prev", "set_current")
     /\ prev_task' = [prev_task EXCEPT ![x] = current_task]
     /\ UNCHANGED <<state, current_task, next_task, reg>>
  \/ /\ Goto(x, "set_current", "load_current")
     /\ current_task' = next_task[x]
     /\ next_task' = [next_task EXCEPT ![x] = NULL]
     /\ UNCHANGED <<state, prev_task, reg>>
  \/ /\ Goto(x, "load_current", "store_running")
     /\ reg' = [reg EXCEPT ![x] = current_task]
     /\ UNCHANGED <<state, current_task, next_task, prev_task>>
  \/ /\ Goto(x, "store_running", "test_prev")
     /\ state' = [state EXCEPT ![reg[x]] = TASK_RUNNING]
     /\ reg' = [reg EXCEPT ![x] = NULL]
     /\ UNCHANGED <<current_task, next_task, prev_task>>

(* Mutant: the old task is made READY whatever its state.                  *)
schedule_readies_any(x) ==
  /\ Goto(x, "test_prev", "idle")
  /\ state' = [state EXCEPT ![prev_task[x]] = TASK_READY]
  /\ prev_task' = [prev_task EXCEPT ![x] = NULL]
  /\ UNCHANGED <<current_task, next_task, reg>>

(* The old task, if it was running, is ready again.                        *)
schedule_demotes(x) ==
  \/ /\ Goto(x, "test_prev", "store_ready")
     /\ state[prev_task[x]] = TASK_RUNNING
     /\ UNCHANGED <<state, current_task, next_task, prev_task, reg>>
  \/ /\ Goto(x, "test_prev", "idle")
     /\ state[prev_task[x]] # TASK_RUNNING
     /\ prev_task' = [prev_task EXCEPT ![x] = NULL]
     /\ UNCHANGED <<state, current_task, next_task, reg>>
  \/ /\ Goto(x, "store_ready", "idle")
     /\ state' = [state EXCEPT ![prev_task[x]] = TASK_READY]
     /\ prev_task' = [prev_task EXCEPT ![x] = NULL]
     /\ UNCHANGED <<current_task, next_task, reg>>

schedule(x) ==
  /\ \/ schedule_starts(x)
     \/ schedule_scans(x)
     \/ schedule_switches(x)
     \/ schedule_demotes(x)
  /\ UNCHANGED <<table, interrupts, creator, ret>>

(* The timer interrupt on every tenth tick.                                *)
timer_handler ==
  /\ interrupts
  /\ pc["irq"] = "idle"
  /\ pc' = [pc EXCEPT !["irq"] = "schedule"]
  /\ UNCHANGED <<table, state, current_task, interrupts, next_task, prev_task,
                 reg, creator, ret>>

-----------------------------------------------------------------------------
(* main: the boot sequence, then any sequence of calls.                    *)

Call(from, to, then) ==
  /\ Goto("main", from, to)
  /\ ret' = then
  /\ UNCHANGED <<table, state, current_task, interrupts, next_task, prev_task,
                 reg, creator>>

(* kernel_main calls init_scheduler(), which calls create_task("idle"),    *)
(* then init_task_manager(), then create_task("demo_task"), then sti.      *)
create_idle_task == Call("boot_scheduler", "create", "boot_tasks")

init_task_manager ==
  /\ Goto("main", "boot_tasks", "boot_demo")
  /\ pid' = [t \in Slots |-> IF t = 0 THEN 0 ELSE INVALID_PID]
  /\ state' = [t \in Slots |-> IF t = 0 THEN TASK_RUNNING ELSE TASK_ZOMBIE]
  /\ next' = [t \in Slots |-> NULL]
  /\ parent_pid' = [parent_pid EXCEPT ![0] = INVALID_PID]
  /\ current_task' = 0 /\ task_list' = 0 /\ task_count' = 1
  /\ UNCHANGED <<next_pid, interrupts, next_task, prev_task, reg, creator, ret>>

create_demo_task == Call("boot_demo", "create", "boot_sti")

enable_interrupts ==
  /\ Goto("main", "boot_sti", "idle")
  /\ interrupts' = TRUE
  /\ UNCHANGED <<table, state, current_task, next_task, prev_task, reg, creator, ret>>

(* task_exit() and task_sleep(): load current_task, store the state        *)
(* through it, schedule.                                                   *)
task_leaves(store, new_state) ==
  /\ \/ /\ current_task # NULL /\ Goto("main", "idle", store)
        /\ reg' = [reg EXCEPT !["main"] = current_task]
        /\ UNCHANGED state
     \/ /\ Goto("main", store, "schedule")
        /\ state' = [state EXCEPT ![reg["main"]] = new_state]
        /\ reg' = [reg EXCEPT !["main"] = NULL]
  /\ UNCHANGED <<table, current_task, interrupts, next_task, prev_task, creator, ret>>

task_exit  == task_leaves("store_zombie", TASK_ZOMBIE)
task_sleep == task_leaves("store_sleeping", TASK_SLEEPING)

(* Waking a task that is not asleep changes nothing.                       *)
task_wake(t) ==
  /\ Goto("main", "idle", "idle")
  /\ pid[t] # INVALID_PID
  /\ state[t] = TASK_SLEEPING
  /\ state' = [state EXCEPT ![t] = TASK_READY]
  /\ UNCHANGED <<table, current_task, interrupts, next_task, prev_task, reg,
                 creator, ret>>

(* The caller names a created task; nothing looks at its state.            *)
switch_to_task(t) ==
  /\ Goto("main", "idle", "idle")
  /\ pid[t] # INVALID_PID
  /\ current_task' = t
  /\ UNCHANGED <<table, state, interrupts, next_task, prev_task, reg, creator, ret>>

CallCreate   == Call("idle", "create", "idle")
CallSchedule == Call("idle", "schedule", "idle")

Boot ==
  \/ create_idle_task
  \/ init_task_manager
  \/ create_demo_task
  \/ enable_interrupts
  \/ create_task

Main ==
  \/ Boot
  \/ CallCreate
  \/ CallSchedule \/ schedule("main")
  \/ task_exit \/ task_sleep
  \/ \E t \in Slots : task_wake(t) \/ switch_to_task(t)

Next == Main \/ timer_handler \/ schedule("irq")

Spec == Init /\ [][Next]_vars

(* The PIT never stops and nothing preempts an interrupt handler.  Nothing *)
(* is assumed of main.                                                     *)
FairSpec ==
  /\ Spec
  /\ WF_vars(timer_handler)
  /\ WF_vars(schedule("irq"))

(* The kernel exactly as kernel_main runs it: after the boot it makes no   *)
(* further call of the task manager, and the timer does the scheduling.    *)
KernelSpec ==
  /\ Init /\ [][Boot \/ timer_handler \/ schedule("irq")]_vars
  /\ WF_vars(Boot) /\ WF_vars(timer_handler) /\ WF_vars(schedule("irq"))

-----------------------------------------------------------------------------
(* Properties.                                                             *)

SchedulePcs == {"idle", "schedule", "first", "is_ready", "is_running", "is_current",
                "compare", "save_prev", "set_current", "load_current",
                "store_running", "test_prev", "store_ready"}
MainPcs == SchedulePcs \cup
           {"boot_scheduler", "boot_tasks", "boot_demo", "boot_sti", "create",
            "append", "walk", "count", "store_zombie", "store_sleeping"}

(* Types; the counters never pass MAX_TASKS.                               *)
TypeOK ==
  /\ pid \in [Slots -> Int]
  /\ state \in [Slots -> {TASK_RUNNING, TASK_READY, TASK_SLEEPING, TASK_ZOMBIE}]
  /\ parent_pid \in [Slots -> Int]
  /\ next \in [Slots -> Pointers]
  /\ current_task \in Pointers /\ task_list \in Pointers
  /\ next_pid \in 1 .. MAX_TASKS /\ task_count \in 0 .. MAX_TASKS
  /\ interrupts \in BOOLEAN
  /\ pc \in [Contexts -> MainPcs] /\ pc["irq"] \in SchedulePcs
  /\ next_task \in [Contexts -> Pointers]
  /\ prev_task \in [Contexts -> Pointers]
  /\ reg \in [Contexts -> Pointers]
  /\ new_task \in Pointers /\ last \in Pointers
  /\ ret \in {"idle", "boot_tasks", "boot_sti"}

(* The task being created is not in the list yet, or not counted yet.      *)
Unlinked  == IF pc["main"] \in {"append", "walk"} THEN 1 ELSE 0
Uncounted == IF pc["main"] \in {"append", "walk", "count"} THEN 1 ELSE 0

(* The table, the list and the counters agree, whatever interrupts a       *)
(* create_task(): slots are given out in order and never twice, so pids    *)
(* are unique; every created task but the one being linked is in the list, *)
(* exactly once; the current task is in the list; a parent is older than   *)
(* its child.                                                              *)
TableConsistent ==
  task_list # NULL =>
    /\ task_list = 0
    /\ \A t \in Slots : pid[t] = IF t < next_pid THEN t ELSE INVALID_PID
    /\ \A t \in Slots : next[t] = IF t + 1 < next_pid - Unlinked THEN t + 1 ELSE NULL
    /\ task_count = next_pid - Uncounted
    /\ current_task \in 0 .. next_pid - Unlinked - 1
    /\ \A t \in Slots : t < next_pid => parent_pid[t] < t

(* schedule() never makes a sleeping or finished task current, although    *)
(* the state it tested, and current_task itself, may have changed under it *)
(* by the time it switches.                                                *)
SwitchToRunnable ==
  \A x \in Contexts : pc[x] \in {"save_prev", "set_current"} => Runnable(next_task[x])

(* schedule() revives nobody: a task that is asleep or has ended becomes   *)
(* runnable only when main calls task_wake().  Both states schedule()      *)
(* stores go through pointers it loaded some steps, and some interrupts,   *)
(* before.                                                                 *)
NoResurrection ==
  [][\A t \in Slots :
       task_list # NULL /\ pid[t] # INVALID_PID /\ ~Runnable(t) /\ Runnable(t)'
         => \A x \in Contexts : pc[x] = "idle"]_vars

(* The scan always comes to an end: a timer interrupt returns, whatever    *)
(* the states of the tasks and wherever main was interrupted.              *)
InterruptReturns == pc["irq"] # "idle" ~> pc["irq"] = "idle"

(* README.md and task.c call the policy Round Robin: a task that stays     *)
(* runnable is current again and again.                                    *)
RoundRobin ==
  \A t \in Slots :
    <>[](interrupts /\ pid[t] # INVALID_PID /\ Runnable(t)) => []<>(current_task = t)
=============================================================================
