----------------------------- MODULE Scheduler -----------------------------
(***************************************************************************)
(* The run queue of kernel/scheduler.c: add_task_to_scheduler,             *)
(* remove_task_from_scheduler, get_next_task, find_highest_priority_task   *)
(* and set_task_priority.                                                  *)
(*                                                                         *)
(* The calls are made by main, one after the other, on the tasks of        *)
(* task.c; a task is added when it is not in the queue.  The timer         *)
(* interrupt runs schedule() of task.c between any two steps of a scan and *)
(* changes which of the runnable tasks is TASK_RUNNING.  The task table is *)
(* complete before the first call: create_task() would append to the same  *)
(* links, and what is said of the queue here is said of a fixed table.     *)
(*                                                                         *)
(* Fixed by the code: the policy, SCHED_ROUND_ROBIN from init_scheduler()  *)
(* on (set_scheduling_policy() has no definition), and idle_task, NULL     *)
(* because create_idle_task() runs before there is a free slot (see Task). *)
(* So scheduler.current_task is NULL too, scheduler_tick() only counts,    *)
(* and yield() only calls schedule().                                      *)
(***************************************************************************)
EXTENDS Integers, Sequences, FiniteSets

CONSTANTS
  MAX_TASKS,
  MAX_PRIORITY, DEFAULT_PRIORITY,  \* DEFAULT_PRIORITY is create_task's
  DEFAULT_TIME_SLICE, MIN_TIME_SLICE, MAX_TIME_SLICE

ASSUME SchedulerAssumption ==
  /\ MAX_TASKS \in Nat \ {0} /\ MAX_PRIORITY \in Nat
  /\ DEFAULT_PRIORITY \in 0 .. MAX_PRIORITY
  /\ MIN_TIME_SLICE \in Nat /\ MAX_TIME_SLICE \in Nat
  /\ DEFAULT_TIME_SLICE \in MIN_TIME_SLICE .. MAX_TIME_SLICE

VARIABLES
  next, state, priority,            \* tasks[]
  task_queue_head, task_queue_tail,
  time_slice,                       \* scheduler.time_slice
  pc, task, current,                \* the call: its argument, loop variable
  best_task, result,                \* the best so far, the task returned
  members,                          \* history: the tasks clients have put in
  disturbed                         \* history: schedule() ran during the call

queue == <<next, task_queue_head, task_queue_tail>>
scan  == <<current, best_task, result>>
vars  == <<queue, state, priority, time_slice, pc, task, scan, members, disturbed>>

NULL   == -1
Tasks  == 0 .. MAX_TASKS - 1
States == {"TASK_RUNNING", "TASK_READY", "TASK_SLEEPING"}
MIN_PRIORITY == 0
idle_task    == NULL

Runnable(t) == state[t] \in {"TASK_READY", "TASK_RUNNING"}

(* The tasks as create_task() leaves them, linked in the task list; the    *)
(* first one is the kernel's.                                              *)
Init ==
  /\ next = [t \in Tasks |-> IF t + 1 \in Tasks THEN t + 1 ELSE NULL]
  /\ state = [t \in Tasks |-> IF t = 0 THEN "TASK_RUNNING" ELSE "TASK_READY"]
  /\ priority = [t \in Tasks |-> IF t = 0 THEN 0 ELSE DEFAULT_PRIORITY]
  /\ task_queue_head = NULL /\ task_queue_tail = NULL
  /\ time_slice = DEFAULT_TIME_SLICE
  /\ pc = "idle" /\ task = NULL /\ current = NULL
  /\ best_task = NULL /\ result = NULL
  /\ members = {} /\ disturbed = FALSE

Goto(from, to) == pc = from /\ pc' = to

-----------------------------------------------------------------------------
(* Where i steps along the links lead from task t.                         *)
Walk(t) ==
  LET Nth[i \in 0 .. MAX_TASKS] ==
        IF i = 0 THEN t
        ELSE IF Nth[i - 1] = NULL THEN NULL ELSE next[Nth[i - 1]]
  IN Nth

(* The tasks the list starting at task_queue_head goes through, in order.  *)
(* The walk is cut after MAX_TASKS steps, should there be a cycle.         *)
QueueAsSeq ==
  LET Nth == Walk(task_queue_head)
  IN [i \in 1 .. Cardinality({j \in 0 .. MAX_TASKS : Nth[j] # NULL}) |-> Nth[i - 1]]

Queued == {QueueAsSeq[i] : i \in DOMAIN QueueAsSeq}

(* Mutant: the link of the task is not cleared.                            *)
add_keeps_link(t) ==
  /\ pc = "idle" /\ t \notin members
  /\ members' = members \cup {t}
  /\ next' = IF task_queue_head = NULL THEN next
             ELSE [next EXCEPT ![task_queue_tail] = t]
  /\ state' = [state EXCEPT ![t] = "TASK_READY"]
  /\ task_queue_head' = IF task_queue_head = NULL THEN t ELSE task_queue_head
  /\ task_queue_tail' = t
  /\ UNCHANGED <<priority, time_slice, pc, task, scan, disturbed>>

add_task_to_scheduler(t) ==
  /\ pc = "idle" /\ t \notin members
  /\ members' = members \cup {t}
  /\ next' = IF task_queue_head = NULL
             THEN [next EXCEPT ![t] = NULL]
             ELSE [next EXCEPT ![t] = NULL, ![task_queue_tail] = t]
  /\ state' = [state EXCEPT ![t] = "TASK_READY"]
  /\ task_queue_head' = IF task_queue_head = NULL THEN t ELSE task_queue_head
  /\ task_queue_tail' = t
  /\ UNCHANGED <<priority, time_slice, pc, task, scan, disturbed>>

(* With an empty queue it returns at once.  The head is taken out at once, *)
(* any other task after a walk to the one before it.                       *)
remove_task_from_scheduler(t) ==
  /\ task_queue_head # NULL
  /\ \/ /\ Goto("idle", "idle") /\ task_queue_head = t
        /\ task_queue_head' = next[t]
        /\ task_queue_tail' = IF task_queue_tail = t THEN NULL ELSE task_queue_tail
        /\ members' = members \ {t}
        /\ UNCHANGED <<task, current>>
     \/ /\ Goto("idle", "unlink") /\ task_queue_head # t
        /\ task' = t /\ current' = task_queue_head
        /\ UNCHANGED <<task_queue_head, task_queue_tail, members>>
  /\ UNCHANGED <<next, state, priority, time_slice, best_task, result, disturbed>>

(* Mutant: the tail is not moved back when the last task is taken out.     *)
unlink_keeps_tail ==
  /\ \/ /\ Goto("unlink", "unlink") /\ next[current] \notin {NULL, task}
        /\ current' = next[current]
        /\ UNCHANGED <<queue, task, members>>
     \/ /\ Goto("unlink", "idle") /\ next[current] \in {NULL, task}
        /\ next' = IF next[current] = task THEN [next EXCEPT ![current] = next[task]]
                                           ELSE next
        /\ UNCHANGED <<task_queue_head, task_queue_tail>>
        /\ task' = NULL /\ current' = NULL /\ members' = members \ {task}
  /\ UNCHANGED <<state, priority, time_slice, best_task, result, disturbed>>

(* The walk, and the removal if the walk has found the task.               *)
remove_unlinks ==
  /\ \/ /\ Goto("unlink", "unlink") /\ next[current] \notin {NULL, task}
        /\ current' = next[current]
        /\ UNCHANGED <<queue, task, members>>
     \/ /\ Goto("unlink", "idle") /\ next[current] = NULL
        /\ task' = NULL /\ current' = NULL /\ members' = members \ {task}
        /\ UNCHANGED queue
     \/ /\ Goto("unlink", "idle") /\ next[current] = task
        /\ next' = [next EXCEPT ![current] = next[task]]
        /\ task_queue_tail' = IF task_queue_tail = task THEN current ELSE task_queue_tail
        /\ task' = NULL /\ current' = NULL /\ members' = members \ {task}
        /\ UNCHANGED task_queue_head
  /\ UNCHANGED <<state, priority, time_slice, best_task, result, disturbed>>

-----------------------------------------------------------------------------
(* get_next_task() under SCHED_ROUND_ROBIN.                                *)

get_next_task ==
  /\ \/ /\ Goto("idle", "returned") /\ task_queue_head = NULL
        /\ result' = idle_task /\ UNCHANGED current
     \/ /\ Goto("idle", "round_robin") /\ task_queue_head # NULL
        /\ current' = task_queue_head /\ UNCHANGED result
  /\ UNCHANGED <<queue, state, priority, time_slice, task, best_task, members, disturbed>>

(* Mutant: the scan goes on at the end of the queue, past its start.       *)
round_robin_restarts ==
  /\ \/ /\ Goto("round_robin", "returned") /\ state[current] = "TASK_READY"
        /\ result' = current /\ current' = NULL
     \/ /\ Goto("round_robin", "round_robin") /\ state[current] # "TASK_READY"
        /\ current' = IF next[current] # NULL THEN next[current] ELSE task_queue_head
        /\ UNCHANGED result
  /\ UNCHANGED <<queue, state, priority, time_slice, task, best_task, members, disturbed>>

get_next_round_robin_task ==
  /\ LET following == IF next[current] # NULL THEN next[current] ELSE task_queue_head
     IN \/ /\ Goto("round_robin", "returned") /\ state[current] = "TASK_READY"
           /\ result' = current /\ current' = NULL
        \/ /\ Goto("round_robin", "round_robin") /\ state[current] # "TASK_READY"
           /\ following # task_queue_head
           /\ current' = following /\ UNCHANGED result
        \/ /\ Goto("round_robin", "returned") /\ state[current] # "TASK_READY"
           /\ following = task_queue_head
           /\ result' = idle_task /\ current' = NULL
  /\ UNCHANGED <<queue, state, priority, time_slice, task, best_task, members, disturbed>>

-----------------------------------------------------------------------------
(* find_highest_priority_task(): the smallest number is the highest        *)
(* priority, and the first of several wins.                                *)

Call_find_highest ==
  /\ Goto("idle", "highest")
  /\ current' = task_queue_head /\ best_task' = NULL
  /\ UNCHANGED <<queue, state, priority, time_slice, task, result, members, disturbed>>

highest_priority == IF best_task = NULL THEN MAX_PRIORITY + 1 ELSE priority[best_task]

(* Mutant: among equal priorities the last one wins.                       *)
better_or_equal ==
  state[current] = "TASK_READY" /\ priority[current] <= highest_priority

Better == state[current] = "TASK_READY" /\ priority[current] < highest_priority

find_highest_priority_task ==
  /\ \/ /\ Goto("highest", "highest") /\ current # NULL
        /\ best_task' = IF Better THEN current ELSE best_task
        /\ current' = next[current]
        /\ UNCHANGED result
     \/ /\ Goto("highest", "returned") /\ current = NULL
        /\ result' = IF best_task # NULL THEN best_task ELSE idle_task
        /\ UNCHANGED <<current, best_task>>
  /\ UNCHANGED <<queue, state, priority, time_slice, task, members, disturbed>>

(* The caller has the task.                                                *)
Return ==
  /\ Goto("returned", "idle")
  /\ best_task' = NULL /\ result' = NULL /\ disturbed' = FALSE
  /\ UNCHANGED <<queue, state, priority, time_slice, task, current, members>>

-----------------------------------------------------------------------------
(* Mutant: a priority above the largest is let through.                    *)
clamp_below_only(p) == IF p < MIN_PRIORITY THEN MIN_PRIORITY ELSE p

ClampPriority(p) ==
  IF p < MIN_PRIORITY THEN MIN_PRIORITY ELSE IF p > MAX_PRIORITY THEN MAX_PRIORITY ELSE p

calculate_time_slice(p) ==
  LET slice == DEFAULT_TIME_SLICE + (MAX_PRIORITY - p)
  IN IF slice < MIN_TIME_SLICE THEN MIN_TIME_SLICE
     ELSE IF slice > MAX_TIME_SLICE THEN MAX_TIME_SLICE ELSE slice

(* The time slice of whichever task was last given a priority.             *)
set_task_priority(t, p) ==
  /\ pc = "idle"
  /\ priority' = [priority EXCEPT ![t] = ClampPriority(p)]
  /\ time_slice' = calculate_time_slice(ClampPriority(p))
  /\ UNCHANGED <<queue, state, pc, task, scan, members, disturbed>>

(* The timer interrupt: schedule() makes a runnable task RUNNING and the   *)
(* one it replaces READY.  Which ones depends on task.c's own list.        *)
schedule ==
  /\ \E t, prev \in Tasks :
       /\ t # prev /\ Runnable(t)
       /\ state' = [state EXCEPT ![t] = "TASK_RUNNING",
                                 ![prev] = IF @ = "TASK_RUNNING" THEN "TASK_READY" ELSE @]
  /\ disturbed' = (pc \in {"round_robin", "highest", "returned"})
  /\ UNCHANGED <<queue, priority, time_slice, pc, task, scan, members>>

(* main calls task_sleep() or task_exit(), which the queue does not tell   *)
(* apart: a task that has ended is one that nobody wakes.                  *)
task_sleep(t) ==
  /\ pc = "idle" /\ state' = [state EXCEPT ![t] = "TASK_SLEEPING"]
  /\ UNCHANGED <<queue, priority, time_slice, pc, task, scan, members, disturbed>>

task_wake(t) ==
  /\ pc = "idle" /\ state[t] = "TASK_SLEEPING"
  /\ state' = [state EXCEPT ![t] = "TASK_READY"]
  /\ UNCHANGED <<queue, priority, time_slice, pc, task, scan, members, disturbed>>

-----------------------------------------------------------------------------
(* The steps of the call in progress.                                      *)
Work ==
  \/ remove_unlinks
  \/ get_next_round_robin_task
  \/ find_highest_priority_task
  \/ Return

Call ==
  \/ \E t \in Tasks :
       \/ add_task_to_scheduler(t) \/ remove_task_from_scheduler(t)
       \/ task_sleep(t) \/ task_wake(t)
       \/ \E p \in MIN_PRIORITY - 1 .. MAX_PRIORITY + 1 : set_task_priority(t, p)
  \/ get_next_task \/ Call_find_highest

Next == Call \/ Work \/ schedule

Spec == Init /\ [][Next]_vars

(* main goes on after every interrupt.                                     *)
FairSpec == Spec /\ WF_vars(Work)

-----------------------------------------------------------------------------
(* Properties.                                                             *)

Pointers == Tasks \cup {NULL}

(* Types; a priority, and with it the time slice, stays in its range       *)
(* whatever set_task_priority() is given.                                  *)
TypeOK ==
  /\ next \in [Tasks -> Pointers] /\ state \in [Tasks -> States]
  /\ priority \in [Tasks -> MIN_PRIORITY .. MAX_PRIORITY]
  /\ task_queue_head \in Pointers /\ task_queue_tail \in Pointers
  /\ time_slice \in MIN_TIME_SLICE .. MAX_TIME_SLICE
  /\ pc \in {"idle", "unlink", "round_robin", "highest", "returned"}
  /\ {task, current, best_task, result} \subseteq Pointers
  /\ disturbed \in BOOLEAN

Abstract == INSTANCE RunQueue WITH queue <- QueueAsSeq

(* The linked list implements a queue: add_task_to_scheduler() appends and *)
(* remove_task_from_scheduler() takes out its task and no other, after any *)
(* sequence of calls.  The tail pointer and the stale links of tasks that  *)
(* left the queue decide where the next task is appended.                  *)
ImplementsQueue == Abstract!Spec

(* The links never form a cycle, neither in the queue nor among tasks that *)
(* have left it and keep a stale link, nor through the links of the task   *)
(* list, which are the same field: following them reaches NULL.  (The scan *)
(* of task.c goes back to task_list there and need not end: SharedLinks.)  *)
LinksEnd == \A t \in Tasks : Walk(t)[MAX_TASKS] = NULL

(* The positions of the READY tasks in the queue.                          *)
Ready == {i \in DOMAIN QueueAsSeq : state[QueueAsSeq[i]] = "TASK_READY"}

(* What the scans return.  It is in the queue and runnable; when no        *)
(* interrupt fell into the scan, it is NULL only if no task of the queue   *)
(* is READY, find_highest_priority_task() returns the first READY task of  *)
(* the highest priority, and get_next_task() the first READY task behind   *)
(* task_queue_head, the same one at every call until it is no longer READY *)
(* or there is one before it.  scheduler.c calls that round robin; it is   *)
(* what the code does and not what a round robin would do: the tasks       *)
(* behind one that stays READY are not returned, however many calls.       *)
SelectsFirst ==
  pc = "returned" =>
    /\ result # NULL => result \in Queued /\ Runnable(result)
    /\ ~disturbed =>
         \/ Ready = {} /\ result = NULL
         \/ \E i \in Ready :
              /\ result = QueueAsSeq[i]
              /\ \A j \in Ready :
                   IF best_task = NULL THEN i <= j
                   ELSE /\ priority[result] <= priority[QueueAsSeq[j]]
                        /\ j < i => priority[result] < priority[QueueAsSeq[j]]

(* Every scan of the queue ends, also when the timer interrupt changes the *)
(* states it looks at.                                                     *)
ScanReturns == pc # "idle" ~> pc = "idle"
=============================================================================
