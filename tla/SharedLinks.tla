---------------------------- MODULE SharedLinks ----------------------------
(***************************************************************************)
(* The run queue of kernel/scheduler.c over the task list of               *)
(* kernel/task.c.  Both lists are linked through task->next: the calls     *)
(* that change the queue change the list that schedule() and create_task() *)
(* walk.                                                                   *)
(*                                                                         *)
(* Task as it is, and main calls add_task_to_scheduler() for tasks that    *)
(* exist and are not in the queue, and remove_task_from_scheduler().  A    *)
(* call is one step here; Scheduler has the walk of a removal.             *)
(***************************************************************************)
EXTENDS Task, FiniteSets

VARIABLES task_queue_head, task_queue_tail

queue == <<task_queue_head, task_queue_tail>>

(* The tasks the links lead to from the head of the queue.                 *)
Queued ==
  LET Nth[i \in 0 .. MAX_TASKS] ==
        IF i = 0 THEN task_queue_head
        ELSE IF Nth[i - 1] = NULL THEN NULL ELSE next[Nth[i - 1]]
  IN {Nth[i] : i \in 0 .. MAX_TASKS} \ {NULL}

QueueInit == task_queue_head = NULL /\ task_queue_tail = NULL

others == <<pid, parent_pid, next_pid, task_count, task_list, current_task,
            interrupts, next_task, prev_task, reg, creator, ret>>

(* The link of t is cleared, then that of the tail is set.  A tail that is *)
(* NULL in a queue that is not empty is stored through as well, to memory  *)
(* that is none of the tasks'.                                             *)
add_task_to_scheduler(t) ==
  /\ Goto("main", "idle", "idle")
  /\ pid[t] # INVALID_PID /\ t \notin Queued
  /\ next' = [u \in Slots |->
                IF task_queue_head # NULL /\ u = task_queue_tail THEN t
                ELSE IF u = t THEN NULL ELSE next[u]]
  /\ state' = [state EXCEPT ![t] = TASK_READY]
  /\ task_queue_head' = IF task_queue_head = NULL THEN t ELSE task_queue_head
  /\ task_queue_tail' = t
  /\ UNCHANGED others

(* The head, or a task whose predecessor the walk finds.                   *)
remove_task_from_scheduler(t) ==
  /\ Goto("main", "idle", "idle") /\ task_queue_head # NULL
  /\ \/ /\ task_queue_head = t
        /\ task_queue_head' = next[t]
        /\ task_queue_tail' = IF task_queue_tail = t THEN NULL ELSE task_queue_tail
        /\ UNCHANGED next
     \/ /\ task_queue_head # t
        /\ \E current \in Queued :
             /\ next[current] = t
             /\ next' = [next EXCEPT ![current] = next[t]]
             /\ task_queue_tail' = IF task_queue_tail = t THEN current ELSE task_queue_tail
        /\ UNCHANGED task_queue_head
  /\ UNCHANGED <<others, state>>

QueueCalls ==
  \E t \in Slots : add_task_to_scheduler(t) \/ remove_task_from_scheduler(t)

SharedNext == QueueCalls \/ (Next /\ UNCHANGED queue)

(* The fairness of Task: the timer ticks and nothing preempts its handler. *)
SharedSpec ==
  /\ Init /\ QueueInit
  /\ [][SharedNext]_<<vars, queue>>
  /\ WF_<<vars, queue>>(timer_handler /\ UNCHANGED queue)
  /\ WF_<<vars, queue>>(schedule("irq") /\ UNCHANGED queue)

(* task.c says of the break in the scan that it avoids an infinite loop:   *)
(* the timer interrupt returns, whatever tasks have been put in the queue. *)
ScanEnds == pc["irq"] # "idle" ~> pc["irq"] = "idle"
=============================================================================
