-------------------------- MODULE SchedulerProofs --------------------------
(***************************************************************************)
(* Theorems about the run queue: its types (SchedulerTypeOK), that the     *)
(* linked list implements a queue (ListIsQueue), that no links form a      *)
(* cycle (ListsEnd), which task a scan returns                             *)
(* (ScansSelectFirst) and that they end (ScansAreBounded).                 *)
(*                                                                         *)
(* The inductive invariant says that there is a sequence of tasks, each in *)
(* it once, along which the links lead from the head to the tail           *)
(* (ListInv), where on it the call in progress is and what it has found so *)
(* far (ScanInv), and that the tasks can be ranked so that every link      *)
(* leads to a lower rank, the stale links of tasks that left the queue     *)
(* included (Ranked).  QueueInductive is its theorem.  The others follow   *)
(* since QueueAsSeq is that sequence, and since no walk along the links    *)
(* meets a task twice.                                                     *)
(***************************************************************************)
EXTENDS Scheduler, SequenceTheorems, Lemmas

IsReady(t) == state[t] = "TASK_READY"

(* The list that the sequence q describes.                                 *)
ListInv(q) ==
  /\ \A i, j \in 1 .. Len(q) : q[i] = q[j] => i = j
  /\ task_queue_head = IF Len(q) = 0 THEN NULL ELSE q[1]
  /\ task_queue_tail = IF Len(q) = 0 THEN NULL ELSE q[Len(q)]
  /\ \A i \in 1 .. Len(q) : next[q[i]] = IF i = Len(q) THEN NULL ELSE q[i + 1]
  /\ members = {q[i] : i \in 1 .. Len(q)}

(* q[i] is the first READY task of the highest priority among the first n. *)
BestAmong(q, n, i) ==
  /\ IsReady(q[i])
  /\ \A j \in 1 .. n : IsReady(q[j]) =>
       /\ priority[q[i]] <= priority[q[j]]
       /\ j < i => priority[q[i]] < priority[q[j]]

NoneReady(q, n) == \A j \in 1 .. n : ~IsReady(q[j])

(* The walk of remove_task_from_scheduler has not passed its task.         *)
UnlinkInv(q) ==
  pc = "unlink" =>
    /\ task \in Tasks
    /\ \E i \in 1 .. Len(q) : current = q[i] /\ \A j \in 1 .. i : q[j] # task

(* get_next_round_robin_task has passed no READY task.                     *)
RoundRobinInv(q) ==
  pc = "round_robin" =>
    \E i \in 1 .. Len(q) : current = q[i] /\ (~disturbed => NoneReady(q, i - 1))

(* find_highest_priority_task has the best of the tasks it has passed.     *)
HighestInv(q) ==
  pc = "highest" =>
    /\ best_task # NULL => best_task \in members /\ Runnable(best_task)
    /\ \E n \in 0 .. Len(q) :
         /\ current = IF n = Len(q) THEN NULL ELSE q[n + 1]
         /\ ~disturbed =>
              IF best_task = NULL THEN NoneReady(q, n)
              ELSE \E i \in 1 .. n : best_task = q[i] /\ BestAmong(q, n, i)

(* What a scan returns.                                                    *)
ReturnInv(q) ==
  pc = "returned" =>
    /\ result # NULL => result \in members /\ Runnable(result)
    /\ ~disturbed =>
         \/ result = NULL /\ NoneReady(q, Len(q))
         \/ \E i \in 1 .. Len(q) :
              /\ result = q[i] /\ IsReady(q[i])
              /\ IF best_task = NULL THEN NoneReady(q, i - 1) ELSE BestAmong(q, Len(q), i)

ScanInv(q) ==
  /\ UnlinkInv(q) /\ RoundRobinInv(q) /\ HighestInv(q) /\ ReturnInv(q)
  /\ pc \in {"idle", "unlink", "round_robin"} => best_task = NULL

Ranked(rank) == \A t \in Tasks : next[t] # NULL => rank[next[t]] < rank[t]

IInv ==
  /\ TypeOK
  /\ \E q \in Seq(Tasks) : ListInv(q) /\ ScanInv(q)
  /\ \E rank \in [Tasks -> Nat] : Ranked(rank)

-----------------------------------------------------------------------------
(* Elementary facts.                                                       *)

(* NULL is no task.                                                        *)
LEMMA NullIsNoTask == NULL \notin Tasks /\ NULL \in Pointers /\ Tasks \subseteq Pointers
BY SchedulerAssumption DEF NULL, Tasks, Pointers

(* The elements of a sequence of tasks.                                    *)
LEMMA TaskAt ==
  ASSUME NEW q \in Seq(Tasks)
  PROVE  /\ Len(q) \in Nat /\ q \in [1 .. Len(q) -> Tasks]
         /\ \A i \in 1 .. Len(q) : q[i] \in Tasks /\ q[i] # NULL
<1>1. Len(q) \in Nat /\ q \in [1 .. Len(q) -> Tasks]
  BY LenProperties
<1> QED BY <1>1, NullIsNoTask

(* The loop variable of a call is a task, until find_highest_priority_task *)
(* has come to the end of the queue.                                       *)
LEMMA CurrentIsTask ==
  ASSUME IInv, pc \in {"unlink", "round_robin"}
  PROVE  current \in Tasks
<1>1. PICK q \in Seq(Tasks) : ListInv(q) /\ ScanInv(q)
  BY DEF IInv
<1> QED BY <1>1, TaskAt DEF ScanInv, UnlinkInv, RoundRobinInv

-----------------------------------------------------------------------------
(* Types.                                                                  *)

(* A priority and its time slice are in their ranges.                      *)
LEMMA PriorityRanges ==
  ASSUME NEW p \in Int
  PROVE  /\ ClampPriority(p) \in MIN_PRIORITY .. MAX_PRIORITY
         /\ calculate_time_slice(ClampPriority(p)) \in MIN_TIME_SLICE .. MAX_TIME_SLICE
<1> USE SchedulerAssumption DEF MIN_PRIORITY
<1>1. PICK z : z = ClampPriority(p)
  OBVIOUS
<1>2. z \in MIN_PRIORITY .. MAX_PRIORITY
  BY <1>1 DEF ClampPriority
<1>3. calculate_time_slice(z) \in MIN_TIME_SLICE .. MAX_TIME_SLICE
  BY <1>2 DEF calculate_time_slice
<1> QED BY <1>1, <1>2, <1>3

(* Every step keeps the types.                                             *)
LEMMA TypeStep == IInv /\ [Next]_vars => TypeOK'
<1> SUFFICES ASSUME IInv, [Next]_vars PROVE TypeOK'
  OBVIOUS
<1>0. TypeOK
  BY DEF IInv
<1>t. /\ next \in [Tasks -> Pointers] /\ state \in [Tasks -> States]
      /\ priority \in [Tasks -> MIN_PRIORITY .. MAX_PRIORITY]
      /\ task_queue_head \in Pointers /\ task_queue_tail \in Pointers
      /\ time_slice \in MIN_TIME_SLICE .. MAX_TIME_SLICE
      /\ pc \in {"idle", "unlink", "round_robin", "highest", "returned"}
      /\ task \in Pointers /\ current \in Pointers /\ best_task \in Pointers
      /\ result \in Pointers /\ disturbed \in BOOLEAN
  BY <1>0 DEF TypeOK
<1>n. NULL \in Pointers /\ \A t \in Pointers : t # NULL => t \in Tasks
  BY NullIsNoTask DEF Pointers
<1> SUFFICES /\ next' \in [Tasks -> Pointers] /\ state' \in [Tasks -> States]
             /\ priority' \in [Tasks -> MIN_PRIORITY .. MAX_PRIORITY]
             /\ task_queue_head' \in Pointers /\ task_queue_tail' \in Pointers
             /\ time_slice' \in MIN_TIME_SLICE .. MAX_TIME_SLICE
             /\ pc' \in {"idle", "unlink", "round_robin", "highest", "returned"}
             /\ task' \in Pointers /\ current' \in Pointers /\ best_task' \in Pointers
             /\ result' \in Pointers /\ disturbed' \in BOOLEAN
  BY DEF TypeOK, Pointers, Tasks, States, MIN_PRIORITY
<1>2. ASSUME NEW t \in Tasks, add_task_to_scheduler(t)
      PROVE  /\ next' \in [Tasks -> Pointers] /\ state' \in [Tasks -> States]
             /\ task_queue_head' \in Pointers /\ task_queue_tail' \in Pointers
             /\ UNCHANGED <<priority, time_slice, pc, task, current, best_task, result, disturbed>>
  <2>1. t \in Pointers
    BY NullIsNoTask
  <2>2. UNCHANGED <<priority, time_slice, pc, task, current, best_task, result, disturbed>>
    BY <1>2 DEF add_task_to_scheduler, scan
  <2>3. next' \in [Tasks -> Pointers]
    BY <1>2, <1>t, <1>n, <2>1 DEF add_task_to_scheduler
  <2>4. state' \in [Tasks -> States]
    BY <1>2, <1>t DEF add_task_to_scheduler, States
  <2> QED BY <1>2, <1>t, <2>1, <2>2, <2>3, <2>4 DEF add_task_to_scheduler
<1>3. ASSUME NEW t \in Tasks, remove_task_from_scheduler(t)
      PROVE  /\ task_queue_head' \in Pointers /\ task_queue_tail' \in Pointers
             /\ pc' \in {"idle", "unlink"} /\ task' \in Pointers /\ current' \in Pointers
             /\ UNCHANGED <<next, state, priority, time_slice, best_task, result, disturbed>>
  BY <1>3, <1>t, <1>n, NullIsNoTask DEF remove_task_from_scheduler, Goto
<1>4. CASE remove_unlinks
  <2>1. UNCHANGED <<state, priority, time_slice, best_task, result, disturbed>>
    BY <1>4 DEF remove_unlinks
  <2>2. pc = "unlink" /\ current \in Tasks
    BY <1>4, CurrentIsTask DEF remove_unlinks, Goto
  <2>3. /\ task_queue_head' \in Pointers /\ task_queue_tail' \in Pointers
        /\ pc' \in {"idle", "unlink"} /\ task' \in Pointers /\ current' \in Pointers
    BY <1>4, <1>t, <1>n, <2>2 DEF remove_unlinks, Goto, queue
  <2>4. next' \in [Tasks -> Pointers]
    <3>1. task \in Tasks
      BY <2>2 DEF IInv, ScanInv, UnlinkInv
    <3> QED BY <1>4, <1>t, <2>2, <3>1 DEF remove_unlinks, queue
  <2> QED BY <1>t, <2>1, <2>3, <2>4
<1>5. CASE get_next_task
  BY <1>5, <1>t, <1>n DEF get_next_task, queue, Goto, idle_task
<1>6. CASE get_next_round_robin_task
  <2>1. pc = "round_robin" /\ current \in Tasks
    BY <1>6, CurrentIsTask DEF get_next_round_robin_task, Goto
  <2> QED BY <1>6, <1>t, <1>n, <2>1 DEF get_next_round_robin_task, queue, Goto, idle_task
<1>7. CASE Call_find_highest
  BY <1>7, <1>t, <1>n DEF Call_find_highest, queue, Goto
<1>8. CASE find_highest_priority_task
  BY <1>8, <1>t, <1>n DEF find_highest_priority_task, queue, Goto, idle_task
<1>9. CASE Return
  BY <1>9, <1>t, <1>n DEF Return, queue, Goto
<1>10. ASSUME NEW t \in Tasks, NEW p \in MIN_PRIORITY - 1 .. MAX_PRIORITY + 1,
              set_task_priority(t, p)
       PROVE  /\ priority' \in [Tasks -> MIN_PRIORITY .. MAX_PRIORITY]
              /\ time_slice' \in MIN_TIME_SLICE .. MAX_TIME_SLICE
              /\ UNCHANGED <<next, task_queue_head, task_queue_tail, state, pc, task, current,
                             best_task, result, disturbed>>
  <2>1. p \in Int
    BY SchedulerAssumption DEF MIN_PRIORITY
  <2>2. PICK z : z = ClampPriority(p)
    OBVIOUS
  <2>3. /\ z \in MIN_PRIORITY .. MAX_PRIORITY
        /\ calculate_time_slice(z) \in MIN_TIME_SLICE .. MAX_TIME_SLICE
    BY <2>1, <2>2, PriorityRanges
  <2>4. priority' = [priority EXCEPT ![t] = z] /\ time_slice' = calculate_time_slice(z)
    BY <1>10, <2>2 DEF set_task_priority
  <2>5. UNCHANGED <<next, task_queue_head, task_queue_tail, state, pc, task, current,
                    best_task, result, disturbed>>
    BY <1>10 DEF set_task_priority, queue, scan
  <2> QED BY <1>t, <2>3, <2>4, <2>5
<1>11. CASE schedule
  <2>1. state' \in [Tasks -> States]
    BY <1>11, <1>t DEF schedule, States
  <2>2. disturbed' \in BOOLEAN
    BY <1>11 DEF schedule
  <2>3. UNCHANGED <<next, task_queue_head, task_queue_tail, priority, time_slice, pc, task,
                    current, best_task, result>>
    BY <1>11 DEF schedule, queue, scan
  <2> QED BY <1>t, <2>1, <2>2, <2>3
<1>12. ASSUME NEW t \in Tasks, task_sleep(t) \/ task_wake(t)
       PROVE  /\ state' \in [Tasks -> States]
              /\ UNCHANGED <<next, task_queue_head, task_queue_tail, priority, time_slice, pc,
                             task, current, best_task, result, disturbed>>
  <2>1. state' \in [Tasks -> States]
    BY <1>12, <1>t DEF task_sleep, task_wake, States
  <2>2. UNCHANGED <<next, task_queue_head, task_queue_tail, priority, time_slice, pc,
                    task, current, best_task, result, disturbed>>
    BY <1>12 DEF task_sleep, task_wake, queue, scan
  <2> QED BY <2>1, <2>2
<1>13. CASE UNCHANGED vars
  BY <1>13, <1>t DEF vars, queue, scan
<1>14. CASE Call
  <2>1. CASE \E t \in Tasks : \/ add_task_to_scheduler(t) \/ remove_task_from_scheduler(t)
                              \/ task_sleep(t) \/ task_wake(t)
    BY <2>1, <1>t, <1>2, <1>3, <1>12
  <2>2. CASE \E t \in Tasks : \E p \in MIN_PRIORITY - 1 .. MAX_PRIORITY + 1 : set_task_priority(t, p)
    BY <2>2, <1>t, <1>10
  <2> QED BY <1>5, <1>7, <1>14, <2>1, <2>2, Zenon DEF Call
<1> QED BY <1>4, <1>6, <1>8, <1>9, <1>11, <1>13, <1>14 DEF Next, Work

-----------------------------------------------------------------------------
(* The sequence when a task is appended to it or taken out of it.          *)

Longer(r, q, t) ==
  /\ r \in Seq(Tasks) /\ Len(r) = Len(q) + 1 /\ r[Len(q) + 1] = t
  /\ \A i \in 1 .. Len(q) : r[i] = q[i]

Without(r, q, p) ==
  /\ r \in Seq(Tasks) /\ Len(r) = Len(q) - 1
  /\ \A i \in 1 .. Len(q) - 1 : r[i] = IF i < p THEN q[i] ELSE q[i + 1]

(* Appending.                                                              *)
LEMMA AppendIsLonger ==
  ASSUME NEW q \in Seq(Tasks), NEW t \in Tasks
  PROVE  Longer(Append(q, t), q, t)
BY AppendProperties DEF Longer

(* Taking out.                                                             *)
LEMMA RemoveAtIsWithout ==
  ASSUME NEW q \in Seq(Tasks), NEW p \in 1 .. Len(q)
  PROVE  Without(SubSeq(q, 1, p - 1) \o SubSeq(q, p + 1, Len(q)), q, p)
<1> DEFINE n == Len(q)
<1>0. n \in Nat /\ p \in Nat /\ p >= 1 /\ p <= n /\ \A i \in 1 .. n : q[i] \in Tasks
  BY TaskAt
<1>1. PICK a : a = SubSeq(q, 1, p - 1)
  OBVIOUS
<1>2. PICK b : b = SubSeq(q, p + 1, n)
  OBVIOUS
<1> HIDE DEF n
<1>3. /\ a \in Seq(Tasks) /\ Len(a) = p - 1 /\ \A i \in 1 .. p - 1 : a[i] = q[i]
  <2>1. \A i \in 1 .. p - 1 : q[i] \in Tasks
    BY <1>0
  <2>2. 1 \in Int /\ p - 1 \in Int
    BY <1>0
  <2>3. /\ a \in Seq(Tasks) /\ Len(a) = (IF 1 <= p - 1 THEN (p - 1) - 1 + 1 ELSE 0)
        /\ \A i \in 1 .. (p - 1) - 1 + 1 : a[i] = q[1 + i - 1]
    BY <1>1, <2>1, <2>2, SubSeqProperties
  <2>4. Len(a) = p - 1
    BY <1>0, <2>3
  <2>5. (p - 1) - 1 + 1 = p - 1 /\ \A i \in 1 .. p - 1 : 1 + i - 1 = i
    BY <1>0
  <2> QED BY <2>3, <2>4, <2>5
<1>4. /\ b \in Seq(Tasks) /\ Len(b) = n - p /\ \A i \in 1 .. n - p : b[i] = q[i + p]
  <2>1. \A i \in p + 1 .. n : q[i] \in Tasks
    BY <1>0
  <2>2. p + 1 \in Int /\ n \in Int
    BY <1>0
  <2>3. /\ b \in Seq(Tasks) /\ Len(b) = (IF p + 1 <= n THEN n - (p + 1) + 1 ELSE 0)
        /\ \A i \in 1 .. n - (p + 1) + 1 : b[i] = q[(p + 1) + i - 1]
    BY <1>2, <2>1, <2>2, SubSeqProperties
  <2>4. Len(b) = n - p
    BY <1>0, <2>3
  <2>5. n - (p + 1) + 1 = n - p /\ \A i \in 1 .. n - p : (p + 1) + i - 1 = i + p
    BY <1>0
  <2> QED BY <2>3, <2>4, <2>5
<1>5. PICK r : r = a \o b
  OBVIOUS
<1>6. /\ r \in Seq(Tasks) /\ Len(r) = Len(a) + Len(b)
      /\ \A i \in 1 .. Len(a) + Len(b) : r[i] = IF i <= Len(a) THEN a[i] ELSE b[i - Len(a)]
  BY <1>3, <1>4, <1>5, ConcatProperties
<1>7. Len(a) + Len(b) = n - 1
  BY <1>0, <1>3, <1>4
<1>8. ASSUME NEW i \in 1 .. n - 1 PROVE r[i] = IF i < p THEN q[i] ELSE q[i + 1]
  <2>1. r[i] = IF i <= p - 1 THEN a[i] ELSE b[i - (p - 1)]
    BY <1>3, <1>6, <1>7
  <2>2. CASE i < p
    <3>1. i \in 1 .. p - 1 /\ i <= p - 1
      BY <1>0, <2>2
    <3> QED BY <1>3, <2>1, <2>2, <3>1
  <2>3. CASE ~(i < p)
    <3>1. i - (p - 1) \in 1 .. n - p /\ ~(i <= p - 1) /\ (i - (p - 1)) + p = i + 1
      BY <1>0, <2>3
    <3> QED BY <1>4, <2>1, <2>3, <3>1
  <2> QED BY <2>2, <2>3
<1>9. Without(r, q, p)
  BY <1>6, <1>7, <1>8 DEF Without, n
<1> QED BY <1>1, <1>2, <1>5, <1>9 DEF n

-----------------------------------------------------------------------------
(* The list and the calls.                                                 *)

(* add_task_to_scheduler(t) appends to the sequence.                       *)
LEMMA AddAppends ==
  ASSUME IInv, NEW t \in Tasks, add_task_to_scheduler(t), NEW q \in Seq(Tasks), ListInv(q),
         NEW r, Longer(r, q, t)
  PROVE  ListInv(r)'
<1>1. next \in [Tasks -> Pointers]
  BY DEF IInv, TypeOK
<1>2. PICK n : n = Len(q)
  OBVIOUS
<1>3. n \in Nat /\ \A i \in 1 .. n : q[i] \in Tasks /\ q[i] # NULL
  BY <1>2, TaskAt
<1>4. /\ Len(r) = n + 1 /\ r[n + 1] = t /\ \A i \in 1 .. n : r[i] = q[i]
  BY <1>2 DEF Longer
<1>5. /\ \A i, j \in 1 .. n : q[i] = q[j] => i = j
      /\ task_queue_head = IF n = 0 THEN NULL ELSE q[1]
      /\ task_queue_tail = IF n = 0 THEN NULL ELSE q[n]
      /\ \A i \in 1 .. n : next[q[i]] = IF i = n THEN NULL ELSE q[i + 1]
      /\ members = {q[i] : i \in 1 .. n}
  BY <1>2 DEF ListInv
<1>6. /\ t \notin members /\ members' = members \cup {t}
      /\ next' = IF task_queue_head = NULL
                 THEN [next EXCEPT ![t] = NULL]
                 ELSE [next EXCEPT ![t] = NULL, ![task_queue_tail] = t]
      /\ task_queue_head' = IF task_queue_head = NULL THEN t ELSE task_queue_head
      /\ task_queue_tail' = t
  BY DEF add_task_to_scheduler
<1>7. \A i \in 1 .. n : q[i] # t
  BY <1>5, <1>6
<1>8. task_queue_head = NULL <=> n = 0
  BY <1>3, <1>5
<1>9. \A i, j \in 1 .. n + 1 : r[i] = r[j] => i = j
  <2> TAKE i, j \in 1 .. n + 1
  <2>1. (i = n + 1 \/ i \in 1 .. n) /\ (j = n + 1 \/ j \in 1 .. n)
    BY <1>3
  <2> QED BY <1>4, <1>5, <1>7, <2>1
<1>10. task_queue_head' = r[1] /\ task_queue_tail' = r[n + 1]
  <2>1. CASE n = 0
    BY <1>4, <1>6, <1>8, <2>1
  <2>2. CASE n # 0
    <3>1. 1 \in 1 .. n
      BY <1>3, <2>2
    <3> QED BY <1>4, <1>5, <1>6, <1>8, <2>2, <3>1
  <2> QED BY <2>1, <2>2
<1>11. ASSUME NEW i \in 1 .. n + 1 PROVE next'[r[i]] = IF i = n + 1 THEN NULL ELSE r[i + 1]
  <2>1. CASE n = 0
    <3>1. i = n + 1 /\ r[i] = t
      BY <1>4, <2>1
    <3>2. next'[t] = NULL
      BY <1>1, <1>6, <1>8, <2>1
    <3> QED BY <3>1, <3>2
  <2>2. CASE n # 0
    <3>0. n \in 1 .. n
      BY <1>3, <2>2
    <3>1. PICK z : z = q[n]
      OBVIOUS
    <3>2. z \in Tasks /\ z # t /\ task_queue_tail = z
      BY <1>3, <1>5, <1>7, <2>2, <3>0, <3>1
    <3>3. next' = [next EXCEPT ![t] = NULL, ![z] = t]
      BY <1>6, <1>8, <2>2, <3>2
    <3>4. next'[t] = NULL /\ next'[z] = t /\ \A u \in Tasks : u # t /\ u # z => next'[u] = next[u]
      BY <1>1, <3>2, <3>3
    <3>5. CASE i = n + 1
      BY <1>4, <3>4, <3>5
    <3>6. CASE i = n
      <4>1. r[i] = z /\ r[i + 1] = t /\ i # n + 1
        BY <1>3, <1>4, <3>0, <3>1, <3>6
      <4> QED BY <3>4, <4>1
    <3>7. CASE i \in 1 .. n - 1
      <4>1. i \in 1 .. n /\ i + 1 \in 1 .. n /\ i # n /\ i # n + 1
        BY <1>3, <3>7
      <4>2. r[i] = q[i] /\ r[i + 1] = q[i + 1] /\ next[q[i]] = q[i + 1]
        BY <1>4, <1>5, <4>1
      <4>3. q[i] # z /\ q[i] # t /\ q[i] \in Tasks
        BY <1>3, <1>5, <1>7, <3>0, <3>1, <4>1
      <4> QED BY <3>4, <4>1, <4>2, <4>3
    <3> QED BY <1>3, <3>5, <3>6, <3>7
  <2> QED BY <2>1, <2>2
<1>12. members' = {r[i] : i \in 1 .. n + 1}
  <2>1. \A x : x \in members' <=> \E i \in 1 .. n + 1 : x = r[i]
    <3>1. \A i \in 1 .. n + 1 : i = n + 1 \/ i \in 1 .. n
      BY <1>3
    <3>2. n + 1 \in 1 .. n + 1 /\ \A i \in 1 .. n : i \in 1 .. n + 1
      BY <1>3
    <3> QED BY <1>4, <1>5, <1>6, <3>1, <3>2
  <2> QED BY <2>1
<1>13. n + 1 # 0
  BY <1>3
<1> QED BY <1>4, <1>9, <1>10, <1>11, <1>12, <1>13 DEF ListInv

(* A removal takes the task at position p out of the sequence: the head,   *)
(* or a task that the link of the one before it is led past.               *)
LEMMA RemoveTakesOut ==
  ASSUME IInv, NEW q \in Seq(Tasks), ListInv(q), NEW p \in 1 .. Len(q),
         NEW r, Without(r, q, p),
         members' = members \ {q[p]},
         next' = (IF p = 1 THEN next ELSE [next EXCEPT ![q[p - 1]] = next[q[p]]]),
         task_queue_head' = (IF p = 1 THEN next[q[p]] ELSE task_queue_head),
         task_queue_tail' = (IF task_queue_tail # q[p] THEN task_queue_tail
                             ELSE IF p = 1 THEN NULL ELSE q[p - 1])
  PROVE  ListInv(r)'
<1>1. next \in [Tasks -> Pointers]
  BY DEF IInv, TypeOK
<1>2. PICK n : n = Len(q)
  OBVIOUS
<1>3. /\ n \in Nat /\ p \in 1 .. n /\ p \in Nat /\ n \in 1 .. n /\ 1 \in 1 .. n
      /\ \A i \in 1 .. n : q[i] \in Tasks /\ q[i] # NULL
  BY <1>2, TaskAt
<1>4. Len(r) = n - 1 /\ \A i \in 1 .. n - 1 : r[i] = IF i < p THEN q[i] ELSE q[i + 1]
  BY <1>2 DEF Without
<1>5. /\ \A i, j \in 1 .. n : q[i] = q[j] => i = j
      /\ task_queue_head = q[1] /\ task_queue_tail = q[n]
      /\ \A i \in 1 .. n : next[q[i]] = IF i = n THEN NULL ELSE q[i + 1]
      /\ members = {q[i] : i \in 1 .. n}
  BY <1>2, <1>3 DEF ListInv
<1>6. ASSUME NEW i \in 1 .. n - 1
      PROVE  i \in 1 .. n /\ i + 1 \in 1 .. n /\ (i < p => r[i] = q[i])
             /\ (~(i < p) => r[i] = q[i + 1])
  BY <1>3, <1>4
<1>7. \A i, j \in 1 .. n - 1 : r[i] = r[j] => i = j
  <2> SUFFICES ASSUME NEW i \in 1 .. n - 1, NEW j \in 1 .. n - 1, r[i] = r[j] PROVE i = j
    OBVIOUS
  <2>1. PICK x \in 1 .. n : r[i] = q[x] /\ x = IF i < p THEN i ELSE i + 1
    BY <1>6
  <2>2. PICK y \in 1 .. n : r[j] = q[y] /\ y = IF j < p THEN j ELSE j + 1
    BY <1>6
  <2>3. x = y
    BY <1>5, <2>1, <2>2
  <2> QED BY <1>3, <2>1, <2>2, <2>3
<1>8. task_queue_head' = IF n - 1 = 0 THEN NULL ELSE r[1]
  <2>1. CASE n = 1
    <3>1. p = 1 /\ next[q[1]] = NULL
      BY <1>3, <1>5, <2>1
    <3> QED BY <2>1, <3>1
  <2>2. CASE n # 1
    <3>1. 1 \in 1 .. n - 1 /\ n - 1 # 0 /\ 1 # n
      BY <1>3, <2>2
    <3>2. CASE p = 1
      <4>1. r[1] = q[1 + 1] /\ next[q[1]] = q[1 + 1]
        BY <1>3, <1>5, <1>6, <3>1, <3>2
      <4> QED BY <3>1, <3>2, <4>1
    <3>3. CASE p # 1
      <4>1. r[1] = q[1]
        BY <1>3, <1>6, <3>1, <3>3
      <4> QED BY <1>5, <3>1, <3>3, <4>1
    <3> QED BY <3>2, <3>3
  <2> QED BY <2>1, <2>2
<1>9. task_queue_tail' = IF n - 1 = 0 THEN NULL ELSE r[n - 1]
  <2>0. task_queue_tail = q[p] <=> p = n
    BY <1>3, <1>5
  <2>1. CASE n = 1
    <3>1. p = 1 /\ p = n
      BY <1>3, <2>1
    <3> QED BY <2>0, <2>1, <3>1
  <2>2. CASE n # 1
    <3>1. n - 1 \in 1 .. n - 1 /\ n - 1 # 0
      BY <1>3, <2>2
    <3>2. CASE p = n
      <4>1. r[n - 1] = q[n - 1] /\ p # 1 /\ p - 1 = n - 1
        BY <1>3, <1>6, <2>2, <3>1, <3>2
      <4> QED BY <2>0, <3>1, <3>2, <4>1
    <3>3. CASE p # n
      <4>1. ~(n - 1 < p) /\ (n - 1) + 1 = n
        BY <1>3, <3>3
      <4>2. r[n - 1] = q[n]
        BY <1>6, <3>1, <4>1
      <4> QED BY <1>5, <2>0, <3>1, <3>3, <4>2
    <3> QED BY <3>2, <3>3
  <2> QED BY <2>1, <2>2
<1>10. ASSUME NEW i \in 1 .. n - 1 PROVE next'[r[i]] = IF i = n - 1 THEN NULL ELSE r[i + 1]
  <2>1. CASE ~(i < p)
    <3>1. i + 1 \in 1 .. n /\ r[i] = q[i + 1]
      BY <1>6, <2>1
    <3>2. next'[q[i + 1]] = next[q[i + 1]]
      <4>1. CASE p = 1
        BY <4>1
      <4>2. CASE p # 1
        <5>1. p - 1 \in 1 .. n /\ i + 1 # p - 1
          BY <1>3, <2>1, <4>2
        <5>2. q[i + 1] # q[p - 1] /\ q[i + 1] \in Tasks
          BY <1>3, <1>5, <3>1, <5>1
        <5> QED BY <1>1, <4>2, <5>2
      <4> QED BY <4>1, <4>2
    <3>3. next[q[i + 1]] = IF i + 1 = n THEN NULL ELSE q[(i + 1) + 1]
      BY <1>5, <3>1
    <3>4. CASE i = n - 1
      <4>1. i + 1 = n
        BY <1>3, <3>4
      <4> QED BY <3>1, <3>2, <3>3, <3>4, <4>1
    <3>5. CASE i # n - 1
      <4>1. i + 1 \in 1 .. n - 1 /\ ~(i + 1 < p) /\ i + 1 # n
        BY <1>3, <2>1, <3>5
      <4>2. r[i + 1] = q[(i + 1) + 1]
        BY <1>6, <4>1
      <4> QED BY <3>1, <3>2, <3>3, <3>5, <4>1, <4>2
    <3> QED BY <3>4, <3>5
  <2>2. CASE i < p /\ i # p - 1
    <3>1. /\ i \in 1 .. n /\ r[i] = q[i] /\ p # 1 /\ p - 1 \in 1 .. n
          /\ i + 1 \in 1 .. n - 1 /\ i + 1 < p /\ i # n - 1 /\ i # n
      BY <1>3, <1>6, <2>2
    <3>2. r[i + 1] = q[i + 1] /\ next[q[i]] = q[i + 1]
      BY <1>5, <1>6, <3>1
    <3>3. q[i] # q[p - 1] /\ q[i] \in Tasks
      BY <1>3, <1>5, <2>2, <3>1
    <3>4. next'[q[i]] = next[q[i]]
      BY <1>1, <3>1, <3>3
    <3> QED BY <3>1, <3>2, <3>4
  <2>3. CASE i = p - 1
    <3>0. i < p /\ p # 1
      BY <1>3, <2>3
    <3>1. i \in 1 .. n /\ r[i] = q[i] /\ p # 1 /\ q[i] \in Tasks
      BY <1>3, <1>6, <3>0
    <3>2. next'[q[i]] = next[q[p]]
      BY <1>1, <2>3, <3>1
    <3>3. next[q[p]] = IF p = n THEN NULL ELSE q[p + 1]
      BY <1>3, <1>5
    <3>4. CASE p = n
      <4>1. i = n - 1
        BY <2>3, <3>4
      <4> QED BY <3>1, <3>2, <3>3, <3>4, <4>1
    <3>5. CASE p # n
      <4>1. i + 1 \in 1 .. n - 1 /\ ~(i + 1 < p) /\ (i + 1) + 1 = p + 1 /\ i # n - 1
        BY <1>3, <2>3, <3>5
      <4>2. r[i + 1] = q[p + 1]
        BY <1>6, <4>1
      <4> QED BY <3>1, <3>2, <3>3, <3>5, <4>1, <4>2
    <3> QED BY <3>4, <3>5
  <2> QED BY <1>3, <2>1, <2>2, <2>3
<1>11. members' = {r[i] : i \in 1 .. n - 1}
  <2>1. ASSUME NEW i \in 1 .. n - 1 PROVE r[i] \in members'
    <3>1. PICK x \in 1 .. n : r[i] = q[x] /\ x # p
      <4>1. CASE i < p
        <5>1. i # p
          BY <1>3, <4>1
        <5> QED BY <1>6, <4>1, <5>1
      <4>2. CASE ~(i < p)
        <5>1. i + 1 # p
          BY <1>3, <4>2
        <5> QED BY <1>6, <4>2, <5>1
      <4> QED BY <4>1, <4>2
    <3> QED BY <1>3, <1>5, <3>1
  <2>2. ASSUME NEW u \in members' PROVE \E i \in 1 .. n - 1 : u = r[i]
    <3>1. PICK x \in 1 .. n : u = q[x] /\ x # p
      BY <1>5
    <3>2. CASE x < p
      <4>1. x \in 1 .. n - 1
        BY <1>3, <3>2
      <4>2. r[x] = q[x]
        BY <1>6, <3>2, <4>1
      <4> QED BY <3>1, <4>1, <4>2
    <3>3. CASE ~(x < p)
      <4>1. x - 1 \in 1 .. n - 1 /\ ~(x - 1 < p) /\ (x - 1) + 1 = x
        BY <1>3, <3>1, <3>3
      <4>2. r[x - 1] = q[x]
        BY <1>6, <4>1
      <4> QED BY <3>1, <4>1, <4>2
    <3> QED BY <3>2, <3>3
  <2> QED BY <2>1, <2>2
<1>12. /\ \A i, j \in 1 .. Len(r) : r[i] = r[j] => i = j
       /\ task_queue_head' = IF Len(r) = 0 THEN NULL ELSE r[1]
       /\ task_queue_tail' = IF Len(r) = 0 THEN NULL ELSE r[Len(r)]
       /\ \A i \in 1 .. Len(r) : next'[r[i]] = IF i = Len(r) THEN NULL ELSE r[i + 1]
       /\ members' = {r[i] : i \in 1 .. Len(r)}
  BY <1>4, <1>7, <1>8, <1>9, <1>10, <1>11, Zenon
<1> QED BY <1>12, Zenon DEF ListInv

(* A step that leaves the list alone keeps ListInv.                        *)
LEMMA ListSame ==
  ASSUME NEW q, ListInv(q), UNCHANGED <<next, task_queue_head, task_queue_tail, members>>
  PROVE  ListInv(q)'
BY Zenon DEF ListInv, NULL

-----------------------------------------------------------------------------
(* The scans.                                                              *)

(* A call that is over has found nothing yet.                              *)
LEMMA IdleScan ==
  ASSUME NEW q, pc' = "idle", best_task' = NULL
  PROVE  ScanInv(q)'
BY DEF ScanInv, UnlinkInv, RoundRobinInv, HighestInv, ReturnInv, NULL

(* A step of get_next_round_robin_task.                                    *)
LEMMA RoundRobinStep ==
  ASSUME IInv, NEW q \in Seq(Tasks), ListInv(q), ScanInv(q), get_next_round_robin_task
  PROVE  ScanInv(q)'
<1>1. UNCHANGED <<state, priority, task, best_task, members, disturbed>> /\ pc = "round_robin"
  BY DEF get_next_round_robin_task, Goto
<1>2. PICK i \in 1 .. Len(q) : current = q[i] /\ (~disturbed => NoneReady(q, i - 1))
  BY <1>1 DEF ScanInv, RoundRobinInv
<1>3. Len(q) \in Nat /\ i \in Nat /\ q[i] \in Tasks /\ q[i] # NULL
  BY TaskAt
<1>4. best_task = NULL
  BY <1>1 DEF ScanInv
<1>5. next[current] = IF i = Len(q) THEN NULL ELSE q[i + 1]
  BY <1>2 DEF ListInv
<1>6. task_queue_head = q[1] /\ 1 \in 1 .. Len(q)
  BY <1>3 DEF ListInv
<1>7. CASE pc' = "returned" /\ state[current] = "TASK_READY" /\ result' = current
  <2>1. result' \in members' /\ Runnable(result)'
    BY <1>1, <1>2, <1>7 DEF ListInv, Runnable
  <2>2. ~disturbed' => NoneReady(q, i - 1)'
    BY <1>1, <1>2 DEF NoneReady, IsReady
  <2>3. IsReady(q[i])' /\ result' = q[i]
    BY <1>1, <1>2, <1>7 DEF IsReady
  <2>4. ReturnInv(q)'
    BY <1>1, <1>4, <2>1, <2>2, <2>3 DEF ReturnInv, NULL
  <2> QED BY <1>7, <2>4 DEF ScanInv, UnlinkInv, RoundRobinInv, HighestInv
<1>8. CASE /\ pc' = "round_robin" /\ state[current] # "TASK_READY"
           /\ (IF next[current] # NULL THEN next[current] ELSE task_queue_head) # task_queue_head
           /\ current' = IF next[current] # NULL THEN next[current] ELSE task_queue_head
  <2>1. i # Len(q) /\ current' = q[i + 1]
    BY <1>5, <1>8
  <2>2. i + 1 \in 1 .. Len(q) /\ (i + 1) - 1 = i
    BY <1>3, <2>1
  <2>3. ~disturbed' => NoneReady(q, i)'
    <3>1. ~IsReady(q[i])
      BY <1>2, <1>8 DEF IsReady
    <3>2. \A j \in 1 .. i : j = i \/ j \in 1 .. i - 1
      BY <1>3
    <3>3. ~disturbed => NoneReady(q, i)
      BY <1>2, <3>1, <3>2 DEF NoneReady
    <3> QED BY <1>1, <3>3 DEF NoneReady, IsReady
  <2>4. RoundRobinInv(q)'
    BY <2>1, <2>2, <2>3 DEF RoundRobinInv
  <2> QED BY <1>1, <1>4, <1>8, <2>4 DEF ScanInv, UnlinkInv, HighestInv, ReturnInv, NULL
<1>9. CASE /\ pc' = "returned" /\ state[current] # "TASK_READY" /\ result' = NULL
           /\ (IF next[current] # NULL THEN next[current] ELSE task_queue_head) = task_queue_head
  <2>1. i = Len(q)
    <3>1. ASSUME i # Len(q) PROVE FALSE
      <4>1. i + 1 \in 1 .. Len(q) /\ i + 1 # 1
        BY <1>3, <3>1
      <4>2. q[i + 1] # NULL
        BY <4>1, TaskAt
      <4>3. q[i + 1] = q[1]
        BY <1>5, <1>6, <1>9, <3>1, <4>2
      <4> QED BY <1>6, <4>1, <4>3 DEF ListInv
    <3> QED BY <3>1
  <2>2. ~disturbed' => NoneReady(q, Len(q))'
    <3>1. ~IsReady(q[i])
      BY <1>2, <1>9 DEF IsReady
    <3>2. \A j \in 1 .. Len(q) : j = i \/ j \in 1 .. i - 1
      BY <1>3, <2>1
    <3>3. ~disturbed => NoneReady(q, Len(q))
      BY <1>2, <3>1, <3>2 DEF NoneReady
    <3> QED BY <1>1, <3>3 DEF NoneReady, IsReady
  <2>3. ReturnInv(q)'
    BY <1>9, <2>2 DEF ReturnInv, NULL
  <2> QED BY <1>9, <2>3 DEF ScanInv, UnlinkInv, RoundRobinInv, HighestInv
<1> QED BY <1>7, <1>8, <1>9, Zenon DEF get_next_round_robin_task, Goto, idle_task

(* A step of find_highest_priority_task.                                   *)
LEMMA HighestStep ==
  ASSUME IInv, NEW q \in Seq(Tasks), ListInv(q), ScanInv(q), find_highest_priority_task
  PROVE  ScanInv(q)'
<1>1. UNCHANGED <<state, priority, task, members, disturbed>> /\ pc = "highest"
  BY DEF find_highest_priority_task, Goto
<1>2. best_task # NULL => best_task \in members /\ Runnable(best_task)
  BY <1>1 DEF ScanInv, HighestInv
<1>3. PICK n \in 0 .. Len(q) :
        /\ current = IF n = Len(q) THEN NULL ELSE q[n + 1]
        /\ ~disturbed =>
             IF best_task = NULL THEN NoneReady(q, n)
             ELSE \E i \in 1 .. n : best_task = q[i] /\ BestAmong(q, n, i)
  BY <1>1 DEF ScanInv, HighestInv
<1>4. Len(q) \in Nat /\ n \in Nat /\ \A i \in 1 .. Len(q) : q[i] \in Tasks /\ q[i] # NULL
  BY TaskAt
<1>5. CASE /\ pc' = "highest" /\ current # NULL
           /\ best_task' = (IF Better THEN current ELSE best_task)
           /\ current' = next[current]
  <2>1. n # Len(q) /\ current = q[n + 1]
    BY <1>3, <1>5
  <2>2. n + 1 \in 1 .. Len(q) /\ n + 1 \in 0 .. Len(q)
    BY <1>4, <2>1
  <2>3. current' = IF n + 1 = Len(q) THEN NULL ELSE q[(n + 1) + 1]
    BY <1>5, <2>1, <2>2 DEF ListInv
  <2>4. priority \in [Tasks -> 0 .. MAX_PRIORITY] /\ MAX_PRIORITY \in Nat
    BY SchedulerAssumption DEF IInv, TypeOK, MIN_PRIORITY
  <2>5. \A j \in 1 .. Len(q) : priority[q[j]] \in Nat /\ priority[q[j]] <= MAX_PRIORITY
    BY <1>4, <2>4
  <2>6. \A j \in 1 .. n + 1 : j = n + 1 \/ j \in 1 .. n
    BY <1>4
  <2>7. \A j \in 1 .. n : j \in 1 .. Len(q) /\ j < n + 1 /\ j \in 1 .. n + 1
    BY <1>4
  <2>8. best_task' # NULL => best_task' \in members' /\ Runnable(best_task)'
    <3>1. CASE Better
      BY <1>1, <1>5, <2>1, <2>2, <3>1 DEF Better, ListInv, Runnable
    <3>2. CASE ~Better
      BY <1>1, <1>2, <1>5, <3>2 DEF Runnable
    <3> QED BY <3>1, <3>2
  <2>9. ASSUME ~disturbed
        PROVE  IF best_task' = NULL THEN NoneReady(q, n + 1)
               ELSE \E i \in 1 .. n + 1 : best_task' = q[i] /\ BestAmong(q, n + 1, i)
    <3>1. CASE Better
      <4>1. best_task' = q[n + 1] /\ best_task' # NULL /\ IsReady(q[n + 1])
        BY <1>5, <2>1, <3>1 DEF Better, IsReady
      <4>2. ASSUME NEW j \in 1 .. n, IsReady(q[j]) PROVE priority[q[n + 1]] < priority[q[j]]
        <5>1. best_task # NULL
          BY <1>3, <2>9, <4>2 DEF NoneReady
        <5>2. PICK i \in 1 .. n : best_task = q[i] /\ BestAmong(q, n, i)
          BY <1>3, <2>9, <5>1
        <5>3. priority[q[i]] <= priority[q[j]]
          BY <4>2, <5>2 DEF BestAmong
        <5>4. priority[q[n + 1]] < priority[q[i]]
          BY <2>1, <3>1, <5>1, <5>2 DEF Better, highest_priority
        <5> QED BY <2>2, <2>5, <2>7, <5>3, <5>4
      <4>3. ASSUME NEW j \in 1 .. n + 1, IsReady(q[j])
            PROVE  priority[q[n + 1]] <= priority[q[j]] /\ (j < n + 1 => priority[q[n + 1]] < priority[q[j]])
        <5>1. CASE j = n + 1
          BY <1>4, <2>2, <2>5, <5>1
        <5>2. CASE j \in 1 .. n
          <6>1. priority[q[n + 1]] < priority[q[j]]
            BY <4>2, <4>3, <5>2
          <6> QED BY <2>2, <2>5, <2>7, <5>2, <6>1
        <5> QED BY <2>6, <5>1, <5>2
      <4>4. BestAmong(q, n + 1, n + 1)
        BY <4>1, <4>3 DEF BestAmong
      <4>5. n + 1 \in 1 .. n + 1
        BY <1>4
      <4> QED BY <4>1, <4>4, <4>5
    <3>2. CASE ~Better
      <4>1. best_task' = best_task
        BY <1>5, <3>2
      <4>2. CASE best_task = NULL
        <5>1. ~IsReady(q[n + 1])
          <6>1. ~(priority[q[n + 1]] < MAX_PRIORITY + 1) \/ ~IsReady(q[n + 1])
            BY <2>1, <3>2, <4>2 DEF Better, highest_priority, IsReady
          <6> QED BY <2>2, <2>4, <2>5, <6>1
        <5>2. NoneReady(q, n)
          BY <1>3, <2>9, <4>2
        <5> QED BY <2>6, <4>1, <4>2, <5>1, <5>2 DEF NoneReady
      <4>3. CASE best_task # NULL
        <5>1. PICK i \in 1 .. n : best_task = q[i] /\ BestAmong(q, n, i)
          BY <1>3, <2>9, <4>3
        <5>2. IsReady(q[n + 1]) => ~(priority[q[n + 1]] < priority[q[i]])
          BY <2>1, <3>2, <4>3, <5>1 DEF Better, highest_priority, IsReady
        <5>3. IsReady(q[n + 1]) => priority[q[i]] <= priority[q[n + 1]]
          BY <2>2, <2>5, <2>7, <5>2
        <5>4. BestAmong(q, n + 1, i)
          <6>1. ~(n + 1 < i)
            BY <1>4
          <6> QED BY <2>6, <5>1, <5>3, <6>1 DEF BestAmong
        <5> QED BY <2>7, <4>1, <4>3, <5>1, <5>4
      <4> QED BY <4>2, <4>3
    <3> QED BY <3>1, <3>2
  <2>10. ~disturbed' => IF best_task' = NULL THEN NoneReady(q, n + 1)'
                        ELSE \E i \in 1 .. n + 1 : best_task' = q[i] /\ BestAmong(q, n + 1, i)'
    BY <1>1, <2>9 DEF NoneReady, BestAmong, IsReady
  <2>11. HighestInv(q)'
    BY <2>2, <2>3, <2>8, <2>10 DEF HighestInv, NULL
  <2> QED BY <1>5, <2>11 DEF ScanInv, UnlinkInv, RoundRobinInv, ReturnInv
<1>6. CASE pc' = "returned" /\ current = NULL /\ best_task' = best_task /\ result' = best_task
  <2>1. n = Len(q)
    <3>1. ASSUME n # Len(q) PROVE FALSE
      <4>1. n + 1 \in 1 .. Len(q)
        BY <1>4, <3>1
      <4> QED BY <1>3, <1>4, <1>6, <3>1, <4>1
    <3> QED BY <3>1
  <2>2. result' # NULL => result' \in members' /\ Runnable(result)'
    BY <1>1, <1>2, <1>6 DEF Runnable
  <2>3. ASSUME ~disturbed, best_task # NULL
        PROVE  \E i \in 1 .. Len(q) : best_task = q[i] /\ IsReady(q[i]) /\ BestAmong(q, Len(q), i)
    BY <1>3, <2>1, <2>3 DEF BestAmong
  <2>4. ~disturbed /\ best_task = NULL => NoneReady(q, Len(q))
    BY <1>3, <2>1
  <2>5. ~disturbed' =>
          \/ result' = NULL /\ NoneReady(q, Len(q))'
          \/ \E i \in 1 .. Len(q) :
               result' = q[i] /\ IsReady(q[i])' /\ best_task' # NULL /\ BestAmong(q, Len(q), i)'
    BY <1>1, <1>6, <2>3, <2>4 DEF NoneReady, BestAmong, IsReady
  <2>6. ReturnInv(q)'
    BY <2>2, <2>5 DEF ReturnInv, NULL
  <2> QED BY <1>6, <2>6 DEF ScanInv, UnlinkInv, RoundRobinInv, HighestInv
<1> QED BY <1>5, <1>6, Zenon DEF find_highest_priority_task, Goto, idle_task

(* The timer interrupt keeps a runnable task runnable, and the call it     *)
(* fell into knows of it.                                                  *)
LEMMA ScheduleStep ==
  ASSUME IInv, NEW q \in Seq(Tasks), ListInv(q), ScanInv(q), schedule
  PROVE  ScanInv(q)'
<1>1. /\ UNCHANGED <<priority, pc, task, current, best_task, result, members>>
      /\ disturbed' = (pc \in {"round_robin", "highest", "returned"})
  BY DEF schedule, scan
<1>2. ASSUME NEW u \in Tasks, Runnable(u) PROVE state'[u] \in {"TASK_READY", "TASK_RUNNING"}
  <2>1. PICK t, prev \in Tasks :
          state' = [state EXCEPT ![t] = "TASK_RUNNING",
                                 ![prev] = IF @ = "TASK_RUNNING" THEN "TASK_READY" ELSE @]
          /\ t # prev
    BY DEF schedule
  <2>2. state \in [Tasks -> States]
    BY DEF IInv, TypeOK
  <2> QED BY <1>2, <2>1, <2>2 DEF Runnable
<1>3. members \subseteq Tasks
  BY TaskAt DEF ListInv
<1>4. UnlinkInv(q)'
  BY <1>1 DEF ScanInv, UnlinkInv, Tasks
<1>5. RoundRobinInv(q)'
  BY <1>1 DEF ScanInv, RoundRobinInv
<1>6. HighestInv(q)'
  <2>1. pc = "highest" /\ best_task # NULL => best_task \in members /\ Runnable(best_task)'
    BY <1>1, <1>2, <1>3 DEF ScanInv, HighestInv, Runnable
  <2>2. pc = "highest" => \E n \in 0 .. Len(q) : current = IF n = Len(q) THEN NULL ELSE q[n + 1]
    BY DEF ScanInv, HighestInv
  <2> QED BY <1>1, <2>1, <2>2 DEF HighestInv, NULL
<1>7. ReturnInv(q)'
  <2>1. pc = "returned" /\ result # NULL => result \in members /\ Runnable(result)'
    BY <1>1, <1>2, <1>3 DEF ScanInv, ReturnInv, Runnable
  <2> QED BY <1>1, <2>1 DEF ReturnInv, NULL
<1> QED BY <1>1, <1>4, <1>5, <1>6, <1>7 DEF ScanInv, NULL

(* What a step does to the sequence.                                       *)
QueueStep(q, r) ==
  \/ r = q /\ members' = members
  \/ \E t \in Tasks : t \notin members /\ members' = members \cup {t} /\ r = Append(q, t)
  \/ \E p \in 1 .. Len(q) :
       /\ members' = members \ {q[p]}
       /\ r = SubSeq(q, 1, p - 1) \o SubSeq(q, p + 1, Len(q))

(* After every step there is a sequence that describes the list and the    *)
(* scan: the one before it, or the one with a task appended or taken out.  *)
LEMMA SequenceStep ==
  ASSUME IInv, [Next]_vars, NEW q \in Seq(Tasks), ListInv(q), ScanInv(q)
  PROVE  \E r \in Seq(Tasks) : ListInv(r)' /\ ScanInv(r)' /\ QueueStep(q, r)
<1>q. ListInv(q) /\ ScanInv(q)
  OBVIOUS
<1>s. members' = members => QueueStep(q, q)
  BY DEF QueueStep
<1>b. pc \in {"idle", "unlink"} => best_task = NULL
  BY <1>q DEF ScanInv
<1>n. Len(q) \in Nat /\ \A i \in 1 .. Len(q) : q[i] \in Tasks /\ q[i] # NULL
  BY TaskAt
<1>1. ASSUME NEW t \in Tasks, add_task_to_scheduler(t)
      PROVE  \E r \in Seq(Tasks) : ListInv(r)' /\ ScanInv(r)' /\ QueueStep(q, r)
  <2>1. PICK r : r = Append(q, t)
    OBVIOUS
  <2>2. Longer(r, q, t)
    BY <2>1, AppendIsLonger
  <2>3. ListInv(r)'
    BY <1>1, <1>q, <2>2, AddAppends
  <2>4. pc' = "idle" /\ best_task' = NULL
    BY <1>1, <1>b DEF add_task_to_scheduler, scan
  <2>5. QueueStep(q, r)
    BY <1>1, <2>1 DEF add_task_to_scheduler, QueueStep
  <2> QED BY <2>2, <2>3, <2>4, <2>5, IdleScan DEF Longer
<1>2. ASSUME NEW t \in Tasks, remove_task_from_scheduler(t)
      PROVE  \E r \in Seq(Tasks) : ListInv(r)' /\ ScanInv(r)' /\ QueueStep(q, r)
  <2>0. /\ task_queue_head # NULL /\ pc = "idle" /\ best_task' = NULL
        /\ UNCHANGED <<next, best_task, result, disturbed>>
    BY <1>2, <1>b DEF remove_task_from_scheduler, Goto
  <2>1. 1 \in 1 .. Len(q) /\ task_queue_head = q[1]
    BY <1>n, <1>q, <2>0 DEF ListInv
  <2>2. CASE /\ pc' = "idle" /\ task_queue_head = t /\ task_queue_head' = next[t]
             /\ task_queue_tail' = (IF task_queue_tail = t THEN NULL ELSE task_queue_tail)
             /\ members' = members \ {t}
    <3>1. PICK r : r = SubSeq(q, 1, 1 - 1) \o SubSeq(q, 1 + 1, Len(q))
      OBVIOUS
    <3>2. Without(r, q, 1)
      BY <2>1, <3>1, RemoveAtIsWithout
    <3>3. /\ members' = members \ {q[1]} /\ next' = next /\ task_queue_head' = next[q[1]]
          /\ task_queue_tail' = (IF task_queue_tail # q[1] THEN task_queue_tail ELSE NULL)
      BY <2>0, <2>1, <2>2
    <3>4. ListInv(r)'
      BY <1>q, <2>1, <3>2, <3>3, RemoveTakesOut
    <3>5. QueueStep(q, r)
      BY <2>1, <3>1, <3>3, Zenon DEF QueueStep
    <3> QED BY <2>0, <2>2, <3>2, <3>4, <3>5, IdleScan DEF Without
  <2>3. CASE /\ pc' = "unlink" /\ task_queue_head # t /\ task' = t /\ current' = task_queue_head
             /\ UNCHANGED <<task_queue_head, task_queue_tail, members>>
    <3>1. ListInv(q)'
      BY <1>q, <2>0, <2>3, ListSame
    <3>2. current' = q[1] /\ \A j \in 1 .. 1 : q[j] # task'
      BY <2>1, <2>3
    <3>3. task' \in Tasks
      BY <2>3
    <3>4. UnlinkInv(q)'
      BY <2>1, <3>2, <3>3 DEF UnlinkInv, Tasks
    <3>5. ScanInv(q)'
      BY <2>0, <2>3, <3>4 DEF ScanInv, RoundRobinInv, HighestInv, ReturnInv, NULL
    <3> QED BY <1>s, <2>3, <3>1, <3>5
  <2> QED BY <1>2, <2>2, <2>3 DEF remove_task_from_scheduler, Goto
<1>3. CASE remove_unlinks
  <2>0. /\ pc = "unlink" /\ best_task' = NULL
        /\ UNCHANGED <<best_task, result, disturbed>>
    BY <1>3, <1>b DEF remove_unlinks, Goto
  <2>1. PICK i \in 1 .. Len(q) : current = q[i] /\ \A j \in 1 .. i : q[j] # task
    BY <1>q, <2>0 DEF ScanInv, UnlinkInv
  <2>2. task \in Tasks
    BY <1>q, <2>0 DEF ScanInv, UnlinkInv
  <2>3. next[current] = IF i = Len(q) THEN NULL ELSE q[i + 1]
    BY <1>q, <2>1 DEF ListInv
  <2>4. CASE /\ pc' = "unlink" /\ next[current] \notin {NULL, task} /\ current' = next[current]
             /\ UNCHANGED <<next, task_queue_head, task_queue_tail, task, members>>
    <3>1. ListInv(q)'
      BY <1>q, <2>4, ListSame
    <3>2. i # Len(q) /\ current' = q[i + 1] /\ q[i + 1] # task
      BY <2>3, <2>4
    <3>3. i + 1 \in 1 .. Len(q) /\ \A j \in 1 .. i + 1 : j = i + 1 \/ j \in 1 .. i
      BY <1>n, <3>2
    <3>4. \A j \in 1 .. i + 1 : q[j] # task'
      BY <2>1, <2>4, <3>2, <3>3
    <3>5. task' \in Tasks
      BY <2>2, <2>4
    <3>6. UnlinkInv(q)'
      BY <3>2, <3>3, <3>4, <3>5 DEF UnlinkInv, Tasks
    <3>7. ScanInv(q)'
      BY <2>0, <2>4, <3>6 DEF ScanInv, RoundRobinInv, HighestInv, ReturnInv, NULL
    <3> QED BY <1>s, <2>4, <3>1, <3>7
  <2>5. CASE /\ pc' = "idle" /\ next[current] = NULL /\ members' = members \ {task}
             /\ UNCHANGED <<next, task_queue_head, task_queue_tail>>
    <3>1. i = Len(q)
      <4>1. ASSUME i # Len(q) PROVE FALSE
        <5>1. i + 1 \in 1 .. Len(q)
          BY <1>n, <4>1
        <5> QED BY <1>n, <2>3, <2>5, <4>1, <5>1
      <4> QED BY <4>1
    <3>2. members' = members
      BY <1>q, <2>1, <2>5, <3>1 DEF ListInv
    <3>3. ListInv(q)'
      BY <1>q, <2>5, <3>2, ListSame
    <3> QED BY <1>s, <2>0, <2>5, <3>2, <3>3, IdleScan
  <2>6. CASE /\ pc' = "idle" /\ next[current] = task /\ members' = members \ {task}
             /\ next' = [next EXCEPT ![current] = next[task]]
             /\ task_queue_tail' = (IF task_queue_tail = task THEN current ELSE task_queue_tail)
             /\ UNCHANGED task_queue_head
    <3>1. i # Len(q) /\ q[i + 1] = task
      BY <2>2, <2>3, <2>6, NullIsNoTask
    <3>2. PICK p : p = i + 1
      OBVIOUS
    <3>3. p \in 1 .. Len(q) /\ p # 1 /\ p - 1 = i
      BY <1>n, <3>1, <3>2
    <3>4. PICK r : r = SubSeq(q, 1, p - 1) \o SubSeq(q, p + 1, Len(q))
      OBVIOUS
    <3>5. Without(r, q, p)
      BY <3>3, <3>4, RemoveAtIsWithout
    <3>6. q[p] = task /\ q[p - 1] = current
      BY <2>1, <3>1, <3>2, <3>3
    <3>7. /\ members' = members \ {q[p]} /\ next' = [next EXCEPT ![q[p - 1]] = next[q[p]]]
          /\ task_queue_tail' = (IF task_queue_tail # q[p] THEN task_queue_tail ELSE q[p - 1])
          /\ task_queue_head' = task_queue_head
      BY <2>6, <3>6
    <3>8. ListInv(r)'
      BY <1>q, <3>3, <3>5, <3>7, RemoveTakesOut
    <3>9. QueueStep(q, r)
      BY <3>3, <3>4, <3>7, Zenon DEF QueueStep
    <3> QED BY <2>0, <2>6, <3>5, <3>8, <3>9, IdleScan DEF Without
  <2> QED BY <1>3, <2>4, <2>5, <2>6 DEF remove_unlinks, Goto, queue
<1>4. CASE get_next_task
  <2>1. /\ UNCHANGED <<next, task_queue_head, task_queue_tail, members, best_task, disturbed>>
        /\ pc = "idle"
    BY <1>4 DEF get_next_task, queue, Goto
  <2>2. ListInv(q)'
    BY <1>q, <2>1, ListSame
  <2>3. CASE pc' = "returned" /\ task_queue_head = NULL /\ result' = NULL
    <3>1. Len(q) = 0
      <4>1. ASSUME Len(q) # 0 PROVE FALSE
        <5>1. 1 \in 1 .. Len(q)
          BY <1>n, <4>1
        <5> QED BY <1>n, <1>q, <2>3, <4>1, <5>1 DEF ListInv
      <4> QED BY <4>1
    <3>2. NoneReady(q, Len(q))'
      BY <3>1 DEF NoneReady
    <3>3. ReturnInv(q)'
      BY <2>3, <3>2 DEF ReturnInv, NULL
    <3>4. ScanInv(q)'
      BY <2>3, <3>3 DEF ScanInv, UnlinkInv, RoundRobinInv, HighestInv
    <3> QED BY <1>s, <2>1, <2>2, <3>4
  <2>4. CASE pc' = "round_robin" /\ task_queue_head # NULL /\ current' = task_queue_head
    <3>1. 1 \in 1 .. Len(q) /\ current' = q[1]
      BY <1>n, <1>q, <2>4 DEF ListInv
    <3>2. NoneReady(q, 1 - 1)'
      BY DEF NoneReady
    <3>3. RoundRobinInv(q)'
      BY <3>1, <3>2 DEF RoundRobinInv
    <3>4. ScanInv(q)'
      BY <1>b, <2>1, <2>4, <3>3 DEF ScanInv, UnlinkInv, HighestInv, ReturnInv, NULL
    <3> QED BY <1>s, <2>1, <2>2, <3>4
  <2> QED BY <1>4, <2>3, <2>4 DEF get_next_task, Goto, idle_task
<1>5. CASE get_next_round_robin_task
  <2>1. UNCHANGED <<next, task_queue_head, task_queue_tail, members>>
    BY <1>5 DEF get_next_round_robin_task, queue
  <2> QED BY <1>5, <1>q, <1>s, <2>1, ListSame, RoundRobinStep
<1>6. CASE Call_find_highest
  <2>1. /\ UNCHANGED <<next, task_queue_head, task_queue_tail, members, disturbed>>
        /\ pc' = "highest" /\ current' = task_queue_head /\ best_task' = NULL
    BY <1>6 DEF Call_find_highest, queue, Goto
  <2>2. ListInv(q)'
    BY <1>q, <2>1, ListSame
  <2>3. 0 \in 0 .. Len(q) /\ current' = IF 0 = Len(q) THEN NULL ELSE q[0 + 1]
    BY <1>n, <1>q, <2>1 DEF ListInv
  <2>4. NoneReady(q, 0)'
    BY DEF NoneReady
  <2>5. HighestInv(q)'
    BY <2>1, <2>3, <2>4 DEF HighestInv, NULL
  <2>6. ScanInv(q)'
    BY <2>1, <2>5 DEF ScanInv, UnlinkInv, RoundRobinInv, ReturnInv
  <2> QED BY <1>s, <2>1, <2>2, <2>6
<1>7. CASE find_highest_priority_task
  <2>1. UNCHANGED <<next, task_queue_head, task_queue_tail, members>>
    BY <1>7 DEF find_highest_priority_task, queue
  <2> QED BY <1>7, <1>q, <1>s, <2>1, ListSame, HighestStep
<1>8. CASE Return
  <2>1. /\ UNCHANGED <<next, task_queue_head, task_queue_tail, members>>
        /\ pc' = "idle" /\ best_task' = NULL
    BY <1>8 DEF Return, queue, Goto
  <2> QED BY <1>q, <1>s, <2>1, ListSame, IdleScan
<1>9. ASSUME pc' = "idle", pc = "idle", best_task' = best_task,
             UNCHANGED <<next, task_queue_head, task_queue_tail, members>>
      PROVE  \E r \in Seq(Tasks) : ListInv(r)' /\ ScanInv(r)' /\ QueueStep(q, r)
  BY <1>b, <1>q, <1>s, <1>9, ListSame, IdleScan
<1>10. ASSUME NEW t \in Tasks,
              \/ task_sleep(t) \/ task_wake(t)
              \/ \E p \in MIN_PRIORITY - 1 .. MAX_PRIORITY + 1 : set_task_priority(t, p)
       PROVE  \E r \in Seq(Tasks) : ListInv(r)' /\ ScanInv(r)' /\ QueueStep(q, r)
  <2>1. /\ UNCHANGED <<next, task_queue_head, task_queue_tail, members, best_task>>
        /\ pc = "idle" /\ pc' = "idle"
    BY <1>10 DEF task_sleep, task_wake, set_task_priority, queue, scan
  <2> QED BY <1>9, <2>1
<1>11. CASE schedule
  <2>1. UNCHANGED <<next, task_queue_head, task_queue_tail, members>>
    BY <1>11 DEF schedule, queue
  <2> QED BY <1>11, <1>q, <1>s, <2>1, ListSame, ScheduleStep
<1>12. CASE UNCHANGED vars
  <2>1. UNCHANGED <<next, task_queue_head, task_queue_tail, members, state, priority, pc, task,
                    current, best_task, result, disturbed>>
    BY <1>12 DEF vars, queue, scan
  <2>2. ScanInv(q)'
    BY <1>q, <2>1 DEF ScanInv, UnlinkInv, RoundRobinInv, HighestInv, ReturnInv, Tasks,
                      NoneReady, BestAmong, IsReady, Runnable, NULL
  <2> QED BY <1>q, <1>s, <2>1, <2>2, ListSame
<1>13. CASE Call
  BY <1>1, <1>2, <1>4, <1>6, <1>10, <1>13, Zenon DEF Call
<1>14. CASE Work
  BY <1>3, <1>5, <1>7, <1>8, <1>14, Zenon DEF Work
<1> QED BY <1>11, <1>12, <1>13, <1>14, Zenon DEF Next

-----------------------------------------------------------------------------
(* The ranks.                                                              *)

(* A step keeps every link leading to a lower rank: a task that is added   *)
(* has no link and gets the lowest rank, and a removal makes the link of   *)
(* the task before lead where it led in two steps.                         *)
LEMMA RankStep ==
  IInv /\ [Next]_vars => \E rank \in [Tasks -> Nat] : Ranked(rank)'
<1> SUFFICES ASSUME IInv, [Next]_vars PROVE \E rank \in [Tasks -> Nat] : Ranked(rank)'
  OBVIOUS
<1>1. PICK rank \in [Tasks -> Nat] : Ranked(rank)
  BY DEF IInv
<1>2. PICK q \in Seq(Tasks) : ListInv(q) /\ ScanInv(q)
  BY DEF IInv
<1>3. /\ next \in [Tasks -> Pointers] /\ task_queue_head \in Pointers
      /\ task_queue_tail \in Pointers
  BY DEF IInv, TypeOK
<1>4. \A u \in Tasks : next[u] # NULL => next[u] \in Tasks /\ rank[next[u]] < rank[u]
  BY <1>1, <1>3 DEF Ranked, Pointers
<1>5. ASSUME NEW t \in Tasks, add_task_to_scheduler(t)
      PROVE  \E f \in [Tasks -> Nat] : Ranked(f)'
  <2>1. PICK f : f = [u \in Tasks |-> IF u = t THEN 0 ELSE rank[u] + 1]
    OBVIOUS
  <2>2. /\ f \in [Tasks -> Nat] /\ f[t] = 0
        /\ \A u \in Tasks : u # t => f[u] = rank[u] + 1
    BY <2>1
  <2>3. /\ t \notin members
        /\ next' = IF task_queue_head = NULL
                   THEN [next EXCEPT ![t] = NULL]
                   ELSE [next EXCEPT ![t] = NULL, ![task_queue_tail] = t]
    BY <1>5 DEF add_task_to_scheduler
  <2>4. task_queue_head # NULL => task_queue_tail \in Tasks /\ task_queue_tail # t
    <3> SUFFICES ASSUME task_queue_head # NULL
                 PROVE  task_queue_tail \in Tasks /\ task_queue_tail # t
      OBVIOUS
    <3>0. Len(q) \in Nat /\ \A i \in 1 .. Len(q) : q[i] \in Tasks
      BY TaskAt
    <3>1. Len(q) # 0 /\ task_queue_tail = q[Len(q)] /\ members = {q[i] : i \in 1 .. Len(q)}
      BY <1>2 DEF ListInv
    <3>2. Len(q) \in 1 .. Len(q)
      BY <3>0, <3>1
    <3> QED BY <2>3, <3>0, <3>1, <3>2
  <2>5. ASSUME NEW u \in Tasks, next'[u] # NULL PROVE f[next'[u]] < f[u]
    <3>1. u # t
      <4>1. next'[t] = NULL
        <5>1. CASE task_queue_head = NULL
          BY <1>3, <2>3, <5>1
        <5>2. CASE task_queue_head # NULL
          BY <1>3, <2>3, <2>4, <5>2
        <5> QED BY <5>1, <5>2
      <4> QED BY <2>5, <4>1
    <3>2. next'[u] = t \/ next'[u] = next[u]
      <4>1. CASE task_queue_head = NULL
        BY <1>3, <2>3, <3>1, <4>1
      <4>2. CASE task_queue_head # NULL
        BY <1>3, <2>3, <2>4, <3>1, <4>2
      <4> QED BY <4>1, <4>2
    <3>3. f[u] = rank[u] + 1 /\ rank[u] \in Nat
      BY <2>2, <3>1
    <3>4. CASE next'[u] = t
      BY <2>2, <3>3, <3>4
    <3>5. CASE next'[u] = next[u] /\ next'[u] # t
      <4>1. PICK v : v = next[u]
        OBVIOUS
      <4>2. v \in Tasks /\ v # t /\ rank[v] < rank[u] /\ next'[u] = v
        BY <1>4, <2>5, <3>5, <4>1
      <4>3. f[v] = rank[v] + 1 /\ rank[v] \in Nat
        BY <2>2, <4>2
      <4> QED BY <3>3, <4>2, <4>3
    <3> QED BY <3>2, <3>4, <3>5
  <2>6. Ranked(f)'
    BY <2>5 DEF Ranked, NULL, Tasks
  <2> QED BY <2>2, <2>6
<1>6. ASSUME next' = next PROVE Ranked(rank)'
  BY <1>1, <1>6 DEF Ranked, NULL, Tasks
<1>7. CASE remove_unlinks
  <2>1. CASE next' = next
    BY <1>6, <2>1
  <2>2. CASE pc = "unlink" /\ next[current] = task /\ next' = [next EXCEPT ![current] = next[task]]
    <3>1. current \in Tasks /\ task \in Tasks
      BY <1>2, <2>2, CurrentIsTask DEF ScanInv, UnlinkInv
    <3>2. task # NULL
      BY <3>1, NullIsNoTask
    <3>3. rank[task] < rank[current]
      BY <1>4, <2>2, <3>1, <3>2
    <3>4. ASSUME NEW u \in Tasks, next'[u] # NULL PROVE rank[next'[u]] < rank[u]
      <4>1. CASE u # current
        BY <1>3, <1>4, <2>2, <3>4, <4>1
      <4>2. CASE u = current
        <5>1. PICK v : v = next[task]
          OBVIOUS
        <5>2. next'[u] = v
          BY <1>3, <2>2, <3>1, <4>2, <5>1
        <5>3. v \in Tasks /\ rank[v] < rank[task]
          BY <1>4, <3>1, <3>4, <5>1, <5>2
        <5>4. rank[v] \in Nat /\ rank[task] \in Nat /\ rank[current] \in Nat
          BY <3>1, <5>3
        <5> QED BY <3>3, <4>2, <5>2, <5>3, <5>4
      <4> QED BY <4>1, <4>2
    <3>5. Ranked(rank)'
      BY <3>4 DEF Ranked, NULL, Tasks
    <3> QED BY <3>5
  <2> QED BY <1>7, <2>1, <2>2 DEF remove_unlinks, Goto, queue
<1>8. ASSUME NEW t \in Tasks,
             \/ remove_task_from_scheduler(t) \/ task_sleep(t) \/ task_wake(t)
             \/ \E p \in MIN_PRIORITY - 1 .. MAX_PRIORITY + 1 : set_task_priority(t, p)
      PROVE  next' = next
  BY <1>8 DEF remove_task_from_scheduler, task_sleep, task_wake, set_task_priority, queue
<1>9. CASE get_next_task \/ Call_find_highest \/ schedule
  BY <1>6, <1>9 DEF get_next_task, Call_find_highest, schedule, queue
<1>10. CASE get_next_round_robin_task \/ find_highest_priority_task \/ Return
  BY <1>6, <1>10 DEF get_next_round_robin_task, find_highest_priority_task, Return, queue
<1>11. CASE UNCHANGED vars
  BY <1>6, <1>11 DEF vars, queue
<1>12. CASE Call
  BY <1>5, <1>6, <1>8, <1>9, <1>12, Zenon DEF Call
<1>13. CASE Work
  BY <1>7, <1>10, <1>13, Zenon DEF Work
<1> QED BY <1>9, <1>11, <1>12, <1>13, Zenon DEF Next

-----------------------------------------------------------------------------
(* The invariant.                                                          *)

(* Initially the queue is empty, and every task leads to the next one.     *)
LEMMA InitIInv == Init => IInv
<1> SUFFICES ASSUME Init PROVE IInv
  OBVIOUS
<1>1. TypeOK
  <2>1. /\ priority \in [Tasks -> MIN_PRIORITY .. MAX_PRIORITY]
        /\ time_slice \in MIN_TIME_SLICE .. MAX_TIME_SLICE
    BY SchedulerAssumption DEF Init, MIN_PRIORITY
  <2>2. next \in [Tasks -> Pointers] /\ state \in [Tasks -> States]
    BY DEF Init, Pointers, States
  <2> QED BY <2>1, <2>2 DEF Init, TypeOK, Pointers
<1>2. <<>> \in Seq(Tasks) /\ Len(<<>>) = 0
  BY EmptySeq
<1>3. ListInv(<<>>)
  BY <1>2 DEF Init, ListInv
<1>4. ScanInv(<<>>)
  BY DEF Init, ScanInv, UnlinkInv, RoundRobinInv, HighestInv, ReturnInv
<1>5. PICK rank : rank = [t \in Tasks |-> MAX_TASKS - t]
  OBVIOUS
<1>6. rank \in [Tasks -> Nat]
  BY <1>5, SchedulerAssumption DEF Tasks
<1>7. Ranked(rank)
  BY <1>5, SchedulerAssumption DEF Init, Ranked, Tasks, NULL
<1> QED BY <1>1, <1>2, <1>3, <1>4, <1>6, <1>7 DEF IInv

(* The inductive invariant of the run queue: at every step of every call   *)
(* the links lead along a queue of different tasks from the head to the    *)
(* tail, the scan in progress is on it, and no links form a cycle.         *)
THEOREM QueueInductive == Spec => []IInv
<1>1. ASSUME IInv, [Next]_vars PROVE IInv'
  <2>1. TypeOK'
    BY <1>1, TypeStep
  <2>2. PICK q \in Seq(Tasks) : ListInv(q) /\ ScanInv(q)
    BY <1>1 DEF IInv
  <2>3. \E r \in Seq(Tasks) : ListInv(r)' /\ ScanInv(r)'
    BY <1>1, <2>2, SequenceStep
  <2>4. \E rank \in [Tasks -> Nat] : Ranked(rank)'
    BY <1>1, RankStep
  <2> QED BY <2>1, <2>3, <2>4 DEF IInv, Tasks
<1> QED BY <1>1, InitIInv, PTL DEF Spec

(* A priority, and with it the time slice, stays in its range whatever     *)
(* set_task_priority() is given.                                           *)
THEOREM SchedulerTypeOK == Spec => []TypeOK
<1>1. IInv => TypeOK
  BY DEF IInv
<1> QED BY <1>1, QueueInductive, PTL

-----------------------------------------------------------------------------
(* Walks along the links.                                                  *)

Follows(f, t, n) ==
  /\ f \in [0 .. n -> Pointers] /\ f[0] = t
  /\ \A i \in 1 .. n : f[i] = IF f[i - 1] = NULL THEN NULL ELSE next[f[i - 1]]

(* There is a walk of every length from every task.                        *)
LEMMA WalkExists ==
  ASSUME TypeOK, NEW t \in Pointers, NEW n \in Nat
  PROVE  \E f : Follows(f, t, n)
<1>0. next \in [Tasks -> Pointers] /\ NULL \in Pointers
      /\ \A u \in Pointers : u # NULL => next[u] \in Pointers
  BY NullIsNoTask DEF TypeOK, Pointers
<1> SUFFICES ASSUME NEW T, T = {k \in Nat : ~\E f : Follows(f, t, k)}, T # {} PROVE FALSE
  OBVIOUS
<1>1. PICK m \in T : \A k \in T : m <= k
  BY LeastNatural
<1>2. m \in Nat
  BY <1>1
<1>3. CASE m = 0
  <2>1. PICK f : f = [i \in 0 .. m |-> t]
    OBVIOUS
  <2>2. Follows(f, t, m)
    BY <1>3, <2>1 DEF Follows
  <2> QED BY <1>1, <2>2
<1>4. CASE m # 0
  <2>1. PICK k : k = m - 1
    OBVIOUS
  <2>2. k \in Nat /\ m = k + 1 /\ k \notin T
    BY <1>1, <1>2, <1>4, <2>1
  <2>3. PICK f : Follows(f, t, k)
    BY <2>2
  <2>4. /\ f \in [0 .. k -> Pointers] /\ f[0] = t
        /\ \A i \in 1 .. k : f[i] = IF f[i - 1] = NULL THEN NULL ELSE next[f[i - 1]]
    BY <2>3 DEF Follows
  <2>5. PICK z : z = IF f[k] = NULL THEN NULL ELSE next[f[k]]
    OBVIOUS
  <2>6. z \in Pointers
    <3>1. f[k] \in Pointers
      BY <2>2, <2>4
    <3> QED BY <1>0, <2>5, <3>1
  <2>7. PICK g : g = [i \in 0 .. m |-> IF i = m THEN z ELSE f[i]]
    OBVIOUS
  <2>8. m \in 0 .. m /\ k \in 0 .. m /\ 0 \in 0 .. m /\ k # m /\ 0 # m
    BY <2>2
  <2>9. \A i \in 0 .. m : i # m => i \in 0 .. k /\ g[i] = f[i]
    BY <2>2, <2>7
  <2>10. g \in [0 .. m -> Pointers]
    BY <2>4, <2>6, <2>7, <2>9
  <2>11. g[0] = t /\ g[m] = z /\ g[k] = f[k]
    BY <2>4, <2>7, <2>8, <2>9
  <2>12. ASSUME NEW i \in 1 .. m PROVE g[i] = IF g[i - 1] = NULL THEN NULL ELSE next[g[i - 1]]
    <3>1. CASE i = m
      <4>1. i - 1 = k
        BY <2>2, <3>1
      <4> QED BY <2>5, <2>11, <3>1, <4>1
    <3>2. CASE i # m
      <4>1. i \in 1 .. k /\ i \in 0 .. m /\ i - 1 \in 0 .. m /\ i - 1 # m
        BY <2>2, <3>2
      <4> QED BY <2>4, <2>9, <3>2, <4>1
    <3> QED BY <3>1, <3>2
  <2>13. Follows(g, t, m)
    BY <2>10, <2>11, <2>12 DEF Follows
  <2> QED BY <1>1, <2>13
<1> QED BY <1>3, <1>4

(* Walk(t) follows the links.                                              *)
LEMMA WalkFollows ==
  ASSUME TypeOK, NEW t \in Pointers
  PROVE  Follows(Walk(t), t, MAX_TASKS)
<1>0. MAX_TASKS \in Nat
  BY SchedulerAssumption
<1>1. PICK f : Follows(f, t, MAX_TASKS)
  BY <1>0, WalkExists
<1> DEFINE Eq(g) == g = [i \in 0 .. MAX_TASKS |->
                          IF i = 0 THEN t
                          ELSE IF g[i - 1] = NULL THEN NULL ELSE next[g[i - 1]]]
<1>2. Eq(f)
  <2>1. f = [i \in 0 .. MAX_TASKS |-> f[i]]
    BY <1>1 DEF Follows
  <2>2. ASSUME NEW i \in 0 .. MAX_TASKS
        PROVE  f[i] = IF i = 0 THEN t ELSE IF f[i - 1] = NULL THEN NULL ELSE next[f[i - 1]]
    <3>1. i = 0 \/ i \in 1 .. MAX_TASKS
      BY <1>0
    <3> QED BY <1>1, <3>1 DEF Follows
  <2> QED BY <2>1, <2>2
<1>3. PICK w : w = Walk(t)
  OBVIOUS
<1>4. w = CHOOSE g : Eq(g)
  BY <1>3 DEF Walk
<1> HIDE DEF Eq
<1>5. Eq(w)
  BY <1>2, <1>4
<1>6. /\ w = [i \in 0 .. MAX_TASKS |-> w[i]]
      /\ \A i \in 0 .. MAX_TASKS :
           w[i] = IF i = 0 THEN t ELSE IF w[i - 1] = NULL THEN NULL ELSE next[w[i - 1]]
  BY <1>5 DEF Eq
<1>7. w[0] = t
  BY <1>0, <1>6
<1>8. \A i \in 1 .. MAX_TASKS : w[i] = IF w[i - 1] = NULL THEN NULL ELSE next[w[i - 1]]
  BY <1>0, <1>6
<1>9. f[0] = t
     /\ \A i \in 1 .. MAX_TASKS : f[i] = IF f[i - 1] = NULL THEN NULL ELSE next[f[i - 1]]
  BY <1>1 DEF Follows
<1>10. \A i \in 0 .. MAX_TASKS : w[i] = f[i]
  <2> SUFFICES ASSUME NEW T, T = {i \in 0 .. MAX_TASKS : w[i] # f[i]}, T # {} PROVE FALSE
    OBVIOUS
  <2>0. T \subseteq Nat
    BY <1>0
  <2>1. PICK m \in T : \A k \in T : m <= k
    BY <2>0, LeastNatural
  <2>2. m \in 1 .. MAX_TASKS
    BY <1>0, <1>7, <1>9, <2>1
  <2>3. w[m - 1] = f[m - 1]
    <3>1. m - 1 \in 0 .. MAX_TASKS /\ ~(m <= m - 1)
      BY <1>0, <2>2
    <3> QED BY <2>1, <3>1
  <2> QED BY <1>8, <1>9, <2>1, <2>2, <2>3
<1>11. w \in [0 .. MAX_TASKS -> Pointers]
  BY <1>1, <1>6, <1>10 DEF Follows
<1>12. Follows(w, t, MAX_TASKS)
  BY <1>7, <1>8, <1>11 DEF Follows
<1> QED BY <1>3, <1>12

(* Every step of a walk leads to a lower rank.                             *)
LEMMA WalkDescends ==
  ASSUME TypeOK, NEW rank \in [Tasks -> Nat], Ranked(rank), NEW t, NEW w,
         Follows(w, t, MAX_TASKS), NEW i \in 0 .. MAX_TASKS, NEW j \in i + 1 .. MAX_TASKS,
         w[j] # NULL
  PROVE  w[i] # NULL /\ rank[w[j]] < rank[w[i]]
<1>0. MAX_TASKS \in Nat
  BY SchedulerAssumption
<1>1. /\ \A k \in 0 .. MAX_TASKS : w[k] # NULL => w[k] \in Tasks /\ rank[w[k]] \in Nat
      /\ \A k \in 1 .. MAX_TASKS : w[k] = IF w[k - 1] = NULL THEN NULL ELSE next[w[k - 1]]
  BY DEF Follows, Pointers
<1>2. ASSUME NEW k \in 1 .. MAX_TASKS, w[k] # NULL
      PROVE  w[k - 1] # NULL /\ rank[w[k]] < rank[w[k - 1]]
  <2>1. k - 1 \in 0 .. MAX_TASKS
    BY <1>0
  <2>2. w[k - 1] # NULL /\ w[k] = next[w[k - 1]]
    BY <1>1, <1>2
  <2>3. w[k - 1] \in Tasks
    BY <1>1, <2>1, <2>2
  <2> QED BY <1>2, <2>2, <2>3 DEF Ranked
<1> SUFFICES ASSUME NEW T,
                    T = {k \in i + 1 .. MAX_TASKS :
                           w[k] # NULL /\ ~(w[i] # NULL /\ rank[w[k]] < rank[w[i]])},
                    T # {}
             PROVE  FALSE
  OBVIOUS
<1>3. T \subseteq Nat
  BY <1>0
<1>4. PICK m \in T : \A k \in T : m <= k
  BY <1>3, LeastNatural
<1>5. m \in i + 1 .. MAX_TASKS /\ w[m] # NULL /\ ~(w[i] # NULL /\ rank[w[m]] < rank[w[i]])
  BY <1>4
<1>6. PICK k : k = m - 1
  OBVIOUS
<1>7. m \in 1 .. MAX_TASKS /\ k \in 0 .. MAX_TASKS /\ ~(m <= k)
  BY <1>0, <1>5, <1>6
<1>8. w[k] # NULL /\ rank[w[m]] < rank[w[k]]
  BY <1>2, <1>5, <1>6, <1>7
<1>9. CASE k = i
  BY <1>5, <1>8, <1>9
<1>10. CASE k # i
  <2>1. k \in i + 1 .. MAX_TASKS /\ k \notin T
    BY <1>0, <1>4, <1>5, <1>6, <1>7, <1>10
  <2>2. w[i] # NULL /\ rank[w[k]] < rank[w[i]]
    BY <1>8, <2>1
  <2>3. rank[w[m]] \in Nat /\ rank[w[k]] \in Nat /\ rank[w[i]] \in Nat
    BY <1>0, <1>1, <1>5, <1>7, <1>8, <2>2
  <2> QED BY <1>5, <1>8, <2>2, <2>3
<1> QED BY <1>9, <1>10

(* There are MAX_TASKS tasks.                                              *)
LEMMA TasksCount == IsFiniteSet(Tasks) /\ Cardinality(Tasks) = MAX_TASKS
<1>1. 0 \in Int /\ MAX_TASKS - 1 \in Int
  BY SchedulerAssumption
<1>2. /\ IsFiniteSet(Tasks)
      /\ Cardinality(Tasks) = IF 0 > MAX_TASKS - 1 THEN 0 ELSE (MAX_TASKS - 1) - 0 + 1
  BY <1>1, FS_Interval DEF Tasks
<1> QED BY <1>2, SchedulerAssumption

(* The links never form a cycle: following them, as the walk of            *)
(* remove_task_from_scheduler() does, reaches NULL.                        *)
THEOREM ListsEnd == Spec => []LinksEnd
<1>1. ASSUME IInv PROVE LinksEnd
  <2>0. TypeOK /\ MAX_TASKS \in Nat
    BY <1>1, SchedulerAssumption DEF IInv
  <2>1. PICK rank \in [Tasks -> Nat] : Ranked(rank)
    BY <1>1 DEF IInv
  <2>2. ASSUME NEW t \in Tasks, Walk(t)[MAX_TASKS] # NULL PROVE FALSE
    <3>1. PICK w : w = Walk(t)
      OBVIOUS
    <3>2. Follows(w, t, MAX_TASKS)
      BY <2>0, <3>1, WalkFollows, NullIsNoTask
    <3>3. w[MAX_TASKS] # NULL
      BY <2>2, <3>1
    <3>4. \A i \in 0 .. MAX_TASKS : \A j \in i + 1 .. MAX_TASKS :
            w[j] # NULL => w[i] # NULL /\ rank[w[j]] < rank[w[i]]
      BY <2>0, <2>1, <3>2, WalkDescends
    <3>5. \A i \in 0 .. MAX_TASKS : w[i] # NULL
      <4> TAKE i \in 0 .. MAX_TASKS
      <4>1. i = MAX_TASKS \/ MAX_TASKS \in i + 1 .. MAX_TASKS
        BY <2>0
      <4> QED BY <3>3, <3>4, <4>1
    <3>6. w \in [0 .. MAX_TASKS -> Tasks]
      BY <3>2, <3>5 DEF Follows, Pointers
    <3>7. IsFiniteSet(Tasks) /\ Cardinality(Tasks) = MAX_TASKS
      BY TasksCount
    <3>8. IsFiniteSet(0 .. MAX_TASKS) /\ Cardinality(0 .. MAX_TASKS) = MAX_TASKS + 1
      <4>1. 0 \in Int /\ MAX_TASKS \in Int
        BY <2>0
      <4>2. /\ IsFiniteSet(0 .. MAX_TASKS)
            /\ Cardinality(0 .. MAX_TASKS) = IF 0 > MAX_TASKS THEN 0 ELSE MAX_TASKS - 0 + 1
        BY <4>1, FS_Interval
      <4> QED BY <4>2, SchedulerAssumption
    <3>9. Cardinality(Tasks) < Cardinality(0 .. MAX_TASKS)
      <4>1. MAX_TASKS < MAX_TASKS + 1
        BY <2>0
      <4> QED BY <3>7, <3>8, <4>1, Zenon
    <3>10. PICK x, y \in 0 .. MAX_TASKS : x # y /\ w[x] = w[y]
      <4>1. PICK D : D = 0 .. MAX_TASKS
        OBVIOUS
      <4>2. IsFiniteSet(D) /\ Cardinality(Tasks) < Cardinality(D) /\ w \in [D -> Tasks]
        BY <3>6, <3>8, <3>9, <4>1, Zenon
      <4>3. \E x, y \in D : x # y /\ w[x] = w[y]
        BY <3>7, <4>2, FS_PigeonHole
      <4> QED BY <4>1, <4>3, Zenon
    <3>11. rank[w[x]] \in Nat /\ rank[w[y]] \in Nat
      BY <3>6
    <3>12. x \in y + 1 .. MAX_TASKS \/ y \in x + 1 .. MAX_TASKS
      BY <2>0, <3>10
    <3> QED BY <3>4, <3>5, <3>10, <3>11, <3>12
  <2> QED BY <2>2 DEF LinksEnd
<1> QED BY <1>1, QueueInductive, PTL

-----------------------------------------------------------------------------
(* The queue the list stands for.                                          *)

(* A sequence of different tasks is no longer than the task table.         *)
LEMMA QueueFits ==
  ASSUME NEW q \in Seq(Tasks), ListInv(q)
  PROVE  Len(q) <= MAX_TASKS
<1>0. MAX_TASKS \in Nat /\ Len(q) \in Nat /\ q \in [1 .. Len(q) -> Tasks]
  BY TaskAt, SchedulerAssumption
<1>1. PICK n : n = Len(q)
  OBVIOUS
<1>2. IsFiniteSet(Tasks) /\ Cardinality(Tasks) = MAX_TASKS
  BY TasksCount
<1>3. IsFiniteSet(1 .. n) /\ Cardinality(1 .. n) = n
  <2>1. 1 \in Int /\ n \in Int
    BY <1>0, <1>1
  <2>2. /\ IsFiniteSet(1 .. n) /\ Cardinality(1 .. n) = IF 1 > n THEN 0 ELSE n - 1 + 1
    BY <2>1, FS_Interval
  <2> QED BY <1>0, <1>1, <2>2
<1>4. ASSUME MAX_TASKS < n PROVE FALSE
  <2>1. Cardinality(Tasks) < Cardinality(1 .. n)
    BY <1>2, <1>3, <1>4
  <2>2. q \in [1 .. n -> Tasks]
    BY <1>0, <1>1
  <2>3. PICK x, y \in 1 .. n : x # y /\ q[x] = q[y]
    BY <1>2, <1>3, <2>1, <2>2, FS_PigeonHole
  <2> QED BY <1>1, <2>3 DEF ListInv
<1> QED BY <1>0, <1>1, <1>4

(* QueueAsSeq is the sequence of the invariant.                            *)
LEMMA QueueIsSequence ==
  ASSUME TypeOK, NEW q \in Seq(Tasks), ListInv(q)
  PROVE  QueueAsSeq = q
<1>0. PICK n : n = Len(q)
  OBVIOUS
<1>1. /\ n \in Nat /\ MAX_TASKS \in Nat /\ n <= MAX_TASKS /\ q \in [1 .. n -> Tasks]
      /\ \A i \in 1 .. n : q[i] \in Tasks /\ q[i] # NULL
  BY <1>0, TaskAt, QueueFits, SchedulerAssumption
<1>2. /\ task_queue_head = IF n = 0 THEN NULL ELSE q[1]
      /\ \A i \in 1 .. n : next[q[i]] = IF i = n THEN NULL ELSE q[i + 1]
  BY <1>0 DEF ListInv
<1>3. PICK w : w = Walk(task_queue_head)
  OBVIOUS
<1>4. Follows(w, task_queue_head, MAX_TASKS)
  BY <1>3, WalkFollows DEF TypeOK
<1>5. /\ w[0] = task_queue_head
      /\ \A i \in 1 .. MAX_TASKS : w[i] = IF w[i - 1] = NULL THEN NULL ELSE next[w[i - 1]]
  BY <1>4 DEF Follows
<1>6. \A i \in 0 .. MAX_TASKS : w[i] = IF i < n THEN q[i + 1] ELSE NULL
  <2> SUFFICES ASSUME NEW T,
                      T = {i \in 0 .. MAX_TASKS : w[i] # IF i < n THEN q[i + 1] ELSE NULL},
                      T # {}
               PROVE  FALSE
    BY ZenonT(60)
  <2>0. T \subseteq Nat
    BY <1>1
  <2>1. PICK m \in T : \A k \in T : m <= k
    BY <2>0, LeastNatural
  <2>2. m \in 0 .. MAX_TASKS /\ w[m] # IF m < n THEN q[m + 1] ELSE NULL
    BY <2>1
  <2>3. CASE m = 0
    BY <1>1, <1>2, <1>5, <2>2, <2>3
  <2>4. CASE m # 0
    <3>1. PICK k : k = m - 1
      OBVIOUS
    <3>2. k \in 0 .. MAX_TASKS /\ m \in 1 .. MAX_TASKS /\ m = k + 1 /\ ~(m <= k)
      BY <1>1, <2>2, <2>4, <3>1
    <3>3. w[k] = IF k < n THEN q[k + 1] ELSE NULL
      BY <2>1, <3>2
    <3>4. w[m] = IF w[k] = NULL THEN NULL ELSE next[w[k]]
      BY <1>5, <3>1, <3>2
    <3>5. CASE k < n
      <4>1. m \in 1 .. n /\ w[k] = q[m]
        BY <1>1, <3>2, <3>3, <3>5
      <4>2. w[m] = IF m = n THEN NULL ELSE q[m + 1]
        BY <1>1, <1>2, <3>4, <4>1
      <4>3. m < n <=> m # n
        BY <1>1, <4>1
      <4> QED BY <2>2, <4>2, <4>3
    <3>6. CASE ~(k < n)
      <4>1. ~(m < n)
        BY <1>1, <3>2, <3>6
      <4> QED BY <2>2, <3>3, <3>4, <3>6, <4>1
    <3> QED BY <3>5, <3>6
  <2> QED BY <2>3, <2>4
<1>7. {j \in 0 .. MAX_TASKS : w[j] # NULL} = 0 .. n - 1
  <2>1. ASSUME NEW j \in 0 .. MAX_TASKS, w[j] # NULL PROVE j \in 0 .. n - 1
    BY <1>1, <1>6, <2>1
  <2>2. ASSUME NEW j \in 0 .. n - 1 PROVE j \in 0 .. MAX_TASKS /\ w[j] # NULL
    <3>1. j \in 0 .. MAX_TASKS /\ j < n /\ j + 1 \in 1 .. n
      BY <1>1
    <3> QED BY <1>1, <1>6, <3>1
  <2> QED BY <2>1, <2>2
<1>8. Cardinality(0 .. n - 1) = n
  <2>1. 0 \in Int /\ n - 1 \in Int
    BY <1>1
  <2>2. Cardinality(0 .. n - 1) = IF 0 > n - 1 THEN 0 ELSE (n - 1) - 0 + 1
    BY <2>1, FS_Interval
  <2> QED BY <1>1, <2>2
<1>9. QueueAsSeq = [i \in 1 .. n |-> w[i - 1]]
  BY <1>3, <1>7, <1>8, Zenon DEF QueueAsSeq
<1>10. \A i \in 1 .. n : w[i - 1] = q[i]
  <2> TAKE i \in 1 .. n
  <2>1. i - 1 \in 0 .. MAX_TASKS /\ i - 1 < n /\ (i - 1) + 1 = i
    BY <1>1
  <2> QED BY <1>6, <2>1
<1> QED BY <1>1, <1>9, <1>10

(* The same after a step.                                                  *)
LEMMA QueueIsSequenceAfter ==
  ASSUME NEW q \in Seq(Tasks)
  PROVE  (TypeOK /\ ListInv(q) => QueueAsSeq = q)'
<1>1. TypeOK /\ ListInv(q) => QueueAsSeq = q
  BY QueueIsSequence
<1> QED BY <1>1, PTL

(* What a scan returns is in the queue and runnable; when no interrupt     *)
(* fell into it, find_highest_priority_task() returns the first READY task *)
(* of the highest priority, get_next_task() the first READY task behind    *)
(* task_queue_head at every call (no round robin), and both NULL only when *)
(* there is none.                                                          *)
THEOREM ScansSelectFirst == Spec => []SelectsFirst
<1>1. ASSUME IInv, pc = "returned"
      PROVE  /\ result # NULL => result \in Queued /\ Runnable(result)
             /\ ~disturbed =>
                  \/ Ready = {} /\ result = NULL
                  \/ \E i \in Ready :
                       /\ result = QueueAsSeq[i]
                       /\ \A j \in Ready :
                            IF best_task = NULL THEN i <= j
                            ELSE /\ priority[result] <= priority[QueueAsSeq[j]]
                                 /\ j < i => priority[result] < priority[QueueAsSeq[j]]
  <2>1. PICK q \in Seq(Tasks) : ListInv(q) /\ ScanInv(q)
    BY <1>1 DEF IInv
  <2>2. QueueAsSeq = q
    BY <1>1, <2>1, QueueIsSequence DEF IInv
  <2>3. PICK n : n = Len(q)
    OBVIOUS
  <2>4. n \in Nat /\ DOMAIN q = 1 .. n
    BY <2>3, TaskAt
  <2>5. Ready = {i \in 1 .. n : IsReady(q[i])}
    BY <2>2, <2>4 DEF Ready, IsReady
  <2>6. Queued = members
    BY <2>1, <2>2, <2>3, <2>4 DEF Queued, ListInv
  <2>7. /\ result # NULL => result \in members /\ Runnable(result)
        /\ ~disturbed =>
             \/ result = NULL /\ NoneReady(q, n)
             \/ \E i \in 1 .. n :
                  /\ result = q[i] /\ IsReady(q[i])
                  /\ IF best_task = NULL THEN NoneReady(q, i - 1) ELSE BestAmong(q, n, i)
    BY <1>1, <2>1, <2>3 DEF ScanInv, ReturnInv
  <2>8. CASE result = NULL /\ NoneReady(q, n)
    <3>1. Ready = {}
      BY <2>5, <2>8 DEF NoneReady
    <3> QED BY <2>8, <3>1
  <2>9. ASSUME NEW i \in 1 .. n, result = q[i], IsReady(q[i]),
               IF best_task = NULL THEN NoneReady(q, i - 1) ELSE BestAmong(q, n, i)
        PROVE  \E k \in Ready :
                 /\ result = QueueAsSeq[k]
                 /\ \A j \in Ready :
                      IF best_task = NULL THEN k <= j
                      ELSE /\ priority[result] <= priority[QueueAsSeq[j]]
                           /\ j < k => priority[result] < priority[QueueAsSeq[j]]
    <3>1. i \in Ready /\ result = QueueAsSeq[i]
      BY <2>2, <2>5, <2>9
    <3>2. ASSUME NEW j \in Ready
          PROVE  IF best_task = NULL THEN i <= j
                 ELSE /\ priority[result] <= priority[QueueAsSeq[j]]
                      /\ j < i => priority[result] < priority[QueueAsSeq[j]]
      <4>1. j \in 1 .. n /\ IsReady(q[j])
        BY <2>5
      <4>2. CASE best_task = NULL
        <5>1. ASSUME ~(i <= j) PROVE FALSE
          <6>1. j \in 1 .. i - 1
            BY <2>4, <4>1, <5>1
          <6> QED BY <2>9, <4>1, <4>2, <6>1 DEF NoneReady
        <5> QED BY <4>2, <5>1
      <4>3. CASE best_task # NULL
        BY <2>2, <2>9, <4>1, <4>3 DEF BestAmong
      <4> QED BY <4>2, <4>3
    <3> QED BY <3>1, <3>2
  <2> QED BY <2>6, <2>7, <2>8, <2>9
<1>2. IInv => SelectsFirst
  BY <1>1 DEF SelectsFirst
<1> QED BY <1>2, QueueInductive, PTL

(* The linked list implements a queue: add_task_to_scheduler() appends and *)
(* remove_task_from_scheduler() takes out its task and no other, whatever  *)
(* the tail pointer and the links of tasks that left the queue are.        *)
THEOREM ListIsQueue == Spec => ImplementsQueue
<1>1. Init => Abstract!Init
  <2> SUFFICES ASSUME Init PROVE Abstract!Init
    OBVIOUS
  <2>1. TypeOK
    BY InitIInv DEF IInv
  <2>2. <<>> \in Seq(Tasks) /\ Len(<<>>) = 0
    BY EmptySeq
  <2>3. ListInv(<<>>)
    BY <2>2 DEF Init, ListInv
  <2>4. QueueAsSeq = <<>>
    BY <2>1, <2>2, <2>3, QueueIsSequence
  <2> QED BY <2>4 DEF Init, Abstract!Init
<1>2. ASSUME IInv, [Next]_vars PROVE [Abstract!Next]_<<QueueAsSeq, members>>
  <2>1. PICK q \in Seq(Tasks) : ListInv(q) /\ ScanInv(q)
    BY <1>2 DEF IInv
  <2>2. PICK r \in Seq(Tasks) : ListInv(r)' /\ QueueStep(q, r)
    BY <1>2, <2>1, SequenceStep
  <2>3. QueueAsSeq = q
    BY <1>2, <2>1, QueueIsSequence DEF IInv
  <2>4. QueueAsSeq' = r
    <3>1. TypeOK'
      BY <1>2, TypeStep
    <3> QED BY <2>2, <3>1, QueueIsSequenceAfter
  <2>5. DOMAIN q = 1 .. Len(q)
    BY TaskAt
  <2>6. CASE r = q /\ members' = members
    BY <2>3, <2>4, <2>6
  <2>7. ASSUME NEW t \in Tasks, t \notin members, members' = members \cup {t}, r = Append(q, t)
        PROVE  Abstract!Next
    <3>1. Abstract!Add(t)
      BY <2>3, <2>4, <2>7, Zenon DEF Abstract!Add
    <3> QED BY <3>1, Zenon DEF Abstract!Next
  <2>8. ASSUME NEW p \in 1 .. Len(q), members' = members \ {q[p]},
               r = SubSeq(q, 1, p - 1) \o SubSeq(q, p + 1, Len(q))
        PROVE  Abstract!Next
    <3>1. q[p] \in Tasks /\ q[p] \in members
      BY <2>1, TaskAt DEF ListInv
    <3>2. r = Abstract!RemoveAt(q, p)
      BY <2>8 DEF Abstract!RemoveAt
    <3>3. p \in DOMAIN QueueAsSeq /\ QueueAsSeq[p] = q[p]
          /\ QueueAsSeq' = Abstract!RemoveAt(QueueAsSeq, p)
      BY <2>3, <2>4, <2>5, <3>2, Zenon
    <3>4. Abstract!TakeOut(q[p])
      BY <2>8, <3>1, <3>3, Zenon DEF Abstract!TakeOut
    <3> QED BY <3>1, <3>4, Zenon DEF Abstract!Next
  <2> QED BY <2>2, <2>6, <2>7, <2>8, Zenon DEF QueueStep
<1> QED BY <1>1, <1>2, QueueInductive, PTL DEF Spec, ImplementsQueue, Abstract!Spec

-----------------------------------------------------------------------------
(* How long a call takes.                                                  *)

(* Where task t is in the sequence q, and how far the end is.              *)
Place(q, t)  == CHOOSE i \in 1 .. Len(q) : q[i] = t
Behind(q, t) == IF t = NULL THEN 0 ELSE Len(q) - Place(q, t) + 1

(* A bound on the steps that are left of a call that is at step p, with    *)
(* its loop at task t of the queue q.                                      *)
StepsAt(p, q, t) ==
  CASE p = "idle"     -> 0
    [] p = "returned" -> 1
    [] OTHER          -> 2 + Behind(q, t)

StepsLeft == StepsAt(pc, QueueAsSeq, current)

(* A call in progress has between 1 and 2 + MAX_TASKS steps left.          *)
BoundedSteps ==
  StepsLeft \in 0 .. 2 + MAX_TASKS /\ (StepsLeft = 0 <=> pc = "idle")

(* Its own steps use them up, and the timer interrupt gives none back.     *)
StepsFall ==
  (Work => StepsLeft' < StepsLeft) /\ (schedule => StepsLeft' = StepsLeft)

(* The bound at each step.                                                 *)
LEMMA StepsAre ==
  ASSUME NEW q, NEW t
  PROVE  /\ StepsAt("idle", q, t) = 0 /\ StepsAt("returned", q, t) = 1
         /\ \A p \in {"unlink", "round_robin", "highest"} :
              StepsAt(p, q, t) = 2 + Behind(q, t)
BY DEF StepsAt

(* What is behind a task of the queue, and behind its end.                 *)
LEMMA BehindIs ==
  ASSUME NEW q \in Seq(Tasks), ListInv(q)
  PROVE  /\ Behind(q, NULL) = 0
         /\ \A i \in 1 .. Len(q) : Behind(q, q[i]) = Len(q) - i + 1
<1>1. \A i, j \in 1 .. Len(q) : q[i] = q[j] => i = j
  BY DEF ListInv
<1>2. ASSUME NEW i \in 1 .. Len(q) PROVE Place(q, q[i]) = i
  BY <1>1, <1>2 DEF Place
<1> QED BY <1>2, TaskAt DEF Behind

(* A call that is at a task of the queue.                                  *)
LEMMA BehindCurrent ==
  ASSUME IInv
  PROVE  /\ pc \in {"idle", "unlink", "round_robin", "highest", "returned"}
         /\ pc \in {"unlink", "round_robin", "highest"} =>
              Behind(QueueAsSeq, current) \in 0 .. MAX_TASKS
         /\ pc \in {"unlink", "round_robin", "highest"} /\ current # NULL =>
              /\ Behind(QueueAsSeq, next[current]) \in Nat
              /\ Behind(QueueAsSeq, next[current]) < Behind(QueueAsSeq, current)
<1>1. PICK q \in Seq(Tasks) : ListInv(q) /\ ScanInv(q)
  BY DEF IInv
<1>2. QueueAsSeq = q /\ pc \in {"idle", "unlink", "round_robin", "highest", "returned"}
  BY <1>1, QueueIsSequence DEF IInv, TypeOK
<1>3. PICK n : n = Len(q)
  OBVIOUS
<1>4. n \in Nat /\ n <= MAX_TASKS /\ MAX_TASKS \in Nat
  BY <1>1, <1>3, TaskAt, QueueFits, SchedulerAssumption
<1>5. /\ Behind(q, NULL) = 0
      /\ \A i \in 1 .. n : /\ Behind(q, q[i]) = n - i + 1
                           /\ next[q[i]] = IF i = n THEN NULL ELSE q[i + 1]
  BY <1>1, <1>3, BehindIs DEF ListInv
<1> SUFFICES ASSUME pc \in {"unlink", "round_robin", "highest"}
             PROVE  /\ Behind(q, current) \in 0 .. MAX_TASKS
                    /\ current # NULL => /\ Behind(q, next[current]) \in Nat
                                         /\ Behind(q, next[current]) < Behind(q, current)
  BY <1>2
<1>6. current = NULL \/ \E i \in 1 .. n : current = q[i]
  <2>1. CASE pc \in {"unlink", "round_robin"}
    BY <1>1, <1>3, <2>1 DEF ScanInv, UnlinkInv, RoundRobinInv
  <2>2. CASE pc = "highest"
    <3>1. PICK m \in 0 .. n : current = IF m = n THEN NULL ELSE q[m + 1]
      BY <1>1, <1>3, <2>2 DEF ScanInv, HighestInv
    <3>2. m # n => m + 1 \in 1 .. n
      BY <1>4
    <3> QED BY <3>1, <3>2
  <2> QED BY <2>1, <2>2
<1>7. CASE current = NULL
  BY <1>4, <1>5, <1>7
<1>8. ASSUME NEW i \in 1 .. n, current = q[i]
      PROVE  /\ Behind(q, current) \in 0 .. MAX_TASKS
             /\ Behind(q, next[current]) \in Nat
             /\ Behind(q, next[current]) < Behind(q, current)
  <2>1. Behind(q, current) = n - i + 1
    BY <1>5, <1>8
  <2>2. CASE i = n
    BY <1>4, <1>5, <1>8, <2>1, <2>2
  <2>3. CASE i # n
    <3>1. i + 1 \in 1 .. n /\ next[current] = q[i + 1]
      BY <1>4, <1>5, <1>8, <2>3
    <3>2. Behind(q, next[current]) = n - (i + 1) + 1
      BY <1>5, <3>1
    <3> QED BY <1>4, <2>1, <3>2
  <2> QED BY <2>2, <2>3
<1> QED BY <1>6, <1>7, <1>8

(* However often the timer interrupt changes the states it looks at, a     *)
(* scan or a removal takes at most 2 + MAX_TASKS steps of its own: it      *)
(* follows the links, and schedule() writes none.                          *)
THEOREM ScansAreBounded == Spec => []BoundedSteps /\ [][StepsFall]_vars
<1>1. IInv => BoundedSteps
  BY BehindCurrent, StepsAre, SchedulerAssumption DEF BoundedSteps, StepsLeft
<1>2. IInv => StepsFall
  <2> SUFFICES ASSUME IInv PROVE StepsFall
    OBVIOUS
  <2>1. ASSUME UNCHANGED queue PROVE QueueAsSeq' = QueueAsSeq
    BY <2>1 DEF queue, QueueAsSeq, Walk
  <2>2. ASSUME schedule PROVE StepsLeft' = StepsLeft
    BY <2>1, <2>2 DEF schedule, scan, StepsLeft
  <2>3. ASSUME pc \in {"unlink", "round_robin", "highest"}, current # NULL, UNCHANGED queue,
               pc' = pc, current' = next[current]
        PROVE  StepsLeft' < StepsLeft
    <3>1. PICK q : q = QueueAsSeq
      OBVIOUS
    <3>2. Behind(q, current') < Behind(q, current) /\ Behind(q, current') \in Nat
          /\ Behind(q, current) \in Nat
      BY <2>3, <3>1, BehindCurrent, SchedulerAssumption
    <3>3. StepsLeft = 2 + Behind(q, current) /\ StepsLeft' = 2 + Behind(q, current')
      BY <2>1, <2>3, <3>1, StepsAre DEF StepsLeft
    <3> QED BY <3>2, <3>3
  <2>4. ASSUME pc \in {"unlink", "round_robin", "highest"}, pc' \in {"idle", "returned"}
        PROVE  StepsLeft' < StepsLeft
    BY <2>4, BehindCurrent, StepsAre, SchedulerAssumption DEF StepsLeft
  <2>5. ASSUME pc = "returned", pc' = "idle" PROVE StepsLeft' < StepsLeft
    BY <2>5, StepsAre DEF StepsLeft
  <2>6. ASSUME remove_unlinks PROVE StepsLeft' < StepsLeft
    <3>1. pc = "unlink" /\ current # NULL
      BY <2>6, CurrentIsTask, NullIsNoTask DEF remove_unlinks, Goto
    <3> QED BY <2>3, <2>4, <2>6, <3>1 DEF remove_unlinks, Goto
  <2>7. ASSUME get_next_round_robin_task PROVE StepsLeft' < StepsLeft
    <3>1. pc = "round_robin" /\ current # NULL /\ UNCHANGED queue
      BY <2>7, CurrentIsTask, NullIsNoTask DEF get_next_round_robin_task, Goto
    <3>2. \/ pc' = "returned"
          \/ pc' = "round_robin" /\ current' = next[current]
      BY <2>7 DEF get_next_round_robin_task, Goto
    <3> QED BY <2>3, <2>4, <3>1, <3>2
  <2>8. ASSUME find_highest_priority_task PROVE StepsLeft' < StepsLeft
    BY <2>3, <2>4, <2>8 DEF find_highest_priority_task, Goto
  <2>9. ASSUME Return PROVE StepsLeft' < StepsLeft
    BY <2>5, <2>9 DEF Return, Goto
  <2> QED BY <2>2, <2>6, <2>7, <2>8, <2>9 DEF StepsFall, Work
<1> QED BY <1>1, <1>2, QueueInductive, PTL DEF Spec
=============================================================================
