------------------------------ MODULE RunQueue ------------------------------
(***************************************************************************)
(* What the run queue of scheduler.c promises: a queue of tasks, each in   *)
(* it at most once, that grows at its end and from which any task may be   *)
(* taken out.  members is what its clients know: the tasks they have put   *)
(* in and not taken out.                                                   *)
(***************************************************************************)
EXTENDS Sequences, SequencesExt

CONSTANT Tasks

VARIABLES queue, members

Init == queue = <<>> /\ members = {}

Add(t) ==
  /\ t \notin members
  /\ members' = members \cup {t}
  /\ queue' = Append(queue, t)

TakeOut(t) ==
  /\ t \in members
  /\ members' = members \ {t}
  /\ \E i \in DOMAIN queue : queue[i] = t /\ queue' = RemoveAt(queue, i)

Next == \E t \in Tasks : Add(t) \/ TakeOut(t)

Spec == Init /\ [][Next]_<<queue, members>>
=============================================================================
