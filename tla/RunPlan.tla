------------------------------- MODULE RunPlan -------------------------------
(***************************************************************************)
(* What the state file promises about a run, whatever signals, crashes,    *)
(* interrupts and resumes the run meets: executions only move forward, one *)
(* completes at a time and never before what it depends on, and what a     *)
(* completed execution triggers is never missing.  Only a new run, a       *)
(* forced resume and `clear` set the plan back.                            *)
(***************************************************************************)
EXTENDS ExecutionGraph

VARIABLE saved   \* the plan in the state file; all inactive if there is none

Rank == [inactive |-> 0, pending |-> 1, in_progress |-> 2, completed |-> 3]

Grows(p, q) == \A e \in Exec : Rank[p[e]] <= Rank[q[e]]

Sound(plan) == PlanClosed(plan) /\ DepsFirst(plan) /\ TriggersFollowed(plan)

Init == saved = Nothing

Begin == \E e \in Exec : saved' = Activate(Nothing, {e})

Advance ==
  /\ saved # Nothing
  /\ saved' \in Plan
  /\ Grows(saved, saved')
  /\ Sound(saved')
  /\ \E e \in Exec : Completed(saved') \subseteq Completed(saved) \cup {e}

(* The target is the only execution in progress, and as it has not         *)
(* completed, nothing that depends on it has.                              *)
Force(target) ==
  /\ saved # Nothing
  /\ saved' \in Plan
  /\ \A e \in Exec : saved'[e] = "in_progress" <=> e = target
  /\ Sound(saved')

Clear == saved' = Nothing

Next == Begin \/ Advance \/ (\E e \in Exec : Force(e)) \/ Clear

Spec == Init /\ [][Next]_saved
=============================================================================
