---------------------------- MODULE MCTaskRunner ----------------------------
(* An execution of five tasks for TLC. *)
EXTENDS TaskRunner

CONSTANTS k, m

Plain == [prompt |-> TRUE, hooks |-> FALSE, onFailure |-> FALSE, mustSet |-> {},
          gate |-> "none", key |-> k, jump |-> 0, maxGoto |-> 3,
          onMaxGoto |-> "fail", routes |-> {}]

(* The second waits for a signal that goes on or starts over; the third    *)
(* has a condition; the last two send it round again, one until a check    *)
(* has set k, and fail or go on when they did so too often.                *)
MCTasks ==
  << [Plain EXCEPT !.hooks = TRUE, !.onFailure = TRUE, !.mustSet = {m}],
     [Plain EXCEPT !.prompt = FALSE, !.routes = {0, 1}],
     [Plain EXCEPT !.hooks = TRUE, !.gate = "set", !.key = m],
     [Plain EXCEPT !.prompt = FALSE, !.gate = "unset", !.jump = 3, !.maxGoto = 1],
     [Plain EXCEPT !.gate = "set", !.key = m, !.jump = 3, !.maxGoto = 1,
                   !.onMaxGoto = "continue"] >>

MCHooks == {"before", "after", "onFailure"}

MCSkips == {{}, {3}}
=============================================================================
