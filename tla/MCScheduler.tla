---------------------------- MODULE MCScheduler ----------------------------
(* A configuration of four executions for TLC. *)
EXTENDS Scheduler

CONSTANTS a, b, c, d, S, T, E, p, q

MCExec == {a, b, c, d}
MCConfigIndex == [e \in MCExec |-> CASE e = a -> 0 [] e = b -> 1 [] e = c -> 2 [] e = d -> 3]
MCDeps == [e \in MCExec |-> IF e = c THEN {b} ELSE IF e = d THEN {c} ELSE {}]

Edge(x, y, gate) ==
  [after |-> x, run |-> y, onSignal |-> NoType, filtered |-> FALSE,
   when |-> Payload, gate |-> gate]
OnAny(x, y, type, gate) ==
  [after |-> x, run |-> y, onSignal |-> type, filtered |-> FALSE,
   when |-> Payload, gate |-> gate]
OnMatch(x, y, type, when, gate) ==
  [after |-> x, run |-> y, onSignal |-> type, filtered |-> TRUE,
   when |-> when, gate |-> gate]

(* c (and so b) follows a; d, which needs c, follows one of three signals. *)
MCTriggers ==
  {Edge(a, c, "none"), OnAny(a, d, S, "none"), OnMatch(c, d, S, {p}, "set"),
   OnAny(b, d, T, "unset")}

(* No two triggers share a signal type. *)
MCDistinctTriggers ==
  {Edge(a, b, "unset"), OnAny(a, d, S, "unset"), OnMatch(b, c, T, {p}, "set")}

(* Two triggers share a signal type and differ in the payload they want. *)
MCSharedTriggers == {OnMatch(a, b, T, {p}, "none"), OnMatch(a, d, T, {q}, "none")}

MCNoDeps == [e \in MCExec |-> {}]

Entry == {[type |-> E, payload |-> x] : x \in Payload}
MCEntryFor == [m \in Signal |-> IF m \in Entry THEN {a} ELSE {}]
MCStarts == {<<a, NoSignal>>, <<a, [type |-> E, payload |-> p]>>}
MCTaskWaits == [e \in MCExec |-> IF e = c THEN {[type |-> T, payload |-> q]} ELSE {}]
MCMessages == {[type |-> S, payload |-> p], [type |-> T, payload |-> p],
               [type |-> T, payload |-> q], [type |-> E, payload |-> p], Malformed}

Serve == [serve |-> TRUE, skip |-> {}, stopAfter |-> NoExec]
RunSkipping(s) == [serve |-> FALSE, skip |-> s, stopAfter |-> NoExec]
RunUntil(e) == [serve |-> FALSE, skip |-> {}, stopAfter |-> e]
MCOptions == {Serve, RunSkipping({b}), RunUntil(b)}
MCLiveOptions == {Serve, RunSkipping({b})}
=============================================================================
