--------------------------- MODULE ExecutionGraph ---------------------------
(***************************************************************************)
(* The static execution graph of a Propagate configuration and the pure    *)
(* operators the scheduler applies to a run plan: which executions an      *)
(* activation pulls in, which are runnable, which triggers match a signal. *)
(* A run plan maps every configured execution to its state; an execution   *)
(* absent from the program's dictionary is "inactive" here.                *)
(***************************************************************************)
EXTENDS Naturals, FiniteSets

CONSTANTS
  Exec,         \* names of the configured executions
  ConfigIndex,  \* their position in the configuration file
  Deps,         \* depends_on, as a function from Exec to sets of Exec
  Triggers,     \* the propagation triggers
  SignalType,   \* names of the configured signals
  Payload,      \* payloads a validated signal can carry
  NoType,       \* on_signal of a trigger that has none
  NoSignal      \* active_signal of a run started without a signal

(***************************************************************************)
(* A trigger without `when` has filtered = FALSE and when = Payload, the   *)
(* payloads it matches.  gate abstracts when_context: no condition, a key  *)
(* that must be set, or a key that must not be set.                        *)
(***************************************************************************)
Trigger == [after    : Exec,
            run      : Exec,
            onSignal : SignalType \cup {NoType},
            filtered : BOOLEAN,
            when     : SUBSET Payload,
            gate     : {"none", "set", "unset"}]

Signal == [type : SignalType, payload : Payload]

State == {"inactive", "pending", "in_progress", "completed"}

Plan == [Exec -> State]

(* x precedes y in the adjacency built from depends_on and the triggers. *)
Precedes(x, y) ==
  \/ x \in Deps[y]
  \/ \E t \in Triggers : t.after = x /\ t.run = y

(***************************************************************************)
(* Configuration loading rejects cyclic graphs: equivalently, every        *)
(* non-empty set of executions has one with no predecessor in the set.     *)
(***************************************************************************)
Acyclic ==
  \A S \in SUBSET Exec :
    S # {} => \E y \in S : \A x \in S : ~ Precedes(x, y)

ASSUME GraphAssumption ==
  /\ IsFiniteSet(Exec)
  /\ ConfigIndex \in [Exec -> Nat]
  /\ Deps \in [Exec -> SUBSET Exec]
  /\ Triggers \subseteq Trigger
  /\ \A t \in Triggers : ~ t.filtered => t.when = Payload
  /\ \A t \in Triggers : t.filtered => t.onSignal # NoType
  /\ NoType \notin SignalType
  /\ NoSignal \notin Signal
  /\ Acyclic

-----------------------------------------------------------------------------

Completed(plan) == {e \in Exec : plan[e] = "completed"}

Active(plan) == {e \in Exec : plan[e] # "inactive"}

Nothing == [e \in Exec |-> "inactive"]

DepClosed(C) == \A e \in C : Deps[e] \subseteq C

(* The executions the recursion over depends_on reaches from each one. *)
Needs ==
  [e \in Exec |-> {x \in Exec : \A C \in SUBSET Exec : e \in C /\ DepClosed(C) => x \in C}]

DepClosure(S) == UNION {Needs[e] : e \in S}

\* Mutant: activate an execution without the executions it depends on.
ActivateAlone(plan, S) ==
  [e \in Exec |-> IF e \in S /\ plan[e] = "inactive" THEN "pending" ELSE plan[e]]

Activate(plan, S) ==
  [e \in Exec |->
     IF e \in DepClosure(S) /\ plan[e] = "inactive" THEN "pending" ELSE plan[e]]

\* Mutant: a runnable execution need only have its dependencies active.
RunnableOnceDepsActive(plan, skip) ==
  {e \in Exec \ skip :
     plan[e] \in {"pending", "in_progress"} /\ Deps[e] \subseteq Active(plan)}

Runnable(plan, skip) ==
  {e \in Exec \ skip :
     plan[e] \in {"pending", "in_progress"} /\ Deps[e] \subseteq Completed(plan)}

(* The first runnable execution in configuration order. *)
IsNext(e, plan, skip) ==
  /\ e \in Runnable(plan, skip)
  /\ \A f \in Runnable(plan, skip) : ConfigIndex[e] <= ConfigIndex[f]

DependsOnSkipped(e, skip) == DepClosure(Deps[e]) \cap skip # {}

\* Mutant: look at direct dependencies only.
BlockedByDirectSkip(plan, skip) ==
  \A e \in Active(plan) \ Completed(plan) : e \in skip \/ Deps[e] \cap skip # {}

AllBlockedBySkip(plan, skip) ==
  \A e \in Active(plan) \ Completed(plan) : e \in skip \/ DependsOnSkipped(e, skip)

-----------------------------------------------------------------------------
(* activated_triggers and reconciled_triggers identify a trigger by these. *)
Key(t) == <<t.after, t.onSignal, t.run>>

TriggerKey == Exec \X (SignalType \cup {NoType}) \X Exec

(* when_context, given the executions whose gating context key is set. *)
GateOpen(t, keys) ==
  CASE t.gate = "none"  -> TRUE
    [] t.gate = "set"   -> t.after \in keys
    [] t.gate = "unset" -> t.after \notin keys

Matches(t, sig) ==
  t.onSignal # NoType => /\ sig # NoSignal
                         /\ sig.type = t.onSignal
                         /\ sig.payload \in t.when

(* Triggers that follow the completed executions `afters` and fire. *)
Fired(afters, sig, plan, activated, keys) ==
  {t \in Triggers : /\ t.after \in afters
                    /\ Key(t) \notin activated
                    /\ GateOpen(t, keys)
                    /\ Matches(t, sig)
                    /\ plan[t.run] = "inactive"}

Targets(F) == {t.run : t \in F}

(***************************************************************************)
(* The keys recorded when the triggers F of several completed executions   *)
(* are visited one execution after another, in an order Python's set       *)
(* iteration leaves open: a trigger whose target an earlier visit already  *)
(* activated is passed over without being recorded.                        *)
(***************************************************************************)
RecordedKeys(F) ==
  LET afters == {t.after : t \in F}
      Earlier(visit, t) == {u \in F : visit[u.after] < visit[t.after]}
  IN  { {Key(t) : t \in {u \in F : u.run \notin DepClosure(Targets(Earlier(visit, u)))}} :
        visit \in {v \in [afters -> 1 .. Cardinality(afters)] :
                     \A a, b \in afters : v[a] = v[b] => a = b} }

(* Signal types for which a completed execution has an unsatisfied trigger. *)
PendingTypes(plan, received) ==
  {t.onSignal : t \in {u \in Triggers : /\ u.onSignal # NoType
                                        /\ u.after \in Completed(plan)
                                        /\ plan[u.run] = "inactive"
                                        /\ u.filtered \/ u.onSignal \notin received}}

-----------------------------------------------------------------------------
(* Promises a plan keeps. *)

(* Everything active has its dependencies active. *)
PlanClosed(plan) == DepClosed(Active(plan))

(* Nothing starts before what it depends on has completed. *)
DepsFirst(plan) ==
  \A e \in Exec :
    plan[e] \in {"in_progress", "completed"} => Deps[e] \subseteq Completed(plan)

(* An unconditional trigger of a completed execution has been followed. *)
TriggersFollowed(plan) ==
  \A t \in Triggers :
    t.onSignal = NoType /\ t.gate = "none" /\ plan[t.after] = "completed"
      => plan[t.run] # "inactive"
=============================================================================
