--------------------------- MODULE SchedulerProofs ---------------------------
(***************************************************************************)
(* What holds of the schedule for every configuration, every number of     *)
(* runs, messages and stops.                                               *)
(***************************************************************************)
EXTENDS Scheduler, TLAPS

-----------------------------------------------------------------------------
(* Activation, triggers and acyclicity, for every configuration. *)

(* Needs[e] is the least closed set with e: what the recursion reaches.    *)
LEMMA NeedsSelf ==
  \A e \in Exec : e \in Needs[e] /\ Needs[e] \subseteq Exec
BY DEF Needs

(* What an execution needs is closed under dependencies.                   *)
LEMMA NeedsClosed ==
  \A e \in Exec : DepClosed(Needs[e])
<1> SUFFICES ASSUME NEW e \in Exec, NEW x \in Needs[e], NEW y \in Deps[x]
             PROVE  y \in Needs[e]
  BY DEF DepClosed
<1>1. x \in Exec /\ y \in Exec
  BY GraphAssumption DEF Needs
<1>2. ASSUME NEW C \in SUBSET Exec, e \in C, DepClosed(C)
      PROVE  y \in C
  <2>1. x \in C
    BY <1>2 DEF Needs
  <2> QED
    BY <2>1, <1>2 DEF DepClosed
<1> QED
  BY <1>1, <1>2 DEF Needs

(* It is within every closed set that holds the execution.                 *)
LEMMA NeedsLeast ==
  ASSUME NEW C \in SUBSET Exec, NEW e \in C, DepClosed(C)
  PROVE  Needs[e] \subseteq C
BY DEF Needs

(* A dependency closure holds its seeds and is closed.                     *)
LEMMA ClosureFacts ==
  ASSUME NEW S \in SUBSET Exec
  PROVE  /\ S \subseteq DepClosure(S)
         /\ DepClosure(S) \subseteq Exec
         /\ DepClosed(DepClosure(S))
<1>1. S \subseteq DepClosure(S) /\ DepClosure(S) \subseteq Exec
  BY NeedsSelf DEF DepClosure
<1>2. DepClosed(DepClosure(S))
  BY NeedsClosed DEF DepClosure, DepClosed
<1> QED
  BY <1>1, <1>2

(* It is the least such set.                                               *)
LEMMA ClosureLeast ==
  ASSUME NEW C \in SUBSET Exec, NEW S \in SUBSET C, DepClosed(C)
  PROVE  DepClosure(S) \subseteq C
BY NeedsLeast DEF DepClosure

-----------------------------------------------------------------------------
(* An activation completes and starts nothing; it adds the closure.        *)
LEMMA ActivateFacts ==
  ASSUME NEW given \in Plan, NEW S \in SUBSET Exec
  PROVE  /\ Activate(given, S) \in Plan
         /\ Active(Activate(given, S)) = Active(given) \cup DepClosure(S)
         /\ Completed(Activate(given, S)) = Completed(given)
         /\ \A e \in Exec : Activate(given, S)[e] = "in_progress" <=> given[e] = "in_progress"
<1> DEFINE next == Activate(given, S)
<1>1. \A e \in Exec :
        next[e] = IF e \in DepClosure(S) /\ given[e] = "inactive" THEN "pending" ELSE given[e]
  BY DEF Activate
<1>2. next \in Plan
  BY DEF Activate, Plan, State
<1>3. Active(next) = Active(given) \cup DepClosure(S)
  BY <1>1, ClosureFacts DEF Active
<1>4. Completed(next) = Completed(given)
  BY <1>1 DEF Completed
<1>5. \A e \in Exec : next[e] = "in_progress" <=> given[e] = "in_progress"
  BY <1>1
<1> QED
  BY <1>2, <1>3, <1>4, <1>5

(* Activation keeps the three promises of a plan. *)
LEMMA ActivateKeeps ==
  ASSUME NEW given \in Plan, NEW S \in SUBSET Exec
  PROVE  /\ PlanClosed(given) => PlanClosed(Activate(given, S))
         /\ DepsFirst(given) => DepsFirst(Activate(given, S))
         /\ TriggersFollowed(given) => TriggersFollowed(Activate(given, S))
<1> DEFINE next == Activate(given, S)
<1>1. /\ next \in Plan
      /\ Active(next) = Active(given) \cup DepClosure(S)
      /\ Completed(next) = Completed(given)
      /\ \A e \in Exec : next[e] = "in_progress" <=> given[e] = "in_progress"
  BY ActivateFacts
<1> HIDE DEF next
<1>2. PlanClosed(given) => PlanClosed(next)
  BY <1>1, ClosureFacts DEF PlanClosed, DepClosed
<1>3. \A e \in Exec : next[e] = "completed" <=> given[e] = "completed"
  BY <1>1 DEF Completed
<1>4. DepsFirst(given) => DepsFirst(next)
  BY <1>1, <1>3 DEF DepsFirst
<1>5. \A e \in Exec : given[e] # "inactive" => next[e] # "inactive"
  BY <1>1 DEF Active
<1>6. TriggersFollowed(given) => TriggersFollowed(next)
  BY <1>3, <1>5, GraphAssumption DEF TriggersFollowed, Trigger
<1> QED
  BY <1>2, <1>4, <1>6 DEF next

(* Fired triggers are triggers of the graph, their targets executions.     *)
LEMMA FiredFacts ==
  ASSUME NEW afters, NEW sig, NEW given, NEW marks, NEW present
  PROVE  /\ Fired(afters, sig, given, marks, present) \subseteq Triggers
         /\ Targets(Fired(afters, sig, given, marks, present)) \subseteq Exec
BY GraphAssumption DEF Fired, Targets, Trigger

(* Only triggers that fired are recorded, so what is recorded is a key and *)
(* names an execution that was activated.                                  *)
LEMMA RecordedFacts ==
  ASSUME NEW F \in SUBSET Triggers, NEW recorded \in RecordedKeys(F)
  PROVE  /\ recorded \subseteq TriggerKey
         /\ \A k \in recorded : k[3] \in Targets(F)
<1>1. recorded \subseteq {Key(t) : t \in F}
  <2> DEFINE afters == {t.after : t \in F}
             Earlier(visit, t) == {u \in F : visit[u.after] < visit[t.after]}
             Recorded(visit) ==
               {u \in F : u.run \notin DepClosure(Targets(Earlier(visit, u)))}
             Visits == {v \in [afters -> 1 .. Cardinality(afters)] :
                          \A a, b \in afters : v[a] = v[b] => a = b}
  <2>1. recorded \in {{Key(t) : t \in Recorded(visit)} : visit \in Visits}
    BY Zenon DEF RecordedKeys
  <2>2. \A visit : Recorded(visit) \subseteq F
    OBVIOUS
  <2> HIDE DEF Recorded, Visits
  <2> QED
    BY <2>1, <2>2
<1>2. \A t \in F : Key(t) \in TriggerKey /\ Key(t)[3] = t.run
  BY GraphAssumption DEF Key, TriggerKey, Trigger
<1> QED
  BY <1>1, <1>2 DEF Targets

(* An unconditional trigger fires as soon as its execution has completed,  *)
(* unless it has been recorded or its target is active.                    *)
LEMMA UnconditionalFires ==
  ASSUME NEW t \in Triggers, t.onSignal = NoType, t.gate = "none",
         NEW afters, NEW sig, NEW given, NEW marks, NEW present,
         t.after \in afters, Key(t) \notin marks, given[t.run] = "inactive"
  PROVE  t.run \in Targets(Fired(afters, sig, given, marks, present))
<1>1. GateOpen(t, present) /\ Matches(t, sig)
  BY DEF GateOpen, Matches
<1> QED
  BY <1>1 DEF Fired, Targets

-----------------------------------------------------------------------------
(* An execution needs no more than itself and what its dependencies need.  *)
LEMMA NeedsSplit ==
  ASSUME NEW e \in Exec
  PROVE  Needs[e] \subseteq {e} \cup DepClosure(Deps[e])
<1>1. Deps[e] \in SUBSET Exec
  BY GraphAssumption
<1> DEFINE C == {e} \cup DepClosure(Deps[e])
<1>2. C \in SUBSET Exec /\ DepClosed(C)
  BY <1>1, ClosureFacts DEF DepClosed
<1> HIDE DEF C
<1>3. e \in C
  BY DEF C
<1>4. Needs[e] \subseteq C
  BY <1>2, <1>3, NeedsLeast
<1> QED
  BY <1>4 DEF C

(* If nothing is runnable, --skip is the reason: follow what an unskipped  *)
(* remaining execution needs down to one that needs nothing unfinished;    *)
(* there is one because the graph is acyclic.                              *)
LEMMA NothingRunnable ==
  ASSUME NEW given \in Plan, NEW skip, PlanClosed(given), Runnable(given, skip) = {}
  PROVE  AllBlockedBySkip(given, skip)
<1> SUFFICES ASSUME NEW e \in Active(given) \ Completed(given),
                    e \notin skip, ~ DependsOnSkipped(e, skip)
             PROVE  FALSE
  BY DEF AllBlockedBySkip
<1>1. e \in Exec
  BY DEF Active
<1> DEFINE R == {x \in Needs[e] : x \notin Completed(given)}
<1>2. R \in SUBSET Exec /\ e \in R
  BY <1>1, NeedsSelf
<1>3. PICK y \in R : \A x \in R : ~ Precedes(x, y)
  BY <1>2, GraphAssumption DEF Acyclic
<1>4. Deps[y] \subseteq Completed(given)
  <2> SUFFICES ASSUME NEW x \in Deps[y] PROVE x \in Completed(given)
    OBVIOUS
  <2>1. x \in Needs[e]
    BY <1>1, <1>3, NeedsClosed DEF DepClosed
  <2> QED
    BY <2>1, <1>3 DEF Precedes
<1>5. y \in Active(given)
  <2>1. Active(given) \in SUBSET Exec
    BY DEF Active
  <2>2. Needs[e] \subseteq Active(given)
    BY <2>1, NeedsLeast DEF PlanClosed
  <2> QED
    BY <2>2
<1>6. y \notin skip
  BY <1>1, NeedsSplit DEF DependsOnSkipped
<1>7. given[y] \in {"pending", "in_progress"}
  BY <1>2, <1>3, <1>5 DEF Active, Completed, Plan, State
<1> QED
  BY <1>2, <1>3, <1>4, <1>6, <1>7 DEF Runnable

-----------------------------------------------------------------------------
(* The schedule. *)

(* The empty plan is a plan.                                               *)
LEMMA NothingTypes == Nothing \in Plan
BY DEF Nothing, Plan, State

(* A new process has well-typed options and socket.                        *)
LEMMA LaunchTypes ==
  ASSUME TypeOK, Launch
  PROVE  opts' \in Options /\ inbox' \in Seq(Messages) /\ nested' = 0
<1>1. CASE opts' \in Options /\ inbox' = <<>>
  BY <1>1 DEF Launch
<1>2. CASE UNCHANGED <<opts, inbox>>
  BY <1>2 DEF TypeOK, Launch
<1> QED
  BY <1>1, <1>2 DEF Launch

(* The key of a trigger has its type.                                      *)
LEMMA TriggerTypes ==
  \A t \in Triggers : /\ Key(t) \in TriggerKey
                      /\ t.filtered => t.onSignal \in SignalType
<1>1. \A t \in Triggers : Key(t) \in TriggerKey
  BY GraphAssumption DEF Key, TriggerKey, Trigger
<1>2. \A t \in Triggers : t.onSignal \in SignalType \cup {NoType}
  BY GraphAssumption DEF Trigger
<1> QED
  BY <1>1, <1>2, GraphAssumption

(* So has a message taken off the socket, and what it leaves there.        *)
LEMMA HeadTypes ==
  ASSUME TypeOK, inbox # <<>>
  PROVE  Head(inbox) \in Messages /\ Tail(inbox) \in Seq(Messages)
BY DEF TypeOK

(* A full save is a state file that holds what was saved.                  *)
LEMMA SavedTypes ==
  ASSUME NEW p \in Plan, NEW a \in SUBSET TriggerKey, NEW r \in SUBSET SignalType,
         NEW s \in Signal \cup {NoSignal}
  PROVE  /\ Saved(p, a, r, s) \in Snapshot /\ Saved(p, a, r, s) # NoState
         /\ Saved(p, a, r, s).plan = p /\ Saved(p, a, r, s).activated = a
BY SchedulerAssumption DEF Saved, Snapshot

(* A save of progress is one that holds the plan in memory.                *)
LEMMA SavedPlanTypes ==
  ASSUME TypeOK, disk # NoState
  PROVE  /\ SavedPlan \in Snapshot /\ SavedPlan # NoState
         /\ SavedPlan.plan = plan /\ SavedPlan.activated = activated
BY SchedulerAssumption DEF TypeOK, SavedPlan, Snapshot

(* A message processed activates executions and records their triggers.    *)
LEMMA ProcessFacts ==
  ASSUME TypeOK, NEW m \in Messages, Process(m)
  PROVE  /\ \E S \in SUBSET Exec, R \in SUBSET TriggerKey :
              /\ plan' = Activate(plan, S)
              /\ activated' = activated \cup R
              /\ \A k \in R : k[3] \in S
         /\ received' \subseteq SignalType
         /\ queued' \in Seq(Signal)
<1>1. CASE ForTriggers(m)
  <2> DEFINE fired == Fired(Completed(plan), m, plan, activated, keys)
  <2>1. PICK recorded \in RecordedKeys(fired) :
          plan' = Activate(plan, Targets(fired)) /\ activated' = activated \cup recorded
    BY <1>1 DEF Process
  <2>2. fired \subseteq Triggers /\ Targets(fired) \in SUBSET Exec
    BY FiredFacts
  <2>3. recorded \in SUBSET TriggerKey /\ \A k \in recorded : k[3] \in Targets(fired)
    BY <2>2, RecordedFacts
  <2>4. received' \subseteq SignalType
    BY <1>1 DEF Process, ForTriggers, Signal, TypeOK
  <2>5. queued' \in Seq(Signal)
    BY <1>1 DEF Process, TypeOK
  <2> HIDE DEF fired
  <2> QED
    BY <2>1, <2>2, <2>3, <2>4, <2>5
<1>2. CASE ~ ForTriggers(m)
  <2>1. plan' = plan /\ activated' = activated /\ received' = received
    BY <1>2 DEF Process
  <2>2. queued' \in Seq(Signal)
    <3>1. CASE m \in Signal /\ queued' = Append(queued, m)
      BY <3>1 DEF TypeOK
    <3>2. CASE queued' = queued
      BY <3>2 DEF TypeOK
    <3> QED
      BY <1>2, <3>1, <3>2 DEF Process
  <2>3. plan' = Activate(plan, {})
    BY <2>1 DEF Activate, DepClosure, TypeOK, Plan
  <2>4. activated' = activated \cup {} /\ received' \subseteq SignalType
    BY <2>1 DEF TypeOK
  <2>5. {} \in SUBSET Exec /\ {} \in SUBSET TriggerKey /\ \A k \in {} : k[3] \in {}
    OBVIOUS
  <2> QED
    BY <2>2, <2>3, <2>4, <2>5, Zenon
<1> QED
  BY <1>1, <1>2

(* Completing an execution: `next` is the plan, `recorded` what is added to *)
(* the triggers.                                                            *)
LEMMA CompleteFacts ==
  ASSUME TypeOK, Complete
  PROVE  \E S \in SUBSET Exec, R \in SUBSET TriggerKey :
           LET done == [plan EXCEPT ![current] = "completed"]
               fired == Fired({current}, taskSignal, done, activated, keys)
           IN  /\ S = Targets(fired)
               /\ \A k \in R : k[3] \in S
               /\ disk' = Saved(Activate(done, S), activated \cup R, received, taskSignal)
               /\ \/ pc' = "finished" /\ Forget
                  \/ /\ pc' = "drain"
                     /\ plan' = Activate(done, S)
                     /\ activated' = activated \cup R
                     /\ active' = taskSignal
                     /\ current' = NoExec /\ taskSignal' = NoSignal
                     /\ UNCHANGED <<nested, started, received, reconciled, awaited>>
<1> DEFINE done == [plan EXCEPT ![current] = "completed"]
           fired == Fired({current}, taskSignal, done, activated, keys)
<1>1. PICK recorded \in RecordedKeys(fired) :
           /\ disk' = Completion(done, Activate(done, Targets(fired)), recorded)
           /\ IF current = opts.stopAfter
              THEN /\ pc' = "finished"
                   /\ Forget
              ELSE /\ pc' = "drain"
                   /\ plan' = Activate(done, Targets(fired))
                   /\ activated' = activated \cup recorded
                   /\ active' = taskSignal
                   /\ current' = NoExec /\ taskSignal' = NoSignal
                   /\ UNCHANGED <<nested, started, received, reconciled, awaited>>
  BY Zenon DEF Complete
<1>2. fired \subseteq Triggers /\ Targets(fired) \in SUBSET Exec
  BY FiredFacts
<1>3. recorded \in SUBSET TriggerKey /\ \A k \in recorded : k[3] \in Targets(fired)
  BY <1>2, RecordedFacts
<1> HIDE DEF fired, done
<1> SUFFICES \E S \in SUBSET Exec, R \in SUBSET TriggerKey :
               /\ S = Targets(fired)
               /\ \A k \in R : k[3] \in S
               /\ disk' = Saved(Activate(done, S), activated \cup R, received, taskSignal)
               /\ \/ pc' = "finished" /\ Forget
                  \/ /\ pc' = "drain"
                     /\ plan' = Activate(done, S)
                     /\ activated' = activated \cup R
                     /\ active' = taskSignal
                     /\ current' = NoExec /\ taskSignal' = NoSignal
                     /\ UNCHANGED <<nested, started, received, reconciled, awaited>>
  BY DEF fired, done
<1>4. Targets(fired) \in SUBSET Exec /\ recorded \in SUBSET TriggerKey
  BY <1>2, <1>3
<1> QED
  BY <1>1, <1>3, <1>4, Zenon DEF Completion

-----------------------------------------------------------------------------
(* The steps of the run loop keep the types.                               *)
LEMMA SchedulingTypes == ASSUME TypeOK, Scheduling PROVE TypeOK'
<1> USE DEF TypeOK, Location, Down, process, memory, running, bounds
<1>1. CASE SaveFresh
  BY <1>1, SavedTypes DEF SaveFresh
<1>2. CASE SaveResumed
  BY <1>2, SavedTypes DEF SaveResumed
<1>3. CASE DrainOne
  <2>1. Head(inbox) \in Messages /\ inbox' \in Seq(Messages)
    BY <1>3, HeadTypes DEF DrainOne
  <2>2. plan' \in Plan /\ activated' \subseteq TriggerKey
    BY <1>3, <2>1, ProcessFacts, ActivateFacts DEF DrainOne
  <2>3. received' \subseteq SignalType /\ queued' \in Seq(Signal)
    BY <1>3, <2>1, ProcessFacts DEF DrainOne
  <2>4. active' \in Signal \cup {NoSignal}
    BY <1>3 DEF DrainOne, ActiveAfter, ForTriggers
  <2> QED
    BY <1>3, <2>1, <2>2, <2>3, <2>4 DEF DrainOne
<1>4. CASE DrainDone
  BY <1>4 DEF DrainDone
<1>5. ASSUME NEW e \in Exec, Select(e) PROVE TypeOK'
  <2>1. disk' \in Snapshot /\ disk' # NoState
    BY <1>5, SavedPlanTypes DEF Select, Down
  <2>2. plan' \in Plan
    BY <1>5 DEF Select, Plan, State
  <2> QED
    BY <1>5, <2>1, <2>2 DEF Select
<1>6. ASSUME NEW passed \in SUBSET Reconcilable, NEW payload \in [passed -> Payload],
             Reconcile(passed, payload)
      PROVE  TypeOK'
  <2>1. \A t \in passed : t.onSignal \in SignalType /\ Key(t) \in TriggerKey
    BY TriggerTypes DEF Reconcilable
  <2>2. plan' \in Plan
    BY <1>6 DEF Reconcile, Activate, Plan, State
  <2> QED
    BY <1>6, <2>1, <2>2 DEF Reconcile, Remembering, Idle
<1>7. CASE BeginWait
  <2>1. PendingTypes(plan, received) \subseteq SignalType
    BY GraphAssumption DEF PendingTypes, Trigger
  <2> QED
    BY <1>7, <2>1 DEF BeginWait, Idle
<1>8. CASE WaitReceives
  <2>1. Head(inbox) \in Messages /\ inbox' \in Seq(Messages)
    BY <1>8, HeadTypes DEF WaitReceives
  <2>2. plan' \in Plan /\ activated' \subseteq TriggerKey
    BY <1>8, <2>1, ProcessFacts, ActivateFacts DEF WaitReceives
  <2>3. received' \subseteq SignalType /\ queued' \in Seq(Signal)
    BY <1>8, <2>1, ProcessFacts DEF WaitReceives
  <2>4. active' \in Signal \cup {NoSignal}
    BY <1>8 DEF WaitReceives, ActiveAfter, ForTriggers
  <2>5. pc' \in {pc, "drain"} /\ awaited' \subseteq SignalType
    BY <1>8 DEF WaitReceives
  <2> QED
    BY <1>8, <2>1, <2>2, <2>3, <2>4, <2>5 DEF WaitReceives
<1>9. CASE Finish
  BY <1>9, NothingTypes DEF Finish, Forget
<1> QED
  BY <1>1, <1>2, <1>3, <1>4, <1>5, <1>6, <1>7, <1>8, <1>9 DEF Scheduling

(* So do the steps of an execution in progress.                            *)
LEMMA RunningTypes == ASSUME TypeOK, Running PROVE TypeOK'
<1> USE DEF TypeOK, Location, Down, process, memory, running, bounds
<1>1. CASE SaveProgress
  BY <1>1, SavedTypes DEF SaveProgress
<1>2. CASE TaskReceives
  <2>1. Tail(inbox) \in Seq(Messages)
    BY <1>2, HeadTypes DEF TaskReceives
  <2>2. Head(inbox) \in TaskWaits[current] => Head(inbox) \in Signal
    BY <1>2, SchedulerAssumption DEF TaskReceives
  <2>3. /\ Saved(plan, activated, received, active) \in Snapshot
        /\ Saved(plan, activated, received, active) # NoState
    BY SavedTypes
  <2> QED
    BY <1>2, <2>1, <2>2, <2>3 DEF TaskReceives
<1>3. CASE TaskSavesContext
  BY <1>3, SavedTypes DEF TaskSavesContext
<1>4. CASE Complete
  <2>1. PICK S \in SUBSET Exec, R \in SUBSET TriggerKey :
          LET done == [plan EXCEPT ![current] = "completed"]
          IN  /\ disk' = Saved(Activate(done, S), activated \cup R, received, taskSignal)
              /\ \/ pc' = "finished" /\ Forget
                 \/ /\ pc' = "drain"
                    /\ plan' = Activate(done, S)
                    /\ activated' = activated \cup R
                    /\ active' = taskSignal
                    /\ current' = NoExec /\ taskSignal' = NoSignal
                    /\ UNCHANGED <<nested, started, received, reconciled, awaited>>
    BY <1>4, CompleteFacts
  <2> DEFINE done == [plan EXCEPT ![current] = "completed"]
             next == Activate(done, S)
  <2>2. done \in Plan
    BY DEF Plan, State
  <2>3. next \in Plan
    BY <2>2, ActivateFacts
  <2>4. disk' \in Snapshot /\ disk' # NoState
    BY <2>1, <2>3, SavedTypes
  <2>5. current \in Exec /\ ran' \subseteq Exec
    BY <1>4 DEF Complete
  <2> HIDE DEF next
  <2>6. CASE pc' = "finished" /\ Forget
    BY <1>4, <2>4, <2>5, <2>6, NothingTypes DEF Complete, Forget
  <2>7. CASE ~ (pc' = "finished" /\ Forget)
    BY <1>4, <2>1, <2>3, <2>4, <2>5, <2>7 DEF Complete, next
  <2> QED
    BY <2>6, <2>7
<1>5. ASSUME NEW e \in Exec, WriteKey(e) PROVE TypeOK'
  BY <1>5 DEF WriteKey
<1> QED
  BY <1>1, <1>2, <1>3, <1>4, <1>5 DEF Running

(* So do the steps around a run.                                           *)
LEMMA EnvironmentTypes == ASSUME TypeOK, Environment PROVE TypeOK'
<1> USE DEF TypeOK, Location, Down, Stop, process, memory, running, bounds
<1>1. ASSUME NEW e \in Exec, NEW sig \in Signal \cup {NoSignal}, StartFresh(e, sig)
      PROVE  TypeOK'
  <2>1. plan' \in Plan
    BY <1>1, NothingTypes, ActivateFacts DEF StartFresh
  <2>2. received' \subseteq SignalType
    BY <1>1 DEF StartFresh, TypeOf, Signal
  <2>3. opts' \in Options /\ inbox' \in Seq(Messages) /\ nested' = 0
    BY <1>1, LaunchTypes DEF StartFresh
  <2> QED
    BY <1>1, <2>1, <2>2, <2>3 DEF StartFresh
<1>2. CASE Resume
  <2>1. opts' \in Options /\ inbox' \in Seq(Messages) /\ nested' = 0
    BY <1>2, LaunchTypes DEF Resume
  <2> QED
    BY <1>2, <2>1 DEF Resume, LoadState, LoadedPlan, TypeOf, Signal, Snapshot
<1>3. ASSUME NEW e \in Exec, ForceResume(e) PROVE TypeOK'
  <2> DEFINE forced == ForcedPlan(e)
             fired == Fired(Completed(forced), NoSignal, forced, {}, keys)
  <2>1. PICK recorded \in RecordedKeys(fired) :
          disk' = Saved(Activate(forced, Targets(fired)), recorded,
                        disk.received, disk.active)
    BY <1>3 DEF ForceResume
  <2>2. forced \in Plan
    BY DEF ForcedPlan, Plan, State
  <2>3. fired \subseteq Triggers /\ Targets(fired) \in SUBSET Exec
    BY FiredFacts
  <2>4. recorded \in SUBSET TriggerKey
    BY <2>3, RecordedFacts
  <2> HIDE DEF forced, fired
  <2>5. Activate(forced, Targets(fired)) \in Plan
    BY <2>2, <2>3, ActivateFacts
  <2>6. disk.received \in SUBSET SignalType /\ disk.active \in Signal \cup {NoSignal}
    BY <1>3 DEF ForceResume, Snapshot
  <2>7. disk' \in Snapshot
    BY <2>1, <2>4, <2>5, <2>6, SavedTypes
  <2> QED
    BY <1>3, <2>7 DEF ForceResume
<1>4. CASE Clear
  BY <1>4 DEF Clear
<1>5. ASSUME NEW m \in Messages, Send(m) PROVE TypeOK'
  <2>1. inbox' \in Seq(Messages)
    BY <1>5 DEF Send
  <2> QED
    BY <1>5, <2>1 DEF Send
<1>6. CASE Crash
  BY <1>6, NothingTypes DEF Crash, Forget
<1>7. CASE Fail
  BY <1>7, NothingTypes DEF Fail, Forget
<1>8. CASE Interrupt
  <2>1. CASE nested = 1
    BY <1>8, <2>1, NothingTypes DEF Interrupt, Forget
  <2>2. CASE nested # 1
    BY <1>8, <2>2 DEF Interrupt
  <2> QED
    BY <2>1, <2>2
<1>9. CASE RerunInMemory
  <2>1. disk' \in Snapshot /\ disk' # NoState
    BY <1>9, SavedPlanTypes DEF RerunInMemory, Down
  <2> QED
    BY <1>9, <2>1 DEF RerunInMemory, TypeOf, Signal, Snapshot
<1>10. CASE DropWhileInterrupted
  <2>1. inbox' \in Seq(Messages)
    BY <1>10, HeadTypes DEF DropWhileInterrupted
  <2> QED
    BY <1>10, <2>1 DEF DropWhileInterrupted
<1>11. CASE ResumeFromDisk
  BY <1>11 DEF ResumeFromDisk, LoadState, LoadedPlan, TypeOf, Signal, Snapshot
<1>12. CASE Abort
  BY <1>12, NothingTypes DEF Abort, Forget
<1> QED
  BY <1>1, <1>2, <1>3, <1>4, <1>5, <1>6, <1>7, <1>8, <1>9, <1>10, <1>11, <1>12
  DEF Environment

(* The memory and the state file keep their types, so that whatever a      *)
(* resume loads is a plan over the configured executions (scheduler.py,    *)
(* run_state.py).                                                          *)
THEOREM TypeCorrect == Spec => []TypeOK
<1>1. Init => TypeOK
  BY NothingTypes DEF Init, TypeOK, Location, Down
<1>2. TypeOK /\ UNCHANGED vars => TypeOK'
  BY DEF TypeOK, Down, vars, process, memory, running, bounds
<1>3. TypeOK /\ [Next]_vars => TypeOK'
  BY <1>2, SchedulingTypes, RunningTypes, EnvironmentTypes DEF Next
<1> QED
  BY <1>1, <1>3, PTL DEF Spec
-----------------------------------------------------------------------------
(* The promises of a plan, with the triggers recorded for it.              *)
Sane(p, a) ==
  /\ PlanClosed(p) /\ DepsFirst(p) /\ TriggersFollowed(p)
  /\ \A k \in a : k[3] \in Active(p)

(* The empty plan is sane.                                                 *)
LEMMA SaneNothing == Sane(Nothing, {})
<1>1. Active(Nothing) = {} /\ \A e \in Exec : Nothing[e] = "inactive"
  BY DEF Nothing, Active
<1>2. \A t \in Triggers : Nothing[t.after] = "inactive"
  BY <1>1, GraphAssumption DEF Trigger
<1> QED
  BY <1>1, <1>2 DEF Sane, PlanClosed, DepClosed, DepsFirst, TriggersFollowed

(* Activating executions, and recording triggers to them, keeps a plan sane. *)
LEMMA SaneActivate ==
  ASSUME NEW p \in Plan, NEW a, Sane(p, a), NEW S \in SUBSET Exec, NEW R,
         \A k \in R : k[3] \in S
  PROVE  Sane(Activate(p, S), a \cup R)
<1>1. Active(Activate(p, S)) = Active(p) \cup DepClosure(S) /\ S \subseteq DepClosure(S)
  BY ActivateFacts, ClosureFacts
<1>2. \A k \in a \cup R : k[3] \in Active(Activate(p, S))
  BY <1>1 DEF Sane
<1> QED
  BY <1>2, ActivateKeeps DEF Sane

(* A runnable execution is started.                                        *)
LEMMA SaneStart ==
  ASSUME NEW p \in Plan, NEW a, Sane(p, a), NEW skip, NEW e \in Runnable(p, skip)
  PROVE  /\ Sane([p EXCEPT ![e] = "in_progress"], a)
         /\ Completed([p EXCEPT ![e] = "in_progress"]) = Completed(p)
<1> DEFINE q == [p EXCEPT ![e] = "in_progress"]
<1>1. e \in Exec /\ p[e] \in {"pending", "in_progress"} /\ Deps[e] \subseteq Completed(p)
  BY DEF Runnable
<1>2. Active(q) = Active(p) /\ Completed(q) = Completed(p)
  BY <1>1 DEF Active, Completed, Plan
<1>3. DepsFirst(q)
  BY <1>1, <1>2 DEF DepsFirst, Sane, Plan
<1>4. TriggersFollowed(q)
  BY <1>1, GraphAssumption DEF TriggersFollowed, Sane, Plan, Trigger
<1> QED
  BY <1>2, <1>3, <1>4 DEF Sane, PlanClosed

(* S is what execution c triggers when it completes, R keys of these.      *)
FollowedBy(p, a, c, sig, ks, S, R) ==
  /\ S = Targets(Fired({c}, sig, [p EXCEPT ![c] = "completed"], a, ks))
  /\ \A k \in R : k[3] \in S

(* The plan when c has completed and S has been activated.                 *)
PlanAfter(p, c, S) == Activate([p EXCEPT ![c] = "completed"], S)

(* An execution in progress completes and its triggers are followed.       *)
LEMMA SaneComplete ==
  ASSUME NEW p \in Plan, NEW a, Sane(p, a), NEW c \in Exec, p[c] = "in_progress",
         NEW sig, NEW ks, NEW S \in SUBSET Exec, NEW R,
         FollowedBy(p, a, c, sig, ks, S, R)
  PROVE  /\ Sane(PlanAfter(p, c, S), a \cup R)
         /\ Completed(PlanAfter(p, c, S)) = Completed(p) \cup {c}
<1> DEFINE done == [p EXCEPT ![c] = "completed"]
           next == Activate(done, S)
<1>0. S = Targets(Fired({c}, sig, done, a, ks)) /\ \A k \in R : k[3] \in S
  BY DEF FollowedBy
<1>1. done \in Plan
  BY DEF Plan, State
<1>2. Active(done) = Active(p) /\ Completed(done) = Completed(p) \cup {c}
  BY DEF Active, Completed, Plan
<1>3. PlanClosed(done) /\ \A k \in a : k[3] \in Active(done)
  BY <1>2 DEF Sane, PlanClosed
<1>4. DepsFirst(done)
  BY <1>2 DEF DepsFirst, Sane, Plan
<1> HIDE DEF done
<1>5. /\ next \in Plan
      /\ Active(next) = Active(done) \cup DepClosure(S)
      /\ Completed(next) = Completed(done)
      /\ S \subseteq DepClosure(S)
  BY <1>1, ActivateFacts, ClosureFacts
<1>6. PlanClosed(next) /\ DepsFirst(next)
  BY <1>1, <1>3, <1>4, ActivateKeeps
<1>7. \A k \in a \cup R : k[3] \in Active(next)
  BY <1>0, <1>3, <1>5
<1>8. ASSUME NEW t \in Triggers, t.onSignal = NoType, t.gate = "none",
             next[t.after] = "completed"
      PROVE  next[t.run] # "inactive"
  <2> HIDE DEF next
  <2>1. t.after \in Exec /\ t.run \in Exec
    BY GraphAssumption DEF Trigger
  <2>2. t.after \in Completed(p) \cup {c}
    BY <1>2, <1>5, <1>8, <2>1 DEF Completed
  <2>3. CASE t.after \in Completed(p)
    BY <1>2, <1>5, <1>8, <2>1, <2>3 DEF Sane, TriggersFollowed, Completed, Active
  <2>4. CASE t.after = c /\ done[t.run] # "inactive"
    BY <1>5, <2>1, <2>4 DEF Active
  <2>5. CASE t.after = c /\ done[t.run] = "inactive"
    <3>1. Key(t) \notin a
      <4>1. Key(t)[3] = t.run
        BY DEF Key
      <4>2. t.run \notin Active(done)
        BY <2>5 DEF Active
      <4> QED
        BY <1>3, <4>1, <4>2
    <3>2. t.run \in S
      <4>1. t.after \in {c}
        BY <2>5
      <4>2. t.run \in Targets(Fired({c}, sig, done, a, ks))
        <5>1. /\ t \in Triggers /\ t.onSignal = NoType /\ t.gate = "none"
              /\ Key(t) \notin a /\ done[t.run] = "inactive"
          BY <1>8, <2>5, <3>1
        <5> QED
          BY <4>1, <5>1, UnconditionalFires
      <4> QED
        BY <1>0, <4>2
    <3> QED
      BY <1>5, <3>2, <2>1 DEF Active
  <2> QED
    BY <2>2, <2>3, <2>4, <2>5
<1>9. TriggersFollowed(next)
  BY <1>8 DEF TriggersFollowed
<1> QED
  BY <1>2, <1>5, <1>6, <1>7, <1>9 DEF Sane, done, PlanAfter
-----------------------------------------------------------------------------
(* What a forced resume marks as completed comes before its target.  U is  *)
(* all that precedes the target and V all that it precedes, the target     *)
(* included; a member of U that needs the target would close a cycle       *)
(* within their intersection.                                              *)
Before(target) == DepClosure({target} \cup TriggerPredecessors[target])

BackClosed(C) == \A x, y \in Exec : y \in C /\ Precedes(x, y) => x \in C

ForthClosed(C) == \A x, y \in Exec : x \in C /\ Precedes(x, y) => y \in C

(* No execution is before one that precedes it.                            *)
LEMMA NoCycle ==
  ASSUME NEW target \in Exec, NEW e \in Exec, Precedes(target, e),
         \A C \in SUBSET Exec : target \in C /\ BackClosed(C) => e \in C
  PROVE  FALSE
<1> DEFINE U == {x \in Exec : \A C \in SUBSET Exec : target \in C /\ BackClosed(C) => x \in C}
           V == {x \in Exec : \A C \in SUBSET Exec : target \in C /\ ForthClosed(C) => x \in C}
<1>1. target \in U /\ BackClosed(U) /\ U \in SUBSET Exec
  BY DEF BackClosed
<1>2. target \in V /\ ForthClosed(V) /\ V \in SUBSET Exec
  BY DEF ForthClosed
<1>3. \A C \in SUBSET Exec : target \in C /\ BackClosed(C) => U \subseteq C
  OBVIOUS
<1>4. \A C \in SUBSET Exec : target \in C /\ ForthClosed(C) => V \subseteq C
  OBVIOUS
<1>5. e \in U
  OBVIOUS
<1> HIDE DEF U, V
<1>6. e \in V
  BY <1>2 DEF ForthClosed
<1>7. PICK y \in U \cap V : \A x \in U \cap V : ~ Precedes(x, y)
  <2>1. U \cap V \in SUBSET Exec /\ U \cap V # {}
    BY <1>1, <1>2
  <2> QED
    BY <2>1, GraphAssumption DEF Acyclic
<1>8. CASE y # target
  <2>1. \A x \in V : x \in Exec => ~ Precedes(x, y)
    BY <1>1, <1>2, <1>7 DEF BackClosed
  <2>2. ForthClosed(V \ {y})
    BY <1>2, <2>1 DEF ForthClosed
  <2>3. V \ {y} \in SUBSET Exec /\ target \in V \ {y}
    BY <1>2, <1>8
  <2> QED
    BY <1>4, <1>7, <2>2, <2>3
<1>9. CASE y = target
  <2>1. e # target
    BY <1>7, <1>9
  <2> DEFINE W == (U \ V) \cup {target}
  <2>2. BackClosed(W)
    BY <1>1, <1>2, <1>7, <1>9 DEF BackClosed, ForthClosed
  <2>3. W \in SUBSET Exec /\ target \in W
    BY <1>1
  <2> QED
    BY <1>3, <1>5, <1>6, <2>1, <2>2, <2>3
<1> QED
  BY <1>8, <1>9

(* The executions before a target are closed and do not depend on it.      *)
LEMMA BeforeFacts ==
  ASSUME NEW target \in Exec
  PROVE  /\ Before(target) \in SUBSET Exec /\ target \in Before(target)
         /\ DepClosed(Before(target))
         /\ \A e \in Before(target) : target \notin Deps[e]
<1> DEFINE S == {target} \cup TriggerPredecessors[target]
<1>1. S \in SUBSET Exec
  BY DEF TriggerPredecessors
<1>2. /\ Before(target) \in SUBSET Exec /\ S \subseteq Before(target)
      /\ DepClosed(Before(target))
  BY <1>1, ClosureFacts DEF Before
<1>3. ASSUME NEW C \in SUBSET Exec, target \in C, BackClosed(C)
      PROVE  Before(target) \subseteq C
  <2>1. DepClosed(C)
    BY <1>3, GraphAssumption DEF BackClosed, Precedes, DepClosed
  <2>2. WalksBack(C)
    BY <1>3, GraphAssumption DEF BackClosed, Precedes, WalksBack, Trigger
  <2>3. S \subseteq C
    BY <1>3, <2>2 DEF TriggerPredecessors
  <2> QED
    BY <2>1, <2>3, ClosureLeast DEF Before
<1>4. ASSUME NEW e \in Before(target), target \in Deps[e] PROVE FALSE
  BY <1>2, <1>3, <1>4, NoCycle DEF Precedes
<1> QED
  BY <1>2, <1>4

(* The plan a forced resume writes is sane.                                *)
LEMMA SaneForced ==
  ASSUME NEW target \in Exec, NEW ks, NEW fired, NEW recorded \in RecordedKeys(fired),
         fired = Fired(Completed(ForcedPlan(target)), NoSignal, ForcedPlan(target), {}, ks)
  PROVE  Sane(Activate(ForcedPlan(target), Targets(fired)), recorded)
<1> DEFINE p == ForcedPlan(target)
           next == Activate(p, Targets(fired))
<1>1. /\ p \in Plan
      /\ Active(p) = Before(target)
      /\ Completed(p) = Before(target) \ {target}
      /\ \A e \in Exec : p[e] = "in_progress" <=> e = target
  BY BeforeFacts DEF ForcedPlan, Before, Plan, State, Active, Completed
<1>2. PlanClosed(p)
  BY <1>1, BeforeFacts DEF PlanClosed
<1>3. DepsFirst(p)
  <2> SUFFICES ASSUME NEW e \in Exec, p[e] \in {"in_progress", "completed"}
               PROVE  Deps[e] \subseteq Completed(p)
    BY DEF DepsFirst
  <2>1. e \in Before(target)
    BY <1>1, BeforeFacts DEF Completed
  <2> QED
    BY <1>1, <2>1, BeforeFacts DEF DepClosed
<1> HIDE DEF p
<1>4. fired \subseteq Triggers /\ Targets(fired) \in SUBSET Exec
  BY FiredFacts
<1>5. \A k \in recorded : k[3] \in Targets(fired)
  BY <1>4, RecordedFacts
<1>6. /\ next \in Plan
      /\ Active(next) = Active(p) \cup DepClosure(Targets(fired))
      /\ Completed(next) = Completed(p)
      /\ Targets(fired) \subseteq DepClosure(Targets(fired))
      /\ PlanClosed(next) /\ DepsFirst(next)
  BY <1>1, <1>2, <1>3, <1>4, ActivateFacts, ActivateKeeps, ClosureFacts
<1>7. ASSUME NEW t \in Triggers, t.onSignal = NoType, t.gate = "none",
             next[t.after] = "completed"
      PROVE  next[t.run] # "inactive"
  <2> HIDE DEF next
  <2>1. t.after \in Exec /\ t.run \in Exec
    BY GraphAssumption DEF Trigger
  <2>2. t.after \in Completed(p)
    BY <1>6, <1>7, <2>1 DEF Completed
  <2>3. CASE p[t.run] = "inactive"
    <3>1. t.run \in Targets(Fired(Completed(p), NoSignal, p, {}, ks))
      BY <1>7, <2>2, <2>3, UnconditionalFires
    <3> QED
      BY <1>6, <2>1, <3>1 DEF p, Active
  <2>4. CASE p[t.run] # "inactive"
    BY <1>6, <2>1, <2>4 DEF Active
  <2> QED
    BY <2>3, <2>4
<1> QED
  BY <1>5, <1>6, <1>7 DEF Sane, TriggersFollowed, p
-----------------------------------------------------------------------------
(* The inductive invariant, in terms of Sane.                              *)
IInv ==
  /\ Sane(plan, activated)
  /\ disk # NoState => Sane(disk.plan, disk.activated)
  /\ NeverStuck
  /\ ~ Down /\ pc # "fresh" => Completed(plan) = Completed(disk.plan)
  /\ pc \in {"running", "saving"} => plan[current] = "in_progress"
  /\ disk # NoState => ran \subseteq Completed(disk.plan)

(* IInv, spelt out for the provers.                                        *)
LEMMA IInvInductive == IInv <=> Inductive
BY DEF IInv, Inductive, Sane, OfBothPlans, NeededAreActive, DepsBeforeDependents,
       TriggersNotLost, RecordedWereFollowed

(* A signal keeps the plan sane and completes nothing.                     *)
LEMMA ProcessKeeps ==
  ASSUME TypeOK, Sane(plan, activated), NEW m \in Messages, Process(m)
  PROVE  Sane(plan', activated') /\ Completed(plan') = Completed(plan)
<1>1. PICK S \in SUBSET Exec, R \in SUBSET TriggerKey :
        /\ plan' = Activate(plan, S)
        /\ activated' = activated \cup R
        /\ \A k \in R : k[3] \in S
  BY ProcessFacts
<1>2. plan \in Plan
  BY DEF TypeOK
<1> QED
  BY <1>1, <1>2, SaneActivate, ActivateFacts

(* The steps of the run loop preserve the invariant.                       *)
LEMMA SchedulingKeeps == ASSUME TypeOK, IInv, Scheduling PROVE IInv'
<1> USE DEF IInv, NeverStuck, Down, process, memory, running, bounds
<1>1. plan \in Plan /\ Saved(plan, activated, received, active).plan = plan
      /\ Saved(plan, activated, received, active).activated = activated
  BY DEF TypeOK, Saved
<1>2. CASE SaveFresh
  BY <1>1, <1>2 DEF SaveFresh
<1>3. CASE SaveResumed
  <2>1. disk # NoState
    BY <1>3 DEF SaveResumed, TypeOK
  <2> QED
    BY <1>1, <1>3, <2>1 DEF SaveResumed
<1>4. CASE DrainOne
  <2>1. Sane(plan', activated') /\ Completed(plan') = Completed(plan)
    BY <1>4, HeadTypes, ProcessKeeps DEF DrainOne
  <2> QED
    BY <1>4, <2>1 DEF DrainOne
<1>5. CASE DrainDone
  BY <1>5 DEF DrainDone
<1>6. ASSUME NEW e \in Exec, Select(e) PROVE IInv'
  <2>1. e \in Runnable(plan, Skip)
    BY <1>6 DEF Select, IsNext
  <2>2. Sane(plan', activated) /\ Completed(plan') = Completed(plan)
    BY <1>1, <1>6, <2>1, SaneStart DEF Select
  <2>3. plan'[current'] = "in_progress"
    BY <1>1, <1>6 DEF Select, Plan
  <2>4. disk' = disk \/ (disk'.plan = plan /\ disk'.activated = activated)
    BY <1>6, SavedPlanTypes DEF Select, TypeOK
  <2> QED
    BY <1>6, <2>2, <2>3, <2>4 DEF Select, TypeOK
<1>7. ASSUME NEW passed \in SUBSET Reconcilable, NEW payload \in [passed -> Payload],
             Reconcile(passed, payload)
      PROVE  IInv'
  <2>1. PICK fired \in SUBSET Triggers : plan' = Activate(plan, Targets(fired))
    BY <1>7 DEF Reconcile, Fired
  <2>2. Targets(fired) \in SUBSET Exec
    BY GraphAssumption DEF Targets, Trigger
  <2>3. Sane(plan', activated) /\ Completed(plan') = Completed(plan)
    <3>1. Sane(plan', activated \cup {})
      BY <1>1, <2>1, <2>2, SaneActivate
    <3> QED
      BY <1>1, <2>1, <2>2, <3>1, ActivateFacts
  <2> QED
    BY <1>7, <2>3 DEF Reconcile, Idle
<1>8. CASE BeginWait
  BY <1>8 DEF BeginWait, Idle
<1>9. CASE WaitReceives
  <2>1. Sane(plan', activated') /\ Completed(plan') = Completed(plan)
    BY <1>9, HeadTypes, ProcessKeeps DEF WaitReceives
  <2>2. pc' \in {"waiting", "drain"} /\ disk' = disk /\ ran' = ran
    BY <1>9 DEF WaitReceives
  <2> QED
    BY <1>9, <2>1, <2>2 DEF WaitReceives
<1>10. CASE Finish
  <2>1. AllBlockedBySkip(plan, Skip)
    BY <1>1, <1>10, NothingRunnable DEF Finish, Idle, Sane
  <2> QED
    BY <1>10, <2>1, SaneNothing DEF Finish, Forget
<1> QED
  BY <1>2, <1>3, <1>4, <1>5, <1>6, <1>7, <1>8, <1>9, <1>10 DEF Scheduling

(* A completion with the triggers it follows leaves a sane plan.           *)
LEMMA PlanAfterSane ==
  ASSUME plan \in Plan, Sane(plan, activated),
         current \in Exec, plan[current] = "in_progress",
         NEW S \in SUBSET Exec, NEW R \in SUBSET TriggerKey,
         FollowedBy(plan, activated, current, taskSignal, keys, S, R)
  PROVE  /\ Sane(PlanAfter(plan, current, S), activated \cup R)
         /\ Completed(PlanAfter(plan, current, S)) = Completed(plan) \cup {current}
BY SaneComplete

(* The steps of an execution in progress preserve the invariant.           *)
LEMMA RunningKeeps == ASSUME TypeOK, IInv, Running PROVE IInv'
<1> USE DEF IInv, NeverStuck, Down, process, memory, running, bounds
<1>1. /\ plan \in Plan
      /\ \A s : /\ Saved(plan, activated, received, s).plan = plan
                /\ Saved(plan, activated, received, s).activated = activated
  BY DEF TypeOK, Saved
<1>2. CASE SaveProgress
  <2>1. disk # NoState
    BY <1>2 DEF SaveProgress, TypeOK
  <2> QED
    BY <1>1, <1>2, <2>1 DEF SaveProgress
<1>3. CASE TaskReceives
  <2>1. disk' = disk \/ disk' = Saved(plan, activated, received, active)
    BY <1>3 DEF TaskReceives
  <2>2. pc' \in {"running", "saving"}
    BY <1>3 DEF TaskReceives
  <2> QED
    BY <1>1, <1>3, <2>1, <2>2 DEF TaskReceives, TypeOK
<1>4. CASE TaskSavesContext
  <2>1. disk # NoState
    BY <1>4 DEF TaskSavesContext, TypeOK
  <2> QED
    BY <1>1, <1>4, <2>1 DEF TaskSavesContext
<1>5. CASE Complete
  <2> DEFINE done == [plan EXCEPT ![current] = "completed"]
  <2>1. PICK S \in SUBSET Exec, R \in SUBSET TriggerKey :
          /\ S = Targets(Fired({current}, taskSignal, done, activated, keys))
          /\ \A k \in R : k[3] \in S
          /\ disk' = Saved(Activate(done, S), activated \cup R, received, taskSignal)
          /\ \/ pc' = "finished" /\ Forget
             \/ /\ pc' = "drain"
                /\ plan' = Activate(done, S)
                /\ activated' = activated \cup R
    BY <1>5, CompleteFacts
  <2>2. current \in Exec /\ plan[current] = "in_progress"
    BY <1>5 DEF Complete, TypeOK
  <2> DEFINE next == Activate(done, S)
  <2>3. Sane(next, activated \cup R) /\ Completed(next) = Completed(plan) \cup {current}
    BY <1>1, <2>1, <2>2, PlanAfterSane DEF FollowedBy, PlanAfter
  <2>4. disk'.plan = next /\ disk'.activated = activated \cup R
    BY <2>1 DEF Saved
  <2>5. ran' \subseteq Completed(next)
    BY <1>5, <2>3 DEF Complete, TypeOK
  <2>6. pc' \in {"finished", "drain"} /\ Sane(plan', activated')
    BY <2>1, <2>3, SaneNothing DEF Forget
  <2>7. pc' = "drain" => plan' = next
    BY <2>1
  <2> HIDE DEF next
  <2> QED
    BY <2>3, <2>4, <2>5, <2>6, <2>7
<1>6. ASSUME NEW e \in Exec, WriteKey(e) PROVE IInv'
  BY <1>6 DEF WriteKey
<1> QED
  BY <1>2, <1>3, <1>4, <1>5, <1>6 DEF Running

(* The steps around a run preserve the invariant.                          *)
LEMMA EnvironmentKeeps == ASSUME TypeOK, IInv, Environment PROVE IInv'
<1> USE DEF IInv, NeverStuck, Down, Stop, process, memory, running, bounds
<1>1. ASSUME NEW e \in Exec, NEW sig \in Signal \cup {NoSignal}, StartFresh(e, sig)
      PROVE  IInv'
  <2>1. Sane(Activate(Nothing, {e}), {} \cup {})
    BY NothingTypes, SaneNothing, SaneActivate
  <2> QED
    BY <1>1, <2>1 DEF StartFresh
<1>2. CASE Resume
  BY <1>2 DEF Resume, LoadState, LoadedPlan
<1>3. ASSUME NEW e \in Exec, ForceResume(e) PROVE IInv'
  <2> DEFINE forced == ForcedPlan(e)
             fired == Fired(Completed(forced), NoSignal, forced, {}, keys)
  <2>1. PICK recorded \in RecordedKeys(fired) :
          disk' = Saved(Activate(forced, Targets(fired)), recorded,
                        disk.received, disk.active)
    BY <1>3 DEF ForceResume
  <2>2. Sane(Activate(forced, Targets(fired)), recorded)
    BY SaneForced
  <2>3. Sane(disk'.plan, disk'.activated)
    BY <2>1, <2>2 DEF Saved
  <2> QED
    BY <1>3, <2>3 DEF ForceResume
<1>4. CASE Clear
  BY <1>4 DEF Clear
<1>5. ASSUME NEW m \in Messages, Send(m) PROVE IInv'
  BY <1>5 DEF Send
<1>6. CASE Crash
  BY <1>6, SaneNothing DEF Crash, Forget
<1>7. CASE Fail
  BY <1>7, SaneNothing DEF Fail, Forget
<1>8. CASE Interrupt
  <2>1. CASE nested = 1
    BY <1>8, <2>1, SaneNothing DEF Interrupt, Forget
  <2>2. CASE nested # 1
    BY <1>8, <2>2 DEF Interrupt
  <2> QED
    BY <2>1, <2>2
<1>9. CASE RerunInMemory
  <2>1. disk' = disk \/ (disk'.plan = plan /\ disk'.activated = activated)
    BY <1>9, SavedPlanTypes DEF RerunInMemory, TypeOK
  <2> QED
    BY <1>9, <2>1 DEF RerunInMemory, TypeOK
<1>10. CASE DropWhileInterrupted
  BY <1>10 DEF DropWhileInterrupted
<1>11. CASE ResumeFromDisk
  BY <1>11 DEF ResumeFromDisk, LoadState, LoadedPlan
<1>12. CASE Abort
  BY <1>12, SaneNothing DEF Abort, Forget
<1> QED
  BY <1>1, <1>2, <1>3, <1>4, <1>5, <1>6, <1>7, <1>8, <1>9, <1>10, <1>11, <1>12
  DEF Environment
-----------------------------------------------------------------------------
(* The invariant holds initially.                                          *)
LEMMA InitSound == Init => IInv
BY SaneNothing DEF Init, IInv, NeverStuck, Down

(* Every step preserves it.                                                *)
LEMMA NextSound == TypeOK /\ IInv /\ [Next]_vars => IInv'
<1> SUFFICES ASSUME TypeOK, IInv, [Next]_vars PROVE IInv'
  OBVIOUS
<1>1. CASE Scheduling
  BY <1>1, SchedulingKeeps
<1>2. CASE Running
  BY <1>2, RunningKeeps
<1>3. CASE Environment
  BY <1>3, EnvironmentKeeps
<1>4. CASE UNCHANGED vars
  BY <1>4 DEF vars, memory, running, process, bounds, IInv, NeverStuck, Down
<1> QED
  BY <1>1, <1>2, <1>3, <1>4 DEF Next

(* The conjunction of the safety properties with what it takes to carry    *)
(* them from one step to the next: the state file has every execution the  *)
(* run in memory has completed (so a crash loses none of them), and the    *)
(* execution being run is the one that is in progress.                     *)
THEOREM InductiveInvariant == Spec => [](TypeOK /\ Inductive)
<1>1. Init => IInv
  BY InitSound
<1>2. TypeOK /\ IInv /\ [Next]_vars => IInv'
  BY NextSound
<1>3. Spec => []TypeOK
  BY TypeCorrect
<1>4. IInv => Inductive
  BY IInvInductive
<1> QED
  BY <1>1, <1>2, <1>3, <1>4, PTL DEF Spec

(* An active execution never lacks an active dependency, in memory or in   *)
(* the state file, however signals, completions, crashes, interrupts and   *)
(* forced resumes follow on one another.                                   *)
THEOREM DependenciesActive == Spec => []NeededAreActive
<1>1. Inductive => NeededAreActive
  BY DEF Inductive
<1> QED
  BY <1>1, InductiveInvariant, PTL

(* No execution starts, in this process or in a run a resume takes up,     *)
(* before everything it depends on has completed.                          *)
THEOREM DependenciesFirst == Spec => []DepsBeforeDependents
<1>1. Inductive => DepsBeforeDependents
  BY DEF Inductive
<1> QED
  BY <1>1, InductiveInvariant, PTL

(* The state file never holds a completed execution without what it        *)
(* unconditionally triggers: the two are saved together, and no crash in   *)
(* between can lose a trigger.                                             *)
THEOREM NoTriggerLost == Spec => []TriggersNotLost
<1>1. Inductive => TriggersNotLost
  BY DEF Inductive
<1> QED
  BY <1>1, InductiveInvariant, PTL

(* A trigger recorded as activated, in memory or in the state file, has    *)
(* the execution it runs in the same plan.                                 *)
THEOREM RecordedTriggersFollowed == Spec => []RecordedWereFollowed
<1>1. Inductive => RecordedWereFollowed
  BY DEF Inductive
<1> QED
  BY <1>1, InductiveInvariant, PTL

(* No schedule ends with "No runnable executions remain for active run     *)
(* plan": a plan that nothing can be run of, on an acyclic graph, has      *)
(* completed or is blocked by --skip (NothingRunnable).                    *)
THEOREM NeverWithoutWork == Spec => []NeverStuck
<1>1. Inductive => NeverStuck
  BY DEF Inductive
<1> QED
  BY <1>1, InductiveInvariant, PTL

(* A completed execution is not run again by the same run, whatever        *)
(* crashes, failures, interrupts and resumes come in between.              *)
THEOREM NoExecutionTwice == Spec => []RunsOnce
<1>1. TypeOK /\ Inductive => RunsOnce
  <2> SUFFICES ASSUME TypeOK, Inductive, pc = "running" PROVE current \notin ran
    BY DEF RunsOnce
  <2>1. disk # NoState /\ ~ Down /\ pc # "fresh"
    BY DEF TypeOK, Down
  <2>2. ran \subseteq Completed(plan)
    BY <2>1 DEF Inductive
  <2>3. current \notin Completed(plan)
    BY DEF Inductive, Completed
  <2> QED
    BY <2>2, <2>3
<1> QED
  BY <1>1, InductiveInvariant, PTL

-----------------------------------------------------------------------------
(***************************************************************************)
(* The state file implements RunPlan.                                      *)
(***************************************************************************)

(* p goes forward to q.                                                    *)
Ahead(p, q) == \A e \in Exec : RP!Rank[p[e]] <= RP!Rank[q[e]]

(* RunPlan's operators are those of the graph.                             *)
LEMMA SameGraph ==
  /\ RP!Plan = Plan /\ RP!Nothing = Nothing
  /\ \A p : /\ RP!Active(p) = Active(p) /\ RP!Completed(p) = Completed(p)
            /\ RP!PlanClosed(p) = PlanClosed(p) /\ RP!DepsFirst(p) = DepsFirst(p)
            /\ RP!TriggersFollowed(p) = TriggersFollowed(p)
  /\ \A p, S : RP!Activate(p, S) = Activate(p, S)
<1>1. RP!Plan = Plan /\ RP!Nothing = Nothing
  BY DEF RP!Plan, Plan, RP!State, State, RP!Nothing, Nothing
<1>2. \A C : RP!DepClosed(C) = DepClosed(C)
  BY DEF RP!DepClosed, DepClosed
<1>3. ASSUME NEW p
      PROVE  /\ RP!Active(p) = Active(p) /\ RP!Completed(p) = Completed(p)
             /\ RP!PlanClosed(p) = PlanClosed(p) /\ RP!DepsFirst(p) = DepsFirst(p)
             /\ RP!TriggersFollowed(p) = TriggersFollowed(p)
  BY <1>2 DEF RP!Active, Active, RP!Completed, Completed, RP!PlanClosed, PlanClosed,
     RP!DepsFirst, DepsFirst, RP!TriggersFollowed, TriggersFollowed
<1>4. RP!Needs = Needs
  BY <1>2 DEF RP!Needs, Needs
<1>5. ASSUME NEW p, NEW S PROVE RP!Activate(p, S) = Activate(p, S)
  BY <1>4 DEF RP!Activate, Activate, RP!DepClosure, DepClosure
<1> QED
  BY <1>1, <1>3, <1>5

(* Going forward is a preorder, and what a run does to a plan goes forward. *)
LEMMA AheadFacts ==
  /\ \A p \in Plan : Ahead(p, p)
  /\ \A p, q, r \in Plan : Ahead(p, q) /\ Ahead(q, r) => Ahead(p, r)
  /\ \A p, q \in Plan : Ahead(p, q) => Active(p) \subseteq Active(q)
<1>1. \A s \in State : RP!Rank[s] \in Nat /\ (RP!Rank[s] = 0 <=> s = "inactive")
  BY DEF RP!Rank, State
<1> QED
  BY <1>1 DEF Ahead, Plan, Active

(* Activating, starting and completing executions goes forward.            *)
LEMMA AheadSteps ==
  ASSUME NEW p \in Plan
  PROVE  /\ \A S \in SUBSET Exec : Ahead(p, Activate(p, S))
         /\ \A skip : \A e \in Runnable(p, skip) : Ahead(p, [p EXCEPT ![e] = "in_progress"])
         /\ \A c \in Exec, S \in SUBSET Exec : Ahead(p, PlanAfter(p, c, S))
<1>1. /\ \A s \in State : RP!Rank[s] \in Nat
      /\ RP!Rank["inactive"] = 0 /\ RP!Rank["pending"] = 1
      /\ RP!Rank["in_progress"] = 2 /\ RP!Rank["completed"] = 3
  BY DEF RP!Rank, State
<1>2. ASSUME NEW q \in Plan, NEW S \in SUBSET Exec PROVE Ahead(q, Activate(q, S))
  BY <1>1 DEF Ahead, Activate, Plan
<1>3. ASSUME NEW skip, NEW e \in Runnable(p, skip)
      PROVE  Ahead(p, [p EXCEPT ![e] = "in_progress"])
  BY <1>1 DEF Ahead, Plan, Runnable
<1>4. ASSUME NEW c \in Exec, NEW S \in SUBSET Exec PROVE Ahead(p, PlanAfter(p, c, S))
  <2> DEFINE done == [p EXCEPT ![c] = "completed"]
  <2>1. done \in Plan
    BY DEF Plan, State
  <2>2. Ahead(p, done)
    BY <1>1 DEF Ahead, Plan, State
  <2>3. Ahead(done, Activate(done, S)) /\ Activate(done, S) \in Plan
    BY <1>2, <2>1, ActivateFacts
  <2> QED
    BY <2>1, <2>2, <2>3, AheadFacts DEF PlanAfter
<1> QED
  BY <1>2, <1>3, <1>4

(* The state file is never ahead of the memory of the run that keeps it,   *)
(* and a run always has an execution.                                      *)
Behind ==
  /\ disk # NoState => Active(disk.plan) # {}
  /\ ~ Down => Active(plan) # {}
  /\ pc = "fresh" => \E e \in Exec : plan = Activate(Nothing, {e})
  /\ ~ Down /\ pc # "fresh" => Ahead(disk.plan, plan)

(* What a step means for the plan in the state file.                       *)
PlanStep == [RP!Next]_SavedExecutions

(* A save that goes forward, by one completion at most, is an abstract step. *)
LEMMA SaveAdvances ==
  ASSUME disk # NoState, disk' # NoState, disk.plan \in Plan, disk'.plan \in Plan,
         Active(disk.plan) # {}, Ahead(disk.plan, disk'.plan),
         NEW a, Sane(disk'.plan, a),
         NEW c \in Exec, Completed(disk'.plan) \subseteq Completed(disk.plan) \cup {c}
  PROVE  PlanStep
<1>1. SavedExecutions = disk.plan /\ SavedExecutions' = disk'.plan
  BY DEF SavedExecutions
<1>2. disk.plan # Nothing
  BY DEF Active, Nothing
<1>3. RP!Sound(disk'.plan)
  BY SameGraph DEF RP!Sound, Sane
<1>4. RP!Grows(disk.plan, disk'.plan)
  BY DEF RP!Grows, Ahead
<1>5. RP!Advance
  BY <1>1, <1>2, <1>3, <1>4, SameGraph DEF RP!Advance
<1> QED
  BY <1>5 DEF PlanStep, RP!Next

(* A save of what the run has in memory is one.                            *)
LEMMA MemorySaved ==
  ASSUME TypeOK, IInv, Behind, ~ Down, pc # "fresh", disk' # NoState, disk'.plan = plan
  PROVE  PlanStep
<1>1. disk # NoState /\ disk.plan \in Plan /\ plan \in Plan
  BY DEF TypeOK, Snapshot
<1>2. PICK e \in Exec : e \in Active(disk.plan)
  BY <1>1 DEF Behind, Active
<1>3. Completed(disk'.plan) \subseteq Completed(disk.plan) \cup {e}
  BY DEF IInv
<1> QED
  BY <1>1, <1>2, <1>3, SaveAdvances DEF Behind, IInv

(* A step that leaves the state file alone is none.                        *)
LEMMA SaveNothing == disk' = disk => PlanStep
BY DEF PlanStep, SavedExecutions

(* The run goes on in memory, and may save what it had.                    *)
LEMMA MemoryAdvances ==
  ASSUME TypeOK, TypeOK', Behind, ~ Down, pc # "fresh", pc' # "fresh",
         Ahead(plan, plan'), disk' = disk \/ disk'.plan = plan
  PROVE  Behind'
<1>1. disk # NoState /\ disk.plan \in Plan /\ plan \in Plan /\ plan' \in Plan
  BY DEF TypeOK, Snapshot
<1>2. Ahead(disk.plan, plan) /\ Active(plan) # {} /\ Active(disk.plan) # {}
  BY <1>1 DEF Behind
<1>3. Ahead(disk'.plan, plan') /\ Active(disk'.plan) # {}
  BY <1>1, <1>2, AheadFacts
<1>4. Active(plan') # {}
  BY <1>1, <1>2, AheadFacts
<1> QED
  BY <1>3, <1>4 DEF Behind

(* The run ends, or is not up, and the state file stays.                   *)
LEMMA RunOver ==
  ASSUME Behind, Down', disk' = disk
  PROVE  Behind'
BY DEF Behind, Down

(* The scheduler's own steps save what it has, and never go back.          *)
LEMMA SchedulingAdvances ==
  ASSUME TypeOK, TypeOK', IInv, IInv', Behind, Scheduling
  PROVE  Behind' /\ PlanStep
<1>1. plan \in Plan /\ Saved(plan, activated, received, active).plan = plan
  BY DEF TypeOK, Saved
<1>2. CASE SaveFresh
  <2>1. PICK e \in Exec : plan = Activate(Nothing, {e})
    BY <1>2 DEF SaveFresh, Behind
  <2>2. disk' # NoState /\ disk'.plan = plan /\ plan' = plan /\ pc' = "drain" /\ ~ Down
    BY <1>1, <1>2, SavedTypes DEF SaveFresh, memory, Down, TypeOK
  <2>3. SavedExecutions' = plan
    BY <2>2 DEF SavedExecutions
  <2>4. PlanStep
    BY <2>1, <2>3, SameGraph DEF PlanStep, RP!Next, RP!Begin
  <2> QED
    BY <1>1, <2>2, <2>4, AheadFacts DEF Behind
<1>3. CASE SaveResumed
  <2>1. ~ Down /\ pc # "fresh" /\ disk' # NoState /\ disk'.plan = plan
    BY <1>1, <1>3, SavedTypes DEF SaveResumed, Down, TypeOK
  <2>2. Ahead(plan, plan') /\ pc' = "drain"
    BY <1>1, <1>3, AheadFacts DEF SaveResumed, memory
  <2> QED
    BY <2>1, <2>2, MemorySaved, MemoryAdvances
<1>4. CASE DrainOne \/ WaitReceives
  <2>1. \E S \in SUBSET Exec : plan' = Activate(plan, S)
    BY <1>4, HeadTypes, ProcessFacts DEF DrainOne, WaitReceives
  <2>2. Ahead(plan, plan')
    BY <1>1, <2>1, AheadSteps
  <2>3. ~ Down /\ pc # "fresh" /\ pc' # "fresh" /\ disk' = disk
    BY <1>4 DEF DrainOne, WaitReceives, Down
  <2> QED
    BY <2>2, <2>3, MemoryAdvances, SaveNothing
<1>5. CASE DrainDone \/ BeginWait
  <2>1. Ahead(plan, plan')
    BY <1>1, <1>5, AheadFacts DEF DrainDone, BeginWait, memory
  <2>2. ~ Down /\ pc # "fresh" /\ pc' # "fresh" /\ disk' = disk
    BY <1>5 DEF DrainDone, BeginWait, Idle, Down
  <2> QED
    BY <2>1, <2>2, MemoryAdvances, SaveNothing
<1>6. ASSUME NEW e \in Exec, Select(e) PROVE Behind' /\ PlanStep
  <2>1. e \in Runnable(plan, Skip)
    BY <1>6 DEF Select, IsNext
  <2>2. Ahead(plan, plan')
    BY <1>1, <1>6, <2>1, AheadSteps DEF Select
  <2>3. ~ Down /\ pc # "fresh" /\ pc' # "fresh"
    BY <1>6 DEF Select, Down
  <2>4. disk' = disk \/ (disk'.plan = plan /\ disk' # NoState)
    BY <1>6, <2>3, SavedPlanTypes DEF Select, TypeOK
  <2> QED
    BY <2>2, <2>3, <2>4, MemoryAdvances, MemorySaved, SaveNothing
<1>7. ASSUME NEW passed \in SUBSET Reconcilable, NEW payload \in [passed -> Payload],
             Reconcile(passed, payload)
      PROVE  Behind' /\ PlanStep
  <2>1. PICK fired \in SUBSET Triggers : plan' = Activate(plan, Targets(fired))
    BY <1>7 DEF Reconcile, Fired
  <2>2. Ahead(plan, plan')
    BY <1>1, <2>1, AheadSteps, GraphAssumption DEF Targets, Trigger
  <2>3. ~ Down /\ pc # "fresh" /\ pc' # "fresh" /\ disk' = disk
    BY <1>7 DEF Reconcile, Idle, Down
  <2> QED
    BY <2>2, <2>3, MemoryAdvances, SaveNothing
<1>8. CASE Finish
  <2>1. Down' /\ disk' = disk
    BY <1>8 DEF Finish, Down
  <2> QED
    BY <2>1, RunOver, SaveNothing
<1> QED
  BY <1>2, <1>3, <1>4, <1>5, <1>6, <1>7, <1>8 DEF Scheduling

(* The steps of a running execution save the plan as it is, and the end of *)
(* one saves its completion with all it fires.                             *)
LEMMA RunningAdvances ==
  ASSUME TypeOK, TypeOK', IInv, IInv', Behind, Running
  PROVE  Behind' /\ PlanStep
<1>1. /\ plan \in Plan /\ ~ Down /\ pc # "fresh" /\ disk # NoState
      /\ disk.plan \in Plan
  BY DEF Running, SaveProgress, TaskReceives, TaskSavesContext, Complete, WriteKey, Down, TypeOK,
         Snapshot
<1>2. CASE SaveProgress \/ TaskReceives \/ TaskSavesContext \/ \E e \in Exec : WriteKey(e)
  <2>1. plan' = plan /\ pc' \in {"running", "saving"}
    BY <1>2 DEF SaveProgress, TaskReceives, TaskSavesContext, WriteKey, memory
  <2>2. \/ disk' = disk
        \/ \E s \in Signal \cup {NoSignal} : disk' = Saved(plan, activated, received, s)
    BY <1>2 DEF SaveProgress, TaskReceives, TaskSavesContext, WriteKey, TypeOK
  <2>3. disk' = disk \/ (disk'.plan = plan /\ disk' # NoState)
    BY <2>2, SavedTypes DEF TypeOK
  <2> QED
    BY <1>1, <2>1, <2>3, AheadFacts, MemoryAdvances, MemorySaved, SaveNothing
<1>3. CASE Complete
  <2> DEFINE done == [plan EXCEPT ![current] = "completed"]
  <2>1. PICK S \in SUBSET Exec, R \in SUBSET TriggerKey :
          /\ S = Targets(Fired({current}, taskSignal, done, activated, keys))
          /\ \A k \in R : k[3] \in S
          /\ disk' = Saved(Activate(done, S), activated \cup R, received, taskSignal)
          /\ \/ pc' = "finished" /\ Forget
             \/ /\ pc' = "drain"
                /\ plan' = Activate(done, S)
                /\ activated' = activated \cup R
    BY <1>3, CompleteFacts
  <2>2. current \in Exec /\ plan[current] = "in_progress"
    BY <1>3 DEF Complete, TypeOK, IInv
  <2> DEFINE next == PlanAfter(plan, current, S)
  <2>3. Sane(next, activated \cup R) /\ Completed(next) = Completed(plan) \cup {current}
    BY <1>1, <2>1, <2>2, PlanAfterSane DEF FollowedBy, IInv
  <2>4. disk'.plan = next /\ disk' # NoState /\ next \in Plan
    <3>1. done \in Plan
      BY <1>1 DEF Plan, State
    <3>2. next \in Plan /\ next = Activate(done, S)
      BY <3>1, ActivateFacts DEF PlanAfter
    <3>3. activated \cup R \in SUBSET TriggerKey
      BY DEF TypeOK
    <3> HIDE DEF next, done
    <3> QED
      BY <2>1, <3>2, <3>3, SavedTypes DEF TypeOK
  <2>5. Ahead(disk.plan, next) /\ Active(next) # {}
    BY <1>1, <2>2, <2>4, AheadFacts, AheadSteps DEF Behind
  <2>6. PlanStep
    BY <1>1, <2>2, <2>3, <2>4, <2>5, SaveAdvances DEF Behind, IInv
  <2> HIDE DEF next
  <2>7. CASE pc' = "finished"
    BY <2>4, <2>5, <2>6, <2>7 DEF Behind, Down
  <2>8. CASE pc' = "drain" /\ plan' = next
    BY <2>4, <2>5, <2>6, <2>8, AheadFacts DEF Behind
  <2> QED
    BY <2>1, <2>6, <2>7, <2>8 DEF PlanAfter, next
<1> QED
  BY <1>2, <1>3 DEF Running

(* A forced resume saves a plan in which only its target is in progress.   *)
LEMMA ForceSaves ==
  ASSUME TypeOK, Behind, NEW target \in Exec, ForceResume(target)
  PROVE  PlanStep /\ disk' # NoState /\ Active(disk'.plan) # {}
<1> DEFINE forced == ForcedPlan(target)
           fired == Fired(Completed(forced), NoSignal, forced, {}, keys)
           saved == Activate(forced, Targets(fired))
<1>1. PICK recorded \in RecordedKeys(fired) :
        disk' = Saved(saved, recorded, disk.received, disk.active)
  BY DEF ForceResume
<1>2. fired \subseteq Triggers /\ Targets(fired) \in SUBSET Exec
  BY FiredFacts
<1>3. recorded \in SUBSET TriggerKey
  BY <1>2, RecordedFacts
<1>4. forced \in Plan /\ \A e \in Exec : forced[e] = "in_progress" <=> e = target
  BY DEF ForcedPlan, Plan, State
<1>5. saved \in Plan /\ \A e \in Exec : saved[e] = "in_progress" <=> e = target
  BY <1>2, <1>4, ActivateFacts
<1>6. Sane(saved, recorded)
  BY SaneForced
<1> HIDE DEF fired, saved
<1>7. disk # NoState /\ disk \in Snapshot
  BY DEF ForceResume, TypeOK
<1>8. disk' # NoState /\ disk'.plan = saved
  <2>1. disk.received \in SUBSET SignalType /\ disk.active \in Signal \cup {NoSignal}
    BY <1>7 DEF Snapshot
  <2> HIDE DEF forced
  <2> QED
    BY <1>1, <1>3, <1>5, <2>1, SavedTypes
<1>9. SavedExecutions # Nothing /\ SavedExecutions' = saved
  BY <1>7, <1>8 DEF SavedExecutions, Behind, Active, Nothing
<1>10. RP!Force(target)
  BY <1>5, <1>6, <1>9, SameGraph DEF RP!Force, RP!Sound, Sane
<1> QED
  BY <1>5, <1>8, <1>10 DEF PlanStep, RP!Next, Active

(* What happens to a run from outside saves nothing that goes back, but a  *)
(* forced resume and `clear`.                                              *)
LEMMA EnvironmentAdvances ==
  ASSUME TypeOK, TypeOK', IInv, IInv', Behind, Environment
  PROVE  Behind' /\ PlanStep
<1>1. ASSUME NEW e \in Exec, NEW sig \in Signal \cup {NoSignal}, StartFresh(e, sig)
      PROVE  Behind' /\ PlanStep
  <2>1. disk' = disk /\ pc' = "fresh" /\ plan' = Activate(Nothing, {e})
    BY <1>1 DEF StartFresh
  <2>2. e \in Active(plan')
    BY <2>1, NothingTypes, ActivateFacts, ClosureFacts
  <2> QED
    BY <2>1, <2>2, SaveNothing DEF Behind, Down
<1>2. CASE Resume \/ ResumeFromDisk
  <2>1. disk # NoState /\ disk' = disk /\ pc' = "starting" /\ plan' = disk.plan
    BY <1>2 DEF Resume, ResumeFromDisk, LoadState, LoadedPlan
  <2>2. disk.plan \in Plan
    BY <2>1 DEF TypeOK, Snapshot
  <2> QED
    BY <2>1, <2>2, AheadFacts, SaveNothing DEF Behind, Down
<1>3. ASSUME NEW e \in Exec, ForceResume(e) PROVE Behind' /\ PlanStep
  BY <1>3, ForceSaves DEF ForceResume, Behind, Down
<1>4. CASE Clear
  <2>1. SavedExecutions' = Nothing
    BY <1>4 DEF Clear, SavedExecutions
  <2>2. PlanStep
    BY <2>1, SameGraph DEF PlanStep, RP!Next, RP!Clear
  <2> QED
    BY <1>4, <2>2 DEF Clear, Behind, Down
<1>5. ASSUME NEW m \in Messages, Send(m) PROVE Behind' /\ PlanStep
  BY <1>5, SaveNothing DEF Send, Behind, Down, memory
<1>6. CASE Crash \/ Fail \/ Abort \/ (Interrupt /\ nested = 1)
  <2>1. Down' /\ disk' = disk
    BY <1>6 DEF Crash, Fail, Abort, Interrupt, Down
  <2> QED
    BY <2>1, RunOver, SaveNothing
<1>7. CASE (Interrupt /\ nested # 1) \/ DropWhileInterrupted
  <2>1. /\ ~ Down /\ pc # "fresh" /\ pc' = "interrupted"
        /\ disk' = disk /\ plan' = plan
    BY <1>7 DEF Interrupt, DropWhileInterrupted, Down, memory
  <2> QED
    BY <2>1, SaveNothing DEF Behind, Down
<1>8. CASE RerunInMemory
  <2>1. ~ Down /\ pc # "fresh" /\ pc' = "starting" /\ plan' = plan
    BY <1>8 DEF RerunInMemory, Down
  <2>2. disk' = disk \/ (disk'.plan = plan /\ disk' # NoState)
    BY <1>8, <2>1, SavedPlanTypes DEF RerunInMemory, TypeOK
  <2>3. Ahead(plan, plan')
    BY <2>1, AheadFacts DEF TypeOK
  <2> QED
    BY <2>1, <2>2, <2>3, MemoryAdvances, MemorySaved, SaveNothing
<1> QED
  BY <1>1, <1>2, <1>3, <1>4, <1>5, <1>6, <1>7, <1>8 DEF Environment

(* Every step keeps the state file behind, and is an abstract step.        *)
LEMMA NextAdvances ==
  ASSUME TypeOK, TypeOK', IInv, IInv', Behind, [Next]_vars
  PROVE  Behind' /\ PlanStep
<1>1. CASE UNCHANGED vars
  BY <1>1, SaveNothing DEF vars, memory, Behind, Down
<1> QED
  BY <1>1, SchedulingAdvances, RunningAdvances, EnvironmentAdvances DEF Next

(* What makes the refinement work: as long as a run is up, the state file  *)
(* is behind its memory, so that whatever it saves next goes forward.      *)
THEOREM StateFileBehind == Spec => []Behind
<1>1. Init => Behind
  BY DEF Init, Behind, Down
<1>2. Spec => [](TypeOK /\ IInv)
  BY InductiveInvariant, IInvInductive, PTL
<1>3. TypeOK /\ TypeOK' /\ IInv /\ IInv' /\ Behind /\ [Next]_vars => Behind'
  BY NextAdvances
<1> QED
  BY <1>1, <1>2, <1>3, PTL DEF Spec

(* The scheduler implements RunPlan: from the first save to `clear`, every *)
(* step leaves the plan in the state file alone or is one of its steps.    *)
THEOREM ImplementsRunPlan == Spec => SavedPlanAdvances
<1>1. Init => RP!Init
  BY SameGraph DEF Init, RP!Init, SavedExecutions
<1>2. Spec => [](TypeOK /\ IInv)
  BY InductiveInvariant, IInvInductive, PTL
<1>3. TypeOK /\ TypeOK' /\ IInv /\ IInv' /\ Behind /\ [Next]_vars
        => [RP!Next]_SavedExecutions
  BY NextAdvances DEF PlanStep
<1> QED
  BY <1>1, <1>2, <1>3, StateFileBehind, PTL DEF Spec, SavedPlanAdvances, RP!Spec

(* A run that ends by itself, with nothing skipped, has saved everything   *)
(* it completed and leaves nothing active behind: a resume has nothing to  *)
(* do.                                                                     *)
THEOREM NothingLeftToResume == Spec => FinishedIsDone
<1>1. ASSUME TypeOK, IInv, Behind, Next, pc = "select", pc' = "finished", Skip = {}
      PROVE  Active(disk.plan) = Completed(disk.plan)
  <2>1. Finish
    BY <1>1, Zenon DEF Next, Scheduling, Running, Environment, SaveFresh, SaveResumed, DrainOne, DrainDone,
       Select, Reconcile, BeginWait, WaitReceives, SaveProgress, TaskReceives, TaskSavesContext,
       Complete, WriteKey, StartFresh, Resume, LoadState, ForceResume, Clear, Send, Crash, Fail, Interrupt,
       RerunInMemory, DropWhileInterrupted, ResumeFromDisk, Abort, Launch, Down
  <2>2. AllBlockedBySkip(plan, {})
    BY <1>1, <2>1, NothingRunnable DEF Finish, Idle, TypeOK, IInv, Sane
  <2>3. Active(plan) \subseteq Completed(plan)
    BY <2>2 DEF AllBlockedBySkip, DependsOnSkipped
  <2>4. disk # NoState /\ disk.plan \in Plan /\ plan \in Plan
    BY <1>1 DEF TypeOK, Snapshot, Down
  <2>5. Active(disk.plan) \subseteq Active(plan) /\ Completed(plan) = Completed(disk.plan)
    BY <1>1, <2>4, AheadFacts DEF Behind, IInv, Down
  <2> QED
    BY <2>3, <2>5 DEF Active, Completed
<1>2. Spec => [](TypeOK /\ IInv)
  BY InductiveInvariant, IInvInductive, PTL
<1>3. TypeOK /\ IInv /\ Behind /\ [Next]_vars
        => [pc = "select" /\ pc' = "finished" /\ Skip = {}
              => Active(disk.plan) = Completed(disk.plan)]_vars
  BY <1>1
<1> QED
  BY <1>2, <1>3, StateFileBehind, PTL DEF Spec, FinishedIsDone
=============================================================================
