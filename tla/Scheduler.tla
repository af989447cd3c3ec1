------------------------------ MODULE Scheduler ------------------------------
(***************************************************************************)
(* run_execution_schedule: one run of the execution graph by one process,  *)
(* with the state file it keeps, the signals it receives on its socket,    *)
(* and what happens when the process crashes, the run fails, or an agent   *)
(* is interrupted and the run is resumed.                                  *)
(*                                                                         *)
(* The memory of the running process is plan, activated, received, active, *)
(* reconciled; `disk` is the state file.  A running execution is abstract  *)
(* here: it saves progress, writes context keys, consumes signals if it    *)
(* has a wait_for_signal task, and completes or fails.                     *)
(***************************************************************************)
EXTENDS ExecutionGraph, Sequences

CONSTANTS
  Starts,       \* <<execution, signal>> pairs select_initial_execution admits
  EntryFor,     \* the executions whose `signals` accept a signal
  Checkable,    \* signal types with a `check` command
  TaskWaits,    \* signals some route of an execution's wait task matches
  Messages,     \* what is sent to the process while a run is up
  Ignored,      \* a message that is read and dropped
  Malformed,    \* a message receive_message cannot decode
  NoExec,
  NoState,      \* there is no state file
  Options,      \* command lines: [serve, skip, stopAfter]
  MaxRuns,      \* bound on fresh runs
  MaxSends,     \* bound on messages sent to the process
  MaxStops      \* bound on crashes, failures and interrupts

Option == [serve : BOOLEAN, skip : SUBSET Exec, stopAfter : Exec \cup {NoExec}]

GatedExec == {t.after : t \in {u \in Triggers : u.gate # "none"}}

(* What RunState holds of a run, and the state file with it. *)
Snapshot == [plan : Plan, activated : SUBSET TriggerKey,
             received : SUBSET SignalType, active : Signal \cup {NoSignal}]

Saved(p, a, r, s) == [plan |-> p, activated |-> a, received |-> r, active |-> s]

ASSUME SchedulerAssumption ==
  /\ Starts \subseteq Exec \X (Signal \cup {NoSignal})
  /\ EntryFor \in [Signal -> SUBSET Exec]
  /\ Checkable \subseteq SignalType
  /\ TaskWaits \in [Exec -> SUBSET Signal]
  /\ Messages \subseteq Signal \cup {Ignored, Malformed}
  /\ Ignored \notin Signal /\ Malformed \notin Signal
  /\ NoExec \notin Exec
  /\ NoState \notin Snapshot
  /\ Options \subseteq Option
  /\ \A o \in Options : o.serve => o.stopAfter = NoExec
  /\ MaxRuns \in Nat /\ MaxSends \in Nat /\ MaxStops \in Nat

VARIABLES
  pc,           \* where the scheduler is
  opts,         \* the options the process was started with
  nested,       \* schedules re-entered by _handle_agent_interrupted: 0 or 1
  started,      \* the active signal this process began with
  plan,         \* executions: the state of every execution
  activated,    \* activated_triggers
  received,     \* received_signal_types
  active,       \* active_signal of current_runtime_context
  reconciled,   \* reconciled_triggers
  current,      \* the execution being run
  taskSignal,   \* active_signal inside the running execution
  awaited,      \* the pending types _wait_for_signal began with
  keys,         \* executions whose gating context key is set
  inbox,        \* the PULL socket
  queued,       \* entry signals handed to on_entry_signal
  disk,         \* the state file
  runs, sends, stops,  \* counters for the bounds
  ran           \* history: executions completed since the saved plan began

memory  == <<plan, activated, received, active, reconciled>>
running == <<current, taskSignal>>
process == <<opts, nested, started>>
bounds  == <<runs, sends, stops>>
vars == <<pc, process, memory, running, awaited, keys, inbox, queued, disk,
          bounds, ran>>

Location == {"idle", "fresh", "starting", "drain", "select", "running", "saving",
             "waiting", "interrupted", "finished", "failed", "stuck"}

(* No schedule is in progress: before a run, after one, or after a crash. *)
Down == pc \in {"idle", "finished", "failed", "stuck"}

Skip == IF nested = 1 THEN {} ELSE opts.skip

TypeOf(sig) == IF sig = NoSignal THEN {} ELSE {sig.type}

-----------------------------------------------------------------------------
Init ==
  /\ pc = "idle"
  /\ opts \in Options
  /\ nested = 0
  /\ started = NoSignal
  /\ plan = Nothing
  /\ activated = {} /\ received = {} /\ active = NoSignal /\ reconciled = {}
  /\ current = NoExec /\ taskSignal = NoSignal
  /\ awaited = {}
  /\ keys = {}
  /\ inbox = <<>> /\ queued = <<>>
  /\ disk = NoState
  /\ runs = 0 /\ sends = 0 /\ stops = 0
  /\ ran = {}

(* The memory of a run that is over is gone; the state file, the   *)
(* context directory and the entry queue file stay.                        *)
Forget ==
  /\ plan' = Nothing
  /\ activated' = {} /\ received' = {} /\ active' = NoSignal /\ reconciled' = {}
  /\ current' = NoExec /\ taskSignal' = NoSignal
  /\ awaited' = {}
  /\ nested' = 0
  /\ started' = NoSignal

(* A run is started by a new process, or by the worker that ran the last   *)
(* one, which still has its socket.                                        *)
Launch ==
  /\ Down
  /\ nested' = 0
  /\ \/ opts' \in Options /\ inbox' = <<>>
     \/ pc # "idle" /\ opts.serve /\ UNCHANGED <<opts, inbox>>

(* A new run clears all context and activates the initial execution, while *)
(* the state file still holds the previous run.                            *)
StartFresh(e, sig) ==
  /\ Launch
  /\ runs < MaxRuns /\ runs' = runs + 1
  /\ <<e, sig>> \in Starts
  /\ pc' = "fresh"
  /\ started' = sig
  /\ plan' = Activate(Nothing, {e})
  /\ active' = sig
  /\ received' = TypeOf(sig)
  /\ activated' = {} /\ reconciled' = {}
  /\ keys' = {}
  /\ UNCHANGED <<running, awaited, queued, disk, sends, stops, ran>>

SaveFresh ==
  /\ pc = "fresh"
  /\ pc' = "drain"
  /\ disk' = Saved(plan, activated, received, active)
  /\ ran' = {}
  /\ UNCHANGED <<process, memory, running, awaited, keys, inbox, queued, bounds>>

\* Mutant: a resume sets interrupted executions back to pending.
LoadedAsPending ==
  [e \in Exec |-> IF disk.plan[e] = "in_progress" THEN "pending" ELSE disk.plan[e]]

(* load_run_state restores the state of every execution. *)
LoadedPlan == disk.plan

(* The memory a schedule starts from when it is given the saved run. *)
LoadState ==
  /\ disk # NoState
  /\ pc' = "starting"
  /\ started' = disk.active
  /\ plan' = LoadedPlan
  /\ activated' = disk.activated
  /\ received' = disk.received \cup TypeOf(disk.active)
  /\ active' = disk.active
  /\ reconciled' = {}

Resume ==
  /\ Launch
  /\ LoadState
  /\ UNCHANGED <<running, awaited, keys, queued, disk, bounds, ran>>

SaveResumed ==
  /\ pc = "starting"
  /\ pc' = "drain"
  /\ disk' = Saved(plan, activated, received, active)
  /\ UNCHANGED <<process, memory, running, awaited, keys, inbox, queued, bounds, ran>>

-----------------------------------------------------------------------------
(* _find_trigger_predecessors walks back over unconditional triggers.      *)
WalksBack(C) ==
  \A t \in Triggers : t.onSignal = NoType /\ t.run \in C => t.after \in C

TriggerPredecessors ==
  [target \in Exec |->
     {e \in Exec \ {target} :
        \A C \in SUBSET Exec : target \in C /\ WalksBack(C) => e \in C}]

(* `--resume target`: the state file is rewritten as if everything before  *)
(* the target had completed, and the triggers of that are replayed.        *)
ForcedPlan(target) ==
  [e \in Exec |->
     IF e = target THEN "in_progress"
     ELSE IF e \in DepClosure({target} \cup TriggerPredecessors[target])
       THEN "completed"
       ELSE "inactive"]

ForceResume(target) ==
  /\ Down /\ disk # NoState
  /\ LET forced == ForcedPlan(target)
         fired  == Fired(Completed(forced), NoSignal, forced, {}, keys)
     IN  \E recorded \in RecordedKeys(fired) :
           disk' = Saved(Activate(forced, Targets(fired)), recorded,
                         disk.received, disk.active)
  /\ ran' = {}
  /\ UNCHANGED <<pc, process, memory, running, awaited, keys, inbox, queued, bounds>>

(* `clear`, which nothing keeps from being called; here only between runs. *)
Clear ==
  /\ Down /\ disk # NoState
  /\ disk' = NoState
  /\ keys' = {}
  /\ queued' = <<>>
  /\ ran' = {}
  /\ UNCHANGED <<pc, process, memory, running, awaited, inbox, bounds>>

-----------------------------------------------------------------------------
(* Signals.  The environment sends while a run is up. *)
Send(m) ==
  /\ ~ Down
  /\ sends < MaxSends /\ sends' = sends + 1
  /\ inbox' = Append(inbox, m)
  /\ UNCHANGED <<pc, process, memory, running, awaited, keys, queued, disk,
                 runs, stops, ran>>

(* A signal no execution takes as its entry reaches the run's triggers.    *)
ForTriggers(m) == m \in Signal /\ EntryFor[m] = {}

(* _process_received_signal, on the message at the head of the socket.     *)
Process(m) ==
  IF ForTriggers(m)
  THEN LET fired == Fired(Completed(plan), m, plan, activated, keys)
       IN  /\ received' = received \cup {m.type}
           /\ plan' = Activate(plan, Targets(fired))
           /\ \E recorded \in RecordedKeys(fired) :
                activated' = activated \cup recorded
           /\ UNCHANGED queued
  ELSE /\ queued' = IF /\ opts.serve /\ m \in Signal
                       /\ \E e \in Exec : EntryFor[m] = {e}
                    THEN Append(queued, m) ELSE queued
       /\ UNCHANGED <<plan, activated, received>>

\* Mutant: whatever was received last becomes the active signal.
ActiveAfterAny(m) == m

ActiveAfter(m) == IF ForTriggers(m) THEN m ELSE active

(* _drain_incoming_signals, one message at a time.  An undecodable message *)
(* looks like an empty socket and ends the drain.                          *)
DrainOne ==
  /\ pc = "drain" /\ inbox # <<>>
  /\ Process(Head(inbox))
  /\ inbox' = Tail(inbox)
  /\ active' = ActiveAfter(Head(inbox))
  /\ pc' = IF Head(inbox) = Malformed THEN "select" ELSE "drain"
  /\ UNCHANGED <<process, reconciled, running, awaited, keys, disk, bounds, ran>>

DrainDone ==
  /\ pc = "drain" /\ inbox = <<>>
  /\ pc' = "select"
  /\ UNCHANGED <<process, memory, running, awaited, keys, inbox, queued, disk,
                 bounds, ran>>

-----------------------------------------------------------------------------
\* Mutant: the triggers recorded as activated are saved, not the executions.
SavedTriggersOnly == [disk EXCEPT !.activated = activated]

(* save_run_state alone: it writes the executions and triggers in memory,  *)
(* but the active signal and the signal types of the last full save.       *)
SavedPlan == [disk EXCEPT !.plan = plan, !.activated = activated]

(* The next runnable execution starts; cloning its repository first saves  *)
(* the plan, as it was before.                                             *)
Select(e) ==
  /\ pc = "select"
  /\ IsNext(e, plan, Skip)
  /\ pc' = "running"
  /\ plan' = [plan EXCEPT ![e] = "in_progress"]
  /\ current' = e /\ taskSignal' = active
  /\ \/ UNCHANGED disk
     \/ disk' = SavedPlan
  /\ UNCHANGED <<process, activated, received, active, reconciled, awaited,
                 keys, inbox, queued, bounds, ran>>

(* The execution has a wait_for_signal task, on which it may be blocked.    *)
MayAwaitSignal == pc \in {"running", "saving"} /\ TaskWaits[current] # {}

(* on_phase_completed and on_tasks_reset save with the context the run     *)
(* loop holds, not with the running execution's.                           *)
SaveProgress ==
  /\ pc = "running"
  /\ disk' = Saved(plan, activated, received, active)
  /\ UNCHANGED <<pc, process, memory, running, awaited, keys, inbox, queued,
                 bounds, ran>>

(* An agent or a hook sets or deletes a key some when_context reads.       *)
WriteKey(e) ==
  /\ pc = "running"
  /\ e \in GatedExec
  /\ keys' = IF e \in keys THEN keys \ {e} ELSE keys \cup {e}
  /\ UNCHANGED <<pc, process, memory, running, awaited, inbox, queued, disk,
                 bounds, ran>>

(* A wait_for_signal task reads the socket and drops everything but the    *)
(* signal one of its routes matches; that one becomes the execution's      *)
(* active signal, the task is saved, and then the new context is.          *)
TaskReceives ==
  /\ pc = "running" /\ inbox # <<>>
  /\ TaskWaits[current] # {}
  /\ inbox' = Tail(inbox)
  /\ IF Head(inbox) \in TaskWaits[current]
     THEN /\ pc' = "saving"
          /\ taskSignal' = Head(inbox)
          /\ disk' = Saved(plan, activated, received, active)
     ELSE UNCHANGED <<pc, taskSignal, disk>>
  /\ UNCHANGED <<process, memory, current, awaited, keys, queued, bounds, ran>>

TaskSavesContext ==
  /\ pc = "saving"
  /\ pc' = "running"
  /\ disk' = Saved(plan, activated, received, taskSignal)
  /\ UNCHANGED <<process, memory, running, awaited, keys, inbox, queued, bounds,
                 ran>>

\* Mutant: the completed execution is not saved.
CompletionUnsaved(done, next, recorded) == disk

\* Mutant: the run is saved before its triggers are evaluated.
CompletionSavedFirst(done, next, recorded) ==
  Saved(done, activated, received, taskSignal)

(* What is saved after the plan went from `done` to `next` by its triggers. *)
Completion(done, next, recorded) ==
  Saved(next, activated \cup recorded, received, taskSignal)

(* The execution completes, its triggers are evaluated, the run is saved.  *)
Complete ==
  /\ pc = "running"
  /\ LET done  == [plan EXCEPT ![current] = "completed"]
         fired == Fired({current}, taskSignal, done, activated, keys)
         next  == Activate(done, Targets(fired))
     IN  \E recorded \in RecordedKeys(fired) :
           /\ disk' = Completion(done, next, recorded)
           /\ IF current = opts.stopAfter
              THEN /\ pc' = "finished"
                   /\ Forget
              ELSE /\ pc' = "drain"
                   /\ plan' = next
                   /\ activated' = activated \cup recorded
                   /\ active' = taskSignal
                   /\ current' = NoExec /\ taskSignal' = NoSignal
                   /\ UNCHANGED <<nested, started, received, reconciled, awaited>>
  /\ ran' = ran \cup {current}
  /\ UNCHANGED <<opts, keys, inbox, queued, bounds>>

-----------------------------------------------------------------------------
Idle == pc = "select" /\ Runnable(plan, Skip) = {}

\* Mutant: checks that passed are not remembered.
NotRemembering(passed) == reconciled

Remembering(passed) == reconciled \cup {Key(t) : t \in passed}

(* reconcile_pending_signals: the check of every trigger in `passed`       *)
(* succeeded.  The recorded triggers are not passed to it, so it neither   *)
(* consults nor extends activated_triggers.                                *)
Reconcilable ==
  {t \in Triggers : /\ t.filtered
                    /\ t.after \in Completed(plan)
                    /\ plan[t.run] = "inactive"
                    /\ Key(t) \notin reconciled
                    /\ t.onSignal \in Checkable}

Reconcile(passed, payload) ==
  /\ Idle
  /\ passed # {}
  /\ \A t, u \in passed : Key(t) = Key(u) => t = u
  /\ \A t \in passed : payload[t] \in t.when
  /\ LET Synthetic(t) == [type |-> t.onSignal, payload |-> payload[t]]
         fired == UNION {Fired({t.after}, Synthetic(t), plan, {}, keys) : t \in passed}
     IN  plan' = Activate(plan, Targets(fired))
  /\ reconciled' = Remembering(passed)
  /\ received' = received \cup {t.onSignal : t \in passed}
  /\ pc' = "drain"
  /\ UNCHANGED <<process, activated, active, running, awaited, keys, inbox,
                 queued, disk, bounds, ran>>

(* No check passed and a trigger still waits for its signal. *)
BeginWait ==
  /\ Idle
  /\ PendingTypes(plan, received) # {}
  /\ pc' = "waiting"
  /\ awaited' = PendingTypes(plan, received)
  /\ UNCHANGED <<process, memory, running, keys, inbox, queued, disk, bounds, ran>>

\* Mutant: only when no type is pending any more.
PendingGone == PendingTypes(plan', received') = {}

PendingChanged == PendingTypes(plan', received') # awaited

(* _wait_for_signal returns to the loop once the pending types changed.    *)
WaitReceives ==
  /\ pc = "waiting" /\ inbox # <<>>
  /\ Process(Head(inbox))
  /\ inbox' = Tail(inbox)
  /\ IF PendingChanged
     THEN /\ pc' = "drain"
          /\ awaited' = {}
          /\ active' = ActiveAfter(Head(inbox))
     ELSE UNCHANGED <<pc, awaited, active>>
  /\ UNCHANGED <<process, reconciled, running, keys, disk, bounds, ran>>

(* Nothing is left to run or to wait for: the run returns, or raises "No   *)
(* runnable executions remain for active run plan".                        *)
Finish ==
  /\ Idle
  /\ PendingTypes(plan, received) = {}
  /\ pc' = IF AllBlockedBySkip(plan, Skip) THEN "finished" ELSE "stuck"
  /\ Forget
  /\ UNCHANGED <<opts, keys, inbox, queued, disk, bounds, ran>>

-----------------------------------------------------------------------------
Stop == stops < MaxStops /\ stops' = stops + 1 /\ UNCHANGED <<runs, sends>>

(* The process dies, at any point. *)
Crash ==
  /\ ~ Down
  /\ Stop
  /\ pc' = "idle"
  /\ Forget
  /\ inbox' = <<>>
  /\ UNCHANGED <<opts, keys, queued, disk, ran>>

(* Cloning, routing, a hook or an agent fails and the error ends the run,  *)
(* with no save.                                                           *)
Fail ==
  /\ pc = "running" \/ (pc = "select" /\ Runnable(plan, Skip) # {})
  /\ Stop
  /\ pc' = "failed"
  /\ Forget
  /\ UNCHANGED <<opts, keys, inbox, queued, disk, ran>>

(* The agent is interrupted.  The schedule a serve worker re-enters while  *)
(* it handles an earlier interrupt reports it as a failure.                *)
Interrupt ==
  /\ pc = "running"
  /\ Stop
  /\ IF nested = 1
     THEN /\ pc' = "failed"
          /\ Forget
     ELSE /\ pc' = "interrupted"
          /\ UNCHANGED <<process, memory, running, awaited>>
  /\ UNCHANGED <<opts, keys, inbox, queued, disk, ran>>

(* `run`: schedule() is called again on the executions still in memory,    *)
(* with the signal the process started with.  Choosing to skip the task    *)
(* saves them first.                                                       *)
RerunInMemory ==
  /\ pc = "interrupted" /\ ~ opts.serve
  /\ pc' = "starting"
  /\ active' = started
  /\ received' = disk.received \cup TypeOf(started)
  /\ reconciled' = {}
  /\ current' = NoExec /\ taskSignal' = NoSignal
  /\ \/ UNCHANGED disk
     \/ disk' = SavedPlan
  /\ UNCHANGED <<process, plan, activated, awaited, keys, inbox, queued, bounds, ran>>

(* `serve`: the worker reads and drops messages until it is told how to    *)
(* resume, and then resumes from the state file without its --skip.        *)
DropWhileInterrupted ==
  /\ pc = "interrupted" /\ opts.serve /\ inbox # <<>>
  /\ inbox' = Tail(inbox)
  /\ UNCHANGED <<pc, process, memory, running, awaited, keys, queued, disk,
                 bounds, ran>>

ResumeFromDisk ==
  /\ pc = "interrupted" /\ opts.serve
  /\ LoadState
  /\ nested' = 1
  /\ current' = NoExec /\ taskSignal' = NoSignal
  /\ UNCHANGED <<opts, awaited, keys, inbox, queued, disk, bounds, ran>>

Abort ==
  /\ pc = "interrupted"
  /\ pc' = "failed"
  /\ Forget
  /\ UNCHANGED <<opts, keys, inbox, queued, disk, bounds, ran>>

-----------------------------------------------------------------------------
Scheduling ==
  \/ SaveFresh \/ SaveResumed
  \/ DrainOne \/ DrainDone
  \/ \E e \in Exec : Select(e)
  \/ \E passed \in SUBSET Reconcilable :
       \E payload \in [passed -> Payload] : Reconcile(passed, payload)
  \/ BeginWait \/ WaitReceives \/ Finish

Running ==
  \/ SaveProgress \/ TaskReceives \/ TaskSavesContext \/ Complete
  \/ \E e \in Exec : WriteKey(e)

Environment ==
  \/ \E e \in Exec, sig \in Signal \cup {NoSignal} : StartFresh(e, sig)
  \/ Resume
  \/ \E e \in Exec : ForceResume(e)
  \/ Clear
  \/ \E m \in Messages : Send(m)
  \/ Crash \/ Fail \/ Interrupt
  \/ RerunInMemory \/ DropWhileInterrupted \/ ResumeFromDisk \/ Abort

Next == Scheduling \/ Running \/ Environment

Spec == Init /\ [][Next]_vars

(***************************************************************************)
(* The scheduler is a loop that always takes its next step, and agents and *)
(* hooks eventually return; an execution with a wait_for_signal task may   *)
(* not.  Nobody has to send a signal, start a run or resume one.           *)
(***************************************************************************)
Fairness ==
  /\ WF_vars(Scheduling)
  /\ WF_vars(TaskSavesContext)
  /\ WF_vars(~ MayAwaitSignal /\ Complete)

FairSpec == Spec /\ Fairness

-----------------------------------------------------------------------------
(* Type correctness of the schedule's memory and of the state file.        *)
TypeOK ==
  /\ pc \in Location
  /\ opts \in Options
  /\ nested \in {0, 1}
  /\ started \in Signal \cup {NoSignal}
  /\ plan \in Plan
  /\ activated \subseteq TriggerKey
  /\ received \subseteq SignalType
  /\ active \in Signal \cup {NoSignal}
  /\ reconciled \subseteq TriggerKey
  /\ current \in Exec \cup {NoExec}
  /\ pc \in {"running", "saving"} => current \in Exec
  /\ taskSignal \in Signal \cup {NoSignal}
  /\ awaited \subseteq SignalType
  /\ keys \subseteq Exec
  /\ inbox \in Seq(Messages)
  /\ queued \in Seq(Signal)
  /\ disk \in Snapshot \cup {NoState}
  /\ disk = NoState => Down \/ pc = "fresh"
  /\ runs \in Nat /\ sends \in Nat /\ stops \in Nat
  /\ ran \subseteq Exec

(* P holds of the plan in memory and of the plan a resume would load.      *)
OfBothPlans(P(_)) == P(plan) /\ (disk # NoState => P(disk.plan))

(* However signals, completions, crashes and forced resumes interleave, an *)
(* active execution never lacks an active dependency: otherwise it could   *)
(* never become runnable (activate_execution_with_dependencies).           *)
NeededAreActive == OfBothPlans(PlanClosed)

(* No execution is started before everything it depends on has completed,  *)
(* in this process or in the run a resume takes up (execution_is_runnable, *)
(* rewrite_state_for_forced_resume).                                       *)
DepsBeforeDependents == OfBothPlans(DepsFirst)

(* At no moment does the state file hold a completed execution without     *)
(* what it unconditionally triggers, so that no crash loses a trigger.     *)
TriggersNotLost == OfBothPlans(TriggersFollowed)

(* A trigger recorded as activated has its execution in the same plan: one *)
(* that is recorded but was not followed would never fire again.           *)
RecordedWereFollowed ==
  /\ \A k \in activated : k[3] \in Active(plan)
  /\ disk # NoState => \A k \in disk.activated : k[3] \in Active(disk.plan)

(* An execution that completed is not run again by the same run, whatever  *)
(* crashes, failures, interrupts and resumes come in between.              *)
RunsOnce == pc = "running" => current \notin ran

(* "No runnable executions remain for active run plan" is never raised: a  *)
(* run without runnable executions has finished or is blocked by --skip.   *)
NeverStuck == pc # "stuck"

(* What makes the above inductive: the state file has every completed      *)
(* execution of the run that is up, and nothing that was run is missing.   *)
Inductive ==
  /\ NeededAreActive /\ DepsBeforeDependents /\ TriggersNotLost
  /\ RecordedWereFollowed
  /\ NeverStuck
  /\ ~ Down /\ pc # "fresh" => Completed(plan) = Completed(disk.plan)
  /\ pc \in {"running", "saving"} => plan[current] = "in_progress"
  /\ disk # NoState => ran \subseteq Completed(disk.plan)

(* A run that ends by itself, nothing skipped, leaves a state file from    *)
(* which a resume has nothing to do.                                       *)
FinishedIsDone ==
  [][pc = "select" /\ pc' = "finished" /\ Skip = {}
       => Active(disk.plan) = Completed(disk.plan)]_vars

(* The state file goes through the steps of the abstract run plan.         *)
SavedExecutions == IF disk = NoState THEN Nothing ELSE disk.plan

RP == INSTANCE RunPlan WITH saved <- SavedExecutions

SavedPlanAdvances == RP!Spec

(* Nothing the schedule itself can do is left, unless it waits.            *)
Blocked == Down \/ pc = "interrupted" \/ MayAwaitSignal

(* A schedule cannot go round its loop for ever: it ends, or waits.        *)
RunsSettle == []<>(Blocked \/ pc = "waiting")

(* An execution that is runnable is eventually run to its end, if no two   *)
(* triggers share a signal type.                                           *)
RunnableIsRun ==
  \A e \in Exec : e \in Runnable(plan, Skip) ~> plan[e] = "completed" \/ Blocked

(* docs/SIGNALS.md:403: it waits when there are no runnable executions.    *)
WaitsOnlyWhenIdle == pc = "waiting" => Runnable(plan, Skip) = {}
=============================================================================
