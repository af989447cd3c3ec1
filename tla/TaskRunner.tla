----------------------------- MODULE TaskRunner -----------------------------
(***************************************************************************)
(* run_configured_execution and run_execution_sub_tasks: the sub-tasks of  *)
(* one execution, phase by phase, with the progress they save, the gotos   *)
(* and signal routes that send them back, failures, interrupts, crashes    *)
(* and resumes.                                                            *)
(*                                                                         *)
(* Every change of an execution's status is saved in the same call, so     *)
(* `phases` and `execPhases` are both the memory and the state file.  What *)
(* is done and the record of it are two steps: the process may stop in     *)
(* between.  The scheduler around the execution is module Scheduler.       *)
(***************************************************************************)
EXTENDS Naturals

CONSTANTS
  N,            \* number of sub-tasks
  Key,          \* context keys that `when` and must_set refer to
  Tasks,        \* the configuration of every sub-task
  ExecHooks,    \* the execution's hooks: a subset of {"before", "after", "onFailure"}
  SkipOptions,  \* sets of tasks a command line can --skip
  MaxStops      \* bound on crashes, failures, interrupts and forced resumes

Task == 1 .. N

Phase == {"before", "agent", "after"}

(***************************************************************************)
(* gate and key abstract `when`; jump is the goto of the task, 0 if it has *)
(* none; routes holds where the routes of a wait_for_signal task lead, 0   *)
(* standing for `continue`, and is empty for any other task.               *)
(***************************************************************************)
TaskConfig ==
  [prompt : BOOLEAN, hooks : BOOLEAN, onFailure : BOOLEAN, mustSet : SUBSET Key,
   gate : {"none", "set", "unset"}, key : Key,
   jump : 0 .. N, maxGoto : Nat \ {0}, onMaxGoto : {"fail", "continue"},
   routes : SUBSET (0 .. N)]

ASSUME TaskAssumption ==
  /\ N \in Nat \ {0}
  /\ Tasks \in [Task -> TaskConfig]
  /\ \A t \in Task :
       /\ Tasks[t].jump < t
       /\ \A r \in Tasks[t].routes : r < t
       /\ Tasks[t].jump # 0 => Tasks[t].gate # "none" /\ Tasks[t].routes = {}
       /\ Tasks[t].routes # {} => /\ ~ Tasks[t].prompt /\ ~ Tasks[t].onFailure
                                  /\ Tasks[t].mustSet = {}
  /\ ExecHooks \subseteq {"before", "after", "onFailure"}
  /\ SkipOptions \subseteq SUBSET Task
  /\ MaxStops \in Nat

VARIABLES
  pc,          \* where run_execution_sub_tasks is
  task,        \* task_index, from 1
  next,        \* goto_index of the wait task being run, 0 for None
  counts,      \* goto_counts
  skip,        \* the tasks this process was told to skip
  phases,      \* the phases recorded for every task
  execPhases,  \* before_completed and after_completed of the execution
  keys,        \* the context keys that are set
  stops,       \* counter for the bound
  ran,         \* history: what was done of every task since its last reset
  cut          \* history: the tasks a process left with more, or less, done
               \* than recorded

local == <<task, next, counts, skip>>
saved == <<phases, execPhases>>
history == <<ran, cut>>
vars == <<pc, local, saved, keys, stops, history>>

(* "down": no process runs the execution; "failed": the run ended with an  *)
(* error; the other places are named after what comes next.                *)
InTask == {"before", "beforeEnded", "agent", "agentEnded", "mustSet", "after",
           "afterEnded", "jump", "wait", "received", "waitJump", "waitAfter",
           "taskOnFailure"}

Location == InTask \cup {"down", "execBefore", "loop", "execAfter", "execOnFailure",
                         "interrupted", "completed", "failed"}

Down == pc \in {"down", "failed"}

Waits(t) == Tasks[t].routes # {}

Work == Phase \cup {"mustSet", "signal"}

(* What has to be done of a task: its phases and the validation of         *)
(* must_set, or its hooks and the arrival of the signal it waits for.      *)
WorkOf(t) ==
  IF Waits(t) THEN {"before", "signal", "after"} ELSE Phase \cup {"mustSet"}

(* The task that a stop at this place leaves with more done than recorded  *)
(* (the agent has ended) or with more recorded than done (the after hooks  *)
(* of a wait task, recorded as completed, are still to run).               *)
HalfDone ==
  IF pc \in {"agentEnded", "waitJump"} \/ (pc = "waitAfter" /\ next = 0)
  THEN {task} ELSE {}

-----------------------------------------------------------------------------
Init ==
  /\ pc = "down"
  /\ task = 1 /\ next = 0
  /\ counts = [t \in Task |-> 0]
  /\ skip = {}
  /\ phases = [t \in Task |-> {}]
  /\ execPhases = {}
  /\ keys = {}
  /\ stops = 0
  /\ ran = [t \in Task |-> {}]
  /\ cut = {}

(* The goto counts and the place in the list are not saved. *)
Enter ==
  /\ pc' = "execBefore"
  /\ task' = 1 /\ next' = 0
  /\ counts' = [t \in Task |-> 0]

(* The execution is taken up, for the first time or by a resume. *)
Start ==
  /\ Down
  /\ Enter
  /\ skip' \in SkipOptions
  /\ UNCHANGED <<saved, keys, stops, history>>

Stop == stops < MaxStops /\ stops' = stops + 1

(* `--resume execution/task`, or `--resume execution` when t is 0. *)
ForceResume(t) ==
  /\ Down \/ pc = "completed"
  /\ Stop
  /\ pc' = "down"
  /\ phases' = [u \in Task |-> IF u < t THEN Phase ELSE {}]
  /\ execPhases' = IF t = 0 THEN {} ELSE {"before"}
  /\ ran' = [u \in Task |-> IF u < t THEN Work ELSE {}]
  /\ cut' = {}
  /\ UNCHANGED <<local, keys>>

-----------------------------------------------------------------------------
(* The execution's own before and after hooks, unless they are recorded.   *)
Record(phase) ==
  IF phase \in ExecHooks THEN execPhases \cup {phase} ELSE execPhases

ExecBefore ==
  /\ pc = "execBefore"
  /\ pc' = "loop"
  /\ execPhases' = Record("before")
  /\ UNCHANGED <<local, phases, keys, stops, history>>

ExecAfter ==
  /\ pc = "execAfter"
  /\ pc' = "completed"
  /\ execPhases' = Record("after")
  /\ UNCHANGED <<local, phases, keys, stops, history>>

-----------------------------------------------------------------------------
WhenMet(t) ==
  CASE Tasks[t].gate = "none"  -> TRUE
    [] Tasks[t].gate = "set"   -> Tasks[t].key \in keys
    [] Tasks[t].gate = "unset" -> Tasks[t].key \notin keys

Passed(t) == "after" \in phases[t] \/ t \in skip \/ ~ WhenMet(t)

\* Mutant: the goto may fire once more than max_goto says.
ExhaustedLate(t) == Tasks[t].jump # 0 /\ counts[t] > Tasks[t].maxGoto

Exhausted(t) == Tasks[t].jump # 0 /\ counts[t] + 1 > Tasks[t].maxGoto

LoopEnds ==
  /\ pc = "loop" /\ task > N
  /\ pc' = "execAfter"
  /\ UNCHANGED <<local, saved, keys, stops, history>>

PassTask ==
  /\ pc = "loop" /\ task \in Task
  /\ Passed(task) \/ (Exhausted(task) /\ Tasks[task].onMaxGoto = "continue")
  /\ task' = task + 1
  /\ UNCHANGED <<pc, next, counts, skip, saved, keys, stops, history>>

(* An error leaves the task; the execution's on_failure hooks come next.   *)
Leave == pc' = IF "onFailure" \in ExecHooks THEN "execOnFailure" ELSE "failed"

GotoExhausted ==
  /\ pc = "loop" /\ task \in Task
  /\ ~ Passed(task) /\ Exhausted(task) /\ Tasks[task].onMaxGoto = "fail"
  /\ Leave
  /\ UNCHANGED <<local, saved, keys, stops, history>>

\* Mutant: a wait task is run like any other.
AfterBeforeNoWait(t) == IF "agent" \in phases[t] THEN "mustSet" ELSE "agent"

\* Mutant: the agent is run whatever is recorded.
AfterBeforeAgain(t) == IF Waits(t) THEN "wait" ELSE "agent"

\* Mutant: must_set is validated only by the process that ran the agent.
AfterBeforeUnchecked(t) ==
  IF Waits(t) THEN "wait" ELSE IF "agent" \in phases[t] THEN "after" ELSE "agent"

(* Where a task goes on once its before hooks have run. *)
AfterBefore(t) ==
  IF Waits(t) THEN "wait" ELSE IF "agent" \in phases[t] THEN "mustSet" ELSE "agent"

BeginTask ==
  /\ pc = "loop" /\ task \in Task
  /\ ~ Passed(task) /\ ~ Exhausted(task)
  /\ pc' = IF "before" \in phases[task] THEN AfterBefore(task) ELSE "before"
  /\ UNCHANGED <<local, saved, keys, stops, history>>

(* on_phase_completed. *)
Recorded(t, phase) == [phases EXCEPT ![t] = @ \cup {phase}]

Did(work) == ran' = [ran EXCEPT ![task] = @ \cup work]

(* The hooks of a phase, or the agent, have run; nothing records it yet.   *)
Ended == [before |-> "beforeEnded", agent |-> "agentEnded", after |-> "afterEnded"]

PhaseEnds ==
  /\ pc \in Phase
  /\ pc' = Ended[pc]
  /\ Did({pc})
  /\ UNCHANGED <<local, saved, keys, stops, cut>>

RecordBefore ==
  /\ pc = "beforeEnded"
  /\ pc' = AfterBefore(task)
  /\ phases' = IF Tasks[task].hooks /\ ~ Waits(task)
               THEN Recorded(task, "before") ELSE phases
  /\ UNCHANGED <<local, execPhases, keys, stops, history>>

RecordAgent ==
  /\ pc = "agentEnded"
  /\ pc' = "mustSet"
  /\ phases' = Recorded(task, "agent")
  /\ cut' = cut \ {task}
  /\ UNCHANGED <<local, execPhases, keys, stops, ran>>

MustSetValid ==
  /\ pc = "mustSet"
  /\ Tasks[task].mustSet \subseteq keys
  /\ pc' = "after"
  /\ Did({"mustSet"})
  /\ UNCHANGED <<local, saved, keys, stops, cut>>

RecordAfter ==
  /\ pc = "afterEnded"
  /\ phases' = Recorded(task, "after")
  /\ IF Tasks[task].jump = 0
     THEN pc' = "loop" /\ task' = task + 1
     ELSE pc' = "jump" /\ UNCHANGED task
  /\ UNCHANGED <<next, counts, skip, execPhases, keys, stops, history>>

-----------------------------------------------------------------------------
\* Mutant: only the task the goto leads to is reset.
ResetOnlyTarget(target, f) == [f EXCEPT ![target] = {}]

(* _reset_tasks_from_goto: everything from the target on is forgotten.     *)
ResetFrom(target, f) == [t \in Task |-> IF t >= target THEN {} ELSE f[t]]

\* Mutant: the goto is not counted.
Uncounted(t) == counts

Counted(t) == [counts EXCEPT ![t] = @ + 1]

(* What is forgotten of a task is forgotten of its history as well.        *)
Forget(target) ==
  /\ phases' = ResetFrom(target, phases)
  /\ ran' = ResetFrom(target, ran)
  /\ cut' = {t \in cut : t < target}

Jump ==
  /\ pc = "jump"
  /\ pc' = "loop"
  /\ counts' = Counted(task)
  /\ Forget(Tasks[task].jump)
  /\ task' = Tasks[task].jump
  /\ UNCHANGED <<next, skip, execPhases, keys, stops>>

(* A signal arrives that one of the routes matches. *)
Receive(route) ==
  /\ pc = "wait"
  /\ route \in Tasks[task].routes
  /\ pc' = "received"
  /\ next' = route
  /\ Did({"signal"})
  /\ UNCHANGED <<task, counts, skip, saved, keys, stops, cut>>

(* The wait task is recorded as completed before its route is followed and *)
(* before its after hooks run.                                             *)
RecordWait ==
  /\ pc = "received"
  /\ pc' = IF next = 0 THEN "waitAfter" ELSE "waitJump"
  /\ phases' = Recorded(task, "after")
  /\ UNCHANGED <<local, execPhases, keys, stops, history>>

WaitJump ==
  /\ pc = "waitJump"
  /\ pc' = "waitAfter"
  /\ Forget(next)
  /\ UNCHANGED <<local, execPhases, keys, stops>>

(* The after hooks of the wait task have run; after a route that leads     *)
(* back they belong to the pass that has just been forgotten.              *)
WaitAfterDone ==
  /\ pc = "waitAfter"
  /\ pc' = "loop"
  /\ task' = IF next = 0 THEN task + 1 ELSE next
  /\ next' = 0
  /\ IF next = 0 THEN Did({"after"}) ELSE UNCHANGED ran
  /\ UNCHANGED <<counts, skip, saved, keys, stops, cut>>

-----------------------------------------------------------------------------
(* Hooks and agents set and delete context keys while they run. *)
WriteKey(k) ==
  /\ pc \in {"execBefore", "before", "agent", "after", "waitAfter", "execAfter"}
  /\ keys' = IF k \in keys THEN keys \ {k} ELSE keys \cup {k}
  /\ UNCHANGED <<pc, local, saved, stops, history>>

(* handle_sub_task_failure: the task's on_failure hooks, then the error.   *)
FailTask == IF Tasks[task].onFailure THEN pc' = "taskOnFailure" ELSE Leave

MustSetMissing ==
  /\ pc = "mustSet"
  /\ ~ (Tasks[task].mustSet \subseteq keys)
  /\ FailTask
  /\ UNCHANGED <<local, saved, keys, stops, history>>

(* A hook or the agent of the task fails. *)
TaskFails ==
  /\ \/ pc \in {"before", "after", "waitAfter"}
     \/ pc = "agent" /\ Tasks[task].prompt
  /\ Stop
  /\ FailTask
  /\ cut' = cut \cup HalfDone
  /\ UNCHANGED <<local, saved, keys, ran>>

(* One of the execution's own hooks fails. *)
ExecFails ==
  /\ pc \in {"execBefore", "execAfter"}
  /\ Stop
  /\ Leave
  /\ UNCHANGED <<local, saved, keys, history>>

(* Whether the on_failure hooks succeed or not, the error goes on.         *)
TaskOnFailure ==
  /\ pc = "taskOnFailure"
  /\ Leave
  /\ UNCHANGED <<local, saved, keys, stops, history>>

ExecOnFailure ==
  /\ pc = "execOnFailure"
  /\ pc' = "failed"
  /\ UNCHANGED <<local, saved, keys, stops, history>>

Crash ==
  /\ ~ Down /\ pc # "completed"
  /\ Stop
  /\ pc' = "down"
  /\ cut' = cut \cup HalfDone
  /\ UNCHANGED <<local, saved, keys, ran>>

(* An interrupted agent: no on_failure hook runs. *)
Interrupt ==
  /\ pc = "agent" /\ Tasks[task].prompt
  /\ Stop
  /\ pc' = "interrupted"
  /\ UNCHANGED <<local, saved, keys, history>>

(* Rerun, or skip, which records the agent as having run; `run` goes on    *)
(* with the tasks it was told to skip, `serve` with none.                  *)
ResumeInterrupted ==
  /\ pc = "interrupted"
  /\ Enter
  /\ skip' \in {skip, {}}
  /\ \/ UNCHANGED <<phases, history>>
     \/ phases' = Recorded(task, "agent") /\ Did({"agent"}) /\ cut' = cut \ {task}
  /\ UNCHANGED <<execPhases, keys, stops>>

Abort ==
  /\ pc = "interrupted"
  /\ pc' = "failed"
  /\ UNCHANGED <<local, saved, keys, stops, history>>

-----------------------------------------------------------------------------
Advance ==
  \/ ExecBefore \/ ExecAfter
  \/ LoopEnds \/ PassTask \/ GotoExhausted \/ BeginTask
  \/ PhaseEnds \/ RecordBefore \/ RecordAgent \/ RecordAfter
  \/ MustSetValid \/ MustSetMissing
  \/ Jump \/ RecordWait \/ WaitJump \/ WaitAfterDone
  \/ TaskOnFailure \/ ExecOnFailure

Environment ==
  \/ Start
  \/ \E t \in 0 .. N : ForceResume(t)
  \/ \E route \in 0 .. N : Receive(route)
  \/ \E k \in Key : WriteKey(k)
  \/ TaskFails \/ ExecFails \/ Crash \/ Interrupt \/ ResumeInterrupted \/ Abort

Next == Advance \/ Environment

Spec == Init /\ [][Next]_vars

(* The loop takes its next step, and hooks and agents eventually return.   *)
FairSpec == Spec /\ WF_vars(Advance)

-----------------------------------------------------------------------------
(* Types of the loop's variables and of the saved progress.                *)
TypeOK ==
  /\ pc \in Location
  /\ task \in 1 .. N + 1
  /\ pc \in InTask \cup {"interrupted"} => task \in Task
  /\ pc \in {"wait", "received", "waitJump", "waitAfter"} => Waits(task)
  /\ pc \in {"agent", "agentEnded", "mustSet", "after", "afterEnded", "jump", "interrupted"}
       => ~ Waits(task)
  /\ pc = "jump" => Tasks[task].jump # 0
  /\ pc = "waitJump" => next # 0
  /\ next \in 0 .. N
  /\ counts \in [Task -> Nat]
  /\ skip \in SkipOptions \cup {{}}
  /\ phases \in [Task -> SUBSET Phase]
  /\ execPhases \subseteq {"before", "after"}
  /\ keys \subseteq Key
  /\ stops \in Nat
  /\ ran \in [Task -> SUBSET Work]
  /\ cut \subseteq Task

(* The after hooks of a wait task are still to run although it is recorded *)
(* as completed, or never will: the process stopped, or they failed.       *)
AfterPending(t) == Waits(t) /\ t \in cut \cup HalfDone

(* What is recorded of a task was done since it was last reset.  A task    *)
(* recorded as completed went through all its phases and through the       *)
(* validation of must_set, perhaps in several processes; of a wait task    *)
(* nothing but the after hooks can be missing (run_sub_task,               *)
(* _handle_wait_for_signal).                                               *)
RecordedWasDone ==
  \A t \in Task :
    /\ phases[t] \ {"after"} \subseteq ran[t]
    /\ "after" \in phases[t] =>
         WorkOf(t) \ (IF AfterPending(t) THEN {"after"} ELSE {}) \subseteq ran[t]

(* An agent that has run is not run again, in this process or after a      *)
(* resume, unless a goto has reset its task or the process stopped between *)
(* the end of the agent and the record of it.                              *)
AgentNotRepeated ==
  pc = "agent" /\ "agent" \in ran[task] => task \in cut

(* Neither `when`, nor --skip, nor a wait can pass over the task.          *)
Unconditional(t) ==
  Tasks[t].gate = "none" /\ \A s \in SkipOptions : t \notin s

(* Whatever gotos, crashes and resumes come in between, nothing is         *)
(* recorded of a task while an earlier unconditional one is not completed. *)
SavedInOrder ==
  \A t, u \in Task :
    Unconditional(t) /\ t < u /\ phases[u] # {} => "after" \in phases[t]

(* No goto of a task fires more often than max_goto in one process.        *)
GotoBounded == \A t \in Task : counts[t] <= Tasks[t].maxGoto

(* The task the loop is at, or is about to return to. *)
Place == IF pc = "waitAfter" /\ next # 0 THEN next ELSE task

(* What has been done of the task the loop is in. *)
DoneHere ==
  CASE pc \in {"beforeEnded", "agent", "wait"} -> {"before"}
    [] pc \in {"agentEnded", "mustSet"} -> {"before", "agent"}
    [] pc = "after" -> {"before", "agent", "mustSet"}
    [] pc = "afterEnded" -> WorkOf(task)
    [] pc \in {"received", "waitJump"} -> {"before", "signal"}
    [] pc = "waitAfter" /\ next = 0 -> {"before", "signal"}
    [] OTHER -> {}

(* What makes the above inductive: what the place in the loop tells of the *)
(* task there and of those before it, and what is left of a task that was  *)
(* cut short.                                                              *)
Inductive ==
  /\ RecordedWasDone /\ AgentNotRepeated /\ SavedInOrder /\ GotoBounded
  /\ pc \in InTask => DoneHere \subseteq ran[task]
  /\ \A t \in Task : "agent" \in ran[t] =>
       \/ "agent" \in phases[t]
       \/ ~ Waits(t) /\ t \in cut
       \/ pc = "agentEnded" /\ t = task
  /\ pc = "agent" => "agent" \notin phases[task]
  /\ pc \in InTask /\ Tasks[task].jump # 0 => counts[task] < Tasks[task].maxGoto
  /\ pc \in {"received", "waitJump", "waitAfter"} => next \in Tasks[task].routes
  /\ pc = "waitAfter" /\ next = 0 => "after" \in phases[task]
  /\ ~ Down /\ pc \notin {"completed", "execOnFailure"} =>
       \A t \in Task : Unconditional(t) /\ t < Place => "after" \in phases[t]

(* The loop never goes round for ever: it stops, or waits for a signal or  *)
(* for the user.                                                           *)
Settles == []<>(Down \/ pc \in {"completed", "wait", "interrupted"})
=============================================================================
