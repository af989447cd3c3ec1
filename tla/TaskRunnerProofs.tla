-------------------------- MODULE TaskRunnerProofs --------------------------
(***************************************************************************)
(* The invariants of TaskRunner hold for every list of sub-tasks.          *)
(***************************************************************************)
EXTENDS TaskRunner, TLAPS

(* What configuration loading says of a task, by itself.                   *)
LEMMA ConfigTypes ==
  ASSUME NEW t \in Task
  PROVE  /\ Tasks[t].jump \in 0 .. N /\ Tasks[t].jump < t
         /\ Tasks[t].maxGoto \in Nat \ {0}
         /\ Tasks[t].routes \subseteq 0 .. N
         /\ \A r \in Tasks[t].routes : r < t
         /\ Waits(t) => Tasks[t].jump = 0
         /\ Tasks[t].jump # 0 => Tasks[t].gate # "none"
BY TaskAssumption DEF TaskConfig, Waits

(* Recording a phase keeps the type of the saved progress.                 *)
LEMMA RecordedTypes ==
  ASSUME phases \in [Task -> SUBSET Phase], NEW t \in Task, NEW f \in Phase
  PROVE  Recorded(t, f) \in [Task -> SUBSET Phase]
BY DEF Recorded

(* Where an execution that fails goes next.                                *)
LEMMA LeaveTypes ==
  ASSUME Leave
  PROVE  pc' \in {"execOnFailure", "failed"}
BY DEF Leave

(* Where a task that fails goes next.                                      *)
LEMMA FailTypes ==
  ASSUME FailTask
  PROVE  pc' \in {"taskOnFailure", "execOnFailure", "failed"}
BY DEF FailTask, Leave

(* Where a task goes after its before hooks.                               *)
LEMMA AfterBeforeTypes ==
  ASSUME NEW t \in Task
  PROVE  /\ AfterBefore(t) \in {"wait", "mustSet", "agent"}
         /\ AfterBefore(t) = "wait" <=> Waits(t)
BY DEF AfterBefore

(* The steps of the sub-task loop keep the types.                          *)
LEMMA AdvanceTypes == ASSUME TypeOK, Advance PROVE TypeOK'
<1> USE DEF TypeOK, local, saved, history, Location, InTask
<1>1. CASE ExecBefore
  BY <1>1 DEF ExecBefore, Record
<1>2. CASE ExecAfter
  BY <1>2 DEF ExecAfter, Record
<1>3. CASE LoopEnds
  BY <1>3 DEF LoopEnds
<1>4. CASE PassTask
  BY <1>4, TaskAssumption DEF PassTask, Task
<1>5. CASE GotoExhausted
  BY <1>5, LeaveTypes DEF GotoExhausted
<1>6. CASE BeginTask
  BY <1>6, AfterBeforeTypes DEF BeginTask
<1>7. CASE RecordBefore
  <2>1. phases' \in [Task -> SUBSET Phase]
    BY <1>7, RecordedTypes DEF RecordBefore, Phase
  <2> QED
    BY <1>7, <2>1, AfterBeforeTypes DEF RecordBefore
<1>8. CASE RecordAgent
  <2>1. phases' \in [Task -> SUBSET Phase]
    BY <1>8, RecordedTypes DEF RecordAgent, Phase
  <2> QED
    BY <1>8, <2>1 DEF RecordAgent
<1>9. CASE MustSetValid
  BY <1>9 DEF MustSetValid, Did, Work
<1>10. CASE MustSetMissing
  BY <1>10, FailTypes DEF MustSetMissing
<1>11. CASE RecordAfter
  <2>1. phases' \in [Task -> SUBSET Phase]
    BY <1>11, RecordedTypes DEF RecordAfter, Phase
  <2>3. task \in Task /\ task + 1 \in 1 .. N + 1 /\ task \in 1 .. N + 1
    BY <1>11, TaskAssumption DEF RecordAfter, Task
  <2>4. CASE Tasks[task].jump = 0
    BY <1>11, <2>1, <2>3, <2>4 DEF RecordAfter
  <2>5. CASE Tasks[task].jump # 0
    BY <1>11, <2>1, <2>3, <2>5 DEF RecordAfter
  <2> QED
    BY <2>4, <2>5
<1>12. CASE Jump
  <2>1. task \in Task /\ Tasks[task].jump \in 1 .. N
    BY <1>12, ConfigTypes DEF Jump
  <2>2. /\ phases' \in [Task -> SUBSET Phase] /\ ran' \in [Task -> SUBSET Work]
        /\ cut' \subseteq Task
    BY <1>12 DEF Jump, Forget, ResetFrom
  <2>3. counts' \in [Task -> Nat]
    BY <1>12 DEF Jump, Counted
  <2>4. task' \in 1 .. N + 1
    BY <1>12, <2>1, TaskAssumption DEF Jump
  <2> QED
    BY <1>12, <2>1, <2>2, <2>3, <2>4, TaskAssumption DEF Jump
<1>13. CASE WaitJump
  <2>1. /\ phases' \in [Task -> SUBSET Phase] /\ ran' \in [Task -> SUBSET Work]
        /\ cut' \subseteq Task
    BY <1>13 DEF WaitJump, Forget, ResetFrom
  <2> QED
    BY <1>13, <2>1, TaskAssumption DEF WaitJump
<1>14. CASE WaitAfterDone
  <2>1. task' \in 1 .. N + 1
    BY <1>14, TaskAssumption DEF WaitAfterDone, Task
  <2>2. ran' \in [Task -> SUBSET Work]
    BY <1>14 DEF WaitAfterDone, Did, Work, Phase
  <2> QED
    BY <1>14, <2>1, <2>2, TaskAssumption DEF WaitAfterDone
<1>15. CASE TaskOnFailure
  BY <1>15, LeaveTypes DEF TaskOnFailure
<1>16. CASE ExecOnFailure
  BY <1>16 DEF ExecOnFailure
<1>17. CASE PhaseEnds
  <2>1. pc' \in {"beforeEnded", "agentEnded", "afterEnded"}
        /\ (pc' # "beforeEnded" => pc \in {"agent", "after"})
    BY <1>17 DEF PhaseEnds, Phase, Ended
  <2>2. ran' \in [Task -> SUBSET Work]
    BY <1>17 DEF PhaseEnds, Did, Work
  <2> QED
    BY <1>17, <2>1, <2>2 DEF PhaseEnds, Phase
<1>18. CASE RecordWait
  <2>1. phases' \in [Task -> SUBSET Phase]
    BY <1>18, RecordedTypes DEF RecordWait, Phase
  <2> QED
    BY <1>18, <2>1 DEF RecordWait
<1> QED
  BY <1>1, <1>2, <1>3, <1>4, <1>5, <1>6, <1>7, <1>8, <1>9, <1>10, <1>11, <1>12,
     <1>13, <1>14, <1>15, <1>16, <1>17, <1>18 DEF Advance

(* So do the steps around it.                                              *)
LEMMA EnvironmentTypes == ASSUME TypeOK, Environment PROVE TypeOK'
<1> USE DEF TypeOK, local, saved, history, Location, InTask
<1>1. CASE Start
  BY <1>1, TaskAssumption DEF Start, Enter, Task
<1>2. ASSUME NEW t \in 0 .. N, ForceResume(t) PROVE TypeOK'
  BY <1>2, TaskAssumption DEF ForceResume, Stop, Work
<1>3. ASSUME NEW route \in 0 .. N, Receive(route) PROVE TypeOK'
  <2>1. ran' \in [Task -> SUBSET Work]
    BY <1>3 DEF Receive, Did, Work
  <2> QED
    BY <1>3, <2>1 DEF Receive
<1>4. ASSUME NEW k \in Key, WriteKey(k) PROVE TypeOK'
  BY <1>4 DEF WriteKey
<1>5. CASE TaskFails
  BY <1>5, FailTypes DEF TaskFails, Stop, HalfDone
<1>6. CASE ExecFails
  BY <1>6, LeaveTypes DEF ExecFails, Stop
<1>7. CASE Crash
  BY <1>7 DEF Crash, Stop, HalfDone
<1>8. CASE Interrupt
  BY <1>8 DEF Interrupt, Stop
<1>9. CASE ResumeInterrupted
  <2>1. Recorded(task, "agent") \in [Task -> SUBSET Phase]
    BY <1>9, RecordedTypes DEF ResumeInterrupted, Phase
  <2>2. /\ phases' \in [Task -> SUBSET Phase] /\ ran' \in [Task -> SUBSET Work]
        /\ cut' \subseteq Task
    BY <1>9, <2>1 DEF ResumeInterrupted, Did, Work, Phase
  <2> QED
    BY <1>9, <2>2, TaskAssumption DEF ResumeInterrupted, Enter, Task
<1>10. CASE Abort
  BY <1>10 DEF Abort
<1> QED
  BY <1>1, <1>2, <1>3, <1>4, <1>5, <1>6, <1>7, <1>8, <1>9, <1>10 DEF Environment

(* The loop's variables and the saved progress keep their types; the loop  *)
(* is never at a phase that the task there does not have.                  *)
THEOREM TypeCorrect == Spec => []TypeOK
<1>1. Init => TypeOK
  BY TaskAssumption DEF Init, TypeOK, Location, InTask, Task
<1>2. TypeOK /\ UNCHANGED vars => TypeOK'
  BY DEF TypeOK, vars, local, saved, history
<1>3. TypeOK /\ [Next]_vars => TypeOK'
  BY <1>2, AdvanceTypes, EnvironmentTypes DEF Next
<1> QED
  BY <1>1, <1>3, PTL DEF Spec
-----------------------------------------------------------------------------
(* GotoBounded, with what BeginTask has checked of the task being run.     *)
CountInv ==
  /\ GotoBounded
  /\ pc \in InTask /\ Tasks[task].jump # 0 => counts[task] < Tasks[task].maxGoto

(* Steps that count nothing keep the counts bounded.                       *)
LEMMA CountsKept ==
  ASSUME TypeOK, CountInv, UNCHANGED counts,
         \/ pc' \notin InTask
         \/ UNCHANGED task /\ pc \in InTask
  PROVE  CountInv'
<1>1. pc \in InTask => task \in Task
  BY DEF TypeOK
<1> QED
  BY <1>1 DEF CountInv, GotoBounded

(* Every step keeps the counts bounded.                                    *)
LEMMA CountStep == ASSUME TypeOK, CountInv, [Next]_vars PROVE CountInv'
<1> USE DEF local, saved, history
<1>1. CASE BeginTask
  <2>1. task \in Task /\ counts[task] \in Nat /\ ~ Exhausted(task)
    BY <1>1 DEF BeginTask, TypeOK
  <2>2. Tasks[task].jump # 0 => counts[task] < Tasks[task].maxGoto
    BY <2>1, ConfigTypes DEF Exhausted
  <2> QED
    BY <1>1, <2>2 DEF BeginTask, CountInv, GotoBounded
<1>2. CASE Jump
  <2>1. task \in Task /\ Tasks[task].jump # 0
    BY <1>2 DEF Jump, TypeOK, InTask
  <2>2. counts[task] \in Nat /\ counts[task] < Tasks[task].maxGoto
        /\ Tasks[task].maxGoto \in Nat
    BY <1>2, <2>1, ConfigTypes DEF Jump, TypeOK, CountInv, InTask
  <2>3. ASSUME NEW t \in Task PROVE counts'[t] <= Tasks[t].maxGoto
    <3>1. counts[t] \in Nat /\ counts[t] <= Tasks[t].maxGoto
      BY DEF TypeOK, CountInv, GotoBounded
    <3>2. counts'[t] = IF t = task THEN counts[t] + 1 ELSE counts[t]
      BY <1>2, <2>1 DEF Jump, Counted, TypeOK
    <3> QED
      BY <2>2, <3>1, <3>2
  <2> QED
    BY <1>2, <2>3 DEF Jump, CountInv, GotoBounded, InTask
<1>3. CASE Start \/ ResumeInterrupted
  <2>1. counts' = [t \in Task |-> 0] /\ pc' = "execBefore"
    BY <1>3 DEF Start, ResumeInterrupted, Enter
  <2>2. \A t \in Task : 0 <= Tasks[t].maxGoto
    BY ConfigTypes
  <2> QED
    BY <2>1, <2>2 DEF CountInv, GotoBounded, InTask
<1>4. CASE \/ ExecBefore \/ ExecAfter \/ LoopEnds \/ PassTask \/ GotoExhausted
           \/ TaskOnFailure \/ ExecOnFailure \/ WaitAfterDone
           \/ (\E t \in 0 .. N : ForceResume(t)) \/ ExecFails \/ Crash \/ Interrupt \/ Abort
  <2>1. UNCHANGED counts /\ pc' \notin InTask
    BY <1>4, LeaveTypes
    DEF ExecBefore, ExecAfter, LoopEnds, PassTask, GotoExhausted, TaskOnFailure,
        ExecOnFailure, WaitAfterDone, ForceResume, ExecFails, Crash, Interrupt,
        Abort, InTask
  <2> QED
    BY <2>1, CountsKept
<1>5. CASE \/ PhaseEnds \/ RecordBefore \/ RecordAgent \/ MustSetValid \/ MustSetMissing
           \/ RecordWait \/ WaitJump \/ (\E route \in 0 .. N : Receive(route)) \/ TaskFails
  <2>1. UNCHANGED <<counts, task>> /\ pc \in InTask
    BY <1>5
    DEF PhaseEnds, Phase, RecordBefore, RecordAgent, MustSetValid, MustSetMissing,
        RecordWait, WaitJump, Receive, TaskFails, InTask
  <2> QED
    BY <2>1, CountsKept
<1>6. CASE RecordAfter
  <2>1. CASE Tasks[task].jump = 0
    BY <1>6, <2>1, CountsKept DEF RecordAfter, InTask
  <2>2. CASE Tasks[task].jump # 0
    BY <1>6, <2>2, CountsKept DEF RecordAfter, InTask
  <2> QED
    BY <2>1, <2>2
<1>7. ASSUME NEW k \in Key, WriteKey(k) PROVE CountInv'
  BY <1>7 DEF WriteKey, CountInv, GotoBounded
<1>8. CASE UNCHANGED vars
  BY <1>8 DEF vars, CountInv, GotoBounded
<1> QED
  BY <1>1, <1>2, <1>3, <1>4, <1>5, <1>6, <1>7, <1>8 DEF Next, Advance, Environment
-----------------------------------------------------------------------------
(* A route that has been received is one of the task's.                    *)
RouteInv == pc \in {"received", "waitJump", "waitAfter"} => next \in Tasks[task].routes

(* Every step keeps the route.                                             *)
LEMMA RouteStep == ASSUME TypeOK, RouteInv, [Next]_vars PROVE RouteInv'
<1> USE DEF local, saved, history, RouteInv
<1>1. CASE RecordWait \/ WaitJump
  BY <1>1 DEF RecordWait, WaitJump
<1>2. ASSUME NEW route \in 0 .. N, Receive(route) PROVE RouteInv'
  BY <1>2 DEF Receive
<1>3. ASSUME NEW k \in Key, WriteKey(k) PROVE RouteInv'
  BY <1>3 DEF WriteKey
<1>4. CASE \/ ExecBefore \/ ExecAfter \/ LoopEnds \/ PassTask \/ GotoExhausted
           \/ TaskOnFailure \/ ExecOnFailure \/ MustSetMissing \/ TaskFails
           \/ Start \/ ExecFails \/ Crash \/ Interrupt \/ Abort \/ ResumeInterrupted
           \/ (\E t \in 0 .. N : ForceResume(t))
  BY <1>4, LeaveTypes, FailTypes
  DEF ExecBefore, ExecAfter, LoopEnds, PassTask, GotoExhausted, TaskOnFailure,
      ExecOnFailure, MustSetMissing, TaskFails, Start, Enter, ExecFails, Crash,
      Interrupt, Abort, ResumeInterrupted, ForceResume
<1>5. CASE \/ PhaseEnds \/ RecordAgent \/ RecordAfter \/ MustSetValid \/ Jump \/ WaitAfterDone
  BY <1>5
  DEF PhaseEnds, Phase, Ended, RecordAgent, RecordAfter, MustSetValid, Jump, WaitAfterDone
<1>6. CASE BeginTask \/ RecordBefore
  <2>1. task \in Task
    BY <1>6 DEF BeginTask, RecordBefore, TypeOK, InTask
  <2> QED
    BY <1>6, <2>1, AfterBeforeTypes DEF BeginTask, RecordBefore
<1>7. CASE UNCHANGED vars
  BY <1>7 DEF vars
<1> QED
  BY <1>1, <1>2, <1>3, <1>4, <1>5, <1>6, <1>7 DEF Next, Advance, Environment
-----------------------------------------------------------------------------
(* An agent that has run is recorded, or its task was cut short, or it has *)
(* only just ended; the one about to run is not recorded.                  *)
AgentInv ==
  /\ \A t \in Task : "agent" \in ran[t] =>
       \/ "agent" \in phases[t]
       \/ ~ Waits(t) /\ t \in cut
       \/ pc = "agentEnded" /\ t = task
  /\ pc = "agent" => "agent" \notin phases[task]

(* Forgetting a task forgets whether its agent has run.                    *)
LEMMA AgentForget ==
  ASSUME AgentInv, NEW g \in 1 .. N, Forget(g), pc # "agentEnded",
         pc' \in {"loop", "waitAfter"}
  PROVE  AgentInv'
<1>1. \A t \in Task : \/ ran'[t] = {}
                      \/ /\ phases'[t] = phases[t] /\ ran'[t] = ran[t]
                         /\ t \in cut => t \in cut'
  BY TaskAssumption DEF Forget, ResetFrom, Task
<1> QED
  BY <1>1 DEF AgentInv

(* Every step keeps the record of the agents.                              *)
LEMMA AgentStep == ASSUME TypeOK, AgentInv, [Next]_vars PROVE AgentInv'
<1> USE DEF local, saved, history
<1>0. /\ phases \in [Task -> SUBSET Phase] /\ ran \in [Task -> SUBSET Work]
      /\ pc \in InTask \cup {"interrupted"} => task \in Task
  BY DEF TypeOK
<1>1. CASE BeginTask
  <2>1. pc' = "agent" => "agent" \notin phases[task]
    BY <1>1 DEF BeginTask, AfterBefore
  <2>2. pc = "loop" /\ UNCHANGED <<task, phases, ran, cut>>
    BY <1>1 DEF BeginTask
  <2> QED
    BY <2>1, <2>2 DEF AgentInv
<1>2. CASE PhaseEnds
  <2>1. task \in Task /\ pc \in Phase /\ UNCHANGED <<task, phases, cut>>
        /\ pc' = Ended[pc]
    BY <1>0, <1>2 DEF PhaseEnds, Phase, InTask
  <2>2. \A t \in Task : ran'[t] = IF t = task THEN ran[t] \cup {pc} ELSE ran[t]
    BY <1>0, <1>2, <2>1 DEF PhaseEnds, Did
  <2>3. pc' # "agent" /\ (pc = "agent" => pc' = "agentEnded") /\ pc # "agentEnded"
    BY <2>1 DEF Phase, Ended
  <2> QED
    BY <2>1, <2>2, <2>3 DEF AgentInv
<1>3. CASE RecordBefore
  <2>1. /\ task \in Task /\ UNCHANGED <<task, ran, cut>> /\ pc = "beforeEnded"
        /\ pc' = AfterBefore(task)
        /\ phases' = Recorded(task, "before") \/ phases' = phases
    BY <1>0, <1>3 DEF RecordBefore, InTask
  <2>2. \A t \in Task : "agent" \in phases'[t] <=> "agent" \in phases[t]
    BY <1>0, <2>1 DEF Recorded
  <2>3. pc' # "agentEnded" /\ (pc' = "agent" => "agent" \notin phases[task])
    BY <2>1 DEF AfterBefore
  <2> QED
    BY <2>1, <2>2, <2>3 DEF AgentInv
<1>4. CASE RecordAgent
  <2>1. /\ task \in Task /\ UNCHANGED <<task, ran>> /\ pc = "agentEnded" /\ pc' = "mustSet"
        /\ phases' = Recorded(task, "agent") /\ cut' = cut \ {task}
    BY <1>0, <1>4 DEF RecordAgent, InTask
  <2>2. \A t \in Task : "agent" \in phases'[t] <=> "agent" \in phases[t] \/ t = task
    BY <1>0, <2>1 DEF Recorded
  <2> QED
    BY <2>1, <2>2 DEF AgentInv
<1>5. CASE RecordAfter \/ RecordWait
  <2>1. /\ task \in Task /\ UNCHANGED <<ran, cut>> /\ pc # "agentEnded"
        /\ phases' = Recorded(task, "after")
        /\ pc' \in {"loop", "jump", "waitAfter", "waitJump"}
    BY <1>0, <1>5 DEF RecordAfter, RecordWait, InTask
  <2>2. \A t \in Task : "agent" \in phases'[t] <=> "agent" \in phases[t]
    BY <1>0, <2>1 DEF Recorded
  <2> QED
    BY <2>1, <2>2 DEF AgentInv
<1>6. CASE MustSetValid \/ WaitAfterDone \/ (\E route \in 0 .. N : Receive(route))
  <2>1. /\ task \in Task /\ UNCHANGED <<phases, cut>> /\ pc # "agentEnded"
        /\ pc' \in {"after", "loop", "received"}
        /\ Did({"mustSet"}) \/ Did({"after"}) \/ Did({"signal"}) \/ ran' = ran
    BY <1>0, <1>6 DEF MustSetValid, WaitAfterDone, Receive, InTask
  <2>2. \A t \in Task : "agent" \in ran'[t] <=> "agent" \in ran[t]
    BY <1>0, <2>1 DEF Did
  <2> QED
    BY <2>1, <2>2 DEF AgentInv
<1>7. CASE Jump
  <2>1. Tasks[task].jump \in 1 .. N
    BY <1>7, ConfigTypes DEF Jump, TypeOK, InTask
  <2> QED
    BY <1>7, <2>1, AgentForget DEF Jump
<1>8. CASE WaitJump
  <2>1. next \in 1 .. N
    BY <1>8, TaskAssumption DEF WaitJump, TypeOK
  <2> QED
    BY <1>8, <2>1, AgentForget DEF WaitJump
<1>9. CASE Crash
  <2>1. UNCHANGED <<phases, ran>> /\ pc' = "down" /\ cut' = cut \cup HalfDone
    BY <1>9 DEF Crash
  <2>2. pc = "agentEnded" => ~ Waits(task) /\ task \in cut'
    BY <2>1 DEF TypeOK, HalfDone
  <2> QED
    BY <2>1, <2>2 DEF AgentInv
<1>10. CASE TaskFails
  <2>1. /\ UNCHANGED <<phases, ran>> /\ cut \subseteq cut'
        /\ pc # "agentEnded" /\ pc' # "agent"
    BY <1>10, FailTypes DEF TaskFails
  <2> QED
    BY <2>1 DEF AgentInv
<1>11. ASSUME NEW t \in 0 .. N, ForceResume(t) PROVE AgentInv'
  <2>1. /\ pc' = "down"
        /\ \A u \in Task : phases'[u] = Phase \/ ran'[u] = {}
    BY <1>11 DEF ForceResume
  <2> QED
    BY <2>1 DEF AgentInv, Phase
<1>12. CASE ResumeInterrupted
  <2>1. task \in Task /\ pc = "interrupted" /\ pc' = "execBefore"
    BY <1>0, <1>12 DEF ResumeInterrupted, Enter
  <2>2. CASE UNCHANGED <<phases, history>>
    BY <2>1, <2>2 DEF AgentInv
  <2>3. CASE phases' = Recorded(task, "agent") /\ Did({"agent"}) /\ cut' = cut \ {task}
    <3>1. \A t \in Task :
             /\ "agent" \in phases'[t] <=> "agent" \in phases[t] \/ t = task
             /\ t # task => ran'[t] = ran[t]
      BY <1>0, <2>1, <2>3 DEF Recorded, Did
    <3> QED
      BY <2>1, <2>3, <3>1 DEF AgentInv
  <2> QED
    BY <1>12, <2>2, <2>3 DEF ResumeInterrupted
<1>13. CASE \/ ExecBefore \/ ExecAfter \/ LoopEnds \/ PassTask \/ GotoExhausted
            \/ TaskOnFailure \/ ExecOnFailure \/ MustSetMissing
            \/ Start \/ ExecFails \/ Interrupt \/ Abort
  <2>1. UNCHANGED <<phases, ran, cut>> /\ pc # "agentEnded" /\ pc' # "agent"
    BY <1>13, LeaveTypes, FailTypes
    DEF ExecBefore, ExecAfter, LoopEnds, PassTask, GotoExhausted, TaskOnFailure,
        ExecOnFailure, MustSetMissing, Start, Enter, ExecFails, Interrupt, Abort,
        Down
  <2> QED
    BY <2>1 DEF AgentInv
<1>14. ASSUME NEW k \in Key, WriteKey(k) PROVE AgentInv'
  BY <1>14 DEF WriteKey, AgentInv
<1>15. CASE UNCHANGED vars
  BY <1>15 DEF vars, AgentInv
<1> QED
  BY <1>1, <1>2, <1>3, <1>4, <1>5, <1>6, <1>7, <1>8, <1>9, <1>10, <1>11, <1>12,
     <1>13, <1>14, <1>15 DEF Next, Advance, Environment
-----------------------------------------------------------------------------
(* RecordedWasDone, with what the place in a task tells of what has been   *)
(* done of it.                                                             *)
DoneInv ==
  /\ RecordedWasDone
  /\ pc \in InTask => DoneHere \subseteq ran[task]

(* Nothing more recorded, nothing less done, no pending hooks forgotten.   *)
LEMMA DoneKept ==
  ASSUME RecordedWasDone, UNCHANGED phases,
         \A t \in Task : ran[t] \subseteq ran'[t],
         \A t \in Task : AfterPending(t) => AfterPending(t)' \/ "after" \in ran'[t]
  PROVE  RecordedWasDone'
BY DEF RecordedWasDone, WorkOf

(* A phase is recorded that has been done.                                 *)
LEMMA DoneRecord ==
  ASSUME TypeOK, RecordedWasDone, task \in Task, NEW f \in Phase,
         phases' = Recorded(task, f), UNCHANGED ran,
         f # "after" => f \in ran[task],
         \A t \in Task : t = task /\ f = "after" =>
           WorkOf(t) \ (IF AfterPending(t)' THEN {"after"} ELSE {}) \subseteq ran[t],
         \A t \in Task : AfterPending(t) => AfterPending(t)'
  PROVE  RecordedWasDone'
<1>1. \A t \in Task : phases'[t] = IF t = task THEN phases[t] \cup {f} ELSE phases[t]
  BY DEF Recorded, TypeOK
<1>2. \A t \in Task : phases'[t] \ {"after"} \subseteq ran'[t]
  BY <1>1 DEF RecordedWasDone
<1>3. ASSUME NEW t \in Task, "after" \in phases'[t]
      PROVE  WorkOf(t) \ (IF AfterPending(t)' THEN {"after"} ELSE {}) \subseteq ran[t]
  <2>1. CASE t = task /\ f = "after"
    BY <2>1
  <2>2. CASE ~ (t = task /\ f = "after")
    <3>1. "after" \in phases[t]
      BY <1>1, <1>3, <2>2
    <3>2. WorkOf(t) \ (IF AfterPending(t) THEN {"after"} ELSE {}) \subseteq ran[t]
      BY <3>1 DEF RecordedWasDone
    <3> QED
      BY <3>2
  <2> QED
    BY <2>1, <2>2
<1>4. \A t : WorkOf(t)' = WorkOf(t)
  BY DEF WorkOf, Waits
<1> QED
  BY <1>2, <1>3, <1>4 DEF RecordedWasDone

(* A goto forgets what was done where it forgets what was recorded.        *)
LEMMA DoneForget ==
  ASSUME RecordedWasDone, NEW g \in 1 .. N, Forget(g),
         \A t \in Task : t < g /\ t \in HalfDone => ~ Waits(t)
  PROVE  RecordedWasDone'
<1>1. \A t \in Task :
        \/ phases'[t] = {} /\ ran'[t] = {}
        \/ /\ phases'[t] = phases[t] /\ ran'[t] = ran[t]
           /\ AfterPending(t) => AfterPending(t)'
  BY TaskAssumption DEF Forget, ResetFrom, Task, AfterPending
<1> QED
  BY <1>1 DEF RecordedWasDone, WorkOf

(* Every step keeps what is recorded truthful.                             *)
LEMMA DoneStep == ASSUME TypeOK, RouteInv, DoneInv, [Next]_vars PROVE DoneInv'
<1> USE DEF local, saved, history
<1>0. /\ phases \in [Task -> SUBSET Phase] /\ ran \in [Task -> SUBSET Work]
      /\ pc \in InTask \cup {"interrupted"} => task \in Task
      /\ RecordedWasDone
  BY DEF TypeOK, DoneInv
<1>1. CASE BeginTask
  <2>1. task \in Task /\ pc = "loop" /\ UNCHANGED <<task, next, phases, ran, cut>>
        /\ pc' = IF "before" \in phases[task] THEN AfterBefore(task) ELSE "before"
    BY <1>1 DEF BeginTask
  <2>2. RecordedWasDone'
    BY <1>0, <2>1, DoneKept DEF AfterPending, HalfDone
  <2>3. \A f \in {"before", "agent"} : f \in phases[task] => f \in ran[task]
    BY <1>0, <2>1 DEF RecordedWasDone
  <2>4. DoneHere' \subseteq ran[task]
    BY <2>1, <2>3 DEF DoneHere, AfterBefore
  <2> QED
    BY <2>1, <2>2, <2>4 DEF DoneInv
<1>2. CASE PhaseEnds
  <2>1. /\ task \in Task /\ pc \in Phase /\ UNCHANGED <<task, next, phases, cut>>
        /\ pc' = Ended[pc]
    BY <1>0, <1>2 DEF PhaseEnds, Phase, InTask
  <2>2. \A t \in Task : ran'[t] = IF t = task THEN ran[t] \cup {pc} ELSE ran[t]
    BY <1>0, <1>2, <2>1 DEF PhaseEnds, Did
  <2>3. RecordedWasDone'
    BY <1>0, <2>1, <2>2, DoneKept DEF AfterPending, HalfDone, Phase
  <2>4. DoneHere \subseteq ran[task]
    BY <2>1 DEF DoneInv, InTask, Phase
  <2>5. pc = "after" => WorkOf(task) = {"before", "agent", "after", "mustSet"}
    BY DEF TypeOK, WorkOf, Phase
  <2>6. DoneHere' \subseteq ran'[task]
    <3>1. CASE pc = "before"
      BY <2>1, <2>2, <3>1 DEF DoneHere, Ended
    <3>2. CASE pc = "agent"
      BY <2>1, <2>2, <2>4, <3>2 DEF DoneHere, Ended
    <3>3. CASE pc = "after"
      <4>1. pc' = "afterEnded" /\ WorkOf(task)' = WorkOf(task)
        BY <2>1, <3>3 DEF Ended, WorkOf, Waits
      <4>2. DoneHere = {"before", "agent", "mustSet"} /\ DoneHere' = WorkOf(task)
        BY <3>3, <4>1 DEF DoneHere
      <4> QED
        BY <2>1, <2>2, <2>4, <2>5, <3>3, <4>2
    <3> QED
      BY <2>1, <3>1, <3>2, <3>3 DEF Phase
  <2> QED
    BY <2>1, <2>3, <2>6 DEF DoneInv
<1>3. CASE RecordBefore
  <2>1. /\ task \in Task /\ UNCHANGED <<task, next, ran, cut>> /\ pc = "beforeEnded"
        /\ pc' = AfterBefore(task)
        /\ phases' = Recorded(task, "before") \/ phases' = phases
    BY <1>0, <1>3 DEF RecordBefore, InTask
  <2>2. "before" \in ran[task]
    BY <2>1 DEF DoneInv, DoneHere, InTask
  <2>3. \A t \in Task : AfterPending(t) => AfterPending(t)'
    BY <2>1 DEF AfterPending, HalfDone
  <2>4. RecordedWasDone'
    <3>1. CASE phases' = Recorded(task, "before")
      BY <1>0, <2>1, <2>2, <2>3, <3>1, DoneRecord DEF Phase
    <3>2. CASE phases' = phases
      BY <1>0, <2>1, <2>3, <3>2, DoneKept
    <3> QED
      BY <2>1, <3>1, <3>2
  <2>5. "agent" \in phases[task] => "agent" \in ran[task]
    BY <1>0, <2>1 DEF RecordedWasDone
  <2>6. DoneHere' \subseteq ran[task]
    BY <2>1, <2>2, <2>5 DEF DoneHere, AfterBefore
  <2> QED
    BY <2>1, <2>4, <2>6 DEF DoneInv
<1>4. CASE RecordAgent
  <2>1. /\ task \in Task /\ ~ Waits(task) /\ UNCHANGED <<task, next, ran>>
        /\ pc = "agentEnded" /\ pc' = "mustSet"
        /\ phases' = Recorded(task, "agent") /\ cut' = cut \ {task}
    BY <1>0, <1>4 DEF RecordAgent, InTask, TypeOK
  <2>2. {"before", "agent"} \subseteq ran[task]
    BY <2>1 DEF DoneInv, DoneHere, InTask
  <2>3. \A t \in Task : AfterPending(t) => AfterPending(t)'
    BY <2>1 DEF AfterPending, HalfDone
  <2>4. RecordedWasDone'
    BY <1>0, <2>1, <2>2, <2>3, DoneRecord DEF Phase
  <2> QED
    BY <2>1, <2>2, <2>4 DEF DoneInv, DoneHere
<1>5. CASE MustSetValid
  <2>1. task \in Task /\ pc = "mustSet" /\ pc' = "after" /\ UNCHANGED <<task, next, phases, cut>>
    BY <1>0, <1>5 DEF MustSetValid, InTask
  <2>2. \A t \in Task : ran'[t] = IF t = task THEN ran[t] \cup {"mustSet"} ELSE ran[t]
    BY <1>0, <1>5, <2>1 DEF MustSetValid, Did
  <2>3. RecordedWasDone'
    BY <1>0, <2>1, <2>2, DoneKept DEF AfterPending, HalfDone
  <2>4. {"before", "agent"} \subseteq ran[task]
    BY <2>1 DEF DoneInv, DoneHere, InTask
  <2> QED
    BY <2>1, <2>2, <2>3, <2>4 DEF DoneInv, DoneHere
<1>6. CASE RecordAfter
  <2>1. /\ task \in Task /\ UNCHANGED <<next, ran, cut>> /\ pc = "afterEnded"
        /\ phases' = Recorded(task, "after") /\ pc' \in {"loop", "jump"}
    BY <1>0, <1>6 DEF RecordAfter, InTask
  <2>2. WorkOf(task) \subseteq ran[task]
    BY <2>1 DEF DoneInv, DoneHere, InTask
  <2>3. \A t \in Task : AfterPending(t) => AfterPending(t)'
    BY <2>1 DEF AfterPending, HalfDone
  <2>4. RecordedWasDone'
    BY <1>0, <2>1, <2>2, <2>3, DoneRecord DEF Phase
  <2> QED
    BY <2>1, <2>4 DEF DoneInv, DoneHere
<1>7. CASE Jump
  <2>1. /\ Tasks[task].jump \in 1 .. N /\ pc = "jump" /\ pc' = "loop"
        /\ Forget(Tasks[task].jump)
    BY <1>7, ConfigTypes DEF Jump, TypeOK, InTask
  <2>2. RecordedWasDone'
    BY <1>0, <2>1, DoneForget DEF HalfDone
  <2> QED
    BY <2>1, <2>2 DEF DoneInv, InTask
<1>8. CASE WaitJump
  <2>1. /\ task \in Task /\ next \in 1 .. N /\ next < task
        /\ pc = "waitJump" /\ pc' = "waitAfter" /\ Forget(next) /\ UNCHANGED <<task, next>>
    BY <1>8, TaskAssumption, ConfigTypes DEF WaitJump, TypeOK, RouteInv, InTask
  <2>2. \A t \in Task : t < next /\ t \in HalfDone => ~ Waits(t)
    BY <2>1, TaskAssumption DEF HalfDone, Task
  <2>3. RecordedWasDone'
    BY <1>0, <2>1, <2>2, DoneForget
  <2>4. DoneHere' = {}
    BY <2>1 DEF DoneHere
  <2> QED
    BY <2>3, <2>4 DEF DoneInv
<1>9. ASSUME NEW route \in 0 .. N, Receive(route) PROVE DoneInv'
  <2>1. /\ task \in Task /\ pc = "wait" /\ pc' = "received" /\ UNCHANGED <<task, phases, cut>>
    BY <1>0, <1>9 DEF Receive, InTask
  <2>2. \A t \in Task : ran'[t] = IF t = task THEN ran[t] \cup {"signal"} ELSE ran[t]
    BY <1>0, <1>9, <2>1 DEF Receive, Did
  <2>3. RecordedWasDone'
    BY <1>0, <2>1, <2>2, DoneKept DEF AfterPending, HalfDone
  <2>4. {"before"} \subseteq ran[task]
    BY <2>1 DEF DoneInv, DoneHere, InTask
  <2> QED
    BY <2>1, <2>2, <2>3, <2>4 DEF DoneInv, DoneHere
<1>10. CASE RecordWait
  <2>1. /\ task \in Task /\ Waits(task) /\ pc = "received" /\ UNCHANGED <<task, next, ran, cut>>
        /\ pc' = IF next = 0 THEN "waitAfter" ELSE "waitJump"
        /\ phases' = Recorded(task, "after")
    BY <1>0, <1>10 DEF RecordWait, InTask, TypeOK
  <2>2. {"before", "signal"} \subseteq ran[task]
    BY <2>1 DEF DoneInv, DoneHere, InTask
  <2>3. AfterPending(task)' /\ \A t \in Task : AfterPending(t) => AfterPending(t)'
    BY <2>1 DEF AfterPending, HalfDone
  <2>4. WorkOf(task) \ {"after"} \subseteq ran[task]
    BY <2>1, <2>2 DEF WorkOf
  <2>5. RecordedWasDone'
    BY <1>0, <2>1, <2>3, <2>4, DoneRecord DEF Phase
  <2> QED
    BY <2>1, <2>2, <2>5 DEF DoneInv, DoneHere
<1>11. CASE WaitAfterDone
  <2>1. task \in Task /\ pc = "waitAfter" /\ pc' = "loop" /\ UNCHANGED <<phases, cut>>
    BY <1>0, <1>11 DEF WaitAfterDone, InTask
  <2>2. \A t \in Task : ran'[t] = IF next = 0 /\ t = task THEN ran[t] \cup {"after"} ELSE ran[t]
    BY <1>0, <1>11, <2>1 DEF WaitAfterDone, Did
  <2>3. RecordedWasDone'
    BY <1>0, <2>1, <2>2, DoneKept DEF AfterPending, HalfDone
  <2> QED
    BY <2>1, <2>3 DEF DoneInv, InTask
<1>12. CASE Crash \/ TaskFails
  <2>1. /\ UNCHANGED <<phases, ran>> /\ cut' = cut \cup HalfDone
        /\ pc' \in {"down", "taskOnFailure", "execOnFailure", "failed"}
    BY <1>12, FailTypes DEF Crash, TaskFails
  <2>2. RecordedWasDone'
    BY <1>0, <2>1, DoneKept DEF AfterPending
  <2> QED
    BY <2>1, <2>2 DEF DoneInv, DoneHere
<1>13. ASSUME NEW t \in 0 .. N, ForceResume(t) PROVE DoneInv'
  <2>1. /\ pc' = "down"
        /\ \A u \in Task : \/ phases'[u] = Phase /\ ran'[u] = Work
                           \/ phases'[u] = {} /\ ran'[u] = {}
    BY <1>13 DEF ForceResume
  <2> QED
    BY <2>1 DEF DoneInv, RecordedWasDone, WorkOf, Work, Phase, InTask
<1>14. CASE ResumeInterrupted
  <2>1. task \in Task /\ ~ Waits(task)
    BY <1>0, <1>14 DEF ResumeInterrupted, TypeOK
  <2>2. pc = "interrupted" /\ pc' = "execBefore"
    BY <1>14 DEF ResumeInterrupted, Enter
  <2>3. CASE UNCHANGED <<phases, history>>
    <3>1. RecordedWasDone'
      BY <1>0, <2>2, <2>3, DoneKept DEF AfterPending, HalfDone
    <3> QED
      BY <2>2, <3>1 DEF DoneInv, InTask
  <2>4. CASE phases' = Recorded(task, "agent") /\ Did({"agent"}) /\ cut' = cut \ {task}
    <3>1. \A t \in Task :
            /\ ran'[t] = IF t = task THEN ran[t] \cup {"agent"} ELSE ran[t]
            /\ phases'[t] = IF t = task THEN phases[t] \cup {"agent"} ELSE phases[t]
            /\ AfterPending(t) => AfterPending(t)'
      BY <1>0, <2>1, <2>2, <2>4 DEF Did, Recorded, AfterPending, HalfDone
    <3>2. RecordedWasDone'
      BY <1>0, <3>1 DEF RecordedWasDone, WorkOf
    <3> QED
      BY <2>2, <3>2 DEF DoneInv, InTask
  <2> QED
    BY <1>14, <2>3, <2>4 DEF ResumeInterrupted
<1>15. CASE \/ ExecBefore \/ ExecAfter \/ LoopEnds \/ PassTask \/ GotoExhausted
            \/ TaskOnFailure \/ ExecOnFailure \/ MustSetMissing
            \/ Start \/ ExecFails \/ Interrupt \/ Abort
  <2>1. /\ UNCHANGED <<phases, ran, cut>> /\ HalfDone = {}
        /\ pc' \notin InTask \/ pc' = "taskOnFailure"
    BY <1>15, LeaveTypes, FailTypes
    DEF ExecBefore, ExecAfter, LoopEnds, PassTask, GotoExhausted, TaskOnFailure,
        ExecOnFailure, MustSetMissing, Start, Enter, ExecFails, Interrupt, Abort,
        Down, HalfDone, InTask
  <2>2. RecordedWasDone'
    BY <1>0, <2>1, DoneKept DEF AfterPending
  <2> QED
    BY <2>1, <2>2 DEF DoneInv, DoneHere
<1>16. ASSUME NEW k \in Key, WriteKey(k) PROVE DoneInv'
  <2>1. UNCHANGED <<pc, task, next, phases, ran, cut>>
    BY <1>16 DEF WriteKey
  <2>2. RecordedWasDone'
    BY <1>0, <2>1, DoneKept DEF AfterPending, HalfDone
  <2> QED
    BY <2>1, <2>2 DEF DoneInv, DoneHere, WorkOf, Waits
<1>17. CASE UNCHANGED vars
  <2>1. UNCHANGED <<pc, task, next, phases, ran, cut>>
    BY <1>17 DEF vars
  <2>2. RecordedWasDone'
    BY <1>0, <2>1, DoneKept DEF AfterPending, HalfDone
  <2> QED
    BY <2>1, <2>2 DEF DoneInv, DoneHere, WorkOf, Waits
<1> QED
  BY <1>1, <1>2, <1>3, <1>4, <1>5, <1>6, <1>7, <1>8, <1>9, <1>10, <1>11, <1>12, <1>13,
     <1>14, <1>15, <1>16, <1>17 DEF Next, Advance, Environment
-----------------------------------------------------------------------------
(* SavedInOrder, with what it takes for the next task to keep it: the      *)
(* unconditional tasks before the place of the loop are completed.         *)
InLoop == ~ Down /\ pc \notin {"completed", "execOnFailure"}

OrderInv ==
  /\ SavedInOrder
  /\ pc = "waitAfter" /\ next = 0 => "after" \in phases[task]
  /\ InLoop => \A t \in Task : Unconditional(t) /\ t < Place => "after" \in phases[t]

(* Recording a phase of the current task keeps progress in order.          *)
LEMMA OrderRecord ==
  ASSUME TypeOK, OrderInv, task \in Task, InLoop, pc # "waitAfter", NEW f \in Phase,
         phases' = Recorded(task, f) \/ phases' = phases
  PROVE  /\ SavedInOrder'
         /\ \A t \in Task : Unconditional(t) /\ t < task => "after" \in phases'[t]
<1>1. phases \in [Task -> SUBSET Phase]
  BY DEF TypeOK
<1>2. \A t \in Task : \/ phases'[t] = phases[t]
                      \/ t = task /\ phases'[t] = phases[t] \cup {f}
  BY <1>1 DEF Recorded
<1>3. \A t \in Task : Unconditional(t) /\ t < task => "after" \in phases[t]
  BY DEF OrderInv, Place
<1>4. ASSUME NEW t \in Task, NEW u \in Task, Unconditional(t), t < u, phases'[u] # {}
      PROVE  "after" \in phases'[t]
  <2>1. CASE u = task
    BY <1>2, <1>3, <1>4, <2>1
  <2>2. CASE u # task
    BY <1>2, <1>4, <2>2 DEF OrderInv, SavedInOrder
  <2> QED
    BY <2>1, <2>2
<1> QED
  BY <1>2, <1>3, <1>4 DEF SavedInOrder

(* A goto keeps progress in order, and what is before its target.          *)
LEMMA OrderReset ==
  ASSUME TypeOK, OrderInv, NEW g \in 1 .. N, phases' = ResetFrom(g, phases)
  PROVE  /\ SavedInOrder'
         /\ \A t \in Task : t < g => phases'[t] = phases[t]
<1>1. \A t \in Task : phases'[t] = IF t >= g THEN {} ELSE phases[t]
  BY DEF ResetFrom
<1>2. \A t \in Task : t < g => phases'[t] = phases[t]
  BY <1>1, TaskAssumption DEF Task
<1>3. ASSUME NEW t \in Task, NEW u \in Task, Unconditional(t), t < u, phases'[u] # {}
      PROVE  "after" \in phases'[t]
  <2>1. ~ (u >= g) /\ phases[u] # {}
    BY <1>1, <1>3
  <2>2. t < g
    BY <1>3, <2>1, TaskAssumption DEF Task
  <2> QED
    BY <1>2, <1>3, <2>1, <2>2 DEF OrderInv, SavedInOrder
<1> QED
  BY <1>2, <1>3 DEF SavedInOrder

(* The loop goes past an unconditional task only when it is completed.     *)
LEMMA OrderPass ==
  ASSUME TypeOK, OrderInv, PassTask, Unconditional(task)
  PROVE  "after" \in phases[task]
<1>1. task \in Task
  BY DEF PassTask
<1>2. task \notin skip
  BY DEF TypeOK, Unconditional
<1>3. Tasks[task].gate = "none" /\ WhenMet(task)
  BY DEF Unconditional, WhenMet
<1>4. ~ Exhausted(task)
  BY <1>1, <1>3, ConfigTypes DEF Exhausted
<1> QED
  BY <1>2, <1>3, <1>4 DEF PassTask, Passed

(* Every step keeps progress in order.                                     *)
LEMMA OrderStep == ASSUME TypeOK, RouteInv, OrderInv, [Next]_vars PROVE OrderInv'
<1> USE DEF local, saved, history
<1>0. /\ task \in 1 .. N + 1 /\ task \in Nat /\ next \in 0 .. N /\ N \in Nat
      /\ \A t \in Task : t \in Nat
  BY TaskAssumption DEF TypeOK, Task
<1>1. CASE PassTask
  <2>1. /\ pc = "loop" /\ pc' = "loop" /\ task' = task + 1
        /\ UNCHANGED <<phases, next>>
    BY <1>1 DEF PassTask
  <2>2. \A t \in Task : Unconditional(t) /\ t < task + 1 => "after" \in phases[t]
    BY <1>0, <1>1, <2>1, OrderPass DEF OrderInv, InLoop, Down, Place
  <2> QED
    BY <2>1, <2>2 DEF OrderInv, SavedInOrder, InLoop, Place
<1>2. CASE RecordBefore
  <2>1. /\ task \in Task /\ pc = "beforeEnded" /\ task' = task
        /\ phases' = Recorded(task, "before") \/ phases' = phases
        /\ pc' \in {"wait", "mustSet", "agent"}
    BY <1>2, AfterBeforeTypes DEF RecordBefore, TypeOK, InTask
  <2>2. /\ SavedInOrder'
        /\ \A t \in Task : Unconditional(t) /\ t < task => "after" \in phases'[t]
    BY <2>1, OrderRecord DEF InLoop, Down, Phase
  <2> QED
    BY <2>1, <2>2 DEF OrderInv, Place
<1>3. CASE RecordAgent
  <2>1. /\ task \in Task /\ pc = "agentEnded" /\ task' = task
        /\ phases' = Recorded(task, "agent") /\ pc' = "mustSet"
    BY <1>3 DEF RecordAgent, TypeOK, InTask
  <2>2. /\ SavedInOrder'
        /\ \A t \in Task : Unconditional(t) /\ t < task => "after" \in phases'[t]
    BY <2>1, OrderRecord DEF InLoop, Down, Phase
  <2> QED
    BY <2>1, <2>2 DEF OrderInv, Place
<1>4. CASE RecordAfter
  <2>1. /\ task \in Task /\ pc = "afterEnded" /\ phases' = Recorded(task, "after")
        /\ \/ pc' = "loop" /\ task' = task + 1
           \/ pc' = "jump" /\ task' = task
    BY <1>4 DEF RecordAfter, TypeOK, InTask
  <2>2. /\ SavedInOrder'
        /\ \A t \in Task : Unconditional(t) /\ t < task => "after" \in phases'[t]
    BY <2>1, OrderRecord DEF InLoop, Down, Phase
  <2>3. "after" \in phases'[task]
    BY <2>1 DEF Recorded, TypeOK
  <2>4. \A t \in Task : Unconditional(t) /\ t < task + 1 => "after" \in phases'[t]
    BY <1>0, <2>2, <2>3
  <2> QED
    BY <2>1, <2>2, <2>4 DEF OrderInv, Place
<1>5. CASE Jump
  <2>1. /\ task \in Task /\ pc = "jump" /\ pc' = "loop" /\ task' = Tasks[task].jump
        /\ Tasks[task].jump \in 1 .. N /\ Tasks[task].jump < task
        /\ phases' = ResetFrom(Tasks[task].jump, phases)
    BY <1>5, ConfigTypes DEF Jump, Forget, TypeOK, InTask
  <2>2. /\ SavedInOrder'
        /\ \A t \in Task : t < task' => phases'[t] = phases[t]
    BY <2>1, OrderReset
  <2>3. \A t \in Task : Unconditional(t) /\ t < task => "after" \in phases[t]
    BY <2>1 DEF OrderInv, InLoop, Down, Place
  <2>4. \A t \in Task : t < task' => t < task
    BY <2>1, TaskAssumption DEF Task
  <2> QED
    BY <2>1, <2>2, <2>3, <2>4 DEF OrderInv, Place
<1>6. CASE RecordWait
  <2>1. /\ task \in Task /\ pc = "received" /\ phases' = Recorded(task, "after")
        /\ task' = task /\ next' = next
        /\ pc' = IF next = 0 THEN "waitAfter" ELSE "waitJump"
    BY <1>6 DEF RecordWait, TypeOK, InTask
  <2>2. /\ SavedInOrder'
        /\ \A t \in Task : Unconditional(t) /\ t < task => "after" \in phases'[t]
    BY <2>1, OrderRecord DEF InLoop, Down, Phase
  <2>3. "after" \in phases'[task]
    BY <2>1 DEF Recorded, TypeOK
  <2>4. Place' = task
    BY <2>1 DEF Place
  <2> QED
    BY <2>1, <2>2, <2>3, <2>4 DEF OrderInv
<1>7. CASE WaitJump
  <2>1. /\ task \in Task /\ pc = "waitJump" /\ pc' = "waitAfter" /\ next \in 1 .. N
        /\ UNCHANGED <<task, next>> /\ phases' = ResetFrom(next, phases)
    BY <1>0, <1>7 DEF WaitJump, Forget, TypeOK, InTask
  <2>2. next \in Tasks[task].routes /\ next < task
    BY <2>1, ConfigTypes DEF RouteInv
  <2>3. /\ SavedInOrder'
        /\ \A t \in Task : t < next => phases'[t] = phases[t]
    BY <2>1, OrderReset
  <2>4. \A t \in Task : Unconditional(t) /\ t < task => "after" \in phases[t]
    BY <2>1 DEF OrderInv, InLoop, Down, Place
  <2>5. \A t \in Task : t < next => t < task
    BY <1>0, <2>2
  <2>6. Place' = next /\ next # 0
    BY <1>0, <2>1 DEF Place
  <2> QED
    BY <2>1, <2>2, <2>3, <2>4, <2>5, <2>6 DEF OrderInv
<1>8. CASE WaitAfterDone
  <2>1. /\ pc = "waitAfter" /\ pc' = "loop" /\ task \in Task /\ UNCHANGED phases
        /\ task' = IF next = 0 THEN task + 1 ELSE next
    BY <1>8 DEF WaitAfterDone, TypeOK, InTask
  <2>2. CASE next = 0
    <3>1. \A t \in Task : Unconditional(t) /\ t < task + 1 => "after" \in phases[t]
      BY <1>0, <2>1, <2>2 DEF OrderInv, InLoop, Down, Place
    <3> QED
      BY <2>1, <2>2, <3>1 DEF OrderInv, SavedInOrder, Place
  <2>3. CASE next # 0
    <3>1. \A t \in Task : Unconditional(t) /\ t < next => "after" \in phases[t]
      BY <2>1, <2>3 DEF OrderInv, InLoop, Down, Place
    <3> QED
      BY <2>1, <2>3, <3>1 DEF OrderInv, SavedInOrder, Place
  <2> QED
    BY <2>2, <2>3
<1>9. CASE Start
  <2>1. task' = 1 /\ pc' = "execBefore" /\ UNCHANGED phases
    BY <1>9 DEF Start, Enter
  <2>2. \A t \in Task : ~ (t < 1)
    BY TaskAssumption DEF Task
  <2> QED
    BY <2>1, <2>2 DEF OrderInv, SavedInOrder, Place
<1>10. CASE ResumeInterrupted
  <2>1. /\ task \in Task /\ pc = "interrupted" /\ task' = 1 /\ pc' = "execBefore"
        /\ phases' = Recorded(task, "agent") \/ phases' = phases
    BY <1>10 DEF ResumeInterrupted, Enter, TypeOK
  <2>2. SavedInOrder'
    BY <2>1, OrderRecord DEF InLoop, Down, Phase
  <2>3. \A t \in Task : ~ (t < 1)
    BY TaskAssumption DEF Task
  <2> QED
    BY <2>1, <2>2, <2>3 DEF OrderInv, Place
<1>11. ASSUME NEW t \in 0 .. N, ForceResume(t) PROVE OrderInv'
  <2>1. pc' = "down" /\ \A u \in Task : phases'[u] = IF u < t THEN Phase ELSE {}
    BY <1>11 DEF ForceResume
  <2>2. ASSUME NEW x \in Task, NEW u \in Task, x < u, phases'[u] # {}
        PROVE  "after" \in phases'[x]
    <3>1. u < t
      BY <2>1, <2>2
    <3>2. x < t
      BY <1>0, <2>2, <3>1
    <3> QED
      BY <2>1, <3>2 DEF Phase
  <2> QED
    BY <2>1, <2>2 DEF OrderInv, SavedInOrder, InLoop, Down
<1>12. CASE \/ ExecBefore \/ ExecAfter \/ LoopEnds \/ BeginTask \/ PhaseEnds \/ MustSetValid
            \/ Interrupt \/ (\E route \in 0 .. N : Receive(route))
  <2>1. /\ UNCHANGED <<phases, task>>
        /\ InLoop /\ pc # "waitAfter" /\ pc' \notin {"waitJump", "waitAfter"}
    BY <1>12, AfterBeforeTypes
    DEF ExecBefore, ExecAfter, LoopEnds, BeginTask, PhaseEnds, Phase, Ended, MustSetValid,
        Interrupt, Receive, InLoop, Down
  <2> QED
    BY <2>1 DEF OrderInv, SavedInOrder, Place
<1>13. CASE \/ GotoExhausted \/ ExecFails \/ Crash \/ Abort \/ TaskOnFailure \/ ExecOnFailure
  <2>1. UNCHANGED phases /\ pc' \in {"execOnFailure", "failed", "down"}
    BY <1>13, LeaveTypes
    DEF GotoExhausted, ExecFails, Crash, Abort, TaskOnFailure, ExecOnFailure
  <2> QED
    BY <2>1 DEF OrderInv, SavedInOrder, InLoop, Down
<1>14. CASE MustSetMissing \/ TaskFails
  <2>1. UNCHANGED <<phases, task, next>> /\ task \in Task /\ InLoop
    BY <1>14 DEF MustSetMissing, TaskFails, TypeOK, InTask, InLoop, Down
  <2>2. pc' \in {"taskOnFailure", "execOnFailure", "failed"}
    BY <1>14, FailTypes DEF MustSetMissing, TaskFails
  <2>3. pc = "waitAfter" => pc' # "taskOnFailure"
    BY <1>14, <2>1, TaskAssumption
    DEF MustSetMissing, TaskFails, FailTask, Leave, TypeOK, Waits
  <2> QED
    BY <2>1, <2>2, <2>3 DEF OrderInv, SavedInOrder, InLoop, Down, Place
<1>15. ASSUME NEW k \in Key, WriteKey(k) PROVE OrderInv'
  BY <1>15 DEF WriteKey, OrderInv, SavedInOrder, InLoop, Down, Place
<1>16. CASE UNCHANGED vars
  BY <1>16 DEF vars, OrderInv, SavedInOrder, InLoop, Down, Place
<1> QED
  BY <1>1, <1>2, <1>3, <1>4, <1>5, <1>6, <1>7, <1>8, <1>9, <1>10, <1>11, <1>12,
     <1>13, <1>14, <1>15, <1>16 DEF Next, Advance, Environment
-----------------------------------------------------------------------------
(* The strengthening holds initially.                                      *)
LEMMA InitSound == Init => CountInv /\ RouteInv /\ AgentInv /\ DoneInv /\ OrderInv
BY TaskAssumption
DEF Init, CountInv, GotoBounded, RouteInv, AgentInv, DoneInv, RecordedWasDone, OrderInv,
    SavedInOrder, InLoop, Down, InTask, TaskConfig

(* The safety properties together with what the place in the loop tells of *)
(* the tasks: each of them needs it to survive the next step.              *)
THEOREM InductiveInvariant == Spec => [](TypeOK /\ Inductive)
<1>1. Init => CountInv /\ RouteInv /\ AgentInv /\ DoneInv /\ OrderInv
  BY InitSound
<1>2. TypeOK /\ CountInv /\ [Next]_vars => CountInv'
  BY CountStep
<1>3. TypeOK /\ RouteInv /\ [Next]_vars => RouteInv'
  BY RouteStep
<1>4. TypeOK /\ AgentInv /\ [Next]_vars => AgentInv'
  BY AgentStep
<1>5. TypeOK /\ RouteInv /\ DoneInv /\ [Next]_vars => DoneInv'
  BY DoneStep
<1>6. TypeOK /\ RouteInv /\ OrderInv /\ [Next]_vars => OrderInv'
  BY OrderStep
<1>7. TypeOK /\ CountInv /\ RouteInv /\ AgentInv /\ DoneInv /\ OrderInv => Inductive
  <2>1. TypeOK /\ AgentInv => AgentNotRepeated
    BY DEF TypeOK, AgentInv, AgentNotRepeated, InTask
  <2> QED
    BY <2>1 DEF CountInv, RouteInv, AgentInv, DoneInv, OrderInv, InLoop, Inductive
<1> QED
  BY <1>1, <1>2, <1>3, <1>4, <1>5, <1>6, <1>7, TypeCorrect, PTL DEF Spec

(* A sub-task recorded as completed went through before, agent, must_set   *)
(* and after since its last reset, if need be in several processes; a wait *)
(* task got its signal, and lacks its after hooks only while they run, or  *)
(* when they failed or the process stopped once it was recorded            *)
(* (run_sub_task, _handle_wait_for_signal, on_phase_completed).            *)
THEOREM CompletedWasDone == Spec => []RecordedWasDone
<1>1. Inductive => RecordedWasDone
  BY DEF Inductive
<1> QED
  BY <1>1, InductiveInvariant, PTL

(* An agent that has run is run again only after a goto has reset its      *)
(* task, or when the process stopped between the end of the agent and the  *)
(* record of it (skip_agent in run_sub_task).                              *)
THEOREM AgentRunsOnce == Spec => []AgentNotRepeated
<1>1. Inductive => AgentNotRepeated
  BY DEF Inductive
<1> QED
  BY <1>1, InductiveInvariant, PTL

(* Nothing is recorded of a task while an earlier unconditional one is not *)
(* completed, whatever gotos, signal routes, crashes and resumes come in   *)
(* between (run_execution_sub_tasks, _reset_tasks_from_goto).              *)
THEOREM ProgressInOrder == Spec => []SavedInOrder
<1>1. Inductive => SavedInOrder
  BY DEF Inductive
<1> QED
  BY <1>1, InductiveInvariant, PTL

(* No process lets a goto fire more often than max_goto (goto_counts).     *)
THEOREM GotosBounded == Spec => []GotoBounded
<1>1. Inductive => GotoBounded
  BY DEF Inductive
<1> QED
  BY <1>1, InductiveInvariant, PTL
=============================================================================
