# Propagate in TLA+

Propagate runs a directed acyclic graph of *executions*. An execution is a list
of sub-tasks in one git repository; most sub-tasks start an agent process.
Executions follow each other through dependencies, propagation triggers and
signals from outside; a run's progress is kept in a state file, from which it is
resumed after a crash, a failure or an interrupt. This directory holds TLA+
models of that engine, the TLC runs that check them on small instances, and
TLAPS proofs of what should hold of every configuration. Source paths below are
relative to `propagate_app/` unless they name a directory.

## 1. The system

| Component | State it keeps | Operations | Talks to |
|---|---|---|---|
| Execution graph (`graph.py`, `models.py`) | none after loading | acyclicity, trigger index | scheduler |
| Scheduler (`scheduler.py`, `signal_reconcile.py`, `routing.py`) | per run: state of every execution, activated and reconciled triggers, received signal types, active signal | drain, select, run, complete, fire triggers, reconcile, wait, finish | PULL socket, state file, sub-task runner, entry queue |
| Sub-task runner (`execution_flow.py`, `sub_tasks.py`) | place in the task list, goto counts, phases of every task | hooks, agent, must_set, goto, wait_for_signal, on_failure | agent processes, context store, socket, state file |
| Run state file (`run_state.py`) | `.propagate-state-*.yaml`, replaced atomically | save, load, forced-resume rewrite, clear | scheduler, command line, worker |
| Signals (`signals.py`, `config_signals.py`, `signal_context.py`) | none; `:signal` context keys | payload validation, `when` matching, choice of the entry execution | scheduler, runner |
| Context store (`context_store.py`, `context_refs.py`, `context_sources.py`) | one file per key and scope | set, get, delete, clear all | agents, hooks, conditions |
| Entry-signal queue (`entry_signal_queue.py`) | `.propagate-queue-*.yaml` | enqueue, dequeue, clear | worker, scheduler |
| Serve worker (`serve.py`) | none across runs but the files and its socket | resume at start, dequeue and run, messages, interrupt dialogue | coordinator |
| Agent processes (`processes.py`, `interactive.py`) | current process, interrupt flag, lock | run, interrupt (SIGUSR1, Ctrl-C) | runner, worker |
| Coordinator (`coordinator.py`) | workers, sockets, interrupt sessions | load, unload, reload, forward, interrupt, proxy events, health check | workers, front ends |
| Transport (`signal_transport.py`) | PUSH/PULL and PUB/SUB sockets | send and receive signals, commands, events | worker, coordinator, front ends |
| Git (`git_*.py`) | branches, commits, remembered branch in the context | branch, commit, push with rebase, pull requests, wait for checks | hooks |
| Clones (`repo_clone.py`) | bare cache, clones | ensure cache, clone | scheduler, git |
| Front ends (`shell.py`, `propagate_telegram`, `propagate_webhook`, `propagate_mcp`) | session bookkeeping | send commands and signals, print events | coordinator |
| Configuration loading (`config_*.py`, `validation*.py`) | none | parse, include and validate | all |

What is hard about it, and what must hold nevertheless:

- **Scheduling.** Signals arrive between any two steps of the loop and activate
  executions; a completion and the triggers it fires must reach the state file
  together; a resume continues with whatever the last save held. An active
  execution needs its dependencies active; nothing starts before them; no
  trigger is lost or recorded without being followed; no execution runs twice;
  the loop ends or waits, and never ends with work left.
- **Sub-tasks.** Gotos forget saved progress, several of them may overlap, and a
  crash can fall between any two phases. What is recorded must have been done,
  in order; agents are expensive and not idempotent, so none whose end was recorded
  runs again; the loop ends because of `max_goto`.
- **Serving.** Entry signals arrive while a run is up and must start runs in the
  order they came, across crashes.
- **Interrupts.** A signal handler stops an agent in the middle of
  `run_agent_command`; worker, coordinator and front end then have to agree on
  which interrupt is being answered, over sockets that lose events before they are
  connected and a session that any of them may outlive.
- **Coordinator.** Three threads share the tables of workers and sessions.
- **Git and clones.** Several commands on a remote repository that others push
  to; any may fail, the process may die between two, and a resume repeats them.
  What is published must be the work, all of it, and nothing already committed may
  be lost. Runs share a bare cache that only a lock and a marker protect.
- **Context.** Agents, hooks and command-line clients write files that the engine
  reads one by one; the signal's keys are replaced one by one.
- **Configuration.** Checks at load time stand far from the code that relies on
  them, hours before it runs.

`PROJECT.json` lists the hazards line by line, with the properties that cover
them.

## 2. Modules

| Module | Models | Extends |
|---|---|---|
| `ExecutionGraph` | the static graph; what an activation, a trigger, a signal and `--skip` do to a plan | - |
| `Scheduler` | `run_execution_schedule`, its process and its state file | `ExecutionGraph` |
| `RunPlan` | abstract: what the state file promises about a run's plan | `ExecutionGraph` |
| `TaskRunner` | `run_configured_execution` and `run_execution_sub_tasks` | - |
| `ServeWorker` | the `serve-worker` process: entry queue, serve loop, interrupt dialogue, shutdown | - |
| `EntryFifo` | abstract: what the worker promises about entry signals | - |
| `RepoCache` | `clone_single_repository`: the shared bare cache, the clones, their record in the state file | - |
| `GitPublish` | the git commands of one execution in its working copy, and the remote | `RepoCache` |
| `Coordinator` | the coordinator's main loop, event proxy and health check, and the sockets around a worker | - |
| `Interrupts` | agent process, signal handler, the worker's dialogue and the shells | `Coordinator` |
| `ConfigSyntax` | which hooks, references, clauses and sections are accepted, and what a run may still find missing of them | - |
| `ConfigLoading` | `load_config` step by step and the search for cycles | `ConfigSyntax` |
| `ContextStore` | context directories, `:signal` keys, the prompt's merged context, clients | - |
| `MCScheduler`, `MCTaskRunner`, `MCGitPublish`, `MCConfigLoading`, `MCContextStore` | configurations for TLC | the above |
| `SchedulerProofs`, `TaskRunnerProofs`, `ServeWorkerProofs`, `RepoCacheProofs`, `GitPublishProofs`, `InterruptsProofs`, `ContextStoreProofs`, `ConfigLoadingProofs` | theorems | the above |

### Scheduler

`plan`, `activated`, `received`, `active` and `reconciled` are the local
variables and the `RunState` of the process; `disk` is the state file, `inbox`
the PULL socket, `queued` what was handed to the entry queue. `pc` follows the
loop: `fresh`/`starting` (before the first save), `drain` (one message per
step), `select`, `running`, `saving` (a wait task was recorded, its signal not
yet), `waiting` (in `_wait_for_signal`), `interrupted`, and the ways a run ends.
An execution missing from the program's dictionary is `inactive`.

| Action | Code |
|---|---|
| `StartFresh`, `SaveFresh` | clearing the context, activating the initial execution, first save (scheduler.py:44-66) |
| `Resume`, `SaveResumed`, `ForceResume` | load_run_state, run_state.py:144-209 |
| `DrainOne`, `DrainDone` | `_drain_incoming_signals`, `_process_received_signal` |
| `Select` | scheduler.py:80-107, with the save a clone makes |
| `SaveProgress`, `TaskReceives`, `TaskSavesContext`, `WriteKey` | what an execution in progress does to the state file, the socket and the context |
| `Complete` | completion, triggers, save, `--stop-after` (scheduler.py:135-163) |
| `Reconcile` | `reconcile_pending_signals`, with any set of checks passing |
| `BeginWait`, `WaitReceives`, `Finish` | scheduler.py:84-102, `_wait_for_signal` |
| `Crash`, `Fail`, `Interrupt`, `RerunInMemory`, `DropWhileInterrupted`, `ResumeFromDisk`, `Abort` | how a run stops, and how `run` and `serve` go on after an interrupt |

Points where the model follows the code closely because the properties turn on
it: Python's set iteration leaves open in which order a signal visits the
completed executions, and a trigger whose target an earlier visit activated is
passed over unrecorded (`RecordedKeys`); reconciliation is not given the
recorded triggers; the save a clone makes writes the plan of memory with the
signal of the last full save (`SavedPlan`); progress is saved with the run
loop's signal, not the task's; a schedule resumed after an interrupt reads the
file in `serve` and the memory in `run`.

`RunPlan` is the promise the state file keeps: a saved plan only grows, one
execution completes at a time and after its dependencies, what a completed
execution triggers is never missing; only a new run, a forced resume and `clear`
set it back. `SavedPlanAdvances` is the refinement, under the mapping from
`disk` to the plan in it.

### TaskRunner

Every change of an execution's status is saved in the call that makes it, so
`phases` and `execPhases` are at once memory and state file; `task`, `counts`,
`next` and `skip` die with the process. The places after `loop` are the phases
of `run_sub_task`. What is done and the record of it are two steps: a phase ends
(`PhaseEnds`, at `beforeEnded`, `agentEnded` or `afterEnded`) and is then saved
(`RecordBefore`, `RecordAgent`, `RecordAfter`); a wait task receives its signal
(`Receive`), is recorded as completed (`RecordWait`), takes its route (`WaitJump`) and
only then runs its after hooks (`WaitAfterDone`). A crash can fall between any two.
A goto's target is an earlier task, as configuration loading demands. Hooks and
agents may set and delete any context key while they run. Two history variables
serve the properties: `ran` tells what was done of a task since it was last reset,
`cut` which tasks a process left with more done than recorded (an agent that ended)
or more recorded than done (a wait task without its after hooks).

`RecordedWasDone` speaks of every task, wait tasks included: what is recorded was
done, with one exception that the property names and that exists only while it is
true of the code, the after hooks of a wait task in `cut`. `AgentNotRepeated` says
that an agent that has ended is run again only after a goto, or if its task is in
`cut`. Without these exceptions both are false (section 3, 4 and 13).

### ServeWorker

One level above `Scheduler`: a run is known only by the entry signal it was
started for, and what matters is which run is where. `queue` is the queue file
with its sequence numbers, `disk` the run in the state file, `inbox` the PULL
socket, `shutdown` the flag the signal handler sets, `gone` the entries whose
execution an edited configuration lacks. `run` is the local variable of the
call in progress, `nested` says that call was made by `_handle_agent_interrupted`.
Two history variables serve the properties: `begun`, the runs in the order they
began, and `outcome`, how the run in the state file has ended.

| Action | Code |
|---|---|
| `Start` | `_run_worker_loop`: a state file is resumed first, whether or not its run had completed |
| `LoopDequeue`, `RefuseRun`, `BeginRun` | serve.py:299, `_run_queued_entry_signal`, first save of the run (scheduler.py:66) |
| `LoopReceive` | serve.py:319-334: entry signals are queued, `resume` resumes, the rest is ignored |
| `RunReceives`, `TaskReceives` | the socket during a run: `on_entry_signal`; a wait task drops |
| `RunCompletes`, `RunFails` | back to the loop |
| `Interrupt`, `InterruptedReceives`, `InterruptedExit` | `_handle_agent_interrupted`; an interrupt of the run it resumed is caught as a failure (serve.py:412) |
| `Shutdown`, `LoopExit` | the first SIGTERM or SIGINT, and the end of the loop |
| `Crash` | the process dies: killed, an error that is no PropagateError, the second signal |
| `Clear` | `propagate clear`, while no worker is up |

The window the durability of entry signals turns on is between `LoopDequeue` and
`BeginRun`: the entry is in neither file.

`EntryFifo` is the promise: a line of accepted entries of which the first may
begin its run or be lost, and nothing overtakes. `ServesInOrder` is the
refinement, under the mapping of the line to the entry taken followed by those in
the queue file (`Line`). A test that restarts a worker sees one schedule; the
refinement covers every place where the process may end.

### RepoCache and GitPublish

A commit is the set of changes it makes and a branch the sequence of its commits,
so that "contains" is prefix and "rebase" is a function of two sequences. `bare`
is the cache directory with its marker, `holder` the file lock (which the system
releases when a process dies), `at[r]` the place of run `r` in
`clone_single_repository`, `recorded` the state files that name a clone.
`BeginRun`, `Lock`, `Refresh`, `BareClone`, `FillBare`, `MarkBare`, `Copy`,
`Checkout`, `Label` and `Record` follow repo_clone.py:112-259 and
scheduler.py:166-183; `ResumeRun` takes a recorded clone without looking at it.

`GitPublish` adds one run's working copy (`heads`, `tracked`, `head`, `tree`,
`staged`, and `loose` for a rebase stopped half way), the git state in memory
(`mem`, `start`) and its copy in the context (`ctx`), the phases saved (`phase`),
the pull request and its checks. Each git process is a step:

| Actions | Code |
|---|---|
| `FreshRun`, `Resume`, `SelfClones`, `SelfRecords`, `Enter` | the start of a run and of its execution, git_runtime.py:358-371 |
| `BranchKnown`, `BranchBegin`, `CheckoutTarget`, `FetchBase`, `CreateBranch`, `FetchTarget`, `FastForward`, `RecordStart`, `RecordSelected` | `git:branch`: git_runtime.py:58-90, git_repo.py:79-224 |
| `CommitNothing`, `CommitStage`, `UnstageEnv`, `MakeCommit`, `RecordMessage` | `git:commit`: git_publish.py:15-82, git_runtime.py:93-101 |
| `Push`, `PushRejected`, `FetchForRebase`, `Rebase`, `RebaseFails`, `AbortRebase` | `git:push`: git_publish.py:85-155 |
| `CreatePr`, `StoreNumber` | `git:pr`: git_publish.py:158-213, git_runtime.py:206-267 |
| `ChecksSettled`, `RecordStatus`, `ChecksTimeOut`, `GoBack` | `git:pr-checks-wait` and the goto on its status |
| `Agent`, `OthersPush`, `CiMoves`, `CommandFails`, `RaiseError`, `Crash`, `ClearSelf` | what is around them |

A resumed run goes on with the commands of the phase that was not saved, from the
first one. That a clone starts on `Main` with the branches the cache had, and that a
directory the configuration names is used as the last run left it, are two
initial states (`inPlace`).

### Coordinator and Interrupts

The coordinator is modelled around one worker; its tables have one entry per
project and the entries do not meet. `inbox` is its PULL socket, `main`, `hand`
and `health` are what each thread has read under the lock and not yet used,
`session` is the entry of `_pending_interrupts`. A socket to or from the worker is
a queue; `linked` says that a subscription has reached the worker, before which
its events are lost.

| Actions | Code |
|---|---|
| `TakeLoad`, `Started`, `StartFailed`, `TakeStop`, `Stopped` | load, unload, reload (coordinator.py:235-273, 403-490) |
| `TakeInterrupt`, `StoreSession`, `Kick` | `_handle_interrupt`: look-up, session, SIGUSR1 |
| `TakeResume`, `Forward` | `_handle_interrupt_resume` with its five refusals |
| `ProxyClear`, `ProxyRebuild`, `ProxyTake`, `ProxyUpdate`, `ProxyPublish` | `_event_proxy` between its locks |
| `HealthScan`, `HealthReport` | `_health_check` |
| `SpawnAgent`, `ClearFlag`, `Register`, `OutputEnds`, `Release`, `AgentDone`, `Interrupted` | `run_agent_command` (processes.py:44-108) |
| `Handler` | `request_agent_interrupt`, at any place of the main thread; with the lock held there it is `stuck` |
| `TakeAnswer`, `EndOfRun` | `_handle_agent_interrupted`, its answer and the run it resumes |
| `SendInterrupt`, `Heard`, `SeesContext`, `SeesEnd`, `Answer`, `GivesUp` | the shell's `/interrupt` (shell.py:477-562) |

`skip` does to the worker what `rerun` does and is not a second action. History
variables: `serial` numbers the interruptions, `asked` says which of them the users
of a token were shown, `alone` that the last interrupt was sent with no other under
way.

### ConfigSyntax and ConfigLoading

For every piece of a configuration, `Raw...` is the set of the forms it can have
that some check tells apart, `...Accepted` is what the parser accepts, and
`...Runs` or `...Lacks` what the code that executes it needs: the arguments it
indexes, the numbers it converts, the scopes it resolves. `...Lacks` is a set of
things a run may find missing; `"fails"` is in it if the run cannot succeed whatever it
finds. The loader leaves a good deal to the run, and `Unchecked` is the
list:

| In `Unchecked` | What is accepted, and where a run refuses it |
|---|---|
| `path` | a reference whose `task` is any string (context_refs.py:35); context_store.py:86-91 |
| `task` | scope `task` without a task, in the `when` of a sub-task or a trigger and wherever else no task runs; context_store.py:74 |
| `directory` | a `number_key` of scope `task`, whose directory nobody may have made; context_refs.py:111-120 |
| `key` | a key with a slash as the argument of a git command; the context store |
| `signal` | `signal.field` of a validation without such a field in the signal; validation_hooks.py:138-147 |
| `template` | a git template that cannot be parsed; git_templates.py:13-94 |
| `git` | a git command in an execution without a git section; sub_tasks.py:414-415 |
| `publish` | `git:publish` without `push` and `pr`; git_runtime.py:126 |
| `branch` | `git:push`, `git:pr` or `git:publish` before `git:branch`; git_runtime.py:106-107, 113-114 |
| `handed` | a git command in `on_failure` when the agent fails or keys are missing; sub_tasks.py:281, 327 |

`ConfigLoading` draws a file piece by piece in the order in which `load_config` reads
it and keeps what later checks look at (names, dependencies, the ids, gotos and
routes of the tasks so far, triggers). `lacks` is what a run may find missing of
the value just accepted; `needs` carries what the hooks of sub-tasks ask of the git
section to the place where the section is read, and what it does not offer is
lacking there. `BeginSearch` to `Leave` are
`visit_execution_graph` with its recursion as a stack (`stack`) and its marks
(`visit`). Executions and their neighbours are visited in the order of the code:
that of the file, and for a neighbour first the dependents and then what its
completion triggers. The order of the names that one include adds is one fixed
choice.

### ContextStore

`files` holds the keys of the three scopes a prompt merges, `dirs` the directories
that exist, `litter` those where a process that was killed left a temporary file.
The engine prepares the `:signal` keys of its active signal (`Clear`, then
`OpenTemp` and `Replace` for each), reads the layers directory by directory and key by
key (`BeginLoad`, `List`, `Read`, `ListNext`), builds a prompt, and may receive
another signal in a wait task (`Receive`, `SaveRoute`, `SaveReset`, `SaveSignal`).
`active` is the signal of the scheduler's loop, which every progress saves, `taken`
the one the wait task took, which only `SaveSignal` saves. A fresh run clears the
context (`StartRun`) and saves itself (`SaveFresh`) in two steps: in between, the
state file is still that of the run before. The loop drains the socket (`Drain`) in
its first iteration after a resume too, where the preparation is skipped if the state
file says it was done. A field may be called `type` or `payload`: it is written over
the signal's own (`Entries`, `Shown`). The histories `written` (the signal last stored),
`answered` (by a wait task) and `stale` (the two ways in which the loop comes to go
by another) serve the properties. A client does
`Set` and `Delete` at any moment, through `Open` and the replacement of the
file. `Accepts` and `StartRun` have the look a fresh run takes at the context of
the one before, to match `equals_context`, before it clears it.

## 3. Runs

| Run | Instance | Question and answer |
|---|---|---|
| `scheduler` | 4 executions a-d, d needs c needs b; 4 triggers (unconditional, any payload with and without a context gate, filtered); 3 signal types, 2 payloads; a worker, a run with `--skip b`, a run with `--stop-after b`; 1 fresh run, 2 messages, 1 stop | Seven invariants, `FinishedIsDone` and the refinement hold |
| `scheduler_live` | triggers with distinct signal types, 1 message, 1 stop, `FairSpec` | The loop comes to rest; what is runnable is run |
| `tasks` | 5 tasks with a wait task, overlapping gotos that fail or continue when exhausted, must_set, conditions, all hooks, `--skip`; 2 stops, `FairSpec` | Saved progress is truthful and in order, an agent is repeated only where the process stopped before the record, the loop ends |
| `serve` | 4 messages of any kind, 3 crashes, failures, interrupts or shutdowns, any number of restarts and clears, wait tasks, `FairSpec` | Entry signals start runs in order and once, none is lost while the worker is up, a run cut short is resumed first, the queue is not starved, the worker stops when asked |
| `scheduler_waits` | two triggers on one type with different payloads | violated: it waits although something is runnable |
| `serve_loss` | 3 messages, 2 stops, no wait tasks | violated: a crash loses a dequeued entry signal |
| `clones` | 2 runs, a `ref`, 2 branches of up to 2 commits, 2 stops | Both invariants hold: a recorded clone is whole, and concurrent runs do not tear the cache |
| `publish` | one execution of four phases (branch; agent; commit, push, pr; checks), one goto back, one change by others, 1 stop, clone or directory, `FairSpec` | An execution that publishes last is published whole, only work is published, nothing committed is lost, the run ends |
| `interrupts` | 2 shells that may give up, 2 interrupts, 1 load, unload, reload or death, fair threads | Stopped agents are known as interrupted, a lone interrupt is answered, answers reach the interruption they are about |
| `interrupt_answered` | 1 shell, 2 interrupts, nothing else | violated: the second interrupt is never answered |
| `loading` | 3 names, 3 include files (at most 2 items), 2 sub-tasks in the first execution and 1 in the others, 2 routes, 2 triggers | What is accepted is what the engine assumes, and lacks only what is in `Unchecked`; exactly the cyclic graphs are refused as cyclic |
| `context` | 1 key and 3 fields, one of them called `type`, 2 texts, 2 signals, 2 stops, 2 client commands | A prompt shows the innermost value of every key left alone, and the whole of the signal last stored |

Bounds. `MaxRuns`, `MaxSends` and `MaxStops` bound fresh runs, messages, and
crashes, failures and interrupts (in `TaskRunner` forced resumes too). Resumes
are not bounded. One fresh run is enough because a run takes nothing from its
predecessor but the state file and the context, and a forced resume, `clear` and
the second start of a schedule already exercise both. Two messages are needed for
one signal to overtake another, and with a wait task to reach both it and the
scheduler; one stop is needed to lose memory at any point, and the interrupt
paths start a second schedule. In `tasks`, two stops put a crash between a goto
and the resume that follows another. In `serve`, four messages are two entries for an
order, one to be taken while they wait, and an answer or a `resume` between
them; three stops interrupt a run, interrupt or fail the one the answer resumed,
and crash the worker afterwards. The theorems below have no such bounds.

In `clones`, two stops tear the cache and stop the run that repairs or meets it.
In `publish`, one stop is a crash, a failed command or a failed clone at any place, followed
by any number of resumes; with one change by others the first push is rejected,
with the goto the whole is done twice and the second push may be rejected instead.
Three branches' worth of history is not needed: the code names only the base and
the execution's branch. In `interrupts`, two requests are what one session can
confuse; one trouble reloads the worker between them or kills it; each shell has
one request open at a time. In `loading`, two sub-tasks give a goto a target and
leave one that has none, and two routes give one of each kind; the first execution is
enough for that, since every one is read alike. Three names with two triggers and all
dependencies among them give all cycles of up to three executions. In `context`, one
key in three scopes shows every shadowing, and two signals that differ in their
fields every mixture.

Deadlock is checked in `context`, where clients and resumes always have a next
step. Elsewhere it is not: a run ends, a file is loaded, and once the bounds are
used up nothing more happens.

Fairness. The scheduler and the sub-task loop are single-threaded loops that take
their next step; agents and hooks are assumed to return, as the code puts no
limit on them. Nobody is obliged to send a signal, to start or resume a run or to
answer an interrupt, so `RunsSettle`, `RunnableIsRun` and `Settles` accept a run
that is down, waits or is interrupted. `RunnableIsRun` is checked with triggers
that share no signal type: with shared ones it fails, as `scheduler_waits` shows.
In `serve` only the worker's own loops are fair: a run may wait for a signal for
ever, and an interrupt may never be answered. `NotStarved` therefore says that an
entry stays queued for ever only if the worker stays away from its loop for ever,
`StopsWhenAsked` that only a run that does not end keeps a worker up that was
told to stop. In `publish` the process takes its next step: every git command
returns, and a wait for checks ends by its timeout (git_publish.py:407). In
`interrupts` every thread of the coordinator and the worker's own steps are fair,
a signal is delivered and a socket connects; runs, agents, users and deaths are
not, so that `InterruptAnswered` says nothing of an agent that never ends but of a
worker that has answered and goes on.

### Disagreements with the documentation

1. *Waiting with work to do* (`scheduler_waits`). scheduler.py:402 leaves
   `_wait_for_signal` only when the set of pending types changed. If two triggers
   want different payloads of one type, the first payload activates an execution,
   the type is still pending, and the scheduler waits on. docs/SIGNALS.md:403
   speaks of waiting when nothing is runnable.
2. *A lost entry signal* (`serve_loss`). serve.py:299 removes the entry from the
   queue file, scheduler.py:66 saves the run it starts; a crash between them
   leaves it in neither. docs/SIGNALS.md:408 says entry signals are "durably
   queued", one run per queued signal.
3. *An unanswered interrupt* (`interrupt_answered`). An interrupt of the run that
   an earlier answer resumed raises inside the dialogue of the first one, where it
   is caught as a PropagateError (serve.py:412) and published as
   `interrupt_resume_failed`. The proxy gives it the first token and
   ends the session of the second, which gets no outcome. docs/INTERRUPT.md:32
   promises exactly one final correlated outcome for a request.

The models also contain these, without a run of their own; 4 to 6 and 13 are the exceptions
that `RecordedWasDone` (`AfterPending`), `PromptShowsSignal` (`active` beside `written`),
`AcceptedIsRunnable` (`"handed"`) and `AgentNotRepeated` name:

4. *Lost after hooks.* sub_tasks.py:167 records a wait task as
   completed, line 91 then runs its after hooks. If they fail or the process stops
   before, a resume passes over the task. docs/TELEGRAM.md:110 says that a resume
   "retries from the point of failure".
5. *An active signal that is not shown.* A signal drained after a
   resume replaces the active one (scheduler.py:70), but signal_context.py:16 finds
   the directory prepared and writes nothing. docs/SIGNALS.md:178 says that the
   data of an active signal is written into `:signal`.
6. *on_failure without the git section.* After the failure of an
   agent (sub_tasks.py:327), or with keys missing (281), the hooks of on_failure are
   run without the git configuration, and a `git:push` there raises that the
   execution has none. README.md:174-176 has git commands among the hooks and
   on_failure for a failed agent.
7. *Exiting with an unfired trigger.* scheduler.py:490 takes a trigger without
   `when` as satisfied by any reception of its type, also by one before the
   execution it follows completed and that another signal replaced.
8. *Skipped executions run.* serve.py:411 resumes without the worker's `--skip`;
   docs/CONFIG_REFERENCE.md:884 says skipped executions are never run.
9. *A lost goto.* sub_tasks.py records the task (167, 284) before it records the
   reset (201); a crash between them resumes after the task. docs/SERVE.md:116
   promises to pick up where the run left off.
10. *Dropped entry signals.* A wait task (sub_tasks.py:221) and the dialogue of an
   interrupt (serve.py:429) take every other message off the socket and ignore it,
   entry signals included, against docs/SIGNALS.md:408.
11. *A handler that waits for its own thread.* The handler of SIGUSR1 takes
   `_process_lock` (processes.py:26), which the thread it interrupts may hold
   (69, 95); the comment at line 23 calls it safe to call from a signal handler.
12. *A cache that is never refreshed.* `git clone --bare` configures no refspec, so
   that `git fetch origin` (repo_clone.py:136) moves FETCH_HEAD and no branch;
   docs/CONFIG_REFERENCE.md:48 says the cache is refreshed on subsequent runs.
13. *A repeated agent.* sub_tasks.py:268 ends the agent, 272 records it; a process that
    dies in between leaves it unrecorded, and the resume runs it again
    (`AgentNotRepeated` has it as its exception). So with a signal that a wait task has
    received and not recorded (230-232, 167): the resume waits for another.
14. *A cleared context under an old state file.* scheduler.py:59 clears the context,
    line 66 saves the new run. After a crash in between a resume takes up the run before,
    whose directories count as prepared and are empty (`stale` in `ContextStore`).
15. *An older signal saved again.* sub_tasks.py:89 saves the signal a wait task took;
    the next progress of the execution saves the loop's again (scheduler.py:125), so that
    a resume goes by the older one while `:signal` shows the newer.

Each trace of the first three is short; `tlc -config SchedulerWaits.cfg MCScheduler.tla`
and its like print it.

## 4. Proofs

All theorems are for any configuration that satisfies the named assumptions
(`GraphAssumption`, `SchedulerAssumption`, `TaskAssumption`, `ServeAssumption`,
`CacheAssumption`, `GitAssumption`, `CoordinatorAssumption`,
`InterruptAssumption`, `ContextAssumption`, `SyntaxAssumption`,
`LoadingAssumption`, `PullRequestAssumption` and the two `NoneAssumption`s). They
state what configuration loading enforces: a finite acyclic graph, gotos that lead
back, wait tasks without prompt, on_failure or must_set, finitely many fields of
signals; that a working copy's branches are branches; that the names of a
configuration are finitely many; and that the values `None`, `Bad` and `Unknown`
are none of the things they stand for the absence of. The bounds may be any natural
numbers, the names, keys, phases, changes and messages any sets and sequences.
That loading enforces it is itself proved: acyclicity by `Loaded`, gotos that lead
back and the form of wait tasks by `AcceptedRuns`, both of `ConfigLoadingProofs`.

The first part of `SchedulerProofs` holds the facts about plans: activation keeps a plan
closed under dependencies, keeps the order of completion, adds nothing
completed; and `NothingRunnable`: in a closed plan with nothing runnable, every
active execution that has not completed is skipped or depends on a skipped one.
That is where acyclicity is needed (an execution with no uncompleted predecessor
among those left is runnable), and why the scheduler's error cannot be raised.

It then proves `TypeCorrect` and `InductiveInvariant`. The
invariant cannot be the conjunction of the safety properties alone. What makes it
inductive is that memory and state file agree on *what has completed* from the
first save on, although they differ in much else (activated executions, signals
and triggers are ahead in memory): a completion is the only step that adds a
completed execution, and it saves in the same step. From this follow that a
resume neither repeats an execution (`ran \subseteq Completed(disk.plan)`), nor
starts one early, and that the partial save a clone makes combines old and new
harmlessly. The theorems are `DependenciesActive`, `DependenciesFirst`,
`NoTriggerLost`, `RecordedTriggersFollowed`, `NeverWithoutWork` and
`NoExecutionTwice`.

The same module proves the refinement of `RunPlan` (`ImplementsRunPlan`). For
that, what is saved must be compared with what was saved before, of which memory
knows nothing: `StateFileBehind` says that while a run is up, the plan in its state
file is at or before the plan in memory for every execution (`Behind`, with `Ahead`
for "at or before"). Then a save takes the abstract plan forward; that it takes it
forward by one completion at most is the agreement on completions above; and that
the saved plan is sound is what `InductiveInvariant` says of the state file. The
step in which a clone saves half of memory is the one that needs all three.
`NothingLeftToResume` (`FinishedIsDone`) is the end of a run: acyclicity leaves
nothing active and uncompleted in memory, and the file, being behind, has nothing
active beyond that and the same completions.

`TaskRunnerProofs` proves `TypeCorrect` and `InductiveInvariant`, where the
strengthening says what the place in the loop tells: of the current task, which
phases have been done (`DoneHere`), recorded or not; of an agent that has ended, that
it is recorded, about to be, or its task was cut short; of the tasks before, that the
unconditional ones are completed; of a goto about to be taken, that it has not been
exhausted. Records lag behind what is done except in one place, the wait task
recorded as completed, and `cut` is what carries either difference over to the
processes that follow. From it
follow `CompletedWasDone`, `AgentRunsOnce`, `ProgressInOrder` and
`GotosBounded`.

`ServeWorkerProofs` proves that the worker implements `EntryFifo`
(`ImplementsFifo`) and what the line alone does not say: `RunSaved`,
`SequenceNumbers`, `CutShortResumed`, `KeptAlways`, and for the history itself
`StartsInOrder`. The order of the runs begun is not inductive: a step may start
anything that is queued, so the queue must be in order too, and behind what has
begun; and what is queued next comes from the socket. The invariant therefore
orders the entries along their whole way, from the socket through the queue file
and the worker's hands to the runs begun (`Ordered`), and adds that a worker which
goes on serving has ended the run in the state file (`ServesEnded`). As most
actions do nothing to the entries, the proof first sorts the steps into six kinds
(`KindsOfStep`) and shows each part of the order for the kinds.

`RepoCacheProofs` proves `TypeCorrect`, `MutualExclusion`, `CloneWhole` and
`CacheNotTorn` for any number of runs that share a cache. Neither property is
inductive, for both are decided steps earlier: a clone is whole because the cache
was whole when it was copied, and that is so because of the marker and the lock.
The invariant says what the place of a run tells: it holds the lock wherever it
works on the cache (`LockHeld`), what the cache is there (`CacheInHand`), and what
its clone has (`CloneInHand`); besides, that a marked cache is whole and an
unmarked one is being made or was torn by a death (`MarkerTells`), and that a
clone is recorded when nothing is left to do to it (`RecordedInHand`).

`GitPublishProofs` rests on the invariant of `RepoCacheProofs`, as `GitPublish`
extends its module: a working copy is one more run of the cache. `GitTypeCorrect`,
`WorkOnly` and the action property `NothingLost` follow from one invariant,
`GitInv`. What is published comes from a branch, which comes from a clone, the
cache, a fetch or a rebase, so that every one of these sources must be clean at
every step (`SourcesSound`). Markers and .env files are in the tree and in the index
all the same, and what keeps them out of commits is the place in the commands and
HEAD: markers are there only while a stopped rebase has HEAD detached, and a commit
made then is on no branch (`HeadTells`); the index has no .env file between
`UnstageEnv` and the commit (`PlaceTells`). `CloneTells` and `SelectedTells` say that
a process that runs commands has its working copy, and that the branch remembered in
the context exists in it: it could not be so for a run that clones again, if a state
file knew of the branch and not of the clone.

That nothing is lost in a rebase is a fact about sequences: what is replayed and
what the remote had are together what both had (`RebasedCommits`). The filter
`Replayed` is a recursive function; its two facts, that it is a sequence and what is
in it, are shown by the least counterexample (`Least`, from the well-founded order
of the numbers), which needs no theorem about an operator.

`Published` (`CompletedIsPublished`) is about executions that publish last:
`PublishesLast` says that some phase commits, pushes and requests, with no agent
after its commit and no other push after its push. Of other phases the property is
false (an agent may run last), so it is stated of these; `MCPublishes` makes TLC
check that the instance is one of them. A complete execution is published because
of commands that may lie several processes back. The invariant (`PublishInv`,
`PublishInductive`) therefore says of the commands a phase has behind it (`Past`)
what they have achieved: the tree is clean since the commit (`Cleaned`), the remote
branch has all changes of the local one since the push (`Pushed`), the pull request
and its number are there since the request (`Requested`). A crash takes a process
back to the start of its phase, so that nothing in it is past; a phase is saved only
when all of it is. To keep these, a step must be placed in its command
(`Position`); the branch in memory must be the one in the context, and HEAD be on it
(`Remembered`); what is committed must be all there is (`Index`). The hard case is a
process that dies in a stopped rebase: its successor finds HEAD detached, and a commit
it makes is on no branch, yet the tree is clean afterwards. `StoppedRebase` is
why such a process gets no further: a rebase stops only when the remote branch
has commits the local one lacks, remote branches only grow, and nothing moves the
local branch while HEAD is detached, so that its push is rejected, and the rebase
then refused and aborted.

`InterruptsProofs` is about three threads, a worker and any number of shells. Types
are not inductive here: the history numbers the interruptions, and that these numbers
stay within the requests made needs `Counted`, which counts the interrupts in every
place they can be (socket, main loop, pending signal, flag). `Core` (`CoreHolds`)
adds that an agent that was killed has its flag set, which only acting on it clears
(`AgentInv`, from which `StopRemembered` follows), and when which worker is up
(`Lives`). For `AnswersItsInterrupt`, `Story` (`StoryAlways`) follows the dialogue: a
token is asked for once and shown one interruption, events in flight are of
interruptions that have been, and an answer is on its way only to the interruption
that its token was shown. `LoneIsAnswered` needs the whole path: when an
interrupt was sent with no other under way, it is in exactly one of the stages from
the socket to the outcome (`Lone`, with one definition per stage), unless it has been
answered or the handler is stuck on the lock.

`ContextStoreProofs` has two halves. `SignalWritten` follows the `:signal` keys:
through the clearing, the storing of one file after the other, the save of the flag
and the resumes that trust it and write nothing; the case of a wait task that
was cut short is kept apart (`answered`). What a resume relies on is that a set flag
means the signal *last stored* (`SignalKept`); that this is also the one the loop goes
by is a separate part (`SignalFollowed`), which the two ways of `stale` break: the
crash between clearing and saving, after which the signal last stored is none, and a
signal drained past the preparation. `LayersRead` follows the reading of three
directories beside a client that sets and deletes keys, with what has been listed
and not yet read. `PromptHasInnermost` and `SignalInPrompt` are where they meet, in
the prompt.

`ConfigLoadingProofs` has two halves as well. `AcceptedRuns` (`AcceptedIsRunnable`)
needs first, for every form a value can have, that what the parser accepts never
fails outright and lacks only what is in `Unchecked` (`AcceptedHookLacks`,
`AcceptedRefLacks` and so on; of agents, repositories and clauses nothing at all, of a
`when` no more than its task), and then that the
parser checks a piece against what it has already read, and that what it checked
against is still there at the end. `LacksInv` follows what the hooks ask of a git
section that is read after them. `ParseInv` says the rest for every stage: names are
each there once (`NamesInv`), the executions parsed are the first of the file and
depend on executions of the file (`DepsInv`), the goto and the routes of a
sub-task, finished (`TasksInv`) or not (`DraftInv`), name sub-tasks before it.

`Cycles` (`CyclesReported`) is the correctness of a depth-first search for graphs of
any size. `SearchInv` relates its recursion to its marks: what is being visited is
what is on the stack, each once (`VisitTells`); every frame was entered from the one
below it, and has only neighbours behind it that are done (`StackTells`); what is
done is closed under neighbours and acyclic (`DoneTells`). An execution is done when
its neighbours are, so that it closes no cycle with what was done before
(`Acyclic` for one execution more), and a neighbour found on the stack closes the
cycle that is reported (`CycleTells`). At the end everything is done, hence the
whole graph is acyclic: `Loaded`, in the words of `GraphAssumption`.

Only model-checked:

- the liveness properties, which rest on fairness (`RunsSettle`, `RunnableIsRun`,
  `Settles`, `NotStarved`, `StopsWhenAsked`, `RunEnds`);
- the three findings, which are counterexamples.

## 5. Plan

| Step | Module | Aim |
|---|---|---|
| done | `ExecutionGraph`, `Scheduler`, `RunPlan` | the core |
| done | `TaskRunner` | progress within an execution |
| done | `ServeWorker`, `EntryFifo` | the durable queue and the serve loop |
| done | `RepoCache`, `GitPublish` | the bare cache under crashes; branch, commit, push with rebase, pull request and checks after a resume |
| done | `Coordinator`, `Interrupts` | the coordinator's threads; agent process, handler, sessions and tokens |
| done | `ConfigSyntax`, `ConfigLoading` | what is accepted can be run, but for what is left to the run; the search for cycles |
| done | `ContextStore` | scopes, atomic writes, the signal's keys, `when` matching |
| done | `RepoCacheProofs` | `RecordedCloneWhole` and `RefusedOnlyWhenTorn` for any number of runs |
| done | `SchedulerProofs` | that `Scheduler` implements `RunPlan`; `FinishedIsDone` |
| done | `InterruptsProofs` | `TypeOK`, `StopIsRemembered`, `ActsOnItsInterrupt`, `LoneInterruptAnswered` |
| done | `ContextStoreProofs` | `LayersRespected`, `PromptShowsSignal` |
| done | `GitPublishProofs` | `GitTypeOK`, `OnlyWorkPublished`, `NothingCommittedLost` |
| done | `ConfigLoadingProofs` | `AcceptedIsRunnable`, `CyclesReported`, and that loading establishes the acyclicity that `ExecutionGraph` assumes |
| done | `GitPublishProofs` | `CompletedIsPublished`, for phases that commit, push and open a pull request after every change |

## 6. Not modelled

Telegram bot, webhook and MCP server, and the text all front ends print; prompts'
wording, templates, events, logs and drawings; the example workflows and the
set-up scripts. Of the modelled parts, the following is left out.

- *Run state*: metadata; an execution that an edited configuration lacks.
- *Scheduler*: payloads are two model values there, and which of them a `when`
  accepts, and which execution a signal starts, are constants (the look-up in the
  context is in `ContextStore`).
- *Signals*: the choice among several executions that take a signal, and the check
  of payloads against field types; `wait_for_signal` does not make that check.
- *Worker*: the forced resume at its start (in `Scheduler`), a queue file that
  cannot be read, a `clear` that pulls the files from under a running worker.
- *Coordinator*: forwarding of signals and other commands, list, other projects;
  stale socket files; linger of a closed socket. A worker killed with SIGKILL leaves its agent
  running in a session of its own (processes.py:62), which the model ends with it.
- *Git*: labels, comments and the text of templates; submodules and credentials; which files
  a change is in, so that two changes may conflict or not.
- *Configuration*: YAML, version numbers, prompt paths, allowed key names; whether a
  key has a value, a file exists or a shell command succeeds, which only a run knows;
  a wait task in a run without a socket (sub_tasks.py:208);
  `git:` with nothing after it, an IndexError (config_executions.py:341); the
  rendering of two placeholders to one key of an include.
- *Context*: context sources; values longer than a text; a key of the global scope
  whose name is an execution's. A temporary file left by a crash makes every later
  load of its directory fail until a fresh run clears the context (modelled:
  `Litters`, `LoadFails`).
