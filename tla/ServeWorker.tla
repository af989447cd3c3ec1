---------------------------- MODULE ServeWorker ----------------------------
(***************************************************************************)
(* `serve-worker`: one process that turns entry signals into runs of the   *)
(* graph, one at a time.  The queue of entry signals and the state file    *)
(* outlive the process; what it has read of its socket, and what it has    *)
(* taken from the queue and not yet begun, does not.                       *)
(*                                                                         *)
(* A run is abstract here (see Scheduler) and known by the entry signal it *)
(* was started for.  Entry signals are numbered in the order they arrive.  *)
(***************************************************************************)
EXTENDS Naturals, Sequences, FiniteSets

CONSTANTS
  WaitTasks,  \* whether the configuration has wait_for_signal tasks
  MaxSends,   \* bound on messages
  MaxStops    \* bound on crashes, failures, interrupts and shutdowns

ASSUME ServeAssumption ==
  WaitTasks \in BOOLEAN /\ MaxSends \in Nat /\ MaxStops \in Nat

VARIABLES
  pc,        \* where the worker is
  shutdown,  \* it has been told to stop
  nested,    \* the run was resumed by _handle_agent_interrupted
  run,       \* the run being started, in progress or interrupted, or 0
  inbox,     \* the PULL socket
  queue,     \* the queue file: [next, items]
  disk,      \* the state file: the run it holds, or 0
  gone,      \* entries whose execution the configuration no longer has
  sends, stops,  \* counters for the bounds
  begun,     \* history: the runs begun, in order
  outcome    \* history: how the run in the state file has ended, if it has

process == <<pc, shutdown, nested, run, inbox>>
files   == <<queue, disk, outcome, begun>>
vars    == <<process, files, gone, sends, stops>>

Location == {"off", "loop", "taken", "running", "interrupted"}
Outcome  == {"none", "open", "done", "failed", "aborted"}

(* What can be sent to the worker: an entry signal; the command `resume`;  *)
(* an answer to an interrupt, with a token; and what has no effect on it   *)
(* (a trigger's signal, an unknown or invalid one, a malformed message).   *)
Answer  == {"rerun", "skip", "abort"}
Kind    == {"entry", "resume", "other"} \cup Answer
Message == [kind : Kind, id : 1..MaxSends]

Up == pc # "off"

Item == [sequence : 1..(MaxSends + 1), entry : 1..MaxSends]

Entries(items) == [i \in 1..Len(items) |-> items[i].entry]
InQueue == {queue.items[i].entry : i \in 1..Len(queue.items)}

NoQueue == [next |-> 1, items |-> <<>>]

-----------------------------------------------------------------------------
Init ==
  /\ pc = "off" /\ shutdown = FALSE /\ nested = FALSE /\ run = 0
  /\ inbox = <<>>
  /\ queue = NoQueue
  /\ disk = 0 /\ outcome = "none"
  /\ gone = {}
  /\ sends = 0 /\ stops = 0
  /\ begun = <<>>

\* Mutant: the next sequence number is not written.
EnqueuedSameNumber(n) ==
  [next |-> queue.next,
   items |-> Append(queue.items, [sequence |-> queue.next, entry |-> n])]

\* Mutant: the items already in the file are not read back.
EnqueuedAlone(n) ==
  [next |-> queue.next + 1,
   items |-> <<[sequence |-> queue.next, entry |-> n]>>]

(* enqueue_entry_signal and dequeue_entry_signal replace the whole file. *)
Enqueued(n) ==
  [next |-> queue.next + 1,
   items |-> Append(queue.items, [sequence |-> queue.next, entry |-> n])]

\* Mutant: the number after the next one is written back.
DequeuedRenumbering == [next |-> queue.next + 1, items |-> Tail(queue.items)]

Dequeued == [queue EXCEPT !.items = Tail(@)]

\* Mutant: the items are popped at the end.
LastItem == queue.items[Len(queue.items)].entry

NextItem == Head(queue.items).entry

-----------------------------------------------------------------------------
\* Mutant: a worker that finds a state file enters its loop.
StartsInLoop == FALSE

(* A state file makes the worker resume before it serves, whether or not   *)
(* the run in it has completed.                                            *)
ResumesAtStart == disk # 0

(* _resume_run: the run in the state file goes on, however it had ended.   *)
ResumeRun == pc' = "running" /\ run' = disk /\ outcome' = "open"

(* A new process.  The configuration may have been edited since, and lack  *)
(* executions that queued entries ask for.                                 *)
Start ==
  /\ pc = "off"
  /\ IF ResumesAtStart
     THEN ResumeRun
     ELSE pc' = "loop" /\ UNCHANGED <<run, outcome>>
  /\ \E edited \in SUBSET InQueue : gone' = gone \cup edited
  /\ UNCHANGED <<shutdown, nested, inbox, queue, disk, begun, sends, stops>>

Clear ==
  /\ pc = "off" /\ (disk # 0 \/ queue # NoQueue)
  /\ queue' = NoQueue
  /\ disk' = 0 /\ outcome' = "none"
  /\ UNCHANGED <<process, gone, sends, stops, begun>>

Send(kind) ==
  /\ Up
  /\ sends < MaxSends /\ sends' = sends + 1
  /\ inbox' = Append(inbox, [kind |-> kind, id |-> sends + 1])
  /\ UNCHANGED <<pc, shutdown, nested, run, files, gone, stops>>

-----------------------------------------------------------------------------
Loop == pc = "loop" /\ ~ shutdown

\* Mutant: the loop takes an item only when there is another behind it.
HasTwoItems == Len(queue.items) > 1

HasItem == queue.items # <<>>

(* dequeue_entry_signal: the item is off the disk before its run begins.   *)
LoopDequeue ==
  /\ Loop /\ HasItem
  /\ run' = NextItem
  /\ queue' = Dequeued
  /\ pc' = "taken"
  /\ UNCHANGED <<shutdown, nested, inbox, disk, outcome, begun, gone, sends, stops>>

\* Mutant: the new run is not saved when it begins.
SavedLater == disk

SavedFresh == run

(* run_execution_schedule clears the context and saves the fresh run.      *)
BeginRun ==
  /\ pc = "taken" /\ run \notin gone
  /\ pc' = "running"
  /\ disk' = SavedFresh /\ outcome' = "open"
  /\ begun' = Append(begun, run)
  /\ UNCHANGED <<shutdown, nested, run, inbox, queue, gone, sends, stops>>

(* _run_queued_entry_signal refuses an execution it does not know.         *)
RefuseRun ==
  /\ pc = "taken" /\ run \in gone
  /\ pc' = "loop" /\ run' = 0
  /\ UNCHANGED <<shutdown, nested, inbox, files, gone, sends, stops>>

(* _handle_command and _handle_incoming_signal; only `resume` is known.    *)
LoopReceive ==
  /\ Loop /\ ~ HasItem /\ inbox # <<>>
  /\ inbox' = Tail(inbox)
  /\ LET m == Head(inbox)
     IN  /\ queue' = IF m.kind = "entry" THEN Enqueued(m.id) ELSE queue
         /\ IF m.kind = "resume" /\ disk # 0
            THEN ResumeRun
            ELSE UNCHANGED <<pc, run, outcome>>
  /\ UNCHANGED <<shutdown, nested, disk, begun, gone, sends, stops>>

(* The process is no more, nor is what it had read or taken. *)
Ended ==
  /\ pc' = "off" /\ shutdown' = FALSE /\ nested' = FALSE
  /\ run' = 0 /\ inbox' = <<>>

LoopExit ==
  /\ pc = "loop" /\ shutdown
  /\ Ended
  /\ UNCHANGED <<files, gone, sends, stops>>

-----------------------------------------------------------------------------
(* _drain_incoming_signals and _wait_for_signal hand entry signals to      *)
(* on_entry_signal, and take everything else off the socket.               *)
RunReceives ==
  /\ pc = "running" /\ inbox # <<>>
  /\ inbox' = Tail(inbox)
  /\ queue' = IF Head(inbox).kind = "entry" THEN Enqueued(Head(inbox).id) ELSE queue
  /\ UNCHANGED <<pc, shutdown, nested, run, disk, outcome, begun, gone, sends, stops>>

(* _wait_for_matching_signal drops what its task does not wait for.        *)
TaskReceives ==
  /\ pc = "running" /\ inbox # <<>>
  /\ WaitTasks
  /\ inbox' = Tail(inbox)
  /\ UNCHANGED <<pc, shutdown, nested, run, files, gone, sends, stops>>

Ends(how) ==
  /\ pc' = "loop" /\ run' = 0 /\ nested' = FALSE
  /\ outcome' = how
  /\ UNCHANGED <<shutdown, queue, disk, begun, gone, sends>>

RunCompletes ==
  /\ pc = "running"
  /\ Ends("done")
  /\ UNCHANGED <<inbox, stops>>

Stop == stops < MaxStops /\ stops' = stops + 1

RunFails ==
  /\ pc = "running"
  /\ Ends("failed")
  /\ Stop
  /\ UNCHANGED inbox

(* AgentInterrupted reaches the loop; raised by a run that an earlier      *)
(* dialogue resumed, it is taken for a failure of that resume.             *)
Interrupt ==
  /\ pc = "running"
  /\ Stop
  /\ IF nested
     THEN Ends("failed")
     ELSE /\ pc' = "interrupted"
          /\ UNCHANGED <<shutdown, nested, run, files, gone, sends>>
  /\ UNCHANGED inbox

(* _handle_agent_interrupted waits for an answer and drops the rest.       *)
InterruptedReceives ==
  /\ pc = "interrupted" /\ ~ shutdown /\ inbox # <<>>
  /\ inbox' = Tail(inbox)
  /\ LET kind == Head(inbox).kind
     IN  CASE kind \in {"rerun", "skip"} ->
                /\ pc' = "running" /\ nested' = TRUE
                /\ UNCHANGED <<shutdown, run, files, gone, sends>>
           [] kind = "abort" -> Ends("aborted")
           [] OTHER -> UNCHANGED <<pc, shutdown, nested, run, files, gone, sends>>
  /\ UNCHANGED stops

\* Mutant: the dialogue does not look at the shutdown flag.
DeafToShutdown == FALSE

SeesShutdown == shutdown

InterruptedExit ==
  /\ pc = "interrupted" /\ SeesShutdown
  /\ pc' = "loop" /\ run' = 0
  /\ UNCHANGED <<shutdown, nested, inbox, files, gone, sends, stops>>

(* The first SIGTERM or SIGINT. *)
Shutdown ==
  /\ Up /\ ~ shutdown
  /\ Stop
  /\ shutdown' = TRUE
  /\ UNCHANGED <<pc, nested, run, inbox, files, gone, sends>>

(* The process dies: killed, by an error that is not a PropagateError, or  *)
(* by the KeyboardInterrupt a second signal raises.                        *)
Crash ==
  /\ Up
  /\ Stop
  /\ Ended
  /\ UNCHANGED <<files, gone, sends>>

-----------------------------------------------------------------------------
Serving ==
  \/ LoopDequeue \/ BeginRun \/ RefuseRun \/ LoopReceive \/ LoopExit
  \/ InterruptedReceives \/ InterruptedExit

Running == RunReceives \/ TaskReceives \/ RunCompletes \/ RunFails \/ Interrupt

Environment ==
  \/ Start \/ Clear \/ Shutdown \/ Crash
  \/ \E kind \in Kind : Send(kind)

Next == Serving \/ Running \/ Environment

Spec == Init /\ [][Next]_vars

(* The worker's loops take their next step; a run may wait for a signal    *)
(* for ever, and nobody is obliged to send one or to start the worker.     *)
FairSpec == Spec /\ WF_vars(Serving)

-----------------------------------------------------------------------------
(* Type correctness of the worker and of its files.                        *)
TypeOK ==
  /\ pc \in Location
  /\ shutdown \in BOOLEAN /\ nested \in BOOLEAN
  /\ run \in 0..MaxSends
  /\ run = 0 <=> pc \in {"off", "loop"}
  /\ nested => pc = "running"
  /\ disk = 0 <=> outcome = "none"
  /\ inbox \in Seq(Message)
  /\ queue \in [next : 1..(MaxSends + 1), items : Seq(Item)]
  /\ disk \in 0..MaxSends /\ outcome \in Outcome
  /\ gone \subseteq 1..MaxSends
  /\ sends \in 0..MaxSends /\ stops \in 0..MaxStops
  /\ begun \in Seq(1..MaxSends)

(* The run in progress, and the one an answer to an interrupt resumes from *)
(* the state file, is the run the file holds, whatever else was dequeued   *)
(* or resumed before (_handle_agent_interrupted calls load_run_state).     *)
RunIsSaved ==
  pc \in {"running", "interrupted"} => run = disk /\ outcome = "open"

(* Queued items carry increasing sequence numbers, all below the next one, *)
(* across dequeues, crashes and restarts (entry_signal_queue.py).          *)
Numbered ==
  LET s == queue.items
  IN  \A i \in 1..Len(s) :
        /\ s[i].sequence < queue.next
        /\ \A j \in 1..(i - 1) : s[j].sequence < s[i].sequence

(* The entries that are queued, or taken from the queue and not yet begun. *)
Accepted == InQueue \cup (IF pc = "taken" THEN {run} ELSE {})

(* The entry taken off the file is still the first in line. *)
Line == (IF pc = "taken" THEN <<run>> ELSE <<>>) \o Entries(queue.items)

Fifo == INSTANCE EntryFifo WITH Entry <- 1..MaxSends, waiting <- Line

(* Across runs, failures, interrupts, crashes and restarts, entry signals  *)
(* start runs in the order they arrived and none starts two.               *)
ServesInOrder == Fifo!Spec

(* An accepted entry signal leaves the line without a run only if the      *)
(* worker goes down with it in its hands, its execution is gone, or the    *)
(* files are cleared; no failing or interrupted run takes others with it.  *)
KeptWhileUp ==
  [][\A n \in Accepted :
        \/ n \in Accepted'
        \/ \E i \in 1..Len(begun') : begun'[i] = n
        \/ n \in gone
        \/ pc' = "off"]_vars

(* A run cut short by a crash is taken up again before another one takes   *)
(* its place in the state file: only a run that completed, failed or was   *)
(* aborted is overwritten (_run_worker_loop resumes before it serves).     *)
CutShortIsResumed ==
  [][disk' \notin {0, disk} => outcome # "open"]_vars

(* An entry signal stays in the queue for ever only if the worker stays    *)
(* away from its loop for ever: down, in a run, or waiting for an answer.  *)
NotStarved ==
  \A n \in 1..MaxSends : <>[](n \in InQueue) => <>[](pc # "loop")

(* Once told to stop, only a run that does not end keeps the worker up; in *)
(* particular an interrupt nobody answers does not.                        *)
StopsWhenAsked == <>[](Up /\ shutdown) => <>[](pc = "running")

(* docs/SIGNALS.md: "Entry signals are durably queued and processed in     *)
(* strict FIFO (one DAG run per queued entry signal)", stated of crashes:  *)
(* a queued signal stays queued until its run begins.                      *)
QueuedStartsRun ==
  [][\A n \in Accepted :
        \/ n \in Accepted'
        \/ \E i \in 1..Len(begun') : begun'[i] = n
        \/ n \in gone
        \/ queue' = NoQueue]_vars
=============================================================================
