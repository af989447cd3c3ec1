---------------------------- MODULE ContextStore ----------------------------
(***************************************************************************)
(* The context of one execution: its three layers of keys in the file      *)
(* system, the :signal namespace prepared for its signal, the prompt built *)
(* from the layers, the signals its wait task receives, and a command-line *)
(* client that sets and deletes keys at any moment.                        *)
(*                                                                         *)
(* A value is written to a temporary file in the directory, which then     *)
(* replaces the key's file; whoever is killed in between leaves the        *)
(* temporary file there.                                                   *)
(***************************************************************************)
EXTENDS Naturals, Sequences, FiniteSets, SequencesExt, Functions

CONSTANTS
  None,       \* the program's None
  Key,        \* keys the client sets
  Text,       \* texts a key can have
  Signal,     \* payloads: functions from fields to <<type, text>>
  Field,      \* the fields of the signal's configuration
  FieldType,  \* [Field -> types], as configured
  Number,     \* the texts that can be read as a number
  Accepting,  \* what can be configured as the `when` clauses of its signals entries,
              \* from one run to the next
  Routes,     \* the routes of its wait task: sequence of [when, back]
  MaxStops,   \* bound on crashes and failures
  MaxClient   \* bound on the client's commands

ASSUME ContextAssumption ==
  /\ FieldType \in [Field -> {"string", "number"}]
  /\ IsFiniteSet(Field)
  /\ \A s \in Signal :
       /\ DOMAIN s \subseteq Field
       /\ \A f \in DOMAIN s : s[f] \in {"string", "number"} \X Text
  /\ Number \subseteq Text /\ None \notin Signal
  /\ Key \cap (Field \cup {"type", "payload"}) = {}
  /\ {MaxStops, MaxClient} \subseteq Nat

(* From the outermost to the innermost, each a directory in the one before.*)
Layers == <<"global", "execution", "task">>

Layer == ToSet(Layers)

Outer(l) == {Layers[i] : i \in {j \in 1 .. 3 : \A k \in 1 .. 3 : Layers[k] = l => j <= k}}

(* The keys :signal.type, :signal.payload and :signal.<field>. *)
SignalKeys == {"type", "payload"} \cup Field

(* What the state file holds of a run: its signal, whether the directory   *)
(* was prepared for it, and where a resume goes on.                        *)
Saved == [active : Signal \cup {None}, ready : BOOLEAN, at : {"hooks", "load", "wait", "end"}]

(* None can be told from a state file. *)
ASSUME NoneAssumption == None \notin Saved

VARIABLES
  pc,        \* where the engine is; "down": no process runs the execution
  files,     \* the keys of every layer, with their values
  dirs,      \* the directories that exist
  litter,    \* those with a temporary file that nobody will remove
  temp,      \* the engine has a temporary file open
  active,    \* active_signal of the scheduler's loop
  taken,     \* the signal its wait task took, until it is saved
  ready,     \* the directory is in initialized_signal_context_dirs
  saved,     \* the state file: the signal, the flag, and where a resume goes on
  todo,      \* keys still to be removed, written or read, in order
  layers,    \* the layers read so far
  prompt,    \* the context of the last prompt built, None before
  client,    \* the client's command under way, None between commands
  clients, stops, \* counters for the bounds
  written,   \* history: the signal last stored since the context was cleared
  answered,  \* history: the wait task stored it
  stale,     \* history: the loop may go by another signal: the process stopped between
             \* the clearing and the first save, or a signal came after the preparation
  touched    \* history: keys changed since the reading of the layers began

disk == <<files, dirs, litter>>
engine == <<temp, active, taken, ready, todo, layers>>
ours == <<client, clients>>
past == <<stops, written, answered, stale, touched>>
vars == <<pc, disk, engine, saved, prompt, ours, past>>

Empty == [k \in {} |-> None]

Init ==
  /\ pc = "down"
  /\ files = [l \in Layer |-> Empty] /\ dirs = {} /\ litter = {}
  /\ temp = FALSE /\ active = None /\ taken = None /\ ready = FALSE
  /\ todo = <<>> /\ layers = <<>>
  /\ saved = None /\ prompt = None
  /\ client = None /\ clients = 0
  /\ stops = 0 /\ touched = {}
  /\ written = None /\ answered = FALSE /\ stale = FALSE

-----------------------------------------------------------------------------
(* Matching a payload with a `when`, whose values are a <<type, text>> or  *)
(* <<"equals_context", key>>, looked up in the execution's layer.          *)

Deserialized(text, type) ==
  IF type = "string" \/ text \in Number THEN <<type, text>> ELSE None

Expected(field, value) ==
  IF value[1] # "equals_context" THEN value
  ELSE IF value[2] \in DOMAIN files["execution"]
       THEN Deserialized(files["execution"][value[2]], FieldType[field])
       ELSE None

Matches(s, when) ==
  \A f \in DOMAIN when : f \in DOMAIN s /\ s[f] = Expected(f, when[f])

(* ensure_execution_accepts_signal.  It looks into the context a run       *)
(* before this one left.                                                   *)
Accepts(clauses, s) ==
  clauses = {} \/ (s # None /\ \E when \in clauses : Matches(s, when))

-----------------------------------------------------------------------------
(* The engine. *)

(* clear_all_context removes the client's temporary file with the rest:    *)
(* its command then fails and changes nothing.  The state file is still    *)
(* the one of the run before.                                              *)
StartRun(s) ==
  /\ pc = "down"
  /\ \E clauses \in Accepting : Accepts(clauses, s)
  /\ files' = [l \in Layer |-> Empty] /\ dirs' = {} /\ litter' = {}
  /\ active' = s /\ ready' = FALSE
  /\ written' = None /\ answered' = FALSE /\ stale' = TRUE
  /\ client' = IF client # None /\ client.at = "temp" THEN None ELSE client
  /\ pc' = "begin"
  /\ UNCHANGED <<temp, taken, todo, layers, saved, prompt, clients, stops, touched>>

(* _sync_and_save, with the signal of the loop. *)
Save(place) == saved' = [active |-> active, ready |-> ready, at |-> place]

(* The first save of the run. *)
SaveFresh ==
  /\ pc = "begin"
  /\ Save("hooks")
  /\ stale' = FALSE
  /\ pc' = "prepare"
  /\ UNCHANGED <<disk, engine, prompt, ours, stops, written, answered, touched>>

Resume ==
  /\ pc = "down"
  /\ saved # None
  /\ active' = saved.active /\ ready' = saved.ready
  /\ pc' = "prepare"
  /\ UNCHANGED <<disk, temp, taken, todo, layers, saved, prompt, ours, past>>

(* _drain_incoming_signals, also after a resume with the directory         *)
(* prepared.  The signal is saved with the next progress.                  *)
Drain(s) ==
  /\ pc = "prepare"
  /\ active' = s
  /\ stale' = (stale \/ ready)
  /\ UNCHANGED <<pc, disk, temp, taken, ready, todo, layers, saved, prompt, ours>>
  /\ UNCHANGED <<stops, written, answered, touched>>

(* prepare_signal_context_for_working_dir. *)
PrepareAgain ==
  /\ pc = "prepare"
  /\ ready
  /\ pc' = saved.at
  /\ UNCHANGED <<disk, engine, saved, prompt, ours, past>>

\* Mutant: a namespace left by an earlier preparation is written over.
PrepareOver ==
  /\ pc = "prepare"
  /\ ~ ready
  /\ todo' = <<>>
  /\ pc' = "clear"
  /\ UNCHANGED <<disk, temp, active, taken, ready, layers, saved, prompt, ours, past>>

Prepare ==
  /\ pc = "prepare"
  /\ ~ ready
  /\ todo' = SetToSeq(DOMAIN files["execution"] \cap SignalKeys)
  /\ pc' = "clear"
  /\ UNCHANGED <<disk, temp, active, taken, ready, layers, saved, prompt, ours, past>>

Without(f, k) == Restrict(f, DOMAIN f \ {k})

With(f, k, v) == [x \in DOMAIN f \cup {k} |-> IF x = k THEN v ELSE f[x]]

Clear ==
  /\ pc = "clear"
  /\ todo # <<>>
  /\ files' = [files EXCEPT !["execution"] = Without(@, Head(todo))]
  /\ todo' = Tail(todo)
  /\ UNCHANGED <<pc, dirs, litter, temp, active, taken, ready, layers, saved, prompt, ours, past>>

(* What store_active_signal_context writes, in its order: a field called   *)
(* type or payload is written over the signal's own.  The source of the    *)
(* signal, written the same way, is left out.                              *)
Entries(s) ==
  <<<<"type", "sig">>, <<"payload", s>>>>
    \o LET fields == SetToSeq(DOMAIN s) IN [i \in DOMAIN fields |-> <<fields[i], s[fields[i]][2]>>]

Store(s) ==
  /\ dirs' = dirs \cup Outer("execution")
  /\ todo' = Entries(s)

Cleared ==
  /\ pc = "clear"
  /\ todo = <<>>
  /\ IF active = None THEN UNCHANGED <<dirs, todo>> ELSE Store(active)
  /\ pc' = "store"
  /\ UNCHANGED <<files, litter, temp, active, taken, ready, layers, saved, prompt, ours, past>>

(* write_context_value. *)
Writing == pc \in {"store", "storeBack", "storeOn"} /\ todo # <<>>

OpenTemp ==
  /\ Writing
  /\ ~ temp
  /\ temp' = TRUE
  /\ UNCHANGED <<pc, disk, active, taken, ready, todo, layers, saved, prompt, ours, past>>

Replace ==
  /\ Writing
  /\ temp
  /\ temp' = FALSE
  /\ files' = [files EXCEPT !["execution"] = With(@, Head(todo)[1], Head(todo)[2])]
  /\ todo' = Tail(todo)
  /\ UNCHANGED <<pc, dirs, litter, active, taken, ready, layers, saved, prompt, ours, past>>

Prepared ==
  /\ pc = "store"
  /\ todo = <<>>
  /\ ready' = TRUE
  /\ written' = active /\ stale' = FALSE
  /\ pc' = saved.at
  /\ UNCHANGED <<disk, temp, active, taken, todo, layers, saved, prompt, ours>>
  /\ UNCHANGED <<stops, answered, touched>>

(* The before hooks are done: on_phase_completed. *)
HooksDone ==
  /\ pc = "hooks"
  /\ Save("load")
  /\ pc' = "load"
  /\ UNCHANGED <<disk, engine, prompt, ours, past>>

BeginLoad ==
  /\ pc = "load"
  /\ layers' = <<>> /\ touched' = {}
  /\ pc' = "list"
  /\ UNCHANGED <<disk, temp, active, taken, ready, todo, saved, prompt, ours>>
  /\ UNCHANGED <<stops, written, answered, stale>>

(* load_local_context: the names are listed, then the files are read.  A   *)
(* temporary file is no context key.                                       *)
Reading == Layers[Len(layers)]

Litters(l) == l \in litter \/ (client # None /\ client.at = "temp" /\ client.layer = l)

List ==
  /\ pc = "list"
  /\ Len(layers) < 3
  /\ ~ Litters(Layers[Len(layers) + 1])
  /\ layers' = Append(layers, Empty)
  /\ todo' = SetToSeq(DOMAIN files[Layers[Len(layers) + 1]])
  /\ pc' = "read"
  /\ UNCHANGED <<disk, temp, active, taken, ready, saved, prompt, ours, past>>

Read ==
  /\ pc = "read"
  /\ todo # <<>>
  /\ Head(todo) \in DOMAIN files[Reading]
  /\ layers' = [layers EXCEPT ![Len(layers)] =
                  With(@, Head(todo), files[Reading][Head(todo)])]
  /\ todo' = Tail(todo)
  /\ UNCHANGED <<pc, disk, temp, active, taken, ready, saved, prompt, ours, past>>

ListNext ==
  /\ pc = "read"
  /\ todo = <<>>
  /\ pc' = "list"
  /\ UNCHANGED <<disk, engine, saved, prompt, ours, past>>

(* The keys of two layers: what f has of a key replaces what g has. *)
Over(f, g) == [k \in DOMAIN f \cup DOMAIN g |-> IF k \in DOMAIN f THEN f[k] ELSE g[k]]

\* Mutant: the first layer that has a key wins.
MergedFirst(ls) == Over(ls[1], Over(ls[2], ls[3]))

(* merge_context_layers: a later layer wins. *)
Merged(ls) == Over(ls[3], Over(ls[2], ls[1]))

BuildPrompt ==
  /\ pc = "list"
  /\ Len(layers) = 3
  /\ prompt' = Merged(layers)
  /\ layers' = <<>>
  /\ pc' = "agent"
  /\ UNCHANGED <<disk, temp, active, taken, ready, todo, saved, ours, past>>

Stopped(place) ==
  /\ pc' = place
  /\ temp' = FALSE /\ todo' = <<>> /\ layers' = <<>> /\ ready' = FALSE
  /\ active' = None /\ taken' = None /\ prompt' = None

(* A name that is no context key, or a file that is gone. *)
LoadFails ==
  /\ \/ pc = "list" /\ Len(layers) < 3 /\ Litters(Layers[Len(layers) + 1])
     \/ pc = "read" /\ todo # <<>> /\ Head(todo) \notin DOMAIN files[Reading]
  /\ Stopped("down")
  /\ UNCHANGED <<disk, saved, ours, past>>

AgentDone ==
  /\ pc = "agent"
  /\ Save(IF Routes = <<>> THEN "end" ELSE "wait")
  /\ pc' = saved'.at
  /\ prompt' = None
  /\ UNCHANGED <<disk, engine, ours, past>>

(* _wait_for_matching_signal: the first route that matches.  A signal that *)
(* matches none is dropped.                                                *)
Receive(s) ==
  /\ pc = "wait"
  /\ \E i \in DOMAIN Routes :
       /\ Matches(s, Routes[i].when)
       /\ \A j \in 1 .. i - 1 : ~ Matches(s, Routes[j].when)
       /\ pc' = IF Routes[i].back THEN "storeBack" ELSE "storeOn"
  /\ taken' = s
  /\ Store(s)
  /\ written' = s /\ answered' = TRUE
  /\ UNCHANGED <<files, litter, temp, active, ready, layers, saved, prompt, ours>>
  /\ UNCHANGED <<stops, stale, touched>>

(* on_phase_completed after the task, still with the signal of the loop. *)
SaveRoute ==
  /\ pc \in {"storeBack", "storeOn"}
  /\ todo = <<>>
  /\ Save("end")
  /\ pc' = IF pc = "storeBack" THEN "reset" ELSE "saveSignal"
  /\ UNCHANGED <<disk, engine, prompt, ours, past>>

(* on_tasks_reset. *)
SaveReset ==
  /\ pc = "reset"
  /\ Save("hooks")
  /\ pc' = "saveSignal"
  /\ UNCHANGED <<disk, engine, prompt, ours, past>>

(* on_runtime_context_updated saves the signal taken; the next progress    *)
(* saves the one of the loop again.                                        *)
SaveSignal ==
  /\ pc = "saveSignal"
  /\ saved' = [saved EXCEPT !.active = taken]
  /\ taken' = None
  /\ pc' = saved.at
  /\ UNCHANGED <<disk, temp, active, ready, todo, layers, prompt, ours, past>>

(* Nothing is left to be resumed. *)
Finish ==
  /\ pc = "end"
  /\ saved' = None
  /\ Stopped("down")
  /\ UNCHANGED <<disk, ours, past>>

Stop == stops < MaxStops /\ stops' = stops + 1

Crash ==
  /\ pc # "down"
  /\ Stop
  /\ litter' = IF temp THEN litter \cup {"execution"} ELSE litter
  /\ Stopped("down")
  /\ UNCHANGED <<files, dirs, saved, ours, written, answered, stale, touched>>

-----------------------------------------------------------------------------
(* `propagate context set` and `delete`, run by the agent, a hook, or in   *)
(* another terminal.                                                       *)

Begin(l, k, text) ==
  /\ client = None
  /\ clients < MaxClient
  /\ clients' = clients + 1
  /\ dirs' = dirs \cup Outer(l)
  /\ client' = [at |-> "made", layer |-> l, key |-> k, text |-> text]
  /\ UNCHANGED <<pc, files, litter, engine, saved, prompt, past>>

Open ==
  /\ client # None
  /\ client.at = "made"
  /\ client' = IF client.layer \in dirs THEN [client EXCEPT !.at = "temp"] ELSE None
  /\ UNCHANGED <<pc, disk, engine, saved, prompt, clients, past>>

Set ==
  /\ client # None
  /\ client.at = "temp"
  /\ files' = [files EXCEPT ![client.layer] = With(@, client.key, client.text)]
  /\ touched' = touched \cup {client.key}
  /\ client' = None
  /\ UNCHANGED <<pc, dirs, litter, engine, saved, prompt, clients>>
  /\ UNCHANGED <<stops, written, answered, stale>>

Delete(l, k) ==
  /\ client = None
  /\ clients < MaxClient
  /\ clients' = clients + 1
  /\ k \in DOMAIN files[l]
  /\ files' = [files EXCEPT ![l] = Without(@, k)]
  /\ touched' = touched \cup {k}
  /\ UNCHANGED <<pc, dirs, litter, engine, saved, prompt, client>>
  /\ UNCHANGED <<stops, written, answered, stale>>

Killed ==
  /\ client # None
  /\ Stop
  /\ litter' = IF client.at = "temp" THEN litter \cup {client.layer} ELSE litter
  /\ client' = None
  /\ UNCHANGED <<pc, files, dirs, engine, saved, prompt, clients>>
  /\ UNCHANGED <<written, answered, stale, touched>>

Next ==
  \/ \E s \in Signal \cup {None} : StartRun(s)
  \/ \E s \in Signal : Drain(s) \/ Receive(s)
  \/ SaveFresh \/ Resume \/ PrepareAgain \/ Prepare \/ Clear \/ Cleared \/ OpenTemp \/ Replace
  \/ Prepared \/ HooksDone \/ BeginLoad \/ List \/ Read \/ ListNext \/ BuildPrompt
  \/ LoadFails \/ AgentDone \/ SaveRoute \/ SaveReset \/ SaveSignal \/ Finish \/ Crash
  \/ \E l \in Layer, k \in Key : (\E text \in Text : Begin(l, k, text)) \/ Delete(l, k)
  \/ Open \/ Set \/ Killed

Spec == Init /\ [][Next]_vars

-----------------------------------------------------------------------------
(***************************************************************************)
(* A prompt has every key, as the innermost layer holding it has it,       *)
(* whatever the client did to other keys while the layers were read.       *)
(***************************************************************************)
Holders(k) == {i \in 1 .. 3 : k \in DOMAIN files[Layers[i]]}

Innermost(k) == CHOOSE i \in Holders(k) : \A j \in Holders(k) : j <= i

LayersRespected ==
  prompt # None =>
    \A k \in (Key \cup SignalKeys) \ touched :
      IF Holders(k) = {} THEN k \notin DOMAIN prompt
      ELSE k \in DOMAIN prompt /\ prompt[k] = files[Layers[Innermost(k)]][k]

(* What :signal holds of a signal in the end. *)
Shown(s) ==
  IF s = None THEN Empty
  ELSE [k \in {"type", "payload"} \cup DOMAIN s |->
          IF k \in DOMAIN s THEN s[k][2] ELSE IF k = "type" THEN "sig" ELSE s]

(***************************************************************************)
(* A prompt shows the whole of the signal last stored and, before a wait   *)
(* task has stored one over it, no other :signal key, however often the    *)
(* preparation was cut short.  That signal is the one the loop goes by,    *)
(* unless the process stopped between clear_all_context and the first      *)
(* save, or a signal came in after the directory was prepared.             *)
(***************************************************************************)
PromptShowsSignal ==
  prompt # None =>
    IF answered
    THEN \A k \in DOMAIN Shown(written) :
           k \in DOMAIN prompt /\ prompt[k] = Shown(written)[k]
    ELSE /\ Restrict(prompt, DOMAIN prompt \cap SignalKeys) = Shown(written)
         /\ ~ stale => active = written
=============================================================================
