----------------------------- MODULE Interrupts -----------------------------
(***************************************************************************)
(* Interrupting an agent: shells ask the coordinator, which signals the    *)
(* worker, whose handler stops the agent in the middle of                  *)
(* run_agent_command; the worker tells of it and waits for the answer that *)
(* comes back through the coordinator.  Workers are loaded, reloaded and   *)
(* unloaded around it, and die.                                            *)
(***************************************************************************)
EXTENDS Coordinator

CONSTANTS
  Shell,      \* the shells connected to the coordinator
  Lifecycle,  \* the requests, besides interrupts, that they make
  Impatient,  \* shells may give up waiting for an answer
  MaxInterrupts, \* bound on the interrupts
  MaxTroubles \* bound on the other requests and the deaths of workers

ASSUME InterruptAssumption ==
  /\ Lifecycle \subseteq {"load", "unload", "reload"}
  /\ Impatient \in BOOLEAN
  /\ MaxInterrupts \in Nat /\ MaxTroubles \in Nat
  /\ MaxRequests = MaxInterrupts + MaxTroubles

VARIABLES
  place,     \* where the worker's main thread is
  resuming,  \* the token of the answer whose _resume_run this is, 0 if none
  agent,     \* the agent process
  current,   \* _current_agent_process is set
  flag,      \* _interrupt_requested
  saved,     \* there is a state file
  shell,     \* what every shell waits for
  requests,  \* requests made, the last token
  changes,   \* those that were not interrupts
  alone,     \* history: the last interrupt was sent with nothing else under way
  serial,    \* history: interruptions so far
  deaths     \* counter for the bound

agentVars == <<agent, current, flag>>
workerVars == <<place, resuming, agentVars, saved, serial>>
userVars == <<shell, requests, changes, alone>>
vars == <<coordinatorVars, workerVars, userVars, deaths>>

(* In "registering" and "releasing" the main thread holds _process_lock;   *)
(* in "stuck" the handler waits for it.                                    *)
Place == {"down", "idle", "hooks", "spawned", "registering", "reading", "releasing", "check",
          "wait", "stuck"}

ShellState == [at : {"prompt"}]
              \cup [at : {"stopping", "asking", "resuming", "replying"}, token : Token]

TypeOK ==
  /\ CoordinatorTypeOK
  /\ place \in Place /\ resuming \in Token \cup {0}
  /\ agent \in {"none", "alive", "killed", "ended"} /\ current \in BOOLEAN /\ flag \in BOOLEAN
  /\ saved \in BOOLEAN
  /\ shell \in [Shell -> ShellState]
  /\ requests \in 0 .. MaxRequests /\ changes \in 0 .. MaxTroubles /\ alone \in BOOLEAN
  /\ serial \in 0 .. MaxRequests /\ deaths \in 0 .. MaxTroubles

Init ==
  /\ CoordinatorInit
  /\ place = "idle" /\ resuming = 0
  /\ agent = "none" /\ current = FALSE /\ flag = FALSE
  /\ saved = FALSE
  /\ shell = [s \in Shell |-> [at |-> "prompt"]]
  /\ requests = 0 /\ changes = 0 /\ alone = FALSE /\ serial = 0 /\ deaths = 0

-----------------------------------------------------------------------------
(* The worker *)
processRest == <<inbox, main, lists, proxy, checker, published, asked>>

(* The worker's PUB socket: without a subscriber an event is lost. *)
Tell(kind, token, about) ==
  fromWorker' = IF linked
                THEN Append(fromWorker, [kind |-> kind, token |-> token, serial |-> about])
                ELSE fromWorker

Silent == UNCHANGED fromWorker

(* A step of the main thread that only the worker's own state takes part in. *)
Inside == UNCHANGED <<processRest, life, sigterm, kicked, linked, toWorker, userVars, deaths>>

(* A run that was cut short is resumed first. *)
WorkerReady ==
  /\ life = "starting"
  /\ life' = "up"
  /\ place' = IF saved THEN "hooks" ELSE "idle"
  /\ UNCHANGED <<processRest, wires, resuming, agentVars, saved, serial, userVars, deaths>>

WorkerStillborn ==
  /\ life = "starting"
  /\ life' = "stillborn"
  /\ UNCHANGED <<processRest, wires, workerVars, userVars, deaths>>

(* A signal or `resume` starts a run. *)
RunBegins ==
  /\ life = "up" /\ place = "idle" /\ ~ sigterm
  /\ place' = "hooks" /\ saved' = TRUE
  /\ Silent /\ Inside /\ UNCHANGED <<resuming, agentVars, serial>>

(* The end of a run, and of the answer it belongs to. *)
EndOfRun(ok) ==
  /\ place' = "idle" /\ resuming' = 0
  /\ saved' = ~ ok
  /\ IF resuming # 0 /\ ~ ok THEN Tell("interrupt_resume_failed", resuming, serial) ELSE Silent

RunEnds ==
  /\ life = "up" /\ place = "hooks"
  /\ \E ok \in BOOLEAN : EndOfRun(ok)
  /\ Inside /\ UNCHANGED <<agentVars, serial>>

-----------------------------------------------------------------------------
(* run_agent_command *)
SpawnAgent ==
  /\ life = "up" /\ place = "hooks"
  /\ place' = "spawned" /\ agent' = "alive"
  /\ Silent /\ Inside /\ UNCHANGED <<resuming, current, flag, saved, serial>>

ClearFlag ==
  /\ life = "up" /\ place = "spawned"
  /\ flag' = FALSE
  /\ place' = "registering"
  /\ Silent /\ Inside /\ UNCHANGED <<resuming, agent, current, saved, serial>>

Register ==
  /\ life = "up" /\ place = "registering"
  /\ current' = TRUE
  /\ place' = "reading"
  /\ Silent /\ Inside /\ UNCHANGED <<resuming, agent, flag, saved, serial>>

(* Nobody looks before the agent is registered. *)
AgentEnds ==
  /\ agent = "alive" /\ place = "reading"
  /\ agent' = "ended"
  /\ Silent /\ Inside /\ UNCHANGED <<place, resuming, current, flag, saved, serial>>

OutputEnds ==
  /\ life = "up" /\ place = "reading" /\ agent # "alive"
  /\ place' = "releasing"
  /\ Silent /\ Inside /\ UNCHANGED <<resuming, agentVars, saved, serial>>

(* Mutant: the flag is cleared with the process. *)
ReleaseClears ==
  /\ life = "up" /\ place = "releasing"
  /\ current' = FALSE /\ flag' = FALSE
  /\ place' = "check"
  /\ Silent /\ Inside /\ UNCHANGED <<resuming, agent, saved, serial>>

Release ==
  /\ life = "up" /\ place = "releasing"
  /\ current' = FALSE
  /\ place' = "check"
  /\ Silent /\ Inside /\ UNCHANGED <<resuming, agent, flag, saved, serial>>

(* AgentInterrupted: _handle_agent_interrupted tells of it and waits, but  *)
(* to the _resume_run of an earlier answer it is one more failure.         *)
Interrupted ==
  /\ life = "up" /\ place = "check" /\ flag
  /\ flag' = FALSE /\ agent' = "none"
  /\ IF resuming = 0
     THEN /\ place' = "wait" /\ serial' = serial + 1
          /\ Tell("agent_interrupted", 0, serial')
          /\ UNCHANGED <<resuming, saved>>
     ELSE EndOfRun(FALSE) /\ UNCHANGED serial
  /\ Inside /\ UNCHANGED current

(* The agent's exit code, which only an agent left alone can have as 0. *)
AgentDone ==
  /\ life = "up" /\ place = "check" /\ ~ flag
  /\ agent' = "none"
  /\ \/ agent = "ended" /\ place' = "hooks" /\ Silent /\ UNCHANGED <<resuming, saved>>
     \/ EndOfRun(FALSE)
  /\ Inside /\ UNCHANGED <<current, flag, serial>>

(* The handler of SIGUSR1 runs on the main thread, between two of its      *)
(* steps, and request_agent_interrupt takes the lock.                      *)
Handler ==
  /\ life = "up" /\ kicked /\ place # "stuck"
  /\ kicked' = FALSE
  /\ IF place \in {"registering", "releasing"}
     THEN place' = "stuck" /\ Silent /\ UNCHANGED <<flag, agent>>
     ELSE /\ UNCHANGED place
          /\ IF current
             THEN flag' = TRUE /\ agent' = (IF agent = "alive" THEN "killed" ELSE agent) /\ Silent
             ELSE Tell("interrupt_failed", 0, 0) /\ UNCHANGED <<flag, agent>>
  /\ UNCHANGED <<processRest, life, sigterm, linked, toWorker, resuming, current, saved, serial,
                 userVars, deaths>>

-----------------------------------------------------------------------------
(* The answer to an interruption; `skip` differs from `rerun` in the       *)
(* progress it saves (TaskRunner).                                         *)
TakeAnswer ==
  LET answer == Head(toWorker) IN
  /\ life = "up" /\ place = "wait" /\ ~ sigterm /\ toWorker # << >>
  /\ toWorker' = Tail(toWorker)
  /\ \/ /\ answer.action = "rerun"
        /\ place' = "hooks" /\ resuming' = answer.token
        /\ Tell("interrupt_resumed", answer.token, serial)
     \/ /\ answer.action = "abort"
        /\ place' = "idle"
        /\ Tell("interrupt_aborted", answer.token, serial)
        /\ UNCHANGED resuming
  /\ UNCHANGED <<processRest, life, sigterm, kicked, linked, agentVars, saved, serial, userVars,
                 deaths>>

Dead ==
  /\ life' = "dead" /\ place' = "down" /\ resuming' = 0
  /\ agent' = "none" /\ current' = FALSE /\ flag' = FALSE
  /\ kicked' = FALSE

(* SIGTERM ends the serve loop and the wait, not a run. *)
WorkerExits ==
  /\ life = "up" /\ sigterm /\ place \in {"idle", "wait"}
  /\ Dead
  /\ UNCHANGED <<processRest, sigterm, linked, toWorker, fromWorker, saved, serial, userVars,
                 deaths>>

(* _stop_worker waits for 5 s, then kills. *)
WorkerKilled ==
  /\ life = "up" /\ main.doing \in {"stop", "restart"}
  /\ Dead
  /\ UNCHANGED <<processRest, sigterm, linked, toWorker, fromWorker, saved, serial, userVars,
                 deaths>>

WorkerDies ==
  /\ life = "up" /\ changes + deaths < MaxTroubles
  /\ Dead
  /\ deaths' = deaths + 1 /\ alone' = FALSE
  /\ UNCHANGED <<processRest, sigterm, linked, toWorker, fromWorker, saved, serial, shell,
                 requests, changes>>

WorkerStep ==
  \/ WorkerReady \/ RunEnds
  \/ SpawnAgent \/ ClearFlag \/ Register \/ OutputEnds \/ Release \/ Interrupted \/ AgentDone
  \/ TakeAnswer \/ WorkerExits \/ WorkerKilled

-----------------------------------------------------------------------------
(* The shells *)
atHome == <<main, lists, proxy, checker, life, wires, published, asked, workerVars, deaths>>

(* No message, signal or stopped agent is on its way. *)
Quiet ==
  /\ inbox = << >> /\ main = Free /\ hand = Nothing /\ ~ rebuild
  /\ ~ kicked /\ toWorker = << >> /\ fromWorker = << >> /\ ~ flag

Serving == loaded /\ life = "up" /\ linked

Send(s, kind, at) ==
  /\ shell[s].at = "prompt"
  /\ requests' = requests + 1
  /\ inbox' = Append(inbox, [kind |-> kind, token |-> requests'])
  /\ shell' = [shell EXCEPT ![s] = [at |-> at, token |-> requests']]

SendInterrupt(s) ==
  /\ requests - changes < MaxInterrupts
  /\ Send(s, "interrupt", "stopping")
  /\ alone' = (Quiet /\ Serving /\ session = NoSession /\ resuming = 0)
  /\ UNCHANGED <<atHome, changes>>

SendLifecycle(s) ==
  /\ changes + deaths < MaxTroubles /\ changes' = changes + 1
  /\ \E kind \in Lifecycle : Send(s, kind, "replying")
  /\ alone' = FALSE
  /\ UNCHANGED atHome

Heard(s, kinds) == \E kind \in kinds : <<shell[s].token, kind>> \in published

(* An event of the shell's own token is found in the queue, however many   *)
(* others are put back.                                                    *)
SeesContext(s) ==
  /\ shell[s].at = "stopping" /\ Heard(s, {"agent_interrupted"})
  /\ shell' = [shell EXCEPT ![s].at = "asking"]
  /\ UNCHANGED <<inbox, atHome, requests, changes, alone>>

SeesEnd(s) ==
  /\ \/ shell[s].at = "stopping" /\ Heard(s, {"interrupt_failed"})
     \/ shell[s].at = "resuming"
        /\ Heard(s, {"interrupt_resumed", "interrupt_aborted", "interrupt_resume_failed"})
     \/ shell[s].at = "replying" /\ Heard(s, {"reply", "error"})
  /\ shell' = [shell EXCEPT ![s] = [at |-> "prompt"]]
  /\ UNCHANGED <<inbox, atHome, requests, changes, alone>>

GivesUp(s) ==
  /\ Impatient
  /\ shell[s].at \in {"stopping", "resuming", "replying"}
  /\ shell' = [shell EXCEPT ![s] = [at |-> "prompt"]]
  /\ UNCHANGED <<inbox, atHome, requests, changes, alone>>

Answer(s) ==
  /\ shell[s].at = "asking"
  /\ \E action \in Action :
       inbox' = Append(inbox, [kind |-> "resume", token |-> shell[s].token, action |-> action])
  /\ shell' = [shell EXCEPT ![s].at = "resuming"]
  /\ UNCHANGED <<atHome, requests, changes, alone>>

ShellStep(s) ==
  \/ SendInterrupt(s) \/ SendLifecycle(s) \/ SeesContext(s) \/ SeesEnd(s) \/ GivesUp(s)
  \/ Answer(s)

CoordinatorStep(step) == step /\ UNCHANGED <<workerVars, userVars, deaths>>

Next ==
  \/ CoordinatorStep(MainLoop) \/ CoordinatorStep(Proxy) \/ CoordinatorStep(HealthCheck)
  \/ CoordinatorStep(Link)
  \/ WorkerStep \/ RunBegins \/ AgentEnds \/ Handler \/ WorkerStillborn \/ WorkerDies
  \/ \E s \in Shell : ShellStep(s)

(* Every thread takes its next step, signals are delivered and sockets     *)
(* connect; runs, agents, users and deaths happen when they like.          *)
Fairness ==
  /\ \A s \in Shell : WF_vars(SeesContext(s)) /\ WF_vars(SeesEnd(s))
  /\ WF_vars(CoordinatorStep(MainLoop)) /\ WF_vars(CoordinatorStep(Proxy))
  /\ WF_vars(CoordinatorStep(HealthCheck)) /\ WF_vars(CoordinatorStep(Link))
  /\ WF_vars(WorkerStep) /\ WF_vars(Handler)

Spec == Init /\ [][Next]_vars /\ Fairness

-----------------------------------------------------------------------------
(* An agent that an interrupt has stopped is never taken for one that      *)
(* failed: the request is remembered until run_agent_command has looked    *)
(* (processes.py:66-103).                                                  *)
StopIsRemembered == agent = "killed" /\ place = "check" => flag

(* The worker acts only on the answer of a shell that was shown the        *)
(* interruption it waits in: not on one to an earlier interruption, of     *)
(* this worker or of the one it replaces, whose shell took its time        *)
(* (coordinator.py:338-364, serve.py:364-424).                             *)
ActsOnItsInterrupt ==
  [][place = "wait" /\ place' # "wait" /\ toWorker' # toWorker /\ life' = "up" =>
       asked[Head(toWorker).token] = serial]_vars

Sent(t) == \E i \in 1 .. Len(inbox) : inbox[i] = [kind |-> "interrupt", token |-> t]

Answered(t) ==
  <<t, "agent_interrupted">> \in published \/ <<t, "interrupt_failed">> \in published

(* An interrupt that is sent with no other one under way, to a worker that *)
(* is up and not in a run that an earlier answer resumed, has been         *)
(* answered with its own token when nothing is on its way any more         *)
(* (coordinator.py:492-555), unless the handler has caught the worker      *)
(* holding the lock.                                                       *)
LoneInterruptAnswered == alone /\ Quiet /\ place # "stuck" => Answered(requests)

(* Every interrupt of a worker that is up and stays so, and whose handler  *)
(* is not stuck, is answered (docs/INTERRUPT.md, serve mode, step 6).      *)
InterruptAnswered ==
  LET Able == Serving /\ place # "stuck" IN
  \A t \in Token : Sent(t) /\ Able ~> Answered(t) \/ ~ Able
=============================================================================
