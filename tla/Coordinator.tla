----------------------------- MODULE Coordinator -----------------------------
(***************************************************************************)
(* The coordinator's three threads -- the main loop, which takes requests, *)
(* the event proxy and the health check -- around the worker of one        *)
(* project (the entries of its dictionaries for other projects are         *)
(* independent), and the sockets and signals that join them.               *)
(***************************************************************************)
EXTENDS Naturals, Sequences

CONSTANT MaxRequests  \* bound on the requests of all clients

ASSUME CoordinatorAssumption == MaxRequests \in Nat

VARIABLES
  inbox,      \* the coordinator's PULL socket
  main,       \* the request the main loop is in the middle of
  loaded,     \* the worker is in _workers
  session,    \* its InterruptSession in _pending_interrupts
  rebuild,    \* _proxy_rebuild
  registered, \* the worker's SUB socket is in the proxy's poller
  hand,       \* what the proxy is in the middle of
  health,     \* the health check: between its lock and its report, or dead
  notified,   \* the worker is in the health check's `notified`
  life,       \* the worker process
  sigterm,    \* it has been told to stop
  kicked,     \* SIGUSR1 is pending
  linked,     \* the coordinator's subscription has reached the worker
  toWorker,   \* the worker's PULL socket
  fromWorker, \* the events on their way to the coordinator
  published,  \* what the PUB socket has sent, by token or request id
  asked       \* history: which interruption agent_interrupted told of, by token

lists == <<loaded, session, rebuild>>
proxy == <<registered, hand>>
checker == <<health, notified>>
wires == <<sigterm, kicked, linked, toWorker, fromWorker>>
coordinatorVars == <<inbox, main, lists, proxy, checker, life, wires, published, asked>>

(* A token or request id; 0 is none. *)
Token == 1 .. MaxRequests

Action == {"rerun", "abort"}

Request == [kind : {"load", "unload", "reload", "interrupt"}, token : Token]
           \cup [kind : {"resume"}, token : Token, action : Action]

(* Events the coordinator counts as outcomes of an interrupt; `serial` is  *)
(* history: the interruption it is about.                                  *)
Outcome == {"agent_interrupted", "interrupt_failed", "interrupt_resumed", "interrupt_aborted",
            "interrupt_resume_failed"}

Event == [kind : Outcome, token : Token \cup {0}, serial : 0 .. MaxRequests]

Session == [token : Token, phase : {"waiting_interrupt_terminal", "waiting_resume_action"}]

NoSession == [token |-> 0, phase |-> "none"]

Free == [doing |-> "nothing"]

Nothing == [place |-> "poll"]

(* The main loop is between requests, or in the middle of one.             *)
MainState ==
  {Free}
    \cup [doing : {"start", "stop", "restart", "session", "kick"}, token : Token]
    \cup [doing : {"forward"}, token : Token, action : Action,
          found : Session \cup {NoSession}]

HandState ==
  {Nothing} \cup [place : {"rebuild"}] \cup [place : {"update", "publish"}, event : Event]

Reply == [token : Token, action : Action]

Publication == (Token \cup {0}) \X (Outcome \cup {"reply", "error", "worker_died"})

CoordinatorTypeOK ==
  /\ inbox \in Seq(Request)
  /\ main \in MainState
  /\ loaded \in BOOLEAN /\ session \in Session \cup {NoSession} /\ rebuild \in BOOLEAN
  /\ registered \in BOOLEAN
  /\ hand \in HandState
  /\ health \in {"asleep", "report", "gone"} /\ notified \in BOOLEAN
  /\ life \in {"none", "starting", "stillborn", "up", "dead"}
  /\ sigterm \in BOOLEAN /\ kicked \in BOOLEAN /\ linked \in BOOLEAN
  /\ toWorker \in Seq(Reply)
  /\ fromWorker \in Seq(Event)
  /\ published \subseteq Publication
  /\ asked \in [Token -> 0 .. MaxRequests]

(* `propagate serve` has loaded the worker. *)
CoordinatorInit ==
  /\ inbox = << >> /\ main = Free
  /\ loaded = TRUE /\ session = NoSession /\ rebuild = FALSE
  /\ registered = TRUE /\ hand = Nothing
  /\ health = "asleep" /\ notified = FALSE
  /\ life = "up" /\ sigterm = FALSE /\ kicked = FALSE /\ linked = TRUE
  /\ toWorker = << >> /\ fromWorker = << >>
  /\ published = {} /\ asked = [t \in Token |-> 0]

Publish(token, kind) == published' = published \cup {<<token, kind>>}

-----------------------------------------------------------------------------
(* The main loop *)
Taking(kind) ==
  /\ main = Free /\ inbox # << >> /\ Head(inbox).kind = kind
  /\ inbox' = Tail(inbox)

Asker == Head(inbox).token

(* A worker that has died is still loaded. *)
TakeLoad ==
  /\ Taking("load")
  /\ IF loaded
     THEN Publish(Asker, "error") /\ UNCHANGED <<main, life>>
     ELSE /\ life' = "starting"
          /\ main' = [doing |-> "start", token |-> Asker]
          /\ UNCHANGED published
  /\ UNCHANGED <<lists, proxy, checker, wires, asked>>

(* READY was read, by now the worker may have died. *)
Started ==
  /\ main.doing = "start" /\ life \in {"up", "dead"}
  /\ loaded' = TRUE /\ rebuild' = TRUE
  /\ Publish(main.token, "reply")
  /\ main' = Free
  /\ UNCHANGED <<inbox, session, proxy, checker, life, wires, asked>>

StartFailed ==
  /\ main.doing = "start" /\ life = "stillborn"
  /\ life' = "none"
  /\ Publish(main.token, "error")
  /\ main' = Free
  /\ UNCHANGED <<inbox, lists, proxy, checker, wires, asked>>

(* The subscription arrives some time after connect_sub_socket; what the   *)
(* worker publishes before is lost.                                        *)
Link ==
  /\ life = "up" /\ loaded /\ ~ linked
  /\ linked' = TRUE
  /\ UNCHANGED <<inbox, main, lists, proxy, checker, life, sigterm, kicked, toWorker, fromWorker,
                 published, asked>>

(* _stop_worker, for unload and reload *)
TakeStop(kind, doing) ==
  /\ Taking(kind)
  /\ IF loaded
     THEN /\ loaded' = FALSE /\ session' = NoSession /\ rebuild' = TRUE
          /\ sigterm' = TRUE
          /\ main' = [doing |-> doing, token |-> Asker]
          /\ UNCHANGED published
     ELSE Publish(Asker, "error") /\ UNCHANGED <<lists, sigterm, main>>
  /\ UNCHANGED <<proxy, checker, life, kicked, linked, toWorker, fromWorker, asked>>

(* The worker has exited or been killed; the sockets are closed. *)
Stopped ==
  /\ main.doing \in {"stop", "restart"} /\ life = "dead"
  /\ registered' = FALSE
  /\ sigterm' = FALSE /\ kicked' = FALSE /\ linked' = FALSE
  /\ toWorker' = << >> /\ fromWorker' = << >>
  /\ \/ main.doing = "stop" /\ life' = "none" /\ main' = Free /\ Publish(main.token, "reply")
     \/ main.doing = "restart" /\ life' = "starting" /\ main' = [main EXCEPT !.doing = "start"]
        /\ UNCHANGED published
  /\ UNCHANGED <<inbox, lists, hand, checker, asked>>

(* _handle_interrupt: the answers to a client that has no request id reach *)
(* nobody, so an error is only the end of it.                              *)
TakeInterrupt ==
  /\ Taking("interrupt")
  /\ main' = IF loaded /\ life = "up" THEN [doing |-> "session", token |-> Asker] ELSE Free
  /\ UNCHANGED <<lists, proxy, checker, life, wires, published, asked>>

StoreSession ==
  /\ main.doing = "session"
  /\ session' = [token |-> main.token, phase |-> "waiting_interrupt_terminal"]
  /\ main' = [main EXCEPT !.doing = "kick"]
  /\ UNCHANGED <<inbox, loaded, rebuild, proxy, checker, life, wires, published, asked>>

Kick ==
  /\ main.doing = "kick"
  /\ kicked' = (kicked \/ life = "up")
  /\ main' = Free
  /\ UNCHANGED <<inbox, lists, proxy, checker, life, sigterm, linked, toWorker, fromWorker,
                 published, asked>>

(* _handle_interrupt_resume reads the session under the lock and goes on   *)
(* without it.                                                             *)
TakeResume ==
  /\ Taking("resume")
  /\ main' = IF loaded /\ life = "up"
             THEN [doing |-> "forward", token |-> Asker, action |-> Head(inbox).action,
                   found |-> session]
             ELSE Free
  /\ UNCHANGED <<lists, proxy, checker, life, wires, published, asked>>

(* Mutant: the token is not compared. *)
ReadyForAnyone(found, token) == found.phase = "waiting_resume_action"

Ready(found, token) == found = [token |-> token, phase |-> "waiting_resume_action"]

Forward ==
  /\ main.doing = "forward"
  /\ IF Ready(main.found, main.token)
     THEN /\ toWorker' = Append(toWorker, [token |-> main.token, action |-> main.action])
          /\ UNCHANGED published
     ELSE Publish(main.token, "interrupt_resume_failed") /\ UNCHANGED toWorker
  /\ main' = Free
  /\ UNCHANGED <<inbox, lists, proxy, checker, life, sigterm, kicked, linked, fromWorker, asked>>

MainLoop ==
  \/ TakeLoad \/ Started \/ StartFailed
  \/ TakeStop("unload", "stop") \/ TakeStop("reload", "restart") \/ Stopped
  \/ TakeInterrupt \/ StoreSession \/ Kick \/ TakeResume \/ Forward

-----------------------------------------------------------------------------
(* The event proxy *)
ProxyClear ==
  /\ hand = Nothing /\ rebuild
  /\ rebuild' = FALSE
  /\ hand' = [place |-> "rebuild"]
  /\ UNCHANGED <<inbox, main, loaded, session, registered, checker, life, wires, published, asked>>

ProxyRebuild ==
  /\ hand.place = "rebuild"
  /\ registered' = loaded
  /\ hand' = Nothing
  /\ UNCHANGED <<inbox, main, lists, checker, life, wires, published, asked>>

(* Mutant: only agent_interrupted gets a token. *)
ProxyTakeContext ==
  LET event == Head(fromWorker) IN
  /\ hand = Nothing /\ ~ rebuild /\ registered /\ fromWorker # << >>
  /\ hand' = [place |-> "update",
              event |-> IF event.kind = "agent_interrupted"
                        THEN [event EXCEPT !.token = session.token] ELSE event]
  /\ fromWorker' = Tail(fromWorker)
  /\ UNCHANGED <<inbox, main, lists, registered, checker, life, sigterm, kicked, linked, toWorker,
                 published, asked>>

(* An event without a token gets that of the session there is. *)
ProxyTake ==
  LET event == Head(fromWorker) IN
  /\ hand = Nothing /\ ~ rebuild /\ registered /\ fromWorker # << >>
  /\ hand' = [place |-> "update",
              event |-> IF event.token = 0 THEN [event EXCEPT !.token = session.token] ELSE event]
  /\ fromWorker' = Tail(fromWorker)
  /\ UNCHANGED <<inbox, main, lists, registered, checker, life, sigterm, kicked, linked, toWorker,
                 published, asked>>

(* Mutant: there is always a session. *)
ProxyUpdateUnguarded ==
  /\ hand.place = "update"
  /\ session' = IF hand.event.kind = "agent_interrupted"
                THEN [session EXCEPT !.phase = "waiting_resume_action"] ELSE NoSession
  /\ hand' = [hand EXCEPT !.place = "publish"]
  /\ UNCHANGED <<inbox, main, loaded, rebuild, registered, checker, life, wires, published, asked>>

(* Any outcome ends the session, whichever request it belongs to. *)
ProxyUpdate ==
  /\ hand.place = "update"
  /\ session' = CASE hand.event.kind # "agent_interrupted" -> NoSession
                  [] hand.event.kind = "agent_interrupted" /\ session # NoSession ->
                       [session EXCEPT !.phase = "waiting_resume_action"]
                  [] OTHER -> session
  /\ hand' = [hand EXCEPT !.place = "publish"]
  /\ UNCHANGED <<inbox, main, loaded, rebuild, registered, checker, life, wires, published, asked>>

ProxyPublish ==
  /\ hand.place = "publish"
  /\ Publish(hand.event.token, hand.event.kind)
  /\ asked' = IF hand.event.kind = "agent_interrupted" /\ hand.event.token # 0
              THEN [asked EXCEPT ![hand.event.token] = hand.event.serial] ELSE asked
  /\ hand' = Nothing
  /\ UNCHANGED <<inbox, main, lists, registered, checker, life, wires>>

Proxy == ProxyClear \/ ProxyRebuild \/ ProxyTake \/ ProxyUpdate \/ ProxyPublish

-----------------------------------------------------------------------------
(* The health check; who is notified stays so. *)
HealthScan ==
  /\ health = "asleep" /\ loaded /\ life = "dead" /\ ~ notified
  /\ health' = "report"
  /\ UNCHANGED <<inbox, main, lists, proxy, notified, life, wires, published, asked>>

(* A worker unloaded since is a KeyError that ends the thread. *)
HealthReport ==
  /\ health = "report"
  /\ IF loaded
     THEN Publish(0, "worker_died") /\ notified' = TRUE /\ health' = "asleep"
     ELSE health' = "gone" /\ UNCHANGED <<published, notified>>
  /\ UNCHANGED <<inbox, main, lists, proxy, life, wires, asked>>

HealthCheck == HealthScan \/ HealthReport
=============================================================================
