-------------------------- MODULE InterruptsProofs --------------------------
(***************************************************************************)
(* What holds of interrupts for any number of shells, requests, reloads    *)
(* and deaths: a stop that is asked for is remembered, the worker acts     *)
(* only on the answer to the interruption it waits in, and an interrupt    *)
(* that is alone is answered.                                              *)
(***************************************************************************)
EXTENDS Interrupts, TLAPS

(* The interrupts on their way to the coordinator.  Used counts those that *)
(* have left the socket: served, or on the way to the agent that they      *)
(* stop.                                                                   *)
AsksStop(i) == inbox[i].kind = "interrupt"

Used ==
  serial + (IF flag THEN 1 ELSE 0) + (IF kicked THEN 1 ELSE 0)
         + (IF main.doing \in {"session", "kick"} THEN 1 ELSE 0)

(* The bounds bind the number of requests, and an interrupt still in the   *)
(* socket is younger than every one that has been used: it is why the      *)
(* number of interruptions is bounded by that of the requests.             *)
Counted ==
  /\ changes <= requests /\ requests <= changes + MaxInterrupts
  /\ changes + deaths <= MaxTroubles
  /\ Used <= requests
  /\ \A i \in DOMAIN inbox : inbox[i].token <= requests
  /\ \A s \in Shell : shell[s].at # "prompt" => shell[s].token <= requests
  /\ \A i \in DOMAIN inbox : AsksStop(i) => Used < inbox[i].token
  /\ \A i, j \in DOMAIN inbox : i < j /\ AsksStop(i) /\ AsksStop(j) =>
       inbox[i].token < inbox[j].token

(* The head and the tail of a queue.                                       *)
LEMMA HeadTypes ==
  ASSUME NEW S, NEW q \in Seq(S), q # << >>
  PROVE  /\ Head(q) \in S /\ Tail(q) \in Seq(S) /\ Head(q) = q[1] /\ 1 \in DOMAIN q
         /\ Len(Tail(q)) = Len(q) - 1
         /\ \A i \in DOMAIN Tail(q) : i + 1 \in DOMAIN q /\ Tail(q)[i] = q[i + 1]
OBVIOUS

(* What the states of the threads, the requests and the events are made    *)
(* of.                                                                     *)
LEMMA MainFacts ==
  /\ Free \in MainState /\ Free.doing = "nothing"
  /\ \A d \in {"start", "stop", "restart", "session", "kick"}, t \in Token :
       [doing |-> d, token |-> t] \in MainState
  /\ \A t \in Token, a \in Action, f \in Session \cup {NoSession} :
       [doing |-> "forward", token |-> t, action |-> a, found |-> f] \in MainState
  /\ \A m \in MainState :
       /\ m.doing \in {"nothing", "start", "stop", "restart", "session", "kick", "forward"}
       /\ m.doing = "nothing" => m = Free
       /\ m.doing # "nothing" => m.token \in Token
       /\ m.doing = "forward" => m.action \in Action /\ m.found \in Session \cup {NoSession}
       /\ m.doing \in {"session", "restart"} =>
            \A d \in {"start", "kick"} :
              /\ [m EXCEPT !.doing = d] \in MainState
              /\ [m EXCEPT !.doing = d] = [doing |-> d, token |-> m.token]
BY DEF MainState, Free

(* The event proxy's hand.                                                 *)
LEMMA HandFacts ==
  /\ Nothing \in HandState /\ Nothing.place = "poll"
  /\ [place |-> "rebuild"] \in HandState
  /\ \A e \in Event : [place |-> "update", event |-> e] \in HandState
  /\ \A h \in HandState :
       /\ h.place \in {"poll", "rebuild", "update", "publish"}
       /\ h.place = "poll" => h = Nothing
       /\ h.place \in {"update", "publish"} => h.event \in Event
       /\ h.place = "update" => /\ [h EXCEPT !.place = "publish"] \in HandState
                                /\ [h EXCEPT !.place = "publish"]
                                     = [place |-> "publish", event |-> h.event]
BY DEF HandState, Nothing

(* A session, and none.                                                    *)
LEMMA SessionFacts ==
  /\ NoSession.token = 0 /\ NoSession.phase = "none"
  /\ \A t \in Token : [token |-> t, phase |-> "waiting_interrupt_terminal"] \in Session
  /\ \A s \in Session \cup {NoSession} :
       /\ s.token \in Token \cup {0} /\ (s.token = 0 <=> s = NoSession)
       /\ s # NoSession => s \in Session
  /\ \A s \in Session :
       /\ s.token \in Token
       /\ s.phase \in {"waiting_interrupt_terminal", "waiting_resume_action"}
       /\ [s EXCEPT !.phase = "waiting_resume_action"] \in Session
       /\ [s EXCEPT !.phase = "waiting_resume_action"]
            = [token |-> s.token, phase |-> "waiting_resume_action"]
BY CoordinatorAssumption DEF Session, NoSession, Token

(* An event, and one that has got a token.                                 *)
LEMMA EventFacts ==
  /\ \A k \in Outcome, t \in Token \cup {0}, n \in 0 .. MaxRequests :
       [kind |-> k, token |-> t, serial |-> n] \in Event
  /\ \A e \in Event :
       /\ e.kind \in Outcome /\ e.token \in Token \cup {0} /\ e.serial \in 0 .. MaxRequests
       /\ \A t \in Token \cup {0} :
            /\ [e EXCEPT !.token = t] \in Event
            /\ [e EXCEPT !.token = t] = [kind |-> e.kind, token |-> t, serial |-> e.serial]
BY DEF Event

(* The requests of the shells.                                             *)
LEMMA RequestFacts ==
  /\ \A r \in Request :
       /\ r.kind \in {"load", "unload", "reload", "interrupt", "resume"} /\ r.token \in Token
       /\ r.kind = "resume" => r.action \in Action
  /\ \A k \in {"load", "unload", "reload", "interrupt"}, t \in Token :
       [kind |-> k, token |-> t] \in Request
  /\ \A t \in Token, a \in Action :
       [kind |-> "resume", token |-> t, action |-> a] \in Request
BY DEF Request

(* What is published.                                                      *)
LEMMA PublishFacts ==
  ASSUME published \subseteq Publication, NEW t \in Token \cup {0},
         NEW k \in Outcome \cup {"reply", "error", "worker_died"}, Publish(t, k)
  PROVE  published' \subseteq Publication
BY DEF Publish, Publication

-----------------------------------------------------------------------------
(* The main loop keeps the types.                                          *)
LEMMA MainTypes ==
  ASSUME CoordinatorTypeOK, MainLoop
  PROVE  CoordinatorTypeOK'
<1> USE DEF CoordinatorTypeOK, lists, proxy, checker, wires
<1>a. inbox # << >> => /\ Head(inbox) \in Request /\ Tail(inbox) \in Seq(Request)
                       /\ Head(inbox).token \in Token
                       /\ Head(inbox).kind = "resume" => Head(inbox).action \in Action
  <2>1. inbox # << >> => Head(inbox) \in Request /\ Tail(inbox) \in Seq(Request)
    BY HeadTypes
  <2> QED BY <2>1, RequestFacts
<1>1. CASE TakeLoad
  <2>1. main' \in MainState /\ inbox' \in Seq(Request)
    BY <1>a, <1>1, MainFacts DEF TakeLoad, Taking, Asker
  <2>2. published' \subseteq Publication
    BY <1>a, <1>1, PublishFacts DEF TakeLoad, Taking, Asker
  <2> QED
    BY <1>1, <2>1, <2>2 DEF TakeLoad
<1>2. CASE Started \/ StartFailed
  <2>1. main' \in MainState
    BY <1>2, MainFacts DEF Started, StartFailed
  <2>2. published' \subseteq Publication
    BY <1>2, MainFacts, PublishFacts DEF Started, StartFailed
  <2>3. loaded' \in BOOLEAN /\ rebuild' \in BOOLEAN /\ session' = session
    BY <1>2 DEF Started, StartFailed
  <2> QED
    BY <1>2, <2>1, <2>2, <2>3 DEF Started, StartFailed
<1>3. ASSUME NEW kind \in {"unload", "reload"}, NEW doing \in {"stop", "restart"}, TakeStop(kind,
                   doing)
      PROVE  CoordinatorTypeOK'
  <2>1. main' \in MainState /\ inbox' \in Seq(Request)
    BY <1>a, <1>3, MainFacts DEF TakeStop, Taking, Asker
  <2>2. published' \subseteq Publication
    BY <1>a, <1>3, PublishFacts DEF TakeStop, Taking, Asker
  <2> QED
    BY <1>3, <2>1, <2>2 DEF TakeStop
<1>4. CASE Stopped
  <2>1. main' \in MainState
    BY <1>4, MainFacts DEF Stopped
  <2>2. published' \subseteq Publication
    BY <1>4, MainFacts, PublishFacts DEF Stopped
  <2>3. /\ life' \in {"none", "starting"} /\ toWorker' = << >> /\ fromWorker' = << >>
        /\ registered' = FALSE /\ sigterm' = FALSE /\ kicked' = FALSE /\ linked' = FALSE
        /\ UNCHANGED <<inbox, lists, hand, checker, asked>>
    BY <1>4 DEF Stopped
  <2>4. toWorker' \in Seq(Reply) /\ fromWorker' \in Seq(Event)
    BY <2>3
  <2>5. life' \in {"none", "starting", "stillborn", "up", "dead"}
    BY <2>3
  <2> QED
    BY <2>1, <2>2, <2>3, <2>4, <2>5
<1>5. CASE TakeInterrupt \/ TakeResume
  <2>1. inbox' \in Seq(Request)
    BY <1>a, <1>5 DEF TakeInterrupt, TakeResume, Taking
  <2>2. TakeInterrupt => main' \in MainState
    BY <1>a, MainFacts DEF TakeInterrupt, Taking, Asker
  <2>3. TakeResume => main' \in MainState
    BY <1>a, MainFacts DEF TakeResume, Taking, Asker
  <2> QED
    BY <1>5, <2>1, <2>2, <2>3 DEF TakeInterrupt, TakeResume
<1>6. CASE StoreSession \/ Kick
  <2>1. main' \in MainState
    BY <1>6, MainFacts DEF StoreSession, Kick
  <2>2. main.token \in Token
    BY <1>6, MainFacts DEF StoreSession, Kick
  <2>3. StoreSession => session' \in Session
    BY <2>2, SessionFacts DEF StoreSession
  <2>4. StoreSession => CoordinatorTypeOK'
    BY <2>1, <2>3 DEF StoreSession
  <2>5. Kick => CoordinatorTypeOK'
    BY <2>1 DEF Kick
  <2> QED
    BY <1>6, <2>4, <2>5
<1>7. CASE Forward
  <2>1. [token |-> main.token, action |-> main.action] \in Reply
    BY <1>7, MainFacts DEF Forward, Reply
  <2>2. Append(toWorker, [token |-> main.token, action |-> main.action]) \in Seq(Reply)
    BY <2>1
  <2>4. main' \in MainState /\ toWorker' \in Seq(Reply)
    BY <1>7, <2>2, MainFacts DEF Forward
  <2>3. published' \subseteq Publication
    BY <1>7, MainFacts, PublishFacts DEF Forward, Outcome
  <2> QED
    BY <1>7, <2>4, <2>3 DEF Forward
<1> QED
  BY <1>1, <1>2, <1>3, <1>4, <1>5, <1>6, <1>7 DEF MainLoop

(* The event proxy and the health check keep the types.                    *)
LEMMA ProxyTypes ==
  ASSUME CoordinatorTypeOK, Proxy \/ HealthCheck \/ Link
  PROVE  CoordinatorTypeOK'
<1> USE DEF CoordinatorTypeOK, lists, proxy, checker, wires
<1>1. CASE ProxyClear \/ ProxyRebuild
  <2>1. hand' \in HandState
    BY <1>1, HandFacts DEF ProxyClear, ProxyRebuild
  <2>2. rebuild' \in BOOLEAN /\ registered' \in BOOLEAN /\ UNCHANGED <<loaded, session>>
    BY <1>1 DEF ProxyClear, ProxyRebuild
  <2> QED
    BY <1>1, <2>1, <2>2 DEF ProxyClear, ProxyRebuild
<1>2. CASE ProxyTake
  <2>1. Head(fromWorker) \in Event /\ fromWorker' \in Seq(Event)
    BY <1>2, HeadTypes DEF ProxyTake
  <2>2. session.token \in Token \cup {0}
    BY SessionFacts
  <2>3. hand' \in HandState
    BY <1>2, <2>1, <2>2, HandFacts, EventFacts DEF ProxyTake
  <2> QED
    BY <1>2, <2>1, <2>3 DEF ProxyTake
<1>3. CASE ProxyUpdate
  <2>1. hand' \in HandState
    BY <1>3, HandFacts DEF ProxyUpdate
  <2>2. session' \in Session \cup {NoSession}
    BY <1>3, SessionFacts DEF ProxyUpdate
  <2> QED
    BY <1>3, <2>1, <2>2 DEF ProxyUpdate
<1>4. CASE ProxyPublish
  <2>1. hand.event \in Event /\ hand' \in HandState
    BY <1>4, HandFacts DEF ProxyPublish
  <2>2. /\ hand.event.kind \in Outcome /\ hand.event.token \in Token \cup {0}
        /\ hand.event.serial \in 0 .. MaxRequests
    BY <2>1, EventFacts
  <2>3. published' \subseteq Publication
    BY <1>4, <2>2, PublishFacts DEF ProxyPublish
  <2>4. asked' \in [Token -> 0 .. MaxRequests]
    BY <1>4, <2>2 DEF ProxyPublish
  <2> QED
    BY <1>4, <2>1, <2>3, <2>4 DEF ProxyPublish
<1>5. CASE HealthScan \/ Link
  BY <1>5 DEF HealthScan, Link
<1>6. CASE HealthReport
  <2>1. published' \subseteq Publication
    BY <1>6, PublishFacts DEF HealthReport
  <2> QED
    BY <1>6, <2>1 DEF HealthReport
<1> QED
  BY <1>1, <1>2, <1>3, <1>4, <1>5, <1>6 DEF Proxy, HealthCheck

(* The types of the worker's variables, and of the shells'.                *)
WorkerTypeOK ==
  /\ place \in Place /\ resuming \in Token \cup {0}
  /\ agent \in {"none", "alive", "killed", "ended"} /\ current \in BOOLEAN /\ flag \in BOOLEAN
  /\ saved \in BOOLEAN /\ serial \in 0 .. MaxRequests

UserTypeOK ==
  /\ shell \in [Shell -> ShellState]
  /\ requests \in 0 .. MaxRequests /\ changes \in 0 .. MaxTroubles /\ alone \in BOOLEAN
  /\ deaths \in 0 .. MaxTroubles

(* The type invariant is that of the three parts.                          *)
LEMMA TypeParts == TypeOK <=> CoordinatorTypeOK /\ WorkerTypeOK /\ UserTypeOK
BY DEF TypeOK, WorkerTypeOK, UserTypeOK

(* An event that the worker tells of is one.                               *)
LEMMA TellTypes ==
  ASSUME fromWorker \in Seq(Event), NEW k \in Outcome, NEW t \in Token \cup {0},
         NEW n \in 0 .. MaxRequests, Tell(k, t, n)
  PROVE  fromWorker' \in Seq(Event)
<1>1. [kind |-> k, token |-> t, serial |-> n] \in Event
  BY EventFacts
<1> QED
  BY <1>1 DEF Tell

(* The end of a run keeps the types.                                       *)
LEMMA EndOfRunTypes ==
  ASSUME CoordinatorTypeOK, WorkerTypeOK, NEW ok \in BOOLEAN, EndOfRun(ok)
  PROVE  /\ fromWorker' \in Seq(Event)
         /\ place' \in Place /\ resuming' \in Token \cup {0} /\ saved' \in BOOLEAN
<1>1. fromWorker' \in Seq(Event)
  BY TellTypes DEF CoordinatorTypeOK, WorkerTypeOK, EndOfRun, Outcome, Silent
<1> QED
  BY <1>1 DEF WorkerTypeOK, EndOfRun, Place

(* A step of the worker leaves all of the coordinator but its sockets.     *)
LEMMA SocketTypes ==
  ASSUME CoordinatorTypeOK, UNCHANGED processRest,
         life' \in {"none", "starting", "stillborn", "up", "dead"},
         kicked' \in BOOLEAN, UNCHANGED <<sigterm, linked>>,
         toWorker' \in Seq(Reply), fromWorker' \in Seq(Event)
  PROVE  CoordinatorTypeOK'
BY DEF CoordinatorTypeOK, processRest, lists, proxy, checker

(* The worker keeps the types; the number of interruptions is bounded by   *)
(* that of the requests.                                                   *)
LEMMA WorkerTypes ==
  ASSUME CoordinatorTypeOK, WorkerTypeOK, requests \in 0 .. MaxRequests, Counted,
         WorkerStep \/ RunBegins \/ AgentEnds \/ Handler \/ WorkerStillborn \/ WorkerDies
  PROVE  CoordinatorTypeOK' /\ WorkerTypeOK'
<1>0. /\ life \in {"none", "starting", "stillborn", "up", "dead"} /\ kicked \in BOOLEAN
      /\ toWorker \in Seq(Reply) /\ fromWorker \in Seq(Event)
  BY DEF CoordinatorTypeOK
<1> USE DEF WorkerTypeOK, Place, agentVars, workerVars, wires
<1>1. CASE WorkerReady \/ WorkerStillborn
  BY <1>0, <1>1, SocketTypes DEF WorkerReady, WorkerStillborn
<1>2. CASE RunBegins \/ SpawnAgent \/ ClearFlag \/ Register \/ AgentEnds \/ OutputEnds \/ Release
  BY <1>0, <1>2, SocketTypes
     DEF RunBegins, SpawnAgent, ClearFlag, Register, AgentEnds, OutputEnds, Release, Inside,
         Silent
<1>3. CASE RunEnds
  <2>1. PICK ok \in BOOLEAN : EndOfRun(ok)
    BY <1>3 DEF RunEnds
  <2> QED
    BY <1>0, <1>3, <2>1, EndOfRunTypes, SocketTypes DEF RunEnds, Inside
<1>4. CASE Interrupted
  <2>1. serial + 1 \in 0 .. MaxRequests
    BY <1>4, CoordinatorAssumption DEF Interrupted, Counted, Used, CoordinatorTypeOK
  <2>2. CASE resuming = 0
    <3>1. fromWorker' \in Seq(Event)
      BY <1>0, <1>4, <2>1, <2>2, TellTypes DEF Interrupted, Outcome
    <3> QED
      BY <1>0, <1>4, <2>1, <2>2, <3>1, SocketTypes DEF Interrupted, Inside
  <2>3. CASE resuming # 0
    BY <1>0, <1>4, <2>3, EndOfRunTypes, SocketTypes DEF Interrupted, Inside
  <2> QED
    BY <2>2, <2>3
<1>5. CASE AgentDone
  <2>1. CASE EndOfRun(FALSE)
    BY <1>0, <1>5, <2>1, EndOfRunTypes, SocketTypes DEF AgentDone, Inside
  <2>2. CASE place' = "hooks" /\ Silent /\ UNCHANGED <<resuming, saved>>
    BY <1>0, <1>5, <2>2, SocketTypes DEF AgentDone, Inside, Silent
  <2> QED
    BY <1>5, <2>1, <2>2 DEF AgentDone
<1>6. CASE Handler
  <2>1. fromWorker' \in Seq(Event)
    BY <1>0, <1>6, TellTypes, CoordinatorAssumption DEF Handler, Outcome, Silent
  <2>2. CoordinatorTypeOK'
    BY <1>0, <1>6, <2>1, SocketTypes DEF Handler
  <2> QED
    BY <1>6, <2>2 DEF Handler
<1>7. CASE TakeAnswer
  <2>0. Head(toWorker) \in Reply /\ toWorker' \in Seq(Reply)
    BY <1>0, <1>7, HeadTypes DEF TakeAnswer
  <2>1. Head(toWorker).token \in Token /\ toWorker' \in Seq(Reply)
    BY <2>0 DEF Reply
  <2>2. fromWorker' \in Seq(Event)
    BY <1>0, <1>7, <2>1, TellTypes DEF TakeAnswer, Outcome
  <2>3. CoordinatorTypeOK'
    BY <1>0, <1>7, <2>1, <2>2, SocketTypes DEF TakeAnswer
  <2> QED
    BY <1>7, <2>1, <2>3 DEF TakeAnswer
<1>8. CASE WorkerExits \/ WorkerKilled \/ WorkerDies
  <2>1. CoordinatorTypeOK'
    BY <1>0, <1>8, SocketTypes DEF WorkerExits, WorkerKilled, WorkerDies, Dead
  <2> QED
    BY <1>8, <2>1 DEF WorkerExits, WorkerKilled, WorkerDies, Dead
<1> QED
  BY <1>1, <1>2, <1>3, <1>4, <1>5, <1>6, <1>7, <1>8 DEF WorkerStep

(* What a shell waits for.                                                 *)
LEMMA ShellFacts ==
  /\ [at |-> "prompt"] \in ShellState
  /\ \A a \in {"stopping", "asking", "resuming", "replying"}, t \in Token :
       [at |-> a, token |-> t] \in ShellState
  /\ \A s \in ShellState :
       /\ s.at \in {"prompt", "stopping", "asking", "resuming", "replying"}
       /\ s.at # "prompt" => /\ s.token \in Token
                             /\ \A a \in {"asking", "resuming"} :
                                  /\ [s EXCEPT !.at = a] \in ShellState
                                  /\ [s EXCEPT !.at = a] = [at |-> a, token |-> s.token]
BY DEF ShellState

(* The shells keep the types, within the bounds on what they ask.          *)
LEMMA ShellTypes ==
  ASSUME CoordinatorTypeOK, UserTypeOK, Counted, NEW s \in Shell, ShellStep(s)
  PROVE  CoordinatorTypeOK' /\ UserTypeOK'
<1>0. shell[s] \in ShellState /\ inbox \in Seq(Request)
  BY DEF UserTypeOK, CoordinatorTypeOK
<1>1. ASSUME NEW k \in {"interrupt", "load", "unload", "reload"},
             NEW at \in {"stopping", "replying"}, Send(s, k, at), requests < MaxRequests
      PROVE  /\ inbox' \in Seq(Request) /\ requests' \in 0 .. MaxRequests
             /\ shell' \in [Shell -> ShellState]
  <2>1. requests' \in Token /\ requests' \in 0 .. MaxRequests
    BY <1>1, CoordinatorAssumption DEF Send, UserTypeOK, Token
  <2>2. [kind |-> k, token |-> requests'] \in Request
    BY <2>1, RequestFacts
  <2>3. [at |-> at, token |-> requests'] \in ShellState
    BY <2>1, ShellFacts
  <2> QED
    BY <1>0, <1>1, <2>1, <2>2, <2>3 DEF Send, UserTypeOK
<1>2. ASSUME inbox' \in Seq(Request), UNCHANGED atHome
      PROVE  CoordinatorTypeOK'
  BY <1>2 DEF CoordinatorTypeOK, atHome, lists, proxy, checker, wires
<1>3. CASE SendInterrupt(s)
  <2>1. requests < MaxRequests
    BY <1>3, InterruptAssumption DEF SendInterrupt, Counted, UserTypeOK
  <2>2. /\ inbox' \in Seq(Request) /\ requests' \in 0 .. MaxRequests
        /\ shell' \in [Shell -> ShellState]
    BY <1>1, <1>3, <2>1 DEF SendInterrupt
  <2>3. alone' \in BOOLEAN
    BY <1>3 DEF SendInterrupt
  <2> QED
    BY <1>2, <1>3, <2>2, <2>3 DEF SendInterrupt, UserTypeOK, atHome
<1>4. CASE SendLifecycle(s)
  <2>1. requests < MaxRequests /\ changes' \in 0 .. MaxTroubles
    BY <1>4, InterruptAssumption DEF SendLifecycle, Counted, UserTypeOK
  <2>2. PICK k \in {"load", "unload", "reload"} : Send(s, k, "replying")
    BY <1>4, InterruptAssumption DEF SendLifecycle
  <2>3. /\ inbox' \in Seq(Request) /\ requests' \in 0 .. MaxRequests
        /\ shell' \in [Shell -> ShellState]
    BY <1>1, <2>1, <2>2
  <2> QED
    BY <1>2, <1>4, <2>1, <2>3 DEF SendLifecycle, UserTypeOK, atHome
<1>5. CASE SeesContext(s) \/ SeesEnd(s) \/ GivesUp(s)
  <2>0. \E new \in ShellState : shell' = [shell EXCEPT ![s] = new]
    <3>1. CASE SeesContext(s)
      <4>1. shell' = [shell EXCEPT ![s] = [shell[s] EXCEPT !.at = "asking"]]
        BY <3>1 DEF SeesContext
      <4> QED
        BY <1>0, <3>1, <4>1, ShellFacts DEF SeesContext
    <3> QED
      BY <1>5, <3>1, ShellFacts DEF SeesEnd, GivesUp
  <2>1. shell' \in [Shell -> ShellState]
    BY <2>0 DEF UserTypeOK
  <2>2. UNCHANGED <<inbox, atHome, requests, changes, alone>>
    BY <1>5 DEF SeesContext, SeesEnd, GivesUp
  <2> QED
    BY <1>0, <1>2, <2>1, <2>2 DEF UserTypeOK, atHome
<1>6. CASE Answer(s)
  <2>1. PICK action \in Action :
          inbox' = Append(inbox, [kind |-> "resume", token |-> shell[s].token, action |-> action])
    BY <1>6 DEF Answer
  <2>2. shell[s].token \in Token
    BY <1>0, <1>6, ShellFacts DEF Answer
  <2>3. [kind |-> "resume", token |-> shell[s].token, action |-> action] \in Request
    BY <2>2, RequestFacts
  <2>4. inbox' \in Seq(Request)
    BY <1>0, <2>1, <2>3
  <2>5. shell' \in [Shell -> ShellState]
    <3>1. shell' = [shell EXCEPT ![s] = [shell[s] EXCEPT !.at = "resuming"]]
      BY <1>6 DEF Answer
    <3>2. [shell[s] EXCEPT !.at = "resuming"] \in ShellState
      BY <1>0, <1>6, ShellFacts DEF Answer
    <3> QED
      BY <3>1, <3>2 DEF UserTypeOK
  <2> QED
    BY <1>2, <1>6, <2>4, <2>5 DEF Answer, UserTypeOK, atHome
<1> QED
  BY <1>3, <1>4, <1>5, <1>6 DEF ShellStep

-----------------------------------------------------------------------------
-----------------------------------------------------------------------------
(* The count of the interrupts used is a number.                           *)
LEMMA UsedType == TypeOK => Used \in Nat
BY CoordinatorAssumption DEF TypeOK, CoordinatorTypeOK, Used

(* Nothing is sent, and no interrupt is made up.                           *)
LEMMA CountStays ==
  ASSUME TypeOK, Counted, UNCHANGED <<inbox, shell, requests, changes, deaths>>, Used' <= Used,
         Used' \in Nat
  PROVE  Counted'
<1>1. /\ inbox \in Seq(Request) /\ Used \in Nat /\ requests \in Nat
      /\ \A i \in DOMAIN inbox : inbox[i].token \in Nat
  BY UsedType, RequestFacts, CoordinatorAssumption DEF TypeOK, CoordinatorTypeOK, Token
<1>2. \A i \in DOMAIN inbox' : AsksStop(i)' => Used' < inbox'[i].token
  BY <1>1 DEF Counted, AsksStop
<1>3. Used' <= requests'
  BY <1>1 DEF Counted
<1> QED
  BY <1>2, <1>3 DEF Counted, AsksStop

(* A request taken is an interrupt used at most.                           *)
LEMMA CountTaken ==
  ASSUME TypeOK, Counted, inbox # << >>, inbox' = Tail(inbox),
         UNCHANGED <<shell, requests, changes, deaths>>, Used' \in Nat,
         Used' <= Used + (IF Head(inbox).kind = "interrupt" THEN 1 ELSE 0)
  PROVE  Counted'
<1>1. /\ inbox \in Seq(Request) /\ Used \in Nat
      /\ requests \in Nat /\ \A i \in DOMAIN inbox : inbox[i].token \in Nat
  BY UsedType, RequestFacts, CoordinatorAssumption DEF TypeOK, CoordinatorTypeOK, Token
<1>2. /\ Head(inbox) = inbox[1] /\ 1 \in DOMAIN inbox
      /\ \A i \in DOMAIN inbox' : /\ i + 1 \in DOMAIN inbox /\ inbox'[i] = inbox[i + 1]
                                   /\ i \in Nat /\ 1 < i + 1
  BY <1>1, HeadTypes
<1>3. Used' <= requests' /\ \A i \in DOMAIN inbox' : AsksStop(i)' => Used' < inbox'[i].token
  BY <1>1, <1>2 DEF Counted, AsksStop
<1>4. \A i, j \in DOMAIN inbox' :
        i < j /\ AsksStop(i)' /\ AsksStop(j)' => inbox'[i].token < inbox'[j].token
  BY <1>2 DEF Counted, AsksStop
<1> QED
  BY <1>2, <1>3, <1>4 DEF Counted

(* A request sent is the last one.                                         *)
LEMMA CountSent ==
  ASSUME TypeOK, Counted, NEW s \in Shell, NEW k \in {"interrupt", "load", "unload", "reload"},
         NEW at, Send(s, k, at), Used' = Used
  PROVE  /\ Used' <= requests'
         /\ \A i \in DOMAIN inbox' : inbox'[i].token <= requests'
         /\ \A i \in DOMAIN inbox' : AsksStop(i)' => Used' < inbox'[i].token
         /\ \A i, j \in DOMAIN inbox' :
              i < j /\ AsksStop(i)' /\ AsksStop(j)' => inbox'[i].token < inbox'[j].token
<1>1. /\ inbox \in Seq(Request) /\ Used \in Nat /\ requests \in Nat
      /\ \A i \in DOMAIN inbox : inbox[i].token \in Nat
  BY UsedType, RequestFacts, CoordinatorAssumption DEF TypeOK, CoordinatorTypeOK, Token
<1>2. requests' = requests + 1 /\ inbox' = Append(inbox, [kind |-> k, token |-> requests'])
  BY DEF Send
<1>3. /\ DOMAIN inbox' = 1 .. Len(inbox) + 1 /\ DOMAIN inbox = 1 .. Len(inbox)
      /\ Len(inbox) \in Nat
      /\ \A i \in DOMAIN inbox : inbox'[i] = inbox[i]
      /\ inbox'[Len(inbox) + 1].token = requests + 1
  BY <1>1, <1>2
<1>4. \A i \in DOMAIN inbox' : i \in DOMAIN inbox \/ inbox'[i].token = requests + 1
  BY <1>3
<1>5. \A i \in DOMAIN inbox : inbox'[i].token = inbox[i].token /\ (AsksStop(i)' <=> AsksStop(i))
  BY <1>3 DEF AsksStop
<1>6. \A i, j \in DOMAIN inbox' :
        i < j /\ AsksStop(i)' /\ AsksStop(j)' => inbox'[i].token < inbox'[j].token
  <2> SUFFICES ASSUME NEW i \in DOMAIN inbox', NEW j \in DOMAIN inbox', i < j,
                      AsksStop(i)', AsksStop(j)'
               PROVE  inbox'[i].token < inbox'[j].token
    OBVIOUS
  <2>1. i \in DOMAIN inbox
    BY <1>3
  <2>2. CASE j \in DOMAIN inbox
    BY <1>5, <2>1, <2>2 DEF Counted
  <2>3. CASE inbox'[j].token = requests + 1
    BY <1>1, <1>5, <2>1, <2>3 DEF Counted
  <2> QED
    BY <1>4, <2>2, <2>3
<1>7. /\ \A i \in DOMAIN inbox' : inbox'[i].token <= requests'
      /\ \A i \in DOMAIN inbox' : AsksStop(i)' => Used' < inbox'[i].token
  BY <1>1, <1>2, <1>4, <1>5 DEF Counted
<1> QED
  BY <1>1, <1>2, <1>6, <1>7 DEF Counted

(* An answer is no interrupt.                                              *)
LEMMA CountAnswer ==
  ASSUME TypeOK, Counted, NEW s \in Shell, Answer(s), Used' = Used
  PROVE  Counted'
<1>1. /\ inbox \in Seq(Request) /\ Used \in Nat /\ requests \in Nat
      /\ \A i \in DOMAIN inbox : inbox[i].token \in Nat
  BY UsedType, RequestFacts, CoordinatorAssumption DEF TypeOK, CoordinatorTypeOK, Token
<1>2. PICK action \in Action :
        inbox' = Append(inbox, [kind |-> "resume", token |-> shell[s].token, action |-> action])
  BY DEF Answer
<1>3. /\ DOMAIN inbox' = 1 .. Len(inbox) + 1 /\ DOMAIN inbox = 1 .. Len(inbox)
      /\ Len(inbox) \in Nat
      /\ \A i \in DOMAIN inbox : inbox'[i] = inbox[i]
      /\ inbox'[Len(inbox) + 1].token = shell[s].token
      /\ inbox'[Len(inbox) + 1].kind = "resume"
  BY <1>1, <1>2
<1>4. \A i \in DOMAIN inbox' : AsksStop(i)' => i \in DOMAIN inbox /\ AsksStop(i)
  BY <1>3 DEF AsksStop
<1>5. shell[s].at = "asking" /\ shell \in [Shell -> ShellState]
  BY DEF Answer, TypeOK
<1>6. UNCHANGED <<requests, changes, deaths>> /\ shell' = [shell EXCEPT ![s].at = "resuming"]
  BY DEF Answer, atHome
<1>7. \A u \in Shell : shell'[u].at # "prompt" =>
        shell[u].at # "prompt" /\ shell'[u].token = shell[u].token
  BY <1>5, <1>6, ShellFacts
<1>8. /\ \A i \in DOMAIN inbox' : inbox'[i].token <= requests
      /\ \A i \in DOMAIN inbox' : AsksStop(i)' => Used' < inbox'[i].token
      /\ \A i, j \in DOMAIN inbox' :
           i < j /\ AsksStop(i)' /\ AsksStop(j)' => inbox'[i].token < inbox'[j].token
  BY <1>3, <1>4, <1>5 DEF Counted
<1> QED
  BY <1>6, <1>7, <1>8 DEF Counted

(* Every step keeps the count.                                             *)
LEMMA CountedHolds ==
  ASSUME TypeOK, TypeOK', Counted, Next
  PROVE  Counted'
<1>a. /\ serial \in Nat /\ flag \in BOOLEAN /\ kicked \in BOOLEAN
      /\ serial' \in Nat /\ flag' \in BOOLEAN /\ kicked' \in BOOLEAN
  BY CoordinatorAssumption DEF TypeOK, CoordinatorTypeOK
<1>b. Used \in Nat
  BY <1>a DEF Used
<1>c. (Used \in Nat)'
  BY UsedType, PTL
<1>0. Used \in Nat /\ Used' \in Nat
  BY <1>b, <1>c
<1>1. CASE CoordinatorStep(MainLoop)
  <2>0. UNCHANGED <<serial, flag, shell, requests, changes, deaths>>
    BY <1>1 DEF CoordinatorStep, workerVars, agentVars, userVars
  <2>1. CASE TakeLoad \/ TakeInterrupt \/ TakeResume \/ TakeStop("unload", "stop")
               \/ TakeStop("reload", "restart")
    <3>1. inbox # << >> /\ inbox' = Tail(inbox) /\ main = Free
      BY <2>1 DEF TakeLoad, TakeInterrupt, TakeResume, TakeStop, Taking
    <3>2. kicked' = kicked
      BY <2>1 DEF TakeLoad, TakeInterrupt, TakeResume, TakeStop, wires
    <3>3. main'.doing \in {"session", "kick"} => Head(inbox).kind = "interrupt"
      BY <2>1, MainFacts DEF TakeLoad, TakeInterrupt, TakeResume, TakeStop, Taking
    <3>4. Used' <= Used + (IF Head(inbox).kind = "interrupt" THEN 1 ELSE 0)
      BY <2>0, <3>1, <3>2, <3>3, MainFacts, CoordinatorAssumption DEF TypeOK, Used
    <3> QED
      BY <1>0, <2>0, <3>1, <3>4, CountTaken
  <2>2. CASE Started \/ StartFailed \/ Stopped \/ StoreSession \/ Kick \/ Forward
    <3>1. main'.doing \in {"session", "kick"} => main.doing = "session"
      BY <2>2, MainFacts DEF Started, StartFailed, Stopped, StoreSession, Kick, Forward, TypeOK,
         CoordinatorTypeOK
    <3>2. kicked' => kicked \/ (main.doing = "kick" /\ main' = Free)
      BY <2>2 DEF Started, StartFailed, Stopped, StoreSession, Kick, Forward, wires
    <3>3. (IF kicked' THEN 1 ELSE 0) + (IF main'.doing \in {"session", "kick"} THEN 1 ELSE 0)
            <= (IF kicked THEN 1 ELSE 0) + (IF main.doing \in {"session", "kick"} THEN 1 ELSE 0)
      BY <1>a, <3>1, <3>2, MainFacts
    <3>5. Used' <= Used
      BY <1>a, <2>0, <3>3 DEF Used
    <3>4. inbox' = inbox
      BY <2>2 DEF Started, StartFailed, Stopped, StoreSession, Kick, Forward
    <3> QED
      BY <1>0, <2>0, <3>4, <3>5, CountStays
  <2> QED
    BY <1>1, <2>1, <2>2 DEF CoordinatorStep, MainLoop
<1>2. CASE CoordinatorStep(Proxy) \/ CoordinatorStep(HealthCheck) \/ CoordinatorStep(Link)
  <2>1. UNCHANGED <<inbox, main, kicked, serial, flag, shell, requests, changes, deaths>>
    BY <1>2 DEF CoordinatorStep, workerVars, agentVars, userVars, Proxy, HealthCheck, Link,
       ProxyClear,
       ProxyRebuild, ProxyTake, ProxyUpdate, ProxyPublish, HealthScan, HealthReport, wires
  <2>2. Used' = Used
    BY <2>1 DEF Used
  <2> QED
    BY <1>0, <2>1, <2>2, CountStays
<1>3. CASE WorkerStep \/ RunBegins \/ AgentEnds \/ Handler \/ WorkerStillborn
  <2>1. UNCHANGED <<inbox, main, shell, requests, changes, deaths>>
    BY <1>3 DEF WorkerStep, RunBegins, AgentEnds, Handler, WorkerStillborn, WorkerReady, RunEnds,
       SpawnAgent,
       ClearFlag, Register, OutputEnds, Release, Interrupted, AgentDone, TakeAnswer, WorkerExits,
       WorkerKilled,
       Inside, processRest, userVars
  <2>2. \/ serial' = serial /\ (flag' => flag \/ (kicked /\ ~ kicked')) /\ (kicked' => kicked)
        \/ serial' = serial + 1 /\ flag /\ ~ flag' /\ kicked' = kicked
    BY <1>3 DEF WorkerStep, RunBegins, AgentEnds, Handler, WorkerStillborn, WorkerReady, RunEnds,
       SpawnAgent,
       ClearFlag, Register, OutputEnds, Release, Interrupted, AgentDone, TakeAnswer, WorkerExits,
       WorkerKilled,
       Inside, Dead, workerVars, agentVars, wires
  <2>3. Used' <= Used
    <3>1. CASE serial' = serial + 1 /\ flag /\ ~ flag' /\ kicked' = kicked
      BY <1>a, <2>1, <3>1 DEF Used
    <3>2. CASE serial' = serial /\ (flag' => flag) /\ (kicked' => kicked)
      BY <1>a, <2>1, <3>2 DEF Used
    <3>3. CASE serial' = serial /\ kicked /\ ~ kicked'
      BY <1>a, <2>1, <3>3 DEF Used
    <3> QED
      BY <2>2, <3>1, <3>2, <3>3
  <2> QED
    BY <1>0, <2>1, <2>3, CountStays
<1>4. CASE WorkerDies
  <2>1. UNCHANGED <<inbox, main, shell, requests, changes, serial>> /\ ~ flag' /\ ~ kicked'
    BY <1>4 DEF WorkerDies, Dead, processRest
  <2>2. Used' <= Used
    BY <1>a, <2>1 DEF Used
  <2>4. requests \in Nat /\ \A i \in DOMAIN inbox : inbox[i].token \in Nat
    BY RequestFacts, CoordinatorAssumption DEF TypeOK, CoordinatorTypeOK, Token
  <2>3. changes' + deaths' <= MaxTroubles
    BY <1>4, <2>1, InterruptAssumption DEF WorkerDies, TypeOK
  <2> QED
    BY <1>0, <2>1, <2>2, <2>3, <2>4 DEF Counted, AsksStop
<1>5. ASSUME NEW s \in Shell, ShellStep(s)
      PROVE  Counted'
  <2>0. UNCHANGED <<main, serial, flag, kicked, deaths>>
    BY <1>5 DEF ShellStep, SendInterrupt, SendLifecycle, SeesContext, SeesEnd, GivesUp, Answer,
       atHome, workerVars, agentVars, wires
  <2>1. Used' = Used
    BY <2>0 DEF Used
  <2>2. shell \in [Shell -> ShellState] /\ requests \in Nat
    BY CoordinatorAssumption DEF TypeOK
  <2>3. CASE SendInterrupt(s) \/ SendLifecycle(s)
    <3>1. PICK k \in {"interrupt", "load", "unload", "reload"}, at \in {"stopping",
                 "replying"} : Send(s, k, at)
      BY <2>3, InterruptAssumption DEF SendInterrupt, SendLifecycle
    <3>2. \A u \in Shell : shell'[u].at # "prompt" => shell'[u].token <= requests'
      <4>1. /\ requests' = requests + 1 /\ \A u \in Shell : shell[u] \in ShellState
            /\ shell' = [shell EXCEPT ![s] = [at |-> at, token |-> requests']]
        BY <2>2, <3>1 DEF Send
      <4>2. \A u \in Shell : shell[u].at # "prompt" =>
              shell[u].token \in Nat /\ shell[u].token <= requests
        <5>1. \A u \in Shell : shell[u].at # "prompt" => shell[u].token \in Token
          BY <4>1, ShellFacts
        <5> QED
          BY <5>1, CoordinatorAssumption DEF Counted, Token
      <4>3. shell'[s].token = requests' /\ \A u \in Shell : u # s => shell'[u] = shell[u]
        BY <2>2, <4>1
      <4> QED
        BY <2>2, <4>1, <4>2, <4>3
    <3>3. /\ changes' <= requests' /\ requests' <= changes' + MaxInterrupts
          /\ changes' + deaths' <= MaxTroubles
      <4>1. changes \in Nat /\ deaths \in Nat /\ requests' = requests + 1
        BY <3>1, InterruptAssumption DEF Send, TypeOK
      <4>2. CASE SendInterrupt(s)
        BY <2>0, <2>2, <4>1, <4>2, InterruptAssumption DEF SendInterrupt, Counted
      <4>3. CASE SendLifecycle(s)
        BY <2>0, <2>2, <4>1, <4>3, InterruptAssumption DEF SendLifecycle, Counted
      <4> QED
        BY <2>3, <4>2, <4>3
    <3> QED
      BY <2>1, <3>1, <3>2, <3>3, CountSent DEF Counted
  <2>4. CASE SeesContext(s) \/ SeesEnd(s) \/ GivesUp(s)
    <3>1. UNCHANGED <<inbox, requests, changes>>
      BY <2>4 DEF SeesContext, SeesEnd, GivesUp
    <3>2. /\ \A u \in Shell \ {s} : shell'[u] = shell[u]
          /\ shell'[s].at # "prompt" => shell[s].at # "prompt" /\ shell'[s].token = shell[s].token
      <4>1. CASE SeesContext(s)
        <5>1. shell[s].at = "stopping"
                /\ shell' = [shell EXCEPT ![s] = [shell[s] EXCEPT !.at = "asking"]]
          BY <4>1 DEF SeesContext
        <5>2. shell[s] \in ShellState /\ shell'[s] = [shell[s] EXCEPT !.at = "asking"]
          BY <2>2, <5>1
        <5>3. shell'[s] = [at |-> "asking", token |-> shell[s].token]
          BY <5>1, <5>2, ShellFacts
        <5> QED
          BY <2>2, <5>1, <5>3
      <4>2. CASE shell' = [shell EXCEPT ![s] = [at |-> "prompt"]]
        BY <2>2, <4>2
      <4> QED
        BY <2>4, <4>1, <4>2 DEF SeesEnd, GivesUp
    <3>3. \A u \in Shell : shell'[u].at # "prompt" =>
            shell[u].at # "prompt" /\ shell'[u].token = shell[u].token
      BY <2>2, <3>2
    <3> QED
      BY <2>0, <2>1, <3>1, <3>3 DEF Counted, AsksStop
  <2>5. CASE Answer(s)
    BY <2>1, <2>5, CountAnswer
  <2> QED
    BY <1>5, <2>3, <2>4, <2>5 DEF ShellStep
<1> QED
  BY <1>1, <1>2, <1>3, <1>4, <1>5 DEF Next

-----------------------------------------------------------------------------
(* Which worker there is, and what has gone with the one before.           *)
Lives ==
  /\ main.doing \in {"nothing", "session", "kick", "forward"} =>
       /\ life = "none" <=> ~ loaded
       /\ life \in {"none", "up", "dead"}
  /\ main.doing \in {"session", "kick", "forward"} => loaded
  /\ main.doing = "start" => ~ loaded /\ life # "none"
  /\ main.doing \in {"stop", "restart"} => ~ loaded /\ life \in {"up", "dead"}
  /\ ~ loaded => session = NoSession
  /\ life \in {"none", "starting", "stillborn"} => fromWorker = << >> /\ toWorker = << >>
  /\ life = "up" <=> place # "down"
  /\ life # "up" => ~ kicked
  /\ sigterm => main.doing \in {"stop", "restart"}
  /\ loaded /\ ~ rebuild /\ hand.place # "rebuild" => registered

(* Every step keeps it.                                                    *)
LEMMA LivesHolds ==
  ASSUME TypeOK, TypeOK', Lives, Next
  PROVE  Lives'
<1>0. main \in MainState /\ main' \in MainState /\ hand \in HandState /\ hand' \in HandState
  BY DEF TypeOK, CoordinatorTypeOK
<1>a. /\ loaded \in BOOLEAN /\ sigterm \in BOOLEAN /\ kicked \in BOOLEAN
           /\ rebuild \in BOOLEAN /\ registered \in BOOLEAN
      /\ loaded' \in BOOLEAN /\ sigterm' \in BOOLEAN /\ kicked' \in BOOLEAN
           /\ rebuild' \in BOOLEAN /\ registered' \in BOOLEAN
      /\ life \in {"none", "starting", "stillborn", "up", "dead"}
  BY DEF TypeOK, CoordinatorTypeOK
<1> USE DEF Lives
<1>1. CASE CoordinatorStep(MainLoop)
  <2>0. UNCHANGED place
    BY <1>1 DEF CoordinatorStep, workerVars
  <2>1. CASE TakeLoad
    BY <1>0, <1>a, <2>0, <2>1, MainFacts DEF TakeLoad, Taking, lists, proxy, wires
  <2>2. CASE Started \/ StartFailed
    BY <1>0, <1>a, <2>0, <2>2, MainFacts DEF Started, StartFailed, lists, proxy, wires
  <2>3. CASE TakeStop("unload", "stop") \/ TakeStop("reload", "restart")
    BY <1>0, <1>a, <2>0, <2>3, MainFacts DEF TakeStop, Taking, lists, proxy, wires
  <2>4. CASE Stopped
    <3>1. /\ main.doing \in {"stop", "restart"} /\ life = "dead" /\ UNCHANGED <<loaded, session,
                                                                                place>>
          /\ ~ sigterm' /\ ~ kicked' /\ fromWorker' = << >> /\ toWorker' = << >>
          /\ \/ life' = "none" /\ main' = Free
             \/ life' = "starting" /\ main' = [main EXCEPT !.doing = "start"]
      BY <2>0, <2>4 DEF Stopped, lists
    <3>2. \/ life' = "none" /\ main'.doing = "nothing"
          \/ life' = "starting" /\ main'.doing = "start"
      BY <1>0, <3>1, MainFacts DEF MainState
    <3> QED
      BY <3>1, <3>2
  <2>5. CASE TakeInterrupt \/ TakeResume
    BY <1>0, <1>a, <2>0, <2>5, MainFacts DEF TakeInterrupt, TakeResume, Taking, lists, proxy,
       wires
  <2>6. CASE StoreSession \/ Kick \/ Forward
    BY <1>0, <1>a, <2>0, <2>6, MainFacts DEF StoreSession, Kick, Forward, lists, proxy, wires
  <2> QED
    BY <1>1, <2>1, <2>2, <2>3, <2>4, <2>5, <2>6 DEF CoordinatorStep, MainLoop
<1>2. CASE CoordinatorStep(Proxy)
  <2>0. UNCHANGED place
    BY <1>2 DEF CoordinatorStep, workerVars
  <2>1. CASE ProxyClear \/ ProxyRebuild
    BY <1>0, <1>a, <2>0, <2>1, HandFacts DEF ProxyClear, ProxyRebuild, lists, wires
  <2>2. CASE ProxyTake
    BY <1>0, <1>a, <2>0, <2>2, HandFacts DEF ProxyTake, lists
  <2>3. CASE ProxyUpdate \/ ProxyPublish
    BY <1>0, <1>a, <2>0, <2>3, HandFacts DEF ProxyUpdate, ProxyPublish, lists, wires
  <2> QED
    BY <1>2, <2>1, <2>2, <2>3 DEF CoordinatorStep, Proxy
<1>3. CASE CoordinatorStep(HealthCheck) \/ CoordinatorStep(Link) \/ \E s \in Shell : ShellStep(s)
  <2>1. UNCHANGED <<main, loaded, session, rebuild, hand, registered, life, sigterm, kicked,
                    toWorker, fromWorker, place>>
    BY <1>3 DEF CoordinatorStep, HealthCheck, HealthScan, HealthReport, Link, ShellStep,
       SendInterrupt, SendLifecycle,
       SeesContext, SeesEnd, GivesUp, Answer, atHome, workerVars, lists, proxy, wires
  <2> QED
    BY <2>1
<1>4. CASE WorkerStep \/ RunBegins \/ AgentEnds \/ Handler \/ WorkerStillborn \/ WorkerDies
  <2>1. UNCHANGED <<main, loaded, session, rebuild, hand, registered, sigterm>>
    BY <1>4 DEF WorkerStep, RunBegins, AgentEnds, Handler, WorkerStillborn, WorkerReady, RunEnds,
       SpawnAgent,
       ClearFlag, Register, OutputEnds, Release, Interrupted, AgentDone, TakeAnswer, WorkerExits,
       WorkerKilled,
       WorkerDies, Inside, processRest, lists, proxy, wires
  <2>2. /\ kicked' => kicked
        /\ \/ life = "up" /\ life' \in {"up", "dead"} /\ (life' = "up" <=> place' # "down")
              /\ (life' # "up" => ~ kicked')
           \/ life = "starting" /\ life' = "up" /\ place' # "down"
              /\ UNCHANGED <<fromWorker, toWorker>>
           \/ life = "starting" /\ life' = "stillborn" /\ UNCHANGED <<place, fromWorker,
                                                                      toWorker>>
    BY <1>4, <1>a DEF WorkerStep, RunBegins, AgentEnds, Handler, WorkerStillborn, WorkerReady,
       RunEnds, SpawnAgent,
       ClearFlag, Register, OutputEnds, Release, Interrupted, AgentDone, TakeAnswer, WorkerExits,
       WorkerKilled,
       WorkerDies, Inside, Dead, EndOfRun, workerVars, wires
  <2> QED
    BY <1>0, <1>a, <2>1, <2>2, MainFacts
<1> QED
  BY <1>1, <1>2, <1>3, <1>4 DEF Next

(* An agent that was killed is one whose interrupt is remembered.          *)
AgentInv ==
  /\ agent = "killed" => flag
  /\ current => place \in {"reading", "releasing", "stuck"}
  /\ place = "spawned" => agent = "alive"

(* Every step keeps it: flag is cleared only before an agent is registered *)
(* and when it is acted on (processes.py:66-103).                          *)
LEMMA AgentHolds ==
  ASSUME TypeOK, Lives, AgentInv, Next
  PROVE  AgentInv'
<1>0. current \in BOOLEAN /\ flag \in BOOLEAN
  BY DEF TypeOK
<1> USE DEF AgentInv
<1>1. CASE CoordinatorStep(MainLoop) \/ CoordinatorStep(Proxy) \/ CoordinatorStep(HealthCheck)
             \/ CoordinatorStep(Link) \/ WorkerStillborn \/ \E s \in Shell : ShellStep(s)
  <2>1. UNCHANGED <<agent, flag, current, place>>
    BY <1>1 DEF CoordinatorStep, WorkerStillborn, ShellStep, SendInterrupt, SendLifecycle,
       SeesContext,
       SeesEnd, GivesUp, Answer, atHome, workerVars, agentVars
  <2> QED
    BY <2>1
<1>2. CASE WorkerReady \/ RunBegins \/ RunEnds \/ TakeAnswer
  BY <1>0, <1>2 DEF WorkerReady, RunBegins, RunEnds, TakeAnswer, EndOfRun, workerVars, agentVars,
     Lives
<1>3. CASE SpawnAgent \/ ClearFlag \/ Register \/ AgentEnds \/ OutputEnds \/ Release
  BY <1>0, <1>3 DEF SpawnAgent, ClearFlag, Register, AgentEnds, OutputEnds, Release, agentVars
<1>4. CASE Interrupted \/ AgentDone
  BY <1>0, <1>4 DEF Interrupted, AgentDone, EndOfRun
<1>5. CASE Handler
  BY <1>0, <1>5 DEF Handler
<1>6. CASE WorkerExits \/ WorkerKilled \/ WorkerDies
  BY <1>0, <1>6 DEF WorkerExits, WorkerKilled, WorkerDies, Dead
<1> QED
  BY <1>1, <1>2, <1>3, <1>4, <1>5, <1>6 DEF Next, WorkerStep

-----------------------------------------------------------------------------
-----------------------------------------------------------------------------
(* Every step keeps the types, given the count.                            *)
LEMMA TypesHold ==
  ASSUME TypeOK, Counted, Next
  PROVE  TypeOK'
<1>0. CoordinatorTypeOK /\ WorkerTypeOK /\ UserTypeOK
  BY TypeParts
<1>1. ASSUME UNCHANGED <<workerVars, userVars, deaths>>, CoordinatorTypeOK'
      PROVE  TypeOK'
  BY <1>0, <1>1 DEF TypeOK, WorkerTypeOK, UserTypeOK, workerVars, agentVars, userVars
<1>2. CASE CoordinatorStep(MainLoop)
  <2>1. CoordinatorTypeOK'
    BY <1>0, <1>2, MainTypes DEF CoordinatorStep
  <2> QED
    BY <1>1, <1>2, <2>1 DEF CoordinatorStep
<1>3. CASE CoordinatorStep(Proxy) \/ CoordinatorStep(HealthCheck) \/ CoordinatorStep(Link)
  <2>1. CoordinatorTypeOK'
    BY <1>0, <1>3, ProxyTypes DEF CoordinatorStep
  <2> QED
    BY <1>1, <1>3, <2>1 DEF CoordinatorStep
<1>4. CASE WorkerStep \/ RunBegins \/ AgentEnds \/ Handler \/ WorkerStillborn
  <2>1. CoordinatorTypeOK' /\ WorkerTypeOK'
    BY <1>0, <1>4, WorkerTypes DEF UserTypeOK
  <2>2. UNCHANGED <<userVars, deaths>>
    BY <1>4 DEF WorkerStep, RunBegins, AgentEnds, Handler, WorkerStillborn, WorkerReady, RunEnds,
       SpawnAgent,
       ClearFlag, Register, OutputEnds, Release, Interrupted, AgentDone, TakeAnswer, WorkerExits,
       WorkerKilled,
       Inside
  <2> QED
    BY <1>0, <2>1, <2>2 DEF TypeOK, WorkerTypeOK, UserTypeOK, userVars
<1>5. CASE WorkerDies
  <2>1. CoordinatorTypeOK' /\ WorkerTypeOK'
    BY <1>0, <1>5, WorkerTypes DEF UserTypeOK
  <2>2. UNCHANGED <<shell, requests, changes>> /\ alone' = FALSE
    BY <1>5 DEF WorkerDies
  <2>3. deaths' \in 0 .. MaxTroubles
    BY <1>0, <1>5, InterruptAssumption DEF WorkerDies, UserTypeOK
  <2> QED
    BY <1>0, <2>1, <2>2, <2>3 DEF TypeOK, WorkerTypeOK, UserTypeOK
<1>6. ASSUME NEW s \in Shell, ShellStep(s)
      PROVE  TypeOK'
  <2>1. CoordinatorTypeOK' /\ UserTypeOK'
    BY <1>0, <1>6, ShellTypes
  <2>2. UNCHANGED workerVars
    BY <1>6 DEF ShellStep, SendInterrupt, SendLifecycle, SeesContext, SeesEnd, GivesUp, Answer,
       atHome
  <2> QED
    BY <1>0, <2>1, <2>2 DEF TypeOK, WorkerTypeOK, UserTypeOK, workerVars, agentVars
<1> QED
  BY <1>2, <1>3, <1>4, <1>5, <1>6 DEF Next

(* What the rest of the module rests on.                                   *)
Core == TypeOK /\ Counted /\ Lives /\ AgentInv

(* It holds of a coordinator that has just loaded its worker.              *)
LEMMA InitCore == Init => Core
<1> SUFFICES ASSUME Init PROVE Core
  OBVIOUS
<1> USE DEF Init, CoordinatorInit
<1>1. CoordinatorTypeOK
  <2>1. main \in MainState /\ hand \in HandState
    BY MainFacts, HandFacts
  <2>2. asked \in [Token -> 0 .. MaxRequests]
    BY CoordinatorAssumption
  <2>3. inbox \in Seq(Request) /\ toWorker \in Seq(Reply) /\ fromWorker \in Seq(Event)
    OBVIOUS
  <2>4. published \subseteq Publication
    OBVIOUS
  <2> QED
    BY <2>1, <2>2, <2>3, <2>4 DEF CoordinatorTypeOK
<1>2. shell \in [Shell -> ShellState] /\ \A s \in Shell : shell[s].at = "prompt"
  BY ShellFacts
<1>3. TypeOK
  <2>1. 0 \in 0 .. MaxRequests /\ 0 \in 0 .. MaxTroubles
    BY CoordinatorAssumption, InterruptAssumption
  <2>2. WorkerTypeOK /\ UserTypeOK
    BY <1>2, <2>1 DEF WorkerTypeOK, UserTypeOK, Place
  <2> QED
    BY <1>1, <2>2, TypeParts
<1>4. Counted
  <2>1. Used = 0
    BY MainFacts DEF Used
  <2> QED
    BY <1>2, <2>1, InterruptAssumption DEF Counted
<1>5. Lives
  BY MainFacts DEF Lives
<1>6. AgentInv
  BY DEF AgentInv
<1> QED
  BY <1>3, <1>4, <1>5, <1>6 DEF Core

(* A step that changes nothing changes nothing of it.                      *)
LEMMA CoreStutters ==
  ASSUME Core, UNCHANGED vars
  PROVE  Core'
<1> USE DEF Core, vars, coordinatorVars, lists, proxy, checker, wires, workerVars, agentVars,
userVars
<1>1. TypeOK'
  BY DEF TypeOK, CoordinatorTypeOK
<1>2. Counted'
  BY DEF Counted, AsksStop, Used
<1>3. Lives' /\ AgentInv'
  BY DEF Lives, AgentInv
<1> QED
  BY <1>1, <1>2, <1>3

(* It is an inductive invariant.                                           *)
THEOREM CoreHolds == Spec => []Core
<1>1. Init => Core
  BY InitCore
<1>2. Core /\ [Next]_vars => Core'
  <2>1. ASSUME Core, Next PROVE Core'
    <3>1. TypeOK'
      BY <2>1, TypesHold DEF Core
    <3>2. Counted' /\ Lives' /\ AgentInv'
      BY <2>1, <3>1, CountedHolds, LivesHolds, AgentHolds DEF Core
    <3> QED
      BY <3>1, <3>2 DEF Core
  <2> QED
    BY <2>1, CoreStutters
<1> QED
  BY <1>1, <1>2, PTL DEF Spec

(* Every variable of the coordinator, the worker and the shells keeps its  *)
(* type, whatever the number of shells and the bounds.                     *)
THEOREM TypeCorrect == Spec => []TypeOK
<1>1. Core => TypeOK
  BY DEF Core
<1> QED
  BY <1>1, CoreHolds, PTL

(* An agent that an interrupt has stopped is never taken for one that      *)
(* failed: whatever comes in between, the request is remembered until      *)
(* run_agent_command has looked (processes.py:66-103).                     *)
THEOREM StopRemembered == Spec => []StopIsRemembered
<1>1. Core => StopIsRemembered
  BY DEF Core, AgentInv, StopIsRemembered
<1> QED
  BY <1>1, CoreHolds, PTL

-----------------------------------------------------------------------------
(* The story of a token: a shell is shown the interruption of its token;   *)
(* the event that tells of it is in the proxy's hand; nothing has come of  *)
(* it yet.                                                                 *)
Showed(t) == <<t, "agent_interrupted">> \in published

Telling(t) ==
  hand.place \in {"update", "publish"} /\ hand.event.kind = "agent_interrupted"
    /\ hand.event.token = t

Fresh(t) == ~ Showed(t) /\ ~ Telling(t) /\ session.token # t

(* The answers on their way to the coordinator, the shells that have not   *)
(* answered, and the tokens whose shell has not, or whose answer is still  *)
(* in the coordinator's socket.                                            *)
IsAnswer(i) == inbox[i].kind = "resume"

Unasked(s) == shell[s].at \in {"stopping", "asking"}

Unanswered(t) ==
  \/ \E s \in Shell : Unasked(s) /\ shell[s].token = t
  \/ \E i \in DOMAIN inbox : IsAnswer(i) /\ inbox[i].token = t

(* An answer goes on to the worker, or is on the way to it.                *)
Forwarding(t) == main.doing = "forward" /\ main.token = t /\ Ready(main.found, t)

Answering(t) == Forwarding(t) \/ \E i \in DOMAIN toWorker : toWorker[i].token = t

(* The token of an interrupt that has no session yet is in no event, no    *)
(* session and no other interrupt: nobody answers it.                      *)
StopsFresh ==
  /\ \A i \in DOMAIN inbox : AsksStop(i) => Fresh(inbox[i].token)
  /\ main.doing = "session" => /\ Fresh(main.token) /\ main.token <= requests
                               /\ \A i \in DOMAIN inbox : AsksStop(i) =>
                                    main.token # inbox[i].token

(* No token is younger than the last request, no event about an            *)
(* interruption to come.                                                   *)
Bounded ==
  /\ session.token <= requests
  /\ \A t \in Token : Showed(t) \/ Telling(t) => t <= requests
  /\ \A t \in Token : asked[t] <= serial
  /\ hand.place \in {"update", "publish"} => hand.event.serial <= serial
  /\ \A i \in DOMAIN fromWorker : fromWorker[i].serial <= serial

(* Only the proxy gives a token to agent_interrupted.  A session whose     *)
(* interrupt is not over has shown nothing, and the proxy updates it       *)
(* before it publishes.                                                    *)
Phases ==
  /\ \A i \in DOMAIN fromWorker : fromWorker[i].kind = "agent_interrupted" =>
       fromWorker[i].token = 0
  /\ session.phase = "waiting_interrupt_terminal" => ~ Showed(session.token)
  /\ \A t \in Token :
       hand.place = "publish" /\ Telling(t) /\ session.token = t =>
         session.phase = "waiting_resume_action"

(* Tokens are of one shell each, a shell answers once, and only after it   *)
(* has been shown the interruption.                                        *)
AskOnce ==
  /\ \A s, u \in Shell :
       s # u /\ shell[s].at # "prompt" /\ shell[u].at # "prompt" =>
         shell[s].token # shell[u].token
  /\ \A i \in DOMAIN inbox, s \in Shell : IsAnswer(i) /\ Unasked(s) =>
       shell[s].token # inbox[i].token
  /\ \A i, j \in DOMAIN inbox : i # j /\ IsAnswer(i) /\ IsAnswer(j) =>
       inbox[i].token # inbox[j].token
  /\ \A i \in DOMAIN inbox : IsAnswer(i) => Showed(inbox[i].token)
  /\ \A s \in Shell : shell[s].at = "asking" => Showed(shell[s].token)

(* The answer on the way to a worker that is up is the only one, and of    *)
(* the shell that was shown the interruption the worker waits in.          *)
AnswerWaitedFor ==
  life = "up" =>
    /\ \A t \in Token : Answering(t) => place = "wait" /\ asked[t] = serial /\ ~ Telling(t)
    /\ toWorker # << >> => Len(toWorker) = 1 /\ \A t \in Token : ~ Forwarding(t)

(* An answer that would be let through is to the interruption the worker   *)
(* waits in.                                                               *)
AskedOfWaiting ==
  \A t \in Token :
    life = "up" /\ session.token = t /\ session.phase = "waiting_resume_action" /\ Showed(t)
      /\ Unanswered(t)
      => place = "wait" /\ asked[t] = serial /\ \A u \in Token : ~ Answering(u)

(* So is the event that is about to be shown to the session.               *)
ToldOfLast ==
  \A t \in Token :
    life = "up" /\ session.token = t /\ Telling(t) =>
      place = "wait" /\ hand.event.serial = serial /\ \A u \in Token : asked[u] < serial

(* And the one that has not been taken yet: it is of the last              *)
(* interruption, which nobody has been shown, and there is no other.       *)
OnItsWay ==
  life = "up" =>
    \A i \in DOMAIN fromWorker : fromWorker[i].kind = "agent_interrupted" =>
      /\ place = "wait" /\ fromWorker[i].serial = serial
      /\ \A u \in Token : asked[u] < serial
      /\ \A u \in Token : Telling(u) => hand.event.serial < serial
      /\ \A j \in DOMAIN fromWorker : i # j => fromWorker[j].kind # "agent_interrupted"

(* All of it is inductive together.                                        *)
Story ==
  /\ StopsFresh /\ Bounded /\ Phases /\ AskOnce
  /\ AnswerWaitedFor /\ AskedOfWaiting /\ ToldOfLast /\ OnItsWay

-----------------------------------------------------------------------------
(* Most steps touch little of the story: they may take the first request,  *)
(* forget a session, empty the sockets, tell of something else or leave a  *)
(* worker that is down.                                                    *)
Plain ==
  /\ \E k \in {0, 1} : \A i \in DOMAIN inbox' : i + k \in DOMAIN inbox /\ inbox'[i] = inbox[i + k]
  /\ main' = main \/ main'.doing \notin {"session", "forward"}
  /\ session' \in {session, NoSession}
  /\ \A t \in Token : Showed(t)' <=> Showed(t)
  /\ \/ hand' = hand
     \/ hand.place \notin {"update", "publish"} /\ hand'.place \notin {"update", "publish"}
  /\ UNCHANGED <<asked, serial, shell, requests>>
  /\ toWorker' \in {toWorker, << >>}
  /\ \A i \in DOMAIN fromWorker' :
       \/ i \in DOMAIN fromWorker /\ fromWorker'[i] = fromWorker[i]
       \/ fromWorker'[i].kind # "agent_interrupted" /\ fromWorker'[i].serial <= serial
  /\ life' = "up" => \/ life = "up" /\ (place' = "wait" <=> place = "wait")
                     \/ life = "starting"

(* What the type invariant says of the variables of the story.             *)
LEMMA StoryTypes ==
  TypeOK =>
         /\ inbox \in Seq(Request) /\ \A i \in DOMAIN inbox :
              i \in Nat /\ inbox[i].token \in Token
         /\ main \in MainState /\ (main.doing # "nothing" => main.token \in Token)
         /\ session \in Session \cup {NoSession} /\ session.token \in Token \cup {0}
         /\ (session.token = 0 <=> session = NoSession)
         /\ session.phase \in {"none", "waiting_interrupt_terminal", "waiting_resume_action"}
         /\ hand \in HandState
         /\ hand.place \in {"update", "publish"} =>
              hand.event \in Event /\ hand.event.token \in Token \cup {0}
                /\ hand.event.serial \in Nat
         /\ toWorker \in Seq(Reply) /\ \A i \in DOMAIN toWorker : toWorker[i].token \in Token
         /\ fromWorker \in Seq(Event)
         /\ \A i \in DOMAIN fromWorker : /\ i \in Nat /\ fromWorker[i] \in Event
                                         /\ fromWorker[i].serial \in Nat
                                         /\ fromWorker[i].token \in Token \cup {0}
         /\ shell \in [Shell -> ShellState]
         /\ \A s \in Shell : shell[s].at # "prompt" => shell[s].token \in Token
         /\ asked \in [Token -> Nat] /\ serial \in Nat /\ requests \in Nat
         /\ Token \subseteq Nat \ {0}
<1> HAVE TypeOK
<1>0. Token \subseteq Nat \ {0} /\ 0 .. MaxRequests \subseteq Nat
  BY CoordinatorAssumption DEF Token
<1>1. inbox \in Seq(Request) /\ \A i \in DOMAIN inbox : i \in Nat /\ inbox[i].token \in Token
  BY RequestFacts DEF TypeOK, CoordinatorTypeOK
<1>2. main \in MainState /\ (main.doing # "nothing" => main.token \in Token)
  BY MainFacts DEF TypeOK, CoordinatorTypeOK
<1>3. /\ session \in Session \cup {NoSession} /\ session.token \in Token \cup {0}
      /\ (session.token = 0 <=> session = NoSession)
      /\ session.phase \in {"none", "waiting_interrupt_terminal", "waiting_resume_action"}
  BY SessionFacts DEF TypeOK, CoordinatorTypeOK
<1>4. /\ hand \in HandState
      /\ hand.place \in {"update", "publish"} =>
           hand.event \in Event /\ hand.event.token \in Token \cup {0}
             /\ hand.event.serial \in Nat
  BY <1>0, HandFacts, EventFacts DEF TypeOK, CoordinatorTypeOK
<1>5. toWorker \in Seq(Reply) /\ \A i \in DOMAIN toWorker : toWorker[i].token \in Token
  <2>1. toWorker \in Seq(Reply) /\ \A i \in DOMAIN toWorker : toWorker[i] \in Reply
    BY DEF TypeOK, CoordinatorTypeOK
  <2>2. \A r \in Reply : r.token \in Token
    BY DEF Reply
  <2> QED
    BY <2>1, <2>2
<1>6. /\ fromWorker \in Seq(Event)
      /\ \A i \in DOMAIN fromWorker : i \in Nat /\ fromWorker[i] \in Event
  BY DEF TypeOK, CoordinatorTypeOK
<1>7. \A i \in DOMAIN fromWorker : /\ fromWorker[i].serial \in Nat
                                   /\ fromWorker[i].token \in Token \cup {0}
  BY <1>0, <1>6, EventFacts
<1>8. /\ shell \in [Shell -> ShellState]
      /\ \A s \in Shell : shell[s].at # "prompt" => shell[s].token \in Token
  BY ShellFacts DEF TypeOK
<1>9. asked \in [Token -> Nat] /\ serial \in Nat /\ requests \in Nat
  BY <1>0 DEF TypeOK, CoordinatorTypeOK
<1> QED
  BY <1>0, <1>1, <1>2, <1>3, <1>4, <1>5, <1>6, <1>7, <1>8, <1>9

(* A plain step keeps the story.                                           *)
LEMMA PlainKeeps ==
  ASSUME Core, TypeOK', Story, Plain
  PROVE  Story'
<1>a. TypeOK
  BY DEF Core
<1>b. PICK k \in {0, 1} :
        \A i \in DOMAIN inbox' : i + k \in DOMAIN inbox /\ inbox'[i] = inbox[i + k]
  BY DEF Plain
<1>c. /\ main' = main \/ main'.doing \notin {"session", "forward"}
      /\ session' \in {session, NoSession}
      /\ \A t \in Token : Showed(t)' <=> Showed(t)
      /\ UNCHANGED <<asked, serial, shell, requests>>
      /\ toWorker' \in {toWorker, << >>}
      /\ life' = "up" => \/ life = "up" /\ (place' = "wait" <=> place = "wait")
                         \/ life = "starting"
  BY DEF Plain
<1>d. \A t \in Token \cup {0} : /\ Telling(t)' <=> Telling(t)
                                /\ Telling(t) => hand' = hand
  BY DEF Plain, Telling
<1>e. \A i \in DOMAIN fromWorker' : fromWorker'[i].kind = "agent_interrupted" =>
        i \in DOMAIN fromWorker /\ fromWorker'[i] = fromWorker[i]
  BY DEF Plain
<1>f. /\ life = "starting" => /\ fromWorker = << >> /\ toWorker = << >>
                              /\ session.token = 0 /\ main.doing # "forward"
  BY <1>a, StoryTypes, MainFacts, SessionFacts DEF Core, Lives
<1>g. \A i \in DOMAIN inbox' : /\ AsksStop(i)' <=> AsksStop(i + k)
                               /\ IsAnswer(i)' <=> IsAnswer(i + k)
                               /\ inbox'[i].token = inbox[i + k].token
                                    /\ inbox[i + k].token \in Token
  BY <1>a, <1>b, StoryTypes DEF AsksStop, IsAnswer
<1>h. \A t \in Token : Fresh(t) => Fresh(t)'
  BY <1>a, <1>c, <1>d, SessionFacts, StoryTypes DEF Fresh
<1>i. \A t \in Token : /\ Answering(t)' => Answering(t) /\ life # "starting"
                       /\ Forwarding(t)' => Forwarding(t)
  BY <1>c, <1>f DEF Answering, Forwarding
<1>j. \A t \in Token : Unanswered(t)' => Unanswered(t)
  BY <1>b, <1>c, <1>g DEF Unanswered, Unasked
<1>1. StopsFresh'
  BY <1>a, <1>b, <1>c, <1>g, <1>h, StoryTypes DEF Story, StopsFresh
<1>2. Bounded'
  <2>1. \A i \in DOMAIN fromWorker' : fromWorker'[i].serial <= serial
    BY DEF Plain, Story, Bounded
  <2>2. hand'.place \in {"update", "publish"} => hand'.event.serial <= serial
    BY DEF Plain, Story, Bounded
  <2>3. session'.token <= requests
    BY <1>a, <1>c, SessionFacts, StoryTypes DEF Story, Bounded
  <2> QED
    BY <1>c, <1>d, <2>1, <2>2, <2>3 DEF Story, Bounded
<1>3. Phases'
  <2>1. \A i \in DOMAIN fromWorker' : fromWorker'[i].kind = "agent_interrupted" =>
          fromWorker'[i].token = 0
    BY <1>e DEF Story, Phases
  <2>2. session'.phase = "waiting_interrupt_terminal" =>
          ~ Showed(session.token)' /\ session' = session
    BY <1>a, <1>c, SessionFacts, StoryTypes DEF Story, Phases
  <2>3. ASSUME NEW t \in Token, hand'.place = "publish", Telling(t)', session'.token = t
        PROVE  session'.phase = "waiting_resume_action"
    BY <1>a, <1>c, <1>d, <2>3, SessionFacts, StoryTypes DEF Story, Phases
  <2> QED
    BY <2>1, <2>2, <2>3 DEF Phases
<1>4. AskOnce'
  <2>1. \A i, j \in DOMAIN inbox' : i # j => i + k # j + k
    <3>1. inbox' \in Seq(Request)
      BY DEF TypeOK, CoordinatorTypeOK
    <3> QED
      BY <3>1
  <2>2. \A i, j \in DOMAIN inbox' :
          i # j /\ IsAnswer(i)' /\ IsAnswer(j)' => inbox'[i].token # inbox'[j].token
    BY <1>b, <1>g, <2>1 DEF Story, AskOnce
  <2>4. \A i \in DOMAIN inbox' : IsAnswer(i)' =>
          <<inbox'[i].token, "agent_interrupted">> \in published'
    BY <1>b, <1>c, <1>g DEF Story, AskOnce, Showed
  <2>5. \A s \in Shell : shell[s].at = "asking" =>
          <<shell[s].token, "agent_interrupted">> \in published'
    BY <1>a, <1>c, StoryTypes DEF Story, AskOnce, Showed
  <2> QED
    BY <1>b, <1>c, <1>g, <2>2, <2>4, <2>5 DEF Story, AskOnce, Unasked, Showed
<1>5. AnswerWaitedFor'
  BY <1>c, <1>d, <1>i, <1>f DEF Story, AnswerWaitedFor
<1>6. AskedOfWaiting'
  BY <1>a, <1>c, <1>f, <1>i, <1>j, SessionFacts, StoryTypes DEF Story, AskedOfWaiting
<1>7. ToldOfLast'
  BY <1>a, <1>c, <1>d, <1>f, SessionFacts, StoryTypes DEF Story, ToldOfLast
<1>8. OnItsWay'
  BY <1>c, <1>d, <1>e, <1>f DEF Story, OnItsWay
<1> QED
  BY <1>1, <1>2, <1>3, <1>4, <1>5, <1>6, <1>7, <1>8 DEF Story

(* A queue that is left alone, or loses its head.                          *)
LEMMA QueueSteps ==
  ASSUME TypeOK, inbox' = inbox \/ (inbox # << >> /\ inbox' = Tail(inbox))
  PROVE  \E k \in {0, 1} : \A i \in DOMAIN inbox' :
           i + k \in DOMAIN inbox /\ inbox'[i] = inbox[i + k]
<1>1. inbox \in Seq(Request)
  BY StoryTypes
<1>2. CASE inbox' = inbox
  BY <1>1, <1>2
<1>3. CASE inbox # << >> /\ inbox' = Tail(inbox)
  BY <1>1, <1>3, HeadTypes
<1> QED
  BY <1>2, <1>3

(* What is published besides agent_interrupted shows nothing.              *)
LEMMA ShownSteps ==
  ASSUME published' = published \/ \E t, k : k # "agent_interrupted" /\ Publish(t, k)
  PROVE  \A t \in Token : Showed(t)' <=> Showed(t)
BY DEF Publish, Showed

(* The main loop's steps are plain, but for those of an interrupt and of   *)
(* its answer.                                                             *)
LEMMA MainPlain ==
  ASSUME Core, CoordinatorStep(MainLoop), ~ StoreSession, ~ Forward,
         TakeInterrupt \/ TakeResume => main' = Free
  PROVE  Plain
<1>1. /\ UNCHANGED <<serial, shell, requests, place>>
      /\ MainLoop
  BY DEF CoordinatorStep, workerVars, userVars
<1>2. TypeOK /\ Lives
  BY DEF Core
<1>3. inbox' = inbox \/ (inbox # << >> /\ inbox' = Tail(inbox))
  BY <1>1 DEF MainLoop, TakeLoad, Started, StartFailed, TakeStop, Stopped, TakeInterrupt, Kick,
     TakeResume, Taking
<1>4. published' = published \/ \E t, k : k # "agent_interrupted" /\ Publish(t, k)
  BY <1>1 DEF MainLoop, TakeLoad, Started, StartFailed, TakeStop, Stopped, TakeInterrupt, Kick,
     TakeResume
<1>5. main' = main \/ main'.doing \notin {"session", "forward"}
  <2>1. CASE Stopped
    BY <1>2, <2>1, MainFacts DEF Stopped, TypeOK, CoordinatorTypeOK
  <2> QED
    BY <1>1, <2>1, MainFacts DEF MainLoop, TakeLoad, Started, StartFailed, TakeStop,
       TakeInterrupt, Kick, TakeResume
<1>6. session' \in {session, NoSession} /\ UNCHANGED <<hand, asked>>
  BY <1>1 DEF MainLoop, TakeLoad, Started, StartFailed, TakeStop, Stopped, TakeInterrupt, Kick,
     TakeResume, lists, proxy
<1>7. \/ UNCHANGED <<toWorker, fromWorker>>
      \/ toWorker' = << >> /\ fromWorker' = << >>
  BY <1>1 DEF MainLoop, TakeLoad, Started, StartFailed, TakeStop, Stopped, TakeInterrupt, Kick,
     TakeResume, wires
<1>8. life' = "up" => life = "up"
  BY <1>1 DEF MainLoop, TakeLoad, Started, StartFailed, TakeStop, Stopped, TakeInterrupt, Kick,
     TakeResume
<1> QED
  BY <1>1, <1>2, <1>3, <1>4, <1>5, <1>6, <1>7, <1>8, QueueSteps, ShownSteps DEF Plain

(* So are the proxy's rebuild, the health check and a new subscription.    *)
LEMMA OtherPlain ==
  ASSUME Core,
         \/ CoordinatorStep(ProxyClear) \/ CoordinatorStep(ProxyRebuild)
         \/ CoordinatorStep(HealthCheck) \/ CoordinatorStep(Link)
  PROVE  Plain
<1>1. UNCHANGED <<serial, shell, requests, place, inbox, main, session, asked, toWorker,
                  fromWorker, life>>
  BY DEF CoordinatorStep, workerVars, userVars, ProxyClear, ProxyRebuild, HealthCheck,
     HealthScan, HealthReport, Link, lists, wires
<1>2. published' = published \/ \E t, k : k # "agent_interrupted" /\ Publish(t, k)
  BY DEF CoordinatorStep, ProxyClear, ProxyRebuild, HealthCheck, HealthScan, HealthReport, Link
<1>3. \/ hand' = hand
      \/ hand.place \notin {"update", "publish"} /\ hand'.place \notin {"update", "publish"}
  BY HandFacts DEF CoordinatorStep, ProxyClear, ProxyRebuild, HealthCheck, HealthScan,
     HealthReport, Link, proxy
<1> QED
  BY <1>1, <1>2, <1>3, QueueSteps, ShownSteps DEF Plain, Core

(* An event that is no agent_interrupted.                                  *)
LEMMA TellPlain ==
  ASSUME TypeOK, NEW k \in Outcome \ {"agent_interrupted"}, NEW t, NEW n, n <= serial,
         Tell(k, t, n) \/ Silent
  PROVE  \A i \in DOMAIN fromWorker' :
           \/ i \in DOMAIN fromWorker /\ fromWorker'[i] = fromWorker[i]
           \/ fromWorker'[i].kind # "agent_interrupted" /\ fromWorker'[i].serial <= serial
<1>1. CASE fromWorker' = fromWorker
  BY <1>1
<1>2. CASE fromWorker' = Append(fromWorker, [kind |-> k, token |-> t, serial |-> n])
  <2>1. fromWorker \in Seq(Event)
    BY StoryTypes
  <2>2. \A i \in DOMAIN fromWorker' :
          \/ i \in DOMAIN fromWorker /\ fromWorker'[i] = fromWorker[i]
          \/ fromWorker'[i] = [kind |-> k, token |-> t, serial |-> n]
    BY <1>2, <2>1
  <2> QED
    BY <2>2
<1> QED
  BY <1>1, <1>2 DEF Tell, Silent

(* The worker's steps are plain but for the interruption and the answer.   *)
LEMMA WorkerPlain ==
  ASSUME Core,
         WorkerStep \/ RunBegins \/ AgentEnds \/ Handler \/ WorkerStillborn \/ WorkerDies,
         ~ TakeAnswer, ~ (Interrupted /\ resuming = 0)
  PROVE  Plain
<1> USE DEF WorkerStep, RunBegins, AgentEnds, Handler, WorkerStillborn, WorkerDies, WorkerReady,
RunEnds,
      SpawnAgent, ClearFlag, Register, OutputEnds, Release, Interrupted, AgentDone, WorkerExits,
      WorkerKilled
<1>1. TypeOK /\ 0 <= serial /\ serial <= serial
  BY StoryTypes DEF Core
<1>2. UNCHANGED <<inbox, main, session, hand, published, asked, serial, shell, requests,
                  toWorker>>
  BY DEF Inside, processRest, lists, proxy, wires, workerVars, userVars
<1>3. \E k \in Outcome \ {"agent_interrupted"}, n \in {0, serial}, t \in Token \cup {0} :
        Tell(k, t, n) \/ Silent
  <2>1. Silent \/ Tell("interrupt_resume_failed", resuming, serial) \/ Tell("interrupt_failed",
          0, 0)
    BY DEF EndOfRun, Silent, wires
  <2>2. resuming \in Token \cup {0}
    BY <1>1 DEF TypeOK
  <2> QED
    BY <2>1, <2>2 DEF Outcome
<1>4. life' = "up" => \/ life = "up" /\ (place' = "wait" <=> place = "wait")
                      \/ life = "starting"
  BY DEF EndOfRun, Inside, Dead, workerVars
<1>5. \A i \in DOMAIN fromWorker' :
        \/ i \in DOMAIN fromWorker /\ fromWorker'[i] = fromWorker[i]
        \/ fromWorker'[i].kind # "agent_interrupted" /\ fromWorker'[i].serial <= serial
  BY <1>1, <1>3, TellPlain
<1> QED
  BY <1>1, <1>2, <1>4, <1>5, QueueSteps, ShownSteps DEF Plain

-----------------------------------------------------------------------------
(* The main loop takes the first request.                                  *)
LEMMA TakingFacts ==
  ASSUME TypeOK, NEW k, Taking(k)
  PROVE  /\ Asker \in Token /\ Head(inbox) = inbox[1] /\ 1 \in DOMAIN inbox /\ inbox[1].kind = k
         /\ Asker = inbox[1].token /\ main = Free /\ main.doing = "nothing"
         /\ \A i \in DOMAIN inbox' : /\ i + 1 \in DOMAIN inbox /\ inbox'[i] = inbox[i + 1]
                                          /\ i + 1 # 1
                                      /\ 1 < i + 1 /\ i \in Nat
                                      /\ inbox'[i].token = inbox[i + 1].token
                                      /\ (AsksStop(i)' <=> AsksStop(i + 1))
                                           /\ (IsAnswer(i)' <=> IsAnswer(i + 1))
         /\ \A i, j \in DOMAIN inbox' : i # j => i + 1 # j + 1
<1>1. inbox \in Seq(Request) /\ inbox # << >>
  BY StoryTypes DEF Taking
<1>2. /\ 1 \in DOMAIN inbox /\ Head(inbox) = inbox[1] /\ inbox' = Tail(inbox)
      /\ \A i \in DOMAIN inbox' :
           i + 1 \in DOMAIN inbox /\ inbox'[i] = inbox[i + 1] /\ i \in Nat /\ 1 < i + 1
  BY <1>1, HeadTypes DEF Taking
<1>3. inbox[1].token \in Token
  BY <1>2, StoryTypes
<1>4. main = Free /\ main.doing = "nothing" /\ inbox[1].kind = k
  BY <1>2, MainFacts DEF Taking
<1> QED
  BY <1>2, <1>3, <1>4 DEF Asker, AsksStop, IsAnswer

(* An interrupt is taken: its token stays fresh.                           *)
LEMMA InterruptTaken ==
  ASSUME Core, TypeOK', Story, CoordinatorStep(TakeInterrupt), main' # Free
  PROVE  Story'
<1>a. TypeOK /\ Counted
  BY DEF Core
<1>b. /\ Taking("interrupt") /\ main' = [doing |-> "session", token |-> Asker] /\ life = "up"
      /\ UNCHANGED <<session, hand, published, asked, toWorker, fromWorker, life, place, serial,
                     shell, requests>>
  BY DEF CoordinatorStep, TakeInterrupt, lists, proxy, wires, workerVars, userVars
<1>c. main'.doing = "session" /\ main'.token = inbox[1].token /\ inbox[1].token \in Token
        /\ inbox[1].kind = "interrupt"
  BY <1>a, <1>b, TakingFacts
<1>d. \A t \in Token : /\ Fresh(t)' <=> Fresh(t)
                       /\ Telling(t)' <=> Telling(t)
                       /\ Showed(t)' <=> Showed(t)
                       /\ Answering(t)' => Answering(t)
                       /\ Unanswered(t)' => Unanswered(t)
                       /\ ~ Forwarding(t)'
  <2>1. \A t \in Token : Unanswered(t)' => Unanswered(t)
    BY <1>a, <1>b, TakingFacts DEF Unanswered, Unasked
  <2> QED
    BY <1>b, <1>c, <2>1 DEF Fresh, Telling, Showed, Answering, Forwarding
<1>1. StopsFresh'
  <2>1. \A i \in DOMAIN inbox' : AsksStop(i)' => Fresh(inbox[i].token)'
    <3> SUFFICES ASSUME NEW i \in DOMAIN inbox', AsksStop(i)'
                 PROVE  Fresh(inbox[i].token)'
      OBVIOUS
    <3>1. Fresh(inbox[i + 1].token) /\ inbox'[i].token = inbox[i + 1].token
      BY <1>a, <1>b, TakingFacts DEF Story, StopsFresh
    <3> QED
      BY <1>b, <3>1 DEF Fresh, Showed, Telling
  <2>2. Fresh(main.token)'
    <3>1. Fresh(inbox[1].token)
      BY <1>a, <1>b, TakingFacts DEF Story, StopsFresh, AsksStop
    <3> QED
      BY <1>b, <1>c, <3>1 DEF Fresh, Showed, Telling
  <2>3. main'.token <= requests
    BY <1>a, <1>b, <1>c, TakingFacts DEF Counted
  <2>4. \A i \in DOMAIN inbox' : AsksStop(i)' => main'.token # inbox'[i].token
    <3>1. \A i \in DOMAIN inbox : AsksStop(i) /\ 1 < i => inbox[1].token < inbox[i].token
      BY <1>a, <1>b, TakingFacts DEF Counted, AsksStop
    <3> QED
      BY <1>a, <1>b, <1>c, <3>1, TakingFacts, StoryTypes
  <2> QED
    BY <1>b, <2>1, <2>2, <2>3, <2>4 DEF StopsFresh
<1>2. Bounded' /\ Phases'
  BY <1>b DEF Story, Bounded, Phases, Showed, Telling
<1>3. AskOnce'
  <2>1. /\ \A i \in DOMAIN inbox', s \in Shell : IsAnswer(i)' /\ Unasked(s)' =>
             shell'[s].token # inbox'[i].token
        /\ \A i, j \in DOMAIN inbox' : i # j /\ IsAnswer(i)' /\ IsAnswer(j)' =>
             inbox'[i].token # inbox'[j].token
        /\ \A i \in DOMAIN inbox' : IsAnswer(i)' =>
             <<inbox'[i].token, "agent_interrupted">> \in published'
    BY <1>a, <1>b, TakingFacts DEF Story, AskOnce, Unasked, Showed
  <2> QED
    BY <1>b, <2>1 DEF Story, AskOnce, Showed
<1>4. AnswerWaitedFor'
  BY <1>b, <1>d DEF Story, AnswerWaitedFor
<1>5. AskedOfWaiting'
  BY <1>b, <1>d DEF Story, AskedOfWaiting
<1>6. ToldOfLast' /\ OnItsWay'
  BY <1>b, <1>d DEF Story, ToldOfLast, OnItsWay
<1> QED
  BY <1>1, <1>2, <1>3, <1>4, <1>5, <1>6 DEF Story

(* The session is stored, over that of an earlier interrupt.               *)
LEMMA SessionStored ==
  ASSUME Core, TypeOK', Story, CoordinatorStep(StoreSession)
  PROVE  Story'
<1>a. TypeOK
  BY DEF Core
<1>b. /\ main.doing = "session" /\ main' = [main EXCEPT !.doing = "kick"]
      /\ session' = [token |-> main.token, phase |-> "waiting_interrupt_terminal"]
      /\ UNCHANGED <<inbox, hand, published, asked, toWorker, fromWorker, life, place, serial,
                     shell, requests>>
  BY DEF CoordinatorStep, StoreSession, proxy, wires, workerVars, userVars
<1>c. /\ main.token \in Token /\ main'.doing = "kick" /\ session'.token = main.token
      /\ session'.phase = "waiting_interrupt_terminal" /\ ~ Showed(main.token)
           /\ ~ Telling(main.token)
      /\ main.token <= requests
  BY <1>a, <1>b, StoryTypes, MainFacts DEF Story, StopsFresh, Fresh
<1>d. \A t \in Token : /\ Telling(t)' <=> Telling(t)
                       /\ Showed(t)' <=> Showed(t)
                       /\ Answering(t)' => Answering(t)
                       /\ Unanswered(t)' => Unanswered(t)
                       /\ ~ Forwarding(t)'
  BY <1>b, <1>c DEF Telling, Showed, Answering, Forwarding, Unanswered, IsAnswer, Unasked
<1>1. StopsFresh'
  BY <1>b, <1>c DEF Story, StopsFresh, Fresh, Showed, Telling, AsksStop
<1>2. Bounded'
  BY <1>b, <1>c DEF Story, Bounded, Showed, Telling
<1>3. Phases'
  BY <1>b, <1>c DEF Story, Phases, Showed, Telling
<1>4. AskOnce'
  BY <1>b DEF Story, AskOnce, Showed, Unasked, IsAnswer
<1>5. AnswerWaitedFor'
  BY <1>b, <1>d DEF Story, AnswerWaitedFor
<1>6. AskedOfWaiting'
  BY <1>c DEF AskedOfWaiting
<1>7. ToldOfLast'
  BY <1>b, <1>c DEF ToldOfLast, Telling
<1>8. OnItsWay'
  BY <1>b, <1>d DEF Story, OnItsWay
<1> QED
  BY <1>1, <1>2, <1>3, <1>4, <1>5, <1>6, <1>7, <1>8 DEF Story

(* An answer is taken, with the session that there is: it will be let      *)
(* through only if it is to the interruption the worker waits in.          *)
LEMMA AnswerTaken ==
  ASSUME Core, TypeOK', Story, CoordinatorStep(TakeResume), main' # Free
  PROVE  Story'
<1>a. TypeOK
  BY DEF Core
<1>b. /\ Taking("resume") /\ life = "up"
      /\ main' = [doing |-> "forward", token |-> Asker, action |-> Head(inbox).action,
           found |-> session]
      /\ UNCHANGED <<session, hand, published, asked, toWorker, fromWorker, life, place, serial,
                     shell, requests>>
  BY DEF CoordinatorStep, TakeResume, lists, proxy, wires, workerVars, userVars
<1>c. main'.doing = "forward" /\ main'.token = inbox[1].token /\ inbox[1].token \in Token
        /\ IsAnswer(1)
      /\ 1 \in DOMAIN inbox /\ main'.found = session /\ main.doing = "nothing"
  BY <1>a, <1>b, TakingFacts DEF IsAnswer
<1>d. \A t \in Token : /\ Telling(t)' <=> Telling(t)
                       /\ Showed(t)' <=> Showed(t)
                       /\ Unanswered(t)' => Unanswered(t)
  <2>1. \A t \in Token : Unanswered(t)' => Unanswered(t)
    BY <1>a, <1>b, TakingFacts DEF Unanswered, Unasked
  <2> QED
    BY <1>b, <2>1 DEF Telling, Showed
<1>e. \A t \in Token : t = inbox[1].token => Unanswered(t) /\ ~ Unanswered(t)' /\ Showed(t)
  <2>1. Unanswered(inbox[1].token) /\ Showed(inbox[1].token)
    BY <1>c DEF Unanswered, Story, AskOnce
  <2>2. \A s \in Shell : Unasked(s) => shell[s].token # inbox[1].token
    BY <1>c DEF Story, AskOnce
  <2>3. \A i \in DOMAIN inbox' : IsAnswer(i)' => inbox'[i].token # inbox[1].token
    BY <1>a, <1>b, <1>c, TakingFacts DEF Story, AskOnce
  <2>4. ASSUME NEW t \in Token, t = inbox[1].token PROVE ~ Unanswered(t)'
    BY <1>b, <2>2, <2>3, <2>4 DEF Unanswered, Unasked
  <2> QED
    BY <1>c, <2>1, <2>4
<1>f. \A t \in Token : Forwarding(t)' => /\ t = inbox[1].token /\ session.token = t
                                         /\ session.phase = "waiting_resume_action"
  BY <1>c DEF Forwarding, Ready
<1>1. StopsFresh'
  BY <1>a, <1>b, <1>c, TakingFacts DEF Story, StopsFresh, Fresh, Showed, Telling
<1>2. Bounded' /\ Phases'
  BY <1>b DEF Story, Bounded, Phases, Showed, Telling
<1>3. AskOnce'
  <2>1. /\ \A i \in DOMAIN inbox', s \in Shell : IsAnswer(i)' /\ Unasked(s)' =>
             shell'[s].token # inbox'[i].token
        /\ \A i, j \in DOMAIN inbox' : i # j /\ IsAnswer(i)' /\ IsAnswer(j)' =>
             inbox'[i].token # inbox'[j].token
        /\ \A i \in DOMAIN inbox' : IsAnswer(i)' =>
             <<inbox'[i].token, "agent_interrupted">> \in published'
    BY <1>a, <1>b, TakingFacts DEF Story, AskOnce, Unasked, Showed
  <2> QED
    BY <1>b, <2>1 DEF Story, AskOnce, Showed
<1>4. ASSUME NEW t \in Token, Forwarding(t)'
      PROVE  /\ place = "wait" /\ asked[t] = serial /\ toWorker = << >> /\ ~ Telling(t)
  <2>1. place = "wait" /\ asked[t] = serial /\ \A u \in Token : ~ Answering(u)
    BY <1>b, <1>e, <1>f, <1>4 DEF Story, AskedOfWaiting
  <2>2. toWorker = << >>
    <3>1. toWorker # << >> => 1 \in DOMAIN toWorker /\ toWorker[1].token \in Token
      BY <1>a, StoryTypes
    <3> QED
      BY <2>1, <3>1 DEF Answering
  <2>3. ~ Telling(t)
    BY <1>a, <1>b, <1>f, <1>4, <2>1, StoryTypes DEF Story, ToldOfLast
  <2> QED
    BY <2>1, <2>2, <2>3
<1>5. AnswerWaitedFor'
  BY <1>b, <1>d, <1>4 DEF Story, AnswerWaitedFor, Answering
<1>6. AskedOfWaiting'
  <2> SUFFICES ASSUME NEW t \in Token, session.token = t, session.phase = "waiting_resume_action",
                      Showed(t), Unanswered(t)'
               PROVE  place = "wait" /\ asked[t] = serial /\ \A u \in Token : ~ Answering(u)'
    BY <1>b, <1>d DEF AskedOfWaiting
  <2>1. place = "wait" /\ asked[t] = serial /\ \A u \in Token : ~ Answering(u)
    BY <1>b, <1>d DEF Story, AskedOfWaiting
  <2>2. \A u \in Token : ~ Forwarding(u)'
    BY <1>e, <1>f
  <2> QED
    BY <1>b, <2>1, <2>2 DEF Answering
<1>7. ToldOfLast' /\ OnItsWay'
  BY <1>b, <1>d DEF Story, ToldOfLast, OnItsWay
<1> QED
  BY <1>1, <1>2, <1>3, <1>5, <1>6, <1>7 DEF Story

(* The answer is forwarded, or refused.                                    *)
LEMMA AnswerForwarded ==
  ASSUME Core, TypeOK', Story, CoordinatorStep(Forward)
  PROVE  Story'
<1>a. TypeOK
  BY DEF Core
<1>b. /\ main.doing = "forward" /\ main' = Free /\ main'.doing = "nothing"
      /\ UNCHANGED <<inbox, session, hand, asked, fromWorker, life, place, serial, shell,
                     requests>>
  BY MainFacts DEF CoordinatorStep, Forward, lists, proxy, wires, workerVars, userVars
<1>c. published' = published \/ \E t, k : k # "agent_interrupted" /\ Publish(t, k)
  BY DEF CoordinatorStep, Forward
<1>d. \A t \in Token : Showed(t)' <=> Showed(t)
  BY <1>c, ShownSteps
<1>e. \A t \in Token : /\ Telling(t)' <=> Telling(t)
                       /\ Fresh(t)' <=> Fresh(t)
                       /\ Unanswered(t)' <=> Unanswered(t)
                       /\ ~ Forwarding(t)'
  BY <1>b, <1>d DEF Telling, Fresh, Unanswered, Unasked, IsAnswer, Forwarding
<1>f. life = "up" => /\ \A t \in Token : Answering(t)' => Answering(t)
                     /\ toWorker' # << >> => Len(toWorker') = 1
  <2>1. CASE Ready(main.found, main.token)
    <3>1. main.token \in Token /\ Forwarding(main.token)
      BY <1>a, <1>b, <2>1, StoryTypes DEF Forwarding
    <3>2. life = "up" => toWorker = << >>
      BY <3>1 DEF Story, AnswerWaitedFor
    <3>3. toWorker' = Append(toWorker, [token |-> main.token, action |-> main.action])
      BY <2>1 DEF CoordinatorStep, Forward
    <3>4. life = "up" =>
            Len(toWorker') = 1 /\ \A i \in DOMAIN toWorker' : toWorker'[i].token = main.token
      BY <3>2, <3>3
    <3> QED
      BY <1>e, <3>1, <3>4 DEF Answering
  <2>2. CASE ~ Ready(main.found, main.token)
    <3>1. toWorker' = toWorker
      BY <2>2 DEF CoordinatorStep, Forward
    <3> QED
      BY <1>b, <1>e, <3>1 DEF Story, AnswerWaitedFor, Answering
  <2> QED
    BY <2>1, <2>2
<1>1. StopsFresh'
  BY <1>a, <1>b, <1>d, <1>e, StoryTypes DEF Story, StopsFresh, Fresh, Telling, AsksStop, Showed
<1>2. Bounded'
  BY <1>b, <1>d, <1>e DEF Story, Bounded
<1>3. Phases'
  <2>1. session.phase = "waiting_interrupt_terminal" => session.token \in Token
    BY <1>a, StoryTypes, SessionFacts
  <2> QED
    BY <1>b, <1>d, <1>e, <2>1 DEF Story, Phases, Showed
<1>4. AskOnce'
  <2>1. \A i \in DOMAIN inbox : IsAnswer(i) =>
          <<inbox[i].token, "agent_interrupted">> \in published'
    BY <1>a, <1>d, StoryTypes DEF Story, AskOnce, Showed
  <2>2. \A s \in Shell : shell[s].at = "asking" =>
          <<shell[s].token, "agent_interrupted">> \in published'
    BY <1>a, <1>d, StoryTypes DEF Story, AskOnce, Showed
  <2> QED
    BY <1>b, <2>1, <2>2 DEF Story, AskOnce, Showed, Unasked, IsAnswer
<1>5. AnswerWaitedFor'
  BY <1>b, <1>e, <1>f DEF Story, AnswerWaitedFor
<1>6. AskedOfWaiting'
  BY <1>b, <1>d, <1>e, <1>f DEF Story, AskedOfWaiting
<1>7. ToldOfLast' /\ OnItsWay'
  BY <1>b, <1>e DEF Story, ToldOfLast, OnItsWay
<1> QED
  BY <1>1, <1>2, <1>3, <1>4, <1>5, <1>6, <1>7 DEF Story

(* The proxy takes an event and gives it the session's token: that of the  *)
(* last interruption, if it tells of one.                                  *)
LEMMA EventTaken ==
  ASSUME Core, TypeOK', Story, CoordinatorStep(ProxyTake)
  PROVE  Story'
<1>a. TypeOK /\ TypeOK'
  BY DEF Core
<1>b. /\ hand = Nothing /\ fromWorker # << >> /\ fromWorker' = Tail(fromWorker)
      /\ UNCHANGED <<inbox, main, session, published, asked, toWorker, life, place, serial,
                     shell, requests>>
  BY DEF CoordinatorStep, ProxyTake, lists, workerVars, userVars
<1>c. /\ 1 \in DOMAIN fromWorker /\ Head(fromWorker) = fromWorker[1] /\ fromWorker[1] \in Event
      /\ \A i \in DOMAIN fromWorker' : /\ i + 1 \in DOMAIN fromWorker
                                            /\ fromWorker'[i] = fromWorker[i + 1]
                                        /\ i + 1 # 1 /\ i \in Nat
      /\ \A i, j \in DOMAIN fromWorker' : i # j => i + 1 # j + 1
  <2>1. fromWorker \in Seq(Event)
    BY <1>a, StoryTypes
  <2>2. /\ 1 \in DOMAIN fromWorker /\ Head(fromWorker) = fromWorker[1]
        /\ \A i \in DOMAIN fromWorker' :
             i + 1 \in DOMAIN fromWorker /\ fromWorker'[i] = fromWorker[i + 1]
    BY <1>b, <2>1, HeadTypes
  <2>3. \A i \in DOMAIN fromWorker' : i + 1 # 1 /\ i \in Nat
    BY <1>b, <2>1
  <2> QED
    BY <2>1, <2>2, <2>3
<1>d. /\ hand'.place = "update" /\ hand'.event.kind = fromWorker[1].kind
      /\ hand'.event.serial = fromWorker[1].serial
      /\ hand'.event.kind = "agent_interrupted" => hand'.event.token = session.token
  <2>1. hand' = [place |-> "update",
                 event |-> IF fromWorker[1].token = 0
                           THEN [fromWorker[1] EXCEPT !.token = session.token]
                           ELSE fromWorker[1]]
    BY <1>c DEF CoordinatorStep, ProxyTake
  <2>2. hand'.place = "update"
          /\ hand'.event \in {[fromWorker[1] EXCEPT !.token = session.token], fromWorker[1]}
        /\ (fromWorker[1].token = 0 =>
             hand'.event = [fromWorker[1] EXCEPT !.token = session.token])
    BY <2>1
  <2>3. [fromWorker[1] EXCEPT !.token = session.token]
          = [kind |-> fromWorker[1].kind, token |-> session.token,
            serial |-> fromWorker[1].serial]
    BY <1>a, <1>c, EventFacts, StoryTypes
  <2>4. fromWorker[1].kind = "agent_interrupted" => fromWorker[1].token = 0
    BY <1>c DEF Story, Phases
  <2> QED
    BY <2>2, <2>3, <2>4
<1>e. \A t \in Token : ~ Telling(t)
  BY <1>b, HandFacts DEF Telling
<1>f. \A t \in Token : /\ Telling(t)' =>
                            session.token = t /\ fromWorker[1].kind = "agent_interrupted"
                       /\ Showed(t)' <=> Showed(t)
                       /\ Fresh(t) => Fresh(t)'
                       /\ Answering(t)' <=> Answering(t)
                       /\ Forwarding(t)' <=> Forwarding(t)
                       /\ Unanswered(t)' <=> Unanswered(t)
  BY <1>b, <1>d DEF Telling, Showed, Fresh, Answering, Forwarding, Unanswered, Unasked, IsAnswer
<1>1. StopsFresh'
  BY <1>a, <1>b, <1>f, StoryTypes DEF Story, StopsFresh, Fresh, Showed, Telling, AsksStop
<1>2. Bounded'
  BY <1>b, <1>c, <1>d, <1>f DEF Story, Bounded
<1>3. Phases'
  BY <1>b, <1>c, <1>d, <1>f DEF Story, Phases, Showed
<1>4. AskOnce'
  BY <1>b DEF Story, AskOnce, Showed, Unasked, IsAnswer
<1>5. life = "up" /\ fromWorker[1].kind = "agent_interrupted" =>
        /\ place = "wait" /\ fromWorker[1].serial = serial
        /\ \A u \in Token : asked[u] < serial
        /\ \A j \in DOMAIN fromWorker : 1 # j => fromWorker[j].kind # "agent_interrupted"
  BY <1>c DEF Story, OnItsWay
<1>6. AnswerWaitedFor'
  BY <1>a, <1>b, <1>f, <1>5, StoryTypes DEF Story, AnswerWaitedFor
<1>7. AskedOfWaiting'
  BY <1>b, <1>f DEF Story, AskedOfWaiting
<1>8. ToldOfLast'
  BY <1>b, <1>d, <1>f, <1>5 DEF ToldOfLast
<1>9. OnItsWay'
  <2> SUFFICES ASSUME life = "up", NEW i \in DOMAIN fromWorker',
                        fromWorker'[i].kind = "agent_interrupted"
               PROVE  /\ place = "wait" /\ fromWorker'[i].serial = serial
                      /\ \A u \in Token : asked[u] < serial
                      /\ \A u \in Token : Telling(u)' => hand'.event.serial < serial
                      /\ \A j \in DOMAIN fromWorker' : i # j =>
                           fromWorker'[j].kind # "agent_interrupted"
    BY <1>b DEF OnItsWay
  <2>1. /\ place = "wait" /\ fromWorker[i + 1].serial = serial
        /\ \A u \in Token : asked[u] < serial
        /\ \A j \in DOMAIN fromWorker : i + 1 # j => fromWorker[j].kind # "agent_interrupted"
    BY <1>c DEF Story, OnItsWay
  <2>2. fromWorker[1].kind # "agent_interrupted"
    BY <1>c, <2>1
  <2> QED
    BY <1>c, <1>f, <2>1, <2>2
<1> QED
  BY <1>1, <1>2, <1>3, <1>4, <1>6, <1>7, <1>8, <1>9 DEF Story

(* The session learns of the event.                                        *)
LEMMA SessionUpdated ==
  ASSUME Core, TypeOK', Story, CoordinatorStep(ProxyUpdate)
  PROVE  Story'
<1>a. TypeOK
  BY DEF Core
<1>b. /\ hand.place = "update"
      /\ UNCHANGED <<inbox, main, published, asked, toWorker, fromWorker, life, place, serial,
                     shell, requests>>
  BY DEF CoordinatorStep, ProxyUpdate, wires, workerVars, userVars
<1>c. hand'.place = "publish" /\ hand'.event = hand.event
  <2>1. hand \in HandState /\ hand' = [hand EXCEPT !.place = "publish"]
    BY <1>a, StoryTypes DEF CoordinatorStep, ProxyUpdate
  <2> QED
    BY <1>b, <2>1, HandFacts
<1>d. /\ session'.token \in {0, session.token}
      /\ \/ session' = session
         \/ session'.token = 0 /\ session'.phase = "none"
         \/ session'.phase = "waiting_resume_action" /\ session.phase # "none"
      /\ hand.event.kind = "agent_interrupted" /\ session'.token # 0 =>
            session'.phase = "waiting_resume_action"
  <2>0. hand.event \in Event /\ session \in Session \cup {NoSession}
    BY <1>a, <1>b, StoryTypes
  <2>1. CASE hand.event.kind # "agent_interrupted"
    <3>1. session' = NoSession
      BY <2>1 DEF CoordinatorStep, ProxyUpdate
    <3> QED
      BY <2>1, <3>1, SessionFacts
  <2>2. CASE hand.event.kind = "agent_interrupted" /\ session = NoSession
    <3>1. session' = session
      BY <2>2 DEF CoordinatorStep, ProxyUpdate
    <3> QED
      BY <2>2, <3>1, SessionFacts
  <2>3. CASE hand.event.kind = "agent_interrupted" /\ session # NoSession
    <3>1. session \in Session /\ session' = [session EXCEPT !.phase = "waiting_resume_action"]
      BY <2>0, <2>3 DEF CoordinatorStep, ProxyUpdate
    <3>2. session' = [token |-> session.token, phase |-> "waiting_resume_action"]
            /\ session.phase # "none"
      BY <3>1, SessionFacts
    <3> QED
      BY <3>2
  <2> QED
    BY <2>1, <2>2, <2>3
<1>e. \A t \in Token \cup {0} : Telling(t)' <=> Telling(t)
  BY <1>b, <1>c DEF Telling
<1>f. \A t \in Token : /\ Showed(t)' <=> Showed(t)
                       /\ Fresh(t) => Fresh(t)'
                       /\ Answering(t)' <=> Answering(t)
                       /\ Forwarding(t)' <=> Forwarding(t)
                       /\ Unanswered(t)' <=> Unanswered(t)
                       /\ session'.token = t => session.token = t
                       /\ t # 0
  BY <1>a, <1>b, <1>d, <1>e, StoryTypes DEF Showed, Fresh, Answering, Forwarding, Unanswered,
     Unasked, IsAnswer
<1>1. StopsFresh'
  <2>1. \A i \in DOMAIN inbox : AsksStop(i) => Fresh(inbox[i].token)'
    <3> SUFFICES ASSUME NEW i \in DOMAIN inbox, AsksStop(i)
                 PROVE  Fresh(inbox[i].token)'
      OBVIOUS
    <3>1. PICK t \in Token : t = inbox[i].token
      BY <1>a, StoryTypes
    <3>2. Fresh(t)'
      BY <1>f, <3>1 DEF Story, StopsFresh
    <3> QED
      BY <1>b, <3>1, <3>2 DEF Fresh, Showed, Telling
  <2>2. main.doing = "session" => Fresh(main.token)'
    <3> SUFFICES ASSUME main.doing = "session"
                 PROVE  Fresh(main.token)'
      OBVIOUS
    <3>1. PICK t \in Token : t = main.token
      BY <1>a, StoryTypes
    <3>2. Fresh(t)'
      BY <1>f, <3>1 DEF Story, StopsFresh
    <3> QED
      BY <1>b, <3>1, <3>2 DEF Fresh, Showed, Telling
  <2> QED
    BY <1>b, <2>1, <2>2 DEF Story, StopsFresh, AsksStop
<1>2. Bounded'
  BY <1>a, <1>b, <1>c, <1>d, <1>e, <1>f, StoryTypes DEF Story, Bounded
<1>3. Phases'
  <2>1. session'.phase = "waiting_interrupt_terminal" => session' = session
    BY <1>d
  <2>2. \A t \in Token : Telling(t)' /\ session'.token = t =>
          session'.phase = "waiting_resume_action"
    BY <1>c, <1>d, <1>f DEF Telling
  <2> QED
    BY <1>b, <2>1, <2>2 DEF Story, Phases, Showed
<1>4. AskOnce'
  BY <1>b DEF Story, AskOnce, Showed, Unasked, IsAnswer
<1>5. AnswerWaitedFor'
  BY <1>b, <1>e, <1>f DEF Story, AnswerWaitedFor
<1>6. AskedOfWaiting'
  <2> SUFFICES ASSUME NEW t \in Token, life = "up", session'.token = t,
                      session'.phase = "waiting_resume_action", Showed(t), Unanswered(t)
               PROVE  place = "wait" /\ asked[t] = serial /\ \A u \in Token : ~ Answering(u)
    BY <1>b, <1>f DEF AskedOfWaiting
  <2>1. session.phase = "waiting_resume_action"
    <3>1. session.phase # "waiting_interrupt_terminal" /\ session.phase # "none"
      BY <1>a, <1>d, <1>f, StoryTypes, SessionFacts DEF Story, Phases
    <3> QED
      BY <1>a, <3>1, StoryTypes
  <2> QED
    BY <1>f, <2>1 DEF Story, AskedOfWaiting
<1>7. ToldOfLast'
  BY <1>b, <1>c, <1>e, <1>f DEF Story, ToldOfLast
<1>8. OnItsWay'
  BY <1>b, <1>c, <1>e, <1>f DEF Story, OnItsWay
<1> QED
  BY <1>1, <1>2, <1>3, <1>4, <1>5, <1>6, <1>7, <1>8 DEF Story

(* The event is published: the shell of its token is shown the             *)
(* interruption.                                                           *)
LEMMA EventPublished ==
  ASSUME Core, TypeOK', Story, CoordinatorStep(ProxyPublish)
  PROVE  Story'
<1>a. TypeOK
  BY DEF Core
<1>b. /\ hand.place = "publish" /\ hand' = Nothing /\ hand'.place = "poll"
      /\ UNCHANGED <<inbox, main, session, toWorker, fromWorker, life, place, serial, shell,
                     requests>>
      /\ published' = published \cup {<<hand.event.token, hand.event.kind>>}
  BY HandFacts DEF CoordinatorStep, ProxyPublish, Publish, lists, wires, workerVars, userVars
<1>c. \A t \in Token : /\ Showed(t)' <=> Showed(t) \/ Telling(t)
                       /\ ~ Telling(t)'
                       /\ Telling(t) => asked'[t] = hand.event.serial
                       /\ ~ Telling(t) => asked'[t] = asked[t]
  <2>1. asked' = IF hand.event.kind = "agent_interrupted" /\ hand.event.token # 0
                 THEN [asked EXCEPT ![hand.event.token] = hand.event.serial] ELSE asked
    BY DEF CoordinatorStep, ProxyPublish
  <2>2. asked \in [Token -> Nat] /\ 0 \notin Token
    BY <1>a, StoryTypes
  <2>3. \A t \in Token : /\ Telling(t) => asked'[t] = hand.event.serial
                         /\ ~ Telling(t) => asked'[t] = asked[t]
    BY <1>b, <2>1, <2>2 DEF Telling
  <2> QED
    BY <1>b, <2>3 DEF Showed, Telling
<1>d. \A t \in Token : /\ Fresh(t) => Fresh(t)'
                       /\ Answering(t)' <=> Answering(t)
                       /\ Forwarding(t)' <=> Forwarding(t)
                       /\ Unanswered(t)' <=> Unanswered(t)
  BY <1>b, <1>c DEF Fresh, Answering, Forwarding, Unanswered, Unasked, IsAnswer
<1>1. StopsFresh'
  <2>1. \A i \in DOMAIN inbox : AsksStop(i) => Fresh(inbox[i].token)'
    <3> SUFFICES ASSUME NEW i \in DOMAIN inbox, AsksStop(i)
                 PROVE  Fresh(inbox[i].token)'
      OBVIOUS
    <3>1. PICK t \in Token : t = inbox[i].token
      BY <1>a, StoryTypes
    <3>2. Fresh(t)'
      BY <1>d, <3>1 DEF Story, StopsFresh
    <3> QED
      BY <1>b, <3>1, <3>2 DEF Fresh, Showed, Telling
  <2>2. main.doing = "session" => Fresh(main.token)'
    <3> SUFFICES ASSUME main.doing = "session"
                 PROVE  Fresh(main.token)'
      OBVIOUS
    <3>1. PICK t \in Token : t = main.token
      BY <1>a, StoryTypes
    <3>2. Fresh(t)'
      BY <1>d, <3>1 DEF Story, StopsFresh
    <3> QED
      BY <1>b, <3>1, <3>2 DEF Fresh, Showed, Telling
  <2> QED
    BY <1>b, <2>1, <2>2 DEF Story, StopsFresh, AsksStop
<1>2. Bounded'
  BY <1>b, <1>c DEF Story, Bounded
<1>3. Phases'
  <2>1. session.phase = "waiting_interrupt_terminal" => session.token \in Token
    BY <1>a, StoryTypes, SessionFacts
  <2>2. session.phase = "waiting_interrupt_terminal" => ~ Showed(session.token)'
    <3> SUFFICES ASSUME session.phase = "waiting_interrupt_terminal"
                 PROVE  ~ Showed(session.token)'
      OBVIOUS
    <3>1. ~ Telling(session.token) /\ ~ Showed(session.token)
      BY <1>b, <2>1 DEF Story, Phases
    <3>2. PICK t \in Token : t = session.token
      BY <2>1
    <3>3. ~ Showed(t)'
      BY <1>c, <3>1, <3>2
    <3> QED
      BY <1>b, <3>2, <3>3 DEF Showed
  <2> QED
    BY <1>b, <1>c, <2>2 DEF Story, Phases
<1>4. AskOnce'
  BY <1>b DEF Story, AskOnce, Showed, Unasked, IsAnswer
<1>5. AnswerWaitedFor'
  BY <1>b, <1>c, <1>d DEF Story, AnswerWaitedFor
<1>6. AskedOfWaiting'
  <2> SUFFICES ASSUME NEW t \in Token, life = "up", session.token = t,
                      session.phase = "waiting_resume_action", Showed(t)', Unanswered(t)
               PROVE  place = "wait" /\ asked'[t] = serial /\ \A u \in Token : ~ Answering(u)
    BY <1>b, <1>d DEF AskedOfWaiting
  <2>1. CASE Telling(t)
    <3>1. place = "wait" /\ hand.event.serial = serial /\ \A u \in Token : asked[u] < serial
      BY <2>1 DEF Story, ToldOfLast
    <3>2. \A u \in Token : ~ Answering(u)
      BY <1>a, <3>1, StoryTypes DEF Story, AnswerWaitedFor
    <3> QED
      BY <1>c, <2>1, <3>1, <3>2
  <2>2. CASE ~ Telling(t)
    BY <1>c, <2>2 DEF Story, AskedOfWaiting
  <2> QED
    BY <2>1, <2>2
<1>7. ToldOfLast'
  BY <1>c DEF ToldOfLast
<1>8. OnItsWay'
  <2> SUFFICES ASSUME life = "up", NEW i \in DOMAIN fromWorker,
                        fromWorker[i].kind = "agent_interrupted"
               PROVE  /\ place = "wait" /\ fromWorker[i].serial = serial
                      /\ \A u \in Token : asked'[u] < serial
                      /\ \A j \in DOMAIN fromWorker : i # j =>
                           fromWorker[j].kind # "agent_interrupted"
    BY <1>b, <1>c DEF OnItsWay
  <2> QED
    BY <1>c DEF Story, OnItsWay
<1> QED
  BY <1>1, <1>2, <1>3, <1>4, <1>5, <1>6, <1>7, <1>8 DEF Story

(* The worker is interrupted: everything that was shown or told before is  *)
(* about an earlier interruption.                                          *)
LEMMA InterruptionTold ==
  ASSUME Core, TypeOK', Story, Interrupted, resuming = 0
  PROVE  Story'
<1>a. TypeOK /\ fromWorker \in Seq(Event) /\ serial \in Nat
  BY StoryTypes DEF Core
<1>b. /\ life = "up" /\ place = "check" /\ place' = "wait" /\ serial' = serial + 1 /\ life' = life
      /\ UNCHANGED <<inbox, main, session, hand, published, asked, toWorker, shell, requests>>
      /\ Tell("agent_interrupted", 0, serial')
  BY DEF Interrupted, Inside, processRest, lists, proxy, wires, userVars
<1>c. \A i \in DOMAIN fromWorker' :
        \/ i \in DOMAIN fromWorker /\ fromWorker'[i] = fromWorker[i]
        \/ i \notin DOMAIN fromWorker /\ i = Len(fromWorker) + 1
           /\ fromWorker'[i] = [kind |-> "agent_interrupted", token |-> 0, serial |-> serial + 1]
  BY <1>a, <1>b DEF Tell
<1>d. \A t \in Token : /\ Telling(t)' <=> Telling(t)
                       /\ Showed(t)' <=> Showed(t)
                       /\ Forwarding(t)' <=> Forwarding(t)
                       /\ Answering(t)' <=> Answering(t)
                       /\ Unanswered(t)' <=> Unanswered(t)
                       /\ ~ Answering(t)
  BY <1>b DEF Telling, Showed, Answering, Forwarding, Unanswered, Unasked, IsAnswer, Story,
     AnswerWaitedFor
<1>1. StopsFresh' /\ AskOnce'
  BY <1>b DEF Story, StopsFresh, Fresh, AskOnce, Showed, Telling, AsksStop, IsAnswer, Unasked
<1>2. Bounded'
  <2>1. \A i \in DOMAIN fromWorker' : fromWorker'[i].serial <= serial + 1
    <3>1. \A i \in DOMAIN fromWorker :
            fromWorker[i].serial \in Nat /\ fromWorker[i].serial <= serial
      BY <1>a, StoryTypes DEF Story, Bounded
    <3> QED
      BY <1>a, <1>c, <3>1
  <2>2. \A t \in Token : asked[t] <= serial + 1
    BY <1>a, StoryTypes DEF Story, Bounded
  <2>3. hand.place \in {"update", "publish"} => hand.event.serial <= serial + 1
    BY <1>a, StoryTypes DEF Story, Bounded
  <2> QED
    BY <1>b, <1>d, <2>1, <2>2, <2>3 DEF Story, Bounded
<1>3. Phases'
  BY <1>b, <1>c DEF Story, Phases, Showed, Telling
<1>4. AnswerWaitedFor' /\ AskedOfWaiting' /\ ToldOfLast'
  BY <1>b, <1>d DEF Story, AnswerWaitedFor, AskedOfWaiting, ToldOfLast
<1>5. OnItsWay'
  <2>1. \A i \in DOMAIN fromWorker : fromWorker[i].kind # "agent_interrupted"
    BY <1>b DEF Story, OnItsWay
  <2>2. \A u \in Token : asked[u] < serial + 1
    BY <1>a, StoryTypes DEF Story, Bounded
  <2>3. \A u \in Token : Telling(u) => hand.event.serial < serial + 1
    BY <1>a, StoryTypes DEF Story, Bounded, Telling
  <2>4. \A i \in DOMAIN fromWorker' : fromWorker'[i].kind = "agent_interrupted" =>
          i = Len(fromWorker) + 1 /\ fromWorker'[i].serial = serial + 1
    BY <1>c, <2>1
  <2> QED
    BY <1>b, <1>d, <2>2, <2>3, <2>4 DEF OnItsWay
<1> QED
  BY <1>1, <1>2, <1>3, <1>4, <1>5 DEF Story

(* The answer the worker takes is the only one, to the interruption it     *)
(* waits in.                                                               *)
LEMMA AnswerIsForThis ==
  ASSUME TypeOK, Story, TakeAnswer
  PROVE  /\ Len(toWorker) = 1 /\ Head(toWorker) = toWorker[1] /\ toWorker[1].token \in Token
         /\ Answering(toWorker[1].token) /\ asked[toWorker[1].token] = serial
         /\ toWorker' = << >> /\ \A t \in Token : ~ Forwarding(t)
<1>1. life = "up" /\ toWorker # << >> /\ toWorker' = Tail(toWorker) /\ toWorker \in Seq(Reply)
  BY StoryTypes DEF TakeAnswer
<1>2. Len(toWorker) = 1 /\ \A t \in Token : ~ Forwarding(t)
  BY <1>1 DEF Story, AnswerWaitedFor
<1>3. Head(toWorker) = toWorker[1] /\ 1 \in DOMAIN toWorker /\ toWorker' = << >>
  BY <1>1, <1>2
<1>4. toWorker[1].token \in Token
  BY <1>3, StoryTypes
<1>5. Answering(toWorker[1].token)
  BY <1>3 DEF Answering
<1> QED
  BY <1>1, <1>2, <1>3, <1>4, <1>5 DEF Story, AnswerWaitedFor

(* The answer is acted on.                                                 *)
LEMMA AnswerActedOn ==
  ASSUME Core, TypeOK', Story, TakeAnswer
  PROVE  Story'
<1>a. TypeOK /\ serial \in Nat /\ serial <= serial
  BY StoryTypes DEF Core
<1>b. /\ life = "up" /\ place = "wait" /\ life' = life
      /\ UNCHANGED <<inbox, main, session, hand, published, asked, serial, shell, requests>>
      /\ toWorker' = << >>
  BY <1>a, AnswerIsForThis DEF TakeAnswer, processRest, lists, proxy, userVars
<1>c. \A i \in DOMAIN fromWorker' :
        \/ i \in DOMAIN fromWorker /\ fromWorker'[i] = fromWorker[i]
        \/ fromWorker'[i].kind # "agent_interrupted" /\ fromWorker'[i].serial <= serial
  <2>1. PICK k \in {"interrupt_resumed", "interrupt_aborted"} :
               Tell(k, Head(toWorker).token, serial)
    BY DEF TakeAnswer
  <2> QED
    BY <1>a, <2>1, TellPlain DEF Outcome
<1>d. PICK a \in Token : Answering(a) /\ asked[a] = serial /\ ~ (asked[a] < serial)
  BY <1>a, AnswerIsForThis
<1>e. \A t \in Token : /\ Telling(t)' <=> Telling(t)
                       /\ Showed(t)' <=> Showed(t)
                       /\ Unanswered(t)' <=> Unanswered(t)
                       /\ ~ Forwarding(t)'
                       /\ ~ Answering(t)'
  BY <1>a, <1>b, AnswerIsForThis DEF Telling, Showed, Answering, Forwarding, Unanswered, Unasked,
     IsAnswer
<1>1. StopsFresh' /\ AskOnce'
  BY <1>b DEF Story, StopsFresh, Fresh, AskOnce, Showed, Telling, AsksStop, IsAnswer, Unasked
<1>2. Bounded' /\ Phases'
  BY <1>b, <1>c DEF Story, Bounded, Phases, Showed, Telling
<1>3. AnswerWaitedFor'
  BY <1>b, <1>e DEF AnswerWaitedFor
<1>4. AskedOfWaiting'
  BY <1>b, <1>d, <1>e DEF Story, AskedOfWaiting
<1>5. ToldOfLast'
  BY <1>b, <1>d, <1>e DEF Story, ToldOfLast
<1>6. OnItsWay'
  <2>1. \A i \in DOMAIN fromWorker : fromWorker[i].kind # "agent_interrupted"
    BY <1>b, <1>d DEF Story, OnItsWay
  <2> QED
    BY <1>c, <2>1 DEF OnItsWay
<1> QED
  BY <1>1, <1>2, <1>3, <1>4, <1>5, <1>6 DEF Story

(* A shell's step is no one else's.                                        *)
AtHomeFrame ==
  UNCHANGED <<main, session, hand, published, asked, toWorker, fromWorker, life, place, serial>>

(* It follows from the frame of the actions.                               *)
LEMMA HomeFrame == atHome' = atHome => AtHomeFrame
BY DEF atHome, AtHomeFrame, lists, proxy, wires, workerVars

(* A request is the last one: its token is new. *)
LEMMA RequestSent ==
  ASSUME Core, TypeOK', Story, NEW s \in Shell, NEW k \in {"interrupt", "load", "unload",
           "reload"},
         NEW at \in {"stopping", "replying"}, Send(s, k, at), AtHomeFrame
  PROVE  Story'
<1>a. TypeOK /\ Counted /\ requests \in Nat /\ inbox \in Seq(Request)
        /\ shell \in [Shell -> ShellState]
  BY StoryTypes DEF Core
<1>b. /\ UNCHANGED <<main, session, hand, published, asked, toWorker, fromWorker, life, place,
                     serial>>
      /\ shell[s].at = "prompt" /\ requests' = requests + 1
      /\ inbox' = Append(inbox, [kind |-> k, token |-> requests + 1])
      /\ shell' = [shell EXCEPT ![s] = [at |-> at, token |-> requests + 1]]
  BY DEF Send, AtHomeFrame
<1>c. \A i \in DOMAIN inbox' :
        \/ i \in DOMAIN inbox /\ inbox'[i] = inbox[i]
        \/ i = Len(inbox) + 1 /\ inbox'[i] = [kind |-> k, token |-> requests + 1]
  BY <1>a, <1>b
<1>d. /\ \A i \in DOMAIN inbox' : IsAnswer(i)' =>
           i \in DOMAIN inbox /\ IsAnswer(i) /\ inbox'[i] = inbox[i]
      /\ \A i \in DOMAIN inbox' : AsksStop(i)' =>
           \/ i \in DOMAIN inbox /\ AsksStop(i) /\ inbox'[i].token = inbox[i].token
           \/ inbox'[i].token = requests + 1
  BY <1>c DEF IsAnswer, AsksStop
<1>e. /\ shell'[s].at = at /\ shell'[s].token = requests + 1
      /\ \A u \in Shell : u # s => shell'[u] = shell[u]
  BY <1>a, <1>b
<1>f. /\ \A i \in DOMAIN inbox : inbox[i].token \in Token /\ inbox[i].token # requests + 1
      /\ \A u \in Shell : shell[u].at # "prompt" =>
           shell[u].token \in Token /\ shell[u].token # requests + 1
      /\ session.token # requests + 1
      /\ main.doing = "session" => main.token # requests + 1 /\ main.token <= requests + 1
      /\ \A t \in Token : Showed(t) \/ Telling(t) => t # requests + 1 /\ t <= requests + 1
      /\ session.token <= requests + 1
  <2>1. \A n \in Nat : n <= requests => n # requests + 1 /\ n <= requests + 1
    BY <1>a
  <2>2. /\ Token \subseteq Nat /\ session.token \in Nat
        /\ main.doing = "session" => main.token \in Nat
        /\ \A i \in DOMAIN inbox : inbox[i].token \in Token
        /\ \A u \in Shell : shell[u].at # "prompt" => shell[u].token \in Token
    BY <1>a, StoryTypes
  <2>3. \A i \in DOMAIN inbox : inbox[i].token # requests + 1
    BY <1>a, <2>1, <2>2 DEF Counted
  <2>4. \A u \in Shell : shell[u].at # "prompt" => shell[u].token # requests + 1
    BY <1>a, <2>1, <2>2 DEF Counted
  <2>5. main.doing = "session" => main.token # requests + 1 /\ main.token <= requests + 1
    BY <2>1, <2>2 DEF Story, StopsFresh
  <2> QED
    BY <2>1, <2>2, <2>3, <2>4, <2>5 DEF Story, Bounded
<1>g. \A t \in Token : /\ Telling(t)' <=> Telling(t)
                       /\ Showed(t)' <=> Showed(t)
                       /\ Fresh(t)' <=> Fresh(t)
                       /\ Forwarding(t)' <=> Forwarding(t)
                       /\ Answering(t)' <=> Answering(t)
  BY <1>b DEF Telling, Showed, Fresh, Answering, Forwarding
<1>h. \A t \in Token : Unanswered(t)' => Unanswered(t) \/ t = requests + 1
  <2> SUFFICES ASSUME NEW t \in Token, Unanswered(t)', t # requests + 1
               PROVE  Unanswered(t)
    OBVIOUS
  <2>1. ASSUME NEW u \in Shell, Unasked(u)', shell'[u].token = t
        PROVE  Unanswered(t)
    BY <1>e, <2>1 DEF Unanswered, Unasked
  <2>2. ASSUME NEW i \in DOMAIN inbox', IsAnswer(i)', inbox'[i].token = t
        PROVE  Unanswered(t)
    BY <1>d, <2>2 DEF Unanswered
  <2> QED
    BY <2>1, <2>2 DEF Unanswered
<1>1. StopsFresh'
  <2>0. requests + 1 \in Token
    <3>1. Len(inbox) + 1 \in DOMAIN inbox' /\ inbox'[Len(inbox) + 1].token = requests + 1
      BY <1>a, <1>b
    <3>2. (\A i \in DOMAIN inbox : inbox[i].token \in Token)'
      <4>1. inbox' \in Seq(Request)
        BY DEF TypeOK, CoordinatorTypeOK
      <4> QED
        BY <4>1, RequestFacts
    <3> QED
      BY <3>1, <3>2
  <2>1. ASSUME NEW i \in DOMAIN inbox', AsksStop(i)' PROVE Fresh(inbox'[i].token)
    <3>1. CASE i \in DOMAIN inbox /\ AsksStop(i) /\ inbox'[i].token = inbox[i].token
      BY <3>1 DEF Story, StopsFresh
    <3>2. CASE inbox'[i].token = requests + 1
      BY <1>f, <2>0, <3>2 DEF Fresh
    <3> QED
      BY <1>d, <2>1, <3>1, <3>2
  <2>2. main.doing = "session" => Fresh(main.token)
    BY DEF Story, StopsFresh
  <2>3. ASSUME main.doing = "session", NEW i \in DOMAIN inbox', AsksStop(i)'
        PROVE  main.token # inbox'[i].token
    BY <1>d, <1>f, <2>3 DEF Story, StopsFresh
  <2>4. main.doing = "session" => main.token <= requests'
    BY <1>b, <1>f
  <2>5. \A i \in DOMAIN inbox' : AsksStop(i)' => Fresh(inbox[i].token)'
    BY <1>b, <2>1 DEF Fresh, Showed, Telling
  <2>6. main'.doing = "session" => Fresh(main.token)'
    BY <1>b, <2>2 DEF Fresh, Showed, Telling
  <2> QED
    BY <1>b, <2>3, <2>4, <2>5, <2>6 DEF StopsFresh
<1>2. Bounded'
  BY <1>b, <1>f, <1>g DEF Story, Bounded
<1>3. Phases'
  BY <1>b DEF Story, Phases, Showed, Telling
<1>4. AskOnce'
  <2>1. \A u, v \in Shell :
          u # v /\ shell'[u].at # "prompt" /\ shell'[v].at # "prompt" =>
            shell'[u].token # shell'[v].token
    BY <1>e, <1>f DEF Story, AskOnce
  <2>2. \A i \in DOMAIN inbox', u \in Shell : IsAnswer(i)' /\ Unasked(u)' =>
          shell'[u].token # inbox'[i].token
    BY <1>d, <1>e, <1>f DEF Story, AskOnce, Unasked
  <2>3. \A i, j \in DOMAIN inbox' : i # j /\ IsAnswer(i)' /\ IsAnswer(j)' =>
          inbox'[i].token # inbox'[j].token
    BY <1>d DEF Story, AskOnce
  <2>4. \A i \in DOMAIN inbox' : IsAnswer(i)' => Showed(inbox[i].token)'
    BY <1>b, <1>d DEF Story, AskOnce, Showed
  <2>5. \A u \in Shell : shell'[u].at = "asking" => Showed(shell[u].token)'
    BY <1>b, <1>e DEF Story, AskOnce, Showed
  <2> QED
    BY <2>1, <2>2, <2>3, <2>4, <2>5 DEF AskOnce
<1>5. AnswerWaitedFor'
  BY <1>b, <1>g DEF Story, AnswerWaitedFor
<1>6. AskedOfWaiting'
  BY <1>b, <1>f, <1>g, <1>h DEF Story, AskedOfWaiting
<1>7. ToldOfLast' /\ OnItsWay'
  BY <1>b, <1>g DEF Story, ToldOfLast, OnItsWay
<1> QED
  BY <1>1, <1>2, <1>3, <1>4, <1>5, <1>6, <1>7 DEF Story

(* A shell that stops waiting, or goes on to ask, asks for no more.        *)
LEMMA ShellListens ==
  ASSUME Core, TypeOK', Story, NEW s \in Shell, SeesContext(s) \/ SeesEnd(s) \/ GivesUp(s)
  PROVE  Story'
<1>a. TypeOK /\ shell \in [Shell -> ShellState] /\ shell[s] \in ShellState
  BY StoryTypes DEF Core
<1>b. /\ UNCHANGED <<inbox, requests>>
      /\ UNCHANGED <<main, session, hand, published, asked, toWorker, fromWorker, life, place,
                     serial>>
  BY HomeFrame DEF SeesContext, SeesEnd, GivesUp, AtHomeFrame
<1>c. /\ \A u \in Shell : u # s => shell'[u] = shell[u]
      /\ \/ shell'[s].at = "prompt"
         \/ /\ shell[s].at = "stopping" /\ shell'[s].at = "asking"
                 /\ shell'[s].token = shell[s].token
            /\ Showed(shell[s].token)
  <2>1. CASE SeesContext(s)
    <3>1. /\ shell[s].at = "stopping" /\ Showed(shell[s].token)
          /\ shell' = [shell EXCEPT ![s] = [shell[s] EXCEPT !.at = "asking"]]
      BY <2>1 DEF SeesContext, Heard, Showed
    <3>2. shell'[s] = [at |-> "asking", token |-> shell[s].token]
      BY <1>a, <3>1, ShellFacts
    <3> QED
      BY <1>a, <3>1, <3>2
  <2>2. CASE shell' = [shell EXCEPT ![s] = [at |-> "prompt"]]
    BY <1>a, <2>2
  <2> QED
    BY <2>1, <2>2 DEF SeesEnd, GivesUp
<1>d. /\ \A u \in Shell : shell'[u].at # "prompt" =>
           shell[u].at # "prompt" /\ shell'[u].token = shell[u].token
      /\ \A u \in Shell : Unasked(u)' => Unasked(u) /\ shell'[u].token = shell[u].token
  BY <1>c DEF Unasked
<1>e. \A t \in Token : /\ Telling(t)' <=> Telling(t)
                       /\ Showed(t)' <=> Showed(t)
                       /\ Forwarding(t)' <=> Forwarding(t)
                       /\ Answering(t)' <=> Answering(t)
                       /\ Unanswered(t)' => Unanswered(t)
  <2>1. \A t \in Token : Unanswered(t)' => Unanswered(t)
    BY <1>b, <1>d DEF Unanswered, IsAnswer
  <2> QED
    BY <1>b, <2>1 DEF Telling, Showed, Answering, Forwarding
<1>1. StopsFresh' /\ Bounded' /\ Phases'
  BY <1>b DEF Story, StopsFresh, Fresh, Bounded, Phases, Showed, Telling, AsksStop
<1>2. AskOnce'
  <2>1. \A u, v \in Shell :
          u # v /\ shell'[u].at # "prompt" /\ shell'[v].at # "prompt" =>
            shell'[u].token # shell'[v].token
    BY <1>d DEF Story, AskOnce
  <2>2. \A u \in Shell : shell'[u].at = "asking" => Showed(shell[u].token)'
    BY <1>b, <1>c DEF Story, AskOnce, Showed
  <2> QED
    BY <1>b, <1>d, <2>1, <2>2 DEF Story, AskOnce, IsAnswer, Showed
<1>3. AnswerWaitedFor' /\ AskedOfWaiting' /\ ToldOfLast' /\ OnItsWay'
  BY <1>b, <1>e DEF Story, AnswerWaitedFor, AskedOfWaiting, ToldOfLast, OnItsWay
<1> QED
  BY <1>1, <1>2, <1>3 DEF Story

(* The answer leaves the shell.                                            *)
LEMMA ShellAnswers ==
  ASSUME Core, TypeOK', Story, NEW s \in Shell, Answer(s)
  PROVE  Story'
<1>a. TypeOK /\ shell \in [Shell -> ShellState] /\ shell[s] \in ShellState
        /\ inbox \in Seq(Request)
  BY StoryTypes DEF Core
<1>b. /\ requests' = requests /\ shell[s].at = "asking"
      /\ UNCHANGED <<main, session, hand, published, asked, toWorker, fromWorker, life, place,
                     serial>>
  BY HomeFrame DEF Answer, AtHomeFrame
<1>c. /\ \A u \in Shell : u # s => shell'[u] = shell[u]
      /\ shell'[s].at = "resuming" /\ shell'[s].token = shell[s].token
  <2>1. shell' = [shell EXCEPT ![s] = [shell[s] EXCEPT !.at = "resuming"]]
    BY DEF Answer
  <2>2. shell'[s] = [at |-> "resuming", token |-> shell[s].token]
    BY <1>a, <1>b, <2>1, ShellFacts
  <2> QED
    BY <1>a, <2>1, <2>2
<1>d. \A i \in DOMAIN inbox' :
        \/ i \in DOMAIN inbox /\ inbox'[i] = inbox[i]
        \/ i = Len(inbox) + 1 /\ inbox'[i].kind = "resume" /\ inbox'[i].token = shell[s].token
  <2>1. PICK action \in Action :
          inbox' = Append(inbox, [kind |-> "resume", token |-> shell[s].token, action |-> action])
    BY DEF Answer
  <2> QED
    BY <1>a, <2>1
<1>e. /\ \A i \in DOMAIN inbox' : AsksStop(i)' =>
           i \in DOMAIN inbox /\ AsksStop(i) /\ inbox'[i] = inbox[i]
      /\ \A i \in DOMAIN inbox' : IsAnswer(i)' =>
           \/ i \in DOMAIN inbox /\ IsAnswer(i) /\ inbox'[i].token = inbox[i].token
           \/ i = Len(inbox) + 1 /\ inbox'[i].token = shell[s].token
  BY <1>d DEF AsksStop, IsAnswer
<1>f. \A u \in Shell : Unasked(u)' => Unasked(u) /\ u # s /\ shell'[u].token = shell[u].token
  BY <1>c DEF Unasked
<1>g. Unasked(s) /\ Showed(shell[s].token)
  BY <1>b DEF Unasked, Story, AskOnce
<1>h. \A t \in Token : /\ Telling(t)' <=> Telling(t)
                       /\ Showed(t)' <=> Showed(t)
                       /\ Forwarding(t)' <=> Forwarding(t)
                       /\ Answering(t)' <=> Answering(t)
                       /\ Unanswered(t)' => Unanswered(t)
  <2>1. \A t \in Token : Unanswered(t)' => Unanswered(t)
    BY <1>e, <1>f, <1>g DEF Unanswered
  <2> QED
    BY <1>b, <2>1 DEF Telling, Showed, Answering, Forwarding
<1>1. StopsFresh' /\ Bounded' /\ Phases'
  BY <1>b, <1>e DEF Story, StopsFresh, Fresh, Bounded, Phases, Showed, Telling
<1>2. AskOnce'
  <2>1. \A u, v \in Shell :
          u # v /\ shell'[u].at # "prompt" /\ shell'[v].at # "prompt" =>
            shell'[u].token # shell'[v].token
    BY <1>b, <1>c DEF Story, AskOnce
  <2>2. \A u \in Shell : shell'[u].at = "asking" => Showed(shell[u].token)'
    BY <1>b, <1>c DEF Story, AskOnce, Showed
  <2>3. \A i \in DOMAIN inbox', u \in Shell : IsAnswer(i)' /\ Unasked(u)' =>
          shell'[u].token # inbox'[i].token
    <3>1. \A u \in Shell : Unasked(u) => shell[u].at # "prompt"
      BY DEF Unasked
    <3> QED
      BY <1>e, <1>f, <1>g, <3>1 DEF Story, AskOnce
  <2>4. \A i, j \in DOMAIN inbox' : i # j /\ IsAnswer(i)' /\ IsAnswer(j)' =>
          inbox'[i].token # inbox'[j].token
    BY <1>e, <1>g DEF Story, AskOnce
  <2>5. \A i \in DOMAIN inbox' : IsAnswer(i)' => Showed(inbox[i].token)'
    BY <1>b, <1>e, <1>g DEF Story, AskOnce, Showed
  <2> QED
    BY <2>1, <2>2, <2>3, <2>4, <2>5 DEF AskOnce
<1>3. AnswerWaitedFor' /\ AskedOfWaiting' /\ ToldOfLast' /\ OnItsWay'
  BY <1>b, <1>h DEF Story, AnswerWaitedFor, AskedOfWaiting, ToldOfLast, OnItsWay
<1> QED
  BY <1>1, <1>2, <1>3 DEF Story

(* Every step keeps the story.                                             *)
LEMMA StoryHolds ==
  ASSUME Core, TypeOK', Story, Next
  PROVE  Story'
<1>1. CASE CoordinatorStep(MainLoop)
  <2>1. CASE CoordinatorStep(StoreSession)
    BY <2>1, SessionStored
  <2>2. CASE CoordinatorStep(Forward)
    BY <2>2, AnswerForwarded
  <2>3. CASE CoordinatorStep(TakeInterrupt) /\ main' # Free
    BY <2>3, InterruptTaken
  <2>4. CASE CoordinatorStep(TakeResume) /\ main' # Free
    BY <2>4, AnswerTaken
  <2>5. CASE ~ StoreSession /\ ~ Forward /\ (TakeInterrupt \/ TakeResume => main' = Free)
    BY <1>1, <2>5, MainPlain, PlainKeeps
  <2> QED
    BY <1>1, <2>1, <2>2, <2>3, <2>4, <2>5 DEF CoordinatorStep
<1>2. CASE CoordinatorStep(Proxy)
  <2>1. CASE CoordinatorStep(ProxyClear) \/ CoordinatorStep(ProxyRebuild)
    BY <2>1, OtherPlain, PlainKeeps
  <2>2. CASE CoordinatorStep(ProxyTake)
    BY <2>2, EventTaken
  <2>3. CASE CoordinatorStep(ProxyUpdate)
    BY <2>3, SessionUpdated
  <2>4. CASE CoordinatorStep(ProxyPublish)
    BY <2>4, EventPublished
  <2> QED
    BY <1>2, <2>1, <2>2, <2>3, <2>4 DEF CoordinatorStep, Proxy
<1>3. CASE CoordinatorStep(HealthCheck) \/ CoordinatorStep(Link)
  BY <1>3, OtherPlain, PlainKeeps
<1>4. CASE WorkerStep \/ RunBegins \/ AgentEnds \/ Handler \/ WorkerStillborn \/ WorkerDies
  <2>1. CASE TakeAnswer
    BY <2>1, AnswerActedOn
  <2>2. CASE Interrupted /\ resuming = 0
    BY <2>2, InterruptionTold
  <2>3. CASE ~ TakeAnswer /\ ~ (Interrupted /\ resuming = 0)
    BY <1>4, <2>3, WorkerPlain, PlainKeeps
  <2> QED
    BY <2>1, <2>2, <2>3
<1>5. ASSUME NEW s \in Shell, ShellStep(s)
      PROVE  Story'
  <2>1. CASE SendInterrupt(s) \/ SendLifecycle(s)
    <3>1. PICK k \in {"interrupt", "load", "unload", "reload"}, at \in {"stopping",
                 "replying"} : Send(s, k, at)
      BY <2>1, InterruptAssumption DEF SendInterrupt, SendLifecycle
    <3>2. AtHomeFrame
      BY <2>1, HomeFrame DEF SendInterrupt, SendLifecycle
    <3> QED
      BY <3>1, <3>2, RequestSent
  <2> QED
    BY <1>5, <2>1, ShellListens, ShellAnswers DEF ShellStep
<1> QED
  BY <1>1, <1>2, <1>3, <1>4, <1>5 DEF Next

(* There is none at first.                                                 *)
LEMMA InitStory ==
  ASSUME Init
  PROVE  Story
<1>1. Core
  BY InitCore
<1>2. /\ inbox = << >> /\ main = Free /\ main.doing = "nothing" /\ session.token = 0
           /\ session.phase = "none"
      /\ hand.place = "poll" /\ published = {} /\ toWorker = << >> /\ fromWorker = << >>
      /\ serial = 0 /\ requests = 0 /\ asked = [t \in Token |-> 0]
      /\ \A s \in Shell : shell[s].at = "prompt"
  BY MainFacts, HandFacts, SessionFacts DEF Init, CoordinatorInit
<1>3. 0 \notin Token /\ ~ \E i \in DOMAIN << >> : TRUE
  BY <1>1, StoryTypes DEF Core
<1>4. StopsFresh /\ Bounded /\ Phases /\ AskOnce
  BY <1>2, <1>3 DEF StopsFresh, Bounded, Phases, AskOnce, Showed, Telling
<1>5. AnswerWaitedFor /\ AskedOfWaiting /\ ToldOfLast /\ OnItsWay
  BY <1>2, <1>3 DEF AnswerWaitedFor, AskedOfWaiting, ToldOfLast, OnItsWay, Answering, Forwarding
<1> QED
  BY <1>4, <1>5 DEF Story

(* A step that changes nothing keeps it.                                   *)
LEMMA StoryStutters ==
  ASSUME Story, UNCHANGED vars
  PROVE  Story'
<1>1. UNCHANGED <<inbox, main, session, hand, published, asked, toWorker, fromWorker, life,
                  place, serial,
                  shell, requests>>
  BY DEF vars, coordinatorVars, lists, proxy, wires, workerVars, userVars
<1>2. StopsFresh' /\ Bounded' /\ Phases' /\ AskOnce'
  BY <1>1 DEF Story, StopsFresh, Fresh, Bounded, Phases, AskOnce, Showed, Telling, AsksStop,
     IsAnswer, Unasked
<1>3. AnswerWaitedFor' /\ AskedOfWaiting' /\ ToldOfLast' /\ OnItsWay'
  BY <1>1 DEF Story, AnswerWaitedFor, AskedOfWaiting, ToldOfLast, OnItsWay, Answering,
     Forwarding, Unanswered,
     Showed, Telling, IsAnswer, Unasked
<1> QED
  BY <1>2, <1>3 DEF Story

(* The inductive invariant of the interrupts and their answers.            *)
THEOREM StoryAlways == Spec => [](Core /\ Story)
<1>1. Init => Story
  BY InitStory
<1>2. Core /\ TypeOK' /\ Story /\ [Next]_vars => Story'
  BY StoryHolds, StoryStutters
<1>3. Core => TypeOK
  BY DEF Core
<1> QED
  BY <1>1, <1>2, <1>3, CoreHolds, PTL DEF Spec

(* The worker acts only on the answer of a shell that was shown the        *)
(* interruption it waits in (coordinator.py:338-364, serve.py:364-424):    *)
(* late answers, reloads and further interrupts included.                  *)
THEOREM AnswersItsInterrupt == Spec => ActsOnItsInterrupt
<1>1. ASSUME Core, Story, [Next]_vars, place = "wait", place' # "wait", toWorker' # toWorker,
               life' = "up"
      PROVE  asked[Head(toWorker).token] = serial
  <2>1. CASE TakeAnswer
    BY <1>1, <2>1, AnswerIsForThis DEF Core
  <2>2. CASE ~ TakeAnswer
    <3>1. ~ UNCHANGED vars
      BY <1>1 DEF vars, coordinatorVars, wires
    <3>2. CASE CoordinatorStep(MainLoop) \/ CoordinatorStep(Proxy) \/ CoordinatorStep(HealthCheck)
                 \/ CoordinatorStep(Link) \/ WorkerStillborn \/ \E s \in Shell : ShellStep(s)
      <4>1. place' = place
        BY <3>2 DEF CoordinatorStep, WorkerStillborn, ShellStep, SendInterrupt, SendLifecycle,
           SeesContext, SeesEnd, GivesUp, Answer, atHome, workerVars
      <4> QED
        BY <1>1, <4>1
    <3>3. CASE WorkerStep \/ RunBegins \/ AgentEnds \/ Handler \/ WorkerDies
      <4>1. toWorker' = toWorker
        BY <2>2, <3>3 DEF WorkerStep, RunBegins, AgentEnds, Handler, WorkerDies, WorkerReady,
           RunEnds, SpawnAgent,
           ClearFlag, Register, OutputEnds, Release, Interrupted, AgentDone, WorkerExits,
           WorkerKilled, Inside, wires
      <4> QED
        BY <1>1, <4>1
    <3> QED
      BY <1>1, <3>1, <3>2, <3>3 DEF Next
  <2> QED
    BY <2>1, <2>2
<1>2. Core /\ Story /\ [Next]_vars =>
        [place = "wait" /\ place' # "wait" /\ toWorker' # toWorker /\ life' = "up" =>
           asked[Head(toWorker).token] = serial]_vars
  BY <1>1
<1> QED
  BY <1>2, StoryAlways, PTL DEF Spec, ActsOnItsInterrupt

-----------------------------------------------------------------------------
(* While an interrupt is the last request but answers, the worker stays    *)
(* loaded, up and connected.                                               *)
Calm ==
  /\ loaded /\ life = "up" /\ linked /\ ~ rebuild /\ hand.place # "rebuild"
  /\ main.doing \in {"nothing", "session", "kick", "forward"}
  /\ \A i \in DOMAIN inbox : IsAnswer(i) \/ AsksStop(i)

(* No answer has gone through since: there is no run that one has resumed, *)
(* and the session is that of the interrupt or none.                       *)
NoAnswerYet ==
  /\ resuming = 0 /\ toWorker = << >> /\ session.token \in {0, requests}
  /\ main.doing = "forward" => ~ Ready(main.found, main.token)

(* No event is on its way; the session is that of the interrupt; an event  *)
(* is an outcome of it.                                                    *)
Idle == fromWorker = << >> /\ hand.place = "poll"

Mine == session.token = requests /\ session.phase = "waiting_interrupt_terminal"

MyOutcome(e, t) == e.kind \in {"agent_interrupted", "interrupt_failed"} /\ e.token = t

(* The interrupt is in one place at a time: in the socket, taken, before   *)
(* its signal, pending in the worker, stopping the agent, its outcome on   *)
(* the way, in the proxy's hand.                                           *)
InQueue ==
  /\ inbox # << >> /\ inbox[1].kind = "interrupt" /\ inbox[1].token = requests
  /\ \A i \in DOMAIN inbox : i # 1 => IsAnswer(i)
  /\ main.doing = "nothing" /\ ~ kicked /\ ~ flag /\ Idle /\ session = NoSession

Taken ==
  /\ main.doing = "session" /\ main.token = requests
  /\ ~ kicked /\ ~ flag /\ Idle /\ session = NoSession

Kicking == main.doing = "kick" /\ ~ kicked /\ ~ flag /\ Idle /\ Mine

Signalled == main.doing \in {"nothing", "forward"} /\ kicked /\ ~ flag /\ Idle /\ Mine

Stopping ==
  /\ main.doing \in {"nothing", "forward"} /\ ~ kicked /\ flag /\ Idle /\ Mine
  /\ place \in {"reading", "releasing", "check"}

OnTheWay ==
  /\ main.doing \in {"nothing", "forward"} /\ ~ kicked /\ ~ flag
  /\ Len(fromWorker) = 1 /\ MyOutcome(fromWorker[1], 0) /\ hand.place = "poll" /\ Mine

InHand ==
  /\ main.doing \in {"nothing", "forward"} /\ ~ kicked /\ ~ flag
  /\ hand.place \in {"update", "publish"} /\ MyOutcome(hand.event, requests)

Stage ==
  \/ InQueue
  \/ /\ \A i \in DOMAIN inbox : IsAnswer(i)
     /\ Taken \/ Kicking \/ Signalled \/ Stopping \/ OnTheWay \/ InHand

(* It has come to an end: answered, or the handler is stuck.               *)
Settled == Answered(requests) \/ place = "stuck"

(* The inductive invariant: an interrupt sent when nothing else was under  *)
(* way is in one of these places or has come to an end.                    *)
Lone == alone => Calm /\ (Settled \/ (NoAnswerYet /\ Stage))

(* When nothing is on its way any more, it has come to an end.             *)
LEMMA LoneAnswered ==
  ASSUME TypeOK, Lone
  PROVE  LoneInterruptAnswered
BY MainFacts, HandFacts, SessionFacts
   DEF LoneInterruptAnswered, Lone, Settled, Stage, InQueue, Taken, Kicking, Signalled, Stopping,
       OnTheWay, InHand,
       Quiet

(* The coordinator's main loop takes the interrupt, and answers to earlier *)
(* ones, none of which it lets through.                                    *)
LEMMA LoneMain ==
  ASSUME Core, TypeOK', Story, Lone, alone, CoordinatorStep(MainLoop)
  PROVE  Lone'
<1>a. TypeOK /\ Calm /\ requests \in Nat
  BY StoryTypes DEF Core, Lone
<1>b. UNCHANGED <<place, resuming, flag, shell, requests, alone, serial>>
  BY DEF CoordinatorStep, workerVars, agentVars, userVars
<1>c. ~ TakeLoad /\ ~ TakeStop("unload", "stop") /\ ~ TakeStop("reload", "restart")
  <2>1. ASSUME NEW k \in {"load", "unload", "reload"}, Taking(k) PROVE FALSE
    <3>1. 1 \in DOMAIN inbox /\ inbox[1].kind = k
      BY <1>a, <2>1, TakingFacts
    <3> QED
      BY <1>a, <3>1 DEF Calm, IsAnswer, AsksStop
  <2> QED
    BY <2>1 DEF TakeLoad, TakeStop
<1>d. ~ Started /\ ~ StartFailed /\ ~ Stopped
  BY <1>a DEF Calm, Started, StartFailed, Stopped
<1>e. published \subseteq published'
  BY <1>c, <1>d DEF CoordinatorStep, MainLoop, TakeInterrupt, StoreSession, Kick, TakeResume,
     Forward, Publish
<1>f. Settled => Settled'
  BY <1>b, <1>e DEF Settled, Answered
<1>1. CASE TakeInterrupt
  <2>1. /\ Taking("interrupt") /\ main' = [doing |-> "session", token |-> Asker]
        /\ UNCHANGED <<loaded, life, linked, rebuild, hand, session, kicked, toWorker,
                       fromWorker, published>>
    BY <1>1, <1>a DEF TakeInterrupt, Calm, lists, proxy, wires
  <2>2. /\ main'.doing = "session" /\ main'.token = inbox[1].token /\ inbox[1].kind = "interrupt"
        /\ 1 \in DOMAIN inbox /\ main.doing = "nothing"
        /\ \A i \in DOMAIN inbox' : /\ i + 1 \in DOMAIN inbox /\ i + 1 # 1
                                     /\ (IsAnswer(i)' <=> IsAnswer(i + 1))
                                     /\ (AsksStop(i)' <=> AsksStop(i + 1))
    BY <1>a, <2>1, TakingFacts
  <2>3. Calm'
    BY <1>a, <2>1, <2>2 DEF Calm
  <2>4. NoAnswerYet /\ Stage => NoAnswerYet' /\ Stage'
    <3> SUFFICES ASSUME NoAnswerYet, Stage PROVE NoAnswerYet' /\ Stage'
      OBVIOUS
    <3>1. InQueue
      BY <2>2 DEF Stage, IsAnswer
    <3>2. (\A i \in DOMAIN inbox : IsAnswer(i))'
      BY <2>2, <3>1 DEF InQueue
    <3>3. NoAnswerYet'
      BY <1>b, <2>1, <2>2 DEF NoAnswerYet
    <3> QED
      BY <1>b, <2>1, <2>2, <3>1, <3>2, <3>3 DEF Stage, InQueue, Taken, Idle
  <2> QED
    BY <1>f, <2>3, <2>4 DEF Lone
<1>2. CASE StoreSession
  <2>1. /\ main.doing = "session" /\ main' = [main EXCEPT !.doing = "kick"]
        /\ session' = [token |-> main.token, phase |-> "waiting_interrupt_terminal"]
        /\ UNCHANGED <<inbox, loaded, life, linked, rebuild, hand, kicked, toWorker, fromWorker,
                       published>>
    BY <1>2 DEF StoreSession, proxy, wires
  <2>2. main'.doing = "kick" /\ session'.token = main.token
          /\ session'.phase = "waiting_interrupt_terminal"
    BY <1>a, <2>1, StoryTypes, MainFacts
  <2>3. Calm'
    BY <1>a, <2>1, <2>2 DEF Calm, IsAnswer, AsksStop
  <2>4. NoAnswerYet /\ Stage => NoAnswerYet' /\ Stage'
    BY <1>b, <2>1, <2>2 DEF NoAnswerYet, Stage, InQueue, Taken, Kicking, Signalled, Stopping,
       OnTheWay, InHand, Mine,
       Idle, IsAnswer
  <2> QED
    BY <1>f, <2>3, <2>4 DEF Lone
<1>3. CASE Kick
  <2>1. /\ main.doing = "kick" /\ main' = Free /\ main'.doing = "nothing" /\ kicked'
        /\ UNCHANGED <<inbox, loaded, life, linked, rebuild, hand, session, toWorker, fromWorker,
                       published>>
    BY <1>3, <1>a, MainFacts DEF Kick, Calm, lists, proxy
  <2>2. Calm'
    BY <1>a, <2>1 DEF Calm, IsAnswer, AsksStop
  <2>3. NoAnswerYet /\ Stage => NoAnswerYet' /\ Stage'
    BY <1>b, <2>1 DEF NoAnswerYet, Stage, InQueue, Taken, Kicking, Signalled, Stopping, OnTheWay,
       InHand, Mine,
       Idle, IsAnswer
  <2> QED
    BY <1>f, <2>2, <2>3 DEF Lone
<1>4. CASE TakeResume
  <2>1. /\ Taking("resume")
        /\ main' = [doing |-> "forward", token |-> Asker, action |-> Head(inbox).action,
             found |-> session]
        /\ UNCHANGED <<loaded, life, linked, rebuild, hand, session, kicked, toWorker,
                       fromWorker, published>>
    BY <1>4, <1>a DEF TakeResume, Calm, lists, proxy, wires
  <2>2. /\ main'.doing = "forward" /\ main'.token = inbox[1].token /\ inbox[1].kind = "resume"
        /\ 1 \in DOMAIN inbox /\ main.doing = "nothing" /\ main'.found = session
        /\ inbox[1].token \in Token
        /\ \A i \in DOMAIN inbox' : /\ i + 1 \in DOMAIN inbox /\ i + 1 # 1
                                     /\ (IsAnswer(i)' <=> IsAnswer(i + 1))
                                     /\ (AsksStop(i)' <=> AsksStop(i + 1))
    BY <1>a, <2>1, TakingFacts
  <2>3. Calm'
    BY <1>a, <2>1, <2>2 DEF Calm
  <2>4. NoAnswerYet /\ Stage => Settled' \/ (NoAnswerYet' /\ Stage')
    <3> SUFFICES ASSUME NoAnswerYet, Stage, ~ Ready(session,
                          inbox[1].token) PROVE NoAnswerYet' /\ Stage'
      <4>1. CASE Ready(session, inbox[1].token) /\ NoAnswerYet
        <5>1. session.token = inbox[1].token /\ session.token # 0
          BY <1>a, <2>2, <4>1, StoryTypes DEF Ready
        <5>2. inbox[1].token = requests
          BY <4>1, <5>1 DEF NoAnswerYet
        <5>3. Showed(inbox[1].token)
          BY <2>2 DEF Story, AskOnce, IsAnswer
        <5> QED
          BY <1>f, <5>2, <5>3 DEF Settled, Answered, Showed
      <4> QED
        BY <4>1
    <3>1. ~ InQueue
      BY <2>2 DEF InQueue
    <3>2. (\A i \in DOMAIN inbox : IsAnswer(i))'
      BY <2>2, <3>1 DEF Stage
    <3>3. NoAnswerYet'
      BY <1>b, <2>1, <2>2 DEF NoAnswerYet, Ready
    <3> QED
      BY <1>b, <2>1, <2>2, <3>1, <3>2, <3>3
         DEF Stage, Taken, Kicking, Signalled, Stopping, OnTheWay, InHand, Mine, Idle
  <2> QED
    BY <1>f, <2>3, <2>4 DEF Lone
<1>5. CASE Forward
  <2>1. /\ main.doing = "forward" /\ main' = Free /\ main'.doing = "nothing"
        /\ UNCHANGED <<inbox, loaded, life, linked, rebuild, hand, session, kicked, fromWorker>>
        /\ ~ Ready(main.found, main.token) => toWorker' = toWorker
    BY <1>5, MainFacts DEF Forward, lists, proxy
  <2>2. Calm'
    BY <1>a, <2>1 DEF Calm, IsAnswer, AsksStop
  <2>3. NoAnswerYet /\ Stage => NoAnswerYet' /\ Stage'
    BY <1>b, <2>1 DEF NoAnswerYet, Stage, InQueue, Taken, Kicking, Signalled, Stopping, OnTheWay,
       InHand, Mine,
       Idle, IsAnswer
  <2> QED
    BY <1>f, <2>2, <2>3 DEF Lone
<1> QED
  BY <1>c, <1>d, <1>1, <1>2, <1>3, <1>4, <1>5 DEF CoordinatorStep, MainLoop

(* The proxy gives the outcome the interrupt's token and publishes it.     *)
LEMMA LoneProxy ==
  ASSUME Core, TypeOK', Story, Lone, alone,
         CoordinatorStep(Proxy) \/ CoordinatorStep(HealthCheck) \/ CoordinatorStep(Link)
  PROVE  Lone'
<1>a. TypeOK /\ Calm
  BY DEF Core, Lone
<1>b. UNCHANGED <<place, resuming, flag, shell, requests, alone, serial, inbox, main, loaded,
                  life, kicked, toWorker>>
  BY DEF CoordinatorStep, workerVars, agentVars, userVars, Proxy, ProxyClear, ProxyRebuild,
     ProxyTake, ProxyUpdate,
     ProxyPublish, HealthCheck, HealthScan, HealthReport, Link, lists, wires
<1>c. ~ ProxyClear /\ ~ ProxyRebuild /\ ~ Link
  BY <1>a DEF Calm, ProxyClear, ProxyRebuild, Link
<1>d. UNCHANGED <<linked, rebuild>> /\ published \subseteq published'
  BY <1>c DEF CoordinatorStep, Proxy, ProxyTake, ProxyUpdate, ProxyPublish, HealthCheck,
     HealthScan, HealthReport,
     lists, wires, Publish
<1>e. Settled => Settled'
  BY <1>b, <1>d DEF Settled, Answered
<1>1. CASE CoordinatorStep(ProxyTake)
  <2>1. /\ hand.place = "poll" /\ hand'.place = "update" /\ fromWorker # << >>
             /\ session' = session
    BY <1>1, HandFacts DEF CoordinatorStep, ProxyTake, lists
  <2>2. OnTheWay => hand'.place = "update" /\ MyOutcome(hand'.event, requests)
    <3> SUFFICES ASSUME OnTheWay PROVE MyOutcome(hand'.event, requests)
      BY <2>1
    <3>1. fromWorker[1] \in Event /\ Head(fromWorker) = fromWorker[1]
      BY <1>a, <2>1, StoryTypes, HeadTypes
    <3>2. hand'.event = [fromWorker[1] EXCEPT !.token = session.token]
      BY <1>1, <3>1 DEF CoordinatorStep, ProxyTake, OnTheWay, MyOutcome
    <3>3. session.token = requests /\ session.token \in Token \cup {0}
      BY <1>a, StoryTypes DEF OnTheWay, Mine
    <3>4. hand'.event = [kind |-> fromWorker[1].kind, token |-> session.token,
            serial |-> fromWorker[1].serial]
      BY <3>1, <3>2, <3>3, EventFacts
    <3> QED
      BY <3>3, <3>4 DEF OnTheWay, MyOutcome
  <2>3. Calm'
    BY <1>a, <1>b, <1>d, <2>1 DEF Calm, IsAnswer, AsksStop
  <2>4. NoAnswerYet'  \/ ~ NoAnswerYet
    BY <1>b, <2>1 DEF NoAnswerYet
  <2>5. NoAnswerYet /\ Stage => Stage'
    BY <1>b, <2>1, <2>2 DEF Stage, InQueue, Taken, Kicking, Signalled, Stopping, OnTheWay,
       InHand, Idle, IsAnswer
  <2> QED
    BY <1>e, <2>3, <2>4, <2>5 DEF Lone
<1>2. CASE CoordinatorStep(ProxyUpdate)
  <2>1. hand.place = "update" /\ hand \in HandState /\ hand' = [hand EXCEPT !.place = "publish"]
    BY <1>2, <1>a, StoryTypes DEF CoordinatorStep, ProxyUpdate
  <2>2. hand'.place = "publish" /\ hand'.event = hand.event
    BY <2>1, HandFacts
  <2>3. session'.token \in {0, session.token}
    <3>1. session \in Session \cup {NoSession}
      BY <1>a, StoryTypes
    <3>2. \/ session' = NoSession
          \/ session' = session
          \/ session # NoSession /\ session' = [session EXCEPT !.phase = "waiting_resume_action"]
      BY <1>2 DEF CoordinatorStep, ProxyUpdate
    <3> QED
      BY <3>1, <3>2, SessionFacts
  <2>4. Calm'
    BY <1>a, <1>b, <1>d, <2>2 DEF Calm, IsAnswer, AsksStop
  <2>5. NoAnswerYet /\ Stage => NoAnswerYet' /\ Stage'
    BY <1>b, <2>1, <2>2, <2>3 DEF NoAnswerYet, Stage, InQueue, Taken, Kicking, Signalled,
       Stopping, OnTheWay, InHand,
       Idle, IsAnswer, MyOutcome
  <2> QED
    BY <1>e, <2>4, <2>5 DEF Lone
<1>3. CASE CoordinatorStep(ProxyPublish)
  <2>1. /\ hand.place = "publish" /\ hand' = Nothing /\ hand'.place = "poll"
        /\ published' = published \cup {<<hand.event.token, hand.event.kind>>}
    BY <1>3, HandFacts DEF CoordinatorStep, ProxyPublish, Publish
  <2>2. Calm'
    BY <1>a, <1>b, <1>d, <2>1 DEF Calm, IsAnswer, AsksStop
  <2>3. Stage => InHand
    BY <2>1 DEF Stage, InQueue, Taken, Kicking, Signalled, Stopping, OnTheWay, Idle
  <2>4. InHand => Settled'
    BY <1>b, <2>1 DEF InHand, MyOutcome, Settled, Answered
  <2> QED
    BY <1>e, <2>2, <2>3, <2>4 DEF Lone
<1>4. CASE CoordinatorStep(HealthCheck)
  <2>1. UNCHANGED <<hand, session, fromWorker>>
    BY <1>4 DEF CoordinatorStep, HealthCheck, HealthScan, HealthReport, lists, proxy, wires
  <2> QED
    BY <1>a, <1>b, <1>d, <1>e, <2>1
       DEF Lone, Calm, NoAnswerYet, Stage, InQueue, Taken, Kicking, Signalled, Stopping,
           OnTheWay, InHand, Mine, Idle,
           IsAnswer, AsksStop
<1> QED
  BY <1>c, <1>1, <1>2, <1>3, <1>4 DEF CoordinatorStep, Proxy

(* The worker's handler stops the agent, tells that there is none, or is   *)
(* stuck; a stopped agent is told of.                                      *)
LEMMA LoneWorker ==
  ASSUME Core, TypeOK', Story, Lone, alone, alone',
         WorkerStep \/ RunBegins \/ AgentEnds \/ Handler \/ WorkerStillborn \/ WorkerDies
  PROVE  Lone'
<1>a. TypeOK /\ Calm /\ AgentInv /\ Lives
  BY DEF Core, Lone
<1>b. ~ WorkerDies /\ ~ WorkerReady /\ ~ WorkerStillborn /\ ~ WorkerKilled /\ ~ WorkerExits
  BY <1>a DEF WorkerDies, WorkerReady, WorkerStillborn, WorkerKilled, WorkerExits, Calm, Lives
<1>c. UNCHANGED <<inbox, main, loaded, session, rebuild, hand, published, life, linked, requests>>
  BY <1>b DEF WorkerStep, RunBegins, AgentEnds, Handler, RunEnds, SpawnAgent, ClearFlag,
     Register, OutputEnds, Release,
     Interrupted, AgentDone, TakeAnswer, Inside, processRest, lists, proxy, userVars
<1>d. Calm'
  BY <1>a, <1>c DEF Calm, IsAnswer, AsksStop
<1>e. Settled => Settled'
  BY <1>b, <1>c DEF Settled, Answered, WorkerStep, RunBegins, AgentEnds, Handler, RunEnds,
     SpawnAgent, ClearFlag, Register,
     OutputEnds, Release, Interrupted, AgentDone, TakeAnswer
<1> SUFFICES ASSUME NoAnswerYet, Stage PROVE Settled' \/ (NoAnswerYet' /\ Stage')
  BY <1>d, <1>e DEF Lone
<1>f. resuming = 0 /\ toWorker = << >> /\ ~ TakeAnswer
  BY DEF NoAnswerYet, TakeAnswer
<1>g. NoAnswerYet'
  BY <1>b, <1>c, <1>f DEF NoAnswerYet, WorkerStep, RunBegins, AgentEnds, Handler, RunEnds,
     SpawnAgent, ClearFlag,
     Register, OutputEnds, Release, Interrupted, AgentDone, Inside, EndOfRun
<1>h. ASSUME UNCHANGED <<kicked, flag, fromWorker>>,
             place \in {"reading", "releasing", "check"} =>
               ~ flag \/ place' \in {"reading", "releasing", "check"}
      PROVE  Stage'
  BY <1>c, <1>h DEF Stage, InQueue, Taken, Kicking, Signalled, Stopping, OnTheWay, InHand, Mine,
     Idle, IsAnswer
<1>1. CASE RunBegins \/ RunEnds \/ SpawnAgent \/ Register \/ AgentEnds \/ OutputEnds \/ Release
  <2>1. UNCHANGED <<kicked, flag, fromWorker>>
    BY <1>1, <1>f DEF RunBegins, RunEnds, SpawnAgent, Register, AgentEnds, OutputEnds, Release,
       Inside, Silent,
       EndOfRun, agentVars
  <2>2. place \in {"reading", "releasing", "check"} =>
          place' \in {"reading", "releasing", "check"}
    BY <1>1 DEF RunBegins, RunEnds, SpawnAgent, Register, AgentEnds, OutputEnds, Release
  <2> QED
    BY <1>g, <1>h, <2>1, <2>2
<1>2. CASE ClearFlag
  <2>1. flag' = flag
    BY <1>2, <1>a DEF ClearFlag, Stage, InQueue, Taken, Kicking, Signalled, Stopping, OnTheWay,
       InHand, TypeOK
  <2> QED
    BY <1>2, <1>g, <1>h, <2>1 DEF ClearFlag, Inside, Silent
<1>3. CASE AgentDone
  <2>1. UNCHANGED <<kicked, flag, fromWorker>> /\ ~ flag
    BY <1>3, <1>f DEF AgentDone, Inside, Silent, EndOfRun
  <2> QED
    BY <1>g, <1>h, <2>1
<1>4. CASE Interrupted
  <2>1. flag /\ ~ flag' /\ kicked' = kicked /\ Tell("agent_interrupted", 0, serial')
    BY <1>4, <1>f DEF Interrupted, Inside
  <2>2. Stopping /\ (\A i \in DOMAIN inbox : IsAnswer(i)) /\ fromWorker = << >>
    BY <2>1 DEF Stage, InQueue, Taken, Kicking, Signalled, Stopping, OnTheWay, InHand, Idle
  <2>3. fromWorker' = <<[kind |-> "agent_interrupted", token |-> 0, serial |-> serial']>>
    BY <1>a, <2>1, <2>2 DEF Tell, Calm
  <2>4. Len(fromWorker') = 1 /\ MyOutcome(fromWorker'[1], 0)
    BY <2>3 DEF MyOutcome
  <2> QED
    BY <1>c, <1>g, <2>1, <2>2, <2>4 DEF Stage, Stopping, OnTheWay, Mine, Idle, IsAnswer
<1>5. CASE Handler
  <2>1. kicked /\ ~ kicked' /\ Signalled /\ (\A i \in DOMAIN inbox :
          IsAnswer(i)) /\ fromWorker = << >>
    BY <1>5 DEF Handler, Stage, InQueue, Taken, Kicking, Signalled, Stopping, OnTheWay, InHand,
       Idle
  <2>2. CASE place \in {"registering", "releasing"}
    BY <1>5, <2>2 DEF Handler, Settled
  <2>3. CASE place \notin {"registering", "releasing"} /\ current
    <3>1. place = "reading" /\ place' = place /\ flag' /\ fromWorker' = fromWorker
      BY <1>5, <1>a, <2>3 DEF Handler, AgentInv, Silent
    <3> QED
      BY <1>c, <1>g, <2>1, <3>1 DEF Stage, Signalled, Stopping, Mine, Idle, IsAnswer
  <2>4. CASE place \notin {"registering", "releasing"} /\ ~ current
    <3>1. UNCHANGED <<place, flag>> /\ Tell("interrupt_failed", 0, 0)
      BY <1>5, <2>4 DEF Handler
    <3>2. fromWorker' = <<[kind |-> "interrupt_failed", token |-> 0, serial |-> 0]>>
      BY <1>a, <2>1, <3>1 DEF Tell, Calm
    <3>3. Len(fromWorker') = 1 /\ MyOutcome(fromWorker'[1], 0)
      BY <3>2 DEF MyOutcome
    <3> QED
      BY <1>c, <1>g, <2>1, <3>1, <3>3 DEF Stage, Signalled, OnTheWay, Mine, Idle, IsAnswer
  <2> QED
    BY <2>2, <2>3, <2>4
<1> QED
  BY <1>b, <1>f, <1>1, <1>2, <1>3, <1>4, <1>5 DEF WorkerStep

(* Shells begin anew, or add answers to the socket.                        *)
LEMMA LoneShell ==
  ASSUME Core, TypeOK', Story, Lone, alone', NEW s \in Shell, ShellStep(s)
  PROVE  Lone'
<1>a. TypeOK /\ inbox \in Seq(Request)
  BY StoryTypes DEF Core
<1>b. UNCHANGED <<main, loaded, session, rebuild, hand, published, life, linked, kicked,
                  toWorker, fromWorker, place,
                  resuming, flag>>
  BY DEF ShellStep, SendInterrupt, SendLifecycle, SeesContext, SeesEnd, GivesUp, Answer, atHome,
     lists, proxy, wires,
     workerVars, agentVars
<1>1. CASE SendInterrupt(s)
  <2>1. /\ Quiet /\ Serving /\ session = NoSession /\ resuming = 0 /\ requests' = requests + 1
        /\ inbox' = Append(inbox, [kind |-> "interrupt", token |-> requests'])
    BY <1>1 DEF SendInterrupt, Send
  <2>2. inbox' = <<[kind |-> "interrupt", token |-> requests']>>
    BY <2>1 DEF Quiet
  <2>3. /\ inbox' # << >> /\ inbox'[1].kind = "interrupt" /\ inbox'[1].token = requests'
        /\ DOMAIN inbox' = {1}
    BY <2>2
  <2>4. Calm'
    BY <1>b, <2>1, <2>3, MainFacts, HandFacts DEF Calm, Quiet, Serving, AsksStop
  <2>5. NoAnswerYet'
    BY <1>b, <2>1, MainFacts, SessionFacts DEF NoAnswerYet, Quiet
  <2>6. InQueue'
    BY <1>b, <2>1, <2>3, MainFacts, HandFacts DEF InQueue, Quiet, Idle
  <2> QED
    BY <2>4, <2>5, <2>6 DEF Lone, Stage
<1>2. CASE SendLifecycle(s)
  BY <1>2 DEF SendLifecycle
<1>3. CASE SeesContext(s) \/ SeesEnd(s) \/ GivesUp(s)
  <2>1. UNCHANGED <<inbox, requests, alone>>
    BY <1>3 DEF SeesContext, SeesEnd, GivesUp
  <2> QED
    BY <1>b, <2>1 DEF Lone, Settled, Answered, Calm, NoAnswerYet, Stage, InQueue, Taken, Kicking,
       Signalled, Stopping,
       OnTheWay, InHand, Mine, Idle, IsAnswer, AsksStop
<1>4. CASE Answer(s)
  <2>1. UNCHANGED <<requests, alone>>
    BY <1>4 DEF Answer
  <2>2. PICK action \in Action :
          inbox' = Append(inbox, [kind |-> "resume", token |-> shell[s].token, action |-> action])
    BY <1>4 DEF Answer
  <2>3. /\ \A i \in DOMAIN inbox' :
             (i \in DOMAIN inbox /\ inbox'[i] = inbox[i]) \/ inbox'[i].kind = "resume"
        /\ inbox # << >> => inbox' # << >> /\ inbox'[1] = inbox[1]
    BY <1>a, <2>2
  <2>4. Calm => Calm'
    BY <1>b, <2>3 DEF Calm, IsAnswer, AsksStop
  <2>5. NoAnswerYet /\ Stage => NoAnswerYet' /\ Stage'
    BY <1>b, <2>1, <2>3 DEF NoAnswerYet, Stage, InQueue, Taken, Kicking, Signalled, Stopping,
       OnTheWay, InHand, Mine, Idle,
       IsAnswer
  <2> QED
    BY <1>b, <2>1, <2>4, <2>5 DEF Lone, Settled, Answered
<1> QED
  BY <1>1, <1>2, <1>3, <1>4 DEF ShellStep

(* Every step keeps it.                                                    *)
LEMMA LoneHolds ==
  ASSUME Core, TypeOK', Story, Lone, Next
  PROVE  Lone'
<1> SUFFICES ASSUME alone' PROVE Lone'
  BY DEF Lone
<1>1. CASE \/ CoordinatorStep(MainLoop) \/ CoordinatorStep(Proxy) \/ CoordinatorStep(HealthCheck)
           \/ CoordinatorStep(Link)
  <2>1. alone
    BY <1>1 DEF CoordinatorStep, userVars
  <2> QED
    BY <1>1, <2>1, LoneMain, LoneProxy
<1>2. CASE WorkerStep \/ RunBegins \/ AgentEnds \/ Handler \/ WorkerStillborn \/ WorkerDies
  <2>1. alone
    BY <1>2 DEF WorkerStep, RunBegins, AgentEnds, Handler, WorkerStillborn, WorkerDies,
       WorkerReady, RunEnds, SpawnAgent,
       ClearFlag, Register, OutputEnds, Release, Interrupted, AgentDone, TakeAnswer, WorkerExits,
       WorkerKilled, Inside,
       userVars
  <2> QED
    BY <1>2, <2>1, LoneWorker
<1>3. CASE \E s \in Shell : ShellStep(s)
  BY <1>3, LoneShell
<1> QED
  BY <1>1, <1>2, <1>3 DEF Next

(* A step that changes nothing keeps it.                                   *)
LEMMA LoneStutters ==
  ASSUME Lone, UNCHANGED vars
  PROVE  Lone'
BY DEF Lone, Settled, Answered, Calm, NoAnswerYet, Stage, InQueue, Taken, Kicking, Signalled,
   Stopping, OnTheWay,
   InHand, Mine, Idle, IsAnswer, AsksStop, vars, coordinatorVars, lists, proxy, wires,
   workerVars, agentVars, userVars

(* An interrupt that is sent with no other one under way, to a worker that *)
(* is up and not in a run that an earlier answer resumed, is answered with *)
(* its own token once nothing is on its way any more, unless the handler   *)
(* has caught the worker holding the lock (coordinator.py:492-555).        *)
THEOREM LoneIsAnswered == Spec => []LoneInterruptAnswered
<1>1. Init => Lone
  BY DEF Init, Lone
<1>2. Core /\ TypeOK' /\ Story /\ Lone /\ [Next]_vars => Lone'
  BY LoneHolds, LoneStutters
<1>3. Core => TypeOK
  BY DEF Core
<1>4. TypeOK /\ Lone => LoneInterruptAnswered
  BY LoneAnswered
<1> QED
  BY <1>1, <1>2, <1>3, <1>4, StoryAlways, PTL DEF Spec
=============================================================================
