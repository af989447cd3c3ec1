--------------------------- MODULE ConfigLoading ---------------------------
(***************************************************************************)
(* load_config: what a configuration file must get past before the engine  *)
(* runs it.  The sections are read, the includes merged, every execution   *)
(* parsed field by field in the order of the code, then the triggers, and  *)
(* the graph of executions is searched for a cycle.  Any check that fails  *)
(* refuses the whole file.                                                 *)
(*                                                                         *)
(* The file is the nondeterminism: each step draws the raw value it reads. *)
(* None is a key that is absent, Bad a value of a wrong type or shape, or  *)
(* a name that is configured nowhere.  What is read and has no bearing on  *)
(* the rest is accepted or not, and is not kept.                           *)
(***************************************************************************)
EXTENDS ConfigSyntax, SequencesExt

CONSTANTS
  Name,        \* names executions can have
  TaskId,      \* ids sub-tasks can have
  Contents,    \* include files, as what each has: the executions it defines,
               \* the parameters it uses, those among them with a default
  Param,       \* names of template parameters
  MaxIncludes, \* bound on the include items of a file
  MaxTasks,    \* bound on the sub-tasks of each execution, in the order of the file
  MaxRoutes,   \* bound on the routes of a sub-task
  MaxTriggers  \* bound on the propagation triggers

ASSUME LoadingAssumption ==
  /\ IsFiniteSet(Name)
  /\ Contents \subseteq [names : SUBSET Name, needs : SUBSET Param, defaults : SUBSET Param]
  /\ {None, Bad} \cap (Name \cup TaskId) = {}
  /\ {MaxIncludes, MaxRoutes, MaxTriggers} \subseteq Nat
  /\ MaxTasks \in [1 .. Cardinality(Name) -> Nat]

VARIABLES
  stage,    \* what load_config reads next; "loaded", "refused" or "cyclic" at the end
  names,    \* the executions of the file, in order
  deps,     \* depends_on of the executions parsed
  draft,    \* the sub-task being parsed
  tasks,    \* the sub-tasks of the execution being parsed
  triggers, \* the triggers parsed
  needs,    \* what hooks parsed before the git section find in it
  lacks,    \* history: what a run may find missing of the value just accepted
  visit,    \* visit_state of the search
  stack,    \* its recursion: the execution and the neighbour of every frame
  cycle     \* the cycle it reported

file == <<names, deps, triggers, needs, lacks>>
search == <<visit, stack, cycle>>
vars == <<stage, file, draft, tasks, search>>

Blank ==
  [id |-> None, prompt |-> FALSE, gate |-> FALSE, goto |-> None, waits |-> FALSE,
   routes |-> <<>>, onFailure |-> FALSE]

Init ==
  /\ stage = "sections"
  /\ names = <<>> /\ deps = <<>> /\ triggers = <<>>
  /\ needs = {} /\ lacks = {}
  /\ draft = Blank /\ tasks = <<>>
  /\ visit = <<>> /\ stack = <<>> /\ cycle = <<>>

(* PropagateError: nothing of the file is kept. *)
Refuse ==
  /\ stage' = "refused"
  /\ names' = <<>> /\ deps' = <<>> /\ triggers' = <<>>
  /\ needs' = {} /\ lacks' = {}
  /\ draft' = Blank /\ tasks' = <<>>
  /\ UNCHANGED search

(* A value is read and accepted, one of those that have the outcomes. *)
Accept(outcomes) == needs' = needs /\ lacks' \in outcomes

-----------------------------------------------------------------------------
(* The sections before `executions`. *)

SectionOutcomes ==
  Outcomes(RawAgents, AgentsAccepted, LAMBDA a : Lack("fails", ~ AgentsRun(a)))
    \cup Outcomes(RawRepository, RepositoryAccepted,
                  LAMBDA r : Lack("fails", ~ RepositoryRuns(r)))
    \cup Outcomes(RawField, FieldAccepted, LAMBDA f : Lack("fails", f.type = Bad))

ReadSections ==
  /\ stage = "sections"
  /\ \/ /\ Accept(SectionOutcomes)
        /\ stage' = "includes"
        /\ UNCHANGED <<names, deps, triggers, draft, tasks, search>>
     \/ Refuse

(***************************************************************************)
(* resolve_mapping_includes.  A file is rendered if every parameter it     *)
(* uses is given or has a default, and every one given is used.            *)
(***************************************************************************)
RawInclude == [file : Contents \cup {Bad}, with : SUBSET Param]

Rendered(inc) ==
  /\ inc.file # Bad
  /\ inc.file.needs \ inc.file.defaults \subseteq inc.with
  /\ inc.with \subseteq inc.file.needs

IncludesAccepted(incs) ==
  /\ \A i \in DOMAIN incs : Rendered(incs[i])
  /\ \A i, j \in DOMAIN incs :
       i # j => incs[i].file.names \cap incs[j].file.names = {}

Included(incs) == UNION {incs[i].file.names : i \in DOMAIN incs}

(* What is in S of the sequence s, in its order. *)
Keep(s, S) ==
  LET kept[n \in 0 .. Len(s)] ==
        IF n = 0 THEN <<>>
        ELSE IF s[n] \in S THEN Append(kept[n - 1], s[n]) ELSE kept[n - 1]
  IN  kept[Len(s)]

(* {**all_included, **inline}: an execution written in the file replaces   *)
(* an included one in its place.                                           *)
MergedNames(incs, inline) ==
  SetToSeq(Included(incs)) \o Keep(inline, Name \ Included(incs))

ReadIncludes ==
  /\ stage = "includes"
  /\ \E incs \in SeqOf(RawInclude, MaxIncludes), inline \in SetToAllKPermutations(Name) :
       IF IncludesAccepted(incs) /\ Included(incs) \cup ToSet(inline) # {}
       THEN /\ names' = MergedNames(incs, inline)
            /\ stage' = "head"
            /\ lacks' = {}
            /\ UNCHANGED <<deps, triggers, needs, draft, tasks, search>>
       ELSE Refuse

-----------------------------------------------------------------------------
(* parse_sub_task, for one sub-task of the execution after those in deps.  *)

Position == Cardinality(DOMAIN deps) + 1

Current == names[Position]

Seen == {t.id : t \in ToSet(tasks)}

RefOutcomes(current) == Outcomes(RawRef, RefAccepted, LAMBDA r : RefLacks(r, current))

(* A `when` is asked before there is a current task. *)
ConditionOutcomes ==
  Outcomes(RawCondition, ConditionAccepted, LAMBDA c : RefLacks(c.ref, FALSE))

WhenOutcomes == Outcomes(RawWhen, WhenAccepted, LAMBDA w : Lack("fails", ~ WhenRuns(w)))

HookOutcomes == Outcomes(RawHook, HookAccepted, HookLacks)

(* The hooks of on_failure: the git section is not handed on to them when  *)
(* the agent fails, or keys are missing, but only when another hook fails. *)
FailureOutcomes == {o \cup {"handed"} : o \in {h \in HookOutcomes : "git" \in h}}

OfGit == {"git", "publish"}

(* id, prompt and `when`. *)
ReadHead ==
  /\ stage = "head"
  /\ Len(tasks) < MaxTasks[Position]
  /\ \/ \E id \in TaskId, prompt, gate \in BOOLEAN :
          /\ Accept(IF gate THEN ConditionOutcomes ELSE {{}})
          /\ draft' = [Blank EXCEPT !.id = id, !.prompt = prompt, !.gate = gate]
          /\ stage' = "goto"
          /\ UNCHANGED <<names, deps, triggers, tasks, search>>
     \/ Refuse

(* goto, max_goto and on_max_goto. *)
ReadGoto ==
  /\ stage = "goto"
  /\ \E goto \in {None, Bad} \cup TaskId, max \in {None, Bad, "positive"},
        onMax \in {None, Bad, "fail", "continue"} :
       IF /\ goto # None => goto \in Seen /\ draft.gate
          /\ goto = None => max = None /\ onMax = None
          /\ Bad \notin {max, onMax}
       THEN /\ draft' = [draft EXCEPT !.goto = goto]
            /\ stage' = "wait"
            /\ lacks' = {}
            /\ UNCHANGED <<names, deps, triggers, needs, tasks, search>>
       ELSE Refuse

(* wait_for_signal, beside the fields it excludes. *)
ReadWait ==
  /\ stage = "wait"
  /\ \E wait \in {None, Bad, "signal"}, routes, onFailure \in BOOLEAN :
       IF \/ wait = None /\ ~ routes
          \/ wait = "signal" /\ routes /\ draft.goto = None /\ ~ draft.prompt /\ ~ onFailure
       THEN /\ draft' = [draft EXCEPT !.waits = wait # None, !.onFailure = onFailure]
            /\ stage' = IF wait = None THEN "rest" ELSE "routes"
            /\ lacks' = {}
            /\ UNCHANGED <<names, deps, triggers, needs, tasks, search>>
       ELSE Refuse

(* parse_routes, one at a time; the list has one at least. *)
ReadRoute ==
  /\ stage = "routes"
  /\ Len(draft.routes) < MaxRoutes
  /\ \E goto \in {None, Bad} \cup TaskId, continue \in {Bad} \cup BOOLEAN :
       IF (goto = None /\ continue = TRUE) \/ (goto \in Seen /\ continue = FALSE)
       THEN /\ Accept(WhenOutcomes)
            /\ draft' = [draft EXCEPT !.routes = Append(@, [goto |-> goto,
                                                            continue |-> continue])]
            /\ UNCHANGED <<stage, names, deps, triggers, tasks, search>>
       ELSE Refuse

RoutesRead ==
  /\ stage = "routes"
  /\ draft.routes # <<>>
  /\ stage' = "rest"
  /\ lacks' = {}
  /\ UNCHANGED <<names, deps, triggers, needs, draft, tasks, search>>

(* must_set and the hooks; then parse_execution compares the id. *)
ReadRest ==
  /\ stage = "rest"
  /\ \/ \E mustSet \in BOOLEAN :
          /\ mustSet => ~ draft.waits
          /\ draft.id \notin Seen
          /\ \E o \in HookOutcomes
                  \cup (IF mustSet THEN RefOutcomes(TRUE) ELSE {})
                  \cup (IF draft.onFailure /\ (draft.prompt \/ mustSet)
                        THEN FailureOutcomes ELSE {}) :
               /\ needs' = needs \cup (o \cap OfGit)
               /\ lacks' = o \ OfGit
          /\ tasks' = Append(tasks, draft)
          /\ draft' = Blank
          /\ stage' = "head"
          /\ UNCHANGED <<names, deps, triggers, search>>
     \/ Refuse

-----------------------------------------------------------------------------
(* The rest of parse_execution: agent, repository, depends_on, signals,    *)
(* git and hooks.                                                          *)

(* The keys of the git section are read by hooks of a sub-task or of the   *)
(* execution, the number of the pull request is written.                   *)
GitOutcomes ==
  Outcomes(RawGit, GitAccepted, GitLacks)
    \cup (UNION {RefOutcomes(current) : current \in BOOLEAN})
    \cup (UNION {Outcomes(RawRef, RefAccepted, LAMBDA r : WrittenLacks(r, current)) :
                   current \in BOOLEAN})

GitOffers == Outcomes(RawGit, GitAccepted, Offers)

PartOutcomes(offers) ==
  WhenOutcomes \cup HookOutcomes \cup (IF offers = {} THEN {} ELSE GitOutcomes)

ReadExecution ==
  /\ stage = "head"
  /\ IF tasks = <<>> THEN Refuse
     ELSE \E agent \in {None, Bad, "agent"}, repository \in {None, Bad, "repository"},
             on \in {None} \cup SeqOf(Name \cup {Bad}, Cardinality(Name) - 1) :
            IF /\ agent \in {None, "agent"}
               /\ repository = "repository"
               /\ on # None => /\ on # <<>>
                               /\ ToSet(on) \subseteq ToSet(names) \ {Current}
                               /\ Len(on) = Cardinality(ToSet(on))
            THEN /\ lacks' \in UNION {{(needs \cup o) \ offers : o \in PartOutcomes(offers)} :
                                        offers \in {{}} \cup GitOffers}
                 /\ needs' = {}
                 /\ deps' = [e \in DOMAIN deps \cup {Current} |->
                               IF e # Current THEN deps[e]
                               ELSE IF on = None THEN {} ELSE ToSet(on)]
                 /\ tasks' = <<>>
                 /\ stage' = IF Position = Len(names)
                             THEN "triggers" ELSE "head"
                 /\ UNCHANGED <<names, triggers, draft, search>>
            ELSE Refuse

(* parse_propagation_trigger.  Its `when` and when_context are a signal's  *)
(* clause and a condition.                                                 *)
ReadTrigger ==
  /\ stage = "triggers"
  /\ Len(triggers) < MaxTriggers
  /\ \E after, run \in Name \cup {Bad}, on \in {None, Bad, "signal"},
        when \in BOOLEAN :
       IF /\ {after, run} \subseteq ToSet(names)
          /\ on \in {None, "signal"}
          /\ when => on # None
       THEN /\ Accept(ConditionOutcomes \cup WhenOutcomes)
            /\ triggers' = Append(triggers, [after |-> after, run |-> run])
            /\ UNCHANGED <<stage, names, deps, draft, tasks, search>>
       ELSE Refuse

-----------------------------------------------------------------------------
(* validate_execution_graph_is_acyclic. *)

BeginSearch ==
  /\ stage = "triggers"
  /\ stage' = "graph"
  /\ visit' = [e \in ToSet(names) |-> "unvisited"]
  /\ lacks' = {}
  /\ UNCHANGED <<names, deps, triggers, needs, draft, tasks, stack, cycle>>

(* build_execution_graph_adjacency: dependents, then what triggers run.    *)
Neighbours(e) ==
  LET followers == Keep(triggers, {t \in ToSet(triggers) : t.after = e})
  IN  Keep(names, {n \in ToSet(names) : e \in deps[n]})
        \o [i \in DOMAIN followers |-> followers[i].run]

Push(frames, e) ==
  /\ visit' = [visit EXCEPT ![e] = "visiting"]
  /\ stack' = Append(frames, [at |-> e, next |-> 1])

(* The first execution, in the order of the file, not visited yet. *)
VisitRoot ==
  /\ stage = "graph"
  /\ stack = <<>>
  /\ \/ /\ \A e \in ToSet(names) : visit[e] # "unvisited"
        /\ stage' = "loaded"
        /\ UNCHANGED <<visit, stack>>
     \/ \E i \in DOMAIN names :
          /\ visit[names[i]] = "unvisited"
          /\ \A j \in 1 .. i - 1 : visit[names[j]] # "unvisited"
          /\ Push(stack, names[i])
          /\ UNCHANGED stage
  /\ UNCHANGED <<file, draft, tasks, cycle>>

Top == Last(stack)

HasNeighbour == Top.next <= Len(Neighbours(Top.at))

Neighbour == Neighbours(Top.at)[Top.next]

Advanced == [stack EXCEPT ![Len(stack)].next = @ + 1]

Searching(state) ==
  /\ stage = "graph"
  /\ stack # <<>>
  /\ HasNeighbour
  /\ visit[Neighbour] = state

(* A neighbour that is done is passed over, one never seen is visited. *)
PassOver ==
  /\ Searching("done")
  /\ stack' = Advanced
  /\ UNCHANGED <<stage, file, draft, tasks, visit, cycle>>

Visit ==
  /\ Searching("unvisited")
  /\ Push(Advanced, Neighbour)
  /\ UNCHANGED <<stage, file, draft, tasks, cycle>>

Start(e) == CHOOSE i \in DOMAIN stack : stack[i].at = e

\* Mutant: an execution still being visited is passed over like one that is done.
ReportNothing ==
  /\ Searching("visiting")
  /\ stack' = Advanced
  /\ UNCHANGED <<stage, file, draft, tasks, visit, cycle>>

(* One that is being visited closes a cycle. *)
ReportCycle ==
  /\ Searching("visiting")
  /\ stage' = "cyclic"
  /\ cycle' = [i \in 1 .. Len(stack) - Start(Neighbour) + 1 |->
                 stack[Start(Neighbour) + i - 1].at] \o <<Neighbour>>
  /\ UNCHANGED <<file, draft, tasks, visit, stack>>

Leave ==
  /\ stage = "graph"
  /\ stack # <<>>
  /\ ~ HasNeighbour
  /\ visit' = [visit EXCEPT ![Top.at] = "done"]
  /\ stack' = Front(stack)
  /\ UNCHANGED <<stage, file, draft, tasks, cycle>>

Next ==
  \/ ReadSections \/ ReadIncludes \/ ReadHead \/ ReadGoto \/ ReadWait \/ ReadRoute
  \/ RoutesRead \/ ReadRest \/ ReadExecution \/ ReadTrigger \/ BeginSearch
  \/ VisitRoot \/ PassOver \/ Visit \/ ReportCycle \/ Leave

Spec == Init /\ [][Next]_vars

-----------------------------------------------------------------------------
(* What a run may find missing of what was just accepted, in each part of  *)
(* the file: nothing of an agent, a repository or a signal's clause, no    *)
(* more than the task of a `when`, and of the rest what is in Unchecked.   *)
LacksKnown ==
  /\ lacks \subseteq Unchecked
  /\ stage \in {"includes", "routes"} => lacks = {}
  /\ stage = "goto" => lacks \subseteq {"path", "task"}

(***************************************************************************)
(* What is accepted is what the sub-task runner assumes of its             *)
(* configuration: ids tell the sub-tasks apart, a goto is conditional and  *)
(* leads back, a wait task has routes, each leading back or on, and        *)
(* nothing a wait task never runs.  Dependencies and triggers name         *)
(* executions of the file.  And the code that runs a hook, a reference, a  *)
(* clause, a git section, an agent or a repository finds nothing wrong     *)
(* with it but what the loader leaves unchecked, part by part.             *)
(***************************************************************************)
LeadsBack(i, id) == \E j \in 1 .. i - 1 : tasks[j].id = id

AcceptedIsRunnable ==
  /\ \A i \in DOMAIN tasks :
       /\ ~ LeadsBack(i, tasks[i].id)
       /\ tasks[i].goto # None =>
            tasks[i].gate /\ LeadsBack(i, tasks[i].goto) /\ ~ tasks[i].waits
       /\ tasks[i].waits <=> tasks[i].routes # <<>>
       /\ tasks[i].waits => ~ tasks[i].prompt /\ ~ tasks[i].onFailure
       /\ \A r \in ToSet(tasks[i].routes) :
            IF r.continue THEN r.goto = None ELSE LeadsBack(i, r.goto)
  /\ \A e \in DOMAIN deps : deps[e] \subseteq ToSet(names)
  /\ \A t \in ToSet(triggers) : {t.after, t.run} \subseteq ToSet(names)
  /\ Len(names) = Cardinality(ToSet(names))
  /\ LacksKnown

(***************************************************************************)
(* The search finds a cycle exactly if there is one: a configuration is    *)
(* loaded only if no set of executions is closed under waiting for one     *)
(* another, and a configuration refused as cyclic is shown a real cycle.   *)
(***************************************************************************)
Before(a, b) == a \in deps[b] \/ [after |-> a, run |-> b] \in ToSet(triggers)

CyclesReported ==
  /\ stage = "loaded" =>
       ~ \E S \in (SUBSET ToSet(names)) \ {{}} : \A a \in S : \E b \in S : Before(a, b)
  /\ stage = "cyclic" =>
       /\ Len(cycle) > 1
       /\ cycle[1] = Last(cycle)
       /\ \A i \in 1 .. Len(cycle) - 1 : Before(cycle[i], cycle[i + 1])
=============================================================================
