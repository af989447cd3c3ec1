----------------------------- MODULE GitPublish -----------------------------
(***************************************************************************)
(* The git commands of one execution (git:branch, git:commit, git:push,    *)
(* git:pr, git:publish, git:pr-checks-wait), run as hooks in a working     *)
(* copy: a clone made through the cache of RepoCache, or a directory the   *)
(* configuration names.  Others push to the same branches; commands fail,  *)
(* the process crashes between any two of them and is resumed.             *)
(***************************************************************************)
EXTENDS RepoCache, SequencesExt

CONSTANTS
  Self,       \* the run whose execution this is
  Main,       \* the branch a clone starts on
  Target,     \* the execution's branch
  BranchBase, \* branch.base, None if not configured
  Reuse,      \* branch.reuse
  Phases,     \* the commands of every phase of the execution, in order, those the
              \* configuration has a section for
  LoopPhase,  \* the phase that failed checks lead back to
  MaxRounds,  \* max_goto of that goto
  Check,      \* the GitHub Actions checks of a pull request
  Env,        \* the change of an .env file
  Marker,     \* the conflict markers a stopped rebase leaves in the tree
  Own,        \* the changes the execution's agent makes, in order
  Others      \* the changes others push, in order

Command == {"branch", "agent", "commit", "push", "pr", "checks"}

ASSUME GitAssumption ==
  /\ Self \in Run
  /\ {Main, Target} \subseteq Branch
  /\ BranchBase \in Branch \cup {None}
  /\ Reuse \in BOOLEAN
  /\ Phases \in Seq(Seq(Command))
  /\ LoopPhase \in 0 .. Len(Phases) /\ MaxRounds \in Nat
  /\ {Env, Marker} \subseteq Change /\ Env # Marker
  /\ Own \in Seq(Change \ {Env, Marker}) /\ Others \in Seq(Change \ {Env, Marker})

ASSUME PullRequestAssumption == None \notin [base : Branch]

VARIABLES
  inPlace,  \* the configuration names a directory, nothing is cloned
  heads,    \* the local branches
  tracked,  \* the remote-tracking branches
  head,     \* the branch HEAD is on, None when detached
  loose,    \* the detached history of a stopped rebase, None if there is none
  tree,     \* uncommitted changes
  staged,   \* those in the index
  pc, step, \* place in the command, and in the phase
  start,    \* starting_branch of prepare_git_execution
  mem,      \* git_state
  ctx,      \* its copy in the context (:git.*), and the result of the checks
  phase,    \* phases recorded in the state file
  rounds,   \* goto_counts
  pr,       \* the pull request of the branch
  ci,       \* what GitHub says of its checks
  edits, moves  \* how many of Own and Others have been made

copy == <<heads, tracked, head, loose, tree, staged>>
process == <<pc, step, start, mem, rounds>>
saved == <<ctx, phase>>
github == <<pr, ci>>
gitVars == <<inPlace, copy, process, saved, github, edits, moves>>
vars == <<cacheVars, gitVars>>

Pushes == \E p \in ToSet(Phases) : "push" \in ToSet(p)

cacheRest == <<bare, holder, clone, recorded, torn, refused>>

(* Places within a command; "next" is between commands, "down" without one. *)
InCommand ==
  {"checkout", "fetchBase", "create", "createLocal", "sync", "compare", "recordStart", "recordSelected",
   "unstage", "commit", "recordMessage", "fetch", "rebase", "abort", "repush",
   "number", "recordStatus"}

CheckState == {"absent", "pending", "passed", "failed"}

NoGitState == [starting |-> None, selected |-> None, message |-> FALSE]

GitState == [starting : Branch \cup {None}, selected : Branch \cup {None}, message : BOOLEAN]

Unchecked == [c \in Check |-> "absent"]

(* results and status are the two keys of git:pr-checks-wait. *)
Context == [git : GitState, number : BOOLEAN, results : [Check -> CheckState],
            status : BOOLEAN]

NoContext == [git |-> NoGitState, number |-> FALSE, results |-> Unchecked, status |-> FALSE]

GitTypeOK ==
  /\ CacheTypeOK
  /\ inPlace \in BOOLEAN
  /\ heads \in Branches /\ tracked \in Branches
  /\ head \in Branch \cup {None} /\ loose \in History \cup {None}
  /\ tree \subseteq Change /\ staged \subseteq Change
  /\ pc \in InCommand \cup {"down", "next", "done"}
  /\ step \in Nat \ {0}
  /\ start \in Branch \cup {None} /\ mem \in GitState
  /\ ctx \in Context /\ phase \in 0 .. Len(Phases) /\ rounds \in 0 .. MaxRounds
  /\ pr \in [base : Branch] \cup {None}
  /\ ci \in [Check -> CheckState]
  /\ edits \in 0 .. Len(Own) /\ moves \in 0 .. Len(Others)

-----------------------------------------------------------------------------
(* Local branches after `git clone`, and after the checkout of the `ref`. *)
LocalBranches(remoteHeads) ==
  [b \in Branch |-> IF b = Main \/ b = Ref THEN remoteHeads[b] ELSE None]

Init ==
  /\ remote = [b \in Branch |-> IF b = Main THEN << {} >> ELSE None]
  /\ CacheInit
  /\ inPlace \in BOOLEAN
  /\ heads = LocalBranches(remote) /\ tracked = remote
  /\ head = Main /\ loose = None
  /\ tree = {} /\ staged = {}
  /\ pc = "down" /\ step = 1 /\ start = None /\ mem = NoGitState
  /\ ctx = NoContext /\ phase = 0 /\ rounds = 0
  /\ pr = None /\ ci = Unchecked
  /\ edits = 0 /\ moves = 0

(* restore_git_run_state: what the context remembers of the branch. *)
EnterExecution(context) ==
  /\ pc' = "next" /\ step' = 1 /\ start' = None /\ rounds' = 0
  /\ mem' = context.git

(* A new run clears the context and the progress.  A directory that is the *)
(* user's is on the branch the user has left it on.                        *)
FreshRun ==
  /\ pc \in {"down", "done"} /\ at[Self] = "idle"
  /\ ctx' = NoContext /\ phase' = 0
  /\ \/ /\ inPlace
        /\ EnterExecution(NoContext)
        /\ head' \in IF loose = None /\ tree \subseteq {Env}
                     THEN {b \in Branch : heads[b] # None} ELSE {head}
        /\ UNCHANGED cacheVars
     \/ /\ ~ inPlace
        /\ BeginRun(Self)
        /\ pc' = "down"
        /\ UNCHANGED <<step, start, mem, rounds, head>>
  /\ UNCHANGED <<inPlace, heads, tracked, loose, tree, staged, github, edits, moves>>

Resume ==
  /\ pc = "down" /\ at[Self] = "idle"
  /\ \/ inPlace /\ EnterExecution(ctx) /\ UNCHANGED cacheVars
     \/ ~ inPlace /\ ResumeRun(Self) /\ UNCHANGED process
  /\ UNCHANGED <<inPlace, copy, saved, github, edits, moves>>

SelfClones ==
  /\ ~ inPlace
  /\ CloneStep(Self)
  /\ UNCHANGED gitVars

(* What was cloned is the working copy from now on. *)
SelfRecords ==
  /\ Record(Self)
  /\ heads' = LocalBranches(clone[Self].heads) /\ tracked' = clone[Self].heads
  /\ head' = IF Ref = None THEN Main ELSE Ref
  /\ loose' = None /\ tree' = {} /\ staged' = {}
  /\ UNCHANGED <<inPlace, process, saved, github, edits, moves>>

Enter ==
  /\ pc = "down" /\ at[Self] = "ready"
  /\ EnterExecution(ctx)
  /\ UNCHANGED <<cacheVars, inPlace, copy, saved, github, edits, moves>>

(* The process ends, for whatever reason; the next one starts anew. *)
Quit(place) ==
  /\ pc' = place /\ step' = 1 /\ start' = None /\ mem' = NoGitState /\ rounds' = 0
  /\ EndRun(Self)

Proceed == pc' = "next" /\ step' = step + 1

Doing(command) ==
  /\ pc = "next" /\ phase < Len(Phases)
  /\ step <= Len(Phases[phase + 1]) /\ Phases[phase + 1][step] = command

-----------------------------------------------------------------------------
(* git:branch *)

(* working_tree_has_changes leaves .env files out. *)
Dirty == tree \ {Env} # {}

Base == IF BranchBase = None THEN start ELSE BranchBase

BranchKnown ==
  /\ Doing("branch") /\ mem.selected # None
  /\ Proceed
  /\ UNCHANGED <<cacheVars, inPlace, copy, start, mem, rounds, saved, github, edits, moves>>

BranchBegin ==
  /\ Doing("branch") /\ mem.selected = None
  /\ head # None /\ ~ Dirty
  /\ heads[Target] = None \/ head = Target \/ Reuse
  /\ start' = head
  /\ pc' = CASE head = Target -> "sync"
             [] head # Target /\ heads[Target] # None -> "checkout"
             [] heads[Target] = None -> IF Pushes THEN "fetchBase" ELSE "createLocal"
  /\ UNCHANGED <<cacheVars, inPlace, copy, step, mem, rounds, saved, github, edits, moves>>

CheckoutTarget ==
  /\ pc = "checkout"
  /\ head' = Target
  /\ pc' = "sync"
  /\ UNCHANGED <<cacheVars, inPlace, heads, tracked, loose, tree, staged, step, start, mem,
                 rounds, saved, github, edits, moves>>

(* A fetch that fails leaves the local branch to go on with. *)
FetchForBranch(branch, fetchedPlace, localPlace) ==
  \/ /\ remote[branch] # None
     /\ tracked' = [tracked EXCEPT ![branch] = remote[branch]]
     /\ pc' = fetchedPlace
     /\ UNCHANGED stops
  \/ /\ (remote[branch] = None /\ UNCHANGED stops) \/ Stop
     /\ heads[branch] # None
     /\ pc' = localPlace
     /\ UNCHANGED tracked

FetchBase ==
  /\ pc = "fetchBase"
  /\ FetchForBranch(Base, "create", "createLocal")
  /\ UNCHANGED <<remote, at, cacheRest, inPlace, heads, head, loose, tree, staged, step, start,
                 mem, rounds, saved, github, edits, moves>>

CreateBranch ==
  LET base == IF pc = "create" THEN tracked[Base] ELSE heads[Base] IN
  /\ pc \in {"create", "createLocal"} /\ base # None
  /\ heads' = [heads EXCEPT ![Target] = base]
  /\ head' = Target
  /\ pc' = "recordStart"
  /\ UNCHANGED <<cacheVars, inPlace, tracked, loose, tree, staged, step, start, mem, rounds,
                 saved, github, edits, moves>>

FetchTarget ==
  /\ pc = "sync"
  /\ \/ Pushes /\ FetchForBranch(Target, "compare", "recordStart")
     \/ ~ Pushes /\ pc' = "recordStart" /\ UNCHANGED <<stops, tracked>>
  /\ UNCHANGED <<remote, at, cacheRest, inPlace, heads, head, loose, tree, staged, step, start,
                 mem, rounds, saved, github, edits, moves>>

(* Equal or behind; ahead and diverged are errors. *)
FastForward ==
  /\ pc = "compare" /\ IsPrefix(heads[Target], tracked[Target])
  /\ heads' = [heads EXCEPT ![Target] = tracked[Target]]
  /\ pc' = "recordStart"
  /\ UNCHANGED <<cacheVars, inPlace, tracked, head, loose, tree, staged, step, start, mem,
                 rounds, saved, github, edits, moves>>

(* git_state has both names before the context has the first. *)
RecordStart ==
  /\ pc = "recordStart"
  /\ mem' = [mem EXCEPT !.starting = start, !.selected = Target]
  /\ ctx' = [ctx EXCEPT !.git.starting = start]
  /\ pc' = "recordSelected"
  /\ UNCHANGED <<cacheVars, inPlace, copy, step, start, rounds, phase, github, edits, moves>>

RecordSelected ==
  /\ pc = "recordSelected"
  /\ ctx' = [ctx EXCEPT !.git.selected = mem.selected]
  /\ Proceed
  /\ UNCHANGED <<cacheVars, inPlace, copy, start, mem, rounds, phase, github, edits, moves>>

-----------------------------------------------------------------------------
(* An agent changes the tree, .env files too, and need not change anything. *)
Agent ==
  /\ Doing("agent")
  /\ \/ /\ edits < Len(Own)
        /\ \E more \in SUBSET {Env} : tree' = tree \cup {Own[edits + 1]} \cup more
        /\ edits' = edits + 1
     \/ UNCHANGED <<tree, edits>>
  /\ Proceed
  /\ UNCHANGED <<cacheVars, inPlace, heads, tracked, head, loose, staged, start, mem, rounds,
                 saved, github, moves>>

(* git:commit *)
CommitNothing ==
  /\ Doing("commit") /\ ~ Dirty
  /\ Proceed
  /\ UNCHANGED <<cacheVars, inPlace, copy, start, mem, rounds, saved, github, edits, moves>>

CommitStage ==
  /\ Doing("commit") /\ Dirty
  /\ staged' = tree
  /\ pc' = "unstage"
  /\ UNCHANGED <<cacheVars, inPlace, heads, tracked, head, loose, tree, step, start, mem,
                 rounds, saved, github, edits, moves>>

(* Mutant: .env files stay in the index. *)
UnstageNothing ==
  /\ pc = "unstage"
  /\ pc' = "commit"
  /\ UNCHANGED <<cacheVars, inPlace, copy, step, start, mem, rounds, saved, github, edits, moves>>

UnstageEnv ==
  /\ pc = "unstage"
  /\ staged' = staged \ {Env}
  /\ pc' = "commit"
  /\ UNCHANGED <<cacheVars, inPlace, heads, tracked, head, loose, tree, step, start, mem,
                 rounds, saved, github, edits, moves>>

(* A commit in the middle of a rebase is on no branch. *)
MakeCommit ==
  /\ pc = "commit"
  /\ IF head # None
     THEN heads' = [heads EXCEPT ![head] = Append(@, staged)] /\ UNCHANGED loose
     ELSE loose' = Append(loose, staged) /\ UNCHANGED heads
  /\ tree' = tree \ staged /\ staged' = {}
  /\ pc' = "recordMessage"
  /\ UNCHANGED <<cacheVars, inPlace, tracked, head, step, start, mem, rounds, saved, github,
                 edits, moves>>

RecordMessage ==
  /\ pc = "recordMessage"
  /\ mem' = [mem EXCEPT !.message = TRUE]
  /\ ctx' = [ctx EXCEPT !.git.message = TRUE]
  /\ Proceed
  /\ UNCHANGED <<cacheVars, inPlace, copy, start, rounds, phase, github, edits, moves>>

-----------------------------------------------------------------------------
(* git:push *)

(* Mutant: push --force. *)
AcceptedAlways == TRUE

(* The remote repository takes a push that only adds commits. *)
Accepted ==
  IF remote[mem.selected] = None THEN TRUE
  ELSE IsPrefix(remote[mem.selected], heads[mem.selected])

Update(branch, history) ==
  /\ remote' = [remote EXCEPT ![branch] = history]
  /\ ci' = IF branch = Target /\ remote[branch] # history THEN Unchecked ELSE ci

(* The first push, or the one after the rebase. *)
Push ==
  /\ \/ Doing("push") /\ mem.selected # None
     \/ pc = "repush"
  /\ Accepted
  /\ Update(mem.selected, heads[mem.selected])
  /\ tracked' = [tracked EXCEPT ![mem.selected] = heads[mem.selected]]
  /\ Proceed
  /\ UNCHANGED <<at, stops, cacheRest, inPlace, heads, head, loose, tree, staged, start, mem,
                 rounds, saved, pr, edits, moves>>

(* Mutant: a rejected push is only logged. *)
PushRejectedIgnored ==
  /\ Doing("push") /\ mem.selected # None
  /\ (~ Accepted /\ UNCHANGED stops) \/ Stop
  /\ Proceed
  /\ UNCHANGED <<remote, at, cacheRest, inPlace, copy, start, mem, rounds, saved, github, edits,
                 moves>>

PushRejected ==
  /\ Doing("push") /\ mem.selected # None
  /\ (~ Accepted /\ UNCHANGED stops) \/ Stop
  /\ pc' = "fetch"
  /\ UNCHANGED <<remote, at, cacheRest, inPlace, copy, step, start, mem, rounds, saved, github,
                 edits, moves>>

FetchForRebase ==
  /\ pc = "fetch" /\ remote[mem.selected] # None
  /\ tracked' = [tracked EXCEPT ![mem.selected] = remote[mem.selected]]
  /\ pc' = "rebase"
  /\ UNCHANGED <<cacheVars, inPlace, heads, head, loose, tree, staged, step, start, mem, rounds,
                 saved, github, edits, moves>>

(* The commits of a branch that are not in the one it is rebased onto. *)
LocalCommits(own, upstream) ==
  SubSeq(own, Len(LongestCommonPrefix({own, upstream})) + 1, Len(own))

(* Those of them that upstream does not have already, in their order. *)
Replayed(commits, upstream) ==
  LET replayed[n \in 0 .. Len(commits)] ==
        IF n = 0 THEN <<>>
        ELSE IF commits[n] \in ToSet(upstream) THEN replayed[n - 1]
        ELSE Append(replayed[n - 1], commits[n])
  IN replayed[Len(commits)]

Rebased(own, upstream) == upstream \o Replayed(LocalCommits(own, upstream), upstream)

Rebase ==
  /\ pc = "rebase" /\ loose = None
  /\ heads' = [heads EXCEPT ![head] = Rebased(@, tracked[mem.selected])]
  /\ pc' = "repush"
  /\ UNCHANGED <<cacheVars, inPlace, tracked, head, loose, tree, staged, step, start, mem,
                 rounds, saved, github, edits, moves>>

(* Conflicts stop it, with HEAD detached, unless one side has nothing new; *)
(* changes in the tree, or a rebase stopped earlier, make git refuse.      *)
RebaseFails ==
  /\ pc = "rebase"
  /\ \/ /\ loose = None /\ ~ Dirty
        /\ LocalCommits(heads[head], tracked[mem.selected]) # <<>>
        /\ LocalCommits(tracked[mem.selected], heads[head]) # <<>>
        /\ loose' = tracked[mem.selected]
        /\ head' = None
        /\ tree' = tree \cup {Marker}
     \/ (loose # None \/ Dirty) /\ UNCHANGED <<loose, head, tree>>
  /\ pc' = "abort"
  /\ UNCHANGED <<cacheVars, inPlace, heads, tracked, staged, step, start, mem, rounds, saved,
                 github, edits, moves>>

(* Either way the command fails; aborting throws away what is not          *)
(* committed, except untracked files, and may itself fail.                 *)
AbortRebase ==
  /\ pc = "abort"
  /\ \/ /\ loose # None
        /\ head' = mem.selected /\ loose' = None
        /\ tree' = tree \cap {Env} /\ staged' = {}
        /\ UNCHANGED stops
     \/ loose = None /\ UNCHANGED <<head, loose, tree, staged, stops>>
     \/ Stop /\ UNCHANGED <<head, loose, tree, staged>>
  /\ Quit("down")
  /\ UNCHANGED <<remote, inPlace, heads, tracked, saved, github, edits, moves>>

-----------------------------------------------------------------------------
(* git:pr *)
PrBase == IF BranchBase = None THEN mem.starting ELSE BranchBase

(* GitHub wants both branches, and something new on the first. *)
PrPossible ==
  /\ remote[mem.selected] # None
  /\ PrBase # None /\ remote[PrBase] # None
  /\ ~ IsPrefix(remote[mem.selected], remote[PrBase])

(* A pull request that exists is taken as it is. *)
CreatePr ==
  /\ Doing("pr") /\ mem.selected # None
  /\ \/ pr # None /\ UNCHANGED github
     \/ pr = None /\ PrPossible /\ pr' = [base |-> PrBase] /\ ci' = Unchecked
  /\ pc' = "number"
  /\ UNCHANGED <<cacheVars, inPlace, copy, step, start, mem, rounds, saved, edits, moves>>

StoreNumber ==
  /\ pc = "number"
  /\ ctx' = [ctx EXCEPT !.number = TRUE]
  /\ Proceed
  /\ UNCHANGED <<cacheVars, inPlace, copy, start, mem, rounds, phase, github, edits, moves>>

-----------------------------------------------------------------------------
(* git:pr-checks-wait *)
Present == {c \in Check : pr # None /\ ci[c] # "absent"}

Settled == Present # {} /\ \A c \in Present : ci[c] # "pending"

Passed(results) == \A c \in Check : results[c] # "failed"

ChecksSettled ==
  /\ Doing("checks") /\ Settled
  /\ ctx' = [ctx EXCEPT !.results = ci]
  /\ pc' = "recordStatus"
  /\ UNCHANGED <<cacheVars, inPlace, copy, step, start, mem, rounds, phase, github, edits, moves>>

RecordStatus ==
  /\ pc = "recordStatus"
  /\ ctx' = [ctx EXCEPT !.status = Passed(ctx.results)]
  /\ Proceed
  /\ UNCHANGED <<cacheVars, inPlace, copy, start, mem, rounds, phase, github, edits, moves>>

ChecksTimeOut ==
  /\ Doing("checks") /\ ~ Settled
  /\ Quit("down")
  /\ UNCHANGED <<remote, stops, inPlace, copy, saved, github, edits, moves>>

-----------------------------------------------------------------------------
(* The phases around the commands *)
SavePhase ==
  /\ pc = "next" /\ phase < Len(Phases) /\ step > Len(Phases[phase + 1])
  /\ phase' = phase + 1 /\ step' = 1
  /\ UNCHANGED <<cacheVars, inPlace, copy, pc, start, mem, rounds, ctx, github, edits, moves>>

Succeeded == LoopPhase = 0 \/ ctx.status

(* Mutant: one round more than max_goto. *)
GoBackOnceMore ==
  /\ pc = "next" /\ phase = Len(Phases) /\ ~ Succeeded /\ rounds <= MaxRounds
  /\ phase' = LoopPhase /\ rounds' = rounds + 1
  /\ UNCHANGED <<cacheVars, inPlace, copy, pc, step, start, mem, ctx, github, edits, moves>>

(* Mutant: the rounds are not counted. *)
GoBackUncounted ==
  /\ pc = "next" /\ phase = Len(Phases) /\ ~ Succeeded /\ rounds < MaxRounds
  /\ phase' = LoopPhase
  /\ UNCHANGED <<cacheVars, inPlace, copy, pc, step, start, mem, rounds, ctx, github, edits,
                 moves>>

(* A task with `when: "!:checks-passed"` sends the execution round again. *)
GoBack ==
  /\ pc = "next" /\ phase = Len(Phases) /\ ~ Succeeded /\ rounds < MaxRounds
  /\ phase' = LoopPhase /\ rounds' = rounds + 1
  /\ UNCHANGED <<cacheVars, inPlace, copy, pc, step, start, mem, ctx, github, edits, moves>>

Complete ==
  /\ pc = "next" /\ phase = Len(Phases) /\ Succeeded
  /\ Quit("done")
  /\ UNCHANGED <<remote, stops, inPlace, copy, saved, github, edits, moves>>

(* What the code, git or GitHub refuses whatever the network does. *)
Refused ==
  \/ Doing("branch") /\ mem.selected = None /\ (head = None \/ Dirty)
  \/ Doing("branch") /\ mem.selected = None /\ head # Target /\ heads[Target] # None /\ ~ Reuse
  \/ pc = "fetchBase" /\ remote[Base] = None /\ heads[Base] = None
  \/ pc = "createLocal" /\ heads[Base] = None
  \/ pc = "compare" /\ ~ IsPrefix(heads[Target], tracked[Target])
  \/ pc = "commit" /\ staged = {}
  \/ (Doing("push") \/ Doing("pr")) /\ mem.selected = None
  \/ pc = "fetch" /\ remote[mem.selected] = None
  \/ pc = "repush" /\ ~ Accepted
  \/ Doing("pr") /\ mem.selected # None /\ pr = None /\ ~ PrPossible
  \/ pc = "next" /\ phase = Len(Phases) /\ ~ Succeeded /\ rounds = MaxRounds

RaiseError ==
  /\ Refused
  /\ Quit("down")
  /\ UNCHANGED <<remote, stops, inPlace, copy, saved, github, edits, moves>>

(* A command fails for reasons of its own. *)
CommandFails ==
  \/ /\ pc \notin {"down", "done", "abort"}
     /\ Stop
     /\ Quit("down")
     /\ UNCHANGED <<remote, inPlace, copy, saved, github, edits, moves>>
  \/ ~ inPlace /\ CloneFails(Self) /\ UNCHANGED gitVars

Crash ==
  /\ \/ inPlace /\ pc \notin {"down", "done"} /\ Stop
        /\ UNCHANGED <<remote, bare, holder, at, clone, recorded, torn, refused>>
     \/ ~ inPlace /\ CacheCrash(Self)
  /\ pc' = "down" /\ step' = 1 /\ start' = None /\ mem' = NoGitState /\ rounds' = 0
  /\ UNCHANGED <<inPlace, copy, saved, github, edits, moves>>

ClearSelf ==
  /\ ClearForce(Self) /\ pc \in {"down", "done"}
  /\ pc' = "down"
  /\ ctx' = NoContext /\ phase' = 0
  /\ UNCHANGED <<inPlace, copy, step, start, mem, rounds, github, edits, moves>>

-----------------------------------------------------------------------------
(* The rest of the world *)
OthersPush(branch) ==
  /\ remote[branch] # None /\ moves < Len(Others)
  /\ Update(branch, Append(remote[branch], {Others[moves + 1]}))
  /\ moves' = moves + 1
  /\ UNCHANGED <<at, stops, cacheRest, inPlace, copy, process, saved, pr, edits>>

(* Checks appear one by one and come to an end. *)
CiMoves(c) ==
  /\ pr # None
  /\ \/ ci[c] = "absent" /\ ci' = [ci EXCEPT ![c] = "pending"]
     \/ ci[c] = "pending" /\ \E s \in {"passed", "failed"} : ci' = [ci EXCEPT ![c] = s]
  /\ UNCHANGED <<cacheVars, inPlace, copy, process, saved, pr, edits, moves>>

ProcessStep ==
  \/ SelfClones \/ SelfRecords \/ Enter
  \/ BranchKnown \/ BranchBegin \/ CheckoutTarget \/ FetchBase \/ CreateBranch \/ FetchTarget
  \/ FastForward \/ RecordStart \/ RecordSelected
  \/ Agent \/ CommitNothing \/ CommitStage \/ UnstageEnv \/ MakeCommit \/ RecordMessage
  \/ Push \/ PushRejected \/ FetchForRebase \/ Rebase \/ RebaseFails \/ AbortRebase
  \/ CreatePr \/ StoreNumber \/ ChecksSettled \/ RecordStatus \/ ChecksTimeOut
  \/ SavePhase \/ GoBack \/ Complete \/ RaiseError

Next ==
  \/ FreshRun \/ Resume \/ ProcessStep \/ CommandFails \/ Crash \/ ClearSelf
  \/ \E b \in Branch : OthersPush(b)
  \/ \E c \in Check : CiMoves(c)
  \/ \E r \in Run \ {Self} : RunNext(r) /\ UNCHANGED gitVars

Spec == Init /\ [][Next]_vars

(* The process takes its next step; a wait for checks ends by its timeout. *)
FairSpec == Spec /\ WF_vars(ProcessStep)

-----------------------------------------------------------------------------
Changes(history) == IF history = None THEN {} ELSE UNION ToSet(history)

(* Nothing that was committed is lost: the remote branches only grow, and  *)
(* a local branch keeps its changes through fast-forwards, rebases, failed *)
(* rebases and crashes, for as long as its working copy is used            *)
(* (git_publish.py:85-155, git_repo.py:166-207).                           *)
NothingCommittedLost ==
  [][/\ \A b \in Branch : remote[b] # None => IsPrefix(remote[b], remote'[b])
     /\ clone'[Self] = clone[Self] /\ recorded' = recorded =>
          \A b \in Branch : Changes(heads[b]) \subseteq Changes(heads'[b])]_vars

(* What is published is work: neither an .env file, which is staged with   *)
(* everything else before it is taken out again (git_publish.py:47-53),    *)
(* nor conflict markers, which a resumed run finds in the tree when an     *)
(* earlier one died in the middle of a rebase (git_publish.py:125-142).    *)
OnlyWorkPublished ==
  \A b \in Branch : Changes(remote[b]) \cap {Env, Marker} = {}

(* The phase p publishes what the execution made: it commits, pushes what  *)
(* it committed and has a pull request opened, and no agent and no other   *)
(* push comes after.                                                       *)
PublishedBy(p, commit, push, request) ==
  /\ p \in DOMAIN Phases /\ {commit, push, request} \subseteq DOMAIN Phases[p]
  /\ Phases[p][commit] = "commit" /\ Phases[p][push] = "push" /\ Phases[p][request] = "pr"
  /\ commit < push
  /\ \A i \in DOMAIN Phases[p] :
       /\ i > commit => Phases[p][i] # "agent"
       /\ i > push => Phases[p][i] # "push"
  /\ \A q \in DOMAIN Phases : q > p => {"agent", "push"} \cap ToSet(Phases[q]) = {}

PublishesLast ==
  \E p \in DOMAIN Phases : \E commit, push, request \in DOMAIN Phases[p] :
    PublishedBy(p, commit, push, request)

(* An execution that publishes last has, when it is complete, everything   *)
(* it committed in the remote branch of a pull request, whichever commands *)
(* were cut short, repeated or rebased on the way (git_runtime.py:93-132). *)
CompletedIsPublished ==
  pc = "done" /\ PublishesLast =>
    /\ remote[Target] # None
    /\ Changes(heads[Target]) \subseteq Changes(remote[Target])
    /\ head = Target /\ loose = None /\ ~ Dirty
    /\ pr # None /\ ctx.number

(* The process comes to an end: no chain of pushes, rebases, waits for     *)
(* checks and gotos goes on for ever (git_publish.py:105, 348).            *)
RunEnds ==
  (pc \notin {"down", "done"} \/ at[Self] # "idle")
    ~> (pc \in {"down", "done"} /\ at[Self] = "idle")
=============================================================================
