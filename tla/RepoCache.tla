------------------------------ MODULE RepoCache ------------------------------
(***************************************************************************)
(* clone_single_repository: how the runs that share a cache directory get  *)
(* their clones of one remote repository, through a bare repository that a *)
(* file lock guards, and what a crash leaves behind.                       *)
(*                                                                         *)
(* A commit is the set of changes it makes, a branch the sequence of its   *)
(* commits; equal prefixes are equal commits, as with git's hashes.        *)
(***************************************************************************)
EXTENDS Naturals, Sequences

CONSTANTS
  Run,       \* the processes that want a clone
  Branch,    \* branches of the repository
  Change,    \* what a commit may change
  Ref,       \* the repository's `ref`, None if it has none
  None,      \* no branch, no directory, nobody
  MaxCommits, \* bound on the commits of a branch that others move
  MaxStops   \* bound on crashes and failures

ASSUME CacheAssumption ==
  /\ None \notin Branch /\ None \notin Run
  /\ Ref \in Branch \cup {None}
  /\ MaxCommits \in Nat /\ MaxStops \in Nat

VARIABLES
  remote,    \* the branches of the remote repository
  bare,      \* the directory {repo_cache_dir}/{name}.git
  holder,    \* who holds the lock file
  at,        \* where clone_single_repository is, for every run
  clone,     \* the directory every run has cloned into
  recorded,  \* the runs whose state file names their clone (cloned_repos)
  stops,     \* counter for the bound
  torn,      \* history: a run died between the two halves of a bare clone
  refused    \* history: a run found a bare directory without a marker

cacheVars == <<remote, bare, holder, at, clone, recorded, stops, torn, refused>>

History == Seq(SUBSET Change)

Branches == [Branch -> History \cup {None}]

(* marked: the marker file is there; onRef: the `ref` is checked out. *)
BareDirectory == [heads : Branches \cup {None}, marked : BOOLEAN]
CloneDirectory == [heads : Branches, onRef : BOOLEAN, marked : BOOLEAN]

(* None can be told from what there is. *)
ASSUME NoneAssumption ==
  /\ None \notin Branches /\ None \notin CloneDirectory
  /\ None \notin History /\ None \notin BareDirectory

(* "idle": the run has no process; "ready": its clone can be worked in; the *)
(* other places are named after what comes next.                           *)
Place == {"idle", "lock", "refresh", "bareClone", "fill", "mark", "copy", "checkout",
          "label", "record", "ready"}

CacheTypeOK ==
  /\ remote \in Branches
  /\ bare \in BareDirectory \cup {None}
  /\ holder \in Run \cup {None}
  /\ at \in [Run -> Place]
  /\ clone \in [Run -> CloneDirectory \cup {None}]
  /\ recorded \subseteq Run
  /\ stops \in 0 .. MaxStops
  /\ torn \in BOOLEAN /\ refused \in BOOLEAN

-----------------------------------------------------------------------------
CacheInit ==
  /\ bare = None /\ holder = None
  /\ at = [r \in Run |-> "idle"]
  /\ clone = [r \in Run |-> None]
  /\ recorded = {}
  /\ stops = 0
  /\ torn = FALSE /\ refused = FALSE

Stop == stops < MaxStops /\ stops' = stops + 1

(* A fresh run has a state file without clones. *)
BeginRun(r) ==
  /\ at[r] = "idle"
  /\ at' = [at EXCEPT ![r] = "lock"]
  /\ clone' = [clone EXCEPT ![r] = None]
  /\ recorded' = recorded \ {r}
  /\ UNCHANGED <<remote, bare, holder, stops, torn, refused>>

(* A resumed run takes the clone its state file names, or makes one. *)
ResumeRun(r) ==
  /\ at[r] = "idle"
  /\ at' = [at EXCEPT ![r] = IF r \in recorded THEN "ready" ELSE "lock"]
  /\ UNCHANGED <<remote, bare, holder, clone, recorded, stops, torn, refused>>

(* Mutant: no lock. *)
LockShared(r) ==
  /\ at[r] = "lock"
  /\ holder' = r
  /\ at' = [at EXCEPT ![r] = IF bare # None /\ bare.marked THEN "refresh" ELSE "bareClone"]
  /\ UNCHANGED <<remote, bare, clone, recorded, stops, torn, refused>>

Lock(r) ==
  /\ at[r] = "lock" /\ holder = None
  /\ holder' = r
  /\ at' = [at EXCEPT ![r] = IF bare # None /\ bare.marked THEN "refresh" ELSE "bareClone"]
  /\ UNCHANGED <<remote, bare, clone, recorded, stops, torn, refused>>

(* What `git fetch origin` brings to a repository made by `git clone       *)
(* --bare`: no refspec is configured, so FETCH_HEAD and no branch.         *)
FetchIntoBare(heads) == heads

Refresh(r) ==
  /\ at[r] = "refresh"
  /\ bare' = [bare EXCEPT !.heads = FetchIntoBare(@)]
  /\ at' = [at EXCEPT ![r] = "copy"]
  /\ UNCHANGED <<remote, holder, clone, recorded, stops, torn, refused>>

(* A directory that is there without the marker is in the way. *)
BareClone(r) ==
  /\ at[r] = "bareClone" /\ bare = None
  /\ bare' = [heads |-> None, marked |-> FALSE]
  /\ at' = [at EXCEPT ![r] = "fill"]
  /\ UNCHANGED <<remote, holder, clone, recorded, stops, torn, refused>>

FillBare(r) ==
  /\ at[r] = "fill"
  /\ bare' = [bare EXCEPT !.heads = remote]
  /\ at' = [at EXCEPT ![r] = "mark"]
  /\ UNCHANGED <<remote, holder, clone, recorded, stops, torn, refused>>

MarkBare(r) ==
  /\ at[r] = "mark"
  /\ bare' = [bare EXCEPT !.marked = TRUE]
  /\ at' = [at EXCEPT ![r] = "copy"]
  /\ UNCHANGED <<remote, holder, clone, recorded, stops, torn, refused>>

(* Mutant: the state file names the clone as soon as it is there. *)
CopyRecorded(r) ==
  /\ at[r] = "copy"
  /\ clone' = [clone EXCEPT ![r] = [heads |-> bare.heads, onRef |-> Ref = None,
                                    marked |-> FALSE]]
  /\ holder' = None
  /\ recorded' = recorded \cup {r}
  /\ at' = [at EXCEPT ![r] = "checkout"]
  /\ UNCHANGED <<remote, bare, stops, torn, refused>>

(* A clone of the bare repository, in a directory of its own; the lock is  *)
(* released.                                                               *)
Copy(r) ==
  /\ at[r] = "copy"
  /\ clone' = [clone EXCEPT ![r] = [heads |-> bare.heads, onRef |-> Ref = None,
                                    marked |-> FALSE]]
  /\ holder' = None
  /\ at' = [at EXCEPT ![r] = "checkout"]
  /\ UNCHANGED <<remote, bare, recorded, stops, torn, refused>>

RefFound(r) == Ref \in {None} \cup {b \in Branch : clone[r].heads[b] # None}

Checkout(r) ==
  /\ at[r] = "checkout"
  /\ RefFound(r)
  /\ clone' = [clone EXCEPT ![r].onRef = TRUE]
  /\ at' = [at EXCEPT ![r] = "label"]
  /\ UNCHANGED <<remote, bare, holder, recorded, stops, torn, refused>>

Label(r) ==
  /\ at[r] = "label"
  /\ clone' = [clone EXCEPT ![r].marked = TRUE]
  /\ at' = [at EXCEPT ![r] = "record"]
  /\ UNCHANGED <<remote, bare, holder, recorded, stops, torn, refused>>

(* _ensure_repo_cloned saves the run state with the path of the clone. *)
Record(r) ==
  /\ at[r] = "record"
  /\ recorded' = recorded \cup {r}
  /\ at' = [at EXCEPT ![r] = "ready"]
  /\ UNCHANGED <<remote, bare, holder, clone, stops, torn, refused>>

(* The process is gone: the lock is released, a directory that no state    *)
(* file names is never found again.                                        *)
Forget(r) ==
  /\ at' = [at EXCEPT ![r] = "idle"]
  /\ holder' = IF holder = r THEN None ELSE holder
  /\ clone' = IF r \in recorded THEN clone ELSE [clone EXCEPT ![r] = None]

(* Errors that no crash or failure of a command explains: the bare         *)
(* directory is in the way, or the cache does not have the `ref`.          *)
Refuse(r) ==
  /\ \/ at[r] = "bareClone" /\ bare # None /\ refused' = TRUE
     \/ at[r] = "checkout" /\ ~ RefFound(r) /\ UNCHANGED refused
  /\ Forget(r)
  /\ UNCHANGED <<remote, bare, recorded, stops, torn>>

(* A git command fails. `git clone` takes away what it has made. *)
CloneFails(r) ==
  /\ at[r] \in {"refresh", "fill", "copy", "checkout"}
  /\ Stop
  /\ bare' = IF at[r] = "fill" THEN None ELSE bare
  /\ Forget(r)
  /\ UNCHANGED <<remote, recorded, torn, refused>>

CacheCrash(r) ==
  /\ at[r] # "idle"
  /\ Stop
  /\ torn' = (torn \/ at[r] \in {"fill", "mark"})
  /\ Forget(r)
  /\ UNCHANGED <<remote, bare, recorded, refused>>

(* `propagate clear --force` deletes the clones that carry the marker,     *)
(* and the state file.                                                     *)
ClearForce(r) ==
  /\ at[r] = "idle" /\ r \in recorded
  /\ clone' = IF clone[r].marked THEN [clone EXCEPT ![r] = None] ELSE clone
  /\ recorded' = recorded \ {r}
  /\ UNCHANGED <<remote, bare, holder, at, stops, torn, refused>>

(* The run is over: its clone stays where it is. *)
EndRun(r) ==
  /\ at' = [at EXCEPT ![r] = "idle"]
  /\ UNCHANGED <<bare, holder, clone, recorded, torn, refused>>

CloneStep(r) ==
  \/ Lock(r) \/ Refresh(r) \/ BareClone(r) \/ FillBare(r) \/ MarkBare(r) \/ Copy(r)
  \/ Checkout(r) \/ Label(r) \/ Refuse(r)

(* Others push to the remote repository, or make a branch in it. *)
RemoteMoves(b) ==
  /\ IF remote[b] = None
     THEN \E other \in Branch : remote[other] # None
                               /\ remote' = [remote EXCEPT ![b] = remote[other]]
     ELSE /\ Len(remote[b]) < MaxCommits
          /\ \E c \in Change : remote' = [remote EXCEPT ![b] = Append(@, {c})]
  /\ UNCHANGED <<bare, holder, at, clone, recorded, stops, torn, refused>>

Finish(r) ==
  /\ at[r] = "ready"
  /\ EndRun(r)
  /\ UNCHANGED <<remote, stops>>

RunNext(r) ==
  \/ BeginRun(r) \/ ResumeRun(r) \/ CloneStep(r) \/ Record(r)
  \/ Finish(r) \/ CloneFails(r) \/ CacheCrash(r) \/ ClearForce(r)

CacheNext ==
  \/ \E r \in Run : RunNext(r)
  \/ \E b \in Branch : RemoteMoves(b)

SharedInit ==
  /\ remote \in [Branch -> {<< {} >>, None}]
  /\ CacheInit

CacheSpec == SharedInit /\ [][CacheNext]_cacheVars

-----------------------------------------------------------------------------
(* The clone a state file names is one to work in: complete, on the `ref`  *)
(* and marked as Propagate's, so that a run resumed after any crash, which *)
(* takes it without a look (repo_clone.py:184), does not work in half a    *)
(* clone, and `clear --force` may delete it.                               *)
RecordedCloneWhole ==
  \A r \in recorded : /\ clone[r] # None
                      /\ clone[r].heads # None
                      /\ clone[r].onRef /\ clone[r].marked

(* Two runs that want their first clone at the same time do not disturb    *)
(* each other: the cache is found half made only after a process died      *)
(* while making it (repo_clone.py:126-159).                                *)
RefusedOnlyWhenTorn == refused => torn
=============================================================================
