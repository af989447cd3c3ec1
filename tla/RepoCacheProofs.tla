--------------------------- MODULE RepoCacheProofs ---------------------------
(***************************************************************************)
(* What holds of the cache and the clones for any number of runs, of       *)
(* branches, and of crashes and failures.                                  *)
(***************************************************************************)
EXTENDS RepoCache, TLAPS

(* Where a run holds the lock. *)
Critical == {"refresh", "bareClone", "fill", "mark", "copy"}

LockHeld == \A r \in Run : at[r] \in Critical => holder = r

(* What the place of the run that holds the lock tells of the cache: it is *)
(* whole when it is copied, and there is none when it is made, unless a    *)
(* process died while making it.                                           *)
CacheInHand ==
  \A r \in Run :
    /\ at[r] = "bareClone" => bare = None \/ torn
    /\ at[r] \in {"refresh", "fill", "mark", "copy"} => bare \in BareDirectory
    /\ at[r] \in {"refresh", "mark", "copy"} => bare.heads \in Branches
    /\ at[r] \in {"refresh", "copy"} => bare.marked

(* A marked cache is whole; an unmarked one is being made, or torn. *)
MarkerTells ==
  bare # None =>
    /\ bare.marked => bare.heads \in Branches
    /\ bare.marked \/ torn \/ \E r \in Run : at[r] \in {"fill", "mark"}

(* What the place of a run tells of its clone. *)
CloneInHand ==
  \A r \in Run :
    /\ at[r] \in {"checkout", "label", "record"} => clone[r] \in CloneDirectory
    /\ at[r] \in {"label", "record"} => clone[r].onRef
    /\ at[r] = "record" => clone[r].marked
    /\ at[r] \notin {"idle", "ready"} => r \notin recorded

RecordedInHand ==
  \A r \in recorded : clone[r] \in CloneDirectory /\ clone[r].onRef /\ clone[r].marked

IInv ==
  /\ CacheTypeOK
  /\ LockHeld /\ CacheInHand /\ MarkerTells
  /\ CloneInHand /\ RecordedInHand
  /\ RefusedOnlyWhenTorn

-----------------------------------------------------------------------------
USE CacheAssumption, NoneAssumption

LEMMA InitCorrect == SharedInit => IInv
<1> SUFFICES ASSUME SharedInit PROVE IInv
  OBVIOUS
<1>1. CacheTypeOK
  <2>1. << {} >> \in History
    <3>1. {} \in SUBSET Change
      OBVIOUS
    <3>2. QED
      BY <3>1 DEF History
  <2>2. remote \in Branches
    BY <2>1 DEF SharedInit, Branches
  <2>3. at \in [Run -> Place] /\ clone \in [Run -> CloneDirectory \cup {None}]
    BY DEF SharedInit, CacheInit, Place
  <2>4. stops \in 0 .. MaxStops
    BY DEF SharedInit, CacheInit, CacheAssumption
  <2>5. QED
    BY <2>2, <2>3, <2>4 DEF SharedInit, CacheInit, CacheTypeOK
<1>2. LockHeld /\ CacheInHand /\ MarkerTells /\ CloneInHand /\ RecordedInHand
  BY DEF SharedInit, CacheInit, LockHeld, Critical, CacheInHand, MarkerTells, CloneInHand,
         RecordedInHand
<1>3. RefusedOnlyWhenTorn
  BY DEF SharedInit, CacheInit, RefusedOnlyWhenTorn
<1>4. QED
  BY <1>1, <1>2, <1>3 DEF IInv

(* The steps of a run that leave the cache and the lock alone. *)
LEMMA CloneSteps ==
  ASSUME IInv, NEW r \in Run,
         BeginRun(r) \/ ResumeRun(r) \/ Checkout(r) \/ Label(r) \/ Record(r) \/ Finish(r)
           \/ ClearForce(r)
  PROVE  IInv'
<1> USE DEF IInv
<1>1. UNCHANGED <<remote, bare, holder, stops, torn, refused>>
  BY DEF BeginRun, ResumeRun, Checkout, Label, Record, Finish, EndRun, ClearForce
<1>2. \A s \in Run \ {r} : at'[s] = at[s] /\ clone'[s] = clone[s]
                              /\ (s \in recorded' <=> s \in recorded)
  BY DEF BeginRun, ResumeRun, Checkout, Label, Record, Finish, EndRun, ClearForce, CacheTypeOK
<1>3. at[r] \notin Critical /\ at'[r] \notin Critical
  BY DEF BeginRun, ResumeRun, Checkout, Label, Record, Finish, EndRun, ClearForce, CacheTypeOK,
         Critical
<1>4. /\ CacheTypeOK'
      /\ at'[r] \in {"checkout", "label", "record"} => clone'[r] \in CloneDirectory
      /\ at'[r] \in {"label", "record"} => clone'[r].onRef
      /\ at'[r] = "record" => clone'[r].marked
      /\ at'[r] \notin {"idle", "ready"} => r \notin recorded'
      /\ r \in recorded' => clone'[r] \in CloneDirectory /\ clone'[r].onRef /\ clone'[r].marked
  <2>1. CASE BeginRun(r)
    BY <2>1 DEF BeginRun, CacheTypeOK, Place
  <2>2. CASE ResumeRun(r)
    BY <2>2 DEF ResumeRun, CacheTypeOK, Place, RecordedInHand
  <2>3. CASE Checkout(r)
    BY <2>3 DEF Checkout, CacheTypeOK, Place, CloneInHand, CloneDirectory
  <2>4. CASE Label(r)
    BY <2>4 DEF Label, CacheTypeOK, Place, CloneInHand, CloneDirectory
  <2>5. CASE Record(r)
    BY <2>5 DEF Record, CacheTypeOK, Place, CloneInHand
  <2>6. CASE Finish(r)
    BY <2>6 DEF Finish, EndRun, CacheTypeOK, Place, RecordedInHand
  <2>7. CASE ClearForce(r)
    BY <2>7 DEF ClearForce, CacheTypeOK, Place
  <2>8. QED
    BY <2>1, <2>2, <2>3, <2>4, <2>5, <2>6, <2>7
<1>5. LockHeld'
  BY <1>1, <1>2, <1>3 DEF LockHeld
<1>6. CacheInHand'
  BY <1>1, <1>2, <1>3 DEF CacheInHand, Critical
<1>7. MarkerTells'
  BY <1>1, <1>2, <1>3 DEF MarkerTells, Critical
<1>8. CloneInHand'
  BY <1>2, <1>4 DEF CloneInHand
<1>9. RecordedInHand'
  BY <1>2, <1>4 DEF RecordedInHand, CacheTypeOK
<1>10. RefusedOnlyWhenTorn'
  BY <1>1 DEF RefusedOnlyWhenTorn
<1>11. QED
  BY <1>4, <1>5, <1>6, <1>7, <1>8, <1>9, <1>10

(* The steps of the run that has the lock, and the one that takes it. *)
LEMMA CacheSteps ==
  ASSUME IInv, NEW r \in Run,
         Lock(r) \/ Refresh(r) \/ BareClone(r) \/ FillBare(r) \/ MarkBare(r) \/ Copy(r)
  PROVE  IInv'
<1> USE DEF IInv
<1>1. UNCHANGED <<remote, recorded, stops, torn, refused>>
  BY DEF Lock, Refresh, BareClone, FillBare, MarkBare, Copy
<1>2. \A s \in Run \ {r} : at'[s] = at[s] /\ clone'[s] = clone[s] /\ at[s] \notin Critical
  BY DEF Lock, Refresh, BareClone, FillBare, MarkBare, Copy, CacheTypeOK, LockHeld, Critical,
         CacheAssumption
<1>3. r \notin recorded /\ at[r] \notin {"idle", "ready", "checkout", "label", "record"}
  BY DEF Lock, Refresh, BareClone, FillBare, MarkBare, Copy, CloneInHand
<1>4. CacheTypeOK' /\ at'[r] \in Critical \cup {"checkout"}
  <2>1. CASE Lock(r)
    BY <2>1 DEF Lock, CacheTypeOK, Place, Critical
  <2>2. CASE Refresh(r)
    BY <2>2 DEF Refresh, CacheTypeOK, Place, Critical, CacheInHand, BareDirectory, FetchIntoBare
  <2>3. CASE BareClone(r)
    BY <2>3 DEF BareClone, CacheTypeOK, Place, Critical, BareDirectory
  <2>4. CASE FillBare(r)
    BY <2>4 DEF FillBare, CacheTypeOK, Place, Critical, CacheInHand, BareDirectory
  <2>5. CASE MarkBare(r)
    <3>1. bare' \in BareDirectory
      BY <2>5 DEF MarkBare, CacheInHand, BareDirectory
    <3>2. QED
      BY <2>5, <3>1 DEF MarkBare, CacheTypeOK, Place, Critical
  <2>6. CASE Copy(r)
    BY <2>6 DEF Copy, CacheTypeOK, Place, Critical, CacheInHand, CloneDirectory
  <2>7. QED
    BY <2>1, <2>2, <2>3, <2>4, <2>5, <2>6
<1>5. at'[r] \in Critical => holder' = r
  BY DEF Lock, Refresh, BareClone, FillBare, MarkBare, Copy, LockHeld, Critical, CacheTypeOK
<1>6. /\ at'[r] = "bareClone" => bare' = None \/ torn'
      /\ at'[r] \in {"refresh", "fill", "mark", "copy"} => bare' \in BareDirectory
      /\ at'[r] \in {"refresh", "mark", "copy"} => bare'.heads \in Branches
      /\ at'[r] \in {"refresh", "copy"} => bare'.marked
      /\ MarkerTells'
  <2>1. CASE Lock(r)
    <3>1. \A s \in Run : at[s] \notin {"fill", "mark"}
      BY <2>1, <1>2 DEF Lock, Critical
    <3>2. QED
      BY <2>1, <3>1, <1>1 DEF Lock, CacheTypeOK, MarkerTells
  <2>2. CASE Refresh(r)
    BY <2>2 DEF Refresh, CacheTypeOK, CacheInHand, BareDirectory, FetchIntoBare, MarkerTells
  <2>3. CASE BareClone(r)
    BY <2>3 DEF BareClone, CacheTypeOK, BareDirectory, MarkerTells
  <2>4. CASE FillBare(r)
    <3>1. bare'.heads \in Branches /\ at'[r] = "mark"
      BY <2>4 DEF FillBare, CacheTypeOK, CacheInHand, BareDirectory
    <3>2. QED
      BY <2>4, <3>1, <1>4 DEF FillBare, CacheTypeOK, CacheInHand, BareDirectory, MarkerTells
  <2>5. CASE MarkBare(r)
    BY <2>5 DEF MarkBare, CacheTypeOK, CacheInHand, BareDirectory, MarkerTells
  <2>6. CASE Copy(r)
    BY <2>6 DEF Copy, CacheTypeOK, CacheInHand, MarkerTells
  <2>7. QED
    BY <2>1, <2>2, <2>3, <2>4, <2>5, <2>6
<1>7. at'[r] = "checkout" => clone'[r] \in CloneDirectory
  <2>1. CASE Lock(r) \/ Refresh(r) \/ BareClone(r) \/ FillBare(r) \/ MarkBare(r)
    <3>1. at'[r] # "checkout"
      BY <2>1 DEF Lock, Refresh, BareClone, FillBare, MarkBare, CacheTypeOK
    <3>2. QED
      BY <3>1
  <2>2. CASE Copy(r)
    <3>1. clone'[r] = [heads |-> bare.heads, onRef |-> Ref = None, marked |-> FALSE]
      BY <2>2 DEF Copy, CacheTypeOK
    <3>2. bare.heads \in Branches
      BY <2>2 DEF Copy, CacheInHand
    <3>3. QED
      BY <3>1, <3>2 DEF CloneDirectory
  <2>3. QED
    BY <2>1, <2>2
<1>8. LockHeld'
  BY <1>2, <1>5 DEF LockHeld
<1>9. CacheInHand'
  BY <1>2, <1>6 DEF CacheInHand, Critical
<1>10. CloneInHand'
  BY <1>1, <1>2, <1>3, <1>4, <1>7 DEF CloneInHand, Critical
<1>11. RecordedInHand'
  BY <1>1, <1>2, <1>3 DEF RecordedInHand, CacheTypeOK
<1>12. RefusedOnlyWhenTorn'
  BY <1>1 DEF RefusedOnlyWhenTorn
<1>13. QED
  BY <1>4, <1>6, <1>8, <1>9, <1>10, <1>11, <1>12

(* The process ends, or gives up. *)
LEMMA Forgetting ==
  ASSUME IInv, NEW r \in Run, Refuse(r) \/ CloneFails(r) \/ CacheCrash(r)
  PROVE  IInv'
<1> USE DEF IInv
<1>1. UNCHANGED <<remote, recorded>>
  BY DEF Refuse, CloneFails, CacheCrash
<1>2. \A s \in Run \ {r} : at'[s] = at[s] /\ clone'[s] = clone[s]
  BY DEF Refuse, CloneFails, CacheCrash, Forget, CacheTypeOK
<1>3. at'[r] = "idle" /\ (r \in recorded => clone'[r] = clone[r])
  BY DEF Refuse, CloneFails, CacheCrash, Forget, CacheTypeOK
<1>4. holder' = IF holder = r THEN None ELSE holder
  BY DEF Refuse, CloneFails, CacheCrash, Forget
<1>5. stops' \in 0 .. MaxStops
  BY DEF Refuse, CloneFails, CacheCrash, Stop, CacheTypeOK, CacheAssumption
<1>6. (bare' = bare) \/ (bare' = None /\ at[r] = "fill")
  BY DEF Refuse, CloneFails, CacheCrash
<1>7. torn' \in BOOLEAN /\ (torn => torn') /\ refused' \in BOOLEAN
  BY DEF Refuse, CloneFails, CacheCrash, CacheTypeOK
<1>8. CacheTypeOK'
  <2>1. at' \in [Run -> Place] /\ clone' \in [Run -> CloneDirectory \cup {None}]
    BY DEF Refuse, CloneFails, CacheCrash, Forget, CacheTypeOK, Place
  <2>2. QED
    BY <2>1, <1>1, <1>4, <1>5, <1>6, <1>7 DEF CacheTypeOK
<1>9. LockHeld'
  BY <1>2, <1>3, <1>4 DEF LockHeld, Critical
<1>10. CacheInHand'
  <2>1. SUFFICES ASSUME NEW s \in Run \ {r}, at[s] \in Critical
                 PROVE  bare' = bare
    BY <2>1, <1>2, <1>3, <1>7 DEF CacheInHand, Critical
  <2>2. holder = s
    BY <2>1 DEF LockHeld
  <2>3. at[r] # "fill"
    BY <2>1, <2>2 DEF LockHeld, Critical
  <2>4. QED
    BY <2>3, <1>6
<1>11. MarkerTells'
  <2>1. CASE bare' = None
    BY <2>1 DEF MarkerTells
  <2>2. CASE bare' = bare /\ at[r] \notin {"fill", "mark"}
    BY <2>2, <1>2, <1>7 DEF MarkerTells
  <2>3. CASE bare' = bare /\ at[r] \in {"fill", "mark"}
    <3>1. bare = None \/ torn'
      BY <2>3 DEF Refuse, CloneFails, CacheCrash, CacheInHand, BareDirectory
    <3>2. QED
      BY <3>1, <2>3 DEF MarkerTells
  <2>4. QED
    BY <2>1, <2>2, <2>3, <1>6
<1>12. CloneInHand'
  BY <1>1, <1>2, <1>3 DEF CloneInHand
<1>13. RecordedInHand'
  BY <1>1, <1>2, <1>3 DEF RecordedInHand, CacheTypeOK
<1>14. RefusedOnlyWhenTorn'
  BY <1>7 DEF Refuse, CloneFails, CacheCrash, RefusedOnlyWhenTorn, CacheInHand
<1>15. QED
  BY <1>8, <1>9, <1>10, <1>11, <1>12, <1>13, <1>14

LEMMA Outside ==
  ASSUME IInv, NEW b \in Branch, RemoteMoves(b)
  PROVE  IInv'
<1> USE DEF IInv
<1>1. remote' \in Branches
  <2>1. CASE remote[b] = None
    BY <2>1 DEF RemoteMoves, CacheTypeOK, Branches
  <2>2. CASE remote[b] # None
    <3>1. PICK c \in Change : remote' = [remote EXCEPT ![b] = Append(@, {c})]
      BY <2>2 DEF RemoteMoves
    <3>2. remote[b] \in Seq(SUBSET Change)
      BY <2>2 DEF CacheTypeOK, Branches, History
    <3>3. Append(remote[b], {c}) \in Seq(SUBSET Change)
      BY <3>2
    <3>4. QED
      BY <3>1, <3>3 DEF CacheTypeOK, Branches, History
  <2>3. QED
    BY <2>1, <2>2
<1>2. UNCHANGED <<bare, holder, at, clone, recorded, stops, torn, refused>>
  BY DEF RemoteMoves
<1>3. QED
  BY <1>1, <1>2 DEF CacheTypeOK, LockHeld, CacheInHand, MarkerTells, CloneInHand, RecordedInHand,
                    RefusedOnlyWhenTorn

(* The inductive invariant: the lock is held wherever the cache is worked  *)
(* on, a marked cache is whole, an unmarked one is in hand or torn, and a  *)
(* clone is recorded last (repo_clone.py:112-220, scheduler.py:166-183).   *)
THEOREM InductiveInvariant == CacheSpec => []IInv
<1>1. IInv /\ [CacheNext]_cacheVars => IInv'
  <2> SUFFICES ASSUME IInv, [CacheNext]_cacheVars PROVE IInv'
    OBVIOUS
  <2>1. ASSUME NEW r \in Run, RunNext(r) PROVE IInv'
    BY <2>1, CloneSteps, CacheSteps, Forgetting DEF RunNext, CloneStep
  <2>2. ASSUME NEW b \in Branch, RemoteMoves(b) PROVE IInv'
    BY <2>2, Outside
  <2>3. CASE UNCHANGED cacheVars
    BY <2>3 DEF cacheVars, IInv, CacheTypeOK, LockHeld, CacheInHand, MarkerTells, CloneInHand,
                RecordedInHand, RefusedOnlyWhenTorn
  <2>4. QED
    BY <2>1, <2>2, <2>3 DEF CacheNext
<1>2. QED
  BY InitCorrect, <1>1, PTL DEF CacheSpec

(* Every variable has its type, for any number of runs and branches.       *)
THEOREM TypeCorrect == CacheSpec => []CacheTypeOK
<1>1. IInv => CacheTypeOK
  BY DEF IInv
<1>2. QED
  BY InductiveInvariant, <1>1, PTL

(* No two runs are at work on the cache at the same time                   *)
(* (repo_clone.py:126-172).                                                *)
Alone == \A r, s \in Run : at[r] \in Critical /\ at[s] \in Critical => r = s

THEOREM MutualExclusion == CacheSpec => []Alone
<1>1. IInv => Alone
  BY DEF IInv, LockHeld, Alone
<1>2. QED
  BY InductiveInvariant, <1>1, PTL

(* A clone that a state file names is complete, on its `ref` and marked,   *)
(* after any crashes, failures and forced clears.                          *)
THEOREM CloneWhole == CacheSpec => []RecordedCloneWhole
<1>1. IInv => RecordedCloneWhole
  <2> SUFFICES ASSUME IInv, NEW r \in recorded
               PROVE  /\ clone[r] # None /\ clone[r].heads # None
                      /\ clone[r].onRef /\ clone[r].marked
    BY DEF RecordedCloneWhole
  <2>1. clone[r] \in CloneDirectory /\ clone[r].onRef /\ clone[r].marked
    BY DEF IInv, RecordedInHand
  <2>2. clone[r].heads \in Branches
    BY <2>1 DEF CloneDirectory
  <2>3. QED
    BY <2>1, <2>2 DEF NoneAssumption
<1>2. QED
  BY InductiveInvariant, <1>1, PTL

(* Only a process that died while making the cache leaves one that later   *)
(* runs refuse.                                                            *)
THEOREM CacheNotTorn == CacheSpec => []RefusedOnlyWhenTorn
<1>1. IInv => RefusedOnlyWhenTorn
  BY DEF IInv
<1>2. QED
  BY InductiveInvariant, <1>1, PTL
=============================================================================
