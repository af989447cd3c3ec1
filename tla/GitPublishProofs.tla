--------------------------- MODULE GitPublishProofs ---------------------------
(***************************************************************************)
(* The git commands of an execution for any phases, branches, changes and  *)
(* pushes of others, and any number of crashes: what is published is work, *)
(* and nothing committed is lost, in rebases too.                          *)
(***************************************************************************)
EXTENDS GitPublish, RepoCacheProofs, WellFoundedInduction, TLAPS

(* No .env file is in a commit, and no conflict marker. *)
Clean(history) == Changes(history) \cap {Env, Marker} = {}

(* Branches that a working copy can be made of. *)
Sound(branches) == branches[Main] # None /\ \A b \in Branch : Clean(branches[b])

(* All that a branch can come from is clean, from the remote repository    *)
(* through the cache and the clone to the working copy.                    *)
SourcesSound ==
  /\ Sound(remote)
  /\ bare # None /\ bare.heads # None => Sound(bare.heads)
  /\ clone[Self] # None => Sound(clone[Self].heads)
  /\ clone[Self] # None /\ clone[Self].onRef => Ref = None \/ clone[Self].heads[Ref] # None
  /\ \A b \in Branch : Clean(heads[b]) /\ Clean(tracked[b])

(* HEAD is on a branch that exists, or on what a stopped rebase has made;  *)
(* only then there are conflict markers.                                   *)
HeadTells ==
  /\ head = None <=> loose # None
  /\ head # None => heads[head] # None
  /\ loose = None => Marker \notin tree /\ Marker \notin staged

Running == pc \notin {"down", "done"}

(* A process that runs commands has a working copy, its own or a recorded  *)
(* clone; a state file that knows of no clone knows of no branch.          *)
CloneTells ==
  /\ inPlace => at[Self] = "idle" /\ Self \notin recorded
  /\ ~ inPlace /\ Running => at[Self] = "ready"
  /\ at[Self] = "ready" => Self \in recorded
  /\ ~ inPlace /\ Self \notin recorded => ctx.git.selected = None
  /\ ~ Running => mem = NoGitState

(* The branch that is remembered is there. *)
SelectedTells ==
  /\ mem.selected \in {None, Target} /\ ctx.git.selected \in {None, Target}
  /\ mem.selected = Target \/ ctx.git.selected = Target => heads[Target] # None

(* What the place in a command tells. *)
PlaceTells ==
  /\ pc \in {"checkout", "fetchBase", "create", "createLocal", "sync", "compare"} =>
       start # None /\ head # None
  /\ pc \in {"fetchBase", "create", "createLocal"} => heads[Target] = None
  /\ pc \in {"checkout", "sync", "compare", "recordStart"} => heads[Target] # None
  /\ pc \in {"compare", "rebase"} => tracked[Target] # None
  /\ pc \in {"recordSelected", "fetch", "rebase", "abort", "repush"} => mem.selected = Target
  /\ pc = "commit" => Env \notin staged

CopyTypes ==
  /\ heads \in Branches /\ tracked \in Branches
  /\ head \in Branch \cup {None} /\ loose \in History \cup {None}
  /\ tree \subseteq Change /\ staged \subseteq Change

ProcessTypes ==
  /\ pc \in InCommand \cup {"down", "next", "done"}
  /\ step \in Nat \ {0}
  /\ start \in Branch \cup {None} /\ mem \in GitState
  /\ rounds \in 0 .. MaxRounds

SavedTypes == ctx \in Context /\ phase \in 0 .. Len(Phases)

GithubTypes == pr \in [base : Branch] \cup {None} /\ ci \in [Check -> CheckState]

CountTypes == inPlace \in BOOLEAN /\ edits \in 0 .. Len(Own) /\ moves \in 0 .. Len(Others)

GitTypes == CopyTypes /\ ProcessTypes /\ SavedTypes /\ GithubTypes /\ CountTypes

GitInv ==
  /\ IInv /\ GitTypes
  /\ SourcesSound /\ HeadTells /\ CloneTells /\ SelectedTells /\ PlaceTells

-----------------------------------------------------------------------------
(* A set of numbers has a least one: what inductions below rest on. *)
LEMMA Least ==
  ASSUME NEW S \in SUBSET Nat, S # {}
  PROVE  \E n \in S : \A m \in S : n <= m
<1> DEFINE less == OpToRel(<, Nat)
<1>1. less = {p \in Nat \X Nat : p[1] < p[2]}
  BY DEF OpToRel
<1>2. IsWellFoundedOn(less, Nat)
  BY NatLessThanWellFounded
<1> HIDE DEF less
<1>3. PICK n \in S : \A m \in S : ~ (<<m, n>> \in less)
  BY <1>2, WFMin
<1>4. ASSUME NEW m \in S PROVE n <= m
  <2>1. ~ (m < n)
    BY <1>1, <1>3
  <2>2. QED
    BY <2>1
<1>5. QED
  BY <1>4

(* The longest history that two histories of elements of S begin with.     *)
LongestOf(prefix, own, upstream, S) ==
  /\ prefix \in Seq(S)
  /\ Len(prefix) <= Len(own) /\ Len(prefix) <= Len(upstream)
  /\ \A i \in 1 .. Len(prefix) : own[i] = upstream[i]
  /\ \A q \in CommonPrefixes({own, upstream}) : Len(q) <= Len(prefix)

(* The longest common prefix of two histories is one, and none is longer. *)
LEMMA LongestPrefix ==
  ASSUME NEW S, NEW own \in Seq(S), NEW upstream \in Seq(S)
  PROVE  LongestOf(LongestCommonPrefix({own, upstream}), own, upstream, S)
<1> DEFINE prefix == LongestCommonPrefix({own, upstream})
           C == CommonPrefixes({own, upstream})
           L == {Len(own) - Len(p) : p \in C}
<1>1. ASSUME NEW p \in C
      PROVE  /\ p \in Seq(S) /\ Len(p) <= Len(own) /\ Len(p) <= Len(upstream)
             /\ \A i \in 1 .. Len(p) : own[i] = upstream[i]
  <2>1. p \in Prefixes(own) \cup Prefixes(upstream)
    BY DEF CommonPrefixes
  <2>2. p \in Seq(S)
    <3>1. PICK s \in {own, upstream} : p \in Prefixes(s)
      BY <2>1
    <3>2. PICK l \in 0 .. Len(s) : p = SubSeq(s, 1, l)
      BY <3>1 DEF Prefixes
    <3>3. s \in Seq(S)
      OBVIOUS
    <3>4. QED
      BY <3>2, <3>3
  <2>3. IsPrefix(p, own) /\ IsPrefix(p, upstream)
    BY DEF CommonPrefixes
  <2>4. Len(p) <= Len(own) /\ Len(p) <= Len(upstream)
    BY <2>3 DEF IsPrefix
  <2>5. SubSeq(own, 1, Len(p)) = SubSeq(upstream, 1, Len(p))
    BY <2>3 DEF IsPrefix
  <2>6. ASSUME NEW i \in 1 .. Len(p) PROVE own[i] = upstream[i]
    <3>1. SubSeq(own, 1, Len(p))[i] = own[i]
      BY <2>2, <2>4
    <3>2. SubSeq(upstream, 1, Len(p))[i] = upstream[i]
      BY <2>2, <2>4
    <3>3. QED
      BY <2>5, <3>1, <3>2
  <2>7. QED
    BY <2>2, <2>4, <2>6
<1>2. <<>> \in C
  <2>1. <<>> \in Seq(S) /\ Len(<<>>) = 0
    OBVIOUS
  <2>2. SubSeq(own, 1, 0) = <<>> /\ SubSeq(upstream, 1, 0) = <<>> /\ SubSeq(<<>>, 1, 0) = <<>>
    OBVIOUS
  <2>3. <<>> \in Prefixes(own)
    <3>1. 0 \in 0 .. Len(own)
      OBVIOUS
    <3>2. QED
      BY <2>2, <3>1 DEF Prefixes
  <2>4. IsPrefix(<<>>, own) /\ IsPrefix(<<>>, upstream)
    BY <2>1, <2>2 DEF IsPrefix
  <2>5. QED
    BY <2>3, <2>4 DEF CommonPrefixes
<1>3. \E p \in C : \A q \in C : Len(q) <= Len(p)
  <2>1. L \in SUBSET Nat
    <3>1. ASSUME NEW p \in C PROVE Len(own) - Len(p) \in Nat
      <4>1. p \in Seq(S) /\ Len(p) <= Len(own)
        BY <1>1
      <4>2. Len(p) \in Nat /\ Len(own) \in Nat
        BY <4>1
      <4>3. QED
        BY <4>1, <4>2
    <3>2. QED
      BY <3>1
  <2>2. L # {}
    BY <1>2
  <2>3. PICK n \in L : \A m \in L : n <= m
    BY <2>1, <2>2, Least
  <2>4. PICK p \in C : n = Len(own) - Len(p)
    OBVIOUS
  <2>5. ASSUME NEW q \in C PROVE Len(q) <= Len(p)
    <3>1. Len(own) - Len(p) <= Len(own) - Len(q)
      BY <2>3, <2>4
    <3>2. QED
      BY <3>1, <1>1
  <2>6. QED
    BY <2>5
<1>4. prefix \in C /\ \A q \in C : Len(q) <= Len(prefix)
  BY <1>3 DEF LongestCommonPrefix
<1> HIDE DEF prefix
<1>5. LongestOf(prefix, own, upstream, S)
  BY <1>1, <1>4 DEF LongestOf
<1>6. QED
  BY <1>5 DEF prefix

(* The elements of a sequence that grows by one. *)
LEMMA OneMore ==
  ASSUME NEW S, NEW s \in Seq(S), NEW e \in S
  PROVE  Append(s, e) \in Seq(S) /\ ToSet(Append(s, e)) = ToSet(s) \cup {e}
<1>1. Append(s, e) \in Seq(S) /\ Len(Append(s, e)) = Len(s) + 1
  OBVIOUS
<1>2. \A i \in 1 .. Len(s) : Append(s, e)[i] = s[i]
  OBVIOUS
<1>3. Append(s, e)[Len(s) + 1] = e
  OBVIOUS
<1>4. DOMAIN s = 1 .. Len(s) /\ DOMAIN Append(s, e) = 1 .. Len(s) + 1 /\ Len(s) \in Nat
  BY <1>1
<1>5. ToSet(Append(s, e)) = {Append(s, e)[i] : i \in 1 .. Len(s) + 1}
  BY <1>4 DEF ToSet
<1>6. ToSet(s) = {s[i] : i \in 1 .. Len(s)}
  BY <1>4 DEF ToSet
<1>7. 1 .. Len(s) + 1 = (1 .. Len(s)) \cup {Len(s) + 1}
  BY <1>4
<1>8. QED
  BY <1>1, <1>2, <1>3, <1>5, <1>6, <1>7

(* What a rebase replays: the commits that upstream lacks. *)
LEMMA ReplayedCommits ==
  ASSUME NEW S, NEW commits \in Seq(S), NEW upstream
  PROVE  /\ Replayed(commits, upstream) \in Seq(S)
         /\ ToSet(Replayed(commits, upstream)) = ToSet(commits) \ ToSet(upstream)
<1> DEFINE N == Len(commits)
           Known == ToSet(upstream)
           Body(f, n) == IF n = 0 THEN <<>>
                         ELSE IF commits[n] \in Known THEN f[n - 1]
                         ELSE Append(f[n - 1], commits[n])
           Solves(f, m) == \A n \in 0 .. m : f[n] = Body(f, n)
           Solvable(m) == \E f \in [0 .. N -> Seq(S)] : Solves(f, m)
           F == CHOOSE f : f = [n \in 0 .. N |-> Body(f, n)]
           Right(n) == F[n] \in Seq(S) /\ ToSet(F[n]) = {commits[i] : i \in 1 .. n} \ Known
<1>1. N \in Nat /\ \A n \in 1 .. N : commits[n] \in S
  OBVIOUS
<1>2. Replayed(commits, upstream) = F[N]
  BY DEF Replayed
<1>3. ToSet(commits) = {commits[i] : i \in 1 .. N}
  BY DEF ToSet
<1> HIDE DEF N, Known
<1>4. Solvable(0)
  <2>1. [n \in 0 .. N |-> <<>>] \in [0 .. N -> Seq(S)]
    <3>1. <<>> \in Seq(S)
      OBVIOUS
    <3>2. QED
      BY <3>1
  <2>2. Solves([n \in 0 .. N |-> <<>>], 0)
    BY <1>1
  <2>3. QED
    BY <2>1, <2>2
<1>5. ASSUME NEW m \in 1 .. N, Solvable(m - 1)
      PROVE  Solvable(m)
  <2>1. PICK f \in [0 .. N -> Seq(S)] : Solves(f, m - 1)
    BY <1>5
  <2>2. m \in 0 .. N /\ m - 1 \in 0 .. N /\ m \in Nat /\ m # 0
    BY <1>1
  <2>3. f[m - 1] \in Seq(S) /\ commits[m] \in S
    BY <1>1, <2>2
  <2>4. Body(f, m) \in Seq(S)
    BY <2>2, <2>3
  <2>5. PICK g \in [0 .. N -> Seq(S)] : g = [f EXCEPT ![m] = Body(f, m)]
    BY <2>4
  <2>6. g[m] = Body(f, m) /\ \A n \in 0 .. m - 1 : g[n] = f[n]
    BY <1>1, <2>2, <2>5
  <2>7. ASSUME NEW n \in 0 .. m PROVE g[n] = Body(g, n)
    <3>1. g[n] = Body(f, n)
      <4>1. CASE n = m
        BY <4>1, <2>6
      <4>2. CASE n # m
        <5>1. n \in 0 .. m - 1
          BY <4>2, <2>2
        <5>2. g[n] = f[n] /\ f[n] = Body(f, n)
          BY <5>1, <2>1, <2>6
        <5>3. QED
          BY <5>2
      <4>3. QED
        BY <4>1, <4>2
    <3>2. n = 0 \/ g[n - 1] = f[n - 1]
      BY <2>2, <2>6
    <3>3. QED
      BY <3>1, <3>2
  <2>8. QED
    BY <2>7
<1>6. Solvable(N)
  <2> HIDE DEF Solvable
  <2> DEFINE Bad == {m \in 0 .. N : ~ Solvable(m)}
  <2>1. SUFFICES ASSUME Bad # {} PROVE FALSE
    BY <1>1
  <2>2. Bad \in SUBSET Nat
    BY <1>1
  <2>3. PICK m \in Bad : \A k \in Bad : m <= k
    BY <2>1, <2>2, Least
  <2>4. m \in 1 .. N /\ m - 1 \in 0 .. N /\ ~ (m <= m - 1)
    BY <1>1, <1>4
  <2>5. Solvable(m - 1)
    BY <2>3, <2>4
  <2>6. Solvable(m)
    BY <1>5, <2>4, <2>5
  <2>7. ~ Solvable(m)
    OBVIOUS
  <2>8. QED
    BY <2>6, <2>7
<1>7. F = [n \in 0 .. N |-> Body(F, n)]
  <2>1. PICK f \in [0 .. N -> Seq(S)] : Solves(f, N)
    BY <1>6
  <2>2. f = [n \in 0 .. N |-> Body(f, n)]
    BY <2>1
  <2>3. QED
    BY <2>2
<1> HIDE DEF F
<1>8. Right(0)
  <2>1. F[0] = <<>>
    BY <1>1, <1>7
  <2>2. <<>> \in Seq(S) /\ ToSet(<<>>) = {}
    BY DEF ToSet
  <2>3. QED
    BY <2>1, <2>2
<1>9. ASSUME NEW m \in 1 .. N, Right(m - 1)
      PROVE  Right(m)
  <2>1. m \in 0 .. N /\ m \in Nat /\ m # 0
    BY <1>1
  <2>2. {commits[i] : i \in 1 .. m} = {commits[i] : i \in 1 .. m - 1} \cup {commits[m]}
    BY <2>1
  <2>3. F[m] = IF commits[m] \in Known THEN F[m - 1] ELSE Append(F[m - 1], commits[m])
    BY <1>7, <2>1
  <2>4. F[m - 1] \in Seq(S) /\ commits[m] \in S
    BY <1>1, <1>9
  <2>5. CASE commits[m] \in Known
    BY <1>9, <2>2, <2>3, <2>5
  <2>6. CASE commits[m] \notin Known
    <3>1. F[m] \in Seq(S) /\ ToSet(F[m]) = ToSet(F[m - 1]) \cup {commits[m]}
      BY <2>3, <2>4, <2>6, OneMore
    <3>2. QED
      BY <1>9, <2>2, <2>6, <3>1
  <2>7. QED
    BY <2>5, <2>6
<1>10. Right(N)
  <2> HIDE DEF Right
  <2> DEFINE Bad == {m \in 0 .. N : ~ Right(m)}
  <2>1. SUFFICES ASSUME Bad # {} PROVE FALSE
    BY <1>1
  <2>2. Bad \in SUBSET Nat
    BY <1>1
  <2>3. PICK m \in Bad : \A k \in Bad : m <= k
    BY <2>1, <2>2, Least
  <2>4. m \in 1 .. N /\ m - 1 \in 0 .. N /\ ~ (m <= m - 1)
    BY <1>1, <1>8
  <2>5. Right(m - 1)
    BY <2>3, <2>4
  <2>6. Right(m)
    BY <1>9, <2>4, <2>5
  <2>7. ~ Right(m)
    OBVIOUS
  <2>8. QED
    BY <2>6, <2>7
<1>11. QED
  BY <1>2, <1>3, <1>10 DEF Known

LEMMA Joined ==
  ASSUME NEW S, NEW s \in Seq(S), NEW t \in Seq(S)
  PROVE  s \o t \in Seq(S) /\ ToSet(s \o t) = ToSet(s) \cup ToSet(t)
<1>1. /\ s \o t \in Seq(S) /\ Len(s \o t) = Len(s) + Len(t)
      /\ Len(s) \in Nat /\ Len(t) \in Nat
  OBVIOUS
<1>2. \A i \in 1 .. Len(s) : (s \o t)[i] = s[i]
  OBVIOUS
<1>3. \A i \in 1 .. Len(t) : (s \o t)[Len(s) + i] = t[i]
  OBVIOUS
<1>4. ToSet(s \o t) = {(s \o t)[i] : i \in 1 .. Len(s) + Len(t)}
  <2>1. DOMAIN (s \o t) = 1 .. Len(s) + Len(t)
    BY <1>1
  <2>2. QED
    BY <2>1 DEF ToSet
<1>5. ToSet(s) = {s[i] : i \in 1 .. Len(s)} /\ ToSet(t) = {t[i] : i \in 1 .. Len(t)}
  BY DEF ToSet
<1>6. 1 .. Len(s) + Len(t) = (1 .. Len(s)) \cup {Len(s) + i : i \in 1 .. Len(t)}
  <2>1. ASSUME NEW i \in 1 .. Len(s) + Len(t), i \notin 1 .. Len(s)
        PROVE  \E j \in 1 .. Len(t) : i = Len(s) + j
    <3>1. i - Len(s) \in 1 .. Len(t) /\ i = Len(s) + (i - Len(s))
      BY <1>1, <2>1
    <3>2. QED
      BY <3>1
  <2>2. QED
    BY <1>1, <2>1
<1>7. ToSet(s \o t) \subseteq ToSet(s) \cup ToSet(t)
  <2>1. ASSUME NEW i \in 1 .. Len(s) + Len(t) PROVE (s \o t)[i] \in ToSet(s) \cup ToSet(t)
    BY <1>2, <1>3, <1>5, <1>6
  <2>2. QED
    BY <1>4, <2>1
<1>8. ToSet(s) \cup ToSet(t) \subseteq ToSet(s \o t)
  <2>1. \A i \in 1 .. Len(s) : i \in 1 .. Len(s) + Len(t)
    BY <1>1
  <2>2. \A i \in 1 .. Len(t) : Len(s) + i \in 1 .. Len(s) + Len(t)
    BY <1>1
  <2>3. \A i \in 1 .. Len(s) : s[i] \in ToSet(s \o t)
    BY <1>2, <1>4, <2>1
  <2>4. \A i \in 1 .. Len(t) : t[i] \in ToSet(s \o t)
    BY <1>3, <1>4, <2>2
  <2>5. QED
    BY <1>5, <2>3, <2>4
<1>9. QED
  BY <1>1, <1>7, <1>8

(* What a branch has is not lost in a rebase, and nothing is made up. *)
LEMMA RebasedCommits ==
  ASSUME NEW own \in History, NEW upstream \in History
  PROVE  /\ Rebased(own, upstream) \in History
         /\ ToSet(Rebased(own, upstream)) = ToSet(own) \cup ToSet(upstream)
<1> DEFINE p == LongestCommonPrefix({own, upstream})
           local == LocalCommits(own, upstream)
           replayed == Replayed(local, upstream)
           all == upstream \o replayed
<1>1. /\ p \in History /\ Len(p) <= Len(own) /\ Len(p) <= Len(upstream)
      /\ \A i \in 1 .. Len(p) : own[i] = upstream[i]
  <2> DEFINE S == SUBSET Change
  <2>1. History = Seq(S)
    BY DEF History
  <2> HIDE DEF S
  <2>2. LongestOf(p, own, upstream, S)
    BY <2>1, LongestPrefix
  <2>3. QED
    BY <2>1, <2>2 DEF LongestOf
<1>2. local = SubSeq(own, Len(p) + 1, Len(own))
  BY DEF LocalCommits
<1> HIDE DEF p
<1>3. Len(p) \in Nat /\ Len(own) \in Nat /\ Len(upstream) \in Nat
  BY <1>1 DEF History
<1>4. local \in History /\ Len(local) = Len(own) - Len(p)
  BY <1>1, <1>2, <1>3 DEF History
<1>5. \A i \in 1 .. Len(local) : local[i] = own[Len(p) + i]
  BY <1>1, <1>2, <1>3 DEF History
<1>6. ToSet(local) \subseteq ToSet(own)
  <2>1. \A i \in 1 .. Len(local) : Len(p) + i \in 1 .. Len(own)
    BY <1>1, <1>3, <1>4
  <2>2. DOMAIN local = 1 .. Len(local) /\ DOMAIN own = 1 .. Len(own)
    BY <1>4 DEF History
  <2>3. QED
    BY <1>5, <2>1, <2>2 DEF ToSet
<1>7. ToSet(own) \subseteq ToSet(upstream) \cup ToSet(local)
  <2>1. SUFFICES ASSUME NEW i \in 1 .. Len(own)
                 PROVE  own[i] \in ToSet(upstream) \cup ToSet(local)
    <3>1. ToSet(own) = {own[i] : i \in 1 .. Len(own)}
      BY DEF ToSet, History
    <3>2. QED
      BY <2>1, <3>1
  <2>2. CASE i <= Len(p)
    <3>1. i \in 1 .. Len(p) /\ i \in DOMAIN upstream
      BY <1>1, <1>3, <2>2 DEF History
    <3>2. QED
      BY <1>1, <3>1 DEF ToSet
  <2>3. CASE ~ (i <= Len(p))
    <3>1. i - Len(p) \in 1 .. Len(local) /\ Len(p) + (i - Len(p)) = i
      BY <1>3, <1>4, <2>3
    <3>2. i - Len(p) \in DOMAIN local /\ local[i - Len(p)] = own[i]
      BY <1>4, <1>5, <3>1 DEF History
    <3>3. QED
      BY <3>2 DEF ToSet
  <2>4. QED
    BY <2>2, <2>3
<1> HIDE DEF local
<1>8. replayed \in History /\ ToSet(replayed) = ToSet(local) \ ToSet(upstream)
  BY <1>4, ReplayedCommits DEF History
<1> HIDE DEF replayed
<1>9. all \in History /\ ToSet(all) = ToSet(upstream) \cup ToSet(replayed)
  BY <1>8, Joined DEF History
<1>10. Rebased(own, upstream) = all
  BY DEF Rebased, replayed, local
<1>11. QED
  BY <1>6, <1>7, <1>8, <1>9, <1>10

USE CacheAssumption, NoneAssumption, GitAssumption

LEMMA ChangesRebased ==
  ASSUME NEW own \in History, NEW upstream \in History
  PROVE  /\ Rebased(own, upstream) \in History
         /\ Changes(Rebased(own, upstream)) = Changes(own) \cup Changes(upstream)
<1>1. None \notin History
  OBVIOUS
<1>2. QED
  BY <1>1, RebasedCommits DEF Changes

LEMMA ChangesAppended ==
  ASSUME NEW history \in History, NEW commit \in SUBSET Change
  PROVE  /\ Append(history, commit) \in History /\ Append(history, commit) # None
         /\ Changes(Append(history, commit)) = Changes(history) \cup commit
<1>1. None \notin History
  OBVIOUS
<1>2. Append(history, commit) \in History
      /\ ToSet(Append(history, commit)) = ToSet(history) \cup {commit}
  <2> DEFINE S == SUBSET Change
  <2>1. History = Seq(S) /\ commit \in S
    BY DEF History
  <2> HIDE DEF S
  <2>2. QED
    BY <2>1, OneMore
<1>3. QED
  BY <1>1, <1>2 DEF Changes

LEMMA ChangesOfPrefix ==
  ASSUME NEW shorter \in History, NEW longer \in History, IsPrefix(shorter, longer)
  PROVE  Changes(shorter) \subseteq Changes(longer)
<1>1. None \notin History
  OBVIOUS
<1>2. Len(shorter) <= Len(longer) /\ Len(shorter) \in Nat /\ Len(longer) \in Nat
  BY DEF IsPrefix, History
<1>3. ASSUME NEW i \in 1 .. Len(shorter) PROVE shorter[i] = longer[i]
  <2>1. SubSeq(shorter, 1, Len(shorter)) = SubSeq(longer, 1, Len(shorter))
    BY DEF IsPrefix
  <2>2. SubSeq(shorter, 1, Len(shorter))[i] = shorter[i]
    BY <1>2 DEF History
  <2>3. SubSeq(longer, 1, Len(shorter))[i] = longer[i]
    BY <1>2 DEF History
  <2>4. QED
    BY <2>1, <2>2, <2>3
<1>4. DOMAIN shorter = 1 .. Len(shorter) /\ DOMAIN longer = 1 .. Len(longer)
  BY DEF History
<1>5. ToSet(shorter) \subseteq ToSet(longer)
  BY <1>2, <1>3, <1>4 DEF ToSet
<1>6. QED
  BY <1>1, <1>5 DEF Changes

-----------------------------------------------------------------------------
(* How records change *)
LEMMA GitStateMessage ==
  ASSUME NEW m \in GitState, NEW n, n = [m EXCEPT !.message = TRUE]
  PROVE  n \in GitState /\ n.selected = m.selected
  BY DEF GitState

LEMMA ContextGit ==
  ASSUME NEW c \in Context, NEW g \in GitState, NEW d, d = [c EXCEPT !.git = g]
  PROVE  d \in Context /\ d.git = g
  BY DEF Context

LEMMA ContextStarting ==
  ASSUME NEW c \in Context, NEW b \in Branch \cup {None},
         NEW d, d = [c EXCEPT !.git.starting = b]
  PROVE  d \in Context /\ d.git.selected = c.git.selected
<1>1. c.git \in GitState
  BY DEF Context
<1>2. PICK g \in GitState : g = [c.git EXCEPT !.starting = b]
  BY <1>1 DEF GitState
<1>3. g.selected = c.git.selected
  BY <1>1, <1>2 DEF GitState
<1>4. d = [c EXCEPT !.git = g]
  BY <1>2
<1>5. d \in Context /\ d.git = g
  BY <1>4, ContextGit
<1>6. QED
  BY <1>3, <1>5

LEMMA ContextMessage ==
  ASSUME NEW c \in Context, NEW d, d = [c EXCEPT !.git.message = TRUE]
  PROVE  d \in Context /\ d.git.selected = c.git.selected
<1>1. c.git \in GitState
  BY DEF Context
<1>2. PICK g \in GitState : g = [c.git EXCEPT !.message = TRUE]
  BY <1>1 DEF GitState
<1>3. g.selected = c.git.selected
  BY <1>1, <1>2 DEF GitState
<1>4. d = [c EXCEPT !.git = g]
  BY <1>2
<1>5. d \in Context /\ d.git = g
  BY <1>4, ContextGit
<1>6. QED
  BY <1>3, <1>5

LEMMA ContextOf ==
  ASSUME NEW c \in Context, NEW r \in [Check -> CheckState], NEW s \in BOOLEAN, NEW d
  PROVE  /\ d = [c EXCEPT !.number = TRUE] => d \in Context /\ d.git = c.git
         /\ d = [c EXCEPT !.results = r] => d \in Context /\ d.git = c.git
         /\ d = [c EXCEPT !.status = s] => d \in Context /\ d.git = c.git
  BY DEF Context

LEMMA NothingYet ==
  /\ NoGitState \in GitState /\ NoGitState.selected = None
  /\ NoContext \in Context /\ NoContext.git = NoGitState
  /\ Unchecked \in [Check -> CheckState]
  BY DEF NoGitState, GitState, NoContext, Context, Unchecked, CheckState

-----------------------------------------------------------------------------
(* What is done in the working copy leaves the cache alone. *)
LEMMA Aside ==
  ASSUME IInv, UNCHANGED <<at, cacheRest>>, remote' \in Branches, stops' \in 0 .. MaxStops
  PROVE  IInv'
  BY DEF cacheRest, IInv, CacheTypeOK, LockHeld, CacheInHand, MarkerTells, CloneInHand,
         RecordedInHand, RefusedOnlyWhenTorn

(* The process that works in its clone, or in place, ends. *)
LEMMA Ending ==
  ASSUME IInv, at[Self] \in {"idle", "ready"}, EndRun(Self),
         remote' \in Branches, stops' \in 0 .. MaxStops
  PROVE  IInv' /\ at'[Self] = "idle"
<1> USE DEF IInv
<1>1. UNCHANGED <<bare, holder, clone, recorded, torn, refused>>
  BY DEF EndRun
<1>2. at'[Self] = "idle" /\ \A r \in Run \ {Self} : at'[r] = at[r]
  BY DEF EndRun, CacheTypeOK
<1>3. CacheTypeOK'
  BY DEF EndRun, CacheTypeOK, Place
<1>4. LockHeld' /\ CacheInHand' /\ RecordedInHand' /\ RefusedOnlyWhenTorn'
  BY <1>1, <1>2 DEF LockHeld, CacheInHand, Critical, RecordedInHand, RefusedOnlyWhenTorn
<1>5. MarkerTells'
  BY <1>1, <1>2 DEF MarkerTells
<1>6. CloneInHand'
  BY <1>1, <1>2 DEF CloneInHand
<1>7. QED
  BY <1>2, <1>3, <1>4, <1>5, <1>6

LEMMA Stopping ==
  ASSUME IInv, UNCHANGED stops \/ Stop
  PROVE  stops' \in 0 .. MaxStops
  BY DEF IInv, CacheTypeOK, Stop

-----------------------------------------------------------------------------
(* A step of a running process keeps what is known of its clone. *)
LEMMA Working ==
  ASSUME GitInv, Running, Running', UNCHANGED <<at, cacheRest, inPlace>>,
         remote' \in Branches, UNCHANGED stops \/ Stop
  PROVE  IInv' /\ CloneTells'
<1>1. IInv'
  BY Aside, Stopping DEF GitInv
<1>2. UNCHANGED recorded
  BY DEF cacheRest
<1>3. CloneTells'
  BY <1>2 DEF GitInv, CloneTells
<1>4. QED
  BY <1>1, <1>3

(* A step that leaves the working copy alone. *)
LEMMA Thinking ==
  ASSUME GitInv, Running, Running', UNCHANGED <<remote, at, cacheRest, inPlace, copy>>,
         UNCHANGED stops \/ Stop, SavedTypes', ProcessTypes', GithubTypes', CountTypes',
         SelectedTells', PlaceTells'
  PROVE  GitInv'
<1>1. IInv' /\ CloneTells'
  <2>1. remote' \in Branches
    BY DEF GitInv, IInv, CacheTypeOK
  <2>2. QED
    BY <2>1, Working
<1>2. UNCHANGED <<remote, bare, clone, heads, tracked, head, loose, tree, staged>>
  BY DEF cacheRest, copy
<1>3. SourcesSound' /\ HeadTells' /\ CopyTypes'
  BY <1>2 DEF GitInv, GitTypes, SourcesSound, Sound, Clean, HeadTells, CopyTypes
<1>4. QED
  BY <1>1, <1>3 DEF GitInv, GitTypes

LEMMA StepTypes ==
  ASSUME GitInv
  PROVE  /\ Proceed => pc' = "next" /\ step' \in Nat \ {0}
         /\ UNCHANGED step => step' \in Nat \ {0}
  BY DEF GitInv, GitTypes, ProcessTypes, Proceed

(* Steps that neither select a branch nor touch the working copy. *)
LEMMA PlainSteps ==
  ASSUME GitInv,
         BranchKnown \/ BranchBegin \/ CommitNothing \/ CreatePr \/ StoreNumber \/ ChecksSettled
           \/ RecordStatus \/ SavePhase \/ GoBack \/ PushRejected
  PROVE  GitInv'
<1>1. /\ UNCHANGED <<remote, at, cacheRest, inPlace, copy, mem, edits, moves>>
      /\ UNCHANGED stops \/ Stop
  BY DEF BranchKnown, BranchBegin, CommitNothing, CreatePr, StoreNumber, ChecksSettled,
         RecordStatus, SavePhase, GoBack, PushRejected, cacheVars, cacheRest
<1>2. Running /\ Running'
  BY DEF BranchKnown, BranchBegin, CommitNothing, CreatePr, StoreNumber, ChecksSettled,
         RecordStatus, SavePhase, GoBack, PushRejected, Running, Doing, Proceed
<1>3. ctx' \in Context /\ ctx'.git = ctx.git
  <2>1. ctx \in Context /\ ci \in [Check -> CheckState] /\ Passed(ctx.results) \in BOOLEAN
    BY DEF GitInv, GitTypes, SavedTypes, GithubTypes, Passed
  <2>2. CASE UNCHANGED ctx
    BY <2>1, <2>2
  <2>3. CASE StoreNumber
    BY <2>1, <2>3, ContextOf DEF StoreNumber
  <2>4. CASE ChecksSettled
    BY <2>1, <2>4, ContextOf DEF ChecksSettled
  <2>5. CASE RecordStatus
    BY <2>1, <2>5, ContextOf DEF RecordStatus
  <2>6. QED
    BY <2>2, <2>3, <2>4, <2>5 DEF BranchKnown, BranchBegin, CommitNothing, CreatePr, SavePhase,
       GoBack, PushRejected, saved
<1>4. phase' \in 0 .. Len(Phases) /\ step' \in Nat \ {0} /\ rounds' \in 0 .. MaxRounds
  <2>1. /\ phase \in 0 .. Len(Phases) /\ step \in Nat \ {0} /\ rounds \in 0 .. MaxRounds
        /\ Len(Phases) \in Nat
    BY DEF GitInv, GitTypes, SavedTypes, ProcessTypes
  <2>2. CASE SavePhase
    BY <2>1, <2>2 DEF SavePhase
  <2>3. CASE GoBack
    BY <2>1, <2>3 DEF GoBack
  <2>4. CASE UNCHANGED <<phase, rounds>> /\ (Proceed \/ UNCHANGED step)
    BY <2>1, <2>4, StepTypes
  <2>5. QED
    BY <2>2, <2>3, <2>4 DEF BranchKnown, BranchBegin, CommitNothing, CreatePr, StoreNumber,
       ChecksSettled, RecordStatus, PushRejected, saved
<1>5. SavedTypes'
  BY <1>3, <1>4 DEF SavedTypes
<1>6. start' \in Branch \cup {None}
  BY DEF BranchKnown, BranchBegin, CommitNothing, CreatePr, StoreNumber, ChecksSettled,
         RecordStatus, SavePhase, GoBack, PushRejected, GitInv, GitTypes, ProcessTypes, CopyTypes
<1>7. pc' \in InCommand \cup {"next"}
  BY DEF BranchKnown, BranchBegin, CommitNothing, CreatePr, StoreNumber, ChecksSettled,
         RecordStatus, SavePhase, GoBack, PushRejected, Proceed, InCommand
<1>8. ProcessTypes'
  BY <1>1, <1>4, <1>6, <1>7 DEF GitInv, GitTypes, ProcessTypes
<1>9. GithubTypes'
  <2>1. CASE UNCHANGED github
    BY <2>1 DEF github, GitInv, GitTypes, GithubTypes
  <2>2. CASE pr = None /\ PrPossible /\ pr' = [base |-> PrBase] /\ ci' = Unchecked
    <3>1. PrBase \in Branch
      <4>1. mem.starting \in Branch \cup {None}
        BY DEF GitInv, GitTypes, ProcessTypes, GitState
      <4>2. PrBase \in Branch \cup {None} /\ PrBase # None
        BY <2>2, <4>1 DEF PrBase, PrPossible
      <4>3. QED
        BY <4>2
    <3>2. pr' \in [base : Branch]
      BY <2>2, <3>1
    <3>3. QED
      BY <2>2, <3>2, NothingYet DEF GithubTypes
  <2>3. QED
    BY <2>1, <2>2 DEF BranchKnown, BranchBegin, CommitNothing, CreatePr, StoreNumber,
       ChecksSettled, RecordStatus, SavePhase, GoBack, PushRejected
<1>10. CountTypes'
  BY <1>1 DEF GitInv, GitTypes, CountTypes
<1>11. SelectedTells'
  BY <1>1, <1>3 DEF GitInv, SelectedTells, copy
<1>12. PlaceTells'
  <2>1. CASE BranchBegin
    <3>1. UNCHANGED <<heads, tracked, head, staged>> /\ start' # None /\ head # None
      BY <2>1 DEF BranchBegin, copy
    <3>2. head = Target => heads[Target] # None
      BY <2>1 DEF BranchBegin, GitInv, HeadTells
    <3>3. /\ pc' \in {"sync", "checkout", "fetchBase", "createLocal"}
          /\ pc' \in {"sync", "checkout"} => heads[Target] # None
          /\ pc' \in {"fetchBase", "createLocal"} => heads[Target] = None
      BY <2>1, <3>2 DEF BranchBegin
    <3>4. QED
      BY <3>1, <3>3 DEF PlaceTells
  <2>2. CASE PushRejected
    <3>1. pc' = "fetch" /\ mem'.selected = Target
      BY <2>2 DEF PushRejected, GitInv, SelectedTells
    <3>2. QED
      BY <3>1 DEF PlaceTells
  <2>3. CASE pc' \in {"next", "number", "recordStatus"}
    BY <2>3 DEF PlaceTells
  <2>4. QED
    BY <2>1, <2>2, <2>3 DEF BranchKnown, CommitNothing, CreatePr, StoreNumber, ChecksSettled,
       RecordStatus, SavePhase, GoBack, Proceed
<1>13. QED
  BY <1>1, <1>2, <1>5, <1>8, <1>9, <1>10, <1>11, <1>12, Thinking

(* Steps that remember the branch or the message. *)
LEMMA RecordingSteps ==
  ASSUME GitInv, RecordStart \/ RecordSelected \/ RecordMessage
  PROVE  GitInv'
<1>1. UNCHANGED <<remote, stops, at, cacheRest, inPlace, copy, start, rounds, phase, pr, ci,
                  edits, moves>>
  BY DEF RecordStart, RecordSelected, RecordMessage, cacheVars, cacheRest, github
<1>2. Running /\ Running'
  BY DEF RecordStart, RecordSelected, RecordMessage, Running, Proceed
<1>3. /\ mem \in GitState /\ ctx \in Context /\ start \in Branch \cup {None}
      /\ mem.selected \in Branch \cup {None}
  BY DEF GitInv, GitTypes, ProcessTypes, SavedTypes, GitState
<1>4. /\ mem' \in GitState /\ ctx' \in Context
      /\ RecordStart => mem'.selected = Target /\ ctx'.git.selected = ctx.git.selected
      /\ RecordSelected => mem' = mem /\ ctx'.git.selected = mem.selected
      /\ RecordMessage => /\ mem'.selected = mem.selected
                          /\ ctx'.git.selected = ctx.git.selected
  <2>1. CASE RecordStart
    <3>1. mem' = [mem EXCEPT !.starting = start, !.selected = Target]
      BY <2>1 DEF RecordStart
    <3>2. ctx' = [ctx EXCEPT !.git.starting = start]
      BY <2>1 DEF RecordStart
    <3>3. mem' \in GitState /\ mem'.selected = Target
      <4>1. start \in Branch \cup {None} /\ Target \in Branch \cup {None} /\ mem \in GitState
        BY <1>3
      <4>2. QED
        BY <3>1, <4>1 DEF GitState
    <3>4. ctx' \in Context /\ ctx'.git.selected = ctx.git.selected
      BY <1>3, <3>2, ContextStarting
    <3>5. ~ RecordSelected /\ ~ RecordMessage
      BY <2>1 DEF RecordStart, RecordSelected, RecordMessage
    <3>6. QED
      BY <2>1, <3>3, <3>4, <3>5
  <2>2. CASE RecordSelected
    <3>1. mem' = mem
      BY <2>2 DEF RecordSelected
    <3>2. ctx' = [ctx EXCEPT !.git.selected = mem.selected]
      BY <2>2 DEF RecordSelected
    <3>3. ctx' \in Context /\ ctx'.git.selected = mem.selected
      <4>1. PICK b \in Branch \cup {None} : b = mem.selected
        BY <1>3
      <4>2. ctx' = [ctx EXCEPT !.git.selected = b]
        BY <3>2, <4>1
      <4>3. ctx \in Context /\ ctx.git \in GitState
        BY <1>3 DEF Context
      <4>4. PICK g \in GitState : g = [ctx.git EXCEPT !.selected = b]
        BY <4>3 DEF GitState
      <4>5. g.selected = b
        BY <4>3, <4>4 DEF GitState
      <4>6. ctx' = [ctx EXCEPT !.git = g]
        BY <4>2, <4>4
      <4>7. ctx' \in Context /\ ctx'.git = g
        BY <4>3, <4>6, ContextGit
      <4>8. QED
        BY <4>1, <4>5, <4>7
    <3>4. ~ RecordStart /\ ~ RecordMessage
      BY <2>2 DEF RecordStart, RecordSelected, RecordMessage
    <3>5. QED
      BY <1>3, <2>2, <3>1, <3>3, <3>4
  <2>3. CASE RecordMessage
    <3>1. mem' = [mem EXCEPT !.message = TRUE]
      BY <2>3 DEF RecordMessage
    <3>2. ctx' = [ctx EXCEPT !.git.message = TRUE]
      BY <2>3 DEF RecordMessage
    <3>3. mem' \in GitState /\ mem'.selected = mem.selected
      BY <1>3, <3>1, GitStateMessage
    <3>4. ctx' \in Context /\ ctx'.git.selected = ctx.git.selected
      BY <1>3, <3>2, ContextMessage
    <3>5. ~ RecordStart /\ ~ RecordSelected
      BY <2>3 DEF RecordStart, RecordSelected, RecordMessage
    <3>6. QED
      BY <2>3, <3>3, <3>4, <3>5
  <2>4. QED
    BY <2>1, <2>2, <2>3
<1>5. UNCHANGED <<heads, tracked, head, staged>>
  BY <1>1 DEF copy
<1>6. SelectedTells'
  <2>1. CASE RecordStart
    <3>1. mem'.selected = Target /\ ctx'.git.selected = ctx.git.selected
      BY <1>4, <2>1
    <3>2. heads[Target] # None
      BY <2>1 DEF RecordStart, GitInv, PlaceTells
    <3>3. QED
      BY <1>5, <3>1, <3>2 DEF GitInv, SelectedTells
  <2>2. CASE RecordSelected
    <3>1. mem' = mem /\ ctx'.git.selected = mem.selected
      BY <1>4, <2>2
    <3>2. QED
      BY <1>5, <3>1 DEF GitInv, SelectedTells
  <2>3. CASE RecordMessage
    <3>1. mem'.selected = mem.selected /\ ctx'.git.selected = ctx.git.selected
      BY <1>4, <2>3
    <3>2. QED
      BY <1>5, <3>1 DEF GitInv, SelectedTells
  <2>4. QED
    BY <2>1, <2>2, <2>3
<1>7. PlaceTells'
  <2>1. CASE RecordStart
    <3>1. mem'.selected = Target /\ pc' = "recordSelected"
      BY <1>4, <2>1 DEF RecordStart
    <3>2. QED
      BY <3>1 DEF PlaceTells
  <2>2. CASE RecordSelected \/ RecordMessage
    BY <2>2 DEF RecordSelected, RecordMessage, Proceed, PlaceTells
  <2>3. QED
    BY <2>1, <2>2
<1>8. ProcessTypes'
  <2>1. pc' \in InCommand \cup {"next"} /\ step' \in Nat \ {0}
    BY StepTypes DEF RecordStart, RecordSelected, RecordMessage, Proceed, InCommand
  <2>2. QED
    BY <1>1, <1>4, <2>1 DEF GitInv, GitTypes, ProcessTypes
<1>9. SavedTypes' /\ GithubTypes' /\ CountTypes'
  BY <1>1, <1>4 DEF GitInv, GitTypes, SavedTypes, GithubTypes, CountTypes
<1>10. QED
  BY <1>1, <1>2, <1>6, <1>7, <1>8, <1>9, Thinking

-----------------------------------------------------------------------------
(* A step in the working copy that leaves what is remembered alone. *)
LEMMA Handling ==
  ASSUME GitInv, Running, Running', UNCHANGED <<remote, at, cacheRest, inPlace>>,
         UNCHANGED stops \/ Stop, UNCHANGED <<start, mem, rounds, saved, github, moves>>,
         step' \in Nat \ {0}, pc' \in InCommand \cup {"next"}, edits' \in 0 .. Len(Own),
         heads' \in Branches, tracked' \in Branches,
         \A b \in Branch : Clean(heads'[b]) /\ Clean(tracked'[b]),
         \A b \in Branch : heads[b] # None => heads'[b] # None,
         CopyTypes', HeadTells', PlaceTells'
  PROVE  GitInv'
<1>1. IInv' /\ CloneTells'
  <2>1. remote' \in Branches
    BY DEF GitInv, IInv, CacheTypeOK
  <2>2. QED
    BY <2>1, Working
<1>2. SourcesSound'
  BY DEF cacheRest, GitInv, SourcesSound, Sound, Clean
<1>3. SelectedTells'
  BY DEF saved, GitInv, SelectedTells
<1>4. GitTypes'
  BY DEF saved, github, GitInv, GitTypes, ProcessTypes, SavedTypes, GithubTypes, CountTypes
<1>5. QED
  BY <1>1, <1>2, <1>3, <1>4 DEF GitInv

(* Selecting the branch: it is checked out, or made of another, or synced  *)
(* with the remote's.                                                      *)
LEMMA BranchSteps ==
  ASSUME GitInv, CheckoutTarget \/ FetchBase \/ CreateBranch \/ FetchTarget \/ FastForward
  PROVE  GitInv'
<1>1. /\ UNCHANGED <<remote, at, cacheRest, inPlace, loose, tree, staged, start, mem, rounds,
                     saved, github, edits, moves, step>>
      /\ UNCHANGED stops \/ Stop
  BY DEF CheckoutTarget, FetchBase, FetchForBranch, CreateBranch, FetchTarget, FastForward,
         cacheVars, cacheRest
<1>2. Running /\ Running' /\ pc' \in InCommand
  BY DEF CheckoutTarget, FetchBase, FetchForBranch, CreateBranch, FetchTarget, FastForward,
         Running, InCommand
<1>3. /\ remote \in Branches /\ heads \in Branches /\ tracked \in Branches
      /\ \A b \in Branch : /\ remote[b] \in History \cup {None}
                           /\ heads[b] \in History \cup {None}
                           /\ tracked[b] \in History \cup {None}
                           /\ Clean(remote[b]) /\ Clean(heads[b]) /\ Clean(tracked[b])
  BY DEF GitInv, IInv, CacheTypeOK, GitTypes, CopyTypes, SourcesSound, Sound, Branches
<1>4. pc \in {"fetchBase", "create", "createLocal"} => Base \in Branch
  BY DEF Base, GitInv, PlaceTells, GitTypes, ProcessTypes
<1>5. ASSUME NEW b \in Branch, NEW p, NEW q, FetchForBranch(b, p, q)
      PROVE  /\ tracked' \in Branches /\ \A c \in Branch : Clean(tracked'[c])
             /\ \/ pc' = p /\ tracked'[b] # None
                \/ pc' = q /\ heads[b] # None
  <2>1. CASE tracked' = [tracked EXCEPT ![b] = remote[b]] /\ remote[b] # None /\ pc' = p
    <3>1. /\ tracked' \in Branches /\ tracked'[b] = remote[b]
          /\ \A c \in Branch \ {b} : tracked'[c] = tracked[c]
      <4>1. remote[b] \in History \cup {None} /\ tracked \in Branches
        BY <1>3
      <4>2. QED
        BY <2>1, <4>1 DEF Branches
    <3>2. \A c \in Branch : tracked'[c] = remote[c] \/ tracked'[c] = tracked[c]
      BY <3>1
    <3>3. \A c \in Branch : Clean(tracked'[c])
      BY <1>3, <3>2
    <3>4. QED
      BY <2>1, <3>1, <3>3
  <2>2. CASE tracked' = tracked /\ heads[b] # None /\ pc' = q
    BY <1>3, <2>2
  <2>3. QED
    BY <1>5, <2>1, <2>2 DEF FetchForBranch
<1>6. step' \in Nat \ {0} /\ edits' \in 0 .. Len(Own)
  BY <1>1 DEF GitInv, GitTypes, ProcessTypes, CountTypes
<1>7. CASE CheckoutTarget
  <2>1. heads[Target] # None /\ UNCHANGED <<heads, tracked>> /\ head' = Target /\ pc' = "sync"
        /\ start # None
    BY <1>7 DEF CheckoutTarget, GitInv, PlaceTells
  <2>2. loose = None
    BY <1>7 DEF CheckoutTarget, GitInv, PlaceTells, HeadTells
  <2>3. CopyTypes' /\ HeadTells'
    BY <1>1, <2>1, <2>2 DEF GitInv, GitTypes, CopyTypes, HeadTells
  <2>4. PlaceTells'
    BY <1>1, <2>1 DEF PlaceTells
  <2>5. QED
    BY <1>1, <1>2, <1>3, <1>6, <2>1, <2>3, <2>4, Handling
<1>8. CASE FetchBase
  <2>1. Base \in Branch /\ UNCHANGED <<heads, head>> /\ heads[Target] = None
        /\ start # None /\ head # None
    BY <1>4, <1>8 DEF FetchBase, GitInv, PlaceTells
  <2>2. FetchForBranch(Base, "create", "createLocal")
    BY <1>8 DEF FetchBase
  <2>3. /\ tracked' \in Branches /\ \A c \in Branch : Clean(tracked'[c])
        /\ pc' \in {"create", "createLocal"}
    BY <1>5, <2>1, <2>2
  <2>4. CopyTypes' /\ HeadTells'
    BY <1>1, <2>1, <2>3 DEF GitInv, GitTypes, CopyTypes, HeadTells
  <2>5. PlaceTells'
    BY <1>1, <2>1, <2>3 DEF PlaceTells
  <2>6. QED
    BY <1>1, <1>2, <1>3, <1>6, <2>1, <2>3, <2>4, <2>5, Handling
<1>9. CASE CreateBranch
  <2>1. UNCHANGED tracked /\ head' = Target /\ pc' = "recordStart" /\ Base \in Branch
        /\ heads[Target] = None /\ loose = None
    BY <1>4, <1>9 DEF CreateBranch, GitInv, PlaceTells, HeadTells
  <2>2. PICK h \in History : /\ Clean(h) /\ h # None
                             /\ heads' = [heads EXCEPT ![Target] = h]
    <3>1. CASE pc = "create"
      BY <1>3, <1>9, <2>1, <3>1 DEF CreateBranch
    <3>2. CASE pc = "createLocal"
      BY <1>3, <1>9, <2>1, <3>2 DEF CreateBranch
    <3>3. QED
      BY <1>9, <3>1, <3>2 DEF CreateBranch
  <2>3. /\ heads' \in Branches /\ heads'[Target] = h
        /\ \A c \in Branch \ {Target} : heads'[c] = heads[c]
    BY <1>3, <2>2 DEF Branches
  <2>4. \A c \in Branch : Clean(heads'[c]) /\ (heads[c] # None => heads'[c] # None)
    BY <1>3, <2>2, <2>3
  <2>5. CopyTypes' /\ HeadTells'
    BY <1>1, <2>1, <2>2, <2>3 DEF GitInv, GitTypes, CopyTypes, HeadTells
  <2>6. PlaceTells'
    BY <2>1, <2>2, <2>3 DEF PlaceTells
  <2>7. QED
    BY <1>1, <1>2, <1>3, <1>6, <2>1, <2>3, <2>4, <2>5, <2>6, Handling
<1>10. CASE FetchTarget
  <2>1. UNCHANGED <<heads, head>> /\ heads[Target] # None /\ start # None /\ head # None
    BY <1>10 DEF FetchTarget, GitInv, PlaceTells
  <2>2. /\ tracked' \in Branches /\ \A c \in Branch : Clean(tracked'[c])
        /\ (pc' = "compare" /\ tracked'[Target] # None) \/ pc' = "recordStart"
    <3>1. CASE FetchForBranch(Target, "compare", "recordStart")
      <4>1. Target \in Branch
        OBVIOUS
      <4>2. QED
        BY <1>5, <3>1, <4>1
    <3>2. CASE pc' = "recordStart" /\ UNCHANGED tracked
      BY <1>3, <3>2
    <3>3. QED
      BY <1>10, <3>1, <3>2 DEF FetchTarget
  <2>3. CopyTypes' /\ HeadTells'
    BY <1>1, <2>1, <2>2 DEF GitInv, GitTypes, CopyTypes, HeadTells
  <2>4. PlaceTells'
    BY <1>1, <2>1, <2>2 DEF PlaceTells
  <2>5. QED
    BY <1>1, <1>2, <1>3, <1>6, <2>1, <2>2, <2>3, <2>4, Handling
<1>11. CASE FastForward
  <2>1. /\ UNCHANGED <<tracked, head>> /\ pc' = "recordStart"
        /\ heads' = [heads EXCEPT ![Target] = tracked[Target]]
        /\ heads[Target] # None /\ tracked[Target] # None
    BY <1>11 DEF FastForward, GitInv, PlaceTells
  <2>2. /\ heads' \in Branches /\ heads'[Target] = tracked[Target]
        /\ \A c \in Branch \ {Target} : heads'[c] = heads[c]
    <3>1. tracked[Target] \in History \cup {None} /\ Target \in Branch
      BY <1>3
    <3>2. QED
      BY <1>3, <2>1, <3>1 DEF Branches
  <2>3. \A c \in Branch : Clean(heads'[c]) /\ (heads[c] # None => heads'[c] # None)
    BY <1>3, <2>1, <2>2
  <2>4. CopyTypes' /\ HeadTells'
    BY <1>1, <2>1, <2>2, <2>3 DEF GitInv, GitTypes, CopyTypes, HeadTells
  <2>5. PlaceTells'
    BY <2>1, <2>2 DEF PlaceTells
  <2>6. QED
    BY <1>1, <1>2, <1>3, <1>6, <2>1, <2>2, <2>3, <2>4, <2>5, Handling
<1>12. QED
  BY <1>7, <1>8, <1>9, <1>10, <1>11

(* The agent's changes, and the index. *)
LEMMA ChangeSteps ==
  ASSUME GitInv, Agent \/ CommitStage \/ UnstageEnv
  PROVE  GitInv'
<1>1. UNCHANGED <<remote, stops, at, cacheRest, inPlace, heads, tracked, head, loose, start, mem,
                  rounds, saved, github, moves>>
  BY DEF Agent, CommitStage, UnstageEnv, cacheVars, cacheRest
<1>2. Running /\ Running' /\ pc' \in InCommand \cup {"next"}
  BY DEF Agent, CommitStage, UnstageEnv, Doing, Proceed, Running, InCommand
<1>3. step' \in Nat \ {0}
  BY StepTypes DEF Agent, CommitStage, UnstageEnv
<1>4. heads' \in Branches /\ tracked' \in Branches
      /\ \A b \in Branch : /\ Clean(heads'[b]) /\ Clean(tracked'[b])
                           /\ heads[b] # None => heads'[b] # None
  BY <1>1 DEF GitInv, GitTypes, CopyTypes, SourcesSound
<1>5. /\ edits' \in 0 .. Len(Own)
      /\ tree' \subseteq Change /\ (Marker \in tree' => Marker \in tree)
  <2>1. tree \subseteq Change /\ edits \in 0 .. Len(Own) /\ Len(Own) \in Nat
    BY DEF GitInv, GitTypes, CopyTypes, CountTypes
  <2>2. CASE edits < Len(Own) /\ edits' = edits + 1
             /\ \E more \in SUBSET {Env} : tree' = tree \cup {Own[edits + 1]} \cup more
    <3>1. edits + 1 \in 1 .. Len(Own)
      BY <2>1, <2>2
    <3>2. Own[edits + 1] \in Change \ {Env, Marker}
      BY <3>1
    <3>3. QED
      BY <2>1, <2>2, <3>1, <3>2
  <2>3. CASE UNCHANGED <<tree, edits>>
    BY <2>1, <2>3
  <2>4. QED
    BY <2>2, <2>3 DEF Agent, CommitStage, UnstageEnv
<1>6. staged' \subseteq Change /\ (Marker \in staged' => Marker \in tree \/ Marker \in staged)
  BY DEF Agent, CommitStage, UnstageEnv, GitInv, GitTypes, CopyTypes
<1>7. CopyTypes' /\ HeadTells'
  BY <1>1, <1>4, <1>5, <1>6 DEF GitInv, GitTypes, CopyTypes, HeadTells
<1>8. PlaceTells'
  <2>1. pc' \in {"next", "unstage"} \/ (pc' = "commit" /\ Env \notin staged')
    BY DEF Agent, CommitStage, UnstageEnv, Proceed
  <2>2. QED
    BY <2>1 DEF PlaceTells
<1>9. QED
  BY <1>1, <1>2, <1>3, <1>4, <1>5, <1>7, <1>8, Handling

(* A commit on a branch has neither an .env file nor markers. *)
LEMMA CommitStep ==
  ASSUME GitInv, MakeCommit
  PROVE  GitInv'
<1>1. /\ UNCHANGED <<remote, stops, at, cacheRest, inPlace, tracked, head, start, mem, rounds,
                     saved, github, moves, step, edits>>
      /\ tree' \subseteq tree /\ staged' = {} /\ pc = "commit" /\ pc' = "recordMessage"
  BY DEF MakeCommit, cacheVars, cacheRest
<1>2. Running /\ Running' /\ pc' \in InCommand
  BY <1>1 DEF Running, InCommand
<1>3. /\ heads \in Branches /\ tracked \in Branches /\ staged \in SUBSET Change
      /\ loose \in History \cup {None} /\ head \in Branch \cup {None}
      /\ \A b \in Branch : /\ heads[b] \in History \cup {None}
                           /\ Clean(heads[b]) /\ Clean(tracked[b])
  BY DEF GitInv, GitTypes, CopyTypes, SourcesSound, Branches
<1>4. /\ heads' \in Branches
      /\ \A b \in Branch : Clean(heads'[b]) /\ (heads[b] # None => heads'[b] # None)
      /\ loose' \in History \cup {None} /\ (head = None <=> loose' # None)
  <2>1. CASE head # None
    <3>1. UNCHANGED loose /\ heads' = [heads EXCEPT ![head] = Append(heads[head], staged)]
      BY <2>1 DEF MakeCommit
    <3>2. heads[head] \in History /\ head \in Branch /\ loose = None
      BY <1>3, <2>1 DEF GitInv, HeadTells
    <3>3. Marker \notin staged /\ Env \notin staged
      BY <1>1, <3>2 DEF GitInv, HeadTells, PlaceTells
    <3>4. PICK h \in History : /\ h = Append(heads[head], staged) /\ h # None
                               /\ Changes(h) = Changes(heads[head]) \cup staged
      BY <1>3, <3>2, ChangesAppended
    <3>5. Clean(h)
      BY <1>3, <3>2, <3>3, <3>4 DEF Clean
    <3>6. /\ heads' \in Branches /\ heads'[head] = h
          /\ \A b \in Branch \ {head} : heads'[b] = heads[b]
      BY <1>3, <3>1, <3>2, <3>4 DEF Branches
    <3>7. QED
      BY <1>3, <2>1, <3>1, <3>2, <3>4, <3>5, <3>6
  <2>2. CASE head = None
    <3>1. UNCHANGED heads /\ loose' = Append(loose, staged) /\ loose \in History
      BY <1>3, <2>2 DEF MakeCommit, GitInv, HeadTells
    <3>2. loose' \in History /\ loose' # None
      BY <1>3, <3>1, ChangesAppended
    <3>3. QED
      BY <1>3, <2>2, <3>1, <3>2
  <2>3. QED
    BY <2>1, <2>2
<1>5. CopyTypes' /\ HeadTells'
  <2>1. head # None => loose = None /\ heads'[head] # None
    BY <1>3, <1>4 DEF GitInv, HeadTells
  <2>2. loose' = None => Marker \notin tree
    BY <1>4, <2>1 DEF GitInv, HeadTells
  <2>3. QED
    BY <1>1, <1>3, <1>4, <2>1, <2>2 DEF GitInv, GitTypes, CopyTypes, HeadTells
<1>6. PlaceTells'
  BY <1>1 DEF PlaceTells
<1>7. step' \in Nat \ {0} /\ edits' \in 0 .. Len(Own)
  BY <1>1 DEF GitInv, GitTypes, ProcessTypes, CountTypes
<1>8. QED
  BY <1>1, <1>2, <1>3, <1>4, <1>5, <1>6, <1>7, Handling

(* A push brings clean commits to the remote repository. *)
LEMMA PushStep ==
  ASSUME GitInv, Push
  PROVE  GitInv'
<1>1. /\ UNCHANGED <<stops, at, cacheRest, inPlace, heads, head, loose, tree, staged, start, mem,
                     rounds, saved, pr, edits, moves>>
      /\ Running /\ Running' /\ pc' = "next"
  BY DEF Push, Running, Doing, Proceed
<1>2. mem.selected = Target /\ heads[Target] # None
  BY DEF Push, GitInv, SelectedTells, PlaceTells
<1>3. /\ remote \in Branches /\ heads \in Branches /\ tracked \in Branches
      /\ heads[Target] \in History /\ Target \in Branch /\ Main \in Branch
      /\ \A b \in Branch : Clean(remote[b]) /\ Clean(heads[b]) /\ Clean(tracked[b])
      /\ remote[Main] # None
  BY <1>2 DEF GitInv, IInv, CacheTypeOK, GitTypes, CopyTypes, SourcesSound, Sound, Branches
<1>4. /\ remote' = [remote EXCEPT ![Target] = heads[Target]]
      /\ tracked' = [tracked EXCEPT ![Target] = heads[Target]]
      /\ ci' \in {Unchecked, ci}
  BY <1>2 DEF Push, Update
<1>5. /\ remote' \in Branches /\ remote'[Target] = heads[Target]
      /\ \A b \in Branch \ {Target} : remote'[b] = remote[b]
  BY <1>3, <1>4 DEF Branches
<1>6. /\ tracked' \in Branches /\ tracked'[Target] = heads[Target]
      /\ \A b \in Branch \ {Target} : tracked'[b] = tracked[b]
  BY <1>3, <1>4 DEF Branches
<1>7. IInv' /\ CloneTells'
  BY <1>1, <1>5, Working
<1>8. SourcesSound'
  <2>1. remote'[Main] # None
    BY <1>2, <1>3, <1>5
  <2>2. \A b \in Branch : Clean(remote'[b]) /\ Clean(tracked'[b])
    BY <1>3, <1>5, <1>6
  <2>3. QED
    BY <1>1, <2>1, <2>2 DEF cacheRest, GitInv, SourcesSound, Sound, Clean
<1>9. HeadTells' /\ SelectedTells' /\ PlaceTells'
  BY <1>1 DEF saved, GitInv, HeadTells, SelectedTells, PlaceTells
<1>10. GitTypes'
  <2>1. step' \in Nat \ {0}
    BY StepTypes DEF Push
  <2>2. GithubTypes'
    BY <1>1, <1>4, NothingYet DEF GitInv, GitTypes, GithubTypes
  <2>3. QED
    BY <1>1, <1>6, <2>1, <2>2 DEF saved, GitInv, GitTypes, CopyTypes, ProcessTypes, SavedTypes,
       CountTypes
<1>11. QED
  BY <1>7, <1>8, <1>9, <1>10 DEF GitInv

(* A rebase keeps what is on the branch, or stops on a detached HEAD. *)
LEMMA RebaseSteps ==
  ASSUME GitInv, FetchForRebase \/ Rebase \/ RebaseFails
  PROVE  GitInv'
<1>1. UNCHANGED <<remote, stops, at, cacheRest, inPlace, staged, step, start, mem, rounds, saved,
                  github, edits, moves>>
  BY DEF FetchForRebase, Rebase, RebaseFails, cacheVars, cacheRest
<1>2. Running /\ Running' /\ pc' \in InCommand
  BY DEF FetchForRebase, Rebase, RebaseFails, Running, InCommand
<1>3. /\ remote \in Branches /\ heads \in Branches /\ tracked \in Branches
      /\ \A b \in Branch : /\ remote[b] \in History \cup {None}
                           /\ heads[b] \in History \cup {None}
                           /\ tracked[b] \in History \cup {None}
                           /\ Clean(remote[b]) /\ Clean(heads[b]) /\ Clean(tracked[b])
      /\ head \in Branch \cup {None} /\ Target \in Branch
  BY DEF GitInv, IInv, CacheTypeOK, GitTypes, CopyTypes, SourcesSound, Sound, Branches
<1>4. mem.selected = Target
  BY DEF FetchForRebase, Rebase, RebaseFails, GitInv, PlaceTells
<1>5. step' \in Nat \ {0} /\ edits' \in 0 .. Len(Own)
  BY <1>1 DEF GitInv, GitTypes, ProcessTypes, CountTypes
<1>6. CASE FetchForRebase
  <2>1. /\ UNCHANGED <<heads, head, loose, tree>> /\ pc' = "rebase"
        /\ tracked' = [tracked EXCEPT ![Target] = remote[Target]] /\ remote[Target] # None
    BY <1>4, <1>6 DEF FetchForRebase
  <2>2. /\ tracked' \in Branches /\ tracked'[Target] = remote[Target]
        /\ \A b \in Branch \ {Target} : tracked'[b] = tracked[b]
    BY <1>3, <2>1 DEF Branches
  <2>3. \A b \in Branch : Clean(tracked'[b])
    BY <1>3, <2>2
  <2>4. CopyTypes' /\ HeadTells'
    BY <1>1, <2>1, <2>2 DEF GitInv, GitTypes, CopyTypes, HeadTells
  <2>5. PlaceTells'
    BY <1>1, <1>4, <2>1, <2>2 DEF PlaceTells
  <2>6. QED
    BY <1>1, <1>2, <1>3, <1>5, <2>1, <2>2, <2>3, <2>4, <2>5, Handling
<1>7. CASE Rebase
  <2>1. /\ UNCHANGED <<tracked, head, loose, tree>> /\ pc' = "repush" /\ head \in Branch
        /\ heads[head] # None /\ tracked[Target] # None
        /\ heads' = [heads EXCEPT ![head] = Rebased(heads[head], tracked[Target])]
    BY <1>3, <1>4, <1>7 DEF Rebase, GitInv, HeadTells, PlaceTells
  <2>2. PICK h \in History : /\ h = Rebased(heads[head], tracked[Target])
                             /\ Changes(h) = Changes(heads[head]) \cup Changes(tracked[Target])
    <3>1. heads[head] \in History /\ tracked[Target] \in History
      BY <1>3, <2>1
    <3>2. QED
      BY <3>1, ChangesRebased
  <2>3. Clean(h) /\ h # None
    BY <1>3, <2>1, <2>2 DEF Clean
  <2>4. /\ heads' \in Branches /\ heads'[head] = h
        /\ \A b \in Branch \ {head} : heads'[b] = heads[b]
    BY <1>3, <2>1, <2>2 DEF Branches
  <2>5. \A b \in Branch : Clean(heads'[b]) /\ (heads[b] # None => heads'[b] # None)
    BY <1>3, <2>3, <2>4
  <2>6. CopyTypes' /\ HeadTells'
    BY <1>1, <2>1, <2>3, <2>4 DEF GitInv, GitTypes, CopyTypes, HeadTells
  <2>7. PlaceTells'
    BY <1>1, <1>4, <2>1 DEF PlaceTells
  <2>8. QED
    BY <1>1, <1>2, <1>3, <1>5, <2>1, <2>4, <2>5, <2>6, <2>7, Handling
<1>8. CASE RebaseFails
  <2>1. UNCHANGED <<heads, tracked>> /\ pc' = "abort"
    BY <1>8 DEF RebaseFails
  <2>2. CopyTypes' /\ HeadTells'
    <3>1. CopyTypes'
      <4>1. CASE loose' = tracked[mem.selected] /\ head' = None /\ tree' = tree \cup {Marker}
        <5>1. loose' \in History
          BY <1>3, <1>4, <1>8, <4>1 DEF RebaseFails, GitInv, PlaceTells
        <5>2. QED
          BY <1>1, <2>1, <4>1, <5>1 DEF GitInv, GitTypes, CopyTypes
      <4>2. CASE UNCHANGED <<loose, head, tree>>
        BY <1>1, <2>1, <4>2 DEF GitInv, GitTypes, CopyTypes
      <4>3. QED
        BY <1>8, <4>1, <4>2 DEF RebaseFails
    <3>2. HeadTells'
      <4>1. CASE loose' = tracked[mem.selected] /\ head' = None
        BY <1>4, <1>8, <4>1 DEF RebaseFails, GitInv, PlaceTells, HeadTells
      <4>2. CASE UNCHANGED <<loose, head, tree>>
        BY <1>1, <2>1, <4>2 DEF GitInv, HeadTells
      <4>3. QED
        BY <1>8, <4>1, <4>2 DEF RebaseFails
    <3>3. QED
      BY <3>1, <3>2
  <2>3. PlaceTells'
    BY <1>1, <1>4, <2>1 DEF PlaceTells
  <2>4. QED
    BY <1>1, <1>2, <1>3, <1>5, <2>1, <2>2, <2>3, Handling
<1>9. QED
  BY <1>6, <1>7, <1>8

-----------------------------------------------------------------------------
(* The process ends, whatever it leaves in the working copy. *)
LEMMA EndSteps ==
  ASSUME GitInv, Running, Quit("down") \/ Quit("done"),
         UNCHANGED <<remote, inPlace, heads, tracked, saved, github, edits, moves>>,
         UNCHANGED stops \/ Stop, CopyTypes', HeadTells'
  PROVE  GitInv'
<1>1. at[Self] \in {"idle", "ready"} /\ EndRun(Self)
  BY DEF GitInv, CloneTells, Quit
<1>2. remote' \in Branches /\ stops' \in 0 .. MaxStops
  BY Stopping DEF GitInv, IInv, CacheTypeOK
<1>3. IInv' /\ at'[Self] = "idle"
  BY <1>1, <1>2, Ending DEF GitInv
<1>4. UNCHANGED <<bare, clone, recorded>>
  BY <1>1 DEF EndRun
<1>5. /\ pc' \in {"down", "done"} /\ step' = 1 /\ start' = None /\ mem' = NoGitState
      /\ rounds' = 0
  BY DEF Quit
<1>6. SourcesSound'
  BY <1>4 DEF GitInv, SourcesSound, Sound, Clean
<1>7. CloneTells'
  <2>1. inPlace' => Self \notin recorded'
    BY <1>4 DEF GitInv, CloneTells
  <2>2. ~ inPlace' /\ Self \notin recorded' => ctx'.git.selected = None
    BY <1>4 DEF saved, GitInv, CloneTells
  <2>3. QED
    BY <1>3, <1>5, <2>1, <2>2 DEF CloneTells, Running
<1>8. SelectedTells'
  BY <1>5, NothingYet DEF saved, GitInv, SelectedTells
<1>9. PlaceTells'
  BY <1>5 DEF PlaceTells
<1>10. GitTypes'
  BY <1>5, NothingYet DEF saved, github, GitInv, GitTypes, ProcessTypes, SavedTypes, GithubTypes,
     CountTypes
<1>11. QED
  BY <1>3, <1>6, <1>7, <1>8, <1>9, <1>10 DEF GitInv

LEMMA Endings ==
  ASSUME GitInv, AbortRebase \/ ChecksTimeOut \/ Complete \/ RaiseError
  PROVE  GitInv'
<1>1. CASE AbortRebase
  <2>1. /\ Running /\ Quit("down")
        /\ UNCHANGED <<remote, inPlace, heads, tracked, saved, github, edits, moves>>
        /\ UNCHANGED stops \/ Stop
    BY <1>1 DEF AbortRebase, Running
  <2>2. CASE head' = mem.selected /\ loose' = None /\ tree' = tree \cap {Env} /\ staged' = {}
    <3>1. mem.selected = Target /\ heads[Target] # None /\ Target \in Branch /\ Target # None
      BY <1>1 DEF AbortRebase, GitInv, PlaceTells, SelectedTells
    <3>2. CopyTypes' /\ HeadTells'
      BY <2>1, <2>2, <3>1 DEF GitInv, GitTypes, CopyTypes, HeadTells
    <3>3. QED
      BY <2>1, <3>2, EndSteps
  <2>3. CASE UNCHANGED <<head, loose, tree, staged>>
    <3>1. CopyTypes' /\ HeadTells'
      BY <2>1, <2>3 DEF GitInv, GitTypes, CopyTypes, HeadTells
    <3>2. QED
      BY <2>1, <3>1, EndSteps
  <2>4. QED
    BY <1>1, <2>2, <2>3 DEF AbortRebase
<1>2. CASE ChecksTimeOut \/ Complete \/ RaiseError
  <2>1. /\ Running /\ (Quit("down") \/ Quit("done"))
        /\ UNCHANGED <<remote, stops, inPlace, copy, saved, github, edits, moves>>
    BY <1>2 DEF ChecksTimeOut, Complete, RaiseError, Refused, Doing, Running
  <2>2. CopyTypes' /\ HeadTells'
    BY <2>1 DEF copy, GitInv, GitTypes, CopyTypes, HeadTells
  <2>3. QED
    BY <2>1, <2>2, EndSteps DEF copy
<1>3. QED
  BY <1>1, <1>2

-----------------------------------------------------------------------------
(* What a run that gets a clone leaves alone. *)
LEMMA RunFrame ==
  ASSUME IInv, NEW r \in Run, RunNext(r)
  PROVE  /\ IInv' /\ UNCHANGED remote
         /\ \A s \in Run \ {r} : /\ at'[s] = at[s] /\ clone'[s] = clone[s]
                                 /\ (s \in recorded' <=> s \in recorded)
<1>1. IInv'
  BY CloneSteps, CacheSteps, Forgetting DEF RunNext, CloneStep
<1>2. UNCHANGED remote
  BY DEF RunNext, BeginRun, ResumeRun, CloneStep, Lock, Refresh, BareClone, FillBare, MarkBare,
         Copy, Checkout, Label, Refuse, Record, Finish, CloneFails, CacheCrash, ClearForce
<1>3. ASSUME NEW s \in Run \ {r}
      PROVE  /\ at'[s] = at[s] /\ clone'[s] = clone[s]
             /\ (s \in recorded' <=> s \in recorded)
  <2> USE DEF IInv, CacheTypeOK
  <2>1. CASE BeginRun(r) \/ ResumeRun(r) \/ Record(r) \/ Finish(r) \/ ClearForce(r)
    BY <2>1 DEF BeginRun, ResumeRun, Record, Finish, EndRun, ClearForce
  <2>2. CASE Lock(r) \/ Refresh(r) \/ BareClone(r) \/ FillBare(r) \/ MarkBare(r) \/ Copy(r)
             \/ Checkout(r) \/ Label(r)
    BY <2>2 DEF Lock, Refresh, BareClone, FillBare, MarkBare, Copy, Checkout, Label
  <2>3. CASE Refuse(r) \/ CloneFails(r) \/ CacheCrash(r)
    BY <2>3 DEF Refuse, CloneFails, CacheCrash, Forget
  <2>4. QED
    BY <2>1, <2>2, <2>3 DEF RunNext, CloneStep
<1>4. QED
  BY <1>1, <1>2, <1>3

(* The cache and the clone only ever have what the remote repository had. *)
SourcesOfClone ==
  /\ bare # None /\ bare.heads # None => Sound(bare.heads)
  /\ clone[Self] # None => Sound(clone[Self].heads)
  /\ clone[Self] # None /\ clone[Self].onRef => Ref = None \/ clone[Self].heads[Ref] # None

LEMMA SourcesKept ==
  ASSUME IInv, Sound(remote), SourcesOfClone, NEW r \in Run, RunNext(r)
  PROVE  SourcesOfClone'
<1>1. None \notin BareDirectory /\ None \notin Branches /\ None \notin CloneDirectory
  OBVIOUS
<1>2. bare' # None /\ bare'.heads # None => Sound(bare'.heads)
  <2>1. CASE UNCHANGED bare \/ bare' = None
    BY <2>1 DEF SourcesOfClone
  <2>2. CASE Refresh(r) \/ MarkBare(r)
    <3>1. bare \in BareDirectory
      BY <2>2 DEF IInv, CacheInHand, Refresh, MarkBare
    <3>2. bare'.heads = bare.heads
      BY <2>2, <3>1 DEF Refresh, MarkBare, FetchIntoBare, BareDirectory
    <3>3. QED
      BY <1>1, <3>1, <3>2 DEF SourcesOfClone
  <2>3. CASE BareClone(r)
    BY <2>3 DEF BareClone
  <2>4. CASE FillBare(r)
    <3>1. bare \in BareDirectory
      BY <2>4 DEF IInv, CacheInHand, FillBare
    <3>2. bare'.heads = remote
      BY <2>4, <3>1 DEF FillBare, BareDirectory
    <3>3. QED
      BY <3>2
  <2>5. QED
    BY <2>1, <2>2, <2>3, <2>4 DEF RunNext, BeginRun, ResumeRun, CloneStep, Lock, Copy, Checkout,
       Label, Refuse, Record, Finish, EndRun, CloneFails, CacheCrash, ClearForce
<1>3. clone'[Self] # None =>
        /\ Sound(clone'[Self].heads)
        /\ clone'[Self].onRef => Ref = None \/ clone'[Self].heads[Ref] # None
  <2>1. CASE clone'[Self] \in {None, clone[Self]}
    BY <2>1 DEF SourcesOfClone
  <2>2. CASE r = Self /\ Copy(r)
    <3>1. clone'[Self] = [heads |-> bare.heads, onRef |-> Ref = None, marked |-> FALSE]
      BY <2>2 DEF IInv, CacheTypeOK, Copy
    <3>2. bare \in BareDirectory /\ bare.heads \in Branches
      BY <2>2 DEF IInv, CacheInHand, Copy
    <3>3. Sound(bare.heads)
      BY <1>1, <3>2 DEF SourcesOfClone
    <3>4. clone'[Self].heads = bare.heads /\ clone'[Self].onRef = (Ref = None)
      BY <3>1
    <3>5. QED
      BY <3>3, <3>4
  <2>3. CASE r = Self /\ (Checkout(r) \/ Label(r))
    <3>1. clone[Self] \in CloneDirectory /\ clone[Self] # None
      BY <1>1, <2>3 DEF IInv, CloneInHand, Checkout, Label
    <3>2. /\ clone'[Self].heads = clone[Self].heads
          /\ Label(r) => clone'[Self].onRef = clone[Self].onRef
      <4>1. CASE Checkout(r)
        <5>1. clone'[Self] = [clone[Self] EXCEPT !.onRef = TRUE] /\ ~ Label(r)
          BY <2>3, <4>1 DEF IInv, CacheTypeOK, Checkout, Label
        <5>2. QED
          BY <3>1, <5>1 DEF CloneDirectory
      <4>2. CASE Label(r)
        <5>1. clone'[Self] = [clone[Self] EXCEPT !.marked = TRUE]
          BY <2>3, <4>2 DEF IInv, CacheTypeOK, Label
        <5>2. QED
          BY <3>1, <5>1 DEF CloneDirectory
      <4>3. QED
        BY <2>3, <4>1, <4>2
    <3>3. Checkout(r) => Ref = None \/ clone[Self].heads[Ref] # None
      BY <2>3 DEF Checkout, RefFound
    <3>4. QED
      BY <2>3, <3>1, <3>2, <3>3 DEF SourcesOfClone
  <2>4. r # Self => clone'[Self] = clone[Self]
    BY RunFrame
  <2>5. QED
    <3>1. CASE r = Self /\ (Refuse(r) \/ CloneFails(r) \/ CacheCrash(r))
      <4>1. clone'[Self] \in {None, clone[Self]}
        BY <3>1 DEF IInv, CacheTypeOK, Refuse, CloneFails, CacheCrash, Forget
      <4>2. QED
        BY <2>1, <4>1
    <3>2. CASE r = Self /\ (BeginRun(r) \/ ClearForce(r))
      <4>1. clone'[Self] \in {None, clone[Self]}
        BY <3>2 DEF IInv, CacheTypeOK, BeginRun, ClearForce
      <4>2. QED
        BY <2>1, <4>1
    <3>3. CASE r = Self /\ (ResumeRun(r) \/ Lock(r) \/ Refresh(r) \/ BareClone(r) \/ FillBare(r)
                              \/ MarkBare(r) \/ Record(r) \/ Finish(r))
      <4>1. clone'[Self] = clone[Self]
        BY <3>3 DEF ResumeRun, Lock, Refresh, BareClone, FillBare, MarkBare, Record, Finish,
           EndRun
      <4>2. QED
        BY <2>1, <4>1
    <3>4. QED
      BY <2>1, <2>2, <2>3, <2>4, <3>1, <3>2, <3>3 DEF RunNext, CloneStep
<1>4. QED
  BY <1>2, <1>3 DEF SourcesOfClone

(* A step in which this run's clone, or the process, comes or goes, and    *)
(* that leaves the branches of the working copy alone.                     *)
LEMMA Arriving ==
  ASSUME GitInv, IInv', SourcesOfClone', UNCHANGED <<remote, heads, tracked>>,
         CopyTypes', ProcessTypes', SavedTypes', HeadTells', CloneTells',
         UNCHANGED <<github, inPlace, edits, moves>>,
         mem' = NoGitState \/ mem' = ctx'.git, ctx' = ctx \/ ctx' = NoContext,
         pc' \in {"down", "next", "done"}
  PROVE  GitInv'
<1>1. SourcesSound'
  BY DEF GitInv, SourcesSound, SourcesOfClone, Sound, Clean
<1>2. SelectedTells'
  BY NothingYet DEF GitInv, SelectedTells
<1>3. PlaceTells'
  BY DEF PlaceTells
<1>4. GitTypes'
  BY DEF github, GitInv, GitTypes, GithubTypes, CountTypes
<1>5. QED
  BY <1>1, <1>2, <1>3, <1>4 DEF GitInv

LEMMA SourcesSplit ==
  ASSUME GitInv
  PROVE  Sound(remote) /\ SourcesOfClone
  BY DEF GitInv, SourcesSound, SourcesOfClone

(* The cache and the clones stay as they are. *)
LEMMA CacheStays ==
  ASSUME GitInv, UNCHANGED cacheVars
  PROVE  IInv' /\ SourcesOfClone'
<1>1. IInv'
  <2>1. remote' \in Branches /\ UNCHANGED stops /\ UNCHANGED <<at, cacheRest>>
    BY DEF cacheVars, cacheRest, GitInv, IInv, CacheTypeOK
  <2>2. QED
    BY <2>1, Aside, Stopping DEF GitInv
<1>2. SourcesOfClone'
  BY SourcesSplit DEF cacheVars, SourcesOfClone, Sound, Clean
<1>3. QED
  BY <1>1, <1>2

LEMMA EnteredTypes ==
  ASSUME GitInv, NEW c \in Context, EnterExecution(c)
  PROVE  ProcessTypes' /\ pc' = "next" /\ mem' = c.git /\ Running'
<1>1. c.git \in GitState
  BY DEF Context
<1>2. QED
  BY <1>1 DEF EnterExecution, ProcessTypes, Running

LEMMA FreshStep ==
  ASSUME GitInv, FreshRun
  PROVE  GitInv'
<1>1. /\ UNCHANGED <<inPlace, heads, tracked, loose, tree, staged, github, edits, moves>>
      /\ ctx' = NoContext /\ phase' = 0 /\ ~ Running /\ at[Self] = "idle"
  BY DEF FreshRun, Running
<1>2. SavedTypes'
  BY <1>1, NothingYet DEF SavedTypes
<1>3. CASE inPlace
  <2>1. EnterExecution(NoContext) /\ UNCHANGED cacheVars
    BY <1>3 DEF FreshRun
  <2>2. ProcessTypes' /\ pc' = "next" /\ mem' = ctx'.git /\ Running'
    BY <1>1, <2>1, EnteredTypes, NothingYet
  <2>3. IInv' /\ SourcesOfClone'
    BY <2>1, CacheStays
  <2>4. CopyTypes' /\ HeadTells'
    <3>1. head' = head \/ (loose = None /\ head' \in {b \in Branch : heads[b] # None})
      BY <1>3 DEF FreshRun
    <3>2. head' # None => head' \in Branch
      BY <3>1 DEF GitInv, GitTypes, CopyTypes
    <3>3. QED
      BY <1>1, <3>1, <3>2 DEF GitInv, GitTypes, CopyTypes, HeadTells
  <2>5. CloneTells'
    BY <1>1, <1>3, <2>1, <2>2 DEF cacheVars, GitInv, CloneTells
  <2>6. UNCHANGED remote
    BY <2>1 DEF cacheVars
  <2>7. QED
    BY <1>1, <1>2, <2>2, <2>3, <2>4, <2>5, <2>6, Arriving
<1>4. CASE ~ inPlace
  <2>1. BeginRun(Self) /\ pc' = "down" /\ UNCHANGED <<step, start, mem, rounds, head>>
    BY <1>4 DEF FreshRun
  <2>2. RunNext(Self)
    BY <2>1 DEF RunNext
  <2>3. IInv' /\ SourcesOfClone' /\ UNCHANGED remote
    BY <2>2, RunFrame, SourcesKept, SourcesSplit DEF GitInv
  <2>4. ProcessTypes' /\ CopyTypes' /\ HeadTells'
    BY <1>1, <2>1 DEF GitInv, GitTypes, ProcessTypes, CopyTypes, HeadTells
  <2>5. mem' = NoGitState
    BY <1>1, <2>1 DEF GitInv, CloneTells
  <2>6. at'[Self] = "lock"
    BY <2>1 DEF BeginRun, GitInv, IInv, CacheTypeOK
  <2>7. CloneTells'
    BY <1>1, <1>4, <2>1, <2>5, <2>6, NothingYet DEF CloneTells, Running
  <2>8. QED
    BY <1>1, <1>2, <2>1, <2>3, <2>4, <2>5, <2>7, Arriving
<1>5. QED
  BY <1>3, <1>4

LEMMA ResumeSteps ==
  ASSUME GitInv, Resume \/ Enter
  PROVE  GitInv'
<1>1. UNCHANGED <<inPlace, copy, saved, github, edits, moves>> /\ pc = "down" /\ ~ Running
  BY DEF Resume, Enter, Running
<1>2. SavedTypes' /\ CopyTypes' /\ HeadTells' /\ ctx \in Context
  BY <1>1 DEF saved, copy, GitInv, GitTypes, SavedTypes, CopyTypes, HeadTells
<1>3. UNCHANGED <<heads, tracked>> /\ ctx' = ctx
  BY <1>1 DEF copy, saved
<1>4. CASE EnterExecution(ctx) /\ UNCHANGED cacheVars
           /\ (inPlace \/ at[Self] = "ready")
  <2>1. ProcessTypes' /\ pc' = "next" /\ mem' = ctx.git /\ Running'
    BY <1>2, <1>4, EnteredTypes
  <2>2. IInv' /\ SourcesOfClone' /\ UNCHANGED remote
    BY <1>4, CacheStays DEF cacheVars
  <2>3. CloneTells'
    BY <1>1, <1>3, <1>4, <2>1 DEF cacheVars, GitInv, CloneTells
  <2>4. QED
    BY <1>1, <1>2, <1>3, <2>1, <2>2, <2>3, Arriving
<1>5. CASE ~ inPlace /\ ResumeRun(Self) /\ UNCHANGED process
  <2>1. RunNext(Self)
    BY <1>5 DEF RunNext
  <2>2. IInv' /\ SourcesOfClone' /\ UNCHANGED remote
    BY <2>1, RunFrame, SourcesKept, SourcesSplit DEF GitInv
  <2>3. ProcessTypes' /\ mem' = NoGitState /\ pc' = "down"
    BY <1>1, <1>5 DEF process, GitInv, GitTypes, ProcessTypes, CloneTells
  <2>4. /\ at'[Self] = IF Self \in recorded THEN "ready" ELSE "lock"
        /\ UNCHANGED recorded
    BY <1>5 DEF ResumeRun, GitInv, IInv, CacheTypeOK
  <2>5. CloneTells'
    BY <1>1, <1>3, <1>5, <2>3, <2>4 DEF GitInv, CloneTells, Running
  <2>6. QED
    BY <1>1, <1>2, <1>3, <2>2, <2>3, <2>5, Arriving
<1>6. QED
  BY <1>4, <1>5 DEF Resume, Enter

(* The clone is made, or the attempt ends. *)
LEMMA CloneSelf ==
  ASSUME GitInv, SelfClones \/ (~ inPlace /\ CloneFails(Self) /\ UNCHANGED gitVars)
  PROVE  GitInv'
<1>1. ~ inPlace /\ UNCHANGED gitVars /\ (CloneStep(Self) \/ CloneFails(Self))
  BY DEF SelfClones
<1>2. RunNext(Self)
  BY <1>1 DEF RunNext
<1>3. IInv' /\ SourcesOfClone' /\ UNCHANGED remote
  BY <1>2, RunFrame, SourcesKept, SourcesSplit DEF GitInv
<1>4. at[Self] \notin {"idle", "ready"} /\ at'[Self] # "ready" /\ UNCHANGED recorded
  <2> USE DEF GitInv, IInv, CacheTypeOK
  <2>1. CASE Lock(Self) \/ Refresh(Self) \/ BareClone(Self) \/ FillBare(Self) \/ MarkBare(Self)
             \/ Copy(Self) \/ Checkout(Self) \/ Label(Self)
    BY <2>1 DEF Lock, Refresh, BareClone, FillBare, MarkBare, Copy, Checkout, Label
  <2>2. CASE Refuse(Self) \/ CloneFails(Self)
    BY <2>2 DEF Refuse, CloneFails, Forget
  <2>3. QED
    BY <1>1, <2>1, <2>2 DEF CloneStep
<1>5. pc \in {"down", "done"} /\ mem = NoGitState
  BY <1>1, <1>4 DEF GitInv, CloneTells, Running
<1>6. UNCHANGED <<inPlace, heads, tracked, head, loose, tree, staged, pc, step, start, mem,
                  rounds, ctx, phase, github, edits, moves>>
  BY <1>1 DEF gitVars, copy, process, saved
<1>7. ProcessTypes' /\ SavedTypes' /\ CopyTypes' /\ HeadTells'
  BY <1>6 DEF GitInv, GitTypes, ProcessTypes, SavedTypes, CopyTypes, HeadTells
<1>8. CloneTells'
  BY <1>1, <1>4, <1>5, <1>6 DEF GitInv, CloneTells, Running
<1>9. QED
  BY <1>3, <1>5, <1>6, <1>7, <1>8, Arriving

(* What was cloned becomes the working copy. *)
LEMMA RecordsSelf ==
  ASSUME GitInv, SelfRecords
  PROVE  GitInv'
<1>1. /\ UNCHANGED <<inPlace, process, saved, github, edits, moves>> /\ Record(Self)
      /\ heads' = LocalBranches(clone[Self].heads) /\ tracked' = clone[Self].heads
      /\ head' = IF Ref = None THEN Main ELSE Ref
      /\ loose' = None /\ tree' = {} /\ staged' = {}
  BY DEF SelfRecords
<1>2. RunNext(Self)
  BY <1>1 DEF RunNext
<1>3. IInv' /\ SourcesOfClone' /\ UNCHANGED remote
  BY <1>2, RunFrame, SourcesKept, SourcesSplit DEF GitInv
<1>4. at[Self] = "record" /\ at'[Self] = "ready" /\ Self \in recorded'
  BY <1>1 DEF Record, GitInv, IInv, CacheTypeOK
<1>5. /\ clone[Self] \in CloneDirectory /\ clone[Self].onRef /\ clone[Self] # None
      /\ clone[Self].heads \in Branches /\ Self \notin recorded
  BY <1>4 DEF GitInv, IInv, CloneInHand, CloneDirectory
<1>6. /\ clone[Self].heads[Main] # None /\ \A b \in Branch : Clean(clone[Self].heads[b])
      /\ Ref = None \/ clone[Self].heads[Ref] # None
  BY <1>5 DEF GitInv, SourcesSound, Sound
<1>7. ~ inPlace /\ pc \in {"down", "done"} /\ mem = NoGitState /\ ctx.git.selected = None
  BY <1>4, <1>5 DEF GitInv, CloneTells, Running
<1>8. UNCHANGED <<pc, step, start, mem, rounds, ctx, phase>>
  BY <1>1 DEF process, saved
<1>9. heads' \in Branches /\ \A b \in Branch : Clean(heads'[b]) /\ Clean(tracked'[b])
  <2>1. \A b \in Branch : heads'[b] \in {None, clone[Self].heads[b]}
    BY <1>1 DEF LocalBranches
  <2>2. Clean(None)
    BY DEF Clean, Changes
  <2>3. heads' \in Branches
    BY <1>1, <1>5 DEF LocalBranches, Branches
  <2>4. QED
    BY <1>1, <1>6, <2>1, <2>2, <2>3
<1>10. CopyTypes' /\ HeadTells'
  <2>1. head' \in Branch /\ heads'[head'] # None
    BY <1>1, <1>6 DEF LocalBranches
  <2>2. QED
    BY <1>1, <1>5, <1>9, <2>1 DEF CopyTypes, HeadTells
<1>11. SourcesSound'
  BY <1>3, <1>9 DEF GitInv, SourcesSound, SourcesOfClone, Sound, Clean
<1>12. CloneTells'
  BY <1>1, <1>4, <1>7, <1>8 DEF CloneTells, Running
<1>13. SelectedTells'
  BY <1>7, <1>8, NothingYet DEF SelectedTells
<1>14. PlaceTells'
  BY <1>7, <1>8 DEF PlaceTells
<1>15. GitTypes'
  BY <1>1, <1>8, <1>10 DEF github, GitInv, GitTypes, ProcessTypes, SavedTypes, GithubTypes,
     CountTypes
<1>16. QED
  BY <1>3, <1>10, <1>11, <1>12, <1>13, <1>14, <1>15 DEF GitInv

(* The process is gone: what it remembered is, the working copy is not. *)
LEMMA FailSteps ==
  ASSUME GitInv, CommandFails \/ Crash
  PROVE  GitInv'
<1>1. CASE Running /\ Stop /\ Quit("down")
           /\ UNCHANGED <<remote, inPlace, copy, saved, github, edits, moves>>
  <2>1. CopyTypes' /\ HeadTells'
    BY <1>1 DEF copy, GitInv, GitTypes, CopyTypes, HeadTells
  <2>2. QED
    BY <1>1, <2>1, EndSteps DEF copy
<1>2. CASE ~ inPlace /\ CloneFails(Self) /\ UNCHANGED gitVars
  BY <1>2, CloneSelf
<1>3. CASE Crash
  <2>1. /\ pc' = "down" /\ step' = 1 /\ start' = None /\ mem' = NoGitState /\ rounds' = 0
        /\ UNCHANGED <<inPlace, copy, saved, github, edits, moves>>
    BY <1>3 DEF Crash
  <2>2. ProcessTypes'
    BY <2>1, NothingYet DEF ProcessTypes
  <2>3. UNCHANGED <<heads, tracked, ctx>> /\ CopyTypes' /\ SavedTypes' /\ HeadTells'
    BY <2>1 DEF copy, saved, GitInv, GitTypes, CopyTypes, SavedTypes, HeadTells
  <2>4. IInv' /\ SourcesOfClone' /\ UNCHANGED <<remote, recorded>>
        /\ at'[Self] = "idle"
    <3>1. CASE inPlace /\ Stop /\ UNCHANGED <<remote, bare, holder, at, clone, recorded, torn,
                                             refused>>
      <4>1. IInv'
        <5>1. remote' \in Branches
          BY <3>1 DEF GitInv, IInv, CacheTypeOK
        <5>2. QED
          BY <3>1, <5>1, Aside, Stopping DEF cacheRest, GitInv
      <4>2. SourcesOfClone'
        BY <3>1, SourcesSplit DEF SourcesOfClone, Sound, Clean
      <4>3. QED
        BY <3>1, <4>1, <4>2 DEF GitInv, CloneTells
    <3>2. CASE ~ inPlace /\ CacheCrash(Self)
      <4>1. RunNext(Self)
        BY <3>2 DEF RunNext
      <4>2. UNCHANGED recorded /\ at'[Self] = "idle"
        BY <3>2 DEF CacheCrash, Forget, GitInv, IInv, CacheTypeOK
      <4>3. QED
        BY <4>1, <4>2, RunFrame, SourcesKept, SourcesSplit DEF GitInv
    <3>3. QED
      BY <1>3, <3>1, <3>2 DEF Crash
  <2>5. CloneTells'
    BY <2>1, <2>3, <2>4 DEF GitInv, CloneTells, Running
  <2>6. QED
    BY <2>1, <2>2, <2>3, <2>4, <2>5, Arriving
<1>4. QED
  BY <1>1, <1>2, <1>3 DEF CommandFails, Running

LEMMA ClearStep ==
  ASSUME GitInv, ClearSelf
  PROVE  GitInv'
<1>1. /\ ClearForce(Self) /\ ~ Running /\ pc' = "down" /\ ctx' = NoContext /\ phase' = 0
      /\ UNCHANGED <<inPlace, copy, step, start, mem, rounds, github, edits, moves>>
  BY DEF ClearSelf, Running
<1>2. RunNext(Self)
  BY <1>1 DEF RunNext
<1>3. IInv' /\ SourcesOfClone' /\ UNCHANGED remote
  BY <1>2, RunFrame, SourcesKept, SourcesSplit DEF GitInv
<1>4. UNCHANGED <<heads, tracked>> /\ CopyTypes' /\ HeadTells'
  BY <1>1 DEF copy, GitInv, GitTypes, CopyTypes, HeadTells
<1>5. ProcessTypes' /\ SavedTypes' /\ mem' = NoGitState
  BY <1>1, NothingYet DEF GitInv, GitTypes, ProcessTypes, SavedTypes, CloneTells
<1>6. CloneTells'
  <2>1. at'[Self] = "idle" /\ Self \in recorded
    BY <1>1 DEF ClearForce
  <2>2. QED
    BY <1>1, <1>5, <2>1, NothingYet DEF GitInv, CloneTells, Running
<1>7. QED
  BY <1>1, <1>3, <1>4, <1>5, <1>6, Arriving

(* What others do, in the cache, in the remote repository, on GitHub. *)
LEMMA OtherRuns ==
  ASSUME GitInv, NEW r \in Run \ {Self}, RunNext(r), UNCHANGED gitVars
  PROVE  GitInv'
<1>1. /\ IInv' /\ SourcesOfClone' /\ UNCHANGED remote
      /\ at'[Self] = at[Self] /\ (Self \in recorded' <=> Self \in recorded)
  BY RunFrame, SourcesKept, SourcesSplit DEF GitInv
<1>2. UNCHANGED <<inPlace, heads, tracked, head, loose, tree, staged, pc, step, start, mem,
                  rounds, ctx, phase, pr, ci, edits, moves>>
  BY DEF gitVars, copy, process, saved, github
<1>3. SourcesSound'
  BY <1>1, <1>2 DEF GitInv, SourcesSound, SourcesOfClone, Sound, Clean
<1>4. CloneTells'
  BY <1>1, <1>2 DEF GitInv, CloneTells, Running
<1>5. HeadTells' /\ SelectedTells' /\ PlaceTells'
  BY <1>2 DEF GitInv, HeadTells, SelectedTells, PlaceTells
<1>6. GitTypes'
  BY <1>2 DEF GitInv, GitTypes, CopyTypes, ProcessTypes, SavedTypes, GithubTypes, CountTypes
<1>7. QED
  BY <1>1, <1>3, <1>4, <1>5, <1>6 DEF GitInv

LEMMA WorldSteps ==
  ASSUME GitInv, (\E b \in Branch : OthersPush(b)) \/ (\E c \in Check : CiMoves(c))
  PROVE  GitInv'
<1>1. UNCHANGED <<at, stops, cacheRest, inPlace, copy, process, saved, pr, edits>>
  BY DEF OthersPush, CiMoves, cacheVars, cacheRest
<1>2. UNCHANGED <<heads, tracked, head, loose, tree, staged, pc, step, start, mem, rounds, ctx,
                  phase, bare, clone, recorded>>
  BY <1>1 DEF copy, process, saved, cacheRest
<1>3. HeadTells' /\ SelectedTells' /\ PlaceTells' /\ CloneTells'
  BY <1>1, <1>2 DEF GitInv, HeadTells, SelectedTells, PlaceTells, CloneTells, Running
<1>4. CopyTypes' /\ ProcessTypes' /\ SavedTypes'
  BY <1>2 DEF GitInv, GitTypes, CopyTypes, ProcessTypes, SavedTypes
<1>5. remote' \in Branches /\ Sound(remote') /\ moves' \in 0 .. Len(Others)
      /\ ci' \in [Check -> CheckState]
  <2>1. CASE \E b \in Branch : OthersPush(b)
    <3>1. PICK b \in Branch : OthersPush(b)
      BY <2>1
    <3>2. moves + 1 \in 1 .. Len(Others) /\ moves' = moves + 1
      BY <3>1 DEF OthersPush, GitInv, GitTypes, CountTypes
    <3>3. Others[moves + 1] \in Change \ {Env, Marker}
      BY <3>2
    <3>4. PICK s \in SUBSET Change : s = {Others[moves + 1]}
      BY <3>3
    <3>5. /\ remote \in Branches /\ remote[b] \in History /\ remote[b] # None
          /\ remote[Main] # None /\ \A c \in Branch : Clean(remote[c])
      BY <3>1 DEF OthersPush, GitInv, IInv, CacheTypeOK, Branches, SourcesSound, Sound
    <3>6. PICK h \in History : /\ h = Append(remote[b], s) /\ h # None
                               /\ Changes(h) = Changes(remote[b]) \cup s
      BY <3>5, ChangesAppended
    <3>7. remote' = [remote EXCEPT ![b] = h] /\ ci' \in {Unchecked, ci}
      BY <3>1, <3>4, <3>6 DEF OthersPush, Update
    <3>8. Clean(h)
      BY <3>3, <3>4, <3>5, <3>6 DEF Clean
    <3>9. /\ remote' \in Branches /\ remote'[b] = h
          /\ \A c \in Branch \ {b} : remote'[c] = remote[c]
      BY <3>5, <3>7 DEF Branches
    <3>10. Sound(remote')
      <4>1. remote'[Main] # None
        BY <3>5, <3>6, <3>9
      <4>2. \A c \in Branch : Clean(remote'[c])
        BY <3>5, <3>8, <3>9
      <4>3. QED
        BY <4>1, <4>2 DEF Sound
    <3>11. ci' \in [Check -> CheckState]
      BY <3>7, NothingYet DEF GitInv, GitTypes, GithubTypes
    <3>12. moves' \in 0 .. Len(Others)
      BY <3>2
    <3>13. QED
      BY <3>9, <3>10, <3>11, <3>12
  <2>2. CASE \E c \in Check : CiMoves(c)
    <3>1. UNCHANGED <<remote, moves>>
      BY <2>2 DEF CiMoves, cacheVars
    <3>2. ci' \in [Check -> CheckState]
      BY <2>2 DEF CiMoves, GitInv, GitTypes, GithubTypes, CheckState
    <3>3. QED
      BY <3>1, <3>2 DEF GitInv, GitTypes, CountTypes, IInv, CacheTypeOK, SourcesSound, Sound,
         Clean
  <2>3. QED
    BY <2>1, <2>2
<1>6. IInv'
  BY <1>1, <1>5, Aside, Stopping DEF GitInv
<1>7. SourcesSound'
  BY <1>2, <1>5 DEF GitInv, SourcesSound, Sound, Clean
<1>8. GithubTypes' /\ CountTypes'
  BY <1>1, <1>5 DEF GitInv, GitTypes, GithubTypes, CountTypes
<1>9. QED
  BY <1>3, <1>4, <1>6, <1>7, <1>8 DEF GitInv, GitTypes

-----------------------------------------------------------------------------
LEMMA GitInitCorrect == Init => GitInv
<1> SUFFICES ASSUME Init PROVE GitInv
  OBVIOUS
<1>1. << {} >> \in History /\ Changes(<< {} >>) = {} /\ << {} >> # None
  <2>1. {} \in SUBSET Change
    OBVIOUS
  <2>2. << {} >> \in History
    BY <2>1 DEF History
  <2>3. ToSet(<< {} >>) = {{}}
    <3> DEFINE S == SUBSET Change
               e == {}
    <3>1. e \in S
      OBVIOUS
    <3> HIDE DEF S, e
    <3>2. <<>> \in Seq(S) /\ Append(<<>>, e) = << e >> /\ ToSet(<<>>) = {}
      BY DEF ToSet
    <3>3. PICK s \in Seq(S) : s = <<>>
      BY <3>2
    <3>4. ToSet(Append(s, e)) = ToSet(s) \cup {e}
      BY <3>1, OneMore
    <3>5. ToSet(s) = {} /\ Append(s, e) = << e >>
      BY <3>2, <3>3
    <3>6. QED
      BY <3>4, <3>5 DEF e
  <2>4. QED
    BY <2>2, <2>3 DEF Changes
<1>2. /\ remote = [b \in Branch |-> IF b = Main THEN << {} >> ELSE None]
      /\ heads = LocalBranches(remote) /\ tracked = remote /\ CacheInit
  BY DEF Init
<1>3. /\ remote \in Branches /\ remote[Main] # None
      /\ \A b \in Branch : remote[b] \in {<< {} >>, None}
  BY <1>1, <1>2 DEF Branches
<1>4. IInv
  <2>1. SharedInit
    BY <1>2 DEF SharedInit
  <2>2. QED
    BY <2>1, InitCorrect
<1>5. Clean(<< {} >>) /\ Clean(None)
  BY <1>1 DEF Clean, Changes
<1>6. /\ heads \in Branches /\ heads[Main] # None
      /\ \A b \in Branch : heads[b] \in {<< {} >>, None}
  BY <1>2, <1>3 DEF LocalBranches, Branches
<1>7. SourcesSound
  <2>1. bare = None /\ clone[Self] = None
    BY <1>2 DEF CacheInit
  <2>2. \A b \in Branch : Clean(remote[b]) /\ Clean(heads[b]) /\ Clean(tracked[b])
    BY <1>2, <1>3, <1>5, <1>6
  <2>3. QED
    BY <1>3, <2>1, <2>2 DEF SourcesSound, Sound
<1>8. HeadTells /\ SelectedTells /\ PlaceTells
  BY <1>6, NothingYet DEF Init, HeadTells, SelectedTells, PlaceTells
<1>9. CloneTells
  <2>1. at[Self] = "idle" /\ recorded = {}
    BY <1>2 DEF CacheInit
  <2>2. QED
    BY <2>1, NothingYet DEF Init, CloneTells, Running
<1>10. CopyTypes
  BY <1>2, <1>3, <1>6 DEF Init, CopyTypes
<1>11. ProcessTypes /\ SavedTypes /\ GithubTypes /\ CountTypes
  <2>1. Len(Phases) \in Nat /\ Len(Own) \in Nat /\ Len(Others) \in Nat
    OBVIOUS
  <2>2. QED
    BY <2>1, NothingYet DEF Init, ProcessTypes, SavedTypes, GithubTypes, CountTypes
<1>12. QED
  BY <1>4, <1>7, <1>8, <1>9, <1>10, <1>11 DEF GitInv, GitTypes

LEMMA GitNextCorrect == GitInv /\ [Next]_vars => GitInv'
<1> SUFFICES ASSUME GitInv, [Next]_vars PROVE GitInv'
  OBVIOUS
<1>1. CASE FreshRun \/ Resume \/ CommandFails \/ Crash \/ ClearSelf
  BY <1>1, FreshStep, ResumeSteps, FailSteps, ClearStep
<1>2. CASE ProcessStep
  BY <1>2, CloneSelf, RecordsSelf, ResumeSteps, PlainSteps, BranchSteps, RecordingSteps,
     ChangeSteps, CommitStep, PushStep, RebaseSteps, Endings DEF ProcessStep
<1>3. CASE (\E b \in Branch : OthersPush(b)) \/ (\E c \in Check : CiMoves(c))
  BY <1>3, WorldSteps
<1>4. ASSUME NEW r \in Run \ {Self}, RunNext(r), UNCHANGED gitVars PROVE GitInv'
  BY <1>4, OtherRuns
<1>5. CASE UNCHANGED vars
  <2>1. UNCHANGED cacheVars /\ UNCHANGED gitVars
    BY <1>5 DEF vars
  <2>2. UNCHANGED <<inPlace, heads, tracked, head, loose, tree, staged, pc, step, start, mem,
                    rounds, ctx, phase, pr, ci, edits, moves>>
    BY <2>1 DEF gitVars, copy, process, saved, github
  <2>3. IInv' /\ SourcesOfClone' /\ UNCHANGED <<remote, at, recorded>>
    BY <2>1, CacheStays DEF cacheVars
  <2>4. SourcesSound'
    BY <2>2, <2>3 DEF GitInv, SourcesSound, SourcesOfClone, Sound, Clean
  <2>5. CloneTells' /\ HeadTells' /\ SelectedTells' /\ PlaceTells'
    BY <2>2, <2>3 DEF GitInv, CloneTells, Running, HeadTells, SelectedTells, PlaceTells
  <2>6. GitTypes'
    BY <2>2 DEF GitInv, GitTypes, CopyTypes, ProcessTypes, SavedTypes, GithubTypes, CountTypes
  <2>7. QED
    BY <2>3, <2>4, <2>5, <2>6 DEF GitInv
<1>6. QED
  BY <1>1, <1>2, <1>3, <1>4, <1>5 DEF Next

(* The inductive invariant: the branches of the remote repository, of the  *)
(* cache, of the clone and of the working copy are clean; HEAD is on an    *)
(* existing branch or on a stopped rebase, and conflict markers are in the *)
(* tree or the index only in that case; a process that runs has a working  *)
(* copy, in which the branch it remembers exists (git_runtime.py:93-132,   *)
(* git_publish.py:33-155, git_repo.py:79-207).                             *)
THEOREM GitInductiveInvariant == Spec => []GitInv
<1>1. QED
  BY GitInitCorrect, GitNextCorrect, PTL DEF Spec

(* Every variable has its type, for any phases, changes and branches.      *)
THEOREM GitTypeCorrect == Spec => []GitTypeOK
<1>1. GitInv => GitTypeOK
  BY DEF GitInv, IInv, GitTypes, CopyTypes, ProcessTypes, SavedTypes, GithubTypes, CountTypes,
     GitTypeOK
<1>2. QED
  BY GitInductiveInvariant, <1>1, PTL

(* No .env file and no conflict marker reaches the remote repository, for  *)
(* any order of commands, any crashes, failures and resumes                *)
(* (git_publish.py:47-53, 125-142).                                        *)
THEOREM WorkOnly == Spec => []OnlyWorkPublished
<1>1. GitInv => OnlyWorkPublished
  BY DEF GitInv, SourcesSound, Sound, Clean, OnlyWorkPublished
<1>2. QED
  BY GitInductiveInvariant, <1>1, PTL
-----------------------------------------------------------------------------
(* The remote branches only grow. *)
LEMMA PrefixOfSelf ==
  ASSUME NEW h \in History
  PROVE  IsPrefix(h, h)
<1> DEFINE S == SUBSET Change
<1>1. h \in Seq(S)
  BY DEF History
<1> HIDE DEF S
<1>2. QED
  BY <1>1 DEF IsPrefix

LEMMA PrefixOfMore ==
  ASSUME NEW h \in History, NEW c \in SUBSET Change
  PROVE  IsPrefix(h, Append(h, c))
<1> DEFINE S == SUBSET Change
<1>1. h \in Seq(S) /\ c \in S
  BY DEF History
<1> HIDE DEF S
<1>2. /\ Append(h, c) \in Seq(S) /\ Len(Append(h, c)) = Len(h) + 1 /\ Len(h) \in Nat
      /\ \A i \in 1 .. Len(h) : Append(h, c)[i] = h[i]
  BY <1>1
<1>3. SubSeq(h, 1, Len(h)) = SubSeq(Append(h, c), 1, Len(h))
  <2> DEFINE a == SubSeq(h, 1, Len(h))
             b == SubSeq(Append(h, c), 1, Len(h))
  <2>1. a \in Seq(S) /\ Len(a) = Len(h) /\ \A i \in 1 .. Len(h) : a[i] = h[i]
    BY <1>1
  <2>2. b \in Seq(S) /\ Len(b) = Len(h) /\ \A i \in 1 .. Len(h) : b[i] = Append(h, c)[i]
    BY <1>2
  <2> HIDE DEF a, b
  <2>3. a = b
    BY <1>2, <2>1, <2>2
  <2>4. QED
    BY <2>3 DEF a, b
<1>4. QED
  BY <1>2, <1>3 DEF IsPrefix

RemoteGrows ==
  \A b \in Branch :
    remote[b] # None => remote'[b] # None /\ IsPrefix(remote[b], remote'[b])

LEMMA RemoteStays ==
  ASSUME GitInv, UNCHANGED remote
  PROVE  RemoteGrows
<1>1. \A b \in Branch : remote[b] \in History \cup {None}
  BY DEF GitInv, IInv, CacheTypeOK, Branches
<1>2. QED
  BY <1>1, PrefixOfSelf DEF RemoteGrows

LEMMA RemoteStep ==
  ASSUME GitInv, [Next]_vars
  PROVE  RemoteGrows
<1>1. /\ remote \in Branches /\ heads \in Branches /\ Target \in Branch
      /\ \A b \in Branch : remote[b] \in History \cup {None}
  BY DEF GitInv, IInv, CacheTypeOK, GitTypes, CopyTypes, Branches
<1>2. CASE Push
  <2>1. mem.selected = Target
    BY <1>2 DEF Push, GitInv, SelectedTells, PlaceTells
  <2>2. /\ remote'[Target] = heads[Target]
        /\ \A b \in Branch \ {Target} : remote'[b] = remote[b]
    BY <1>1, <1>2, <2>1 DEF Push, Update, Branches
  <2>3. /\ heads[Target] # None
        /\ remote[Target] # None => IsPrefix(remote[Target], heads[Target])
    BY <1>2, <2>1 DEF Push, Accepted, GitInv, SelectedTells
  <2>4. QED
    BY <1>1, <2>2, <2>3, PrefixOfSelf DEF RemoteGrows
<1>3. ASSUME NEW o \in Branch, OthersPush(o)
      PROVE  RemoteGrows
  <2> DEFINE change == {Others[moves + 1]}
  <2>1. change \in SUBSET Change
    BY <1>3 DEF OthersPush, GitInv, GitTypes, CountTypes
  <2>2. remote[o] \in History /\ remote' = [remote EXCEPT ![o] = Append(remote[o], change)]
    BY <1>1, <1>3 DEF OthersPush, Update
  <2> HIDE DEF change
  <2>3. /\ remote'[o] = Append(remote[o], change)
        /\ \A b \in Branch \ {o} : remote'[b] = remote[b]
    BY <1>1, <2>2 DEF Branches
  <2>4. IsPrefix(remote[o], remote'[o])
    BY <2>1, <2>2, <2>3, PrefixOfMore
  <2>5. remote'[o] # None
    BY <2>1, <2>2, <2>3, ChangesAppended
  <2>6. QED
    BY <1>1, <2>3, <2>4, <2>5, PrefixOfSelf DEF RemoteGrows
<1>4. ASSUME NEW r \in Run, RunNext(r)
      PROVE  UNCHANGED remote
  BY <1>4, RunFrame DEF GitInv
<1>5. CASE FreshRun \/ Resume \/ CommandFails \/ Crash \/ ClearSelf
  <2>1. UNCHANGED remote
    BY <1>5 DEF FreshRun, Resume, CommandFails, Crash, ClearSelf, cacheVars, BeginRun, ResumeRun,
       CloneFails, CacheCrash, ClearForce
  <2>2. QED
    BY <2>1, RemoteStays
<1>6. CASE SelfClones \/ SelfRecords
  <2>1. RunNext(Self)
    BY <1>6 DEF SelfClones, SelfRecords, RunNext, CloneStep
  <2>2. QED
    BY <1>4, <2>1, RemoteStays
<1>7. CASE ProcessStep /\ ~ Push /\ ~ SelfClones /\ ~ SelfRecords
  <2>1. CASE AbortRebase \/ ChecksTimeOut \/ Complete \/ RaiseError
    BY <2>1, RemoteStays DEF AbortRebase, ChecksTimeOut, Complete, RaiseError
  <2>2. CASE FetchBase \/ FetchTarget \/ PushRejected
    BY <2>2, RemoteStays DEF FetchBase, FetchTarget, PushRejected
  <2>3. CASE UNCHANGED cacheVars
    BY <2>3, RemoteStays DEF cacheVars
  <2>4. QED
    BY <1>7, <2>1, <2>2, <2>3 DEF ProcessStep, Enter, BranchKnown, BranchBegin, CheckoutTarget,
       CreateBranch, FastForward, RecordStart, RecordSelected, Agent, CommitNothing, CommitStage,
       UnstageEnv, MakeCommit, RecordMessage, FetchForRebase, Rebase, RebaseFails, CreatePr,
       StoreNumber, ChecksSettled, RecordStatus, SavePhase, GoBack
<1>8. CASE \E c \in Check : CiMoves(c)
  BY <1>8, RemoteStays DEF CiMoves, cacheVars
<1>9. CASE UNCHANGED vars
  BY <1>9, RemoteStays DEF vars, cacheVars
<1>10. QED
  BY <1>2, <1>3, <1>4, <1>5, <1>6, <1>7, <1>8, <1>9, RemoteStays DEF Next, ProcessStep

(* A local branch keeps its changes. *)
HeadsKeep == \A b \in Branch : Changes(heads[b]) \subseteq Changes(heads'[b])

LEMMA ChangingSteps ==
  ASSUME GitInv, CreateBranch \/ FastForward \/ MakeCommit \/ Rebase
  PROVE  HeadsKeep
<1>1. /\ heads \in Branches /\ tracked \in Branches /\ Target \in Branch
      /\ staged \in SUBSET Change /\ head \in Branch \cup {None}
      /\ \A b \in Branch : heads[b] \in History \cup {None} /\ tracked[b] \in History \cup {None}
  BY DEF GitInv, GitTypes, CopyTypes, Branches
<1>2. CASE CreateBranch
  <2>1. Changes(heads[Target]) = {}
    BY <1>2 DEF CreateBranch, GitInv, PlaceTells, Changes
  <2>2. \A b \in Branch \ {Target} : heads'[b] = heads[b]
    BY <1>1, <1>2 DEF CreateBranch, Branches
  <2>3. QED
    BY <2>1, <2>2 DEF HeadsKeep
<1>3. CASE FastForward
  <2>1. /\ heads'[Target] = tracked[Target]
        /\ \A b \in Branch \ {Target} : heads'[b] = heads[b]
    BY <1>1, <1>3 DEF FastForward, Branches
  <2>2. heads[Target] \in History /\ tracked[Target] \in History
    BY <1>1, <1>3 DEF FastForward, GitInv, PlaceTells
  <2>3. Changes(heads[Target]) \subseteq Changes(tracked[Target])
    BY <1>3, <2>2, ChangesOfPrefix DEF FastForward
  <2>4. QED
    BY <2>1, <2>3 DEF HeadsKeep
<1>4. CASE MakeCommit
  <2>1. CASE head # None
    <3>1. heads[head] \in History /\ head \in Branch
      BY <1>1, <2>1 DEF GitInv, HeadTells
    <3>2. /\ heads'[head] = Append(heads[head], staged)
          /\ \A b \in Branch \ {head} : heads'[b] = heads[b]
      BY <1>1, <1>4, <2>1 DEF MakeCommit, Branches
    <3>3. Changes(heads[head]) \subseteq Changes(heads'[head])
      BY <1>1, <3>1, <3>2, ChangesAppended
    <3>4. QED
      BY <3>2, <3>3 DEF HeadsKeep
  <2>2. CASE head = None
    BY <1>4, <2>2 DEF MakeCommit, HeadsKeep
  <2>3. QED
    BY <2>1, <2>2
<1>5. CASE Rebase
  <2>1. /\ head \in Branch /\ heads[head] \in History
        /\ mem.selected = Target /\ tracked[Target] \in History
    BY <1>1, <1>5 DEF Rebase, GitInv, HeadTells, PlaceTells
  <2>2. /\ heads'[head] = Rebased(heads[head], tracked[Target])
        /\ \A b \in Branch \ {head} : heads'[b] = heads[b]
    BY <1>1, <1>5, <2>1 DEF Rebase, Branches
  <2>3. Changes(heads[head]) \subseteq Changes(heads'[head])
    BY <2>1, <2>2, ChangesRebased
  <2>4. QED
    BY <2>2, <2>3 DEF HeadsKeep
<1>6. QED
  BY <1>2, <1>3, <1>4, <1>5

(* Only what a run has just cloned replaces a working copy. *)
LEMMA HeadsStep ==
  ASSUME GitInv, [Next]_vars, clone'[Self] = clone[Self], recorded' = recorded
  PROVE  HeadsKeep
<1>1. ~ SelfRecords
  <2>1. SUFFICES ASSUME SelfRecords PROVE FALSE
    OBVIOUS
  <2>2. Self \notin recorded /\ Self \in recorded'
    BY <2>1 DEF SelfRecords, Record, GitInv, IInv, CloneInHand
  <2>3. QED
    BY <2>2
<1>2. UNCHANGED heads => HeadsKeep
  BY DEF HeadsKeep
<1>3. UNCHANGED copy \/ UNCHANGED gitVars \/ UNCHANGED vars => UNCHANGED heads
  BY DEF vars, gitVars, copy
<1>4. CASE FreshRun \/ Resume \/ CommandFails \/ Crash \/ ClearSelf
  BY <1>2, <1>3, <1>4 DEF FreshRun, Resume, CommandFails, Crash, ClearSelf
<1>5. CASE ProcessStep
  BY <1>1, <1>2, <1>3, <1>5, ChangingSteps DEF ProcessStep, SelfClones, Enter, BranchKnown,
     BranchBegin, CheckoutTarget, FetchBase, FetchTarget, RecordStart, RecordSelected, Agent,
     CommitNothing, CommitStage, UnstageEnv, RecordMessage, Push, PushRejected, FetchForRebase,
     RebaseFails, AbortRebase, CreatePr, StoreNumber, ChecksSettled, RecordStatus, ChecksTimeOut,
     SavePhase, GoBack, Complete, RaiseError
<1>6. CASE (\E b \in Branch : OthersPush(b)) \/ (\E c \in Check : CiMoves(c))
  BY <1>2, <1>3, <1>6 DEF OthersPush, CiMoves
<1>7. QED
  BY <1>2, <1>3, <1>4, <1>5, <1>6 DEF Next

(* What is committed stays committed: the remote branches only grow, and   *)
(* the branches of a working copy keep their changes through fast-forwards,*)
(* rebases, failed rebases and crashes, for as long as that copy is used   *)
(* (git_publish.py:85-155, git_repo.py:166-207).                           *)
THEOREM NothingLost == Spec => NothingCommittedLost
<1>1. GitInv /\ [Next]_vars =>
        /\ RemoteGrows
        /\ clone'[Self] = clone[Self] /\ recorded' = recorded => HeadsKeep
  BY RemoteStep, HeadsStep
<1>2. GitInv /\ [Next]_vars =>
        [/\ \A b \in Branch : remote[b] # None => IsPrefix(remote[b], remote'[b])
         /\ clone'[Self] = clone[Self] /\ recorded' = recorded =>
              \A b \in Branch : Changes(heads[b]) \subseteq Changes(heads'[b])]_vars
  BY <1>1 DEF RemoteGrows, HeadsKeep
<1>3. QED
  BY GitInductiveInvariant, <1>2, PTL DEF Spec, NothingCommittedLost

-----------------------------------------------------------------------------
(* What a complete execution has published.  Where the process is in the   *)
(* commands of its phases is told by Position; what it knows of its branch *)
(* by Remembered; Index and StoppedRebase tell what a commit and a push    *)
(* cut short leave behind; AllPublished what the commands that are past    *)
(* have achieved, for every phase that publishes.                          *)

(* A command that is under way is the one its phase is at. *)
Serving(command) ==
  /\ phase < Len(Phases) /\ step <= Len(Phases[phase + 1])
  /\ Phases[phase + 1][step] = command

Selecting == {"checkout", "fetchBase", "create", "createLocal", "sync", "compare",
              "recordStart", "recordSelected"}
Committing == {"unstage", "commit", "recordMessage"}
Pushing == {"fetch", "rebase", "abort", "repush"}

Position ==
  /\ pc \in Selecting => Serving("branch")
  /\ pc \in Committing => Serving("commit")
  /\ pc \in Pushing => Serving("push")
  /\ pc = "number" => Serving("pr") /\ pr # None
  /\ pc = "recordStatus" => Serving("checks")
  /\ ~ Running \/ phase = Len(Phases) => step = 1
  /\ pc = "done" => phase = Len(Phases)

(* What a process remembers of the branch is in the context, and HEAD is   *)
(* on that branch or on a stopped rebase.                                  *)
Remembered ==
  /\ Running /\ pc # "recordSelected" => mem.selected = ctx.git.selected
  /\ pc \in Selecting => ctx.git.selected = None
  /\ pc \in {"sync", "compare", "recordStart", "recordSelected"} => head = Target
  /\ ctx.git.selected = Target => head \in {Target, None}
  /\ ~ inPlace /\ Self \notin recorded => phase = 0

(* What is about to be committed is all there is to commit. *)
Index ==
  /\ pc \in {"unstage", "commit"} => Dirty
  /\ pc = "unstage" => staged = tree
  /\ pc = "commit" => staged = tree \ {Env}
  /\ pc = "recordMessage" => ~ Dirty

(* While a rebase is stopped, the remote branch has commits that the local *)
(* one lacks, and no push is accepted.                                     *)
StoppedRebase ==
  /\ pc = "rebase" => remote[Target] # None /\ IsPrefix(tracked[Target], remote[Target])
  /\ loose # None => /\ remote[Target] # None /\ heads[Target] # None
                     /\ ~ IsPrefix(remote[Target], heads[Target])

(* The execution has completed the command at place s of phase p. *)
Past(p, s) == phase >= p \/ (phase = p - 1 /\ step > s)

Cleaned(p, commit) == Past(p, commit) => ~ Dirty \/ pc = "abort"

Pushed(p, push) ==
  Past(p, push) =>
    /\ remote[Target] # None /\ Changes(heads[Target]) \subseteq Changes(remote[Target])
    /\ ctx.git.selected = Target /\ loose = None

Requested(p, request) == Past(p, request) => pr # None /\ ctx.number

AllPublished ==
  \A p \in DOMAIN Phases : \A commit, push, request \in DOMAIN Phases[p] :
    PublishedBy(p, commit, push, request) =>
      Cleaned(p, commit) /\ Pushed(p, push) /\ Requested(p, request)

(* A command of phase p is completed by this step. *)
Crossing(p, s) ==
  /\ phase = p - 1 /\ step = s
  /\ phase' = phase /\ step' = step + 1 /\ pc' = "next"

Crossings == BranchKnown \/ RecordSelected \/ Agent \/ CommitNothing \/ RecordMessage \/ Push
             \/ StoreNumber \/ RecordStatus

PublishInv ==
  GitInv /\ Position /\ Remembered /\ Index /\ StoppedRebase /\ AllPublished

-----------------------------------------------------------------------------
(* A prefix of a prefix is one. *)
LEMMA PrefixTransitive ==
  ASSUME NEW a \in History, NEW b \in History, NEW c \in History,
         IsPrefix(a, b), IsPrefix(b, c)
  PROVE  IsPrefix(a, c)
<1> DEFINE S == SUBSET Change
<1>1. a \in Seq(S) /\ b \in Seq(S) /\ c \in Seq(S)
  BY DEF History
<1> HIDE DEF S
<1>2. /\ Len(a) \in Nat /\ Len(b) \in Nat /\ Len(c) \in Nat
      /\ Len(a) <= Len(b) /\ Len(b) <= Len(c)
      /\ SubSeq(a, 1, Len(a)) = SubSeq(b, 1, Len(a)) /\ SubSeq(b, 1, Len(b)) = SubSeq(c, 1, Len(b))
  BY <1>1 DEF IsPrefix
<1>3. ASSUME NEW i \in 1 .. Len(a) PROVE b[i] = c[i]
  <2>1. i \in 1 .. Len(b) /\ i \in 1 .. Len(c)
    BY <1>2
  <2>2. SubSeq(b, 1, Len(b))[i] = b[i] /\ SubSeq(c, 1, Len(b))[i] = c[i]
    BY <1>1, <1>2, <2>1
  <2>3. QED
    BY <1>2, <2>2
<1>4. SubSeq(b, 1, Len(a)) = SubSeq(c, 1, Len(a))
  <2> DEFINE x == SubSeq(b, 1, Len(a))
             y == SubSeq(c, 1, Len(a))
  <2>1. x \in Seq(S) /\ Len(x) = Len(a) /\ \A i \in 1 .. Len(a) : x[i] = b[i]
    BY <1>1, <1>2
  <2>2. y \in Seq(S) /\ Len(y) = Len(a) /\ \A i \in 1 .. Len(a) : y[i] = c[i]
    BY <1>1, <1>2
  <2> HIDE DEF x, y
  <2>3. x \in [1 .. Len(a) -> S] /\ y \in [1 .. Len(a) -> S]
    BY <1>2, <2>1, <2>2
  <2>4. \A i \in 1 .. Len(a) : x[i] = y[i]
    BY <1>3, <2>1, <2>2
  <2>5. x = y
    BY <2>3, <2>4
  <2>6. QED
    BY <2>5 DEF x, y
<1>5. QED
  BY <1>2, <1>4 DEF IsPrefix

(* A history that another one extends has no commits of its own. *)
LEMMA NothingLocal ==
  ASSUME NEW own \in History, NEW upstream \in History, IsPrefix(own, upstream)
  PROVE  LocalCommits(own, upstream) = <<>>
<1> DEFINE S == SUBSET Change
           p == LongestCommonPrefix({own, upstream})
<1>1. own \in Seq(S) /\ upstream \in Seq(S) /\ Len(own) \in Nat
  BY DEF History
<1> HIDE DEF S
<1>2. LongestOf(p, own, upstream, S)
  BY <1>1, LongestPrefix
<1>3. own \in CommonPrefixes({own, upstream})
  <2>1. SubSeq(own, 1, Len(own)) = own
    BY <1>1
  <2>2. own \in Prefixes(own)
    <3>1. Len(own) \in 0 .. Len(own)
      BY <1>1
    <3>2. QED
      BY <2>1, <3>1 DEF Prefixes
  <2>3. IsPrefix(own, own)
    BY PrefixOfSelf
  <2>4. QED
    BY <2>2, <2>3 DEF CommonPrefixes
<1>4. Len(own) <= Len(p)
  BY <1>2, <1>3 DEF LongestOf
<1>5. LocalCommits(own, upstream) = SubSeq(own, Len(p) + 1, Len(own))
  BY DEF LocalCommits
<1> HIDE DEF p
<1>6. Len(p) = Len(own)
  BY <1>1, <1>2, <1>4 DEF LongestOf
<1>7. SubSeq(own, Len(own) + 1, Len(own)) = <<>>
  BY <1>1
<1>8. QED
  BY <1>5, <1>6, <1>7

-----------------------------------------------------------------------------
(* The steps by what they do to the process and its working copy. *)
Apart ==
  /\ UNCHANGED <<inPlace, copy, pc, step, mem, ctx, phase, pr>>
  /\ Self \in recorded' <=> Self \in recorded

Ended ==
  /\ pc' \in {"down", "done"} /\ step' = 1 /\ mem' = NoGitState
  /\ pc' = "done" => phase = Len(Phases)
  /\ UNCHANGED <<inPlace, heads, tracked, ctx, phase, pr, recorded>>
  /\ UNCHANGED copy \/ AbortRebase

Fresh ==
  /\ pc' \in {"down", "next"} /\ step' = 1 /\ mem' = NoGitState
  /\ phase' = 0 /\ ctx' = NoContext
  /\ UNCHANGED <<inPlace, heads, tracked, loose, tree, staged, pr>>

Resumed ==
  /\ pc = "down" /\ pc' = "next" /\ step' = 1 /\ mem' = ctx.git
  /\ inPlace \/ Self \in recorded
  /\ UNCHANGED <<inPlace, copy, ctx, phase, pr, recorded>>

BranchStep ==
  \/ BranchKnown \/ BranchBegin \/ CheckoutTarget \/ FetchBase \/ CreateBranch \/ FetchTarget
  \/ FastForward \/ RecordStart \/ RecordSelected

ChangeStep ==
  Agent \/ CommitNothing \/ CommitStage \/ UnstageEnv \/ MakeCommit \/ RecordMessage

PublishStep == Push \/ PushRejected \/ FetchForRebase \/ Rebase \/ RebaseFails

RequestStep == CreatePr \/ StoreNumber \/ ChecksSettled \/ RecordStatus

PhaseStep == SavePhase \/ GoBack

-----------------------------------------------------------------------------
(* Every step is of one of these kinds. *)
LEMMA Kinds ==
  ASSUME GitInv, Position, [Next]_vars
  PROVE  \/ Apart \/ Ended \/ Fresh \/ Resumed \/ SelfRecords
         \/ BranchStep \/ ChangeStep \/ PublishStep \/ RequestStep \/ PhaseStep
<1>1. ~ Running => step = 1 /\ mem = NoGitState
  BY DEF Position, GitInv, CloneTells
<1>2. CASE UNCHANGED vars
  BY <1>2 DEF vars, cacheVars, gitVars, copy, process, saved, github, Apart
<1>3. ASSUME NEW r \in Run \ {Self}, RunNext(r), UNCHANGED gitVars
      PROVE  Apart
  <2>1. Self \in recorded' <=> Self \in recorded
    BY <1>3, RunFrame DEF GitInv
  <2>2. QED
    BY <1>3, <2>1 DEF gitVars, process, saved, github, Apart
<1>4. CASE (\E b \in Branch : OthersPush(b)) \/ (\E c \in Check : CiMoves(c))
  BY <1>4 DEF OthersPush, CiMoves, cacheVars, cacheRest, process, saved, Apart
<1>5. CASE FreshRun
  <2>1. /\ step' = 1 /\ mem' = NoGitState /\ pc' \in {"down", "next"}
        /\ phase' = 0 /\ ctx' = NoContext
    BY <1>1, <1>5 DEF FreshRun, EnterExecution, NoContext, Running
  <2>2. QED
    BY <1>5, <2>1 DEF FreshRun, github, Fresh
<1>6. CASE Resume
  <2>1. CASE inPlace
    BY <1>6, <2>1 DEF Resume, EnterExecution, saved, github, cacheVars, Resumed
  <2>2. CASE ~ inPlace
    BY <1>6, <2>2 DEF Resume, ResumeRun, process, saved, github, Apart
  <2>3. QED
    BY <2>1, <2>2
<1>7. CASE ClearSelf
  <2>1. step = 1 /\ mem = NoGitState
    BY <1>1, <1>7 DEF ClearSelf, Running
  <2>2. QED
    BY <1>7, <2>1 DEF ClearSelf, copy, github, Fresh
<1>8. CASE CommandFails \/ Crash
  <2>1. CASE CommandFails /\ ~ Running
    <3>1. UNCHANGED gitVars /\ UNCHANGED recorded
      BY <1>8, <2>1 DEF CommandFails, Running, CloneFails
    <3>2. QED
      BY <3>1 DEF gitVars, process, saved, github, Apart
  <2>2. CASE CommandFails /\ Running /\ ~ UNCHANGED gitVars
    BY <2>2 DEF CommandFails, Quit, EndRun, copy, saved, github, Ended
  <2>3. CASE CommandFails /\ UNCHANGED gitVars
    <3>1. CASE UNCHANGED recorded
      BY <2>3, <3>1 DEF gitVars, process, saved, github, Apart
    <3>2. UNCHANGED recorded
      BY <2>3 DEF CommandFails, Quit, EndRun, CloneFails
    <3>3. QED
      BY <3>1, <3>2
  <2>4. CASE Crash
    BY <2>4 DEF Crash, CacheCrash, copy, saved, github, Ended
  <2>5. QED
    BY <1>8, <2>1, <2>2, <2>3, <2>4
<1>9. CASE SelfClones
  <2>1. UNCHANGED recorded
    BY <1>9 DEF SelfClones, CloneStep, Lock, Refresh, BareClone, FillBare, MarkBare, Copy,
       Checkout, Label, Refuse
  <2>2. QED
    BY <1>9, <2>1 DEF SelfClones, gitVars, process, saved, github, Apart
<1>10. CASE Enter
  BY <1>10 DEF Enter, EnterExecution, saved, github, cacheVars, Resumed, GitInv, CloneTells
<1>11. CASE AbortRebase \/ ChecksTimeOut \/ Complete \/ RaiseError
  BY <1>11 DEF AbortRebase, ChecksTimeOut, Complete, RaiseError, Quit, EndRun, copy, saved,
     github, Ended
<1>12. CASE SelfRecords \/ BranchStep \/ ChangeStep \/ PublishStep \/ RequestStep \/ PhaseStep
  BY <1>12
<1>13. CASE ProcessStep
  BY <1>9, <1>10, <1>11, <1>12, <1>13 DEF ProcessStep, BranchStep, ChangeStep, PublishStep,
     RequestStep, PhaseStep
<1>14. QED
  BY <1>2, <1>3, <1>4, <1>5, <1>6, <1>7, <1>8, <1>13 DEF Next

(* The command that begins, or goes on, is the one its phase is at. *)
LEMMA ServingFacts ==
  ASSUME GitInv
  PROVE  /\ \A x : Serving(x) => phase < Len(Phases)
         /\ \A x : Doing(x) => Serving(x) /\ pc = "next"
         /\ UNCHANGED <<phase, step>> => \A x : Serving(x)' <=> Serving(x)
BY DEF Serving, Doing

(* No step leaves the place of a command without its phase being there. *)
LEMMA PositionStep ==
  ASSUME GitInv, Position, [Next]_vars
  PROVE  Position'
<1>1. CASE UNCHANGED <<pc, step, phase, pr>>
  BY <1>1, ServingFacts DEF Position, Running
<1>2. CASE pc' \in {"down", "done"} /\ step' = 1 /\ (pc' = "done" => phase' = Len(Phases))
  BY <1>2 DEF Position, Running, Selecting, Committing, Pushing
<1>3. CASE pc' = "next" /\ step' = 1
  BY <1>3 DEF Position, Running, Selecting, Committing, Pushing
<1>4. CASE pc' = "next" /\ phase' = phase /\ phase # Len(Phases)
  BY <1>4 DEF Position, Running, Selecting, Committing, Pushing
<1>5. ASSUME UNCHANGED <<phase, step>>, NEW x, Serving(x),
             \/ x = "branch" /\ pc' \in Selecting
             \/ x = "commit" /\ pc' \in Committing
             \/ x = "push" /\ pc' \in Pushing
             \/ x = "pr" /\ pc' = "number" /\ pr' # None
             \/ x = "checks" /\ pc' = "recordStatus"
      PROVE  Position'
  <2>1. Serving(x)' /\ phase' # Len(Phases)
    BY <1>5, ServingFacts DEF GitInv, GitTypes, SavedTypes
  <2>2. QED
    BY <1>5, <2>1 DEF Position, Running, Selecting, Committing, Pushing
<1>6. \A x : Serving(x) => phase # Len(Phases)
  BY ServingFacts DEF GitInv, GitTypes, SavedTypes
<1>7. CASE Apart
  BY <1>1, <1>7 DEF Apart
<1>8. CASE Ended
  BY <1>2, <1>8 DEF Ended
<1>9. CASE Fresh \/ Resumed
  BY <1>2, <1>3, <1>9 DEF Fresh, Resumed
<1>10. CASE SelfRecords
  BY <1>1, <1>10 DEF SelfRecords, process, saved, github
<1>11. CASE BranchStep
  <2>1. CASE BranchKnown \/ RecordSelected
    <3>1. Serving("branch") /\ pc' = "next" /\ phase' = phase
      BY <2>1, ServingFacts DEF BranchKnown, RecordSelected, Proceed, saved, Position, Selecting
    <3>2. QED
      BY <1>4, <1>6, <3>1
  <2>2. CASE BranchBegin
    <3>1. Serving("branch") /\ pc' \in Selecting /\ UNCHANGED <<phase, step>>
      BY <2>2, ServingFacts DEF BranchBegin, saved, Selecting
    <3>2. QED
      BY <1>5, <3>1
  <2>3. CASE CheckoutTarget \/ FetchBase \/ CreateBranch \/ FetchTarget \/ FastForward
             \/ RecordStart
    <3>1. pc \in Selecting /\ pc' \in Selecting /\ UNCHANGED <<phase, step>>
      BY <2>3 DEF CheckoutTarget, FetchBase, CreateBranch, FetchTarget, FastForward,
         RecordStart, FetchForBranch, saved, Selecting
    <3>2. QED
      BY <1>5, <3>1 DEF Position
  <2>4. QED
    BY <1>11, <2>1, <2>2, <2>3 DEF BranchStep
<1>12. CASE ChangeStep
  <2>1. CASE Agent \/ CommitNothing \/ RecordMessage
    <3>1. PICK x : Serving(x)
      BY <2>1, ServingFacts DEF Agent, CommitNothing, RecordMessage, Position, Committing
    <3>2. pc' = "next" /\ phase' = phase
      BY <2>1 DEF Agent, CommitNothing, RecordMessage, Proceed, saved
    <3>3. QED
      BY <1>4, <1>6, <3>1, <3>2
  <2>2. CASE CommitStage \/ UnstageEnv \/ MakeCommit
    <3>1. Serving("commit")
      BY <2>2, ServingFacts DEF CommitStage, UnstageEnv, MakeCommit, Position, Committing
    <3>2. pc' \in Committing /\ UNCHANGED <<phase, step>>
      BY <2>2 DEF CommitStage, UnstageEnv, MakeCommit, saved, Committing
    <3>3. QED
      BY <1>5, <3>1, <3>2
  <2>3. QED
    BY <1>12, <2>1, <2>2 DEF ChangeStep
<1>13. CASE PublishStep
  <2>1. Serving("push")
    BY <1>13, ServingFacts DEF PublishStep, Push, PushRejected, FetchForRebase, Rebase,
       RebaseFails, Position, Pushing
  <2>2. CASE Push
    BY <1>4, <1>6, <2>1, <2>2 DEF Push, Proceed, saved
  <2>3. CASE ~ Push
    <3>1. pc' \in Pushing /\ UNCHANGED <<phase, step>>
      BY <1>13, <2>3 DEF PublishStep, PushRejected, FetchForRebase, Rebase, RebaseFails, saved,
         Pushing
    <3>2. QED
      BY <1>5, <2>1, <3>1
  <2>4. QED
    BY <2>2, <2>3
<1>14. CASE RequestStep
  <2>1. CASE CreatePr
    <3>1. Serving("pr") /\ pc' = "number" /\ pr' # None /\ UNCHANGED <<phase, step>>
      <4>1. PrPossible => PrBase \in Branch
        <5>1. mem.starting \in Branch \cup {None}
          BY DEF GitInv, GitTypes, ProcessTypes, GitState
        <5>2. QED
          BY <5>1 DEF PrBase, PrPossible
      <4>2. PrPossible => [base |-> PrBase] # None
        <5>1. ASSUME NEW b \in Branch PROVE [base |-> b] # None
          <6>1. [base |-> b] \in [base : Branch]
            OBVIOUS
          <6>2. QED
            BY <6>1, PullRequestAssumption
        <5>2. QED
          BY <4>1, <5>1
      <4>3. QED
        BY <2>1, <4>2, ServingFacts DEF CreatePr, github, saved
    <3>2. QED
      BY <1>5, <3>1
  <2>2. CASE ChecksSettled
    BY <1>5, <2>2, ServingFacts DEF ChecksSettled
  <2>3. CASE StoreNumber \/ RecordStatus
    <3>1. PICK x : Serving(x)
      BY <2>3 DEF StoreNumber, RecordStatus, Position
    <3>2. pc' = "next" /\ phase' = phase
      BY <2>3 DEF StoreNumber, RecordStatus, Proceed
    <3>3. QED
      BY <1>4, <1>6, <3>1, <3>2
  <2>4. QED
    BY <1>14, <2>1, <2>2, <2>3 DEF RequestStep
<1>15. CASE PhaseStep
  <2>1. pc' = "next" /\ step' = 1
    BY <1>15 DEF PhaseStep, SavePhase, GoBack, Position
  <2>2. QED
    BY <1>3, <2>1
<1>16. QED
  BY <1>7, <1>8, <1>9, <1>10, <1>11, <1>12, <1>13, <1>14, <1>15, Kinds

(* A clone is recorded for a run that is at no command, and has no changes. *)
LEMMA RecordsHere ==
  ASSUME GitInv, SelfRecords
  PROVE  /\ ~ inPlace /\ ~ Running /\ Self \notin recorded /\ Self \in recorded'
         /\ UNCHANGED <<inPlace, process, saved, github>>
         /\ loose' = None /\ tree' = {} /\ staged' = {}
  BY DEF SelfRecords, Record, GitInv, CloneTells, IInv, CloneInHand

(* Whatever ends a process, the next one remembers the branch it is on. *)
LEMMA RememberedStep ==
  ASSUME GitInv, Position, Remembered, [Next]_vars
  PROVE  Remembered'
<1>1. Target \in Branch /\ None \notin Branch /\ Target # None
  OBVIOUS
<1>2. ctx \in Context /\ mem \in GitState
  BY DEF GitInv, GitTypes, SavedTypes, ProcessTypes
<1> DEFINE Kept ==
       /\ UNCHANGED <<inPlace, mem, phase>>
       /\ ctx'.git.selected = ctx.git.selected
       /\ pc = "recordSelected" => pc' = "recordSelected" \/ pc' \in {"down", "done"}
       /\ Running' => Running
       /\ pc' \in Selecting => pc \in Selecting
       /\ Self \in recorded => Self \in recorded'
<1>3. CASE Kept /\ UNCHANGED head
           /\ (pc' \in {"sync", "compare", "recordStart", "recordSelected"} =>
                 pc' = pc \/ head = Target)
  BY <1>3 DEF Remembered, Running
<1>4. CASE Kept /\ pc' \notin {"sync", "compare", "recordStart", "recordSelected"} /\ head' = None
  BY <1>4 DEF Remembered, Running
<1>5. CASE Apart
  BY <1>3, <1>5 DEF Apart, copy, Running
<1>6. CASE Ended
  <2>1. pc' \notin Selecting /\ ~ Running'
    BY <1>6 DEF Ended, Selecting, Running
  <2>2. ctx.git.selected = Target => head' \in {Target, None}
    <3>1. CASE UNCHANGED copy
      BY <3>1 DEF copy, Remembered
    <3>2. CASE AbortRebase
      BY <3>2 DEF AbortRebase, Remembered, GitInv, PlaceTells
    <3>3. QED
      BY <1>6, <3>1, <3>2 DEF Ended
  <2>3. QED
    BY <1>6, <2>1, <2>2 DEF Ended, Remembered, Selecting, Running
<1>7. CASE Fresh
  BY <1>1, <1>7, NothingYet DEF Fresh, Remembered, Selecting, Running
<1>8. CASE Resumed
  BY <1>8 DEF Resumed, Remembered, Selecting, Running, copy
<1>9. CASE SelfRecords
  <2>1. ctx'.git.selected = None /\ pc' \notin Selecting /\ ~ Running' /\ Self \in recorded'
    BY <1>9, RecordsHere DEF process, saved, GitInv, CloneTells, Selecting, Running
  <2>2. QED
    BY <1>1, <2>1 DEF Remembered, Selecting, Running
<1>10. CASE BranchStep
  <2> USE DEF Selecting, Running
  <2>1. CASE BranchKnown
    BY <1>3, <2>1 DEF BranchKnown, Doing, Proceed, copy, saved, cacheVars
  <2>2. CASE BranchBegin
    <3>1. mem.selected = ctx.git.selected
      BY <2>2 DEF BranchBegin, Doing, Remembered
    <3>2. /\ pc' \in {"sync", "checkout", "fetchBase", "createLocal"}
          /\ pc' = "sync" => head = Target
      BY <2>2 DEF BranchBegin
    <3>3. QED
      BY <2>2, <3>1, <3>2 DEF BranchBegin, Doing, copy, saved, cacheVars, Remembered
  <2>3. CASE CheckoutTarget \/ CreateBranch
    BY <1>1, <2>3 DEF CheckoutTarget, CreateBranch, saved, cacheVars, Remembered
  <2>4. CASE FetchBase \/ FetchTarget \/ FastForward
    <3>1. UNCHANGED <<inPlace, head, mem, ctx, phase, recorded>>
      BY <2>4 DEF FetchBase, FetchTarget, FastForward, saved, cacheVars, cacheRest
    <3>2. pc \in {"fetchBase", "sync", "compare"}
      BY <2>4 DEF FetchBase, FetchTarget, FastForward
    <3>3. \/ pc' \in {"create", "createLocal"}
          \/ pc # "fetchBase" /\ pc' \in {"compare", "recordStart"}
      BY <2>4 DEF FetchBase, FetchTarget, FastForward, FetchForBranch
    <3>4. QED
      BY <3>1, <3>2, <3>3 DEF Remembered
  <2>5. CASE RecordStart
    <3>1. ctx'.git.selected = ctx.git.selected /\ pc = "recordStart" /\ pc' = "recordSelected"
      BY <1>2, <2>5, ContextStarting DEF RecordStart, GitInv, GitTypes, ProcessTypes
    <3>2. UNCHANGED <<inPlace, head, phase, recorded>>
      BY <2>5 DEF RecordStart, copy, cacheVars
    <3>3. QED
      BY <3>1, <3>2 DEF Remembered
  <2>6. CASE RecordSelected
    <3>1. ctx'.git.selected = mem.selected /\ head = Target
      BY <1>2, <2>6 DEF RecordSelected, Remembered, Context, GitState
    <3>2. UNCHANGED <<inPlace, head, phase, recorded, mem>> /\ pc' = "next"
      BY <2>6 DEF RecordSelected, Proceed, copy, cacheVars
    <3>3. QED
      BY <3>1, <3>2, <2>6 DEF Remembered, RecordSelected
  <2>7. QED
    BY <1>10, <2>1, <2>2, <2>3, <2>4, <2>5, <2>6 DEF BranchStep
<1>11. CASE ChangeStep
  <2> USE DEF Selecting, Running
  <2>1. CASE RecordMessage
    <3>1. ctx'.git.selected = ctx.git.selected /\ mem'.selected = mem.selected
      BY <1>2, <2>1, ContextMessage, GitStateMessage DEF RecordMessage
    <3>2. UNCHANGED <<inPlace, head, phase, recorded>> /\ pc' = "next" /\ pc = "recordMessage"
      BY <2>1 DEF RecordMessage, Proceed, copy, cacheVars
    <3>3. QED
      BY <3>1, <3>2 DEF Remembered
  <2>2. CASE ~ RecordMessage
    <3>1. UNCHANGED <<inPlace, head, mem, ctx, phase, recorded>> /\ pc # "recordSelected" /\ Running
      BY <1>11, <2>2 DEF ChangeStep, Agent, CommitNothing, CommitStage, UnstageEnv, MakeCommit,
         Doing, copy, saved, cacheVars
    <3>2. pc' \in {"next", "unstage", "commit", "recordMessage"}
      BY <1>11, <2>2 DEF ChangeStep, Agent, CommitNothing, CommitStage, UnstageEnv, MakeCommit,
         Proceed
    <3>3. QED
      BY <1>3, <3>1, <3>2
  <2>3. QED
    BY <2>1, <2>2
<1>12. CASE PublishStep
  <2> USE DEF Selecting, Running
  <2>1. UNCHANGED <<inPlace, mem, ctx, phase, recorded>> /\ pc # "recordSelected" /\ Running
    BY <1>12 DEF PublishStep, Push, PushRejected, FetchForRebase, Rebase, RebaseFails, Doing, copy,
       saved, cacheVars, cacheRest
  <2>2. pc' \in {"next", "fetch", "rebase", "abort", "repush"}
    BY <1>12 DEF PublishStep, Push, PushRejected, FetchForRebase, Rebase, RebaseFails, Proceed
  <2>3. head' = None \/ UNCHANGED head
    BY <1>12 DEF PublishStep, Push, PushRejected, FetchForRebase, Rebase, RebaseFails, copy
  <2>4. QED
    BY <1>3, <1>4, <2>1, <2>2, <2>3
<1>13. CASE RequestStep
  <2> USE DEF Selecting, Running
  <2>1. UNCHANGED <<inPlace, mem, phase, recorded, head>> /\ pc # "recordSelected" /\ Running
    BY <1>13 DEF RequestStep, CreatePr, StoreNumber, ChecksSettled, RecordStatus, Doing, copy,
       saved, cacheVars
  <2>2. pc' \in {"next", "number", "recordStatus"}
    BY <1>13 DEF RequestStep, CreatePr, StoreNumber, ChecksSettled, RecordStatus, Proceed
  <2>3. ctx'.git = ctx.git
    BY <1>2, <1>13 DEF RequestStep, CreatePr, StoreNumber, ChecksSettled, RecordStatus, saved,
       Context
  <2>4. QED
    BY <1>3, <2>1, <2>2, <2>3
<1>14. CASE PhaseStep
  <2>1. Running /\ UNCHANGED <<inPlace, mem, ctx, head, recorded, pc>>
    BY <1>14 DEF PhaseStep, SavePhase, GoBack, Running, copy, cacheVars
  <2>2. ~ inPlace => Self \in recorded
    BY <2>1 DEF GitInv, CloneTells
  <2>3. QED
    BY <2>1, <2>2 DEF Remembered, Running
<1>15. QED
  BY <1>5, <1>6, <1>7, <1>8, <1>9, <1>10, <1>11, <1>12, <1>13, <1>14, Kinds

(* A commit takes all there is, but for .env files. *)
LEMMA IndexStep ==
  ASSUME GitInv, Position, Index, [Next]_vars
  PROVE  Index'
<1>1. CASE pc' \notin Committing
  BY <1>1 DEF Index, Committing
<1>2. CASE UNCHANGED <<pc, tree, staged>>
  BY <1>2 DEF Index, Dirty
<1>3. CASE Apart
  BY <1>2, <1>3 DEF Apart, copy
<1>4. CASE Ended \/ Fresh \/ Resumed
  BY <1>1, <1>4 DEF Ended, Fresh, Resumed, Committing
<1>5. CASE SelfRecords
  BY <1>1, <1>5, RecordsHere DEF process, Running, Committing
<1>6. CASE BranchStep
  <2>1. pc' \in Selecting \cup {"next"}
    BY <1>6 DEF BranchStep, BranchKnown, BranchBegin, CheckoutTarget, FetchBase, CreateBranch,
       FetchTarget, FastForward, RecordStart, RecordSelected, FetchForBranch, Proceed, Selecting
  <2>2. QED
    BY <1>1, <2>1 DEF Selecting, Committing
<1>7. CASE ChangeStep
  <2>1. CASE Agent \/ CommitNothing \/ RecordMessage
    BY <1>1, <2>1 DEF Agent, CommitNothing, RecordMessage, Proceed, Committing
  <2>2. CASE CommitStage
    BY <2>2 DEF CommitStage, Index, Dirty
  <2>3. CASE UnstageEnv
    BY <2>3 DEF UnstageEnv, Index, Dirty
  <2>4. CASE MakeCommit
    BY <2>4 DEF MakeCommit, Index, Dirty
  <2>5. QED
    BY <1>7, <2>1, <2>2, <2>3, <2>4 DEF ChangeStep
<1>8. CASE PublishStep
  BY <1>1, <1>8 DEF PublishStep, Push, PushRejected, FetchForRebase, Rebase, RebaseFails, Proceed,
     Committing
<1>9. CASE RequestStep
  BY <1>1, <1>9 DEF RequestStep, CreatePr, StoreNumber, ChecksSettled, RecordStatus, Proceed,
     Committing
<1>10. CASE PhaseStep
  BY <1>1, <1>10 DEF PhaseStep, SavePhase, GoBack, Committing
<1>11. QED
  BY <1>3, <1>4, <1>5, <1>6, <1>7, <1>8, <1>9, <1>10, Kinds

(* A branch that exists has a history. *)
LEMMA HistoryTypes ==
  ASSUME GitInv
  PROVE  \A b \in Branch : /\ remote[b] # None => remote[b] \in History
                           /\ heads[b] # None => heads[b] \in History
                           /\ tracked[b] # None => tracked[b] \in History
  BY DEF GitInv, IInv, CacheTypeOK, GitTypes, CopyTypes, Branches

(* What others push leaves a stopped rebase as far behind. *)
LEMMA StoppedKept ==
  ASSUME GitInv, GitInv', StoppedRebase, RemoteGrows,
         pc' = "rebase" => pc = "rebase" /\ tracked'[Target] = tracked[Target],
         loose' # None => loose # None /\ heads'[Target] = heads[Target]
  PROVE  StoppedRebase'
<1>1. Target \in Branch
  OBVIOUS
<1>2. /\ remote[Target] # None => remote[Target] \in History
      /\ heads[Target] # None => heads[Target] \in History
      /\ tracked[Target] # None => tracked[Target] \in History
  BY <1>1, HistoryTypes
<1>3. remote'[Target] # None => remote'[Target] \in History
  BY <1>1 DEF GitInv, IInv, CacheTypeOK, Branches
<1>4. remote[Target] # None => remote'[Target] # None /\ IsPrefix(remote[Target], remote'[Target])
  BY <1>1 DEF RemoteGrows
<1>5. pc' = "rebase" => remote'[Target] # None /\ IsPrefix(tracked'[Target], remote'[Target])
  <2>1. SUFFICES ASSUME pc' = "rebase"
                 PROVE  remote'[Target] # None /\ IsPrefix(tracked'[Target], remote'[Target])
    OBVIOUS
  <2>2. /\ tracked[Target] \in History /\ remote[Target] \in History
        /\ IsPrefix(tracked[Target], remote[Target])
    BY <1>2, <2>1 DEF StoppedRebase, GitInv, PlaceTells
  <2>3. QED
    BY <1>3, <1>4, <2>1, <2>2, PrefixTransitive
<1>6. loose' # None => /\ remote'[Target] # None /\ heads'[Target] # None
                       /\ ~ IsPrefix(remote'[Target], heads'[Target])
  <2>1. SUFFICES ASSUME loose' # None
                 PROVE  /\ remote'[Target] # None /\ heads'[Target] # None
                        /\ ~ IsPrefix(remote'[Target], heads'[Target])
    OBVIOUS
  <2>2. /\ remote[Target] \in History /\ heads[Target] \in History
        /\ ~ IsPrefix(remote[Target], heads[Target])
    BY <1>2, <2>1 DEF StoppedRebase
  <2>3. QED
    BY <1>3, <1>4, <2>1, <2>2, PrefixTransitive
<1>7. QED
  BY <1>5, <1>6 DEF StoppedRebase

(* A rebase stops only on a branch that the remote one has left behind,    *)
(* and nothing moves that branch before the rebase is aborted.             *)
LEMMA StoppedRebaseStep ==
  ASSUME GitInv, GitInv', Position, Remembered, StoppedRebase, [Next]_vars
  PROVE  StoppedRebase'
<1>1. RemoteGrows
  BY RemoteStep
<1>2. CASE pc' # "rebase" /\ UNCHANGED <<heads, loose>>
  BY <1>1, <1>2, StoppedKept
<1>3. CASE pc' # "rebase" /\ loose' = None
  BY <1>1, <1>3, StoppedKept
<1>4. CASE Apart
  BY <1>1, <1>4, StoppedKept DEF Apart, copy
<1>5. CASE Ended
  <2>1. pc' # "rebase" /\ (UNCHANGED copy \/ AbortRebase)
    BY <1>5 DEF Ended
  <2>2. CASE UNCHANGED copy
    BY <1>2, <2>1, <2>2 DEF copy
  <2>3. CASE AbortRebase
    BY <1>2, <1>3, <2>1, <2>3 DEF AbortRebase
  <2>4. QED
    BY <2>1, <2>2, <2>3
<1>6. CASE Fresh
  BY <1>2, <1>6 DEF Fresh
<1>7. CASE Resumed
  BY <1>2, <1>7 DEF Resumed, copy
<1>8. CASE SelfRecords
  BY <1>3, <1>8, RecordsHere DEF process, Running
<1>9. CASE BranchStep
  <2>1. pc' # "rebase"
    BY <1>9 DEF BranchStep, BranchKnown, BranchBegin, CheckoutTarget, FetchBase, CreateBranch,
       FetchTarget, FastForward, RecordStart, RecordSelected, FetchForBranch, Proceed
  <2>2. CASE CreateBranch \/ FastForward
    <3>1. loose = None /\ loose' = loose
      BY <2>2 DEF CreateBranch, FastForward, GitInv, PlaceTells, HeadTells
    <3>2. QED
      BY <1>3, <2>1, <3>1
  <2>3. CASE ~ CreateBranch /\ ~ FastForward
    <3>1. UNCHANGED <<heads, loose>>
      BY <1>9, <2>3 DEF BranchStep, BranchKnown, BranchBegin, CheckoutTarget, FetchBase,
         FetchTarget, RecordStart, RecordSelected, copy
    <3>2. QED
      BY <1>2, <2>1, <3>1
  <2>4. QED
    BY <2>2, <2>3
<1>10. CASE ChangeStep
  <2>1. pc' # "rebase"
    BY <1>10 DEF ChangeStep, Agent, CommitNothing, CommitStage, UnstageEnv, MakeCommit,
       RecordMessage, Proceed
  <2>2. CASE MakeCommit
    <3>1. CASE head # None
      BY <1>3, <2>1, <2>2, <3>1 DEF MakeCommit, GitInv, HeadTells
    <3>2. CASE head = None
      <4>1. loose # None /\ UNCHANGED heads
        BY <2>2, <3>2 DEF MakeCommit, GitInv, HeadTells
      <4>2. QED
        BY <1>1, <2>1, <4>1, StoppedKept
    <3>3. QED
      BY <3>1, <3>2
  <2>3. CASE ~ MakeCommit
    <3>1. UNCHANGED <<heads, loose>>
      BY <1>10, <2>3 DEF ChangeStep, Agent, CommitNothing, CommitStage, UnstageEnv, RecordMessage,
         copy
    <3>2. QED
      BY <1>2, <2>1, <3>1
  <2>4. QED
    BY <2>2, <2>3
<1>11. CASE PublishStep
  <2>1. CASE Push \/ PushRejected
    BY <1>2, <2>1 DEF Push, PushRejected, Proceed, copy
  <2>2. CASE FetchForRebase
    <3>1. remote'[Target] # None /\ tracked'[Target] = remote'[Target] /\ UNCHANGED remote
      BY <2>2 DEF FetchForRebase, cacheVars, GitInv, PlaceTells, GitTypes, CopyTypes, Branches
    <3>2. IsPrefix(tracked'[Target], remote'[Target])
      BY <3>1, HistoryTypes, PrefixOfSelf
    <3>3. UNCHANGED <<heads, loose>>
      BY <2>2 DEF FetchForRebase
    <3>4. QED
      BY <3>1, <3>2, <3>3 DEF StoppedRebase
  <2>3. CASE Rebase
    <3>1. loose' = None /\ pc' # "rebase"
      BY <2>3 DEF Rebase
    <3>2. QED
      BY <1>3, <3>1
  <2>4. CASE RebaseFails
    <3>1. pc' # "rebase" /\ UNCHANGED <<heads, remote>>
      BY <2>4 DEF RebaseFails, cacheVars
    <3>2. CASE UNCHANGED loose
      BY <1>2, <3>1, <3>2
    <3>3. CASE ~ UNCHANGED loose
      <4>1. loose = None /\ mem.selected = Target /\ tracked[Target] # None /\ heads[Target] # None
        BY <2>4, <3>3 DEF RebaseFails, GitInv, PlaceTells, SelectedTells
      <4>2. head = Target
        BY <2>4, <4>1 DEF RebaseFails, Remembered, Running, GitInv, HeadTells
      <4>3. LocalCommits(tracked[Target], heads[Target]) # <<>>
        BY <2>4, <3>3, <4>1, <4>2 DEF RebaseFails
      <4>4. /\ tracked[Target] \in History /\ heads[Target] \in History
            /\ remote[Target] # None /\ remote[Target] \in History
            /\ IsPrefix(tracked[Target], remote[Target])
        BY <2>4, <4>1, HistoryTypes DEF RebaseFails, StoppedRebase
      <4>5. ~ IsPrefix(tracked[Target], heads[Target])
        BY <4>3, <4>4, NothingLocal
      <4>6. ~ IsPrefix(remote[Target], heads[Target])
        BY <4>4, <4>5, PrefixTransitive
      <4>7. QED
        BY <3>1, <4>1, <4>4, <4>6 DEF StoppedRebase
    <3>4. QED
      BY <3>2, <3>3
  <2>5. QED
    BY <1>11, <2>1, <2>2, <2>3, <2>4 DEF PublishStep
<1>12. CASE RequestStep
  BY <1>2, <1>12 DEF RequestStep, CreatePr, StoreNumber, ChecksSettled, RecordStatus, Proceed, copy
<1>13. CASE PhaseStep
  BY <1>2, <1>13 DEF PhaseStep, SavePhase, GoBack, copy
<1>14. QED
  BY <1>4, <1>5, <1>6, <1>7, <1>8, <1>9, <1>10, <1>11, <1>12, <1>13, Kinds

-----------------------------------------------------------------------------
(* Phases are numbered, and so are their commands. *)
LEMMA PhaseTypes ==
  /\ DOMAIN Phases = 1 .. Len(Phases) /\ Len(Phases) \in Nat
  /\ \A q \in DOMAIN Phases : /\ DOMAIN Phases[q] = 1 .. Len(Phases[q]) /\ Len(Phases[q]) \in Nat
<1>1. Phases \in Seq(Seq(Command))
  OBVIOUS
<1> DEFINE S == Seq(Command)
<1>2. Phases \in Seq(S)
  BY <1>1
<1>3. \A t \in S : DOMAIN t = 1 .. Len(t) /\ Len(t) \in Nat
  OBVIOUS
<1> HIDE DEF S
<1>4. /\ DOMAIN Phases = 1 .. Len(Phases) /\ Len(Phases) \in Nat
      /\ \A q \in DOMAIN Phases : Phases[q] \in S
  BY <1>2
<1>5. QED
  BY <1>3, <1>4

(* What may still come after the commit, the push and the request. *)
LEMMA AfterPublishing ==
  ASSUME GitInv, NEW p \in DOMAIN Phases,
         NEW commit \in DOMAIN Phases[p], NEW push \in DOMAIN Phases[p],
         NEW request \in DOMAIN Phases[p], PublishedBy(p, commit, push, request),
         NEW x, Serving(x)
  PROVE  /\ Past(p, commit) => x # "agent"
         /\ Past(p, push) => x # "push"
         /\ phase = p - 1 /\ step = commit => x = "commit"
         /\ phase = p - 1 /\ step = push => x = "push"
         /\ phase = p - 1 /\ step = request => x = "pr"
<1> HIDE CacheAssumption, NoneAssumption, GitAssumption
<1>1. phase \in Nat /\ step \in Nat \ {0} /\ p \in Nat /\ p # 0
  BY PhaseTypes DEF GitInv, GitTypes, SavedTypes, ProcessTypes
<1>2. phase + 1 \in DOMAIN Phases
  BY <1>1, PhaseTypes DEF Serving
<1>3. step \in DOMAIN Phases[phase + 1]
  BY <1>1, <1>2, PhaseTypes DEF Serving
<1>4. Phases[phase + 1][step] = x /\ x \in ToSet(Phases[phase + 1])
  BY <1>3 DEF Serving, ToSet
<1>5. CASE phase >= p
  <2>1. phase + 1 > p
    BY <1>1, <1>5
  <2>2. {"agent", "push"} \cap ToSet(Phases[phase + 1]) = {}
    BY <1>2, <2>1 DEF PublishedBy
  <2>3. x # "agent" /\ x # "push"
    BY <1>4, <2>2
  <2>4. phase # p - 1
    BY <1>1, <1>5
  <2>5. QED
    BY <2>3, <2>4
<1>6. CASE phase = p - 1
  <2>1. phase + 1 = p
    BY <1>1, <1>6
  <2>2. step \in DOMAIN Phases[p] /\ Phases[p][step] = x
    BY <1>3, <1>4, <2>1
  <2>3. commit \in Nat /\ push \in Nat
    BY PhaseTypes
  <2>4. Past(p, commit) => x # "agent"
    BY <1>1, <1>6, <2>2, <2>3 DEF PublishedBy, Past
  <2>5. Past(p, push) => x # "push"
    BY <1>1, <1>6, <2>2, <2>3 DEF PublishedBy, Past
  <2>6. /\ step = commit => x = "commit"
        /\ step = push => x = "push"
        /\ step = request => x = "pr"
    BY <2>2 DEF PublishedBy
  <2>7. QED
    BY <2>4, <2>5, <2>6
<1>7. QED
  BY <1>1, <1>5, <1>6 DEF Past

(* Which command a step completes. *)
LEMMA CrossingServes ==
  ASSUME GitInv, Position
  PROVE  /\ BranchKnown \/ RecordSelected => Serving("branch")
         /\ Agent => Serving("agent")
         /\ CommitNothing \/ RecordMessage => Serving("commit")
         /\ Push => Serving("push")
         /\ StoreNumber => Serving("pr")
         /\ RecordStatus => Serving("checks")
  BY ServingFacts DEF BranchKnown, RecordSelected, Agent, CommitNothing, RecordMessage, Push,
     StoreNumber, RecordStatus, Position, Selecting, Committing, Pushing

(* What is past was past before, but for the command just completed. *)
LEMMA PastStep ==
  ASSUME GitInv, Position, [Next]_vars, NEW p \in DOMAIN Phases, NEW s \in DOMAIN Phases[p],
         Past(p, s)'
  PROVE  /\ Past(p, s) \/ (Crossing(p, s) /\ Crossings)
         /\ ~ Fresh /\ (SelfRecords => phase >= p)
         /\ (Ended => phase >= p)
<1>1. /\ phase \in Nat /\ phase <= Len(Phases) /\ step \in Nat \ {0}
      /\ p \in Nat /\ p # 0 /\ s \in Nat /\ s # 0
      /\ s <= Len(Phases[p]) /\ p <= Len(Phases) /\ Len(Phases) \in Nat /\ Len(Phases[p]) \in Nat
  BY PhaseTypes DEF GitInv, GitTypes, SavedTypes, ProcessTypes
<1>2. ~ Fresh
  BY <1>1 DEF Fresh, Past
<1>3. SelfRecords => phase >= p
  <2>1. SUFFICES ASSUME SelfRecords PROVE phase >= p
    OBVIOUS
  <2>2. step = 1 /\ UNCHANGED <<phase, step>>
    BY <2>1, RecordsHere DEF process, saved, Position
  <2>3. QED
    BY <1>1, <2>2 DEF Past
<1>4. Ended => phase >= p
  BY <1>1 DEF Ended, Past
<1>5. CASE UNCHANGED <<phase, step>>
  BY <1>1, <1>2, <1>3, <1>4, <1>5 DEF Past
<1>6. CASE UNCHANGED phase /\ step' = 1
  BY <1>1, <1>2, <1>3, <1>4, <1>6 DEF Past
<1>7. CASE Crossings /\ UNCHANGED phase /\ step' = step + 1 /\ pc' = "next"
  BY <1>1, <1>2, <1>3, <1>4, <1>7 DEF Past, Crossing
<1>8. CASE Apart
  BY <1>5, <1>8 DEF Apart
<1>9. CASE Ended \/ Resumed
  BY <1>6, <1>9 DEF Ended, Resumed
<1>10. CASE SelfRecords
  BY <1>5, <1>10, RecordsHere DEF process, saved
<1>11. CASE BranchStep
  <2>1. CASE BranchKnown \/ RecordSelected
    BY <1>7, <2>1 DEF Crossings, BranchKnown, RecordSelected, Proceed, saved
  <2>2. CASE ~ (BranchKnown \/ RecordSelected)
    BY <1>5, <1>11, <2>2 DEF BranchStep, BranchBegin, CheckoutTarget, FetchBase, CreateBranch,
       FetchTarget, FastForward, RecordStart, saved
  <2>3. QED
    BY <2>1, <2>2
<1>12. CASE ChangeStep
  <2>1. CASE Agent \/ CommitNothing \/ RecordMessage
    BY <1>7, <2>1 DEF Crossings, Agent, CommitNothing, RecordMessage, Proceed, saved
  <2>2. CASE ~ (Agent \/ CommitNothing \/ RecordMessage)
    BY <1>5, <1>12, <2>2 DEF ChangeStep, CommitStage, UnstageEnv, MakeCommit, saved
  <2>3. QED
    BY <2>1, <2>2
<1>13. CASE PublishStep
  <2>1. CASE Push
    BY <1>7, <2>1 DEF Crossings, Push, Proceed, saved
  <2>2. CASE ~ Push
    BY <1>5, <1>13, <2>2 DEF PublishStep, PushRejected, FetchForRebase, Rebase, RebaseFails, saved
  <2>3. QED
    BY <2>1, <2>2
<1>14. CASE RequestStep
  <2>1. CASE StoreNumber \/ RecordStatus
    BY <1>7, <2>1 DEF Crossings, StoreNumber, RecordStatus, Proceed
  <2>2. CASE ~ (StoreNumber \/ RecordStatus)
    BY <1>5, <1>14, <2>2 DEF RequestStep, CreatePr, ChecksSettled, saved
  <2>3. QED
    BY <2>1, <2>2
<1>15. CASE SavePhase
  <2>1. ~ SelfRecords
    BY <1>15, RecordsHere DEF SavePhase, Running
  <2>2. phase' = phase + 1 /\ step' = 1 /\ step > Len(Phases[phase + 1])
    BY <1>15 DEF SavePhase
  <2>3. phase + 1 >= p
    BY <1>1, <2>2 DEF Past
  <2>4. QED
    BY <1>1, <1>2, <1>4, <2>1, <2>2, <2>3 DEF Past
<1>16. CASE GoBack
  <2>1. phase = Len(Phases)
    BY <1>16 DEF GoBack
  <2>2. QED
    BY <1>1, <1>2, <1>4, <2>1 DEF Past
<1>17. QED
  BY <1>2, <1>8, <1>9, <1>10, <1>11, <1>12, <1>13, <1>14, <1>15, <1>16, Kinds DEF PhaseStep

(* Once the commit command is past, only a failing rebase dirties the      *)
(* tree, and the push command is then gone through again.                  *)
LEMMA CleanedStep ==
  ASSUME GitInv, Position, Index, [Next]_vars, NEW p \in DOMAIN Phases,
         NEW commit \in DOMAIN Phases[p], NEW push \in DOMAIN Phases[p],
         NEW request \in DOMAIN Phases[p], PublishedBy(p, commit, push, request),
         Cleaned(p, commit)
  PROVE  Cleaned(p, commit)'
<1>1. SUFFICES ASSUME Past(p, commit)'
               PROVE  ~ Dirty' \/ pc' = "abort"
  BY DEF Cleaned
<1>2. /\ Past(p, commit) \/ (Crossing(p, commit) /\ Crossings)
      /\ ~ Fresh /\ (Ended => phase >= p)
  BY <1>1, PastStep
<1>3. CASE Crossing(p, commit) /\ Crossings
  <2>1. CommitNothing \/ RecordMessage
    BY <1>3, AfterPublishing, CrossingServes DEF Crossing, Crossings
  <2>2. ~ Dirty /\ UNCHANGED tree
    BY <2>1 DEF CommitNothing, RecordMessage, Index, copy
  <2>3. QED
    BY <2>2 DEF Dirty
<1>4. CASE Past(p, commit)
  <2>1. ~ Dirty \/ pc = "abort"
    BY <1>4 DEF Cleaned
  <2>2. ~ Agent
    BY <1>4, AfterPublishing, CrossingServes
  <2>3. CASE UNCHANGED <<pc, tree>> \/ (~ Dirty /\ UNCHANGED tree) \/ tree' \subseteq {Env}
    BY <2>1, <2>3 DEF Dirty
  <2>4. CASE Apart
    BY <2>3, <2>4 DEF Apart, copy
  <2>5. CASE Ended
    <3>1. phase >= p
      BY <1>2, <2>5
    <3>2. pc # "abort"
      <4>1. SUFFICES ASSUME pc = "abort" PROVE FALSE
        OBVIOUS
      <4>2. Serving("push")
        BY <4>1 DEF Position, Pushing
      <4>3. QED
        BY <3>1, <4>2, AfterPublishing DEF Past
    <3>3. UNCHANGED copy
      BY <2>5, <3>2 DEF Ended, AbortRebase
    <3>4. QED
      BY <2>1, <2>3, <3>2, <3>3 DEF copy
  <2>6. CASE Resumed
    BY <2>1, <2>3, <2>6 DEF Resumed, copy
  <2>7. CASE SelfRecords
    BY <2>3, <2>7, RecordsHere
  <2>8. CASE BranchStep
    <3>1. pc # "abort" /\ UNCHANGED tree
      BY <2>8 DEF BranchStep, BranchKnown, BranchBegin, CheckoutTarget, FetchBase, CreateBranch,
         FetchTarget, FastForward, RecordStart, RecordSelected, Doing, copy
    <3>2. QED
      BY <2>1, <2>3, <3>1
  <2>9. CASE ChangeStep
    <3>1. CASE MakeCommit
      <4>1. ~ Dirty
        BY <2>1, <3>1 DEF MakeCommit
      <4>2. QED
        BY <3>1, <4>1 DEF MakeCommit, Dirty
    <3>2. CASE ~ MakeCommit
      <4>1. pc # "abort" /\ UNCHANGED tree
        BY <2>2, <2>9, <3>2 DEF ChangeStep, CommitNothing, CommitStage, UnstageEnv, RecordMessage,
           Doing, copy
      <4>2. QED
        BY <2>1, <2>3, <4>1
    <3>3. QED
      BY <3>1, <3>2
  <2>10. CASE PublishStep
    <3>1. CASE RebaseFails
      BY <3>1 DEF RebaseFails
    <3>2. CASE ~ RebaseFails
      <4>1. pc # "abort" /\ UNCHANGED tree
        BY <2>10, <3>2 DEF PublishStep, Push, PushRejected, FetchForRebase, Rebase, Doing, copy
      <4>2. QED
        BY <2>1, <2>3, <4>1
    <3>3. QED
      BY <3>1, <3>2
  <2>11. CASE RequestStep
    <3>1. pc # "abort" /\ UNCHANGED tree
      BY <2>11 DEF RequestStep, CreatePr, StoreNumber, ChecksSettled, RecordStatus, Doing, copy
    <3>2. QED
      BY <2>1, <2>3, <3>1
  <2>12. CASE PhaseStep
    <3>1. pc # "abort" /\ UNCHANGED tree
      BY <2>12 DEF PhaseStep, SavePhase, GoBack, copy
    <3>2. QED
      BY <2>1, <2>3, <3>1
  <2>13. QED
    BY <1>2, <2>4, <2>5, <2>6, <2>7, <2>8, <2>9, <2>10, <2>11, <2>12, Kinds
<1>5. QED
  BY <1>2, <1>3, <1>4

(* Once the push command is past, the branch has no new commits: no commit *)
(* is made of a clean tree, and no rebase without a push.                  *)
LEMMA PushedStep ==
  ASSUME GitInv, GitInv', Position, Remembered, Index, StoppedRebase, [Next]_vars,
         NEW p \in DOMAIN Phases,
         NEW commit \in DOMAIN Phases[p], NEW push \in DOMAIN Phases[p],
         NEW request \in DOMAIN Phases[p], PublishedBy(p, commit, push, request),
         Cleaned(p, commit), Pushed(p, push)
  PROVE  Pushed(p, push)'
<1> DEFINE Covered == Changes(heads[Target]) \subseteq Changes(remote[Target])
<1>1. SUFFICES ASSUME Past(p, push)'
               PROVE  /\ remote'[Target] # None /\ Covered'
                      /\ ctx'.git.selected = Target /\ loose' = None
  BY DEF Pushed
<1>2. /\ Past(p, push) \/ (Crossing(p, push) /\ Crossings)
      /\ ~ Fresh /\ (SelfRecords => phase >= p)
  BY <1>1, PastStep
<1>3. Target \in Branch /\ Target # None /\ ctx \in Context /\ mem \in GitState
      /\ heads \in Branches /\ remote \in Branches
  BY DEF GitInv, GitTypes, SavedTypes, ProcessTypes, CopyTypes, IInv, CacheTypeOK
<1>4. CASE Crossing(p, push) /\ Crossings
  <2>1. Push
    BY <1>4, AfterPublishing, CrossingServes DEF Crossing, Crossings
  <2>2. mem.selected = Target /\ ctx.git.selected = Target /\ heads[Target] # None
    <3>1. mem.selected # None /\ Running /\ pc # "recordSelected"
      BY <1>3, <2>1 DEF Push, Doing, Running, GitInv, PlaceTells
    <3>2. QED
      BY <3>1 DEF GitInv, SelectedTells, Remembered
  <2>3. remote'[Target] = heads[Target] /\ UNCHANGED <<heads, loose, ctx>>
    BY <1>3, <2>1, <2>2 DEF Push, Update, saved, Branches
  <2>4. loose = None
    BY <2>1, <2>2 DEF Push, Accepted, StoppedRebase
  <2>5. QED
    BY <2>2, <2>3, <2>4
<1>5. CASE Past(p, push)
  <2>1. /\ remote[Target] # None /\ Covered
        /\ ctx.git.selected = Target /\ loose = None
    BY <1>5 DEF Pushed
  <2>2. remote'[Target] # None /\ Changes(remote[Target]) \subseteq Changes(remote'[Target])
    <3>1. remote'[Target] # None /\ IsPrefix(remote[Target], remote'[Target])
      BY <1>3, <2>1, RemoteStep DEF RemoteGrows
    <3>2. remote[Target] \in History /\ remote'[Target] \in History
      <4>1. remote' \in Branches
        BY DEF GitInv, IInv, CacheTypeOK
      <4>2. QED
        BY <1>3, <2>1, <3>1, <4>1 DEF Branches
    <3>3. QED
      BY <3>1, <3>2, ChangesOfPrefix
  <2>3. pc \notin Selecting /\ pc \notin Pushing /\ ~ Push /\ ~ PushRejected
    <3>1. ~ Serving("push")
      BY <1>5, AfterPublishing
    <3>2. QED
      BY <1>3, <2>1, <3>1, ServingFacts DEF Position, Remembered, Push, PushRejected, Pushing
  <2>4. ~ SelfRecords
    <3>1. SUFFICES ASSUME SelfRecords PROVE FALSE
      OBVIOUS
    <3>2. ctx.git.selected = None
      BY <3>1, RecordsHere DEF GitInv, CloneTells
    <3>3. QED
      BY <1>3, <2>1, <3>2
  <2>5. ~ MakeCommit
    <3>1. Past(p, commit)
      <4>1. commit \in Nat /\ push \in Nat /\ commit < push
        BY PhaseTypes DEF PublishedBy
      <4>2. step \in Nat
        BY DEF GitInv, GitTypes, ProcessTypes
      <4>3. QED
        BY <1>5, <4>1, <4>2 DEF Past
    <3>2. QED
      BY <3>1 DEF Cleaned, MakeCommit, Index
  <2>6. UNCHANGED heads /\ ctx'.git.selected = ctx.git.selected /\ loose' = None
    <3>1. CASE UNCHANGED <<heads, loose, ctx>>
      BY <2>1, <3>1
    <3>2. CASE Apart \/ Resumed
      BY <3>1, <3>2 DEF Apart, Resumed, copy
    <3>3. CASE Ended
      <4>1. UNCHANGED copy
        BY <2>3, <3>3 DEF Ended, AbortRebase, Pushing
      <4>2. QED
        BY <3>1, <3>3, <4>1 DEF Ended, copy
    <3>4. CASE BranchStep
      BY <2>3, <3>1, <3>4 DEF BranchStep, BranchKnown, BranchBegin, CheckoutTarget, FetchBase,
         CreateBranch, FetchTarget, FastForward, RecordStart, RecordSelected, Selecting, copy,
         saved
    <3>5. CASE RecordMessage
      <4>1. UNCHANGED <<heads, loose>>
        BY <3>5 DEF RecordMessage, copy
      <4>2. ctx'.git.selected = ctx.git.selected
        BY <1>3, <3>5, ContextMessage DEF RecordMessage
      <4>3. QED
        BY <2>1, <4>1, <4>2
    <3>6. CASE ChangeStep /\ ~ RecordMessage
      BY <2>5, <3>1, <3>6 DEF ChangeStep, Agent, CommitNothing, CommitStage, UnstageEnv, copy, saved
    <3>7. CASE PublishStep
      BY <2>3, <3>7 DEF PublishStep, FetchForRebase, Rebase, RebaseFails, Pushing
    <3>8. CASE RequestStep
      <4>1. UNCHANGED <<heads, loose>>
        BY <3>8 DEF RequestStep, CreatePr, StoreNumber, ChecksSettled, RecordStatus, copy
      <4>2. ctx'.git = ctx.git
        BY <1>3, <3>8 DEF RequestStep, CreatePr, StoreNumber, ChecksSettled, RecordStatus, saved,
           Context
      <4>3. QED
        BY <2>1, <4>1, <4>2
    <3>9. CASE PhaseStep
      BY <3>1, <3>9 DEF PhaseStep, SavePhase, GoBack, copy
    <3>10. QED
      BY <1>2, <2>4, <3>2, <3>3, <3>4, <3>5, <3>6, <3>7, <3>8, <3>9, Kinds
  <2>7. QED
    BY <2>1, <2>2, <2>6
<1>6. QED
  BY <1>2, <1>4, <1>5

(* Once the pull request is there, it stays, and its number with it. *)
LEMMA RequestedStep ==
  ASSUME GitInv, Position, [Next]_vars, NEW p \in DOMAIN Phases,
         NEW commit \in DOMAIN Phases[p], NEW push \in DOMAIN Phases[p],
         NEW request \in DOMAIN Phases[p], PublishedBy(p, commit, push, request),
         Requested(p, request)
  PROVE  Requested(p, request)'
<1>1. SUFFICES ASSUME Past(p, request)'
               PROVE  pr' # None /\ ctx'.number
  BY DEF Requested
<1>2. /\ Past(p, request) \/ (Crossing(p, request) /\ Crossings)
      /\ ~ Fresh
  BY <1>1, PastStep
<1>3. ctx \in Context
  BY DEF GitInv, GitTypes, SavedTypes
<1>4. CASE Crossing(p, request) /\ Crossings
  <2>1. StoreNumber
    BY <1>4, AfterPublishing, CrossingServes DEF Crossing, Crossings
  <2>2. pr' # None
    BY <2>1 DEF StoreNumber, github, Position
  <2>3. ctx'.number
    BY <1>3, <2>1 DEF StoreNumber, Context
  <2>4. QED
    BY <2>2, <2>3
<1>5. CASE Past(p, request)
  <2>1. pr # None /\ ctx.number
    BY <1>5 DEF Requested
  <2>2. CASE UNCHANGED <<pr, ctx>>
    BY <2>1, <2>2
  <2>3. CASE Apart \/ Ended \/ Resumed
    BY <2>2, <2>3 DEF Apart, Ended, Resumed
  <2>4. CASE SelfRecords
    BY <2>2, <2>4, RecordsHere DEF saved, github
  <2>5. CASE BranchStep
    <3>1. UNCHANGED pr
      BY <2>5 DEF BranchStep, BranchKnown, BranchBegin, CheckoutTarget, FetchBase, CreateBranch,
         FetchTarget, FastForward, RecordStart, RecordSelected, github
    <3>2. ctx'.number = ctx.number
      BY <1>3, <2>5 DEF BranchStep, BranchKnown, BranchBegin, CheckoutTarget, FetchBase,
         CreateBranch, FetchTarget, FastForward, RecordStart, RecordSelected, saved, Context
    <3>3. QED
      BY <2>1, <3>1, <3>2
  <2>6. CASE ChangeStep
    <3>1. UNCHANGED pr
      BY <2>6 DEF ChangeStep, Agent, CommitNothing, CommitStage, UnstageEnv, MakeCommit,
         RecordMessage, github
    <3>2. ctx'.number = ctx.number
      BY <1>3, <2>6 DEF ChangeStep, Agent, CommitNothing, CommitStage, UnstageEnv, MakeCommit,
         RecordMessage, saved, Context
    <3>3. QED
      BY <2>1, <3>1, <3>2
  <2>7. CASE PublishStep
    BY <2>2, <2>7 DEF PublishStep, Push, PushRejected, FetchForRebase, Rebase, RebaseFails, saved,
       github
  <2>8. CASE RequestStep
    <3>1. UNCHANGED pr
      BY <2>1, <2>8 DEF RequestStep, CreatePr, StoreNumber, ChecksSettled, RecordStatus, github
    <3>2. ctx'.number = ctx.number \/ ctx'.number
      BY <1>3, <2>8 DEF RequestStep, CreatePr, StoreNumber, ChecksSettled, RecordStatus, saved,
         Context
    <3>3. QED
      BY <2>1, <3>1, <3>2
  <2>9. CASE PhaseStep
    BY <2>2, <2>9 DEF PhaseStep, SavePhase, GoBack, github
  <2>10. QED
    BY <1>2, <2>3, <2>4, <2>5, <2>6, <2>7, <2>8, <2>9, Kinds
<1>6. QED
  BY <1>2, <1>4, <1>5

(* A first run has nothing behind it. *)
LEMMA PublishInit == Init => PublishInv
<1> SUFFICES ASSUME Init PROVE PublishInv
  OBVIOUS
<1>1. GitInv
  BY GitInitCorrect
<1>2. pc = "down" /\ step = 1 /\ phase = 0 /\ loose = None /\ ctx = NoContext
  BY DEF Init
<1>3. Position /\ Index /\ StoppedRebase
  BY <1>2 DEF Position, Index, StoppedRebase, Selecting, Committing, Pushing, Running
<1>4. Remembered
  BY <1>2, NothingYet DEF Remembered, Running, Selecting
<1>5. AllPublished
  <2>1. ASSUME NEW p \in DOMAIN Phases, NEW s \in DOMAIN Phases[p]
        PROVE  ~ Past(p, s)
    BY <1>2, PhaseTypes DEF Past
  <2>2. QED
    BY <2>1 DEF AllPublished, Cleaned, Pushed, Requested
<1>6. QED
  BY <1>1, <1>3, <1>4, <1>5 DEF PublishInv

(* Every step keeps all parts of the invariant. *)
LEMMA PublishNext == PublishInv /\ [Next]_vars => PublishInv'
<1> SUFFICES ASSUME PublishInv, [Next]_vars PROVE PublishInv'
  OBVIOUS
<1>1. GitInv /\ Position /\ Remembered /\ Index /\ StoppedRebase /\ AllPublished
  BY DEF PublishInv
<1>2. GitInv'
  BY <1>1, GitNextCorrect
<1>3. Position' /\ Remembered' /\ Index' /\ StoppedRebase'
  BY <1>1, <1>2, PositionStep, RememberedStep, IndexStep, StoppedRebaseStep
<1>4. AllPublished'
  <2>1. ASSUME NEW p \in DOMAIN Phases,
               NEW commit \in DOMAIN Phases[p], NEW push \in DOMAIN Phases[p],
               NEW request \in DOMAIN Phases[p], PublishedBy(p, commit, push, request)
        PROVE  Cleaned(p, commit)' /\ Pushed(p, push)' /\ Requested(p, request)'
    <3>1. Cleaned(p, commit) /\ Pushed(p, push) /\ Requested(p, request)
      BY <1>1, <2>1 DEF AllPublished
    <3>2. Cleaned(p, commit)'
      BY <1>1, <2>1, <3>1, CleanedStep
    <3>3. Pushed(p, push)'
      BY <1>1, <1>2, <2>1, <3>1, PushedStep
    <3>4. Requested(p, request)'
      BY <1>1, <2>1, <3>1, RequestedStep
    <3>5. QED
      BY <3>2, <3>3, <3>4
  <2>2. QED
    BY <2>1 DEF AllPublished
<1>5. QED
  BY <1>2, <1>3, <1>4 DEF PublishInv

(* The invariant CompletedIsPublished rests on: where the process is in    *)
(* the commands of its phase, what it remembers of its branch, and what    *)
(* the commands it has behind it have achieved, however often it was       *)
(* crashed, failed and resumed (git_runtime.py:93-132, git_publish.py).    *)
THEOREM PublishInductive == Spec => []PublishInv
<1>1. QED
  BY PublishInit, PublishNext, PTL DEF Spec

(* An execution that publishes last has, when it is complete, everything   *)
(* it committed in the remote branch of a pull request, for any phases,    *)
(* any pushes of others, any crashes, failures and resumes                 *)
(* (git_runtime.py:93-132, git_publish.py:85-155).                         *)
THEOREM Published == Spec => []CompletedIsPublished
<1>1. PublishInv => CompletedIsPublished
  <2>1. SUFFICES ASSUME PublishInv, pc = "done", PublishesLast
                 PROVE  /\ remote[Target] # None
                        /\ Changes(heads[Target]) \subseteq Changes(remote[Target])
                        /\ head = Target /\ loose = None /\ ~ Dirty
                        /\ pr # None /\ ctx.number
    BY DEF CompletedIsPublished
  <2>2. PICK p \in DOMAIN Phases : \E commit, push, request \in DOMAIN Phases[p] :
          PublishedBy(p, commit, push, request)
    BY <2>1 DEF PublishesLast
  <2>3. PICK commit \in DOMAIN Phases[p], push \in DOMAIN Phases[p], request \in DOMAIN Phases[p] :
          PublishedBy(p, commit, push, request)
    BY <2>2
  <2>4. Cleaned(p, commit) /\ Pushed(p, push) /\ Requested(p, request)
    BY <2>1, <2>3 DEF PublishInv, AllPublished
  <2>5. phase = Len(Phases) /\ phase >= p
    BY <2>1, PhaseTypes DEF PublishInv, Position
  <2>6. Past(p, commit) /\ Past(p, push) /\ Past(p, request)
    BY <2>5 DEF Past
  <2>7. /\ remote[Target] # None /\ Changes(heads[Target]) \subseteq Changes(remote[Target])
        /\ ctx.git.selected = Target /\ loose = None
        /\ pr # None /\ ctx.number
    BY <2>4, <2>6 DEF Pushed, Requested
  <2>8. ~ Dirty
    BY <2>1, <2>4, <2>6 DEF Cleaned
  <2>9. head = Target
    BY <2>1, <2>7 DEF PublishInv, Remembered, GitInv, HeadTells
  <2>10. QED
    BY <2>7, <2>8, <2>9
<1>2. QED
  BY PublishInductive, <1>1, PTL
=============================================================================
