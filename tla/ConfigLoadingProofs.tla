------------------------ MODULE ConfigLoadingProofs ------------------------
(***************************************************************************)
(* What holds of configuration loading for every set of names, ids and     *)
(* included files: what is accepted can run, but for what the loader       *)
(* leaves unchecked, and the search for cycles finds one exactly when      *)
(* there is one.                                                           *)
(***************************************************************************)
EXTENDS ConfigLoading, FiniteSetTheorems, WellFoundedInduction, TLAPS

(* No element occurs twice. *)
Distinct(s) == \A i, j \in DOMAIN s : s[i] = s[j] => i = j

Parsing == {"head", "goto", "wait", "routes", "rest"}

Searched == {"graph", "loaded", "cyclic"}

Route == [goto : {None} \cup TaskId, continue : BOOLEAN]

Task ==
  [id : {None} \cup TaskId, prompt : BOOLEAN, gate : BOOLEAN, goto : {None} \cup TaskId,
   waits : BOOLEAN, routes : Seq(Route), onFailure : BOOLEAN]

Trigger == [after : Name, run : Name]

(* A file that defines an execution, each once. *)
NamesInv ==
  /\ names \in Seq(Name) /\ Distinct(names)
  /\ stage \in Parsing => names # <<>>

(* The executions parsed are the first of the file, as many as the parser  *)
(* counts; what each depends on is in the file.                            *)
DepsInv ==
  /\ IsFiniteSet(DOMAIN deps)
  /\ DOMAIN deps = {names[i] : i \in 1 .. Cardinality(DOMAIN deps)}
  /\ Cardinality(DOMAIN deps) <= Len(names)
  /\ \A e \in DOMAIN deps : deps[e] \subseteq ToSet(names)
  /\ stage \in {"sections", "includes"} => DOMAIN deps = {}
  /\ stage \in Parsing => Cardinality(DOMAIN deps) < Len(names)
  /\ stage \in {"triggers"} \cup Searched => DOMAIN deps = ToSet(names)

(* What holds of a sub-task once the fields read are accepted, S being the *)
(* ids of those before it.                                                 *)
TaskSound(t, S) ==
  /\ t.goto # None => t.gate /\ t.goto \in S /\ ~ t.waits
  /\ t.waits => ~ t.prompt /\ ~ t.onFailure
  /\ \A r \in ToSet(t.routes) : IF r.continue THEN r.goto = None ELSE r.goto \in S

DraftInv ==
  /\ draft \in Task
  /\ stage \in Parsing \ {"head"} => TaskSound(draft, Seen)
  /\ stage \in {"goto", "wait"} => ~ draft.waits /\ draft.routes = <<>> /\ ~ draft.onFailure
  /\ stage = "goto" => draft.goto = None
  /\ stage = "routes" => draft.waits
  /\ stage = "rest" => (draft.waits <=> draft.routes # <<>>)

Earlier(i) == {tasks[j].id : j \in 1 .. i - 1}

TasksInv ==
  /\ tasks \in Seq(Task)
  /\ \A i \in 1 .. Len(tasks) :
       /\ tasks[i].id \notin Earlier(i)
       /\ TaskSound(tasks[i], Earlier(i))
       /\ (tasks[i].waits <=> tasks[i].routes # <<>>)

TriggersInv ==
  /\ triggers \in Seq(Trigger)
  /\ \A t \in ToSet(triggers) : {t.after, t.run} \subseteq ToSet(names)
  /\ stage \in {"sections", "includes"} \cup Parsing => triggers = <<>>

LacksInv == needs \subseteq OfGit /\ LacksKnown

ParseInv == NamesInv /\ DepsInv /\ DraftInv /\ TasksInv /\ TriggersInv /\ LacksInv

Frame == [at : Name, next : Nat]

(* The executions being visited are those on the stack. *)
VisitTells ==
  /\ visit \in [ToSet(names) -> {"unvisited", "visiting", "done"}]
  /\ \A e \in ToSet(names) :
       (visit[e] = "visiting" <=> \E i \in 1 .. Len(stack) : stack[i].at = e)

(* A frame has passed over what it stands before, but for the neighbour    *)
(* the next frame visits.                                                  *)
FrameTells(i) ==
  LET to == Neighbours(stack[i].at)
      next == stack[i].next
  IN  /\ stack[i].at \in ToSet(names)
      /\ next \in 1 .. Len(to) + 1
      /\ \A k \in 1 .. next - 1 :
           visit[to[k]] = "done" \/ (i < Len(stack) /\ k = next - 1)
      /\ i < Len(stack) => next > 1 /\ stack[i + 1].at = to[next - 1]

StackTells ==
  /\ stack \in Seq(Frame)
  /\ \A i \in 1 .. Len(stack) : FrameTells(i)
  /\ \A i, j \in 1 .. Len(stack) : stack[i].at = stack[j].at => i = j

Done == {e \in ToSet(names) : visit[e] = "done"}

(* No set of them is closed under waiting for one another. *)
Acyclic(D) ==
  \A S \in SUBSET D : S # {} => \E a \in S : \A b \in S : ~ Before(a, b)

(* What is done leads to what is done, and closes no cycle. *)
DoneTells ==
  /\ \A e \in Done, n \in ToSet(names) : Before(e, n) => n \in Done
  /\ Acyclic(Done)
  /\ stage = "loaded" => Done = ToSet(names)

CycleTells ==
  stage = "cyclic" =>
    /\ Len(cycle) > 1
    /\ cycle[1] = Last(cycle)
    /\ \A i \in 1 .. Len(cycle) - 1 : Before(cycle[i], cycle[i + 1])

SearchInv ==
  /\ stage \notin Searched => stack = <<>>
  /\ stage \in Searched => VisitTells /\ StackTells /\ DoneTells /\ CycleTells

LoadInv == ParseInv /\ SearchInv

(* In what is loaded, every set of executions has one that waits for none  *)
(* of the others: what ExecutionGraph assumes of its configuration.        *)
LoadedIsAcyclic ==
  stage = "loaded" =>
    \A S \in SUBSET ToSet(names) : S # {} => \E y \in S : \A x \in S : ~ Before(x, y)

-----------------------------------------------------------------------------
(* Sequences. *)

(* A set of numbers has a least one: what inductions below rest on. *)
LEMMA Least ==
  ASSUME NEW S \in SUBSET Nat, S # {}
  PROVE  \E n \in S : \A m \in S : n <= m
<1> DEFINE less == OpToRel(<, Nat)
<1>1. less = {p \in Nat \X Nat : p[1] < p[2]}
  BY DEF OpToRel
<1>2. IsWellFoundedOn(less, Nat)
  BY NatLessThanWellFounded
<1> HIDE DEF less
<1>3. PICK n \in S : \A m \in S : ~ (<<m, n>> \in less)
  BY <1>2, WFMin
<1>4. ASSUME NEW m \in S PROVE n <= m
  <2>1. ~ (m < n)
    BY <1>1, <1>3
  <2>2. QED
    BY <2>1
<1>5. QED
  BY <1>4

(* The elements of a sequence that grows by one. *)
LEMMA OneMore ==
  ASSUME NEW S, NEW s \in Seq(S), NEW e \in S
  PROVE  /\ Append(s, e) \in Seq(S) /\ ToSet(Append(s, e)) = ToSet(s) \cup {e}
         /\ Distinct(s) /\ e \notin ToSet(s) => Distinct(Append(s, e))
<1>1. Append(s, e) \in Seq(S) /\ Len(Append(s, e)) = Len(s) + 1
  OBVIOUS
<1>2. \A i \in 1 .. Len(s) : Append(s, e)[i] = s[i]
  OBVIOUS
<1>3. Append(s, e)[Len(s) + 1] = e
  OBVIOUS
<1>4. DOMAIN s = 1 .. Len(s) /\ DOMAIN Append(s, e) = 1 .. Len(s) + 1 /\ Len(s) \in Nat
  BY <1>1
<1>5. ToSet(Append(s, e)) = {Append(s, e)[i] : i \in 1 .. Len(s) + 1}
  BY <1>4 DEF ToSet
<1>6. ToSet(s) = {s[i] : i \in 1 .. Len(s)}
  BY <1>4 DEF ToSet
<1>7. 1 .. Len(s) + 1 = (1 .. Len(s)) \cup {Len(s) + 1}
  BY <1>4
<1>8. ToSet(Append(s, e)) = ToSet(s) \cup {e}
  BY <1>2, <1>3, <1>5, <1>6, <1>7
<1>9. ASSUME Distinct(s), e \notin ToSet(s)
      PROVE  Distinct(Append(s, e))
  BY <1>2, <1>3, <1>4, <1>6, <1>7, <1>9 DEF Distinct
<1>10. QED
  BY <1>1, <1>8, <1>9

(* What is kept of a sequence. *)
LEMMA KeepFacts ==
  ASSUME NEW S, NEW s \in Seq(S), NEW K
  PROVE  /\ Keep(s, K) \in Seq(S)
         /\ ToSet(Keep(s, K)) = ToSet(s) \cap K
         /\ Distinct(s) => Distinct(Keep(s, K))
<1> DEFINE N == Len(s)
           Body(f, n) == IF n = 0 THEN <<>>
                         ELSE IF s[n] \in K THEN Append(f[n - 1], s[n])
                         ELSE f[n - 1]
           Solves(f, m) == \A n \in 0 .. m : f[n] = Body(f, n)
           Solvable(m) == \E f \in [0 .. N -> Seq(S)] : Solves(f, m)
           F == CHOOSE f : f = [n \in 0 .. N |-> Body(f, n)]
           Right(n) == /\ F[n] \in Seq(S)
                       /\ ToSet(F[n]) = {s[i] : i \in 1 .. n} \cap K
                       /\ Distinct(s) => Distinct(F[n])
<1>1. N \in Nat /\ \A n \in 1 .. N : s[n] \in S
  OBVIOUS
<1>2. Keep(s, K) = F[N]
  BY DEF Keep
<1>3. ToSet(s) = {s[i] : i \in 1 .. N}
  BY DEF ToSet
<1> HIDE DEF N
<1>4. Solvable(0)
  <2>1. [n \in 0 .. N |-> <<>>] \in [0 .. N -> Seq(S)]
    <3>1. <<>> \in Seq(S)
      OBVIOUS
    <3>2. QED
      BY <3>1
  <2>2. Solves([n \in 0 .. N |-> <<>>], 0)
    BY <1>1
  <2>3. QED
    BY <2>1, <2>2
<1>5. ASSUME NEW m \in 1 .. N, Solvable(m - 1)
      PROVE  Solvable(m)
  <2>1. PICK f \in [0 .. N -> Seq(S)] : Solves(f, m - 1)
    BY <1>5
  <2>2. m \in 0 .. N /\ m - 1 \in 0 .. N /\ m \in Nat /\ m # 0
    BY <1>1
  <2>3. f[m - 1] \in Seq(S) /\ s[m] \in S
    BY <1>1, <2>2
  <2>4. Body(f, m) \in Seq(S)
    BY <2>2, <2>3
  <2>5. PICK g \in [0 .. N -> Seq(S)] : g = [f EXCEPT ![m] = Body(f, m)]
    BY <2>4
  <2>6. g[m] = Body(f, m) /\ \A n \in 0 .. m - 1 : g[n] = f[n]
    BY <1>1, <2>2, <2>5
  <2>7. ASSUME NEW n \in 0 .. m PROVE g[n] = Body(g, n)
    <3>1. g[n] = Body(f, n)
      <4>1. CASE n = m
        BY <4>1, <2>6
      <4>2. CASE n # m
        <5>1. n \in 0 .. m - 1
          BY <4>2, <2>2
        <5>2. g[n] = f[n] /\ f[n] = Body(f, n)
          BY <5>1, <2>1, <2>6
        <5>3. QED
          BY <5>2
      <4>3. QED
        BY <4>1, <4>2
    <3>2. n = 0 \/ g[n - 1] = f[n - 1]
      BY <2>2, <2>6
    <3>3. QED
      BY <3>1, <3>2
  <2>8. QED
    BY <2>7
<1>6. Solvable(N)
  <2> HIDE DEF Solvable
  <2> DEFINE Wrong == {m \in 0 .. N : ~ Solvable(m)}
  <2>1. SUFFICES ASSUME Wrong # {} PROVE FALSE
    BY <1>1
  <2>2. Wrong \in SUBSET Nat
    BY <1>1
  <2>3. PICK m \in Wrong : \A k \in Wrong : m <= k
    BY <2>1, <2>2, Least
  <2>4. m \in 1 .. N /\ m - 1 \in 0 .. N /\ ~ (m <= m - 1)
    BY <1>1, <1>4
  <2>5. Solvable(m - 1)
    BY <2>3, <2>4
  <2>6. QED
    BY <1>5, <2>4, <2>5
<1>7. F = [n \in 0 .. N |-> Body(F, n)]
  <2>1. PICK f \in [0 .. N -> Seq(S)] : Solves(f, N)
    BY <1>6
  <2>2. f = [n \in 0 .. N |-> Body(f, n)]
    BY <2>1
  <2>3. QED
    BY <2>2
<1> HIDE DEF F
<1>8. Right(0)
  <2>1. F[0] = <<>>
    BY <1>1, <1>7
  <2>2. <<>> \in Seq(S) /\ ToSet(<<>>) = {} /\ Distinct(<<>>)
    BY DEF ToSet, Distinct
  <2>3. QED
    BY <2>1, <2>2
<1>9. ASSUME NEW m \in 1 .. N, Right(m - 1)
      PROVE  Right(m)
  <2>1. m \in 0 .. N /\ m \in Nat /\ m # 0
    BY <1>1
  <2>2. {s[i] : i \in 1 .. m} = {s[i] : i \in 1 .. m - 1} \cup {s[m]}
    BY <2>1
  <2>3. F[m] = IF s[m] \in K THEN Append(F[m - 1], s[m]) ELSE F[m - 1]
    BY <1>7, <2>1
  <2>4. F[m - 1] \in Seq(S) /\ s[m] \in S
    BY <1>1, <1>9
  <2>5. CASE s[m] \notin K
    BY <1>9, <2>2, <2>3, <2>5
  <2>6. CASE s[m] \in K
    <3>1. /\ F[m] \in Seq(S) /\ ToSet(F[m]) = ToSet(F[m - 1]) \cup {s[m]}
          /\ Distinct(F[m - 1]) /\ s[m] \notin ToSet(F[m - 1]) => Distinct(F[m])
      BY <2>3, <2>4, <2>6, OneMore
    <3>2. Distinct(s) => s[m] \notin ToSet(F[m - 1])
      <4>1. DOMAIN s = 1 .. N
        BY DEF N
      <4>2. \A i \in 1 .. m - 1 : i \in 1 .. N /\ i # m
        BY <1>1
      <4>3. QED
        BY <1>9, <4>1, <4>2 DEF Distinct
    <3>3. QED
      BY <1>9, <2>2, <2>6, <3>1, <3>2
  <2>7. QED
    BY <2>5, <2>6
<1>10. Right(N)
  <2> HIDE DEF Right
  <2> DEFINE Wrong == {m \in 0 .. N : ~ Right(m)}
  <2>1. SUFFICES ASSUME Wrong # {} PROVE FALSE
    BY <1>1
  <2>2. Wrong \in SUBSET Nat
    BY <1>1
  <2>3. PICK m \in Wrong : \A k \in Wrong : m <= k
    BY <2>1, <2>2, Least
  <2>4. m \in 1 .. N /\ m - 1 \in 0 .. N /\ ~ (m <= m - 1)
    BY <1>1, <1>8
  <2>5. Right(m - 1)
    BY <2>3, <2>4
  <2>6. QED
    BY <1>9, <2>4, <2>5
<1>11. QED
  BY <1>2, <1>3, <1>10

(* The elements of two sequences put one after the other. *)
LEMMA Joined ==
  ASSUME NEW S, NEW s \in Seq(S), NEW t \in Seq(S)
  PROVE  /\ s \o t \in Seq(S) /\ ToSet(s \o t) = ToSet(s) \cup ToSet(t)
         /\ Distinct(s) /\ Distinct(t) /\ ToSet(s) \cap ToSet(t) = {} => Distinct(s \o t)
<1>1. /\ s \o t \in Seq(S) /\ Len(s \o t) = Len(s) + Len(t)
      /\ Len(s) \in Nat /\ Len(t) \in Nat
  OBVIOUS
<1>2. \A i \in 1 .. Len(s) : (s \o t)[i] = s[i]
  OBVIOUS
<1>3. \A i \in 1 .. Len(t) : (s \o t)[Len(s) + i] = t[i]
  OBVIOUS
<1>4. ToSet(s \o t) = {(s \o t)[i] : i \in 1 .. Len(s) + Len(t)}
  <2>1. DOMAIN (s \o t) = 1 .. Len(s) + Len(t)
    BY <1>1
  <2>2. QED
    BY <2>1 DEF ToSet
<1>5. ToSet(s) = {s[i] : i \in 1 .. Len(s)} /\ ToSet(t) = {t[i] : i \in 1 .. Len(t)}
  BY DEF ToSet
<1>6. 1 .. Len(s) + Len(t) = (1 .. Len(s)) \cup {Len(s) + i : i \in 1 .. Len(t)}
  <2>1. ASSUME NEW i \in 1 .. Len(s) + Len(t), i \notin 1 .. Len(s)
        PROVE  \E j \in 1 .. Len(t) : i = Len(s) + j
    <3>1. i - Len(s) \in 1 .. Len(t) /\ i = Len(s) + (i - Len(s))
      BY <1>1, <2>1
    <3>2. QED
      BY <3>1
  <2>2. QED
    BY <1>1, <2>1
<1>7. ToSet(s \o t) \subseteq ToSet(s) \cup ToSet(t)
  <2>1. ASSUME NEW i \in 1 .. Len(s) + Len(t) PROVE (s \o t)[i] \in ToSet(s) \cup ToSet(t)
    BY <1>2, <1>3, <1>5, <1>6
  <2>2. QED
    BY <1>4, <2>1
<1>8. ToSet(s) \cup ToSet(t) \subseteq ToSet(s \o t)
  <2>1. \A i \in 1 .. Len(s) : i \in 1 .. Len(s) + Len(t)
    BY <1>1
  <2>2. \A i \in 1 .. Len(t) : Len(s) + i \in 1 .. Len(s) + Len(t)
    BY <1>1
  <2>3. \A i \in 1 .. Len(s) : s[i] \in ToSet(s \o t)
    BY <1>2, <1>4, <2>1
  <2>4. \A i \in 1 .. Len(t) : t[i] \in ToSet(s \o t)
    BY <1>3, <1>4, <2>2
  <2>5. QED
    BY <1>5, <2>3, <2>4
<1>9. ASSUME Distinct(s), Distinct(t), ToSet(s) \cap ToSet(t) = {},
             NEW i \in 1 .. Len(s) + Len(t), NEW j \in 1 .. Len(s) + Len(t),
             (s \o t)[i] = (s \o t)[j]
      PROVE  i = j
  <2>1. DOMAIN s = 1 .. Len(s) /\ DOMAIN t = 1 .. Len(t)
    BY <1>1
  <2>2. \A k \in 1 .. Len(s), l \in 1 .. Len(t) : s[k] # t[l]
    BY <1>5, <1>9
  <2>3. \A k \in 1 .. Len(s) + Len(t) : k \in 1 .. Len(s) \/ \E l \in 1 .. Len(t) : k = Len(s) + l
    BY <1>6
  <2>4. CASE i \in 1 .. Len(s) /\ j \in 1 .. Len(s)
    BY <1>2, <1>9, <2>1, <2>4 DEF Distinct
  <2>5. CASE i \in 1 .. Len(s) /\ j \notin 1 .. Len(s)
    BY <1>2, <1>3, <1>9, <2>2, <2>3, <2>5
  <2>6. CASE i \notin 1 .. Len(s) /\ j \in 1 .. Len(s)
    BY <1>2, <1>3, <1>9, <2>2, <2>3, <2>6
  <2>7. CASE i \notin 1 .. Len(s) /\ j \notin 1 .. Len(s)
    <3>1. PICK k \in 1 .. Len(t), l \in 1 .. Len(t) : i = Len(s) + k /\ j = Len(s) + l
      BY <2>3, <2>7
    <3>2. t[k] = t[l]
      BY <1>3, <1>9, <3>1
    <3>3. QED
      BY <1>9, <2>1, <3>1, <3>2 DEF Distinct
  <2>8. QED
    BY <2>4, <2>5, <2>6, <2>7
<1>10. DOMAIN (s \o t) = 1 .. Len(s) + Len(t)
  BY <1>1
<1>11. QED
  BY <1>1, <1>7, <1>8, <1>9, <1>10 DEF Distinct

(* Listing a finite set gives each of its elements once. *)
LEMMA SetToSeqFacts ==
  ASSUME NEW S, IsFiniteSet(S)
  PROVE  SetToSeq(S) \in Seq(S) /\ ToSet(SetToSeq(S)) = S /\ Distinct(SetToSeq(S))
<1> DEFINE n == Cardinality(S)
<1>1. n \in Nat /\ ExistsBijection(1 .. n, S)
  BY FS_CardinalityType
<1>2. PICK g \in Bijection(1 .. n, S) : TRUE
  BY <1>1 DEF ExistsBijection
<1>3. g \in [1 .. n -> S] /\ IsInjective(g)
  BY <1>2 DEF Bijection, Injection, IsInjective
<1> DEFINE f == SetToSeq(S)
<1>4. f \in [1 .. n -> S] /\ IsInjective(f)
  BY <1>3 DEF SetToSeq
<1>5. f \in Injection(1 .. n, S)
  BY <1>4 DEF Injection, IsInjective
<1>6. IsFiniteSet(1 .. n) /\ Cardinality(1 .. n) = n
  BY <1>1, FS_Interval
<1>7. f \in Surjection(1 .. n, S)
  BY <1>5, <1>6, FS_Injection
<1>8. ToSet(f) = S
  BY <1>4, <1>7 DEF Surjection, ToSet
<1>9. Distinct(f)
  BY <1>4 DEF Distinct, IsInjective
<1>10. QED
  BY <1>1, <1>4, <1>8, <1>9

(* A list without repetitions has as many members as positions. *)
LEMMA DistinctCount ==
  ASSUME NEW S, NEW s \in Seq(S), Distinct(s)
  PROVE  IsFiniteSet(ToSet(s)) /\ Cardinality(ToSet(s)) = Len(s)
<1>1. Len(s) \in Nat /\ DOMAIN s = 1 .. Len(s) /\ s \in [1 .. Len(s) -> S]
  OBVIOUS
<1>2. s \in Surjection(1 .. Len(s), ToSet(s))
  BY <1>1 DEF Surjection, ToSet
<1>3. s \in Injection(1 .. Len(s), ToSet(s))
  BY <1>1, <1>2 DEF Injection, Surjection, IsInjective, Distinct
<1>4. IsFiniteSet(1 .. Len(s)) /\ Cardinality(1 .. Len(s)) = Len(s)
  BY <1>1, FS_Interval
<1>5. QED
  BY <1>2, <1>3, <1>4, FS_Surjection

(* A permutation of some names. *)
LEMMA PermutationFacts ==
  ASSUME NEW S, IsFiniteSet(S), NEW s \in SetToAllKPermutations(S)
  PROVE  s \in Seq(S) /\ Distinct(s)
<1>1. PICK T \in SUBSET S : s \in SetToSeqs(T)
  BY DEF SetToAllKPermutations
<1>2. Cardinality(T) \in Nat
  BY FS_Subset, FS_CardinalityType
<1>3. s \in [1 .. Cardinality(T) -> T] /\ Distinct(s)
  BY <1>1 DEF SetToSeqs, Distinct
<1>4. QED
  BY <1>2, <1>3

-----------------------------------------------------------------------------
(* The values of the file: what is accepted lacks at most what is unchecked. *)

(* An agent section that is accepted names a default agent that exists. *)
LEMMA AcceptedAgentsRun ==
  \A a \in RawAgents : AgentsAccepted(a) => AgentsRun(a)
BY DEF AgentsAccepted, AgentsRun

(* A repository that is accepted can be found: it has a path or a url. *)
LEMMA AcceptedRepositoryRuns ==
  \A r \in RawRepository : RepositoryAccepted(r) => RepositoryRuns(r)
<1> SUFFICES ASSUME NEW r \in RawRepository, RepositoryAccepted(r)
             PROVE  RepositoryRuns(r)
  OBVIOUS
<1>1. r.path \in {None, Bad, "path"} /\ r.url \in {None, Bad, "url"} /\ r.ref \in {None, Bad, "ref"}
  BY DEF RawRepository
<1>2. {k \in {"path", "url"} : r[k] # None} # {}
  <2>1. Cardinality({k \in {"path", "url"} : r[k] # None}) = 1
    BY DEF RepositoryAccepted
  <2>2. QED
    BY <2>1, FS_EmptySet
<1>3. r.path # None \/ r.url # None
  BY <1>2
<1>4. QED
  BY <1>1, <1>3 DEF RepositoryAccepted, RepositoryRuns

(* A context reference that is accepted can be resolved, but for its path  *)
(* and a current task; to be written it needs a directory besides.         *)
LEMMA AcceptedRefLacks ==
  ASSUME NEW r \in RawRef, RefAccepted(r), NEW current \in BOOLEAN
  PROVE  /\ RefLacks(r, current) \subseteq {"path", "task"}
         /\ WrittenLacks(r, current) \subseteq {"path", "task", "directory"}
<1>1. ~ (r.key # "reserved" \/ (r.scope # "task" /\ r.task # None))
  BY DEF RefAccepted
<1>2. RefLacks(r, current) \subseteq {"path", "task"}
  BY <1>1 DEF RefLacks, Lack
<1>3. QED
  BY <1>2 DEF WrittenLacks, Lack

(* A clause that is accepted compares a field of the signal with a value   *)
(* of the field's type.                                                    *)
LEMMA AcceptedWhenRuns ==
  \A w \in RawWhen : WhenAccepted(w) => WhenRuns(w)
<1> SUFFICES ASSUME NEW w \in RawWhen, WhenAccepted(w)
             PROVE  WhenRuns(w)
  OBVIOUS
<1>1. w.field \in DOMAIN Field \cup {Unknown}
  BY DEF RawWhen
<1>2. QED
  BY <1>1 DEF WhenAccepted, WhenRuns, Matcher

(* A git hook that is accepted has the arguments its command takes. *)
LEMMA AcceptedGitHookRuns ==
  \A h \in RawGitHook : GitHookAccepted(h) => GitHookRuns(h)
<1> SUFFICES ASSUME NEW h \in RawGitHook, GitHookAccepted(h)
             PROVE  GitHookRuns(h)
  OBVIOUS
<1>1. h.args \in Seq(Argument)
  <2>1. \A n \in 0 .. 3 : [1 .. n -> Argument] \subseteq Seq(Argument)
    OBVIOUS
  <2>2. \A n \in Argument : <<"key", "key", "number", n>> \in Seq(Argument)
    BY DEF Argument
  <2>3. <<"key", "key", "number", "number", "number">> \in Seq(Argument)
    BY DEF Argument
  <2> DEFINE A == UNION {[1 .. n -> Argument] : n \in 0 .. 3}
             B == {<<"key", "key", "number", n>> : n \in Argument}
             C == {<<"key", "key", "number", "number", "number">>}
  <2>4. RawGitHook =
          [kind : {"git"}, command : GitCommand \cup {Unknown}, args : A \cup B \cup C]
    BY DEF RawGitHook
  <2>5. A \subseteq Seq(Argument)
    BY <2>1
  <2>6. B \subseteq Seq(Argument)
    BY <2>2
  <2>7. C \subseteq Seq(Argument)
    BY <2>3
  <2> HIDE DEF A, B, C
  <2>8. h.args \in A \cup B \cup C
    BY <2>4
  <2>9. QED
    BY <2>5, <2>6, <2>7, <2>8
<1>2. DOMAIN h.args = 1 .. Len(h.args) /\ Len(h.args) \in Nat
  BY <1>1
<1>3. h.command \in TakesKey => DOMAIN h.args # {} /\ IsKey(h.args[1])
  <2>1. SUFFICES ASSUME h.command \in TakesKey
                 PROVE  DOMAIN h.args # {} /\ IsKey(h.args[1])
    OBVIOUS
  <2>2. Len(h.args) = 1 /\ IsKey(h.args[1])
    BY <2>1 DEF GitHookAccepted
  <2>3. QED
    BY <1>2, <2>2
<1>4. h.command = "pr-checks-wait" =>
       /\ {1, 2} \subseteq DOMAIN h.args
       /\ \A i \in {3, 4} \cap DOMAIN h.args : h.args[i] = "number"
  BY <1>2 DEF GitHookAccepted
<1>5. QED
  BY <1>3, <1>4 DEF GitHookAccepted, GitHookRuns

(* So has a validation hook. *)
LEMMA AcceptedValidateRuns ==
  \A h \in RawValidateHook : ValidateAccepted(h) => ValidateRuns(h)
<1> SUFFICES ASSUME NEW h \in RawValidateHook, ValidateAccepted(h)
             PROVE  ValidateRuns(h)
  OBVIOUS
<1>1. \A n \in DOMAIN h.args : h.args[n] \in ValidateArgument(n)
  BY DEF RawValidateHook
<1>2. CASE h.command = "github-pr"
  BY <1>2 DEF ValidateAccepted, ValidateRuns
<1>3. CASE h.command = "context-key"
  <2>1. "key" \in DOMAIN h.args /\ h.args["key"] # Bad
    BY <1>3 DEF ValidateAccepted
  <2>2. ValidateArgument("key") = {"good", Bad}
    BY DEF ValidateArgument
  <2>3. "scope" \in DOMAIN h.args => h.args["scope"] \in {"global", "execution", "execution/task"}
    BY <1>3 DEF ValidateAccepted
  <2>4. QED
    BY <1>1, <1>3, <2>1, <2>2, <2>3, SyntaxAssumption DEF ValidateRuns
<1>4. QED
  BY <1>2, <1>3 DEF ValidateAccepted

(* What a hook that is accepted may lack, whatever its kind. *)
OfHook == {"key", "signal", "git", "publish", "branch"}

LEMMA AcceptedHookLacks ==
  \A h \in RawHook : HookAccepted(h) => HookLacks(h) \subseteq OfHook
<1> SUFFICES ASSUME NEW h \in RawHook, HookAccepted(h)
             PROVE  HookLacks(h) \subseteq OfHook
  OBVIOUS
<1>1. CASE h \in RawGitHook
  <2>1. h.kind = "git"
    BY <1>1 DEF RawGitHook
  <2>2. GitHookRuns(h)
    BY <1>1, <2>1, AcceptedGitHookRuns DEF HookAccepted
  <2>3. HookLacks(h) = GitHookLacks(h)
    BY <2>1 DEF HookLacks
  <2>4. QED
    BY <2>2, <2>3 DEF GitHookLacks, Lack, OfHook
<1>2. CASE h \in RawValidateHook
  <2>1. h.kind = "validate"
    BY <1>2 DEF RawValidateHook
  <2>2. ValidateRuns(h)
    BY <1>2, <2>1, AcceptedValidateRuns DEF HookAccepted
  <2>3. HookLacks(h) = ValidateLacks(h)
    BY <2>1 DEF HookLacks
  <2>4. QED
    BY <2>2, <2>3 DEF ValidateLacks, Lack, OfHook
<1>3. CASE h \in RawSourceHook
  <2>1. h.kind = "source"
    BY <1>3 DEF RawSourceHook
  <2>2. h.name \in Source
    BY <2>1 DEF HookAccepted
  <2>3. QED
    BY <2>1, <2>2 DEF HookLacks, Lack
<1>4. CASE h \in [kind : {"shell", Bad}]
  <2>1. h.kind \in {"shell", Bad}
    BY <1>4
  <2>2. h.kind = "shell"
    BY <2>1, SyntaxAssumption DEF HookAccepted
  <2>3. QED
    BY <2>2 DEF HookLacks, Lack
<1>5. QED
  BY <1>1, <1>2, <1>3, <1>4 DEF RawHook

(* A git section that is accepted says in one way where the commit message *)
(* comes from.                                                             *)
LEMMA AcceptedGitRuns ==
  \A g \in RawGit : GitAccepted(g) => GitRuns(g)
<1> SUFFICES ASSUME NEW g \in RawGit, GitAccepted(g)
             PROVE  GitRuns(g)
  OBVIOUS
<1>1. g.commit \in SUBSET MessageSource /\ Cardinality(g.commit) = 1
  BY DEF RawGit, GitAccepted
<1>2. IsFiniteSet(MessageSource)
  <2>1. MessageSource = ({"message_source"} \cup {"message_key"}) \cup {"message_template"}
    BY DEF MessageSource
  <2>2. QED
    BY <2>1, FS_Singleton, FS_AddElement
<1>3. IsFiniteSet(g.commit)
  BY <1>1, <1>2, FS_Subset
<1>4. PICK x : g.commit = {x}
  BY <1>1, <1>3, FS_Singleton
<1>5. QED
  BY <1>4 DEF GitAccepted, GitRuns

(* So of every value accepted: the outcomes are sets of what is unchecked. *)
LEMMA SectionOutcomesKnown == SectionOutcomes \subseteq {{}}
BY AcceptedAgentsRun, AcceptedRepositoryRuns DEF SectionOutcomes, Outcomes, Lack, FieldAccepted

(* The same of a context reference. *)
LEMMA RefOutcomesKnown ==
  ASSUME NEW current \in BOOLEAN
  PROVE  RefOutcomes(current) \subseteq SUBSET {"path", "task"}
BY AcceptedRefLacks DEF RefOutcomes, Outcomes

(* The same of a condition. *)
LEMMA ConditionOutcomesKnown == ConditionOutcomes \subseteq SUBSET {"path", "task"}
<1>1. \A c \in RawCondition : c.ref \in RawRef
  BY DEF RawCondition
<1>2. QED
  BY <1>1, AcceptedRefLacks DEF ConditionOutcomes, Outcomes, ConditionAccepted

(* The same of a clause. *)
LEMMA WhenOutcomesKnown == WhenOutcomes \subseteq {{}}
BY AcceptedWhenRuns DEF WhenOutcomes, Outcomes, Lack

(* The same of a hook, also one of on_failure. *)
LEMMA HookOutcomesKnown ==
  /\ HookOutcomes \subseteq SUBSET Unchecked
  /\ FailureOutcomes \subseteq SUBSET Unchecked
<1>1. HookOutcomes \subseteq SUBSET OfHook
  BY AcceptedHookLacks DEF HookOutcomes, Outcomes
<1>2. OfHook \subseteq Unchecked /\ "handed" \in Unchecked
  BY DEF OfHook, Unchecked
<1>3. QED
  BY <1>1, <1>2 DEF FailureOutcomes

(* The same of a git section. *)
LEMMA GitOutcomesKnown == GitOutcomes \subseteq SUBSET Unchecked
<1>1. Outcomes(RawGit, GitAccepted, GitLacks) \subseteq SUBSET {"template"}
  BY AcceptedGitRuns DEF Outcomes, GitLacks, Lack
<1>2. ASSUME NEW current \in BOOLEAN
      PROVE  Outcomes(RawRef, RefAccepted, LAMBDA r : WrittenLacks(r, current))
               \subseteq SUBSET {"path", "task", "directory"}
  BY AcceptedRefLacks DEF Outcomes
<1>3. {"path", "task", "directory", "template"} \subseteq Unchecked
  BY DEF Unchecked
<1>4. \A current \in BOOLEAN : RefOutcomes(current) \subseteq SUBSET Unchecked
  BY <1>3, RefOutcomesKnown
<1> DEFINE Written(current) ==
             Outcomes(RawRef, RefAccepted, LAMBDA r : WrittenLacks(r, current))
<1>5. \A current \in BOOLEAN : Written(current) \subseteq SUBSET Unchecked
  BY <1>2, <1>3
<1>6. Outcomes(RawGit, GitAccepted, GitLacks) \subseteq SUBSET Unchecked
  BY <1>1, <1>3
<1>7. GitOutcomes = Outcomes(RawGit, GitAccepted, GitLacks)
                      \cup (UNION {RefOutcomes(current) : current \in BOOLEAN})
                      \cup (UNION {Written(current) : current \in BOOLEAN})
  BY DEF GitOutcomes
<1> HIDE DEF Written
<1>8. QED
  BY <1>4, <1>5, <1>6, <1>7

(* The same of what an execution adds to its sub-tasks. *)
LEMMA PartOutcomesKnown ==
  ASSUME NEW offers
  PROVE  PartOutcomes(offers) \subseteq SUBSET Unchecked
BY WhenOutcomesKnown, HookOutcomesKnown, GitOutcomesKnown DEF PartOutcomes

(* Accepting one of them leaves what is lacking known. *)
LEMMA AcceptKnown ==
  ASSUME LacksInv, NEW outcomes, outcomes \subseteq SUBSET Unchecked, Accept(outcomes),
         stage' \in {"includes", "routes"} => outcomes \subseteq {{}},
         stage' = "goto" => outcomes \subseteq SUBSET {"path", "task"}
  PROVE  LacksInv'
<1>1. needs' = needs /\ lacks' \in outcomes
  BY DEF Accept
<1>2. OfGit' = OfGit /\ Unchecked' = Unchecked
  BY DEF OfGit, Unchecked
<1>3. QED
  BY <1>1, <1>2 DEF LacksInv, LacksKnown

(* So does reading what nothing can be lacking of. *)
LEMMA NothingLacks ==
  ASSUME LacksInv, needs' = needs, lacks' = {}
  PROVE  LacksInv'
BY DEF LacksInv, LacksKnown, OfGit, Unchecked


(* The empty sequence. *)
LEMMA EmptyFacts ==
  /\ \A S : <<>> \in Seq(S)
  /\ Len(<<>>) = 0 /\ DOMAIN <<>> = {} /\ ToSet(<<>>) = {} /\ Distinct(<<>>)
BY DEF ToSet, Distinct

(* A sub-task of which nothing is read. *)
LEMMA BlankFacts ==
  /\ Blank \in Task /\ Blank.routes = <<>> /\ ~ Blank.waits /\ Blank.goto = None
  /\ ~ Blank.onFailure
BY EmptyFacts DEF Blank, Task

(* A file of which nothing is kept. *)
LEMMA NothingKept ==
  ASSUME names' = <<>>, deps' = <<>>, triggers' = <<>>, tasks' = <<>>, draft' = Blank,
         needs' = {}, lacks' = {}, stage' \in {"sections", "refused"}
  PROVE  ParseInv'
<1>1. NamesInv'
  BY EmptyFacts DEF NamesInv, Parsing, Distinct
<1>2. DepsInv'
  <2>1. DOMAIN deps' = {} /\ Len(names') = 0 /\ 1 .. 0 = {}
    BY EmptyFacts
  <2>2. IsFiniteSet(DOMAIN deps') /\ Cardinality(DOMAIN deps') = 0
    BY <2>1, FS_EmptySet
  <2>3. stage' \notin Parsing \cup {"triggers"} \cup Searched
    BY DEF Parsing, Searched
  <2>4. QED
    BY <2>1, <2>2, <2>3 DEF DepsInv
<1>3. DraftInv'
  BY BlankFacts DEF DraftInv, Parsing
<1>4. TasksInv'
  BY EmptyFacts DEF TasksInv
<1>5. TriggersInv'
  BY EmptyFacts DEF TriggersInv, ToSet
<1>6. LacksInv'
  BY DEF LacksInv, LacksKnown
<1>7. QED
  BY <1>1, <1>2, <1>3, <1>4, <1>5, <1>6 DEF ParseInv

(* The sequences in a stage that is not one of a sub-task. *)
LEMMA SameFile ==
  ASSUME ParseInv, UNCHANGED <<names, deps, triggers, draft, tasks>>, LacksInv',
         stage' = stage \/ (stage \in {"triggers"} \cup Searched /\ stage' \in Searched)
  PROVE  ParseInv'
<1>1. /\ names' = names /\ deps' = deps /\ triggers' = triggers
      /\ draft' = draft /\ tasks' = tasks
  OBVIOUS
<1>2. stage' = stage \/ (stage' \in Searched /\ stage \in {"triggers"} \cup Searched)
  OBVIOUS
<1>3. Searched \cap (Parsing \cup {"sections", "includes", "triggers"}) = {}
  BY DEF Searched, Parsing
<1>4. NamesInv'
  BY <1>1, <1>2, <1>3 DEF ParseInv, NamesInv, Distinct
<1>5. DepsInv'
  BY <1>1, <1>2, <1>3 DEF ParseInv, DepsInv, ToSet
<1>6. DraftInv'
  <2>1. DraftInv /\ Seen' = Seen
    BY <1>1 DEF ParseInv, Seen, ToSet
  <2>2. CASE stage' = stage
    BY <1>1, <2>1, <2>2 DEF DraftInv, TaskSound, ToSet
  <2>3. CASE stage' \in Searched
    BY <1>1, <2>1, <2>3 DEF DraftInv, Searched, Parsing
  <2>4. QED
    BY <1>2, <2>2, <2>3
<1>7. TasksInv'
  BY <1>1 DEF ParseInv, TasksInv, TaskSound, Earlier, ToSet
<1>8. TriggersInv'
  BY <1>1, <1>2, <1>3 DEF ParseInv, TriggersInv, ToSet
<1>9. QED
  BY <1>1, <1>4, <1>5, <1>6, <1>7, <1>8 DEF ParseInv

(* A refused file is left behind. *)
LEMMA RefuseStep ==
  ASSUME Refuse
  PROVE  ParseInv'
<1>1. /\ names' = <<>> /\ deps' = <<>> /\ triggers' = <<>> /\ tasks' = <<>> /\ draft' = Blank
      /\ needs' = {} /\ lacks' = {} /\ stage' = "refused"
  BY DEF Refuse
<1>2. QED
  BY <1>1, NothingKept

(* The sections before the executions. *)
LEMMA ReadSectionsStep ==
  ASSUME ParseInv, ReadSections
  PROVE  ParseInv'
<1>1. CASE Refuse
  BY <1>1, RefuseStep
<1>2. CASE /\ stage = "sections" /\ stage' = "includes" /\ Accept(SectionOutcomes)
           /\ UNCHANGED <<names, deps, triggers, draft, tasks, search>>
  <2>1. LacksInv'
    <3>1. LacksInv /\ SectionOutcomes \subseteq {{}}
      BY SectionOutcomesKnown DEF ParseInv
    <3>2. QED
      BY <1>2, <3>1, AcceptKnown
  <2>2. NamesInv'
    BY <1>2 DEF ParseInv, NamesInv, Distinct, Parsing
  <2>3. DepsInv'
    BY <1>2 DEF ParseInv, DepsInv, ToSet, Parsing, Searched
  <2>4. DraftInv'
    BY <1>2 DEF ParseInv, DraftInv, Parsing
  <2>5. TasksInv'
    BY <1>2 DEF ParseInv, TasksInv, TaskSound, Earlier, ToSet
  <2>6. TriggersInv'
    BY <1>2 DEF ParseInv, TriggersInv, ToSet
  <2>7. QED
    BY <2>1, <2>2, <2>3, <2>4, <2>5, <2>6 DEF ParseInv
<1>3. QED
  BY <1>1, <1>2 DEF ReadSections

(* Every execution of the file is listed once. *)
LEMMA MergedFacts ==
  ASSUME NEW incs \in SeqOf(RawInclude, MaxIncludes), IncludesAccepted(incs),
         NEW inline \in SetToAllKPermutations(Name)
  PROVE  /\ MergedNames(incs, inline) \in Seq(Name)
         /\ Distinct(MergedNames(incs, inline))
         /\ Included(incs) \cup ToSet(inline) # {} => MergedNames(incs, inline) # <<>>
<1> DEFINE I == Included(incs)
<1>1. I \subseteq Name
  <2>1. \A i \in DOMAIN incs : incs[i].file \in Contents
    <3>1. PICK m \in 0 .. MaxIncludes : incs \in [1 .. m -> RawInclude]
      BY DEF SeqOf
    <3>2. \A i \in DOMAIN incs : incs[i] \in RawInclude /\ incs[i].file # Bad
      BY <3>1 DEF IncludesAccepted, Rendered
    <3>3. QED
      BY <3>2 DEF RawInclude
  <2>2. \A c \in Contents : c.names \subseteq Name
    BY LoadingAssumption
  <2>3. QED
    BY <2>1, <2>2 DEF Included
<1>2. IsFiniteSet(Name) /\ IsFiniteSet(I)
  BY <1>1, LoadingAssumption, FS_Subset
<1>3. inline \in Seq(Name) /\ Distinct(inline)
  BY <1>2, PermutationFacts
<1>4. PICK a \in Seq(Name) : a = SetToSeq(I) /\ ToSet(a) = I /\ Distinct(a)
  BY <1>1, <1>2, SetToSeqFacts
<1>5. PICK b \in Seq(Name) :
        b = Keep(inline, Name \ I) /\ ToSet(b) = ToSet(inline) \cap (Name \ I) /\ Distinct(b)
  BY <1>3, KeepFacts
<1>6. MergedNames(incs, inline) = a \o b
  BY <1>4, <1>5 DEF MergedNames
<1>7. a \o b \in Seq(Name) /\ ToSet(a \o b) = ToSet(a) \cup ToSet(b) /\ Distinct(a \o b)
  BY <1>4, <1>5, Joined
<1>8. ASSUME I \cup ToSet(inline) # {}
      PROVE  a \o b # <<>>
  <2>1. ToSet(inline) \subseteq Name
    BY <1>3 DEF ToSet
  <2>2. ToSet(a \o b) # {}
    BY <1>4, <1>5, <1>7, <1>8, <2>1
  <2>3. QED
    BY <2>2, EmptyFacts
<1>9. QED
  BY <1>6, <1>7, <1>8

(* The includes and the executions the file writes itself. *)
LEMMA ReadIncludesStep ==
  ASSUME ParseInv, ReadIncludes
  PROVE  ParseInv'
<1>1. CASE Refuse
  BY <1>1, RefuseStep
<1>2. CASE ~ Refuse
  <2>1. PICK incs \in SeqOf(RawInclude, MaxIncludes), inline \in SetToAllKPermutations(Name) :
          /\ IncludesAccepted(incs) /\ Included(incs) \cup ToSet(inline) # {}
          /\ names' = MergedNames(incs, inline)
          /\ stage' = "head"
          /\ lacks' = {}
          /\ UNCHANGED <<deps, triggers, needs, draft, tasks, search>>
    BY <1>2 DEF ReadIncludes
  <2>2. names' \in Seq(Name) /\ Distinct(names') /\ names' # <<>>
    BY <2>1, MergedFacts
  <2>3. NamesInv'
    BY <2>2 DEF NamesInv, Distinct
  <2>4. DOMAIN deps = {} /\ deps' = deps /\ Len(names') \in Nat /\ Len(names') # 0
    BY <2>1, <2>2 DEF ReadIncludes, ParseInv, DepsInv
  <2>5. IsFiniteSet({}) /\ Cardinality({}) = 0 /\ 1 .. 0 = {}
    BY FS_EmptySet
  <2>6. DepsInv'
    BY <2>1, <2>4, <2>5 DEF DepsInv, Parsing, Searched
  <2>7. DraftInv'
    BY <2>1 DEF ParseInv, DraftInv, Parsing
  <2>8. TasksInv'
    BY <2>1 DEF ParseInv, TasksInv, TaskSound, Earlier, ToSet
  <2>9. TriggersInv'
    <3>1. triggers' = <<>>
      BY <2>1 DEF ReadIncludes, ParseInv, TriggersInv
    <3>2. QED
      BY <3>1, EmptyFacts DEF TriggersInv
  <2>10. LacksInv'
    BY <2>1, NothingLacks DEF ParseInv
  <2>11. QED
    BY <2>3, <2>6, <2>7, <2>8, <2>9, <2>10 DEF ParseInv
<1>3. QED
  BY <1>1, <1>2

(* A step that only reads on: the file and the sub-tasks stay. *)
LEMMA SameLists ==
  ASSUME ParseInv, UNCHANGED <<names, deps, triggers, tasks>>,
         stage \in Parsing, stage' \in Parsing
  PROVE  NamesInv' /\ DepsInv' /\ TasksInv' /\ TriggersInv' /\ Seen' = Seen
<1>1. stage' \notin {"sections", "includes", "triggers"} \cup Searched
  BY DEF Parsing, Searched
<1>2. NamesInv'
  BY DEF ParseInv, NamesInv, Distinct
<1>3. DepsInv'
  BY <1>1 DEF ParseInv, DepsInv, ToSet
<1>4. TasksInv'
  BY DEF ParseInv, TasksInv, TaskSound, Earlier, ToSet
<1>5. TriggersInv'
  BY DEF ParseInv, TriggersInv, ToSet
<1>6. Seen' = Seen
  BY DEF Seen, ToSet
<1>7. QED
  BY <1>2, <1>3, <1>4, <1>5, <1>6

(* The ids of the sub-tasks parsed. *)
LEMMA SeenFacts ==
  ASSUME tasks \in Seq(Task)
  PROVE  Seen = {tasks[j].id : j \in 1 .. Len(tasks)} /\ Seen \subseteq {None} \cup TaskId
<1>1. DOMAIN tasks = 1 .. Len(tasks) /\ \A j \in 1 .. Len(tasks) : tasks[j] \in Task
  OBVIOUS
<1>2. \A t \in Task : t.id \in {None} \cup TaskId
  BY DEF Task
<1>3. QED
  BY <1>1, <1>2 DEF Seen, ToSet

(* The first fields of a sub-task. *)
LEMMA ReadHeadStep ==
  ASSUME ParseInv, ReadHead
  PROVE  ParseInv'
<1>1. CASE Refuse
  BY <1>1, RefuseStep
<1>2. CASE ~ Refuse
  <2>1. PICK id \in TaskId, prompt \in BOOLEAN, gate \in BOOLEAN :
          /\ Accept(IF gate THEN ConditionOutcomes ELSE {{}})
          /\ draft' = [Blank EXCEPT !.id = id, !.prompt = prompt, !.gate = gate]
          /\ stage' = "goto"
          /\ UNCHANGED <<names, deps, triggers, tasks, search>>
    BY <1>2 DEF ReadHead
  <2>2. stage \in Parsing /\ stage' \in Parsing
    BY <2>1 DEF ReadHead, Parsing
  <2>3. NamesInv' /\ DepsInv' /\ TasksInv' /\ TriggersInv'
    BY <2>1, <2>2, SameLists
  <2>4. LacksInv'
    <3>1. (IF gate THEN ConditionOutcomes ELSE {{}}) \subseteq SUBSET {"path", "task"}
      BY ConditionOutcomesKnown
    <3>2. {"path", "task"} \subseteq Unchecked /\ LacksInv
      BY DEF Unchecked, ParseInv
    <3>3. QED
      BY <2>1, <3>1, <3>2, AcceptKnown
  <2>5. /\ draft' \in Task /\ draft'.routes = <<>> /\ ~ draft'.waits /\ draft'.goto = None
        /\ ~ draft'.onFailure
    BY <2>1, BlankFacts DEF Task
  <2>6. TaskSound(draft', Seen')
    BY <2>5, EmptyFacts DEF TaskSound
  <2>7. DraftInv'
    BY <2>1, <2>5, <2>6 DEF DraftInv, Parsing
  <2>8. QED
    BY <2>3, <2>4, <2>7 DEF ParseInv
<1>3. QED
  BY <1>1, <1>2

(* Its goto: to a sub-task before it, under a condition. *)
LEMMA ReadGotoStep ==
  ASSUME ParseInv, ReadGoto
  PROVE  ParseInv'
<1>1. CASE Refuse
  BY <1>1, RefuseStep
<1>2. CASE ~ Refuse
  <2>1. PICK goto \in {None, Bad} \cup TaskId :
          /\ goto # None => goto \in Seen /\ draft.gate
          /\ draft' = [draft EXCEPT !.goto = goto]
          /\ stage' = "wait"
          /\ lacks' = {}
          /\ UNCHANGED <<names, deps, triggers, needs, tasks, search>>
    BY <1>2 DEF ReadGoto
  <2>2. stage = "goto" /\ stage \in Parsing /\ stage' \in Parsing
    BY <2>1 DEF ReadGoto, Parsing
  <2>3. NamesInv' /\ DepsInv' /\ TasksInv' /\ TriggersInv' /\ Seen' = Seen
    BY <2>1, <2>2, SameLists
  <2>4. draft \in Task /\ ~ draft.waits /\ draft.routes = <<>>
    BY <2>2 DEF ParseInv, DraftInv
  <2>5. ~ draft.onFailure
    BY <2>2 DEF ParseInv, DraftInv
  <2>6. goto \in {None} \cup TaskId
    <3>1. Seen \subseteq {None} \cup TaskId
      BY SeenFacts DEF ParseInv, TasksInv
    <3>2. QED
      BY <2>1, <3>1
  <2>7. /\ draft' \in Task /\ draft'.routes = <<>> /\ ~ draft'.waits /\ ~ draft'.onFailure
        /\ draft'.goto = goto /\ draft'.gate = draft.gate
    BY <2>1, <2>4, <2>5, <2>6 DEF Task
  <2>8. TaskSound(draft', Seen')
    BY <2>1, <2>3, <2>7, EmptyFacts DEF TaskSound
  <2>9. DraftInv'
    BY <2>1, <2>7, <2>8 DEF DraftInv, Parsing
  <2>10. LacksInv'
    BY <2>1, NothingLacks DEF ParseInv
  <2>11. QED
    BY <2>3, <2>9, <2>10 DEF ParseInv
<1>3. QED
  BY <1>1, <1>2

(* Its wait, which excludes the other fields. *)
LEMMA ReadWaitStep ==
  ASSUME ParseInv, ReadWait
  PROVE  ParseInv'
<1>1. CASE Refuse
  BY <1>1, RefuseStep
<1>2. CASE ~ Refuse
  <2>1. PICK wait \in {None, Bad, "signal"}, routes \in BOOLEAN, onFailure \in BOOLEAN :
          /\ \/ wait = None /\ ~ routes
             \/ wait = "signal" /\ routes /\ draft.goto = None /\ ~ draft.prompt /\ ~ onFailure
          /\ draft' = [draft EXCEPT !.waits = wait # None, !.onFailure = onFailure]
          /\ stage' = IF wait = None THEN "rest" ELSE "routes"
          /\ lacks' = {}
          /\ UNCHANGED <<names, deps, triggers, needs, tasks, search>>
    BY <1>2 DEF ReadWait
  <2>2. stage = "wait" /\ stage \in Parsing /\ stage' \in Parsing
    BY <2>1 DEF ReadWait, Parsing
  <2>3. NamesInv' /\ DepsInv' /\ TasksInv' /\ TriggersInv' /\ Seen' = Seen
    BY <2>1, <2>2, SameLists
  <2>4. draft \in Task /\ ~ draft.waits /\ draft.routes = <<>> /\ TaskSound(draft, Seen)
    BY <2>2 DEF ParseInv, DraftInv, Parsing
  <2>5. PICK w \in BOOLEAN : w = (wait # None)
    OBVIOUS
  <2>6. /\ draft' \in Task /\ draft'.routes = <<>> /\ (draft'.waits <=> wait # None)
        /\ draft'.onFailure = onFailure /\ draft'.goto = draft.goto /\ draft'.gate = draft.gate
        /\ draft'.prompt = draft.prompt
    BY <2>1, <2>4, <2>5 DEF Task
  <2>7. TaskSound(draft', Seen')
    BY <2>1, <2>3, <2>4, <2>6, EmptyFacts DEF TaskSound
  <2>8. DraftInv'
    BY <2>1, <2>6, <2>7 DEF DraftInv, Parsing
  <2>9. LacksInv'
    BY <2>1, NothingLacks DEF ParseInv
  <2>10. QED
    BY <2>3, <2>8, <2>9 DEF ParseInv
<1>3. QED
  BY <1>1, <1>2

(* A route read is one of the routes. *)
LEMMA MakeRoute ==
  ASSUME NEW goto \in {None} \cup TaskId, NEW continue \in BOOLEAN
  PROVE  \E r \in Route : /\ r = [goto |-> goto, continue |-> continue]
                          /\ r.goto = goto /\ r.continue = continue
<1> DEFINE r == [goto |-> goto, continue |-> continue]
<1>1. r \in Route
  BY DEF Route
<1>2. r.goto = goto /\ r.continue = continue
  OBVIOUS
<1>3. QED
  BY <1>1, <1>2

(* A route continues, or goes to a sub-task before. *)
LEMMA ReadRouteStep ==
  ASSUME ParseInv, ReadRoute
  PROVE  ParseInv'
<1>1. CASE Refuse
  BY <1>1, RefuseStep
<1>2. CASE ~ Refuse
  <2>1. PICK goto \in {None, Bad} \cup TaskId, continue \in {Bad} \cup BOOLEAN :
          /\ (goto = None /\ continue = TRUE) \/ (goto \in Seen /\ continue = FALSE)
          /\ Accept(WhenOutcomes)
          /\ draft' = [draft EXCEPT !.routes = Append(@, [goto |-> goto, continue |-> continue])]
          /\ UNCHANGED <<stage, names, deps, triggers, tasks, search>>
    BY <1>2 DEF ReadRoute
  <2>2. stage = "routes" /\ stage \in Parsing /\ stage' = stage
    BY <2>1 DEF ReadRoute, Parsing
  <2>3. NamesInv' /\ DepsInv' /\ TasksInv' /\ TriggersInv' /\ Seen' = Seen
    BY <2>1, <2>2, SameLists
  <2>4. draft \in Task /\ draft.waits /\ TaskSound(draft, Seen)
    BY <2>2 DEF ParseInv, DraftInv, Parsing
  <2>5. PICK r \in Route : /\ r = [goto |-> goto, continue |-> continue]
                           /\ IF r.continue THEN r.goto = None ELSE r.goto \in Seen
    <3>1. Seen \subseteq {None} \cup TaskId
      BY SeenFacts DEF ParseInv, TasksInv
    <3>2. goto \in {None} \cup TaskId /\ continue \in BOOLEAN
      BY <2>1, <3>1
    <3>3. PICK r \in Route : /\ r = [goto |-> goto, continue |-> continue]
                             /\ r.goto = goto /\ r.continue = continue
      BY <3>2, MakeRoute
    <3>4. QED
      BY <2>1, <3>3
  <2>6. PICK rs \in Seq(Route) : rs = Append(draft.routes, r) /\ ToSet(rs) = ToSet(draft.routes) \cup {r}
    <3>1. draft.routes \in Seq(Route)
      BY <2>4 DEF Task
    <3>2. QED
      BY <3>1, OneMore
  <2>7. /\ draft' \in Task /\ draft'.routes = rs /\ draft'.waits = draft.waits
        /\ draft'.onFailure = draft.onFailure /\ draft'.goto = draft.goto
        /\ draft'.gate = draft.gate /\ draft'.prompt = draft.prompt
    BY <2>1, <2>4, <2>5, <2>6 DEF Task
  <2>8. TaskSound(draft', Seen')
    BY <2>3, <2>4, <2>5, <2>6, <2>7 DEF TaskSound
  <2>9. DraftInv'
    BY <2>2, <2>4, <2>7, <2>8 DEF DraftInv, Parsing
  <2>10. LacksInv'
    <3>1. LacksInv /\ WhenOutcomes \subseteq {{}}
      BY WhenOutcomesKnown DEF ParseInv
    <3>2. QED
      BY <2>1, <3>1, AcceptKnown
  <2>11. QED
    BY <2>3, <2>9, <2>10 DEF ParseInv
<1>3. QED
  BY <1>1, <1>2

(* A wait has a route at least. *)
LEMMA RoutesReadStep ==
  ASSUME ParseInv, RoutesRead
  PROVE  ParseInv'
<1>1. /\ stage = "routes" /\ stage' = "rest" /\ draft.routes # <<>> /\ draft' = draft
      /\ UNCHANGED <<names, deps, triggers, needs, tasks>> /\ lacks' = {}
  BY DEF RoutesRead
<1>2. NamesInv' /\ DepsInv' /\ TasksInv' /\ TriggersInv' /\ Seen' = Seen
  BY <1>1, SameLists DEF Parsing
<1>3. DraftInv'
  BY <1>1, <1>2 DEF ParseInv, DraftInv, Parsing, TaskSound
<1>4. LacksInv'
  BY <1>1, NothingLacks DEF ParseInv
<1>5. QED
  BY <1>2, <1>3, <1>4 DEF ParseInv

(* The rest of a sub-task, which joins those parsed. *)
LEMMA ReadRestStep ==
  ASSUME ParseInv, ReadRest
  PROVE  ParseInv'
<1>1. CASE Refuse
  BY <1>1, RefuseStep
<1>2. CASE ~ Refuse
  <2>1. PICK mustSet \in BOOLEAN :
          /\ mustSet => ~ draft.waits
          /\ draft.id \notin Seen
          /\ \E o \in HookOutcomes
                  \cup (IF mustSet THEN RefOutcomes(TRUE) ELSE {})
                  \cup (IF draft.onFailure /\ (draft.prompt \/ mustSet)
                        THEN FailureOutcomes ELSE {}) :
               /\ needs' = needs \cup (o \cap OfGit)
               /\ lacks' = o \ OfGit
          /\ tasks' = Append(tasks, draft)
          /\ draft' = Blank
          /\ stage' = "head"
          /\ UNCHANGED <<names, deps, triggers, search>>
    BY <1>2 DEF ReadRest
  <2>2. stage = "rest" /\ stage \in Parsing /\ stage' = "head"
    BY <2>1 DEF ReadRest, Parsing
  <2>3. PICK o \in HookOutcomes \cup RefOutcomes(TRUE) \cup FailureOutcomes :
          needs' = needs \cup (o \cap OfGit) /\ lacks' = o \ OfGit
    BY <2>1
  <2>4. LacksInv'
    <3>1. o \subseteq Unchecked
      <4>1. RefOutcomes(TRUE) \subseteq SUBSET {"path", "task"}
        BY RefOutcomesKnown
      <4>2. {"path", "task"} \subseteq Unchecked
        BY DEF Unchecked
      <4>3. QED
        BY <4>1, <4>2, HookOutcomesKnown
    <3>2. LacksInv /\ OfGit' = OfGit /\ Unchecked' = Unchecked
      BY DEF ParseInv, OfGit, Unchecked
    <3>3. QED
      BY <2>2, <2>3, <3>1, <3>2 DEF LacksInv, LacksKnown
  <2>5. /\ draft \in Task /\ TaskSound(draft, Seen) /\ (draft.waits <=> draft.routes # <<>>)
        /\ tasks \in Seq(Task)
    BY <2>2 DEF ParseInv, DraftInv, TasksInv, Parsing
  <2>6. NamesInv' /\ DepsInv' /\ TriggersInv'
    BY <2>1, <2>2 DEF ParseInv, NamesInv, DepsInv, TriggersInv, Parsing, Searched, Distinct, ToSet
  <2>7. DraftInv'
    BY <2>1, BlankFacts DEF DraftInv, Parsing
  <2>8. /\ tasks' \in Seq(Task) /\ Len(tasks') = Len(tasks) + 1 /\ Len(tasks) \in Nat
        /\ tasks'[Len(tasks) + 1] = draft
        /\ \A i \in 1 .. Len(tasks) : tasks'[i] = tasks[i]
    BY <2>1, <2>5
  <2>9. ASSUME NEW i \in 1 .. Len(tasks) + 1
        PROVE  Earlier(i)' = {tasks[j].id : j \in 1 .. i - 1}
    <3>1. \A j \in 1 .. i - 1 : tasks'[j] = tasks[j]
      BY <2>8
    <3>2. QED
      BY <3>1 DEF Earlier
  <2>10. ASSUME NEW i \in 1 .. Len(tasks)
         PROVE  /\ tasks'[i].id \notin Earlier(i)'
                /\ TaskSound(tasks'[i], Earlier(i)')
                /\ (tasks'[i].waits <=> tasks'[i].routes # <<>>)
    <3>1. Earlier(i)' = Earlier(i) /\ tasks'[i] = tasks[i]
      BY <2>8, <2>9 DEF Earlier
    <3>2. /\ tasks[i].id \notin Earlier(i)
          /\ TaskSound(tasks[i], Earlier(i))
          /\ (tasks[i].waits <=> tasks[i].routes # <<>>)
      BY DEF ParseInv, TasksInv
    <3>3. TaskSound(tasks'[i], Earlier(i)')
      BY <3>1, <3>2, Zenon
    <3>4. QED
      BY <3>1, <3>2, <3>3
  <2>11. ASSUME NEW i, i = Len(tasks) + 1
         PROVE  Earlier(i)' = Seen
    <3>1. i \in 1 .. Len(tasks) + 1 /\ i - 1 = Len(tasks)
      BY <2>8, <2>11
    <3>2. Earlier(i)' = {tasks[j].id : j \in 1 .. i - 1}
      BY <2>9, <3>1
    <3>3. QED
      BY <2>5, <3>1, <3>2, SeenFacts
  <2>12. TasksInv'
    <3>1. ASSUME NEW i \in 1 .. Len(tasks) + 1
          PROVE  /\ tasks'[i].id \notin Earlier(i)'
                 /\ TaskSound(tasks'[i], Earlier(i)')
                 /\ (tasks'[i].waits <=> tasks'[i].routes # <<>>)
      <4>1. CASE i \in 1 .. Len(tasks)
        BY <2>10, <4>1
      <4>2. CASE i = Len(tasks) + 1
        BY <2>1, <2>5, <2>8, <2>11, <4>2
      <4>3. QED
        BY <2>8, <4>1, <4>2
    <3>2. QED
      BY <2>8, <3>1 DEF TasksInv
  <2>13. QED
    BY <2>4, <2>6, <2>7, <2>12 DEF ParseInv
<1>3. QED
  BY <1>1, <1>2

(* The execution being parsed is none of those parsed. *)
LEMMA CurrentFacts ==
  ASSUME ParseInv, stage \in Parsing
  PROVE  /\ Cardinality(DOMAIN deps) \in Nat
         /\ Cardinality(DOMAIN deps) + 1 \in 1 .. Len(names)
         /\ Current \in ToSet(names) /\ Current \notin DOMAIN deps
         /\ DOMAIN deps \cup {Current} = {names[i] : i \in 1 .. Cardinality(DOMAIN deps) + 1}
<1> DEFINE n == Cardinality(DOMAIN deps)
<1>1. /\ n \in Nat /\ n < Len(names) /\ DOMAIN deps = {names[i] : i \in 1 .. n}
      /\ DOMAIN names = 1 .. Len(names) /\ Len(names) \in Nat /\ Distinct(names)
  BY FS_CardinalityType DEF ParseInv, DepsInv, NamesInv
<1>2. Current = names[n + 1]
  BY DEF Current, Position
<1> HIDE DEF n
<1>3. n + 1 \in 1 .. Len(names)
  BY <1>1
<1>4. Current \in ToSet(names)
  BY <1>1, <1>2, <1>3 DEF ToSet
<1>5. ASSUME Current \in DOMAIN deps PROVE FALSE
  <2>1. PICK i \in 1 .. n : names[i] = names[n + 1]
    BY <1>1, <1>2, <1>5
  <2>2. i \in 1 .. Len(names) /\ i # n + 1
    BY <1>1
  <2>3. QED
    BY <1>1, <1>3, <2>1, <2>2 DEF Distinct
<1>6. 1 .. n + 1 = (1 .. n) \cup {n + 1}
  BY <1>1
<1>7. DOMAIN deps \cup {Current} = {names[i] : i \in 1 .. n + 1}
  BY <1>1, <1>2, <1>6
<1>8. QED
  BY <1>1, <1>3, <1>4, <1>5, <1>7 DEF n

(* The rest of an execution, which joins those parsed. *)
LEMMA ReadExecutionStep ==
  ASSUME ParseInv, ReadExecution
  PROVE  ParseInv'
<1>1. CASE Refuse
  BY <1>1, RefuseStep
<1>2. CASE ~ Refuse
  <2>1. PICK on \in {None} \cup SeqOf(Name \cup {Bad}, Cardinality(Name) - 1) :
          /\ on # None => ToSet(on) \subseteq ToSet(names) \ {Current}
          /\ lacks' \in UNION {{(needs \cup o) \ offers : o \in PartOutcomes(offers)} :
                                offers \in {{}} \cup GitOffers}
          /\ needs' = {}
          /\ deps' = [e \in DOMAIN deps \cup {Current} |->
                        IF e # Current THEN deps[e]
                        ELSE IF on = None THEN {} ELSE ToSet(on)]
          /\ tasks' = <<>>
          /\ stage' = IF Cardinality(DOMAIN deps) + 1 = Len(names) THEN "triggers" ELSE "head"
          /\ UNCHANGED <<names, triggers, draft, search>>
    BY <1>2 DEF ReadExecution, Position
  <2>2. stage = "head" /\ stage \in Parsing
    BY DEF ReadExecution, Parsing
  <2> DEFINE n == Cardinality(DOMAIN deps)
             waited == IF on = None THEN {} ELSE ToSet(on)
  <2>3. /\ n \in Nat /\ n + 1 \in 1 .. Len(names) /\ Current \in ToSet(names)
        /\ Current \notin DOMAIN deps
        /\ DOMAIN deps \cup {Current} = {names[i] : i \in 1 .. n + 1}
    BY <2>2, CurrentFacts
  <2>4. waited \subseteq ToSet(names)
    BY <2>1
  <2>5. /\ DOMAIN deps' = DOMAIN deps \cup {Current}
        /\ deps'[Current] = waited
        /\ \A e \in DOMAIN deps : deps'[e] = deps[e]
    BY <2>1, <2>3
  <2>6. IsFiniteSet(DOMAIN deps') /\ Cardinality(DOMAIN deps') = n + 1
    <3>1. IsFiniteSet(DOMAIN deps)
      BY DEF ParseInv, DepsInv
    <3>2. IsFiniteSet(DOMAIN deps \cup {Current}) /\ Cardinality(DOMAIN deps \cup {Current}) = n + 1
      BY <2>3, <3>1, FS_AddElement
    <3>3. QED
      BY <2>5, <3>2
  <2> HIDE DEF n, waited
  <2>7. names' = names /\ names \in Seq(Name) /\ Len(names) \in Nat
    BY <2>1 DEF ParseInv, NamesInv
  <2>8. stage' = IF n + 1 = Len(names) THEN "triggers" ELSE "head"
    BY <2>1 DEF n
  <2>9. \A e \in DOMAIN deps' : deps'[e] \subseteq ToSet(names)
    BY <2>4, <2>5 DEF ParseInv, DepsInv
  <2>10. ToSet(names) = {names[i] : i \in 1 .. Len(names)}
    BY <2>7 DEF ToSet
  <2>11. DepsInv'
    <3>1. ToSet(names)' = ToSet(names)
      BY <2>7 DEF ToSet
    <3>2. /\ IsFiniteSet(DOMAIN deps')
          /\ DOMAIN deps' = {names'[i] : i \in 1 .. Cardinality(DOMAIN deps')}
          /\ Cardinality(DOMAIN deps') <= Len(names')
          /\ \A e \in DOMAIN deps' : deps'[e] \subseteq ToSet(names)'
      <4>1. DOMAIN deps' = {names[i] : i \in 1 .. Cardinality(DOMAIN deps')}
        BY <2>3, <2>5, <2>6
      <4>2. Cardinality(DOMAIN deps') <= Len(names)
        BY <2>3, <2>6
      <4>3. QED
        BY <2>6, <2>7, <2>9, <3>1, <4>1, <4>2
    <3>3. stage' \notin {"sections", "includes"} \cup Searched
      BY <2>8 DEF Searched
    <3>4. stage' \in Parsing => Cardinality(DOMAIN deps') < Len(names')
      BY <2>3, <2>6, <2>7, <2>8 DEF Parsing
    <3>5. stage' = "triggers" => DOMAIN deps' = ToSet(names)'
      BY <2>3, <2>5, <2>6, <2>7, <2>8, <2>10, <3>1
    <3>6. QED
      BY <3>2, <3>3, <3>4, <3>5 DEF DepsInv
  <2>12. NamesInv'
    <3>1. names # <<>>
      BY <2>2 DEF ParseInv, NamesInv
    <3>2. QED
      BY <2>7, <3>1 DEF ParseInv, NamesInv, Distinct
  <2>13. DraftInv'
    BY <2>1, <2>8 DEF ParseInv, DraftInv, Parsing
  <2>14. TasksInv'
    BY <2>1, EmptyFacts DEF TasksInv
  <2>15. TriggersInv'
    BY <2>1, <2>2 DEF ParseInv, TriggersInv, ToSet
  <2>16. LacksInv'
    <3>1. PICK offers \in {{}} \cup GitOffers :
            \E o \in PartOutcomes(offers) : lacks' = (needs \cup o) \ offers
      BY <2>1
    <3>7. PICK o \in PartOutcomes(offers) : lacks' = (needs \cup o) \ offers
      BY <3>1
    <3>2. o \subseteq Unchecked
      BY PartOutcomesKnown
    <3>3. needs \subseteq Unchecked
      BY DEF ParseInv, LacksInv, OfGit, Unchecked
    <3>4. lacks' \subseteq Unchecked /\ needs' = {} /\ Unchecked' = Unchecked
      BY <2>1, <3>7, <3>2, <3>3 DEF Unchecked
    <3>5. stage' \notin {"includes", "routes", "goto"}
      BY <2>8
    <3>6. QED
      BY <3>4, <3>5 DEF LacksInv, LacksKnown
  <2>17. QED
    BY <2>11, <2>12, <2>13, <2>14, <2>15, <2>16 DEF ParseInv
<1>3. QED
  BY <1>1, <1>2

(* A trigger names two executions of the file. *)
LEMMA ReadTriggerStep ==
  ASSUME ParseInv, ReadTrigger
  PROVE  ParseInv'
<1>1. CASE Refuse
  BY <1>1, RefuseStep
<1>2. CASE ~ Refuse
  <2>1. PICK after \in Name \cup {Bad}, run \in Name \cup {Bad} :
          /\ {after, run} \subseteq ToSet(names)
          /\ Accept(ConditionOutcomes \cup WhenOutcomes)
          /\ triggers' = Append(triggers, [after |-> after, run |-> run])
          /\ UNCHANGED <<stage, names, deps, draft, tasks, search>>
    BY <1>2 DEF ReadTrigger
  <2>2. stage = "triggers" /\ stage' = "triggers" /\ names' = names /\ deps' = deps
        /\ draft' = draft /\ tasks' = tasks
    BY <2>1 DEF ReadTrigger
  <2>3. ToSet(names) \subseteq Name
    BY DEF ParseInv, NamesInv, ToSet
  <2>4. PICK t \in Trigger : t = [after |-> after, run |-> run] /\ t.after = after /\ t.run = run
    <3> DEFINE t == [after |-> after, run |-> run]
    <3>1. t \in Trigger
      BY <2>1, <2>3 DEF Trigger
    <3>2. t.after = after /\ t.run = run
      OBVIOUS
    <3>3. QED
      BY <3>1, <3>2
  <2>5. triggers' \in Seq(Trigger) /\ ToSet(triggers') = ToSet(triggers) \cup {t}
    BY <2>1, <2>4, OneMore DEF ParseInv, TriggersInv
  <2>6. TriggersInv'
    BY <2>1, <2>2, <2>4, <2>5 DEF ParseInv, TriggersInv, Parsing
  <2>7. NamesInv' /\ DepsInv'
    <3>1. NamesInv'
      BY <2>2 DEF ParseInv, NamesInv, Distinct
    <3>2. DepsInv
      BY DEF ParseInv
    <3>3. ToSet(names)' = ToSet(names)
      BY <2>2 DEF ToSet
    <3>4. /\ IsFiniteSet(DOMAIN deps')
          /\ DOMAIN deps' = {names'[i] : i \in 1 .. Cardinality(DOMAIN deps')}
          /\ Cardinality(DOMAIN deps') <= Len(names')
          /\ \A e \in DOMAIN deps' : deps'[e] \subseteq ToSet(names)'
          /\ DOMAIN deps' = ToSet(names)'
      BY <2>2, <3>2, <3>3 DEF DepsInv
    <3>5. stage' \notin {"sections", "includes"} \cup Parsing
      BY <2>2 DEF Parsing
    <3>6. DepsInv'
      BY <3>4, <3>5 DEF DepsInv
    <3>7. QED
      BY <3>1, <3>6
  <2>8. DraftInv'
    BY <2>2 DEF ParseInv, DraftInv, Parsing
  <2>9. TasksInv'
    BY <2>2 DEF ParseInv, TasksInv, TaskSound, Earlier, ToSet
  <2>10. LacksInv'
    <3>1. ConditionOutcomes \cup WhenOutcomes \subseteq SUBSET Unchecked
      BY ConditionOutcomesKnown, WhenOutcomesKnown DEF Unchecked
    <3>2. LacksInv
      BY DEF ParseInv
    <3>3. QED
      BY <2>1, <2>2, <3>1, <3>2, AcceptKnown
  <2>11. QED
    BY <2>6, <2>7, <2>8, <2>9, <2>10 DEF ParseInv
<1>3. QED
  BY <1>1, <1>2

(* Nothing is read at first. *)
LEMMA ParseInit ==
  ASSUME Init
  PROVE  ParseInv
<1>1. /\ names = <<>> /\ deps = <<>> /\ triggers = <<>> /\ tasks = <<>> /\ draft = Blank
      /\ needs = {} /\ lacks = {} /\ stage = "sections"
  BY DEF Init
<1>2. NamesInv
  BY <1>1, EmptyFacts DEF NamesInv, Parsing, Distinct
<1>3. DepsInv
  <2>1. DOMAIN deps = {} /\ Len(names) = 0 /\ 1 .. 0 = {}
    BY <1>1, EmptyFacts
  <2>2. IsFiniteSet(DOMAIN deps) /\ Cardinality(DOMAIN deps) = 0
    BY <2>1, FS_EmptySet
  <2>3. stage \notin Parsing \cup {"triggers"} \cup Searched
    BY <1>1 DEF Parsing, Searched
  <2>4. QED
    BY <2>1, <2>2, <2>3 DEF DepsInv
<1>4. DraftInv
  BY <1>1, BlankFacts DEF DraftInv, Parsing
<1>5. TasksInv
  BY <1>1, EmptyFacts DEF TasksInv
<1>6. TriggersInv
  BY <1>1, EmptyFacts DEF TriggersInv, ToSet
<1>7. LacksInv
  BY <1>1 DEF LacksInv, LacksKnown
<1>8. QED
  BY <1>2, <1>3, <1>4, <1>5, <1>6, <1>7 DEF ParseInv

(* Every step keeps what holds of the parsed file. *)
LEMMA ParseStep ==
  ASSUME ParseInv, [Next]_vars
  PROVE  ParseInv'
<1>1. CASE BeginSearch \/ VisitRoot \/ PassOver \/ Visit \/ ReportCycle \/ Leave
  <2>1. /\ UNCHANGED <<names, deps, triggers, needs, draft, tasks>>
        /\ lacks' \in {lacks, {}}
        /\ stage' = stage \/ (stage \in {"triggers"} \cup Searched /\ stage' \in Searched)
    <3>1. CASE BeginSearch
      BY <3>1 DEF BeginSearch, Searched
    <3>2. CASE VisitRoot
      BY <3>2 DEF VisitRoot, Searched, file
    <3>3. CASE PassOver
      BY <3>3 DEF PassOver, file
    <3>4. CASE Visit
      BY <3>4 DEF Visit, file
    <3>5. CASE ReportCycle
      BY <3>5 DEF ReportCycle, Searching, Searched, file
    <3>6. CASE Leave
      BY <3>6 DEF Leave, file
    <3>7. QED
      BY <1>1, <3>1, <3>2, <3>3, <3>4, <3>5, <3>6
  <2>2. stage' \notin {"includes", "routes", "goto"} \/ stage' = stage
    BY <2>1 DEF Searched
  <2>3. LacksInv'
    BY <2>1, <2>2 DEF ParseInv, LacksInv, LacksKnown, OfGit, Unchecked
  <2>4. QED
    BY <2>1, <2>3, SameFile
<1>2. CASE UNCHANGED vars
  <2>1. LacksInv'
    BY <1>2 DEF vars, file, ParseInv, LacksInv, LacksKnown, OfGit, Unchecked
  <2>2. QED
    BY <1>2, <2>1, SameFile DEF vars, file
<1>3. QED
  BY <1>1, <1>2, ReadSectionsStep, ReadIncludesStep, ReadHeadStep, ReadGotoStep,
     ReadWaitStep, ReadRouteStep, RoutesReadStep, ReadRestStep, ReadExecutionStep,
     ReadTriggerStep DEF Next

(* What the parser accepts, the runtime can execute, but for what is in    *)
(* Unchecked: no execution, sub-task, route, clause, hook or trigger of a  *)
(* file that passed parse_execution names something that is missing or has *)
(* a form the runtime raises on for any other reason.                      *)
THEOREM AcceptedRuns == Spec => []AcceptedIsRunnable
<1>1. ASSUME ParseInv PROVE AcceptedIsRunnable
  <2>1. /\ tasks \in Seq(Task) /\ DOMAIN tasks = 1 .. Len(tasks)
        /\ names \in Seq(Name) /\ Distinct(names)
    BY <1>1 DEF ParseInv, TasksInv, NamesInv
  <2>2. ASSUME NEW i \in DOMAIN tasks, NEW id
        PROVE  LeadsBack(i, id) <=> id \in Earlier(i)
    BY DEF LeadsBack, Earlier
  <2>3. ASSUME NEW i \in DOMAIN tasks
        PROVE
         /\ ~ LeadsBack(i, tasks[i].id)
         /\ tasks[i].goto # None =>
              tasks[i].gate /\ LeadsBack(i, tasks[i].goto) /\ ~ tasks[i].waits
         /\ (tasks[i].waits <=> tasks[i].routes # <<>>)
         /\ tasks[i].waits => ~ tasks[i].prompt /\ ~ tasks[i].onFailure
         /\ \A r \in ToSet(tasks[i].routes) :
              IF r.continue THEN r.goto = None ELSE LeadsBack(i, r.goto)
    <3>1. /\ tasks[i].id \notin Earlier(i)
          /\ TaskSound(tasks[i], Earlier(i))
          /\ (tasks[i].waits <=> tasks[i].routes # <<>>)
      BY <1>1, <2>1 DEF ParseInv, TasksInv
    <3>2. QED
      BY <2>2, <3>1 DEF TaskSound
  <2>4. Len(names) = Cardinality(ToSet(names))
    BY <2>1, DistinctCount
  <2>5. QED
    BY <1>1, <2>3, <2>4 DEF AcceptedIsRunnable, ParseInv, DepsInv, TriggersInv, LacksInv
<1>2. Init => ParseInv
  BY ParseInit
<1>3. ParseInv /\ [Next]_vars => ParseInv'
  BY ParseStep
<1>4. QED
  BY <1>1, <1>2, <1>3, PTL DEF Spec

-----------------------------------------------------------------------------
(* The search for cycles. *)

(* The neighbours of an execution are those an edge leads to. *)
LEMMA Followers ==
  ASSUME ParseInv, stage \in Searched, NEW e \in ToSet(names)
  PROVE  /\ Neighbours(e) \in Seq(ToSet(names))
         /\ \A n \in ToSet(names) :
              (Before(e, n) <=> \E k \in 1 .. Len(Neighbours(e)) : Neighbours(e)[k] = n)
<1> DEFINE X == ToSet(names)
           K == {n \in X : e \in deps[n]}
           T == {t \in ToSet(triggers) : t.after = e}
<1>1. names \in Seq(Name) /\ triggers \in Seq(Trigger)
  BY DEF ParseInv, NamesInv, TriggersInv
<1>2. names \in Seq(X)
  BY <1>1 DEF ToSet
<1>3. \A t \in ToSet(triggers) : t \in Trigger /\ t.run \in X
  BY <1>1 DEF ParseInv, TriggersInv, ToSet
<1>4. Neighbours(e) =
        Keep(names, K) \o [i \in DOMAIN Keep(triggers, T) |-> Keep(triggers, T)[i].run]
  BY DEF Neighbours
<1> HIDE DEF X
<1>5. PICK a \in Seq(X) : a = Keep(names, K) /\ ToSet(a) = K
  <2>1. ToSet(names) \cap K = K
    BY DEF X
  <2>2. QED
    BY <1>2, <2>1, KeepFacts
<1>6. PICK f \in Seq(Trigger) : f = Keep(triggers, T) /\ ToSet(f) = T
  <2>1. ToSet(triggers) \cap T = T
    OBVIOUS
  <2>2. QED
    BY <1>1, <2>1, KeepFacts
<1> HIDE DEF K, T
<1>7. PICK b \in Seq(X) : b = [i \in DOMAIN f |-> f[i].run] /\ ToSet(b) = {t.run : t \in T}
  <2> DEFINE b == [i \in DOMAIN f |-> f[i].run]
  <2>1. DOMAIN f = 1 .. Len(f) /\ Len(f) \in Nat /\ T = {f[i] : i \in 1 .. Len(f)}
    BY <1>6 DEF ToSet
  <2>2. \A i \in 1 .. Len(f) : f[i].run \in X
    BY <1>3, <2>1 DEF T
  <2>3. b \in Seq(X)
    BY <2>1, <2>2
  <2>4. ToSet(b) = {t.run : t \in T}
    BY <2>1 DEF ToSet
  <2>5. QED
    BY <2>3, <2>4
<1>8. PICK c \in Seq(X) : c = a \o b /\ ToSet(c) = K \cup ToSet(b)
  <2>1. a \o b \in Seq(X) /\ ToSet(a \o b) = ToSet(a) \cup ToSet(b)
    BY Joined
  <2>2. QED
    BY <1>5, <2>1
<1>9. Neighbours(e) = c
  BY <1>4, <1>5, <1>6, <1>7, <1>8
<1>10. ASSUME NEW n \in X PROVE Before(e, n) <=> n \in ToSet(c)
  <2>1. n \in K <=> e \in deps[n]
    BY DEF K
  <2>2. n \in {t.run : t \in T} <=> [after |-> e, run |-> n] \in ToSet(triggers)
    <3>1. ASSUME NEW t \in T, n = t.run PROVE [after |-> e, run |-> n] \in ToSet(triggers)
      <4>1. t \in Trigger /\ t.after = e /\ t \in ToSet(triggers)
        BY <1>3 DEF T
      <4>2. t = [after |-> e, run |-> n]
        BY <3>1, <4>1 DEF Trigger
      <4>3. QED
        BY <4>1, <4>2
    <3>2. ASSUME [after |-> e, run |-> n] \in ToSet(triggers)
          PROVE  [after |-> e, run |-> n] \in T /\ [after |-> e, run |-> n].run = n
      BY <3>2 DEF T
    <3>3. QED
      BY <3>1, <3>2
  <2>3. QED
    BY <1>7, <1>8, <2>1, <2>2 DEF Before
<1>11. ToSet(c) = {c[k] : k \in 1 .. Len(c)}
  BY DEF ToSet
<1>12. QED
  BY <1>9, <1>10, <1>11 DEF X

(* What a neighbour is, by its place. *)
LEMMA NeighbourFacts ==
  ASSUME ParseInv, stage \in Searched, NEW e \in ToSet(names)
  PROVE  /\ Len(Neighbours(e)) \in Nat
         /\ \A k \in 1 .. Len(Neighbours(e)) :
              Neighbours(e)[k] \in ToSet(names) /\ Before(e, Neighbours(e)[k])
         /\ \A n \in ToSet(names) :
              Before(e, n) => \E k \in 1 .. Len(Neighbours(e)) : Neighbours(e)[k] = n
BY Followers

(* A step that leaves the graph changes no edge. *)
LEMMA SameGraph ==
  ASSUME UNCHANGED <<names, deps, triggers>>
  PROVE  /\ ToSet(names)' = ToSet(names)
         /\ \A e : Neighbours(e)' = Neighbours(e)
         /\ \A a, b : Before(a, b)' <=> Before(a, b)
<1>1. names' = names /\ deps' = deps /\ triggers' = triggers
  OBVIOUS
<1>2. ToSet(names)' = ToSet(names) /\ ToSet(triggers)' = ToSet(triggers)
  BY <1>1 DEF ToSet
<1>3. ASSUME NEW e PROVE Neighbours(e)' = Neighbours(e)
  BY <1>1, <1>2 DEF Neighbours
<1>4. ASSUME NEW a, NEW b PROVE Before(a, b)' <=> Before(a, b)
  BY <1>1, <1>2 DEF Before
<1>5. QED
  BY <1>2, <1>3, <1>4

(* So when the file stays as it is. *)
LEMMA SameEdges ==
  ASSUME UNCHANGED file
  PROVE  /\ ToSet(names)' = ToSet(names)
         /\ \A e : Neighbours(e)' = Neighbours(e)
         /\ \A a, b : Before(a, b)' <=> Before(a, b)
BY SameGraph DEF file

(* One execution more, all that follow it done, closes no cycle. *)
LEMMA OneMoreDone ==
  ASSUME NEW D \in SUBSET ToSet(names), NEW e \in ToSet(names), e \notin D, Acyclic(D),
         \A a \in D, n \in ToSet(names) : Before(a, n) => n \in D,
         \A n \in ToSet(names) : Before(e, n) => n \in D
  PROVE  Acyclic(D \cup {e})
<1> SUFFICES ASSUME NEW S \in SUBSET (D \cup {e}), S # {}
             PROVE  \E a \in S : \A b \in S : ~ Before(a, b)
  BY DEF Acyclic
<1>1. CASE S = {e}
  BY <1>1
<1>2. CASE S # {e}
  <2>1. S \ {e} \in SUBSET D /\ S \ {e} # {}
    BY <1>2
  <2>2. PICK a \in S \ {e} : \A b \in S \ {e} : ~ Before(a, b)
    BY <2>1 DEF Acyclic
  <2>3. ~ Before(a, e)
    BY <2>1, <2>2
  <2>4. QED
    BY <2>2, <2>3
<1>3. QED
  BY <1>1, <1>2

(* The parser leaves the search alone. *)
LEMMA NotSearching ==
  ASSUME SearchInv, UNCHANGED search, stage \notin Searched, stage' \notin Searched
  PROVE  SearchInv'
BY DEF SearchInv, search

(* What holds of the search is kept when nothing changes. *)
LEMMA SameSearch ==
  ASSUME SearchInv, UNCHANGED <<file, search, stage>>
  PROVE  SearchInv'
<1>1. visit' = visit /\ stack' = stack /\ cycle' = cycle /\ stage' = stage
  BY DEF search
<1>2. CASE stage \notin Searched
  BY <1>1, <1>2 DEF SearchInv
<1>3. CASE stage \in Searched
  <2>1. VisitTells /\ StackTells /\ DoneTells /\ CycleTells
    BY <1>3 DEF SearchInv
  <2>2. VisitTells'
    BY <1>1, <2>1, SameEdges DEF VisitTells
  <2>3. StackTells'
    <3>1. ASSUME NEW i \in 1 .. Len(stack) PROVE FrameTells(i)'
      <4>1. FrameTells(i) /\ Neighbours(stack[i].at)' = Neighbours(stack[i].at)
        BY <1>1, <2>1, SameEdges DEF StackTells
      <4>2. QED
        BY <1>1, <4>1, SameEdges DEF FrameTells
    <3>2. QED
      BY <1>1, <2>1, <3>1 DEF StackTells
  <2>4. Done' = Done
    BY <1>1, SameEdges DEF Done
  <2>5. DoneTells'
    BY <1>1, <2>1, <2>4, SameEdges DEF DoneTells, Acyclic
  <2>6. CycleTells'
    BY <1>1, <2>1, SameEdges DEF CycleTells
  <2>7. QED
    BY <1>1, <1>3, <2>2, <2>3, <2>5, <2>6 DEF SearchInv
<1>4. QED
  BY <1>2, <1>3

(* The search begins with nothing visited. *)
LEMMA BeginSearchStep ==
  ASSUME LoadInv, BeginSearch
  PROVE  SearchInv'
<1>1. /\ stage = "triggers" /\ stage' = "graph" /\ UNCHANGED <<names, deps, triggers, stack>>
      /\ visit' = [e \in ToSet(names) |-> "unvisited"]
  BY DEF BeginSearch
<1>2. stack' = <<>> /\ Len(stack') = 0
  BY <1>1, EmptyFacts DEF LoadInv, SearchInv, Searched
<1>3. \A e \in ToSet(names)' : visit'[e] = "unvisited"
  BY <1>1, SameGraph
<1>4. VisitTells'
  <2>1. visit' \in [ToSet(names)' -> {"unvisited", "visiting", "done"}]
    BY <1>1, SameGraph
  <2>2. 1 .. Len(stack') = {}
    BY <1>2
  <2>3. QED
    BY <1>3, <2>1, <2>2 DEF VisitTells
<1>5. StackTells'
  BY <1>2, EmptyFacts DEF StackTells
<1>6. DoneTells'
  <2>1. Done' = {}
    BY <1>3 DEF Done
  <2>2. QED
    BY <1>1, <2>1 DEF DoneTells, Acyclic
<1>7. CycleTells'
  BY <1>1 DEF CycleTells
<1>8. QED
  BY <1>1, <1>4, <1>5, <1>6, <1>7 DEF SearchInv, Searched

(* Marking an execution as being visited leaves what is done. *)
LEMMA MarkVisiting ==
  ASSUME VisitTells, DoneTells, UNCHANGED file, stage' = "graph",
         NEW e \in ToSet(names), visit[e] = "unvisited",
         visit' = [visit EXCEPT ![e] = "visiting"]
  PROVE  /\ DoneTells'
         /\ visit' \in [ToSet(names)' -> {"unvisited", "visiting", "done"}]
         /\ \A x \in ToSet(names) : visit'[x] = IF x = e THEN "visiting" ELSE visit[x]
<1>1. \A x \in ToSet(names) : visit'[x] = IF x = e THEN "visiting" ELSE visit[x]
  BY DEF VisitTells
<1>2. visit' \in [ToSet(names)' -> {"unvisited", "visiting", "done"}]
  BY SameEdges DEF VisitTells
<1>3. Done' = Done
  BY <1>1, SameEdges DEF Done
<1>4. DoneTells'
  BY <1>3, SameEdges DEF DoneTells, Acyclic
<1>5. QED
  BY <1>1, <1>2, <1>4

(* It ends when all is done, or starts from an execution not visited. *)
LEMMA VisitRootStep ==
  ASSUME LoadInv, VisitRoot
  PROVE  SearchInv'
<1>1. /\ stage = "graph" /\ stack = <<>> /\ Len(stack) = 0 /\ UNCHANGED file
      /\ VisitTells /\ StackTells /\ DoneTells /\ ParseInv /\ stage \in Searched
  BY EmptyFacts DEF VisitRoot, LoadInv, SearchInv, Searched
<1>2. CASE /\ \A e \in ToSet(names) : visit[e] # "unvisited"
           /\ stage' = "loaded" /\ UNCHANGED <<visit, stack>>
  <2>1. \A e \in ToSet(names) : visit[e] = "done"
    <3>1. 1 .. Len(stack) = {}
      BY <1>1
    <3>2. \A e \in ToSet(names) : visit[e] # "visiting"
      BY <1>1, <3>1 DEF VisitTells
    <3>3. QED
      BY <1>1, <1>2, <3>2 DEF VisitTells
  <2>2. Done = ToSet(names) /\ Done' = Done /\ ToSet(names)' = ToSet(names)
    BY <1>1, <1>2, <2>1, SameEdges DEF Done
  <2>3. DoneTells'
    BY <1>1, <2>2, SameEdges DEF DoneTells, Acyclic
  <2>4. VisitTells'
    BY <1>1, <1>2, SameEdges DEF VisitTells
  <2>5. StackTells'
    BY <1>1, <1>2, EmptyFacts DEF StackTells
  <2>6. CycleTells'
    BY <1>2 DEF CycleTells
  <2>7. QED
    BY <1>2, <2>3, <2>4, <2>5, <2>6 DEF SearchInv, Searched
<1>3. CASE \E i \in DOMAIN names : /\ visit[names[i]] = "unvisited"
                                  /\ Push(stack, names[i]) /\ UNCHANGED stage
  <2>1. PICK e \in ToSet(names) : visit[e] = "unvisited" /\ Push(stack, e) /\ UNCHANGED stage
    BY <1>3 DEF ToSet
  <2>2. e \in Name
    BY <1>1 DEF ParseInv, NamesInv, ToSet
  <2>3. PICK f \in Frame : f = [at |-> e, next |-> 1] /\ f.at = e /\ f.next = 1
    <3> DEFINE f == [at |-> e, next |-> 1]
    <3>1. f \in Frame
      BY <2>2 DEF Frame
    <3>2. f.at = e /\ f.next = 1
      OBVIOUS
    <3>3. QED
      BY <3>1, <3>2
  <2>4. stack' \in Seq(Frame) /\ Len(stack') = 1 /\ stack'[1] = f
    BY <1>1, <2>1, <2>3 DEF Push, StackTells
  <2>5. /\ DoneTells'
        /\ visit' \in [ToSet(names)' -> {"unvisited", "visiting", "done"}]
        /\ \A x \in ToSet(names) : visit'[x] = IF x = e THEN "visiting" ELSE visit[x]
    <3>1. visit' = [visit EXCEPT ![e] = "visiting"] /\ stage' = "graph"
      BY <1>1, <2>1 DEF Push
    <3>2. QED
      BY <1>1, <2>1, <3>1, MarkVisiting
  <2>6. ToSet(names)' = ToSet(names) /\ 1 .. Len(stack') = {1} /\ 1 .. Len(stack) = {}
    BY <1>1, <2>4, SameEdges
  <2>7. VisitTells'
    <3>1. \A x \in ToSet(names) : visit[x] # "visiting"
      BY <1>1, <2>6 DEF VisitTells
    <3>2. QED
      BY <2>3, <2>4, <2>5, <2>6, <3>1 DEF VisitTells
  <2>8. StackTells'
    <3>1. Len(Neighbours(e)) \in Nat /\ Neighbours(e)' = Neighbours(e)
      BY <1>1, NeighbourFacts, SameEdges
    <3>2. FrameTells(1)'
      BY <2>3, <2>4, <2>6, <3>1, SameEdges, <1>1 DEF FrameTells
    <3>3. QED
      BY <2>4, <2>6, <3>2 DEF StackTells
  <2>9. CycleTells'
    BY <1>1, <2>1 DEF CycleTells
  <2>10. QED
    BY <1>1, <2>1, <2>5, <2>7, <2>8, <2>9 DEF SearchInv
<1>4. QED
  BY <1>2, <1>3 DEF VisitRoot

(* Where the search is. *)
LEMMA TopFacts ==
  ASSUME LoadInv, stage = "graph", stack # <<>>
  PROVE  /\ ParseInv /\ VisitTells /\ StackTells /\ DoneTells /\ stage \in Searched
         /\ Len(stack) \in Nat /\ Len(stack) \in 1 .. Len(stack)
         /\ Top = stack[Len(stack)] /\ Top.at \in ToSet(names)
         /\ Top.next \in 1 .. Len(Neighbours(Top.at)) + 1
         /\ Len(Neighbours(Top.at)) \in Nat
         /\ \A k \in 1 .. Top.next - 1 : visit[Neighbours(Top.at)[k]] = "done"
<1>1. ParseInv /\ VisitTells /\ StackTells /\ DoneTells /\ stage \in Searched
  BY DEF LoadInv, SearchInv, Searched
<1>2. Len(stack) \in Nat /\ Len(stack) \in 1 .. Len(stack)
  BY <1>1 DEF StackTells
<1>3. Top = stack[Len(stack)]
  BY DEF Top, Last
<1>4. FrameTells(Len(stack))
  BY <1>1, <1>2 DEF StackTells
<1>5. Top.at \in ToSet(names) /\ Top.next \in 1 .. Len(Neighbours(Top.at)) + 1
  BY <1>3, <1>4 DEF FrameTells
<1>6. Len(Neighbours(Top.at)) \in Nat
  BY <1>1, <1>5, NeighbourFacts
<1>7. \A k \in 1 .. Top.next - 1 : visit[Neighbours(Top.at)[k]] = "done"
  BY <1>2, <1>3, <1>4 DEF FrameTells
<1>8. QED
  BY <1>1, <1>2, <1>3, <1>5, <1>6, <1>7

(* The neighbour the search stands before. *)
LEMMA SearchingFacts ==
  ASSUME LoadInv, stage = "graph", stack # <<>>, HasNeighbour
  PROVE  /\ Top.next \in 1 .. Len(Neighbours(Top.at))
         /\ Neighbour = Neighbours(Top.at)[Top.next]
         /\ Neighbour \in ToSet(names) /\ Before(Top.at, Neighbour)
<1>1. Top.next \in 1 .. Len(Neighbours(Top.at))
  BY TopFacts DEF HasNeighbour
<1>2. QED
  BY <1>1, TopFacts, NeighbourFacts DEF Neighbour

(* Its frame moves on to the next neighbour. *)
LEMMA AdvancedFacts ==
  ASSUME LoadInv, stage = "graph", stack # <<>>, HasNeighbour
  PROVE  /\ Advanced \in Seq(Frame) /\ Len(Advanced) = Len(stack)
         /\ \A i \in 1 .. Len(stack) : Advanced[i].at = stack[i].at
         /\ \A i \in 1 .. Len(stack) - 1 : Advanced[i] = stack[i]
         /\ Advanced[Len(stack)].next = Top.next + 1
<1>1. stack \in Seq(Frame) /\ Len(stack) \in 1 .. Len(stack)
  BY TopFacts DEF StackTells
<1>2. PICK n \in 1 .. Len(stack) : n = Len(stack)
  BY <1>1
<1>3. PICK f \in Frame : f = stack[n]
  BY <1>1
<1>4. f.at \in Name /\ f.next \in Nat
  BY DEF Frame
<1>5. PICK g \in Frame : g = [f EXCEPT !.next = @ + 1] /\ g.at = f.at /\ g.next = f.next + 1
  <2> DEFINE g == [f EXCEPT !.next = @ + 1]
  <2>1. g \in Frame
    BY <1>4 DEF Frame
  <2>2. g.at = f.at /\ g.next = f.next + 1
    BY <1>4 DEF Frame
  <2>3. QED
    BY <2>1, <2>2
<1>6. Advanced = [stack EXCEPT ![n] = g]
  BY <1>2, <1>3, <1>5 DEF Advanced
<1>7. /\ Advanced \in Seq(Frame) /\ Len(Advanced) = Len(stack)
      /\ \A i \in 1 .. Len(stack) : Advanced[i] = IF i = n THEN g ELSE stack[i]
  BY <1>1, <1>6
<1>8. Top = f
  BY <1>2, <1>3 DEF Top, Last
<1>9. \A i \in 1 .. Len(stack) : Advanced[i].at = stack[i].at
  BY <1>2, <1>3, <1>5, <1>7
<1>10. \A i \in 1 .. Len(stack) - 1 : Advanced[i] = stack[i]
  BY <1>1, <1>2, <1>7
<1>11. Advanced[Len(stack)].next = Top.next + 1
  BY <1>2, <1>5, <1>7, <1>8
<1>12. QED
  BY <1>7, <1>9, <1>10, <1>11

(* A neighbour that is done is passed over. *)
LEMMA PassOverStep ==
  ASSUME LoadInv, PassOver
  PROVE  SearchInv'
<1>1. /\ stage = "graph" /\ stack # <<>> /\ HasNeighbour /\ visit[Neighbour] = "done"
      /\ stack' = Advanced /\ stage' = stage /\ visit' = visit /\ cycle' = cycle /\ UNCHANGED file
  BY DEF PassOver, Searching
<1>2. /\ VisitTells /\ StackTells /\ DoneTells /\ Len(stack) \in 1 .. Len(stack) /\ Len(stack) \in Nat
      /\ Top = stack[Len(stack)]
  BY <1>1, TopFacts
<1>3. /\ Advanced \in Seq(Frame) /\ Len(Advanced) = Len(stack)
      /\ \A i \in 1 .. Len(stack) : Advanced[i].at = stack[i].at
      /\ \A i \in 1 .. Len(stack) - 1 : Advanced[i] = stack[i]
      /\ Advanced[Len(stack)].next = Top.next + 1
  BY <1>1, AdvancedFacts
<1>4. VisitTells'
  BY <1>1, <1>2, <1>3, SameEdges DEF VisitTells
<1>5. ASSUME NEW i \in 1 .. Len(stack) - 1 PROVE FrameTells(i)'
  <2>1. FrameTells(i) /\ i \in 1 .. Len(stack) /\ i + 1 \in 1 .. Len(stack)
    BY <1>2 DEF StackTells
  <2>2. stack'[i] = stack[i] /\ stack'[i + 1].at = stack[i + 1].at /\ Len(stack') = Len(stack)
    BY <1>1, <1>3, <2>1
  <2>3. QED
    BY <1>1, <2>1, <2>2, SameEdges DEF FrameTells
<1>6. ASSUME NEW i, i = Len(stack) PROVE FrameTells(i)'
  <2>1. /\ Top.at \in ToSet(names) /\ Len(Neighbours(Top.at)) \in Nat
        /\ Top.next \in 1 .. Len(Neighbours(Top.at))
        /\ Neighbour = Neighbours(Top.at)[Top.next]
        /\ \A k \in 1 .. Top.next - 1 : visit[Neighbours(Top.at)[k]] = "done"
    BY <1>1, TopFacts, SearchingFacts
  <2>2. /\ stack'[i].at = Top.at /\ stack'[i].next = Top.next + 1 /\ Len(stack') = i
    BY <1>1, <1>2, <1>3, <1>6
  <2>3. \A k \in 1 .. Top.next : visit[Neighbours(Top.at)[k]] = "done"
    BY <1>1, <2>1
  <2>4. ~ (i < Len(stack')) /\ (Top.next + 1) - 1 = Top.next
    BY <1>2, <1>6, <2>1, <2>2
  <2>5. Top.next + 1 \in 1 .. Len(Neighbours(Top.at)) + 1
    BY <2>1
  <2>6. QED
    BY <1>1, <2>1, <2>2, <2>3, <2>4, <2>5, SameEdges DEF FrameTells
<1>7. StackTells'
  <2>1. \A i \in 1 .. Len(stack') : FrameTells(i)'
    <3>1. \A i \in 1 .. Len(stack) : i \in 1 .. Len(stack) - 1 \/ i = Len(stack)
      BY <1>2
    <3>2. QED
      BY <1>1, <1>3, <1>5, <1>6, <3>1
  <2>2. QED
    BY <1>1, <1>2, <1>3, <2>1 DEF StackTells
<1>8. DoneTells'
  <2>1. Done' = Done
    BY <1>1, SameEdges DEF Done
  <2>2. QED
    BY <1>1, <1>2, <2>1, SameEdges DEF DoneTells, Acyclic
<1>9. CycleTells'
  BY <1>1 DEF CycleTells
<1>10. QED
  BY <1>1, <1>4, <1>7, <1>8, <1>9 DEF SearchInv, Searched

(* One that is not visited is put on top. *)
LEMMA VisitStep ==
  ASSUME LoadInv, Visit
  PROVE  SearchInv'
<1>1. /\ stage = "graph" /\ stack # <<>> /\ HasNeighbour /\ visit[Neighbour] = "unvisited"
      /\ stack' = Append(Advanced, [at |-> Neighbour, next |-> 1])
      /\ visit' = [visit EXCEPT ![Neighbour] = "visiting"]
      /\ stage' = stage /\ cycle' = cycle /\ UNCHANGED file
  BY DEF Visit, Searching, Push
<1>2. /\ VisitTells /\ StackTells /\ DoneTells /\ Len(stack) \in 1 .. Len(stack) /\ Len(stack) \in Nat
      /\ Top = stack[Len(stack)] /\ ParseInv /\ stage \in Searched
  BY <1>1, TopFacts
<1>3. /\ Advanced \in Seq(Frame) /\ Len(Advanced) = Len(stack)
      /\ \A i \in 1 .. Len(stack) : Advanced[i].at = stack[i].at
      /\ \A i \in 1 .. Len(stack) - 1 : Advanced[i] = stack[i]
      /\ Advanced[Len(stack)].next = Top.next + 1
  BY <1>1, AdvancedFacts
<1>4. PICK e \in ToSet(names) : e = Neighbour
  BY <1>1, SearchingFacts
<1>5. e \in Name
  BY <1>2 DEF ParseInv, NamesInv, ToSet
<1>6. PICK f \in Frame : f = [at |-> e, next |-> 1] /\ f.at = e /\ f.next = 1
  <2> DEFINE f == [at |-> e, next |-> 1]
  <2>1. f \in Frame
    BY <1>5 DEF Frame
  <2>2. f.at = e /\ f.next = 1
    OBVIOUS
  <2>3. QED
    BY <2>1, <2>2
<1>7. /\ stack' \in Seq(Frame) /\ Len(stack') = Len(stack) + 1
      /\ \A i \in 1 .. Len(stack) : stack'[i] = Advanced[i]
      /\ stack'[Len(stack) + 1] = f
  BY <1>1, <1>3, <1>4, <1>6
<1>8. /\ DoneTells'
      /\ visit' \in [ToSet(names)' -> {"unvisited", "visiting", "done"}]
      /\ \A x \in ToSet(names) : visit'[x] = IF x = e THEN "visiting" ELSE visit[x]
  BY <1>1, <1>2, <1>4, MarkVisiting
<1>9. \A i \in 1 .. Len(stack) : stack[i].at \in ToSet(names) /\ stack[i].at # e
  BY <1>1, <1>2, <1>4 DEF VisitTells, StackTells, FrameTells
<1>10. 1 .. Len(stack') = (1 .. Len(stack)) \cup {Len(stack) + 1}
  BY <1>2, <1>7
<1>11. VisitTells'
  <2>1. \A x \in ToSet(names) :
          (visit[x] = "visiting" <=> \E i \in 1 .. Len(stack) : stack[i].at = x)
    BY <1>2 DEF VisitTells
  <2>2. \A i \in 1 .. Len(stack) : stack'[i].at = stack[i].at
    BY <1>3, <1>7
  <2>3. ASSUME NEW x \in ToSet(names)
        PROVE  visit'[x] = "visiting" <=> \E i \in 1 .. Len(stack') : stack'[i].at = x
    <3>1. (\E i \in 1 .. Len(stack') : stack'[i].at = x)
             <=> x = e \/ \E i \in 1 .. Len(stack) : stack[i].at = x
      BY <1>6, <1>7, <1>10, <2>2
    <3>2. QED
      BY <1>8, <2>1, <3>1
  <2>4. QED
    BY <1>1, <1>8, <2>3, SameEdges DEF VisitTells
<1>12. \A k \in ToSet(names) : visit[k] = "done" => visit'[k] = "done"
  BY <1>1, <1>4, <1>8
<1>13. ASSUME NEW i \in 1 .. Len(stack) - 1 PROVE FrameTells(i)'
  <2>1. FrameTells(i) /\ i \in 1 .. Len(stack) /\ i + 1 \in 1 .. Len(stack) /\ i < Len(stack')
    BY <1>2, <1>7 DEF StackTells
  <2>2. stack'[i] = stack[i] /\ stack'[i + 1].at = stack[i + 1].at
    BY <1>3, <1>7, <2>1
  <2> DEFINE to == Neighbours(stack[i].at)
             next == stack[i].next
  <2>3. /\ stack[i].at \in ToSet(names) /\ next \in 1 .. Len(to) + 1
        /\ \A k \in 1 .. next - 1 : visit[to[k]] = "done" \/ k = next - 1
        /\ next > 1 /\ stack[i + 1].at = to[next - 1]
    BY <1>2, <2>1 DEF FrameTells
  <2>4. Len(to) \in Nat /\ \A k \in 1 .. Len(to) : to[k] \in ToSet(names)
    BY <1>2, <2>3, NeighbourFacts
  <2> HIDE DEF to, next
  <2>5. \A k \in 1 .. next - 1 : visit'[to[k]] = "done" \/ k = next - 1
    <3>1. \A k \in 1 .. next - 1 : k \in 1 .. Len(to)
      BY <2>3, <2>4
    <3>2. QED
      BY <1>12, <2>3, <2>4, <3>1
  <2>6. Neighbours(stack[i].at)' = to /\ stack'[i].next = next /\ stack'[i].at = stack[i].at
    BY <1>1, <2>2, SameEdges DEF to, next
  <2>7. QED
    BY <1>1, <2>1, <2>2, <2>3, <2>5, <2>6, SameEdges DEF FrameTells
<1>14. ASSUME NEW i, i = Len(stack) PROVE FrameTells(i)'
  <2> DEFINE to == Neighbours(Top.at)
             next == Top.next
  <2>1. /\ Top.at \in ToSet(names) /\ Len(to) \in Nat /\ next \in 1 .. Len(to) /\ e = to[next]
        /\ \A k \in 1 .. next - 1 : visit[to[k]] = "done"
        /\ \A k \in 1 .. Len(to) : to[k] \in ToSet(names)
    BY <1>1, <1>2, <1>4, TopFacts, SearchingFacts, NeighbourFacts
  <2>2. /\ stack'[i].at = Top.at /\ stack'[i].next = next + 1 /\ stack'[i + 1].at = e
        /\ i < Len(stack')
    BY <1>2, <1>3, <1>6, <1>7, <1>14
  <2>3. Neighbours(stack[i].at)' = to
    BY <1>1, <2>2, SameEdges
  <2> HIDE DEF to, next
  <2>4. \A k \in 1 .. (next + 1) - 1 : visit'[to[k]] = "done" \/ k = (next + 1) - 1
    <3>1. \A k \in 1 .. (next + 1) - 1 : k \in 1 .. Len(to) /\ (k = next \/ k \in 1 .. next - 1)
      BY <2>1
    <3>2. (next + 1) - 1 = next
      BY <2>1
    <3>3. QED
      BY <1>12, <2>1, <3>1, <3>2
  <2>5. next + 1 \in 1 .. Len(to) + 1 /\ next + 1 > 1 /\ e = to[(next + 1) - 1]
    BY <2>1
  <2>6. QED
    BY <1>1, <2>1, <2>2, <2>3, <2>4, <2>5, SameEdges DEF FrameTells
<1>15. ASSUME NEW i, i = Len(stack) + 1 PROVE FrameTells(i)'
  <2>1. stack'[i].at = e /\ stack'[i].next = 1 /\ ~ (i < Len(stack'))
    BY <1>2, <1>6, <1>7, <1>15
  <2>2. Len(Neighbours(e)) \in Nat
    BY <1>2, NeighbourFacts
  <2>3. Neighbours(stack[i].at)' = Neighbours(e)
    BY <1>1, <2>1, SameEdges
  <2>4. 1 \in 1 .. Len(Neighbours(e)) + 1 /\ 1 .. 1 - 1 = {}
    BY <2>2
  <2>5. QED
    BY <1>1, <2>1, <2>3, <2>4, SameEdges DEF FrameTells
<1>16. StackTells'
  <2>1. \A i \in 1 .. Len(stack') : FrameTells(i)'
    <3>1. \A i \in 1 .. Len(stack') :
            i \in 1 .. Len(stack) - 1 \/ i = Len(stack) \/ i = Len(stack) + 1
      BY <1>2, <1>7
    <3>2. QED
      BY <1>13, <1>14, <1>15, <3>1
  <2>2. \A i \in 1 .. Len(stack) : stack'[i].at = stack[i].at
    BY <1>3, <1>7
  <2>3. ASSUME NEW i \in 1 .. Len(stack'), NEW j \in 1 .. Len(stack'), stack'[i].at = stack'[j].at
        PROVE  i = j
    <3>1. \A k, l \in 1 .. Len(stack) : stack[k].at = stack[l].at => k = l
      BY <1>2 DEF StackTells
    <3>2. QED
      BY <1>6, <1>7, <1>9, <1>10, <2>2, <2>3, <3>1
  <2>4. QED
    BY <1>7, <2>1, <2>3 DEF StackTells
<1>17. CycleTells'
  BY <1>1 DEF CycleTells
<1>18. QED
  BY <1>1, <1>8, <1>11, <1>16, <1>17 DEF SearchInv, Searched

(* All but the last. *)
LEMMA FrontFacts ==
  ASSUME NEW S, NEW s \in Seq(S), s # <<>>
  PROVE  /\ Front(s) \in Seq(S) /\ Len(Front(s)) = Len(s) - 1
         /\ \A i \in 1 .. Len(s) - 1 : Front(s)[i] = s[i]
<1>1. Len(s) \in Nat /\ Len(s) # 0
  OBVIOUS
<1>2. PICK n \in Nat : n = Len(s) - 1
  BY <1>1
<1>3. \A i \in 1 .. n : s[i] \in S
  BY <1>1, <1>2
<1>4. Front(s) = SubSeq(s, 1, n)
  BY <1>2 DEF Front
<1>5. /\ SubSeq(s, 1, n) \in Seq(S) /\ Len(SubSeq(s, 1, n)) = n
      /\ \A i \in 1 .. n : SubSeq(s, 1, n)[i] = s[i]
  BY <1>3
<1>6. QED
  BY <1>2, <1>4, <1>5

(* An execution all of whose neighbours are done is done. *)
LEMMA LeaveStep ==
  ASSUME LoadInv, Leave
  PROVE  SearchInv'
<1>1. /\ stage = "graph" /\ stack # <<>> /\ ~ HasNeighbour
      /\ stack' = Front(stack) /\ visit' = [visit EXCEPT ![Top.at] = "done"]
      /\ stage' = stage /\ cycle' = cycle /\ UNCHANGED file
  BY DEF Leave
<1>2. /\ VisitTells /\ StackTells /\ DoneTells /\ Len(stack) \in 1 .. Len(stack) /\ Len(stack) \in Nat
      /\ Top = stack[Len(stack)] /\ ParseInv /\ stage \in Searched
  BY <1>1, TopFacts
<1>3. PICK e \in ToSet(names) : e = Top.at
  BY <1>1, TopFacts
<1>4. visit[e] = "visiting"
  BY <1>2, <1>3 DEF VisitTells
<1>5. /\ visit' \in [ToSet(names)' -> {"unvisited", "visiting", "done"}]
      /\ \A x \in ToSet(names) : visit'[x] = IF x = e THEN "done" ELSE visit[x]
  BY <1>1, <1>2, <1>3, SameEdges DEF VisitTells
<1>6. /\ stack' \in Seq(Frame) /\ Len(stack') = Len(stack) - 1
      /\ \A i \in 1 .. Len(stack) - 1 : stack'[i] = stack[i]
  BY <1>1, <1>2, FrontFacts DEF StackTells
<1>7. \A i \in 1 .. Len(stack) - 1 : stack[i].at # e
  <2>1. \A i \in 1 .. Len(stack) - 1 : i \in 1 .. Len(stack) /\ i # Len(stack)
    BY <1>2
  <2>2. QED
    BY <1>2, <1>3, <2>1 DEF StackTells
<1>8. VisitTells'
  <2>1. \A x \in ToSet(names) :
          (visit[x] = "visiting" <=> \E i \in 1 .. Len(stack) : stack[i].at = x)
    BY <1>2 DEF VisitTells
  <2>2. 1 .. Len(stack) = (1 .. Len(stack')) \cup {Len(stack)} /\ Len(stack') = Len(stack) - 1
    BY <1>2, <1>6
  <2>3. ASSUME NEW x \in ToSet(names)
        PROVE  visit'[x] = "visiting" <=> \E i \in 1 .. Len(stack') : stack'[i].at = x
    <3>1. (\E i \in 1 .. Len(stack) : stack[i].at = x)
             <=> x = e \/ \E i \in 1 .. Len(stack') : stack'[i].at = x
      BY <1>2, <1>3, <1>6, <2>2
    <3>2. ~ \E i \in 1 .. Len(stack') : stack'[i].at = e
      BY <1>6, <1>7, <2>2
    <3>3. QED
      BY <1>5, <2>1, <3>1, <3>2
  <2>4. QED
    BY <1>1, <1>5, <2>3, SameEdges DEF VisitTells
<1>9. \A k \in ToSet(names) : visit[k] = "done" => visit'[k] = "done"
  BY <1>5
<1>10. ASSUME NEW i \in 1 .. Len(stack) - 1 PROVE FrameTells(i)'
  <2>1. FrameTells(i) /\ i \in 1 .. Len(stack) /\ i + 1 \in 1 .. Len(stack) /\ i < Len(stack)
    BY <1>2 DEF StackTells
  <2> DEFINE to == Neighbours(stack[i].at)
             next == stack[i].next
  <2>2. /\ stack[i].at \in ToSet(names) /\ next \in 1 .. Len(to) + 1
        /\ \A k \in 1 .. next - 1 : visit[to[k]] = "done" \/ k = next - 1
        /\ next > 1 /\ stack[i + 1].at = to[next - 1]
    BY <1>2, <2>1 DEF FrameTells
  <2>3. Len(to) \in Nat /\ \A k \in 1 .. Len(to) : to[k] \in ToSet(names)
    BY <1>2, <2>2, NeighbourFacts
  <2>4. /\ stack'[i] = stack[i]
        /\ i < Len(stack') => stack'[i + 1] = stack[i + 1]
    BY <1>2, <1>6, <2>1
  <2>5. Neighbours(stack[i].at)' = to /\ stack'[i].next = next /\ stack'[i].at = stack[i].at
    BY <1>1, <2>4, SameEdges
  <2>6. ~ (i < Len(stack')) => stack[i + 1].at = e
    BY <1>2, <1>3, <1>6, <2>1
  <2> HIDE DEF to, next
  <2>7. ASSUME NEW k \in 1 .. next - 1
        PROVE  visit'[to[k]] = "done" \/ (i < Len(stack') /\ k = next - 1)
    <3>1. k \in 1 .. Len(to)
      BY <2>2, <2>3
    <3>2. CASE visit[to[k]] = "done"
      BY <1>9, <2>3, <3>1, <3>2
    <3>3. CASE k = next - 1
      BY <1>5, <2>2, <2>6, <3>3
    <3>4. QED
      BY <2>2, <3>2, <3>3
  <2>8. QED
    BY <1>1, <2>2, <2>4, <2>5, <2>7, SameEdges DEF FrameTells
<1>11. StackTells'
  <2>1. \A i \in 1 .. Len(stack') : i \in 1 .. Len(stack) - 1 /\ i \in 1 .. Len(stack)
    BY <1>2, <1>6
  <2>2. \A i \in 1 .. Len(stack') : FrameTells(i)'
    BY <1>10, <2>1
  <2>3. \A i, j \in 1 .. Len(stack') : stack'[i].at = stack'[j].at => i = j
    BY <1>2, <1>6, <2>1 DEF StackTells
  <2>4. QED
    BY <1>6, <2>2, <2>3 DEF StackTells
<1>12. \A n \in ToSet(names) : Before(e, n) => n \in Done
  <2>1. /\ Top.next = Len(Neighbours(e)) + 1 /\ Len(Neighbours(e)) \in Nat
        /\ \A k \in 1 .. Top.next - 1 : visit[Neighbours(e)[k]] = "done"
    BY <1>1, <1>3, TopFacts DEF HasNeighbour
  <2>2. \A k \in 1 .. Len(Neighbours(e)) : visit[Neighbours(e)[k]] = "done"
    BY <2>1
  <2>3. QED
    BY <1>2, <2>2, NeighbourFacts DEF Done
<1>13. Done' = Done \cup {e} /\ e \notin Done /\ Done \subseteq ToSet(names)
  BY <1>1, <1>4, <1>5, SameEdges DEF Done
<1>14. Acyclic(Done \cup {e})
  BY <1>2, <1>12, <1>13, OneMoreDone DEF DoneTells
<1>15. DoneTells'
  BY <1>1, <1>2, <1>12, <1>13, <1>14, SameEdges DEF DoneTells, Acyclic
<1>16. CycleTells'
  BY <1>1 DEF CycleTells
<1>17. QED
  BY <1>1, <1>8, <1>11, <1>15, <1>16 DEF SearchInv, Searched

(* Consecutive frames are an execution and one that follows it. *)
LEMMA FramesFollow ==
  ASSUME ParseInv, stage \in Searched, StackTells, NEW i \in 1 .. Len(stack) - 1
  PROVE  Before(stack[i].at, stack[i + 1].at)
<1>1. Len(stack) \in Nat /\ i \in 1 .. Len(stack) /\ i < Len(stack) /\ FrameTells(i)
  BY DEF StackTells
<1> DEFINE to == Neighbours(stack[i].at)
           next == stack[i].next
<1>2. /\ stack[i].at \in ToSet(names) /\ next \in 1 .. Len(to) + 1 /\ next > 1
      /\ stack[i + 1].at = to[next - 1]
  BY <1>1 DEF FrameTells
<1>3. Len(to) \in Nat /\ \A k \in 1 .. Len(to) : Before(stack[i].at, to[k])
  BY <1>2, NeighbourFacts
<1>4. next - 1 \in 1 .. Len(to)
  BY <1>2, <1>3
<1>5. QED
  BY <1>2, <1>3, <1>4

(* What is reported is the stack from the neighbour on, and the neighbour  *)
(* again.                                                                  *)
LEMMA ReportCycleStep ==
  ASSUME LoadInv, ReportCycle
  PROVE  SearchInv'
<1>1. /\ stage = "graph" /\ stack # <<>> /\ HasNeighbour /\ visit[Neighbour] = "visiting"
      /\ stage' = "cyclic" /\ visit' = visit /\ stack' = stack /\ UNCHANGED file
  BY DEF ReportCycle, Searching
<1>2. /\ VisitTells /\ StackTells /\ DoneTells /\ Len(stack) \in 1 .. Len(stack) /\ Len(stack) \in Nat
      /\ Top = stack[Len(stack)] /\ ParseInv /\ stage \in Searched
  BY <1>1, TopFacts
<1>3. PICK e \in ToSet(names) : e = Neighbour /\ Before(Top.at, e)
  BY <1>1, SearchingFacts
<1>4. PICK s \in 1 .. Len(stack) : s = Start(e) /\ stack[s].at = e
  <2>1. \E i \in DOMAIN stack : stack[i].at = e
    BY <1>1, <1>2, <1>3 DEF VisitTells, StackTells
  <2>2. Start(e) \in DOMAIN stack /\ stack[Start(e)].at = e
    BY <2>1 DEF Start
  <2>3. DOMAIN stack = 1 .. Len(stack)
    BY <1>2 DEF StackTells
  <2>4. QED
    BY <2>2, <2>3
<1>5. PICK n \in Nat : n = Len(stack) /\ s \in 1 .. n
  BY <1>2
<1>6. PICK m \in Nat : m = n - s + 1 /\ m >= 1
  BY <1>5
<1>7. PICK X : X = ToSet(names)
  OBVIOUS
<1>8. PICK p \in Seq(X) : p = [i \in 1 .. m |-> stack[s + i - 1].at]
  <2>1. \A i \in 1 .. m : s + i - 1 \in 1 .. n
    BY <1>5, <1>6
  <2>2. \A i \in 1 .. m : stack[s + i - 1].at \in X
    BY <1>2, <1>5, <1>7, <2>1 DEF StackTells, FrameTells
  <2>3. [i \in 1 .. m |-> stack[s + i - 1].at] \in [1 .. m -> X]
    BY <2>2
  <2>4. [1 .. m -> X] \subseteq Seq(X)
    OBVIOUS
  <2>5. QED
    BY <2>3, <2>4
<1>9. Len(p) = m /\ \A i \in 1 .. m : p[i] = stack[s + i - 1].at
  BY <1>6, <1>8
<1>10. PICK c \in Seq(X) :
         c = Append(p, e) /\ Len(c) = m + 1 /\ c[m + 1] = e /\ \A i \in 1 .. m : c[i] = p[i]
  <2>1. PICK x \in X : x = e
    BY <1>3, <1>7
  <2>2. Append(p, x) \in Seq(X) /\ Len(Append(p, x)) = Len(p) + 1
    BY <2>1
  <2>3. Append(p, x)[Len(p) + 1] = x /\ \A i \in 1 .. Len(p) : Append(p, x)[i] = p[i]
    BY <2>1
  <2>4. QED
    BY <1>9, <2>1, <2>2, <2>3
<1>11. cycle' = c
  <2>1. cycle' = p \o <<e>>
    BY <1>3, <1>4, <1>5, <1>6, <1>8 DEF ReportCycle
  <2>2. p \o <<e>> = Append(p, e)
    BY <1>3, <1>7
  <2>3. QED
    BY <1>10, <2>1, <2>2
<1>12. Len(c) > 1 /\ c[1] = Last(c)
  <2>1. c[1] = stack[s].at
    <3>1. 1 \in 1 .. m /\ s + 1 - 1 = s
      BY <1>5, <1>6
    <3>2. QED
      BY <1>9, <1>10, <3>1
  <2>2. Last(c) = e
    BY <1>10 DEF Last
  <2>3. QED
    BY <1>4, <1>6, <1>10, <2>1, <2>2
<1>13. ASSUME NEW i \in 1 .. Len(c) - 1 PROVE Before(c[i], c[i + 1])
  <2>1. i \in 1 .. m /\ c[i] = stack[s + i - 1].at
    BY <1>6, <1>9, <1>10
  <2>2. CASE i = m
    <3>1. s + i - 1 = n
      BY <1>5, <1>6, <2>2
    <3>2. QED
      BY <1>2, <1>3, <1>5, <1>10, <2>1, <2>2, <3>1
  <2>3. CASE i # m
    <3>1. PICK k \in 1 .. n - 1 : k = s + i - 1 /\ k + 1 = s + (i + 1) - 1
      BY <1>5, <1>6, <2>1, <2>3
    <3>2. i + 1 \in 1 .. m
      BY <1>6, <2>1, <2>3
    <3>3. c[i + 1] = stack[s + (i + 1) - 1].at
      BY <1>9, <1>10, <3>2
    <3>4. Before(stack[k].at, stack[k + 1].at)
      BY <1>2, <1>5, <3>1, FramesFollow
    <3>5. QED
      BY <2>1, <3>1, <3>3, <3>4
  <2>4. QED
    BY <2>2, <2>3
<1>14. CycleTells'
  BY <1>1, <1>11, <1>12, <1>13, SameEdges DEF CycleTells, Last
<1>15. VisitTells'
  BY <1>1, <1>2, SameEdges DEF VisitTells
<1>16. StackTells'
  BY <1>1, <1>2, SameEdges DEF StackTells, FrameTells
<1>17. DoneTells'
  <2>1. Done' = Done
    BY <1>1, SameEdges DEF Done
  <2>2. QED
    BY <1>1, <1>2, <2>1, SameEdges DEF DoneTells, Acyclic
<1>18. QED
  BY <1>1, <1>14, <1>15, <1>16, <1>17 DEF SearchInv, Searched

(* Every step keeps what holds of the search. *)
LEMMA LoadStep ==
  ASSUME LoadInv, [Next]_vars
  PROVE  LoadInv'
<1>1. ParseInv'
  BY ParseStep DEF LoadInv
<1>2. CASE UNCHANGED vars
  BY <1>1, <1>2, SameSearch DEF vars, LoadInv
<1>3. CASE \/ ReadSections \/ ReadIncludes \/ ReadHead \/ ReadGoto \/ ReadWait \/ ReadRoute
           \/ RoutesRead \/ ReadRest \/ ReadExecution \/ ReadTrigger
  <2>1. UNCHANGED search
    BY <1>3 DEF ReadSections, ReadIncludes, ReadHead, ReadGoto, ReadWait, ReadRoute,
         RoutesRead, ReadRest, ReadExecution, ReadTrigger, Refuse
  <2>2. stage \notin Searched
    BY <1>3 DEF ReadSections, ReadIncludes, ReadHead, ReadGoto, ReadWait, ReadRoute,
         RoutesRead, ReadRest, ReadExecution, ReadTrigger, Searched
  <2>3. stage' \notin Searched
    BY <1>3 DEF ReadSections, ReadIncludes, ReadHead, ReadGoto, ReadWait, ReadRoute,
         RoutesRead, ReadRest, ReadExecution, ReadTrigger, Refuse, Searched
  <2>4. QED
    BY <1>1, <2>1, <2>2, <2>3, NotSearching DEF LoadInv
<1>4. QED
  BY <1>1, <1>2, <1>3, BeginSearchStep, VisitRootStep, PassOverStep, VisitStep,
     ReportCycleStep, LeaveStep DEF Next, LoadInv

(* It holds at first. *)
LEMMA LoadInit ==
  ASSUME Init
  PROVE  LoadInv
BY ParseInit DEF Init, LoadInv, SearchInv, Searched

(* The parsed file and the search fit together in every reachable state. *)
THEOREM LoadInductive == Spec => []LoadInv
<1>1. Init => LoadInv
  BY LoadInit
<1>2. LoadInv /\ [Next]_vars => LoadInv'
  BY LoadStep
<1>3. QED
  BY <1>1, <1>2, PTL DEF Spec

(* _walk_execution_graph misses no cycle and invents none: a file that is  *)
(* loaded has no set of executions each followed by another of the set,    *)
(* and the cycle reported is a path that comes back to where it starts.    *)
THEOREM Cycles == Spec => []CyclesReported
<1>1. ASSUME LoadInv PROVE CyclesReported
  <2>1. ASSUME stage = "loaded"
        PROVE  ~ \E S \in (SUBSET ToSet(names)) \ {{}} : \A a \in S : \E b \in S : Before(a, b)
    <3>1. Acyclic(ToSet(names))
      BY <1>1, <2>1 DEF LoadInv, SearchInv, Searched, DoneTells
    <3>2. QED
      BY <3>1 DEF Acyclic
  <2>2. stage = "cyclic" => CycleTells
    BY <1>1 DEF LoadInv, SearchInv, Searched
  <2>3. QED
    BY <2>1, <2>2 DEF CyclesReported, CycleTells
<1>2. QED
  BY <1>1, LoadInductive, PTL

(* validate_execution_graph_is_acyclic establishes for every file what the *)
(* model of the execution graph assumes of its configuration.              *)
THEOREM Loaded == Spec => []LoadedIsAcyclic
<1>1. ASSUME LoadInv, stage = "loaded",
             NEW S \in SUBSET ToSet(names), S # {}, \A y \in S : \E x \in S : Before(x, y)
      PROVE  FALSE
  <2> DEFINE Waits(T) == T \in SUBSET ToSet(names) /\ T # {} /\ \A y \in T : \E x \in T : Before(x, y)
             Sizes == {Cardinality(T) : T \in {U \in SUBSET ToSet(names) : Waits(U)}}
  <2>1. IsFiniteSet(ToSet(names)) /\ Acyclic(ToSet(names))
    BY <1>1, DistinctCount DEF LoadInv, ParseInv, NamesInv, SearchInv, Searched, DoneTells
  <2>2. \A T \in SUBSET ToSet(names) : IsFiniteSet(T) /\ Cardinality(T) \in Nat
    BY <2>1, FS_Subset, FS_CardinalityType
  <2>3. Sizes \in SUBSET Nat /\ Sizes # {}
    BY <1>1, <2>2
  <2>4. PICK n \in Sizes : \A k \in Sizes : n <= k
    <3> HIDE DEF Sizes
    <3>1. QED
      BY <2>3, Least
  <2>5. PICK T \in SUBSET ToSet(names) : Waits(T) /\ n = Cardinality(T)
    OBVIOUS
  <2>6. PICK a \in T : \A b \in T : ~ Before(a, b)
    BY <2>1, <2>5 DEF Acyclic
  <2>7. T \ {a} \in SUBSET ToSet(names) /\ Cardinality(T \ {a}) = n - 1 /\ n \in Nat
    BY <2>2, <2>5, FS_RemoveElement
  <2>8. Waits(T \ {a})
    <3>1. ASSUME NEW y \in T PROVE \E x \in T \ {a} : Before(x, y)
      <4>1. PICK x \in T : Before(x, y)
        BY <2>5
      <4>2. x # a
        BY <2>6, <4>1
      <4>3. QED
        BY <4>1, <4>2
    <3>2. QED
      BY <2>7, <3>1
  <2>9. n - 1 \in Sizes
    BY <2>7, <2>8
  <2>10. QED
    BY <2>4, <2>7, <2>9
<1>2. LoadInv => LoadedIsAcyclic
  BY <1>1 DEF LoadedIsAcyclic
<1>3. QED
  BY <1>2, LoadInductive, PTL

=============================================================================
