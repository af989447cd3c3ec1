--------------------------- MODULE ContextStoreProofs ---------------------------
(***************************************************************************)
(* What holds of the context of an execution for any keys, signals and     *)
(* routes, and any number of crashes and of commands of the client.        *)
(*                                                                         *)
(* The argument has two halves that meet in the prompt.  SignalWritten     *)
(* follows the :signal keys on disk through clearing, storing, the saving  *)
(* of the flag and the resumes that rely on it.  LayersRead follows the    *)
(* reading of the layers beside a client that changes files under it.      *)
(***************************************************************************)
EXTENDS ContextStore, FiniteSetTheorems, SequenceTheorems, TLAPS

(* Every key a directory of the context can hold a file for. *)
AllKeys == Key \cup SignalKeys

(* What a file of the context can hold: a text, the name of the signal, or *)
(* its payload.                                                            *)
Value == Text \cup Signal \cup {"sig"}

(* The keys of a layer, with their values. *)
Context == UNION {[D -> Value] : D \in SUBSET AllKeys}

(* Where the engine is; "down": no process runs the execution. *)
Place ==
  {"down", "begin", "prepare", "clear", "store", "hooks", "load", "list", "read", "agent", "wait",
   "storeBack", "storeOn", "reset", "saveSignal", "end"}

(* A command of the client under way. *)
Command == [at : {"made", "temp"}, layer : Layer, key : Key, text : Text]

(* The variables have their types. *)
Types ==
  /\ pc \in Place
  /\ files \in [Layer -> Context]
  /\ temp \in BOOLEAN /\ ready \in BOOLEAN
  /\ {active, taken, written} \subseteq Signal \cup {None}
  /\ saved \in Saved \cup {None}
  /\ layers \in Seq(Context)
  /\ client \in Command \cup {None}
  /\ answered \in BOOLEAN /\ stale \in BOOLEAN
  /\ touched \in SUBSET Key

(* A directory holds finitely many files, so that it can be listed. *)
Finite == \A l \in Layer : IsFiniteSet(DOMAIN files[l])

(* Where the entries of a signal are written. *)
Storing == {"store", "storeBack", "storeOn"}

(* What is to be done, at the places where something is. *)
TodoType ==
  /\ pc \in {"clear", "read"} => todo \in Seq(AllKeys)
  /\ pc \in Storing => todo \in Seq(SignalKeys \X Value)
  /\ pc \notin {"clear", "read"} \cup Storing => todo = <<>>

(* What the place of the engine tells of the state file and of the flag:   *)
(* past the preparation the flag is set, and it is saved before the agent  *)
(* is asked.                                                               *)
Flow ==
  /\ prompt # None => pc = "agent"
  /\ pc \notin {"down", "begin"} => saved # None
  /\ saved # None /\ (saved.at # "hooks" \/ answered = TRUE) => saved.ready = TRUE
  /\ pc \in {"hooks", "load", "wait", "end"} => saved.at = pc
  /\ pc \in {"down", "begin"} => ready = FALSE
  /\ pc = "begin" => answered = FALSE
  /\ pc = "prepare" => ready = saved.ready
  /\ pc \in {"clear", "store"} => ready = FALSE /\ saved.ready = FALSE
  /\ pc \notin {"down", "begin", "prepare", "clear", "store"} => ready = TRUE
  /\ pc \in {"list", "read", "agent"} => saved.at = "load"
  /\ pc \in {"storeBack", "storeOn"} => saved.at = "wait"
  /\ pc = "saveSignal" => saved.at \in {"hooks", "end"}
  /\ pc \in {"storeBack", "storeOn", "reset", "saveSignal"} => answered = TRUE

(* How many layers have been read. *)
Position ==
  /\ pc = "list" => Len(layers) \in 0 .. 3
  /\ pc = "read" => Len(layers) \in 1 .. 3

(* The directory of the execution has k as :signal has it of s in the end. *)
Written(k, s) ==
  k \in DOMAIN files["execution"] /\ files["execution"][k] = Shown(s)[k]

(* The directory has all of s ... *)
AllWritten(s) == \A k \in DOMAIN Shown(s) : Written(k, s)

(* ... and no other :signal key. *)
Within(s) == DOMAIN files["execution"] \cap SignalKeys \subseteq DOMAIN Shown(s)

(* The last entry still to be written for k is the one of s. *)
Ends(k, s) ==
  \E i \in 1 .. Len(todo) :
    /\ todo[i] = <<k, Shown(s)[k]>>
    /\ \A j \in 1 .. Len(todo) : i < j => todo[j][1] # k

(* A key of s is written for good, or will be. *)
Stored(s) ==
  /\ \A i \in 1 .. Len(todo) : todo[i][1] \in DOMAIN Shown(s)
  /\ \A k \in DOMAIN Shown(s) :
       \/ Ends(k, s)
       \/ Written(k, s) /\ \A i \in 1 .. Len(todo) : todo[i][1] # k

(* Only the directory of the execution holds :signal keys. *)
OnlyExecution ==
  \A l \in Layer \ {"execution"} : DOMAIN files[l] \subseteq Key

(* What the clearing has not removed is listed. *)
SignalCleared ==
  pc = "clear" => DOMAIN files["execution"] \cap SignalKeys \subseteq ToSet(todo)

(* What is being stored: by the preparation the signal of the loop, into a *)
(* namespace without other keys, by a wait task the one it took.           *)
SignalStored ==
  \A s \in Signal \cup {None} :
    /\ pc = "store" /\ s = active => Stored(s) /\ Within(s)
    /\ pc \in {"storeBack", "storeOn"} /\ s = written => Stored(s)

(* As soon as the flag is set, in the engine or in the state file, the     *)
(* directory has the signal last stored: what a resume relies on, that     *)
(* prepares nothing again.                                                 *)
SignalKept ==
  (ready = TRUE \/ (saved # None /\ saved.ready = TRUE)) /\ answered = FALSE =>
    \A s \in Signal \cup {None} : s = written => Within(s) /\ AllWritten(s)

(* It has the one a wait task stored from the end of that task to the next *)
(* wait task: a process stopped while it stores one goes on by waiting.    *)
AnswerKept ==
  answered = TRUE /\ (pc = "reset" \/ (saved # None /\ saved.at \in {"hooks", "load"})) =>
    \A s \in Signal \cup {None} : s = written => AllWritten(s)

(* The loop goes by the signal last stored, and so would a resume, but for *)
(* the two ways to another one.                                            *)
SignalFollowed ==
  stale = FALSE /\ answered = FALSE =>
    /\ ready = TRUE => active = written
    /\ saved # None /\ saved.ready = TRUE => saved.active = written

(* The inductive invariant of the :signal keys. *)
SignalWritten == SignalCleared /\ SignalStored /\ SignalKept /\ AnswerKept /\ SignalFollowed

(* The i-th layer of the prompt has k as the files have it ... *)
Whole(i, k) ==
  /\ k \in DOMAIN layers[i] <=> k \in DOMAIN files[Layers[i]]
  /\ k \in DOMAIN layers[i] => layers[i][k] = files[Layers[i]][k]

(* ... or will, once what is listed has been read. *)
Partly(i, k) ==
  /\ k \in DOMAIN layers[i] =>
       k \in DOMAIN files[Layers[i]] /\ layers[i][k] = files[Layers[i]][k]
  /\ k \in DOMAIN files[Layers[i]] => k \in DOMAIN layers[i] \/ k \in ToSet(todo)

(* What has been read of the layers is what the files hold, but for what   *)
(* the client has touched since the reading began.                         *)
LayersRead ==
  \A i \in 1 .. 3, k \in AllKeys \ touched :
    /\ (pc = "list" /\ i <= Len(layers)) \/ (pc = "read" /\ i < Len(layers)) => Whole(i, k)
    /\ pc = "read" /\ i = Len(layers) => Partly(i, k)

(* The prompt has k as the innermost of the files that hold it. *)
InPrompt(k) ==
  /\ k \in DOMAIN prompt <=> \E l \in Layer : k \in DOMAIN files[l]
  /\ k \in DOMAIN prompt =>
       prompt[k] = IF k \in DOMAIN files["task"] THEN files["task"][k]
                   ELSE IF k \in DOMAIN files["execution"] THEN files["execution"][k]
                   ELSE files["global"][k]

(* The same of a prompt built. *)
PromptRead == prompt # None => \A k \in AllKeys \ touched : InPrompt(k)

(* The inductive invariant of the control. *)
Basics == Types /\ Finite /\ TodoType /\ Flow /\ Position

-----------------------------------------------------------------------------
(* The keys of the client, of the signal and the fields are kept apart. *)
LEMMA KeyFacts ==
  /\ Key \cap SignalKeys = {}
  /\ IsFiniteSet(Field)
  /\ None \notin Signal
  /\ \A s \in Signal : DOMAIN s \subseteq Field /\ \A f \in DOMAIN s : s[f][2] \in Text
<1>1. \A s \in Signal : \A f \in DOMAIN s : s[f] \in {"string", "number"} \X Text
  BY ContextAssumption
<1>2. QED
  BY <1>1, ContextAssumption DEF SignalKeys

(* The three layers. *)
LEMMA LayerFacts ==
  /\ Layer = {"global", "execution", "task"}
  /\ \A i \in 1 .. 3 : Layers[i] \in Layer
  /\ Layers[1] = "global" /\ Layers[2] = "execution" /\ Layers[3] = "task"
<1>1. DOMAIN Layers = 1 .. 3
  BY DEF Layers
<1>2. QED
  BY <1>1 DEF Layer, Layers, ToSet

(* Listing a finite set gives each of its elements: an injection between   *)
(* finite sets of one size is a surjection.                                *)
LEMMA SetToSeqLists ==
  ASSUME NEW S, IsFiniteSet(S)
  PROVE  /\ SetToSeq(S) \in Seq(S) /\ ToSet(SetToSeq(S)) = S
         /\ IsInjective(SetToSeq(S))
<1> DEFINE n == Cardinality(S)
<1>1. n \in Nat /\ ExistsBijection(1 .. n, S)
  BY FS_CardinalityType
<1>2. PICK g \in Bijection(1 .. n, S) : TRUE
  BY <1>1 DEF ExistsBijection
<1>3. g \in [1 .. n -> S] /\ IsInjective(g)
  BY <1>2 DEF Bijection, Injection, IsInjective
<1> DEFINE f == SetToSeq(S)
<1>4. f \in [1 .. n -> S] /\ IsInjective(f)
  BY <1>3 DEF SetToSeq
<1>5. f \in Injection(1 .. n, S)
  BY <1>4 DEF Injection, IsInjective
<1>6. IsFiniteSet(1 .. n) /\ Cardinality(1 .. n) = n
  BY <1>1, FS_Interval
<1>7. f \in Surjection(1 .. n, S)
  BY <1>5, <1>6, FS_Injection
<1>8. ToSet(f) = S
  BY <1>4, <1>7 DEF Surjection, ToSet
<1>9. QED
  BY <1>1, <1>4, <1>8

(* The keys and values of a layer. *)
LEMMA ContextFacts ==
  ASSUME NEW f \in Context
  PROVE  DOMAIN f \subseteq AllKeys /\ \A k \in DOMAIN f : f[k] \in Value
<1>1. PICK D \in SUBSET AllKeys : f \in [D -> Value]
  BY DEF Context
<1>2. QED
  BY <1>1

(* What is a layer. *)
LEMMA MakeContext ==
  ASSUME NEW D \in SUBSET AllKeys, NEW f \in [D -> Value]
  PROVE  f \in Context
  BY DEF Context

(* No key at all is a layer. *)
LEMMA EmptyFacts == Empty \in Context /\ DOMAIN Empty = {}
<1>1. Empty \in [{} -> Value] /\ {} \in SUBSET AllKeys /\ DOMAIN Empty = {}
  BY DEF Empty
<1>2. QED
  BY <1>1, MakeContext

(* Setting a key. *)
LEMMA WithFacts ==
  ASSUME NEW f, NEW k, NEW v
  PROVE  /\ DOMAIN With(f, k, v) = DOMAIN f \cup {k}
         /\ With(f, k, v)[k] = v
         /\ \A x \in DOMAIN f \ {k} : With(f, k, v)[x] = f[x]
         /\ f \in Context /\ k \in AllKeys /\ v \in Value => With(f, k, v) \in Context
<1>1. /\ DOMAIN With(f, k, v) = DOMAIN f \cup {k}
      /\ With(f, k, v)[k] = v
      /\ \A x \in DOMAIN f \ {k} : With(f, k, v)[x] = f[x]
  BY DEF With
<1>2. ASSUME f \in Context, k \in AllKeys, v \in Value
      PROVE  With(f, k, v) \in Context
  <2>1. DOMAIN f \subseteq AllKeys /\ \A x \in DOMAIN f : f[x] \in Value
    BY <1>2, ContextFacts
  <2>2. With(f, k, v) \in [DOMAIN f \cup {k} -> Value]
    BY <2>1, <1>2 DEF With
  <2>3. QED
    BY <2>1, <2>2, <1>2, MakeContext
<1>3. QED
  BY <1>1, <1>2

(* Removing a key. *)
LEMMA WithoutFacts ==
  ASSUME NEW f, NEW k
  PROVE  /\ DOMAIN Without(f, k) = DOMAIN f \ {k}
         /\ \A x \in DOMAIN f \ {k} : Without(f, k)[x] = f[x]
         /\ f \in Context => Without(f, k) \in Context
<1>1. /\ DOMAIN Without(f, k) = DOMAIN f \ {k}
      /\ \A x \in DOMAIN f \ {k} : Without(f, k)[x] = f[x]
  BY DEF Without, Restrict
<1>2. ASSUME f \in Context
      PROVE  Without(f, k) \in Context
  <2>1. DOMAIN f \subseteq AllKeys /\ \A x \in DOMAIN f : f[x] \in Value
    BY <1>2, ContextFacts
  <2>2. Without(f, k) \in [DOMAIN f \ {k} -> Value]
    BY <2>1, <1>1 DEF Without, Restrict
  <2>3. QED
    BY <2>1, <2>2, MakeContext
<1>3. QED
  BY <1>1, <1>2

(* What :signal has of a signal. *)
LEMMA ShownFacts ==
  /\ DOMAIN Shown(None) = {} /\ Shown(None) = Empty
  /\ \A s \in Signal :
       /\ DOMAIN Shown(s) = {"type", "payload"} \cup DOMAIN s
       /\ \A k \in DOMAIN s : Shown(s)[k] = s[k][2]
       /\ "type" \notin DOMAIN s => Shown(s)["type"] = "sig"
       /\ "payload" \notin DOMAIN s => Shown(s)["payload"] = s
  /\ \A s \in Signal \cup {None} :
       /\ DOMAIN Shown(s) \subseteq SignalKeys
       /\ Shown(s) = [k \in DOMAIN Shown(s) |-> Shown(s)[k]]
<1>1. DOMAIN Shown(None) = {} /\ Shown(None) = Empty
  BY EmptyFacts DEF Shown
<1>2. ASSUME NEW s \in Signal
      PROVE  /\ DOMAIN Shown(s) = {"type", "payload"} \cup DOMAIN s
             /\ \A k \in DOMAIN s : Shown(s)[k] = s[k][2]
             /\ "type" \notin DOMAIN s => Shown(s)["type"] = "sig"
             /\ "payload" \notin DOMAIN s => Shown(s)["payload"] = s
             /\ DOMAIN Shown(s) \subseteq SignalKeys
             /\ Shown(s) = [k \in DOMAIN Shown(s) |-> Shown(s)[k]]
  <2>1. s # None /\ DOMAIN s \subseteq Field
    BY KeyFacts
  <2>2. Shown(s) = [k \in {"type", "payload"} \cup DOMAIN s |->
                      IF k \in DOMAIN s THEN s[k][2] ELSE IF k = "type" THEN "sig" ELSE s]
    BY <2>1 DEF Shown
  <2>3. QED
    BY <2>1, <2>2 DEF SignalKeys
<1>3. QED
  BY <1>1, <1>2 DEF Empty

(* The files store_active_signal_context writes: the last one for a key    *)
(* is the one that stays.                                                  *)
LEMMA EntriesFacts ==
  ASSUME NEW s \in Signal
  PROVE  /\ Entries(s) \in Seq(SignalKeys \X Value)
         /\ \A i \in 1 .. Len(Entries(s)) : Entries(s)[i][1] \in DOMAIN Shown(s)
         /\ \A k \in DOMAIN Shown(s) : \E i \in 1 .. Len(Entries(s)) :
              /\ Entries(s)[i] = <<k, Shown(s)[k]>>
              /\ \A j \in 1 .. Len(Entries(s)) : i < j => Entries(s)[j][1] # k
<1> DEFINE fields == SetToSeq(DOMAIN s)
           tail == [i \in DOMAIN fields |-> <<fields[i], s[fields[i]][2]>>]
           head == <<<<"type", "sig">>, <<"payload", s>>>>
<1>1. DOMAIN s \subseteq Field /\ IsFiniteSet(DOMAIN s)
  BY KeyFacts, FS_Subset
<1>2. fields \in Seq(DOMAIN s) /\ ToSet(fields) = DOMAIN s /\ IsInjective(fields)
  BY <1>1, SetToSeqLists
<1>3. \A f \in DOMAIN s : s[f][2] \in Text
  BY KeyFacts
<1>4. PICK n \in Nat : DOMAIN fields = 1 .. n /\ Len(fields) = n
  BY <1>2
<1>5. \A i \in 1 .. n : fields[i] \in DOMAIN s
  BY <1>2, <1>4
<1>6. \A i \in 1 .. n : <<fields[i], s[fields[i]][2]>> \in SignalKeys \X Value
  BY <1>1, <1>3, <1>5 DEF SignalKeys, Value
<1>7. /\ tail \in Seq(SignalKeys \X Value) /\ Len(tail) = n
      /\ \A i \in 1 .. n : tail[i] = <<fields[i], s[fields[i]][2]>>
  BY <1>4, <1>6
<1>8. head \in Seq(SignalKeys \X Value) /\ Len(head) = 2
      /\ head[1] = <<"type", "sig">> /\ head[2] = <<"payload", s>>
  BY DEF SignalKeys, Value
<1>9. Entries(s) = head \o tail
  BY DEF Entries
<1>10. \A i, j \in 1 .. n : fields[i] = fields[j] => i = j
  BY <1>2, <1>4 DEF IsInjective
<1>11. \A k \in DOMAIN s : \E i \in 1 .. n : fields[i] = k
  BY <1>2, <1>4 DEF ToSet
<1> HIDE DEF fields, tail, head
<1>12. /\ Entries(s) \in Seq(SignalKeys \X Value) /\ Len(Entries(s)) = n + 2
       /\ Entries(s)[1] = <<"type", "sig">> /\ Entries(s)[2] = <<"payload", s>>
       /\ \A i \in 1 .. n : Entries(s)[i + 2] = <<fields[i], s[fields[i]][2]>>
  <2>1. /\ head \o tail \in Seq(SignalKeys \X Value) /\ Len(head \o tail) = Len(head) + Len(tail)
        /\ \A i \in 1 .. Len(head) + Len(tail) :
             (head \o tail)[i] = IF i <= Len(head) THEN head[i] ELSE tail[i - Len(head)]
    BY <1>7, <1>8, ConcatProperties
  <2>2. Len(head) = 2 /\ Len(tail) = n /\ Len(head) + Len(tail) = n + 2
    BY <1>4, <1>7, <1>8
  <2>3. \A i \in 1 .. n : i + 2 \in 1 .. n + 2 /\ ~ (i + 2 <= 2) /\ (i + 2) - 2 = i
    BY <1>4
  <2>4. \A i \in 1 .. n : (head \o tail)[i + 2] = tail[i]
    BY <2>1, <2>2, <2>3
  <2>5. 1 \in 1 .. n + 2 /\ 2 \in 1 .. n + 2 /\ 1 <= 2
    BY <1>4
  <2>6. (head \o tail)[1] = head[1] /\ (head \o tail)[2] = head[2]
    BY <2>1, <2>2, <2>5
  <2>7. QED
    BY <1>7, <1>8, <1>9, <2>1, <2>2, <2>4, <2>6
<1>13. \A i \in 1 .. n + 2 : i = 1 \/ i = 2 \/ (i - 2 \in 1 .. n /\ (i - 2) + 2 = i)
  BY <1>4
<1>14. \A i \in 1 .. n + 2 :
         \/ i = 1
         \/ i = 2
         \/ i - 2 \in 1 .. n /\ Entries(s)[i] = <<fields[i - 2], s[fields[i - 2]][2]>>
  BY <1>12, <1>13
<1>15. /\ DOMAIN Shown(s) = {"type", "payload"} \cup DOMAIN s
       /\ \A k \in DOMAIN s : Shown(s)[k] = s[k][2]
       /\ "type" \notin DOMAIN s => Shown(s)["type"] = "sig"
       /\ "payload" \notin DOMAIN s => Shown(s)["payload"] = s
  BY ShownFacts
<1>16. \A i \in 1 .. n + 2 : Entries(s)[i][1] \in DOMAIN Shown(s)
  BY <1>5, <1>12, <1>14, <1>15
<1>17. ASSUME NEW k \in DOMAIN Shown(s)
       PROVE  \E i \in 1 .. n + 2 :
                /\ Entries(s)[i] = <<k, Shown(s)[k]>>
                /\ \A j \in 1 .. n + 2 : i < j => Entries(s)[j][1] # k
  <2>1. CASE k \in DOMAIN s
    <3>1. PICK m \in 1 .. n : fields[m] = k
      BY <1>11, <2>1
    <3>2. m + 2 \in 1 .. n + 2 /\ Entries(s)[m + 2] = <<k, Shown(s)[k]>>
      BY <1>4, <1>12, <1>15, <2>1, <3>1
    <3>3. ASSUME NEW j \in 1 .. n + 2, m + 2 < j
          PROVE  Entries(s)[j][1] # k
      <4>1. j - 2 \in 1 .. n /\ j - 2 # m
        BY <1>4, <3>3
      <4>2. Entries(s)[j][1] = fields[j - 2]
        BY <1>4, <1>14, <3>3
      <4>3. QED
        BY <1>10, <3>1, <4>1, <4>2
    <3>4. QED
      BY <3>2, <3>3
  <2>2. CASE k = "type" /\ k \notin DOMAIN s
    <3>1. Entries(s)[1] = <<k, Shown(s)[k]>> /\ 1 \in 1 .. n + 2
      BY <1>4, <1>12, <1>15, <2>2
    <3>2. ASSUME NEW j \in 1 .. n + 2, 1 < j
          PROVE  Entries(s)[j][1] # k
      <4>1. CASE j = 2
        BY <1>12, <2>2, <4>1
      <4>2. CASE j # 2
        <5>1. j - 2 \in 1 .. n /\ Entries(s)[j][1] = fields[j - 2]
          BY <1>4, <1>14, <3>2, <4>2
        <5>2. QED
          BY <1>5, <2>2, <5>1
      <4>3. QED
        BY <4>1, <4>2
    <3>3. QED
      BY <3>1, <3>2
  <2>3. CASE k = "payload" /\ k \notin DOMAIN s
    <3>1. Entries(s)[2] = <<k, Shown(s)[k]>> /\ 2 \in 1 .. n + 2
      BY <1>4, <1>12, <1>15, <2>3
    <3>2. ASSUME NEW j \in 1 .. n + 2, 2 < j
          PROVE  Entries(s)[j][1] # k
      <4>1. j - 2 \in 1 .. n /\ Entries(s)[j][1] = fields[j - 2]
        BY <1>4, <1>14, <3>2
      <4>2. QED
        BY <1>5, <2>3, <4>1
    <3>3. QED
      BY <3>1, <3>2
  <2>4. QED
    BY <1>15, <2>1, <2>2, <2>3
<1>18. QED
  BY <1>12, <1>16, <1>17

(* Taking the first of a list. *)
LEMMA ListFacts ==
  ASSUME NEW S, NEW s \in Seq(S)
  PROVE  /\ ToSet(s) \subseteq S
         /\ s # <<>> => /\ Head(s) \in S /\ Tail(s) \in Seq(S)
                        /\ ToSet(s) = {Head(s)} \cup ToSet(Tail(s))
         /\ s = <<>> => ToSet(s) = {}
<1>1. Len(s) \in Nat /\ DOMAIN s = 1 .. Len(s) /\ \A i \in 1 .. Len(s) : s[i] \in S
  OBVIOUS
<1>2. ToSet(s) = {s[i] : i \in 1 .. Len(s)}
  BY <1>1 DEF ToSet
<1>3. ASSUME s # <<>>
      PROVE  /\ Head(s) \in S /\ Tail(s) \in Seq(S)
             /\ ToSet(s) = {Head(s)} \cup ToSet(Tail(s))
  <2>1. /\ Head(s) = s[1] /\ 1 \in 1 .. Len(s)
        /\ Tail(s) \in Seq(S) /\ Len(Tail(s)) = Len(s) - 1
        /\ \A i \in 1 .. Len(s) - 1 : Tail(s)[i] = s[i + 1]
    BY <1>3
  <2>2. DOMAIN Tail(s) = 1 .. Len(s) - 1
    BY <2>1
  <2>3. ToSet(Tail(s)) = {s[i + 1] : i \in 1 .. Len(s) - 1}
    <3>1. ToSet(Tail(s)) = {Tail(s)[i] : i \in 1 .. Len(s) - 1}
      BY <2>2 DEF ToSet
    <3>2. QED
      BY <3>1, <2>1
  <2>4. \A i \in 1 .. Len(s) : i = 1 \/ (i - 1 \in 1 .. Len(s) - 1 /\ s[i] = s[(i - 1) + 1])
    BY <1>1
  <2>5. \A i \in 1 .. Len(s) - 1 : i + 1 \in 1 .. Len(s)
    BY <1>1
  <2>6. ToSet(s) \subseteq {Head(s)} \cup ToSet(Tail(s))
    BY <2>1, <2>3, <2>4, <1>2
  <2>7. {Head(s)} \cup ToSet(Tail(s)) \subseteq ToSet(s)
    BY <2>1, <2>3, <2>5, <1>2
  <2>8. QED
    BY <2>1, <2>6, <2>7, <1>1
<1>4. s = <<>> => ToSet(s) = {}
  BY <1>1, <1>2
<1>5. QED
  BY <1>1, <1>2, <1>3, <1>4

(* Both kinds of keys are keys of the context. *)
LEMMA AnyIsAContextKey == Key \subseteq AllKeys /\ SignalKeys \subseteq AllKeys
  BY DEF AllKeys

(* No layer read. *)
LEMMA NoLayers == <<>> \in Seq(Context)
  BY EmptySeq

(* The parts of a state file ... *)
LEMMA SavedFacts ==
  ASSUME NEW x \in Saved
  PROVE  x.active \in Signal \cup {None} /\ x.ready \in BOOLEAN
         /\ x.at \in {"hooks", "load", "wait", "end"}
  BY DEF Saved

(* ... of one with another signal ... *)
LEMMA SavedActive ==
  ASSUME NEW x \in Saved, NEW a \in Signal \cup {None},
         NEW y, y = [x EXCEPT !.active = a]
  PROVE  y \in Saved /\ y.active = a /\ y.ready = x.ready /\ y.at = x.at
  BY DEF Saved

(* ... and of a new one. *)
LEMMA SavedWhole ==
  ASSUME NEW a \in Signal \cup {None}, NEW b \in BOOLEAN,
         NEW c \in {"hooks", "load", "wait", "end"}, NEW y, y = [active |-> a, ready |-> b,
               at |-> c]
  PROVE  y \in Saved /\ y.active = a /\ y.ready = b /\ y.at = c
  BY DEF Saved

(* _sync_and_save. *)
LEMMA SaveFacts ==
  ASSUME Types, NEW c \in {"hooks", "load", "wait", "end"}, Save(c)
  PROVE  saved' \in Saved /\ saved'.active = active /\ saved'.ready = ready /\ saved'.at = c
  BY SavedWhole DEF Save, Types

(* A command with its temporary file made. *)
LEMMA CommandFacts ==
  ASSUME NEW x \in Command, NEW y, y = [x EXCEPT !.at = "temp"]
  PROVE  y \in Command
  BY DEF Command

(* The control invariant holds at first. *)
LEMMA InitBasics == Init => Basics
<1> SUFFICES ASSUME Init PROVE Basics
  OBVIOUS
<1>1. files \in [Layer -> Context] /\ \A l \in Layer : DOMAIN files[l] = {}
  BY EmptyFacts DEF Init
<1>2. Types
  BY <1>1, NoLayers DEF Init, Types, Place
<1>3. Finite
  BY <1>1, FS_EmptySet DEF Finite
<1>4. TodoType /\ Flow /\ Position
  BY DEF Init, TodoType, Flow, Storing, Position
<1>5. QED
  BY <1>2, <1>3, <1>4 DEF Basics

(* The steps that change neither the files nor the list of keys to do. *)
Quiet ==
  \/ \E s \in Signal : Drain(s)
  \/ SaveFresh \/ Resume \/ PrepareAgain \/ OpenTemp \/ Prepared \/ HooksDone \/ BeginLoad
  \/ ListNext \/ BuildPrompt \/ AgentDone \/ SaveRoute \/ SaveReset \/ SaveSignal
  \/ \E l \in Layer, k \in Key, text \in Text : Begin(l, k, text)
  \/ Open \/ Killed

(* Those that end the process. *)
Ending == LoadFails \/ Finish \/ Crash

(* Those steps keep the control invariant. *)
LEMMA QuietBasics ==
  ASSUME Basics, Quiet
  PROVE  Basics'
<1> USE DEF Basics
<1>1. UNCHANGED <<files, todo>>
  BY DEF Quiet, Drain, SaveFresh, Resume, PrepareAgain, OpenTemp, Prepared, HooksDone, BeginLoad,
         ListNext, BuildPrompt, AgentDone, SaveRoute, SaveReset, SaveSignal, Begin, Open, Killed,
         Stop, disk, engine, ours, past
<1>2. Finite'
  BY <1>1 DEF Finite
<1>3. \A x \in Saved : x.at \in {"hooks", "load", "wait", "end"}
  BY SavedFacts
<1>4. CASE \E s \in Signal : Drain(s)
  <2>1. pc \notin {"down", "begin"} => saved \in Saved
    BY DEF Types, Flow
  <2>2. Types'
    BY <1>4, <1>1, <1>3, <2>1, NoLayers, SavedFacts DEF Drain, disk, engine, ours, past, Types,
       Place
  <2>3. TodoType'
    BY <1>4, <1>1, <1>3, <2>1, SavedFacts DEF Drain, disk, engine, ours, past, TodoType, Flow,
       Storing
  <2>4. Flow'
    BY NoneAssumption, <1>4, <1>3, <2>1, SavedFacts DEF Drain, disk, engine, ours, past, Types,
       Flow
  <2>5. Position'
    BY <1>4, <1>3, <2>1, SavedFacts DEF Drain, disk, engine, ours, past, Position, Types
  <2>6. QED
    BY <1>2, <2>2, <2>3, <2>4, <2>5
<1>5. CASE Resume
  <2>1. pc \notin {"down", "begin"} => saved \in Saved
    BY DEF Types, Flow
  <2>2. Types'
    BY <1>5, <1>1, <1>3, <2>1, NoLayers, SavedFacts DEF Resume, disk, engine, ours, past, Types,
       Place
  <2>3. TodoType'
    BY <1>5, <1>1, <1>3, <2>1, SavedFacts DEF Resume, disk, engine, ours, past, TodoType, Flow,
       Storing
  <2>4. Flow'
    BY NoneAssumption, <1>5, <1>3, <2>1, SavedFacts DEF Resume, disk, engine, ours, past, Types,
       Flow
  <2>5. Position'
    BY <1>5, <1>3, <2>1, SavedFacts DEF Resume, disk, engine, ours, past, Position, Types
  <2>6. QED
    BY <1>2, <2>2, <2>3, <2>4, <2>5
<1>6. CASE PrepareAgain
  <2>1. pc \notin {"down", "begin"} => saved \in Saved
    BY DEF Types, Flow
  <2>2. Types'
    BY <1>6, <1>1, <1>3, <2>1, NoLayers, SavedFacts DEF PrepareAgain, disk, engine, ours, past,
       Types, Place
  <2>3. TodoType'
    BY <1>6, <1>1, <1>3, <2>1, SavedFacts DEF PrepareAgain, disk, engine, ours, past, TodoType,
       Flow, Storing
  <2>4. Flow'
    BY NoneAssumption, <1>6, <1>3, <2>1, SavedFacts DEF PrepareAgain, disk, engine, ours, past,
       Types, Flow
  <2>5. Position'
    BY <1>6, <1>3, <2>1, SavedFacts DEF PrepareAgain, disk, engine, ours, past, Position, Types
  <2>6. QED
    BY <1>2, <2>2, <2>3, <2>4, <2>5
<1>7. CASE OpenTemp
  <2>1. pc \notin {"down", "begin"} => saved \in Saved
    BY DEF Types, Flow
  <2>2. Types'
    BY <1>7, <1>1, <1>3, <2>1, NoLayers, SavedFacts DEF OpenTemp, disk, engine, ours, past,
       Types, Place
  <2>3. TodoType'
    BY <1>7, <1>1, <1>3, <2>1, SavedFacts DEF OpenTemp, disk, engine, ours, past, TodoType, Flow,
       Storing
  <2>4. Flow'
    BY NoneAssumption, <1>7, <1>3, <2>1, SavedFacts DEF OpenTemp, disk, engine, ours, past,
       Types, Flow
  <2>5. Position'
    BY <1>7, <1>3, <2>1, SavedFacts DEF OpenTemp, disk, engine, ours, past, Position, Types
  <2>6. QED
    BY <1>2, <2>2, <2>3, <2>4, <2>5
<1>8. CASE Prepared
  <2>1. pc \notin {"down", "begin"} => saved \in Saved
    BY DEF Types, Flow
  <2>2. Types'
    BY <1>8, <1>1, <1>3, <2>1, NoLayers, SavedFacts DEF Prepared, disk, engine, ours, past,
       Types, Place
  <2>3. TodoType'
    BY <1>8, <1>1, <1>3, <2>1, SavedFacts DEF Prepared, disk, engine, ours, past, TodoType, Flow,
       Storing
  <2>4. Flow'
    BY NoneAssumption, <1>8, <1>3, <2>1, SavedFacts DEF Prepared, disk, engine, ours, past,
       Types, Flow
  <2>5. Position'
    BY <1>8, <1>3, <2>1, SavedFacts DEF Prepared, disk, engine, ours, past, Position, Types
  <2>6. QED
    BY <1>2, <2>2, <2>3, <2>4, <2>5
<1>9. CASE HooksDone
  <2>1. /\ pc = "hooks"
        /\ pc' = "load"
        /\ UNCHANGED <<temp, active, taken, ready, layers, client, written, answered, touched>>
        /\ stale' \in BOOLEAN /\ prompt' \in {prompt, None}
    BY <1>9 DEF HooksDone, engine, ours, past, Types
  <2>2. saved' \in Saved /\ saved'.active = active /\ saved'.ready = ready /\ saved'.at = "load"
    BY <1>9, SaveFacts DEF HooksDone
  <2>3. Types'
    BY <1>1, <2>1, <2>2 DEF Types, Place
  <2>4. TodoType' /\ Position'
    BY <1>1, <2>1, <2>2 DEF TodoType, Position, Storing
  <2>5. Flow'
    BY NoneAssumption, <1>9, <2>1, <2>2 DEF Types, Flow, HooksDone
  <2>6. QED
    BY <1>2, <2>3, <2>4, <2>5
<1>10. CASE BeginLoad
  <2>1. pc \notin {"down", "begin"} => saved \in Saved
    BY DEF Types, Flow
  <2>2. Types'
    BY <1>10, <1>1, <1>3, <2>1, NoLayers, SavedFacts DEF BeginLoad, disk, engine, ours, past,
       Types, Place
  <2>3. TodoType'
    BY <1>10, <1>1, <1>3, <2>1, SavedFacts DEF BeginLoad, disk, engine, ours, past, TodoType,
       Flow, Storing
  <2>4. Flow'
    BY NoneAssumption, <1>10, <1>3, <2>1, SavedFacts DEF BeginLoad, disk, engine, ours, past,
       Types, Flow
  <2>5. Position'
    BY <1>10, <1>3, <2>1, SavedFacts DEF BeginLoad, disk, engine, ours, past, Position, Types
  <2>6. QED
    BY <1>2, <2>2, <2>3, <2>4, <2>5
<1>11. CASE ListNext
  <2>1. pc \notin {"down", "begin"} => saved \in Saved
    BY DEF Types, Flow
  <2>2. Types'
    BY <1>11, <1>1, <1>3, <2>1, NoLayers, SavedFacts DEF ListNext, disk, engine, ours, past,
       Types, Place
  <2>3. TodoType'
    BY <1>11, <1>1, <1>3, <2>1, SavedFacts DEF ListNext, disk, engine, ours, past, TodoType,
       Flow, Storing
  <2>4. Flow'
    BY NoneAssumption, <1>11, <1>3, <2>1, SavedFacts DEF ListNext, disk, engine, ours, past,
       Types, Flow
  <2>5. Position'
    BY <1>11, <1>3, <2>1, SavedFacts DEF ListNext, disk, engine, ours, past, Position, Types
  <2>6. QED
    BY <1>2, <2>2, <2>3, <2>4, <2>5
<1>12. CASE BuildPrompt
  <2>1. pc \notin {"down", "begin"} => saved \in Saved
    BY DEF Types, Flow
  <2>2. Types'
    BY <1>12, <1>1, <1>3, <2>1, NoLayers, SavedFacts DEF BuildPrompt, disk, engine, ours, past,
       Types, Place
  <2>3. TodoType'
    BY <1>12, <1>1, <1>3, <2>1, SavedFacts DEF BuildPrompt, disk, engine, ours, past, TodoType,
       Flow, Storing
  <2>4. Flow'
    BY NoneAssumption, <1>12, <1>3, <2>1, SavedFacts DEF BuildPrompt, disk, engine, ours, past,
       Types, Flow
  <2>5. Position'
    BY <1>12, <1>3, <2>1, SavedFacts DEF BuildPrompt, disk, engine, ours, past, Position, Types
  <2>6. QED
    BY <1>2, <2>2, <2>3, <2>4, <2>5
<1>13. CASE AgentDone
  <2>1. /\ pc = "agent"
        /\ pc' = saved'.at
        /\ UNCHANGED <<temp, active, taken, ready, layers, client, written, answered, touched>>
        /\ stale' \in BOOLEAN /\ prompt' \in {prompt, None}
    BY <1>13 DEF AgentDone, engine, ours, past, Types
  <2>2. /\ saved' \in Saved /\ saved'.active = active /\ saved'.ready = ready
        /\ saved'.at \in {"wait", "end"}
    BY <1>13, SaveFacts DEF AgentDone
  <2>3. Types'
    BY <1>1, <2>1, <2>2 DEF Types, Place
  <2>4. TodoType' /\ Position'
    BY <1>1, <2>1, <2>2 DEF TodoType, Position, Storing
  <2>5. Flow'
    BY NoneAssumption, <1>13, <2>1, <2>2 DEF Types, Flow, AgentDone
  <2>6. QED
    BY <1>2, <2>3, <2>4, <2>5
<1>14. CASE SaveRoute
  <2>1. /\ pc \in {"storeBack", "storeOn"} /\ todo = <<>>
        /\ pc' \in {"reset", "saveSignal"}
        /\ UNCHANGED <<temp, active, taken, ready, layers, client, written, answered, touched>>
        /\ stale' \in BOOLEAN /\ prompt' \in {prompt, None}
    BY <1>14 DEF SaveRoute, engine, ours, past, Types
  <2>2. saved' \in Saved /\ saved'.active = active /\ saved'.ready = ready /\ saved'.at = "end"
    BY <1>14, SaveFacts DEF SaveRoute
  <2>3. Types'
    BY <1>1, <2>1, <2>2 DEF Types, Place
  <2>4. TodoType' /\ Position'
    BY <1>1, <2>1, <2>2 DEF TodoType, Position, Storing
  <2>5. Flow'
    BY NoneAssumption, <1>14, <2>1, <2>2 DEF Types, Flow, SaveRoute
  <2>6. QED
    BY <1>2, <2>3, <2>4, <2>5
<1>19. CASE SaveReset
  <2>1. /\ pc = "reset"
        /\ pc' = "saveSignal"
        /\ UNCHANGED <<temp, active, taken, ready, layers, client, written, answered, touched>>
        /\ stale' \in BOOLEAN /\ prompt' \in {prompt, None}
    BY <1>19 DEF SaveReset, engine, ours, past, Types
  <2>2. saved' \in Saved /\ saved'.active = active /\ saved'.ready = ready /\ saved'.at = "hooks"
    BY <1>19, SaveFacts DEF SaveReset
  <2>3. Types'
    BY <1>1, <2>1, <2>2 DEF Types, Place
  <2>4. TodoType' /\ Position'
    BY <1>1, <2>1, <2>2 DEF TodoType, Position, Storing
  <2>5. Flow'
    BY NoneAssumption, <1>19, <2>1, <2>2 DEF Types, Flow, SaveReset
  <2>6. QED
    BY <1>2, <2>3, <2>4, <2>5
<1>20. CASE SaveFresh
  <2>1. /\ pc = "begin"
        /\ pc' = "prepare"
        /\ UNCHANGED <<temp, active, taken, ready, layers, client, written, answered, touched>>
        /\ stale' \in BOOLEAN /\ prompt' \in {prompt, None}
    BY <1>20 DEF SaveFresh, engine, ours, past, Types
  <2>2. saved' \in Saved /\ saved'.active = active /\ saved'.ready = ready /\ saved'.at = "hooks"
    BY <1>20, SaveFacts DEF SaveFresh
  <2>3. Types'
    BY <1>1, <2>1, <2>2 DEF Types, Place
  <2>4. TodoType' /\ Position'
    BY <1>1, <2>1, <2>2 DEF TodoType, Position, Storing
  <2>5. Flow'
    BY NoneAssumption, <1>20, <2>1, <2>2 DEF Types, Flow, SaveFresh
  <2>6. QED
    BY <1>2, <2>3, <2>4, <2>5
<1>15. CASE SaveSignal
  <2>1. pc \notin {"down", "begin"} => saved \in Saved
    BY DEF Types, Flow
  <2>2. /\ pc = "saveSignal" /\ pc' = saved.at /\ taken' = None
        /\ UNCHANGED <<temp, active, ready, layers, prompt, client, written, answered, stale,
                       touched>>
    BY <1>15 DEF SaveSignal, ours, past
  <2>3. /\ saved' \in Saved /\ saved'.ready = saved.ready
        /\ saved'.at = saved.at /\ saved.at \in {"hooks", "end"}
    BY <1>15, <2>1, SavedActive DEF SaveSignal, Types, Flow
  <2>4. Types'
    BY <1>1, <2>1, <2>2, <2>3 DEF Types, Place
  <2>5. TodoType' /\ Position'
    BY <1>1, <2>2, <2>3 DEF TodoType, Position, Storing
  <2>6. Flow'
    BY NoneAssumption, <2>1, <2>2, <2>3 DEF Types, Flow
  <2>7. QED
    BY <1>2, <2>4, <2>5, <2>6
<1>16. CASE \E l \in Layer, k \in Key, text \in Text : Begin(l, k, text)
  <2>1. pc \notin {"down", "begin"} => saved \in Saved
    BY DEF Types, Flow
  <2>2. Types'
    BY <1>16 DEF Begin, disk, engine, ours, past, Types, Place, Command
  <2>3. TodoType'
    BY <1>16, <1>1, <1>3, <2>1, SavedFacts DEF Begin, disk, engine, ours, past, TodoType, Flow,
       Storing
  <2>4. Flow'
    BY NoneAssumption, <1>16, <1>3, <2>1, SavedFacts DEF Begin, disk, engine, ours, past, Types,
       Flow
  <2>5. Position'
    BY <1>16, <1>3, <2>1, SavedFacts DEF Begin, disk, engine, ours, past, Position, Types
  <2>6. QED
    BY <1>2, <2>2, <2>3, <2>4, <2>5
<1>17. CASE Open \/ Killed
  <2>1. pc \notin {"down", "begin"} => saved \in Saved
    BY DEF Types, Flow
  <2>2. Types'
    BY <1>17, <1>1, <1>3, <2>1, NoLayers, SavedFacts DEF Open, Killed, Stop, Command, disk,
       engine, ours, past, Types, Place
  <2>3. TodoType'
    BY <1>17, <1>1, <1>3, <2>1, SavedFacts DEF Open, Killed, Stop, Command, disk, engine, ours,
       past, TodoType, Flow, Storing
  <2>4. Flow'
    BY NoneAssumption, <1>17, <1>3, <2>1, SavedFacts DEF Open, Killed, Stop, Command, disk,
       engine, ours, past, Types, Flow
  <2>5. Position'
    BY <1>17, <1>3, <2>1, SavedFacts DEF Open, Killed, Stop, Command, disk, engine, ours, past,
       Position, Types
  <2>6. QED
    BY <1>2, <2>2, <2>3, <2>4, <2>5
<1>21. QED
  BY <1>4, <1>5, <1>6, <1>7, <1>8, <1>9, <1>10, <1>11, <1>12, <1>13, <1>14, <1>15, <1>16,
     <1>17, <1>19, <1>20 DEF Quiet

(* So does the end of the process, wherever it comes. *)
LEMMA EndingBasics ==
  ASSUME Basics, Ending
  PROVE  Basics'
<1> USE DEF Basics
<1>1. Stopped("down") /\ UNCHANGED <<files, client, written, answered, stale, touched>>
      /\ (saved' = saved \/ saved' = None)
  BY DEF Ending, LoadFails, Finish, Crash, disk, ours, past
<1>2. Finite'
  BY <1>1 DEF Finite
<1>3. Types'
  BY <1>1, NoLayers DEF Stopped, Types, Place
<1>4. TodoType' /\ Flow' /\ Position'
  <2>1. /\ pc' = "down" /\ todo' = <<>> /\ prompt' = None /\ ready' = FALSE
    BY <1>1 DEF Stopped
  <2>2. TodoType' /\ Position'
    BY <2>1 DEF TodoType, Position, Storing
  <2>3. saved' = None => Flow'
    BY <2>1 DEF Flow
  <2>4. saved' = saved => Flow'
    BY <1>1, <2>1 DEF Flow
  <2>5. QED
    BY <1>1, <2>2, <2>3, <2>4
<1>5. QED
  BY <1>2, <1>3, <1>4

(* So do the steps that change a file, and a new run. *)
LEMMA FileBasics ==
  ASSUME Basics,
         \/ \E s \in Signal \cup {None} : StartRun(s)
         \/ Clear \/ Replace \/ Set
         \/ \E l \in Layer, k \in Key : Delete(l, k)
  PROVE  Basics'
<1> USE DEF Basics
<1>1. CASE \E s \in Signal \cup {None} : StartRun(s)
  <2>1. files' \in [Layer -> Context] /\ \A l \in Layer : DOMAIN files'[l] = {}
    BY <1>1, EmptyFacts DEF StartRun
  <2>2. Finite'
    BY <2>1, FS_EmptySet DEF Finite
  <2>3. PICK s \in Signal \cup {None} : StartRun(s)
    BY <1>1
  <2>4. /\ active' = s /\ ready' = FALSE /\ written' = None /\ answered' = FALSE /\ stale' = TRUE
        /\ pc = "down" /\ pc' = "begin"
        /\ UNCHANGED <<temp, taken, todo, layers, saved, prompt, touched>>
    BY <2>3 DEF StartRun
  <2>5. Types'
    <3>1. client' \in Command \cup {None}
      BY <2>3 DEF StartRun, Types
    <3>2. QED
      BY <2>1, <2>4, <3>1 DEF Types, Place
  <2>6. TodoType' /\ Position'
    BY <2>4 DEF TodoType, Storing, Position
  <2>7. Flow'
    BY <2>4 DEF Flow
  <2>8. QED
    BY <2>2, <2>5, <2>6, <2>7
<1>2. ASSUME NEW l \in Layer, NEW f \in Context, IsFiniteSet(DOMAIN f),
             files' = [files EXCEPT ![l] = f]
      PROVE  files' \in [Layer -> Context] /\ Finite'
  BY <1>2 DEF Types, Finite
<1>3. \A l \in Layer : files[l] \in Context /\ IsFiniteSet(DOMAIN files[l])
  BY DEF Types, Finite
<1>4. ASSUME NEW l \in Layer, NEW k
      PROVE  Without(files[l], k) \in Context /\ IsFiniteSet(DOMAIN Without(files[l], k))
  <2>1. DOMAIN Without(files[l], k) = DOMAIN files[l] \ {k} /\ Without(files[l], k) \in Context
    BY <1>3, WithoutFacts
  <2>2. IsFiniteSet(DOMAIN files[l] \ {k})
    BY <1>3, FS_RemoveElement
  <2>3. QED
    BY <2>1, <2>2
<1>5. ASSUME NEW l \in Layer, NEW k \in AllKeys, NEW v \in Value
       PROVE  With(files[l], k, v) \in Context /\ IsFiniteSet(DOMAIN With(files[l], k, v))
  <2>1. DOMAIN With(files[l], k, v) = DOMAIN files[l] \cup {k} /\ With(files[l], k, v) \in Context
    BY <1>3, WithFacts
  <2>2. IsFiniteSet(DOMAIN files[l] \cup {k})
    BY <1>3, FS_AddElement
  <2>3. QED
    BY <2>1, <2>2
<1>6. CASE Clear
  <2>1. todo \in Seq(AllKeys) /\ todo # <<>>
    BY <1>6 DEF Clear, TodoType
  <2>2. Tail(todo) \in Seq(AllKeys)
    BY <2>1
  <2>3. Without(files["execution"], Head(todo)) \in Context
        /\ IsFiniteSet(DOMAIN Without(files["execution"], Head(todo)))
    BY <1>4, LayerFacts
  <2>4. files' \in [Layer -> Context] /\ Finite'
    BY <1>2, <2>3, <1>6, LayerFacts DEF Clear
  <2>5. Types' /\ TodoType' /\ Flow' /\ Position'
    <3>0. UNCHANGED <<pc, temp, active, taken, ready, layers, saved, prompt, client>>
            /\ UNCHANGED <<written, answered, stale, touched>>
            /\ temp' \in BOOLEAN
      BY <1>6 DEF Clear, ours, past, Types
    <3>1. Types'
      BY <2>4, <3>0 DEF Types
    <3>2. TodoType'
      BY <1>6, <2>2, <2>4 DEF Clear, TodoType, Flow, Storing
    <3>3. Flow'
      BY <3>0 DEF Flow
    <3>4. Position'
      BY <1>6, <2>2, <2>4 DEF Clear, Position, Types
    <3>5. QED
      BY <3>1, <3>2, <3>3, <3>4
  <2>6. QED
    BY <2>4, <2>5
<1>7. CASE Replace
  <2>1. todo \in Seq(SignalKeys \X Value) /\ todo # <<>>
    BY <1>7 DEF Replace, Writing, TodoType, Storing
  <2>2. Tail(todo) \in Seq(SignalKeys \X Value) /\ Head(todo) \in SignalKeys \X Value
    BY <2>1
  <2>3. With(files["execution"], Head(todo)[1], Head(todo)[2]) \in Context
        /\ IsFiniteSet(DOMAIN With(files["execution"], Head(todo)[1], Head(todo)[2]))
    BY <1>5, <2>2, LayerFacts, AnyIsAContextKey
  <2>4. files' \in [Layer -> Context] /\ Finite'
    BY <1>2, <2>3, <1>7, LayerFacts DEF Replace
  <2>5. Types' /\ TodoType' /\ Flow' /\ Position'
    <3>0. UNCHANGED <<pc, active, taken, ready, layers, saved, prompt, client>>
            /\ UNCHANGED <<written, answered, stale, touched>>
            /\ temp' \in BOOLEAN
      BY <1>7 DEF Replace, ours, past, Types
    <3>1. Types'
      BY <2>4, <3>0 DEF Types
    <3>2. TodoType'
      BY <1>7, <2>2, <2>4 DEF Replace, Writing, TodoType, Flow, Storing
    <3>3. Flow'
      BY <3>0 DEF Flow
    <3>4. Position'
      BY <1>7, <2>2, <2>4 DEF Replace, Writing, Position, Types
    <3>5. QED
      BY <3>1, <3>2, <3>3, <3>4
  <2>6. QED
    BY <2>4, <2>5
<1>8. CASE Set
  <2>1. client.layer \in Layer /\ client.key \in AllKeys /\ client.text \in Value
        /\ client.key \in Key
    BY <1>8, AnyIsAContextKey DEF Set, Types, Command, Value
  <2>2. With(files[client.layer], client.key, client.text) \in Context
        /\ IsFiniteSet(DOMAIN With(files[client.layer], client.key, client.text))
    BY <1>5, <2>1
  <2>3. files' \in [Layer -> Context] /\ Finite'
    BY <1>2, <2>1, <2>2, <1>8 DEF Set
  <2>4. Types' /\ TodoType' /\ Flow' /\ Position'
    <3>1. Types'
      BY <1>8, <2>1, <2>3, NoLayers DEF Set, engine, Types, Place
    <3>2. TodoType'
      BY <1>8, <2>1, <2>3 DEF Set, engine, TodoType, Flow, Storing
    <3>3. Flow'
      BY NoneAssumption, <1>8, <2>1, <2>3 DEF Set, engine, Types, Flow
    <3>4. Position'
      BY <1>8, <2>1, <2>3 DEF Set, engine, Position, Types
    <3>5. QED
      BY <3>1, <3>2, <3>3, <3>4
  <2>5. QED
    BY <2>3, <2>4
<1>9. CASE \E l \in Layer, k \in Key : Delete(l, k)
  <2>1. PICK l \in Layer, k \in Key : Delete(l, k)
    BY <1>9
  <2>2. Without(files[l], k) \in Context /\ IsFiniteSet(DOMAIN Without(files[l], k))
    BY <1>4
  <2>3. files' \in [Layer -> Context] /\ Finite'
    BY <1>2, <2>1, <2>2 DEF Delete
  <2>4. Types' /\ TodoType' /\ Flow' /\ Position'
    <3>1. Types'
      BY <2>1, <2>3, NoLayers DEF Delete, engine, Types, Place
    <3>2. TodoType'
      BY <2>1, <2>3 DEF Delete, engine, TodoType, Flow, Storing
    <3>3. Flow'
      BY NoneAssumption, <2>1, <2>3 DEF Delete, engine, Types, Flow
    <3>4. Position'
      BY <2>1, <2>3 DEF Delete, engine, Position, Types
    <3>5. QED
      BY <3>1, <3>2, <3>3, <3>4
  <2>5. QED
    BY <2>3, <2>4
<1>10. QED
  BY <1>1, <1>6, <1>7, <1>8, <1>9

(* So do the steps that list keys or work on a list that is no file. *)
LEMMA ListBasics ==
  ASSUME Basics,
         Prepare \/ Cleared \/ List \/ Read \/ \E s \in Signal : Receive(s)
  PROVE  Basics'
<1> USE DEF Basics
<1>1. UNCHANGED files
  BY DEF Prepare, Cleared, List, Read, Receive, disk
<1>2. Finite'
  BY <1>1 DEF Finite
<1>3. \A l \in Layer : files[l] \in Context /\ IsFiniteSet(DOMAIN files[l])
  BY DEF Types, Finite
<1>4. \A l \in Layer : DOMAIN files[l] \subseteq AllKeys
  BY <1>3, ContextFacts
<1>5. CASE Prepare
  <2>1. SetToSeq(DOMAIN files["execution"] \cap SignalKeys)
          \in Seq(DOMAIN files["execution"] \cap SignalKeys)
    BY <1>3, LayerFacts, FS_Subset, SetToSeqLists
  <2>2. todo' \in Seq(AllKeys)
    BY <2>1, <1>5, AnyIsAContextKey, SeqMonotonic DEF Prepare
  <2>3. Types' /\ TodoType' /\ Flow' /\ Position'
    <3>1. Types'
      BY <1>5, <2>2, NoLayers DEF Prepare, disk, ours, past, Types, Place
    <3>2. TodoType'
      BY <1>5, <2>2 DEF Prepare, disk, ours, past, TodoType, Flow, Storing
    <3>3. Flow'
      BY NoneAssumption, <1>5, <2>2 DEF Prepare, disk, ours, past, Types, Flow
    <3>4. Position'
      BY <1>5, <2>2 DEF Prepare, disk, ours, past, Position, Types
    <3>5. QED
      BY <3>1, <3>2, <3>3, <3>4
  <2>4. QED
    BY <1>2, <2>3
<1>6. CASE Cleared
  <2>1. todo' \in Seq(SignalKeys \X Value)
    <3>1. CASE active = None
      BY <3>1, <1>6 DEF Cleared
    <3>2. CASE active # None
      BY <3>2, <1>6, EntriesFacts DEF Cleared, Store, Types
    <3>3. QED
      BY <3>1, <3>2
  <2>2. Types' /\ TodoType' /\ Flow' /\ Position'
    <3>1. Types'
      BY <1>6, <2>1, NoLayers DEF Cleared, ours, past, Types, Place
    <3>2. TodoType'
      BY <1>6, <2>1 DEF Cleared, ours, past, TodoType, Flow, Storing
    <3>3. Flow'
      BY NoneAssumption, <1>6, <2>1 DEF Cleared, ours, past, Types, Flow
    <3>4. Position'
      BY <1>6, <2>1 DEF Cleared, ours, past, Position, Types
    <3>5. QED
      BY <3>1, <3>2, <3>3, <3>4
  <2>3. QED
    BY <1>2, <2>2
<1>7. CASE List
  <2>1. Len(layers) \in Nat /\ Len(layers) + 1 \in 1 .. 3
    BY <1>7 DEF List, Types
  <2>2. Layers[Len(layers) + 1] \in Layer
    BY <2>1, LayerFacts
  <2>3. todo' \in Seq(DOMAIN files[Layers[Len(layers) + 1]])
    BY <2>2, <1>3, <1>7, SetToSeqLists DEF List
  <2>4. todo' \in Seq(AllKeys)
    BY <2>2, <2>3, <1>4, SeqMonotonic
  <2>5. layers' \in Seq(Context)
    BY <1>7, EmptyFacts DEF List, Types
  <2>6. Types' /\ TodoType' /\ Flow' /\ Position'
    <3>1. Types'
      BY <1>7, <2>4, <2>5, NoLayers DEF List, disk, ours, past, Types, Place
    <3>2. TodoType'
      BY <1>7, <2>4, <2>5 DEF List, disk, ours, past, TodoType, Flow, Storing
    <3>3. Flow'
      BY NoneAssumption, <1>7, <2>4, <2>5 DEF List, disk, ours, past, Types, Flow
    <3>4. Position'
      BY <1>7, <2>4, <2>5 DEF List, disk, ours, past, Position, Types
    <3>5. QED
      BY <3>1, <3>2, <3>3, <3>4
  <2>7. QED
    BY <1>2, <2>6
<1>8. CASE Read
  <2>1. todo \in Seq(AllKeys) /\ todo # <<>> /\ layers \in Seq(Context)
    BY <1>8 DEF Read, TodoType, Types
  <2>2. Tail(todo) \in Seq(AllKeys) /\ Head(todo) \in AllKeys
    BY <2>1
  <2>3. Len(layers) \in 1 .. 3 /\ Reading \in Layer
    BY <1>8, LayerFacts DEF Read, Position, Reading
  <2>4. layers[Len(layers)] \in Context
    BY <2>1, <2>3, ElementOfSeq
  <2>5. files[Reading][Head(todo)] \in Value
    BY <2>3, <1>3, <1>8, ContextFacts DEF Read
  <2>6. With(layers[Len(layers)], Head(todo), files[Reading][Head(todo)]) \in Context
    BY <2>2, <2>4, <2>5, WithFacts
  <2>7. layers' = [layers EXCEPT ![Len(layers)] =
                     With(layers[Len(layers)], Head(todo), files[Reading][Head(todo)])]
    BY <1>8 DEF Read
  <2>8. layers' \in Seq(Context) /\ Len(layers') = Len(layers)
    <3>1. Len(layers) \in 1 .. Len(layers)
      BY <2>3
    <3>2. QED
      BY <2>1, <2>6, <2>7, <3>1, ExceptSeq
  <2>9. Types' /\ TodoType' /\ Flow' /\ Position'
    <3>1. Types'
      BY <1>8, <2>2, <2>8, NoLayers DEF Read, disk, ours, past, Types, Place
    <3>2. TodoType'
      BY <1>8, <2>2, <2>8 DEF Read, disk, ours, past, TodoType, Flow, Storing
    <3>3. Flow'
      BY NoneAssumption, <1>8, <2>2, <2>8 DEF Read, disk, ours, past, Types, Flow
    <3>4. Position'
      BY <1>8, <2>2, <2>8 DEF Read, disk, ours, past, Position, Types
    <3>5. QED
      BY <3>1, <3>2, <3>3, <3>4
  <2>10. QED
    BY <1>2, <2>9
<1>9. CASE \E s \in Signal : Receive(s)
  <2>1. PICK s \in Signal : Receive(s)
    BY <1>9
  <2>2. todo' \in Seq(SignalKeys \X Value)
    BY <2>1, EntriesFacts DEF Receive, Store
  <2>3. Types' /\ TodoType' /\ Flow' /\ Position'
    <3>1. Types'
      BY <2>1, <2>2, NoLayers DEF Receive, Store, ours, past, Types, Place
    <3>2. TodoType'
      BY <2>1, <2>2 DEF Receive, Store, ours, past, TodoType, Flow, Storing
    <3>3. Flow'
      <4>1. /\ pc = "wait" /\ pc' \in {"storeBack", "storeOn"}
            /\ answered' = TRUE /\ UNCHANGED <<ready, saved, prompt>>
        BY <2>1 DEF Receive
      <4>2. QED
        BY <4>1 DEF Flow
    <3>4. Position'
      BY <2>1, <2>2 DEF Receive, Store, ours, past, Position, Types
    <3>5. QED
      BY <3>1, <3>2, <3>3, <3>4
  <2>4. QED
    BY <1>2, <2>3
<1>10. QED
  BY <1>5, <1>6, <1>7, <1>8, <1>9

-----------------------------------------------------------------------------
(* The :signal keys of the execution are as they were. *)
SignalKeysKept ==
  \A k \in SignalKeys :
    /\ k \in DOMAIN files'["execution"] <=> k \in DOMAIN files["execution"]
    /\ k \in DOMAIN files["execution"] => files'["execution"][k] = files["execution"][k]

(* What is written of a signal then stays. *)
LEMMA SteadyFacts ==
  ASSUME SignalKeysKept, NEW s \in Signal \cup {None}
  PROVE  /\ Within(s)' <=> Within(s)
         /\ AllWritten(s)' <=> AllWritten(s)
         /\ todo' = todo => (Stored(s)' <=> Stored(s))
<1>1. DOMAIN Shown(s) \subseteq SignalKeys
  BY ShownFacts
<1>2. Within(s)' <=> Within(s)
  BY DEF SignalKeysKept, Within
<1>3. \A k \in DOMAIN Shown(s) : Written(k, s)' <=> Written(k, s)
  BY <1>1 DEF SignalKeysKept, Written
<1>4. AllWritten(s)' <=> AllWritten(s)
  BY <1>3 DEF AllWritten
<1>5. todo' = todo => \A k \in DOMAIN Shown(s) : Ends(k, s)' <=> Ends(k, s)
  BY DEF Ends
<1>6. todo' = todo => (Stored(s)' <=> Stored(s))
  BY <1>3, <1>5 DEF Stored
<1>7. QED
  BY <1>2, <1>4, <1>6

(* With nothing left to be written, all is. *)
LEMMA StoredWhole ==
  ASSUME NEW s \in Signal \cup {None}, Stored(s), todo = <<>>
  PROVE  AllWritten(s)
<1>1. Len(todo) = 0
  OBVIOUS
<1>2. \A k \in DOMAIN Shown(s) : ~ Ends(k, s)
  BY <1>1 DEF Ends
<1>3. QED
  BY <1>2 DEF Stored, AllWritten

(* With all its entries still to be written, each key will be. *)
LEMMA EntriesStored ==
  ASSUME NEW s \in Signal, todo' = Entries(s)
  PROVE  Stored(s)'
<1>1. \A i \in 1 .. Len(todo') : todo'[i][1] \in DOMAIN Shown(s)
  BY EntriesFacts
<1>2. ASSUME NEW k \in DOMAIN Shown(s)
      PROVE  Ends(k, s)'
  <2>1. \E i \in 1 .. Len(todo') :
          /\ todo'[i] = <<k, Shown(s)[k]>>
          /\ \A j \in 1 .. Len(todo') : i < j => todo'[j][1] # k
    BY EntriesFacts
  <2>2. QED
    BY <2>1 DEF Ends
<1>3. QED
  BY <1>1, <1>2 DEF Stored

(* The steps that leave the signal, where the engine is and what is to do  *)
(* alone.                                                                  *)
LEMMA StillWritten ==
  ASSUME SignalWritten, SignalKeysKept,
         UNCHANGED <<pc, active, ready, saved, written, answered, stale, todo>>
  PROVE  SignalWritten'
<1>1. SignalCleared'
  BY DEF SignalWritten, SignalCleared, SignalKeysKept
<1>2. SignalStored'
  BY SteadyFacts DEF SignalWritten, SignalStored
<1>3. SignalKept' /\ AnswerKept'
  BY SteadyFacts DEF SignalWritten, SignalKept, AnswerKept
<1>4. SignalFollowed'
  BY DEF SignalWritten, SignalFollowed
<1>5. QED
  BY <1>1, <1>2, <1>3, <1>4 DEF SignalWritten

(* A change of one key of the client, in one layer. *)
LEMMA OneKey ==
  ASSUME Basics, NEW l \in Layer, NEW k \in Key, NEW f, files' = [files EXCEPT ![l] = f],
         DOMAIN f \cup {k} = DOMAIN files[l] \cup {k},
         \A x \in DOMAIN f \ {k} : f[x] = files[l][x]
  PROVE  /\ \A m \in Layer, x \in AllKeys \ {k} :
              /\ x \in DOMAIN files'[m] <=> x \in DOMAIN files[m]
              /\ x \in DOMAIN files[m] => files'[m][x] = files[m][x]
         /\ SignalKeysKept
         /\ OnlyExecution => OnlyExecution'
<1>1. DOMAIN files = Layer
  BY DEF Basics, Types
<1>2. files'[l] = f /\ \A m \in Layer \ {l} : files'[m] = files[m]
  BY <1>1
<1>3. \A x : x # k => (x \in DOMAIN f <=> x \in DOMAIN files[l])
  OBVIOUS
<1>4. \A m \in Layer, x \in AllKeys \ {k} :
         /\ x \in DOMAIN files'[m] <=> x \in DOMAIN files[m]
         /\ x \in DOMAIN files[m] => files'[m][x] = files[m][x]
  BY <1>2, <1>3
<1>5. SignalKeysKept
  BY <1>4, KeyFacts, LayerFacts, AnyIsAContextKey DEF SignalKeysKept
<1>6. OnlyExecution => OnlyExecution'
  <2>1. ASSUME OnlyExecution, NEW m \in Layer \ {"execution"}
        PROVE  DOMAIN files'[m] \subseteq Key
    <3>1. DOMAIN files[m] \subseteq Key
      BY <2>1 DEF OnlyExecution
    <3>2. CASE m = l
      BY <3>1, <3>2, <1>2
    <3>3. CASE m # l
      BY <3>1, <3>3, <1>2
    <3>4. QED
      BY <3>2, <3>3
  <2>2. QED
    BY <2>1 DEF OnlyExecution
<1>7. QED
  BY <1>4, <1>5, <1>6

(* The client changes no :signal key, and its changes are recorded in      *)
(* touched.                                                                *)
LEMMA ClientKeeps ==
  ASSUME Basics, Set \/ \E l \in Layer, k \in Key : Delete(l, k)
  PROVE  /\ UNCHANGED <<pc, temp, active, ready, todo, layers, saved, prompt>>
         /\ UNCHANGED <<written, answered, stale>>
         /\ touched \subseteq touched'
         /\ \A l \in Layer, k \in AllKeys \ touched' :
              /\ k \in DOMAIN files'[l] <=> k \in DOMAIN files[l]
              /\ k \in DOMAIN files[l] => files'[l][k] = files[l][k]
         /\ SignalKeysKept
         /\ OnlyExecution => OnlyExecution'
<1>1. CASE Set
  <2>1. client.layer \in Layer /\ client.key \in Key
    BY <1>1 DEF Set, Types, Command, Basics
  <2>2. PICK f : f = With(files[client.layer], client.key, client.text)
    OBVIOUS
  <2>3. files' = [files EXCEPT ![client.layer] = f]
    BY <1>1, <2>2 DEF Set
  <2>4. /\ DOMAIN f \cup {client.key} = DOMAIN files[client.layer] \cup {client.key}
        /\ \A k \in DOMAIN f \ {client.key} : f[k] = files[client.layer][k]
    BY <2>2 DEF With
  <2>5. /\ \A m \in Layer, x \in AllKeys \ {client.key} :
              /\ x \in DOMAIN files'[m] <=> x \in DOMAIN files[m]
              /\ x \in DOMAIN files[m] => files'[m][x] = files[m][x]
        /\ SignalKeysKept
        /\ OnlyExecution => OnlyExecution'
    BY <2>1, <2>3, <2>4, OneKey
  <2>6. touched' = touched \cup {client.key}
        /\ UNCHANGED <<pc, temp, active, ready, todo, layers, saved, prompt>>
        /\ UNCHANGED <<written, answered, stale>>
    BY <1>1 DEF Set, engine
  <2>7. QED
    BY <2>5, <2>6
<1>2. CASE \E l \in Layer, k \in Key : Delete(l, k)
  <2>1. PICK l \in Layer, k \in Key : Delete(l, k)
    BY <1>2
  <2>2. PICK f : f = Without(files[l], k)
    OBVIOUS
  <2>3. files' = [files EXCEPT ![l] = f]
    BY <2>1, <2>2 DEF Delete
  <2>4. /\ DOMAIN f \cup {k} = DOMAIN files[l] \cup {k}
        /\ \A x \in DOMAIN f \ {k} : f[x] = files[l][x]
    BY <2>2 DEF Without, Restrict
  <2>5. /\ \A m \in Layer, x \in AllKeys \ {k} :
              /\ x \in DOMAIN files'[m] <=> x \in DOMAIN files[m]
              /\ x \in DOMAIN files[m] => files'[m][x] = files[m][x]
        /\ SignalKeysKept
        /\ OnlyExecution => OnlyExecution'
    BY <2>3, <2>4, OneKey
  <2>6. touched' = touched \cup {k}
        /\ UNCHANGED <<pc, temp, active, ready, todo, layers, saved, prompt>>
        /\ UNCHANGED <<written, answered, stale>>
    BY <2>1 DEF Delete, engine
  <2>7. QED
    BY <2>5, <2>6
<1>3. QED
  BY <1>1, <1>2

(* The steps of the engine that change no file keep the signal written:    *)
(* what they rely on is what they do with the signal and the state file.   *)
LEMMA QuietWritten ==
  ASSUME Basics, SignalWritten, UNCHANGED files, Quiet \/ Ending
  PROVE  SignalWritten'
<1> USE DEF Basics
<1>1. SignalKeysKept
  BY DEF SignalKeysKept
<1>2. \A s \in Signal \cup {None} :
        (Within(s)' <=> Within(s)) /\ (AllWritten(s)' <=> AllWritten(s))
  BY <1>1, SteadyFacts
<1>3. saved \in Saved \cup {None} /\ {active, taken, written} \subseteq Signal \cup {None}
      /\ answered \in BOOLEAN /\ stale \in BOOLEAN /\ ready \in BOOLEAN
      /\ (saved # None => saved.ready \in BOOLEAN)
  BY SavedFacts DEF Types
<1>4. CASE OpenTemp \/ Open \/ Killed
             \/ \E l \in Layer, k \in Key, text \in Text : Begin(l, k, text)
  BY <1>1, <1>4, StillWritten DEF OpenTemp, Open, Killed, Begin, disk, engine, past, Stop
<1>5. ASSUME pc' \notin {"clear", "store", "storeBack", "storeOn"},
             SignalKept', AnswerKept', SignalFollowed'
      PROVE  SignalWritten'
  BY <1>5 DEF SignalWritten, SignalCleared, SignalStored
<1>6. ASSUME UNCHANGED <<written, answered>>,
             ready' = TRUE \/ (saved' # None /\ saved'.ready = TRUE)
               => ready = TRUE \/ (saved # None /\ saved.ready = TRUE)
      PROVE  SignalKept'
  BY <1>2, <1>6 DEF SignalWritten, SignalKept
<1>7. ASSUME UNCHANGED <<written, answered>>, pc' # "reset",
             saved' # None /\ saved'.at \in {"hooks", "load"}
               => pc = "reset" \/ (saved # None /\ saved.at \in {"hooks", "load"})
      PROVE  AnswerKept'
  BY <1>2, <1>7 DEF SignalWritten, AnswerKept
<1>8. pc \notin {"down", "begin"} => saved # None /\ saved \in Saved
  BY <1>3 DEF Flow
<1>9. CASE Ending
  <2>1. /\ pc' = "down" /\ ready' = FALSE /\ (saved' = saved \/ saved' = None)
        /\ UNCHANGED <<written, answered, stale>>
    BY <1>9 DEF Ending, LoadFails, Finish, Crash, Stopped, past
  <2>2. SignalKept' /\ AnswerKept'
    BY <1>6, <1>7, <2>1
  <2>3. SignalFollowed'
    BY <2>1 DEF SignalWritten, SignalFollowed
  <2>4. QED
    BY <1>5, <2>1, <2>2, <2>3
<1>10. CASE \E s \in Signal : Drain(s)
  <2>1. /\ pc = "prepare" /\ pc' = "prepare" /\ UNCHANGED <<ready, saved, written, answered>>
        /\ stale' = (stale \/ ready)
    BY <1>10 DEF Drain
  <2>2. SignalKept' /\ AnswerKept'
    BY <1>6, <1>7, <2>1
  <2>3. stale' = FALSE => stale = FALSE /\ ready = FALSE
    BY <1>3, <2>1
  <2>4. SignalFollowed'
    BY <2>1, <2>3 DEF SignalWritten, SignalFollowed
  <2>5. QED
    BY <1>5, <2>1, <2>2, <2>4
<1>11. CASE SaveFresh
  <2>1. /\ pc' = "prepare" /\ ready = FALSE /\ answered = FALSE
        /\ UNCHANGED <<ready, written, answered>>
    BY <1>11 DEF SaveFresh, engine, Flow
  <2>2. saved'.ready = FALSE
    BY <1>11, <2>1, SaveFacts DEF SaveFresh
  <2>3. SignalKept' /\ AnswerKept' /\ SignalFollowed'
    BY <2>1, <2>2 DEF SignalKept, AnswerKept, SignalFollowed
  <2>4. QED
    BY <1>5, <2>1, <2>3
<1>12. CASE Resume
  <2>1. /\ pc' = "prepare" /\ saved # None /\ active' = saved.active /\ ready' = saved.ready
        /\ UNCHANGED <<saved, written, answered, stale>>
    BY <1>12 DEF Resume, past
  <2>2. SignalKept' /\ AnswerKept'
    BY <1>6, <1>7, <2>1
  <2>3. SignalFollowed'
    BY <2>1 DEF SignalWritten, SignalFollowed
  <2>4. QED
    BY <1>5, <2>1, <2>2, <2>3
<1>13. CASE PrepareAgain \/ BeginLoad \/ ListNext \/ BuildPrompt
  <2>1. UNCHANGED <<active, ready, saved, written, answered, stale>>
    BY <1>13 DEF PrepareAgain, BeginLoad, ListNext, BuildPrompt, engine, past
  <2>2. pc' \in {"hooks", "load", "wait", "end", "list", "agent"}
    BY <1>8, <1>13, SavedFacts DEF PrepareAgain, BeginLoad, ListNext, BuildPrompt
  <2>3. SignalKept' /\ AnswerKept'
    BY <1>6, <1>7, <2>1, <2>2
  <2>4. SignalFollowed'
    BY <2>1 DEF SignalWritten, SignalFollowed
  <2>5. QED
    BY <1>5, <2>2, <2>3, <2>4
<1>14. CASE Prepared
  <2>1. /\ pc = "store" /\ pc' = "hooks" /\ todo = <<>> /\ saved # None /\ saved.ready = FALSE
        /\ answered = FALSE /\ written' = active /\ UNCHANGED <<active, saved, answered>>
    BY <1>3, <1>8, <1>14, SavedFacts DEF Prepared, Flow
  <2>2. \A s \in Signal \cup {None} : s = active => Within(s) /\ AllWritten(s)
    BY <2>1, StoredWhole DEF SignalWritten, SignalStored
  <2>3. SignalKept' /\ AnswerKept' /\ SignalFollowed'
    BY <1>2, <2>1, <2>2 DEF SignalKept, AnswerKept, SignalFollowed
  <2>4. QED
    BY <1>5, <2>1, <2>3
<1>15. CASE HooksDone \/ AgentDone
  <2>1. /\ pc \in {"hooks", "agent"} /\ ready = TRUE
        /\ UNCHANGED <<active, ready, written, answered, stale>>
    BY <1>15 DEF HooksDone, AgentDone, engine, past, Flow
  <2>2. /\ saved'.active = active /\ saved'.ready = ready
        /\ pc' \in {"load", "wait", "end"}
        /\ saved # None /\ saved.at \in {"hooks", "load"}
    <3>1. CASE HooksDone
      <4>1. saved'.active = active /\ saved'.ready = ready
        BY <3>1, SaveFacts DEF HooksDone
      <4>2. QED
        BY <1>8, <3>1, <4>1 DEF HooksDone, Flow
    <3>2. CASE AgentDone
      <4>1. PICK c \in {"wait", "end"} : Save(c)
        BY <3>2 DEF AgentDone
      <4>2. saved'.active = active /\ saved'.ready = ready /\ saved'.at = c
        BY <4>1, SaveFacts
      <4>3. QED
        BY <1>8, <3>2, <4>2 DEF AgentDone, Flow
    <3>3. QED
      BY <1>15, <3>1, <3>2
  <2>3. SignalKept' /\ AnswerKept'
    BY <1>6, <1>7, <2>1, <2>2
  <2>4. SignalFollowed'
    BY <2>1, <2>2 DEF SignalWritten, SignalFollowed
  <2>5. QED
    BY <1>5, <2>2, <2>3, <2>4
<1>16. CASE SaveRoute
  <2>1. /\ pc \in {"storeBack", "storeOn"} /\ pc' \in {"reset", "saveSignal"} /\ todo = <<>>
        /\ answered = TRUE /\ UNCHANGED <<written, answered>>
    BY <1>16 DEF SaveRoute, past, Flow
  <2>2. \A s \in Signal \cup {None} : s = written => AllWritten(s)
    BY <2>1, StoredWhole DEF SignalWritten, SignalStored
  <2>3. SignalKept' /\ AnswerKept' /\ SignalFollowed'
    BY <1>2, <2>1, <2>2 DEF SignalKept, AnswerKept, SignalFollowed
  <2>4. QED
    BY <1>5, <2>1, <2>3
<1>17. CASE SaveReset \/ SaveSignal
  <2>1. /\ pc \in {"reset", "saveSignal"} /\ answered = TRUE /\ UNCHANGED <<written, answered>>
        /\ saved # None /\ pc' \in {"saveSignal", "hooks", "end"}
    BY <1>8, <1>17 DEF SaveReset, SaveSignal, past, Flow
  <2>2. saved'.at \in {"hooks", "load"} => pc = "reset" \/ saved.at \in {"hooks", "load"}
    BY <1>3, <1>8, <1>17, SavedActive DEF SaveReset, SaveSignal
  <2>3. AnswerKept'
    BY <1>7, <2>1, <2>2
  <2>4. SignalKept' /\ SignalFollowed'
    BY <2>1 DEF SignalKept, SignalFollowed
  <2>5. QED
    BY <1>5, <2>1, <2>3, <2>4
<1>18. QED
  BY <1>4, <1>9, <1>10, <1>11, <1>12, <1>13, <1>14, <1>15, <1>16, <1>17 DEF Quiet

(* The steps that list what is to be done, or go on with a list of keys. *)
LEMMA ListWritten ==
  ASSUME Basics, SignalWritten,
         Prepare \/ Cleared \/ List \/ Read \/ \E s \in Signal : Receive(s)
  PROVE  SignalWritten'
<1> USE DEF Basics
<1>1. UNCHANGED <<files, saved>>
  BY DEF Prepare, Cleared, List, Read, Receive, disk
<1>2. SignalKeysKept
  BY <1>1 DEF SignalKeysKept
<1>3. \A s \in Signal \cup {None} :
        (Within(s)' <=> Within(s)) /\ (AllWritten(s)' <=> AllWritten(s))
  BY <1>2, SteadyFacts
<1>4. ASSUME UNCHANGED <<active, ready, written, answered, stale>>, pc' # "reset"
      PROVE  SignalKept' /\ AnswerKept' /\ SignalFollowed'
  <2>1. SignalKept' /\ AnswerKept'
    BY <1>1, <1>3, <1>4 DEF SignalWritten, SignalKept, AnswerKept
  <2>2. SignalFollowed'
    BY <1>1, <1>4 DEF SignalWritten, SignalFollowed
  <2>3. QED
    BY <2>1, <2>2
<1>5. CASE Prepare
  <2>1. /\ pc' = "clear" /\ UNCHANGED <<active, ready, written, answered, stale>>
        /\ todo' = SetToSeq(DOMAIN files["execution"] \cap SignalKeys)
    BY <1>5 DEF Prepare, past
  <2>2. ToSet(todo') = DOMAIN files["execution"] \cap SignalKeys
    <3>1. IsFiniteSet(DOMAIN files["execution"] \cap SignalKeys)
      BY LayerFacts, FS_Subset DEF Finite
    <3>2. QED
      BY <2>1, <3>1, SetToSeqLists
  <2>3. SignalCleared' /\ SignalStored'
    BY <1>1, <2>1, <2>2 DEF SignalCleared, SignalStored
  <2>4. QED
    BY <1>4, <2>1, <2>3 DEF SignalWritten
<1>6. CASE Cleared
  <2>1. /\ pc = "clear" /\ pc' = "store" /\ todo = <<>>
        /\ UNCHANGED <<active, ready, written, answered, stale>>
        /\ active = None => todo' = <<>>
        /\ active # None => todo' = Entries(active)
    BY <1>6 DEF Cleared, Store, past
  <2>2. DOMAIN files["execution"] \cap SignalKeys = {}
    BY <2>1 DEF SignalWritten, SignalCleared, ToSet
  <2>3. ASSUME NEW s \in Signal \cup {None}, s = active
        PROVE  Stored(s)' /\ Within(s)'
    <3>1. CASE s = None
      <4>1. Len(todo') = 0 /\ DOMAIN Shown(s) = {}
        BY <2>1, <2>3, <3>1, ShownFacts
      <4>2. QED
        BY <1>1, <2>2, <4>1 DEF Stored, Within
    <3>2. CASE s # None
      <4>1. s \in Signal /\ todo' = Entries(s)
        BY <2>1, <2>3, <3>2
      <4>2. QED
        BY <1>1, <2>2, <4>1, EntriesStored DEF Within
    <3>3. QED
      BY <3>1, <3>2
  <2>4. SignalCleared' /\ SignalStored'
    BY <2>1, <2>3 DEF SignalCleared, SignalStored
  <2>5. QED
    BY <1>4, <2>1, <2>4 DEF SignalWritten
<1>7. CASE List \/ Read
  <2>1. /\ pc' \in {"list", "read"} /\ UNCHANGED <<active, ready, written, answered, stale>>
    BY <1>7 DEF List, Read, past
  <2>2. SignalCleared' /\ SignalStored'
    BY <2>1 DEF SignalCleared, SignalStored
  <2>3. QED
    BY <1>4, <2>1, <2>2 DEF SignalWritten
<1>8. CASE \E s \in Signal : Receive(s)
  <2>1. PICK s \in Signal : Receive(s)
    BY <1>8
  <2>2. /\ pc = "wait" /\ pc' \in {"storeBack", "storeOn"} /\ written' = s /\ answered' = TRUE
        /\ todo' = Entries(s)
    BY <2>1 DEF Receive, Store
  <2>3. Stored(s)'
    BY <2>2, EntriesStored
  <2>4. SignalCleared' /\ SignalStored'
    BY <2>2, <2>3 DEF SignalCleared, SignalStored
  <2>5. saved.at = "wait"
    BY <2>2 DEF Flow
  <2>6. SignalKept' /\ AnswerKept' /\ SignalFollowed'
    BY <1>1, <2>2, <2>5 DEF SignalKept, AnswerKept, SignalFollowed
  <2>7. QED
    BY <2>4, <2>6 DEF SignalWritten
<1>9. QED
  BY <1>5, <1>6, <1>7, <1>8

(* An entry written is the last one for its key, or another one for it is  *)
(* still to come.                                                          *)
LEMMA ReplaceStored ==
  ASSUME Basics, Replace, NEW s \in Signal \cup {None}, Stored(s)
  PROVE  Stored(s)' /\ (Within(s) => Within(s)')
<1>1. /\ todo \in Seq(SignalKeys \X Value) /\ todo # <<>> /\ todo' = Tail(todo)
  BY DEF Replace, Writing, Basics, TodoType, Storing
<1>2. PICK n \in Nat : Len(todo) = n + 1
  <2>1. Len(todo) \in Nat /\ Len(todo) # 0
    BY <1>1
  <2>2. Len(todo) - 1 \in Nat /\ Len(todo) = (Len(todo) - 1) + 1
    BY <2>1
  <2>3. QED
    BY <2>2
<1>3. /\ Len(todo') = n /\ Head(todo) = todo[1]
      /\ \A i \in 1 .. n : i + 1 \in 1 .. n + 1 /\ todo'[i] = todo[i + 1]
  BY <1>1, <1>2
<1>4. PICK k : k = todo[1][1]
  OBVIOUS
<1>5. PICK v : v = todo[1][2]
  OBVIOUS
<1>6. k \in DOMAIN Shown(s)
  <2>1. 1 \in 1 .. Len(todo)
    BY <1>2
  <2>2. QED
    BY <1>4, <2>1 DEF Stored
<1>7. /\ DOMAIN files'["execution"] = DOMAIN files["execution"] \cup {k}
      /\ files'["execution"][k] = v
      /\ \A x \in DOMAIN files["execution"] \ {k} : files'["execution"][x] = files["execution"][x]
  <2>1. files'["execution"] = With(files["execution"], k, v)
    BY <1>3, <1>4, <1>5, LayerFacts DEF Replace, Basics, Types
  <2>2. QED
    BY <2>1 DEF With
<1>8. Within(s) => Within(s)'
  BY <1>6, <1>7 DEF Within
<1>9. \A i \in 1 .. n : todo'[i][1] \in DOMAIN Shown(s)
  BY <1>2, <1>3 DEF Stored
<1>10. ASSUME NEW x \in DOMAIN Shown(s)
       PROVE  Ends(x, s)' \/ (Written(x, s)' /\ \A i \in 1 .. n : todo'[i][1] # x)
  <2>1. CASE Ends(x, s)
    <3>1. PICK i \in 1 .. n + 1 : /\ todo[i] = <<x, Shown(s)[x]>>
                                  /\ \A j \in 1 .. n + 1 : i < j => todo[j][1] # x
      BY <1>2, <2>1 DEF Ends
    <3>2. CASE i = 1
      <4>1. x = k /\ v = Shown(s)[x]
        BY <1>4, <1>5, <3>1, <3>2
      <4>2. Written(x, s)'
        BY <1>7, <4>1 DEF Written
      <4>3. \A j \in 1 .. n : todo'[j][1] # x
        <5>1. \A j \in 1 .. n : 1 < j + 1
          OBVIOUS
        <5>2. QED
          BY <1>3, <3>1, <3>2, <5>1
      <4>4. QED
        BY <4>2, <4>3
    <3>3. CASE i # 1
      <4>1. PICK m \in 1 .. n : i = m + 1
        <5>1. i - 1 \in 1 .. n /\ i = (i - 1) + 1
          BY <3>3
        <5>2. QED
          BY <5>1
      <4>2. todo'[m] = <<x, Shown(s)[x]>>
        BY <1>3, <3>1, <4>1
      <4>3. ASSUME NEW j \in 1 .. n, m < j
            PROVE  todo'[j][1] # x
        <5>1. j + 1 \in 1 .. n + 1 /\ i < j + 1
          BY <4>1, <4>3
        <5>2. QED
          BY <1>3, <3>1, <5>1
      <4>4. QED
        BY <1>3, <4>2, <4>3 DEF Ends
    <3>4. QED
      BY <3>2, <3>3
  <2>2. CASE Written(x, s) /\ \A i \in 1 .. Len(todo) : todo[i][1] # x
    <3>1. x # k
      BY <1>2, <1>4, <2>2
    <3>2. Written(x, s)'
      BY <1>7, <2>2, <3>1 DEF Written
    <3>3. \A i \in 1 .. n : todo'[i][1] # x
      BY <1>2, <1>3, <2>2
    <3>4. QED
      BY <3>2, <3>3
  <2>3. QED
    BY <2>1, <2>2 DEF Stored
<1>11. Stored(s)'
  BY <1>3, <1>9, <1>10 DEF Stored
<1>12. QED
  BY <1>8, <1>11

(* Clearing removes what is not listed any more, storing writes what is    *)
(* not to be written any more, and a new run starts with empty             *)
(* directories, also if an older one is resumed in its place.              *)
LEMMA FileWritten ==
  ASSUME Basics, SignalWritten, Clear \/ Replace \/ \E s \in Signal \cup {None} : StartRun(s)
  PROVE  SignalWritten'
<1> USE DEF Basics
<1>1. DOMAIN files = Layer /\ {active, written} \subseteq Signal \cup {None}
      /\ answered \in BOOLEAN
  BY DEF Types
<1>2. CASE \E s \in Signal \cup {None} : StartRun(s)
  <2>1. /\ pc' = "begin" /\ written' = None /\ answered' = FALSE /\ stale' = TRUE
        /\ files' = [l \in Layer |-> Empty]
    BY <1>2 DEF StartRun
  <2>2. Within(None)' /\ AllWritten(None)'
    BY <2>1, LayerFacts, EmptyFacts, ShownFacts DEF Within, AllWritten
  <2>3. SignalCleared' /\ SignalStored' /\ AnswerKept' /\ SignalFollowed'
    BY <2>1 DEF SignalCleared, SignalStored, AnswerKept, SignalFollowed
  <2>4. SignalKept'
    BY <2>1, <2>2 DEF SignalKept
  <2>5. QED
    BY <2>3, <2>4 DEF SignalWritten
<1>3. CASE Clear
  <2>1. todo \in Seq(AllKeys) /\ todo # <<>> /\ pc = "clear" /\ todo' = Tail(todo)
        /\ UNCHANGED <<pc, active, ready, saved, written, answered, stale>>
    BY <1>3 DEF Clear, TodoType, past
  <2>2. ToSet(todo) = {Head(todo)} \cup ToSet(todo')
    BY <2>1, ListFacts
  <2>3. DOMAIN files'["execution"] = DOMAIN files["execution"] \ {Head(todo)}
    <3>1. files'["execution"] = Without(files["execution"], Head(todo))
      BY <1>1, <1>3, LayerFacts DEF Clear
    <3>2. QED
      BY <3>1 DEF Without, Restrict
  <2>4. SignalCleared'
    BY <2>1, <2>2, <2>3 DEF SignalWritten, SignalCleared
  <2>5. SignalStored'
    BY <2>1 DEF SignalStored
  <2>6. ready = FALSE /\ saved # None /\ saved.ready = FALSE /\ answered = FALSE
    BY <1>1, <2>1 DEF Flow
  <2>7. SignalKept' /\ AnswerKept' /\ SignalFollowed'
    BY <2>1, <2>6 DEF SignalKept, AnswerKept, SignalFollowed
  <2>8. QED
    BY <2>4, <2>5, <2>7 DEF SignalWritten
<1>4. CASE Replace
  <2>1. /\ pc \in Storing
        /\ UNCHANGED <<pc, active, ready, saved, written, answered, stale>>
    BY <1>4 DEF Replace, Writing, Storing, past
  <2>2. SignalCleared' /\ SignalStored'
    BY <1>4, <2>1, ReplaceStored DEF SignalWritten, SignalCleared, SignalStored, Storing
  <2>3. \/ ready = FALSE /\ saved # None /\ saved.ready = FALSE /\ answered = FALSE
        \/ pc # "reset" /\ saved.at = "wait" /\ answered = TRUE
    BY <1>1, <2>1 DEF Flow, Storing
  <2>4. SignalKept' /\ AnswerKept' /\ SignalFollowed'
    BY <2>1, <2>3 DEF SignalKept, AnswerKept, SignalFollowed
  <2>5. QED
    BY <2>2, <2>4 DEF SignalWritten
<1>5. QED
  BY <1>2, <1>3, <1>4

-----------------------------------------------------------------------------
(* What the client has not touched is as it was. *)
Untouched ==
  /\ touched \subseteq touched'
  /\ \A l \in Layer, k \in AllKeys \ touched' :
       /\ k \in DOMAIN files'[l] <=> k \in DOMAIN files[l]
       /\ k \in DOMAIN files[l] => files'[l][k] = files[l][k]

(* What was read stays true of what the client has not touched ... *)
LEMMA StillRead ==
  ASSUME LayersRead, Untouched, UNCHANGED <<pc, layers, todo>>
  PROVE  LayersRead'
<1>1. ASSUME NEW i \in 1 .. 3, NEW k \in AllKeys \ touched'
      PROVE  (Whole(i, k) => Whole(i, k)') /\ (Partly(i, k) => Partly(i, k)')
  <2>1. Layers[i] \in Layer
    BY LayerFacts
  <2>2. /\ k \in DOMAIN files'[Layers[i]] <=> k \in DOMAIN files[Layers[i]]
        /\ k \in DOMAIN files[Layers[i]] => files'[Layers[i]][k] = files[Layers[i]][k]
    BY <2>1 DEF Untouched
  <2>3. QED
    BY <2>2 DEF Whole, Partly
<1>2. \A k \in AllKeys \ touched' : k \in AllKeys \ touched
  BY DEF Untouched
<1>3. QED
  BY <1>1, <1>2 DEF LayersRead

(* ... and so does what the prompt shows. *)
LEMMA StillInPrompt ==
  ASSUME PromptRead, Untouched, UNCHANGED prompt
  PROVE  PromptRead'
<1>1. ASSUME NEW k \in AllKeys \ touched', InPrompt(k)
      PROVE  InPrompt(k)'
  <2>1. \A l \in Layer : /\ k \in DOMAIN files'[l] <=> k \in DOMAIN files[l]
                         /\ k \in DOMAIN files[l] => files'[l][k] = files[l][k]
    BY DEF Untouched
  <2>2. k \in DOMAIN prompt => \E l \in Layer : k \in DOMAIN files[l]
    BY <1>1 DEF InPrompt
  <2>3. QED
    BY <1>1, <2>1, <2>2, LayerFacts DEF InPrompt
<1>2. \A k \in AllKeys \ touched' : k \in AllKeys \ touched
  BY DEF Untouched
<1>3. QED
  BY <1>1, <1>2 DEF PromptRead

(* The steps after which no layers are being read, or the reading begins. *)
LEMMA NotReading ==
  ASSUME pc' \notin {"list", "read"} \/ (pc' = "list" /\ layers' = <<>>)
  PROVE  LayersRead'
  BY DEF LayersRead

(* Listing a layer, reading a key of it and going on to the next. *)
LEMMA ListRead ==
  ASSUME Basics, LayersRead, List \/ Read \/ ListNext
  PROVE  LayersRead'
<1> USE DEF Basics
<1>1. UNCHANGED <<files, touched>>
  BY DEF List, Read, ListNext, disk, past
<1>2. layers \in Seq(Context) /\ Len(layers) \in Nat
  BY DEF Types
<1>3. \A l \in Layer : IsFiniteSet(DOMAIN files[l])
  BY DEF Finite
<1>4. CASE List
  <2>1. PICK n : n = Len(layers) + 1
    OBVIOUS
  <2>2. /\ pc = "list" /\ pc' = "read" /\ n \in 1 .. 3 /\ Layers[n] \in Layer
        /\ layers' = Append(layers, Empty) /\ todo' = SetToSeq(DOMAIN files[Layers[n]])
    BY <1>2, <1>4, <2>1, LayerFacts DEF List
  <2>3. /\ Len(layers') = n /\ DOMAIN layers'[n] = {}
        /\ \A i \in 1 .. 3 : i < n => layers'[i] = layers[i]
    BY <1>2, <2>1, <2>2, EmptyFacts
  <2>4. ToSet(todo') = DOMAIN files[Layers[n]]
    BY <1>3, <2>2, SetToSeqLists
  <2>5. ASSUME NEW i \in 1 .. 3, NEW k \in AllKeys \ touched
        PROVE  (i < n => Whole(i, k)') /\ (i = n => Partly(i, k)')
    <3>1. CASE i < n
      <4>1. Whole(i, k)
        BY <1>2, <2>1, <2>2, <3>1 DEF LayersRead
      <4>2. QED
        BY <1>1, <2>3, <3>1, <4>1 DEF Whole
    <3>2. CASE i = n
      BY <1>1, <2>3, <2>4, <3>2 DEF Partly
    <3>3. QED
      BY <3>1, <3>2
  <2>6. QED
    BY <1>1, <2>2, <2>3, <2>5 DEF LayersRead
<1>5. CASE Read
  <2>1. PICK n : n = Len(layers)
    OBVIOUS
  <2>2. PICK h : h = Head(todo)
    OBVIOUS
  <2>3. PICK f : f = With(layers[n], h, files[Layers[n]][h])
    OBVIOUS
  <2>4. /\ pc = "read" /\ pc' = "read" /\ n \in 1 .. 3 /\ Layers[n] \in Layer
        /\ todo \in Seq(AllKeys) /\ todo # <<>> /\ todo' = Tail(todo)
        /\ layers' = [layers EXCEPT ![n] = f] /\ h \in DOMAIN files[Layers[n]]
    BY <1>5, <2>1, <2>2, <2>3, LayerFacts DEF Read, Reading, Position, TodoType
  <2>5. DOMAIN layers = 1 .. n
    BY <1>2, <2>1
  <2>6. /\ Len(layers') = n /\ layers'[n] = f
        /\ \A i \in 1 .. 3 : i < n => layers'[i] = layers[i]
    BY <1>2, <2>1, <2>4, <2>5
  <2>7. /\ DOMAIN f = DOMAIN layers[n] \cup {h} /\ f[h] = files[Layers[n]][h]
        /\ \A x \in DOMAIN layers[n] \ {h} : f[x] = layers[n][x]
    BY <2>3 DEF With
  <2>8. ToSet(todo) = {h} \cup ToSet(todo')
    BY <2>2, <2>4, ListFacts
  <2>9. ASSUME NEW i \in 1 .. 3, NEW k \in AllKeys \ touched
        PROVE  (i < n => Whole(i, k)') /\ (i = n => Partly(i, k)')
    <3>1. CASE i < n
      <4>1. Whole(i, k)
        BY <2>1, <2>4, <3>1 DEF LayersRead
      <4>2. QED
        BY <1>1, <2>6, <3>1, <4>1 DEF Whole
    <3>2. CASE i = n
      <4>1. Partly(n, k)
        BY <2>1, <2>4, <3>2 DEF LayersRead
      <4>2. QED
        BY <1>1, <2>4, <2>6, <2>7, <2>8, <3>2, <4>1 DEF Partly
    <3>3. QED
      BY <3>1, <3>2
  <2>10. QED
    BY <1>1, <2>4, <2>6, <2>9 DEF LayersRead
<1>6. CASE ListNext
  <2>1. /\ pc = "read" /\ pc' = "list" /\ todo = <<>> /\ UNCHANGED <<layers, todo>>
        /\ Len(layers) \in 1 .. 3
    BY <1>6 DEF ListNext, engine, Position
  <2>2. ToSet(todo) = {}
    BY <2>1 DEF ToSet
  <2>3. ASSUME NEW i \in 1 .. 3, NEW k \in AllKeys \ touched, i <= Len(layers)
        PROVE  Whole(i, k)'
    <3>1. Whole(i, k)
      <4>1. CASE i < Len(layers)
        BY <2>1, <4>1 DEF LayersRead
      <4>2. CASE i = Len(layers)
        <5>1. Partly(i, k)
          BY <2>1, <4>2 DEF LayersRead
        <5>2. QED
          BY <2>2, <5>1 DEF Partly, Whole
      <4>3. QED
        BY <2>1, <2>3, <4>1, <4>2
    <3>2. QED
      BY <1>1, <2>1, <3>1 DEF Whole
  <2>4. QED
    BY <1>1, <2>1, <2>3 DEF LayersRead
<1>7. QED
  BY <1>4, <1>5, <1>6

(* The prompt is made of layers all read. *)
LEMMA PromptMade ==
  ASSUME Basics, LayersRead, BuildPrompt
  PROVE  PromptRead'
<1>1. /\ pc = "list" /\ Len(layers) = 3 /\ prompt' = Merged(layers) /\ UNCHANGED <<files,
                                                                                   touched>>
  BY DEF BuildPrompt, disk, past
<1>2. /\ DOMAIN prompt' = DOMAIN layers[1] \cup DOMAIN layers[2] \cup DOMAIN layers[3]
      /\ \A k \in DOMAIN prompt' :
           prompt'[k] = IF k \in DOMAIN layers[3] THEN layers[3][k]
                        ELSE IF k \in DOMAIN layers[2] THEN layers[2][k] ELSE layers[1][k]
  BY <1>1 DEF Merged, Over
<1>3. ASSUME NEW k \in AllKeys \ touched
      PROVE  InPrompt(k)'
  <2>1. Whole(1, k) /\ Whole(2, k) /\ Whole(3, k)
    BY <1>1 DEF LayersRead
  <2>2. QED
    BY <1>1, <1>2, <2>1, LayerFacts DEF Whole, InPrompt
<1>4. QED
  BY <1>1, <1>3 DEF PromptRead

-----------------------------------------------------------------------------
(* The inductive invariant. *)
IInv == Basics /\ OnlyExecution /\ SignalWritten /\ LayersRead /\ PromptRead

(* The invariant holds at first. *)
LEMMA InitInv == Init => IInv
<1> SUFFICES ASSUME Init PROVE IInv
  OBVIOUS
<1>1. Basics
  BY InitBasics
<1>2. OnlyExecution
  <2>1. \A l \in Layer : DOMAIN files[l] = {}
    BY EmptyFacts DEF Init
  <2>2. QED
    BY <2>1 DEF OnlyExecution
<1>3. SignalWritten /\ LayersRead /\ PromptRead
  BY DEF Init, SignalWritten, SignalCleared, SignalStored, SignalKept, AnswerKept,
         SignalFollowed, LayersRead, PromptRead
<1>4. QED
  BY <1>1, <1>2, <1>3 DEF IInv

(* The steps that change no file, whoever takes them. *)
LEMMA NoFileStep ==
  ASSUME IInv, UNCHANGED files,
         Quiet \/ Ending \/ Prepare \/ Cleared \/ List \/ Read \/ \E s \in Signal : Receive(s)
  PROVE  IInv'
<1>1. Basics'
  BY QuietBasics, EndingBasics, ListBasics DEF IInv
<1>2. OnlyExecution'
  BY DEF IInv, OnlyExecution
<1>3. SignalWritten'
  BY QuietWritten, ListWritten DEF IInv
<1>4. CASE BuildPrompt
  <2>1. pc' = "agent"
    BY <1>4 DEF BuildPrompt
  <2>2. LayersRead' /\ PromptRead'
    BY <1>4, <2>1, NotReading, PromptMade DEF IInv
  <2>3. QED
    BY <1>1, <1>2, <1>3, <2>2 DEF IInv
<1>5. CASE List \/ Read \/ ListNext
  <2>1. LayersRead'
    BY <1>5, ListRead DEF IInv
  <2>2. pc # "agent" /\ prompt' = prompt
    BY <1>5 DEF List, Read, ListNext
  <2>3. PromptRead'
    BY <2>2 DEF PromptRead, IInv, Basics, Flow
  <2>4. QED
    BY <1>1, <1>2, <1>3, <2>1, <2>3 DEF IInv
<1>6. CASE OpenTemp \/ Open \/ Killed
             \/ \E l \in Layer, k \in Key, text \in Text : Begin(l, k, text)
  <2>1. UNCHANGED <<pc, layers, todo, prompt, touched>>
    BY <1>6 DEF OpenTemp, Open, Killed, Begin, disk, engine, past
  <2>2. Untouched
    BY <2>1 DEF Untouched
  <2>3. LayersRead' /\ PromptRead'
    BY <2>1, <2>2, StillRead, StillInPrompt DEF IInv
  <2>4. QED
    BY <1>1, <1>2, <1>3, <2>3 DEF IInv
<1>7. CASE Ending \/ AgentDone
  <2>1. prompt' = None /\ pc' \notin {"list", "read"}
    <3>1. CASE Ending
      BY <3>1 DEF Ending, LoadFails, Finish, Crash, Stopped
    <3>2. CASE AgentDone
      <4>1. PICK c \in {"wait", "end"} : Save(c)
        BY <3>2 DEF AgentDone
      <4>2. pc' = c /\ prompt' = None
        BY <3>2, <4>1, SaveFacts DEF AgentDone, IInv, Basics
      <4>3. QED
        BY <4>2
    <3>3. QED
      BY <1>7, <3>1, <3>2
  <2>2. QED
    BY <1>1, <1>2, <1>3, <2>1, NotReading DEF IInv, PromptRead
<1>8. CASE \/ (\E s \in Signal : Drain(s) \/ Receive(s))
           \/ SaveFresh \/ Resume \/ PrepareAgain \/ Prepared \/ HooksDone \/ BeginLoad
           \/ SaveRoute \/ SaveReset \/ SaveSignal \/ Prepare \/ Cleared
  <2>1. pc # "agent" /\ prompt' = prompt
    BY <1>8 DEF Drain, Receive, SaveFresh, Resume, PrepareAgain, Prepared, HooksDone, BeginLoad,
                SaveRoute, SaveReset, SaveSignal, Prepare, Cleared
  <2>2. PromptRead'
    BY <2>1 DEF PromptRead, IInv, Basics, Flow
  <2>3. pc' \notin {"list", "read"} \/ (pc' = "list" /\ layers' = <<>>)
    <3>1. pc \notin {"down", "begin"} => saved.at \notin {"list", "read"}
      BY SavedFacts, NoneAssumption DEF IInv, Basics, Types, Flow
    <3>2. QED
      BY <1>8, <3>1 DEF Drain, Receive, SaveFresh, Resume, PrepareAgain, Prepared, HooksDone,
                        BeginLoad, SaveRoute, SaveReset, SaveSignal, Prepare, Cleared
  <2>4. QED
    BY <1>1, <1>2, <1>3, <2>2, <2>3, NotReading DEF IInv
<1>9. QED
  BY <1>4, <1>5, <1>6, <1>7, <1>8 DEF Quiet

(* The steps that change files. *)
LEMMA FileStep ==
  ASSUME IInv,
         \/ Clear \/ Replace \/ Set
         \/ \E s \in Signal \cup {None} : StartRun(s)
         \/ \E l \in Layer, k \in Key : Delete(l, k)
  PROVE  IInv'
<1>1. Basics'
  BY FileBasics DEF IInv
<1>2. CASE Clear \/ Replace \/ \E s \in Signal \cup {None} : StartRun(s)
  <2>1. SignalWritten'
    BY <1>2, FileWritten DEF IInv
  <2>2. pc # "agent" /\ prompt' = prompt /\ pc' \notin {"list", "read"}
    BY <1>2 DEF Clear, Replace, Writing, StartRun
  <2>3. LayersRead' /\ PromptRead'
    BY <2>2, NotReading DEF PromptRead, IInv, Basics, Flow
  <2>4. OnlyExecution'
    <3>1. CASE Clear \/ Replace
      <4>1. \A l \in Layer \ {"execution"} : files'[l] = files[l]
        BY <3>1 DEF Clear, Replace, IInv, Basics, Types
      <4>2. QED
        BY <4>1 DEF IInv, OnlyExecution
    <3>2. CASE \E s \in Signal \cup {None} : StartRun(s)
      <4>1. \A l \in Layer : DOMAIN files'[l] = {}
        BY <3>2, EmptyFacts DEF StartRun
      <4>2. QED
        BY <4>1 DEF OnlyExecution
    <3>3. QED
      BY <1>2, <3>1, <3>2
  <2>5. QED
    BY <1>1, <2>1, <2>3, <2>4 DEF IInv
<1>3. CASE Set \/ \E l \in Layer, k \in Key : Delete(l, k)
  <2>1. /\ UNCHANGED <<pc, temp, active, ready, todo, layers, saved, prompt>>
        /\ UNCHANGED <<written, answered, stale>>
        /\ SignalKeysKept /\ OnlyExecution'
    BY <1>3, ClientKeeps DEF IInv
  <2>2. Untouched
    BY <1>3, ClientKeeps DEF IInv, Untouched
  <2>3. SignalWritten'
    BY <2>1, StillWritten DEF IInv
  <2>4. LayersRead' /\ PromptRead'
    BY <2>1, <2>2, StillRead, StillInPrompt DEF IInv
  <2>5. QED
    BY <1>1, <2>1, <2>3, <2>4 DEF IInv
<1>4. QED
  BY <1>2, <1>3

(* Every step keeps the invariant. *)
LEMMA Inductive == IInv /\ [Next]_vars => IInv'
<1> SUFFICES ASSUME IInv, [Next]_vars PROVE IInv'
  OBVIOUS
<1>1. CASE UNCHANGED vars
  <2>1. UNCHANGED <<pc, files, temp, active, taken, ready, saved, todo, layers, prompt, client,
                    written, answered, stale, touched>>
    BY <1>1 DEF vars, disk, engine, ours, past
  <2>2. Basics'
    BY <2>1 DEF IInv, Basics, Types, Finite, TodoType, Flow, Position
  <2>3. SignalKeysKept /\ Untouched /\ OnlyExecution'
    BY <2>1 DEF SignalKeysKept, Untouched, IInv, OnlyExecution
  <2>4. SignalWritten' /\ LayersRead' /\ PromptRead'
    BY <2>1, <2>3, StillWritten, StillRead, StillInPrompt DEF IInv
  <2>5. QED
    BY <2>2, <2>3, <2>4 DEF IInv
<1>2. CASE UNCHANGED files /\ (Quiet \/ Ending \/ Prepare \/ Cleared \/ List \/ Read
                                 \/ \E s \in Signal : Receive(s))
  BY <1>2, NoFileStep
<1>3. CASE \/ Clear \/ Replace \/ Set
           \/ \E s \in Signal \cup {None} : StartRun(s)
           \/ \E l \in Layer, k \in Key : Delete(l, k)
  BY <1>3, FileStep
<1>4. Quiet \/ Ending \/ Prepare \/ Cleared \/ List \/ Read \/ (\E s \in Signal : Receive(s))
        => UNCHANGED files
  BY DEF Quiet, Ending, Drain, SaveFresh, Resume, PrepareAgain, OpenTemp, Prepared, HooksDone,
         BeginLoad, ListNext, BuildPrompt, AgentDone, SaveRoute, SaveReset, SaveSignal, Begin,
         Open, Killed, LoadFails, Finish, Crash, Prepare, Cleared, List, Read, Receive, disk
<1>5. QED
  BY <1>1, <1>2, <1>3, <1>4 DEF Next, Quiet, Ending

(* The inductive invariant of the context store holds in every reachable   *)
(* state, for any layers, keys, signals and routes, and any number of      *)
(* crashes and of commands of the client.                                  *)
THEOREM InductiveInvariant == Spec => []IInv
  BY InitInv, Inductive, PTL DEF Spec

(* Every variable of the context store has its type, and the lists of keys *)
(* to do theirs, at every place of the engine.                             *)
THEOREM TypeCorrect == Spec => [](Types /\ TodoType)
<1>1. IInv => Types /\ TodoType
  BY DEF IInv, Basics
<1>2. QED
  BY <1>1, InductiveInvariant, PTL

(* The innermost layer that holds a key. *)
LEMMA InnermostFacts ==
  ASSUME NEW k
  PROVE  /\ Holders(k) = {} <=> \A l \in Layer : k \notin DOMAIN files[l]
         /\ Holders(k) # {} =>
              files[Layers[Innermost(k)]][k] =
                IF k \in DOMAIN files["task"] THEN files["task"][k]
                ELSE IF k \in DOMAIN files["execution"] THEN files["execution"][k]
                ELSE files["global"][k]
<1>1. Holders(k) = {i \in 1 .. 3 : k \in DOMAIN files[Layers[i]]}
  BY DEF Holders
<1>2. 1 .. 3 = {1, 2, 3}
  OBVIOUS
<1>3. Holders(k) = {} <=> \A l \in Layer : k \notin DOMAIN files[l]
  BY <1>1, <1>2, LayerFacts
<1>4. ASSUME NEW j \in Holders(k), \A i \in Holders(k) : i <= j
      PROVE  Innermost(k) = j
  <2>1. PICK m : m = Innermost(k)
    OBVIOUS
  <2>2. m \in Holders(k) /\ \A i \in Holders(k) : i <= m
    BY <1>4, <2>1 DEF Innermost
  <2>3. m <= j /\ j <= m /\ m \in Nat /\ j \in Nat
    BY <1>1, <1>4, <2>2
  <2>4. QED
    BY <2>1, <2>3
<1>5. CASE k \in DOMAIN files["task"]
  <2>1. 3 \in Holders(k) /\ \A i \in Holders(k) : i <= 3
    BY <1>1, <1>5, LayerFacts
  <2>2. Innermost(k) = 3
    BY <1>4, <2>1
  <2>3. QED
    BY <1>3, <1>5, <2>2, LayerFacts
<1>6. CASE k \notin DOMAIN files["task"] /\ k \in DOMAIN files["execution"]
  <2>1. 2 \in Holders(k) /\ \A i \in Holders(k) : i <= 2
    BY <1>1, <1>2, <1>6, LayerFacts
  <2>2. Innermost(k) = 2
    BY <1>4, <2>1
  <2>3. QED
    BY <1>3, <1>6, <2>2, LayerFacts
<1>7. CASE k \notin DOMAIN files["task"] /\ k \notin DOMAIN files["execution"]
  <2>1. Holders(k) # {} => 1 \in Holders(k) /\ \A i \in Holders(k) : i <= 1
    BY <1>1, <1>2, <1>7, LayerFacts
  <2>2. Holders(k) # {} => Innermost(k) = 1
    BY <1>4, <2>1
  <2>3. QED
    BY <1>3, <1>7, <2>2, LayerFacts
<1>8. QED
  BY <1>5, <1>6, <1>7

(* The invariant gives the property of the layers. *)
LEMMA Respected == IInv => LayersRespected
<1> SUFFICES ASSUME IInv, prompt # None, NEW k \in AllKeys \ touched
             PROVE  IF Holders(k) = {} THEN k \notin DOMAIN prompt
                    ELSE k \in DOMAIN prompt /\ prompt[k] = files[Layers[Innermost(k)]][k]
  BY DEF LayersRespected, AllKeys
<1>1. InPrompt(k)
  BY DEF IInv, PromptRead
<1>2. QED
  BY <1>1, InnermostFacts DEF InPrompt

(* A prompt has every key as the innermost layer holding it has it,        *)
(* whatever the client does to other keys while load_local_context reads   *)
(* the three directories one file at a time.                               *)
THEOREM PromptHasInnermost == Spec => []LayersRespected
  BY InductiveInvariant, Respected, PTL

(* The invariant gives the property of the signal. *)
LEMMA SignalShown == IInv => PromptShowsSignal
<1> SUFFICES ASSUME IInv, prompt # None
             PROVE  IF answered
                    THEN \A k \in DOMAIN Shown(written) :
                           k \in DOMAIN prompt /\ prompt[k] = Shown(written)[k]
                    ELSE /\ Restrict(prompt, DOMAIN prompt \cap SignalKeys) = Shown(written)
                         /\ ~ stale => active = written
  BY DEF PromptShowsSignal
<1>1. /\ pc = "agent" /\ saved # None /\ saved.at = "load" /\ ready = TRUE
      /\ written \in Signal \cup {None} /\ answered \in BOOLEAN /\ stale \in BOOLEAN
  BY DEF IInv, Basics, Flow, Types
<1>2. ASSUME NEW k \in SignalKeys
      PROVE  /\ k \in DOMAIN prompt <=> k \in DOMAIN files["execution"]
             /\ k \in DOMAIN prompt => prompt[k] = files["execution"][k]
  <2>1. k \in AllKeys \ touched
    BY KeyFacts, AnyIsAContextKey DEF IInv, Basics, Types
  <2>2. k \notin DOMAIN files["global"] /\ k \notin DOMAIN files["task"]
    BY KeyFacts, LayerFacts DEF IInv, OnlyExecution
  <2>3. InPrompt(k)
    BY <2>1 DEF IInv, PromptRead
  <2>4. QED
    BY <2>2, <2>3, LayerFacts DEF InPrompt
<1>3. DOMAIN Shown(written) \subseteq SignalKeys
  BY <1>1, ShownFacts
<1>4. AllWritten(written)
  BY <1>1 DEF IInv, SignalWritten, SignalKept, AnswerKept
<1>5. \A k \in DOMAIN Shown(written) : k \in DOMAIN prompt /\ prompt[k] = Shown(written)[k]
  BY <1>2, <1>3, <1>4 DEF AllWritten, Written
<1>6. CASE answered = FALSE
  <2>1. Within(written)
    BY <1>1, <1>6 DEF IInv, SignalWritten, SignalKept
  <2>2. DOMAIN prompt \cap SignalKeys = DOMAIN Shown(written)
    BY <1>2, <1>3, <1>5, <2>1 DEF Within
  <2>3. Restrict(prompt, DOMAIN prompt \cap SignalKeys)
          = [k \in DOMAIN Shown(written) |-> Shown(written)[k]]
    BY <1>5, <2>2 DEF Restrict
  <2>4. Restrict(prompt, DOMAIN prompt \cap SignalKeys) = Shown(written)
    BY <1>1, <2>3, ShownFacts
  <2>5. stale = FALSE => active = written
    BY <1>1, <1>6 DEF IInv, SignalWritten, SignalFollowed
  <2>6. QED
    BY <1>1, <1>6, <2>4, <2>5
<1>7. QED
  BY <1>1, <1>5, <1>6

(* A prompt shows the whole of the signal last stored, and before a wait   *)
(* task has stored one no other :signal key, however often the             *)
(* preparation, the saving or a command of the client is cut short; and    *)
(* the loop goes by that signal but for the two ways to another one.       *)
THEOREM SignalInPrompt == Spec => []PromptShowsSignal
  BY InductiveInvariant, SignalShown, PTL
=================================================================================
