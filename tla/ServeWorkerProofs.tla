------------------------- MODULE ServeWorkerProofs -------------------------
(***************************************************************************)
(* What holds of a serve worker for any number of messages, crashes,       *)
(* failures, interrupts and shutdowns.                                     *)
(***************************************************************************)
EXTENDS ServeWorker, SequenceTheorems, TLAPS

(* n arrived before everything that is still in the socket. *)
Old(n) == n \in 1..sends /\ \A k \in 1..Len(inbox) : n < inbox[k].id

StillOld(n) == n \in 1..sends' /\ \A k \in 1..Len(inbox') : n < inbox'[k].id

SocketOrdered ==
  /\ queue.next \in 1..(sends + 1)
  /\ \A i \in 1..Len(inbox) :
       /\ inbox[i].id \in 1..sends
       /\ queue.next <= inbox[i].id
       /\ \A j \in 1..(i - 1) : inbox[j].id < inbox[i].id

QueueOrdered ==
  \A i \in 1..Len(queue.items) :
     /\ Old(queue.items[i].entry)
     /\ queue.items[i].sequence < queue.next
     /\ \A j \in 1..(i - 1) : /\ queue.items[j].entry < queue.items[i].entry
                              /\ queue.items[j].sequence < queue.items[i].sequence

TakenOrdered ==
  pc = "taken" =>
    /\ Old(run)
    /\ \A i \in 1..Len(queue.items) : run < queue.items[i].entry

BegunOrdered ==
  \A i \in 1..Len(begun) :
     /\ Old(begun[i])
     /\ \A j \in 1..Len(queue.items) : begun[i] < queue.items[j].entry
     /\ pc = "taken" => begun[i] < run
     /\ \A j \in 1..(i - 1) : begun[j] < begun[i]

(* Entries are in order from the socket through the queue to their run.    *)
Ordered == SocketOrdered /\ QueueOrdered /\ TakenOrdered /\ BegunOrdered

(* A worker that goes on serving has ended the run in the state file.      *)
ServesEnded ==
  /\ pc = "loop" /\ ~ shutdown => outcome # "open"
  /\ pc = "taken" => outcome # "open"

IInv == TypeOK /\ Ordered /\ RunIsSaved /\ ServesEnded

-----------------------------------------------------------------------------
(* The steps, by what they do to the entries. *)

KeepsTaken == pc' = "taken" => pc = "taken" /\ run' = run

(* Nothing moves but messages that are dropped, or all of them lost. *)
Still ==
  /\ UNCHANGED <<queue, begun, sends>>
  /\ \/ inbox' = inbox
     \/ inbox # <<>> /\ inbox' = Tail(inbox)
     \/ inbox' = <<>>
  /\ KeepsTaken

Arrives ==
  /\ sends' = sends + 1
  /\ \E kind \in Kind : inbox' = Append(inbox, [kind |-> kind, id |-> sends + 1])
  /\ sends < MaxSends
  /\ UNCHANGED <<queue, begun, pc, run>>

Enqueues ==
  /\ pc # "taken" /\ pc' # "taken"
  /\ inbox # <<>> /\ inbox' = Tail(inbox)
  /\ queue' = Enqueued(Head(inbox).id)
  /\ UNCHANGED <<begun, sends>>

Empties ==
  /\ pc = "off" /\ pc' = "off"
  /\ queue' = NoQueue
  /\ UNCHANGED <<begun, sends, inbox>>

(* Every step is of one of six kinds, as far as the entries go.            *)
LEMMA KindsOfStep ==
  ASSUME TypeOK, [Next]_vars
  PROVE  Still \/ Arrives \/ Enqueues \/ Empties \/ LoopDequeue \/ BeginRun
<1> USE DEF KeepsTaken
<1>1. ASSUME NEW kind \in Kind, Send(kind) PROVE Arrives
  BY <1>1, Zenon DEF Send, Arrives, files
<1>2. CASE LoopReceive
  <2>1. CASE Head(inbox).kind = "entry"
    BY <1>2, <2>1 DEF LoopReceive, Loop, Enqueues
  <2>2. CASE Head(inbox).kind # "entry"
    BY <1>2, <2>2 DEF LoopReceive, Loop, Still, ResumeRun
  <2> QED
    BY <2>1, <2>2
<1>3. CASE RunReceives
  BY <1>3 DEF RunReceives, Enqueues, Still
<1>4. CASE RefuseRun \/ LoopExit
  BY <1>4 DEF RefuseRun, LoopExit, Ended, Still, files
<1>5. CASE InterruptedReceives
  <2>1. pc' # "taken" /\ UNCHANGED <<queue, begun, sends>>
    BY <1>5 DEF InterruptedReceives, Ends, files
  <2> QED
    BY <1>5, <2>1 DEF InterruptedReceives, Still
<1>6. CASE InterruptedExit \/ TaskReceives \/ RunCompletes \/ RunFails
  BY <1>6 DEF InterruptedExit, TaskReceives, RunCompletes, RunFails, Ends, Still, files
<1>7. CASE Interrupt
  BY <1>7 DEF Interrupt, Ends, Still, files
<1>8. CASE Start
  BY <1>8 DEF Start, ResumeRun, Still
<1>9. CASE Clear
  BY <1>9 DEF Clear, process, Empties
<1>10. CASE Shutdown \/ Crash
  BY <1>10 DEF Shutdown, Crash, Ended, Still, files
<1>11. CASE UNCHANGED vars
  BY <1>11 DEF vars, process, files, Still
<1> QED
  BY <1>1, <1>2, <1>3, <1>4, <1>5, <1>6, <1>7, <1>8, <1>9, <1>10, <1>11
     DEF Next, Serving, Running, Environment

-----------------------------------------------------------------------------
(* Sequences. *)
LEMMA TailFacts ==
  ASSUME NEW S, NEW s \in Seq(S), s # <<>>
  PROVE  /\ Tail(s) \in Seq(S) /\ Len(Tail(s)) = Len(s) - 1
         /\ \A i \in 1..Len(Tail(s)) : Tail(s)[i] = s[i + 1]
         /\ Len(s) >= 1 /\ Head(s) = s[1] /\ Head(s) \in S
OBVIOUS

(* Appending adds one item at the end.                                     *)
LEMMA AppendFacts ==
  ASSUME NEW S, NEW s \in Seq(S), NEW x \in S
  PROVE  /\ Append(s, x) \in Seq(S) /\ Len(Append(s, x)) = Len(s) + 1
         /\ \A i \in 1..Len(s) : Append(s, x)[i] = s[i]
         /\ Append(s, x)[Len(s) + 1] = x
OBVIOUS

(* Receiving leaves the rest of the socket in order, and later messages    *)
(* come last.                                                              *)
LEMMA InboxFacts ==
  ASSUME TypeOK, SocketOrdered, inbox # <<>>
  PROVE  LET id == Head(inbox).id
         IN  /\ id \in 1..MaxSends /\ id \in 1..sends /\ queue.next <= id
             /\ \A k \in 1..Len(Tail(inbox)) :
                  /\ Tail(inbox)[k] = inbox[k + 1]
                  /\ k + 1 \in 1..Len(inbox)
                  /\ id < Tail(inbox)[k].id
             /\ \A n : Old(n) => n < id
<1>1. inbox \in Seq(Message) /\ sends \in 0..MaxSends /\ MaxSends \in Nat
  BY ServeAssumption DEF TypeOK
<1>2. /\ Len(Tail(inbox)) = Len(inbox) - 1 /\ Len(inbox) >= 1 /\ Len(inbox) \in Nat
      /\ \A k \in 1..Len(Tail(inbox)) : Tail(inbox)[k] = inbox[k + 1]
      /\ Head(inbox) = inbox[1]
  BY <1>1, TailFacts
<1>3. /\ inbox[1].id \in 1..sends /\ queue.next <= inbox[1].id
      /\ \A k \in 1..Len(Tail(inbox)) : inbox[1].id < inbox[k + 1].id
  BY <1>2 DEF SocketOrdered
<1>4. \A n : Old(n) => n < inbox[1].id
  BY <1>2 DEF Old
<1> QED
  BY <1>1, <1>2, <1>3, <1>4

(* What arrived before all that is in the socket still did after a step.   *)
LEMMA OldStays ==
  ASSUME TypeOK, Still \/ Arrives \/ Enqueues \/ Empties \/ LoopDequeue \/ BeginRun,
         NEW n, Old(n)
  PROVE  StillOld(n)
<1>0. inbox \in Seq(Message) /\ sends \in 0..MaxSends /\ MaxSends \in Nat
  BY ServeAssumption DEF TypeOK
<1>1. CASE inbox' = inbox /\ sends' = sends
  BY <1>1 DEF Old, StillOld
<1>2. CASE inbox # <<>> /\ inbox' = Tail(inbox) /\ sends' = sends
  BY <1>0, <1>2, TailFacts DEF Old, StillOld
<1>3. CASE inbox' = <<>> /\ sends' = sends
  BY <1>3 DEF Old, StillOld
<1>4. CASE Arrives
  <2>1. PICK kind \in Kind : inbox' = Append(inbox, [kind |-> kind, id |-> sends + 1])
    BY <1>4 DEF Arrives
  <2>2. sends' = sends + 1
    BY <1>4 DEF Arrives
  <2> QED
    BY <1>0, <2>1, <2>2 DEF Old, StillOld
<1> QED
  BY <1>1, <1>2, <1>3, <1>4 DEF Still, Enqueues, Empties, LoopDequeue, BeginRun

(* Every step keeps the socket in order and ahead of the queue.            *)
LEMMA SocketStep ==
  ASSUME TypeOK, SocketOrdered,
         Still \/ Arrives \/ Enqueues \/ Empties \/ LoopDequeue \/ BeginRun
  PROVE  SocketOrdered'
<1>0. inbox \in Seq(Message) /\ sends \in 0..MaxSends /\ MaxSends \in Nat
  BY ServeAssumption DEF TypeOK
<1>1. CASE inbox' = inbox /\ sends' = sends /\ queue'.next \in {1, queue.next}
  BY <1>0, <1>1 DEF SocketOrdered
<1>2. CASE Still /\ inbox # <<>> /\ inbox' = Tail(inbox)
  BY <1>0, <1>2, TailFacts DEF Still, SocketOrdered
<1>3. CASE Still /\ inbox' = <<>>
  BY <1>3 DEF Still, SocketOrdered
<1>4. CASE Arrives
  <2>1. PICK kind \in Kind : inbox' = Append(inbox, [kind |-> kind, id |-> sends + 1])
    BY <1>4 DEF Arrives
  <2>2. sends' = sends + 1 /\ queue' = queue
    BY <1>4 DEF Arrives
  <2> QED
    BY <1>0, <2>1, <2>2 DEF SocketOrdered
<1>5. CASE Enqueues
  <2>1. queue'.next = queue.next + 1 /\ sends' = sends /\ inbox' = Tail(inbox)
    BY <1>5 DEF Enqueues, Enqueued
  <2>2. queue.next \in 1..(sends + 1)
    BY DEF SocketOrdered
  <2>3. /\ Head(inbox).id \in 1..sends /\ queue.next <= Head(inbox).id
        /\ \A k \in 1..Len(Tail(inbox)) :
             Tail(inbox)[k] = inbox[k + 1] /\ Head(inbox).id < Tail(inbox)[k].id
    BY <1>5, InboxFacts DEF Enqueues
  <2>4. \A i \in 1..Len(inbox') :
          /\ inbox'[i].id \in 1..sends
          /\ \A j \in 1..(i - 1) : inbox'[j].id < inbox'[i].id
    BY <1>0, <1>5, <2>1, TailFacts DEF SocketOrdered, Enqueues
  <2> QED
    BY <1>0, <2>1, <2>2, <2>3, <2>4 DEF SocketOrdered
<1>6. CASE Empties \/ LoopDequeue \/ BeginRun
  BY <1>1, <1>6 DEF Empties, NoQueue, LoopDequeue, Dequeued, BeginRun, TypeOK
<1> QED
  BY <1>1, <1>2, <1>3, <1>4, <1>5, <1>6 DEF Still

-----------------------------------------------------------------------------
(* The types of what is in the queue file.                                 *)
LEMMA QueueFacts ==
  ASSUME TypeOK
  PROVE  /\ queue.items \in Seq(Item) /\ queue.next \in Nat
         /\ Len(queue.items) \in Nat /\ Len(begun) \in Nat
         /\ begun \in Seq(1..MaxSends)
         /\ \A i \in 1..Len(queue.items) : /\ queue.items[i].entry \in 1..MaxSends
                                           /\ queue.items[i].sequence \in Nat
<1>1. queue.items \in Seq(Item) /\ queue.next \in Nat /\ begun \in Seq(1..MaxSends)
  BY ServeAssumption DEF TypeOK
<1>2. \A i \in 1..Len(queue.items) : queue.items[i] \in Item
  BY <1>1
<1>3. ASSUME NEW it \in Item
      PROVE  it.entry \in 1..MaxSends /\ it.sequence \in Nat
  BY <1>3, ServeAssumption DEF Item
<1>4. Len(queue.items) \in Nat /\ Len(begun) \in Nat
  BY <1>1
<1> QED
  BY <1>1, <1>2, <1>3, <1>4, Zenon

(* The queue file after an entry is enqueued, item by item.                *)
LEMMA EnqueuedFacts ==
  ASSUME TypeOK, Enqueues, Head(inbox).id \in 1..MaxSends
  PROVE  /\ Len(queue'.items) = Len(queue.items) + 1
         /\ \A i \in 1..Len(queue.items) : queue'.items[i] = queue.items[i]
         /\ queue'.items[Len(queue.items) + 1].entry = Head(inbox).id
         /\ queue'.items[Len(queue.items) + 1].sequence = queue.next
         /\ queue'.next = queue.next + 1
<1> DEFINE item == [sequence |-> queue.next, entry |-> Head(inbox).id]
<1>1. queue'.items = Append(queue.items, item) /\ queue'.next = queue.next + 1
  BY DEF Enqueues, Enqueued
<1>2. item \in Item /\ item.entry = Head(inbox).id /\ item.sequence = queue.next
  BY DEF Item, TypeOK
<1>3. queue.items \in Seq(Item)
  BY QueueFacts
<1> HIDE DEF item
<1> QED
  BY <1>1, <1>2, <1>3, AppendFacts

(* The queue file after an entry is dequeued, item by item.                *)
LEMMA DequeuedFacts ==
  ASSUME TypeOK, LoopDequeue
  PROVE  /\ 1 \in 1..Len(queue.items) /\ Len(queue.items) >= 1
         /\ Len(queue'.items) = Len(queue.items) - 1
         /\ \A i \in 1..Len(queue'.items) :
              queue'.items[i] = queue.items[i + 1] /\ i + 1 \in 1..Len(queue.items)
         /\ run' = queue.items[1].entry
         /\ queue'.next = queue.next
<1>1. queue.items \in Seq(Item) /\ queue.items # <<>>
  BY DEF TypeOK, LoopDequeue, HasItem
<1>2. queue'.items = Tail(queue.items) /\ queue'.next = queue.next
  BY DEF TypeOK, LoopDequeue, Dequeued
<1>3. run' = queue.items[1].entry
  BY <1>1 DEF LoopDequeue, NextItem
<1> QED
  BY <1>1, <1>2, <1>3, TailFacts

(* Every step keeps the queue file in order.                               *)
LEMMA QueueStep ==
  ASSUME TypeOK, SocketOrdered, QueueOrdered,
         Still \/ Arrives \/ Enqueues \/ Empties \/ LoopDequeue \/ BeginRun
  PROVE  QueueOrdered'
<1>0. \A n : Old(n) => StillOld(n)
  BY OldStays
<1>1. CASE queue' = queue
  BY <1>0, <1>1 DEF QueueOrdered, Old, StillOld
<1>2. CASE Enqueues
  <2> DEFINE n == Head(inbox).id
             len == Len(queue.items)
  <2>1. /\ n \in 1..MaxSends /\ StillOld(n) /\ queue.next <= n
        /\ \A i \in 1..len : queue.items[i].entry < n
    BY <1>2, InboxFacts DEF Enqueues, StillOld, QueueOrdered
  <2>2. /\ Len(queue'.items) = len + 1
        /\ \A i \in 1..len : queue'.items[i] = queue.items[i]
        /\ queue'.items[len + 1].entry = n
        /\ queue'.items[len + 1].sequence = queue.next
        /\ queue'.next = queue.next + 1
    BY <1>2, <2>1, EnqueuedFacts, Zenon
  <2>3. len \in Nat /\ queue.next \in Nat
        /\ \A i \in 1..len : queue.items[i].sequence \in Nat
    BY QueueFacts
  <2> HIDE DEF n, len
  <2>4. \A i \in 1..len : /\ StillOld(queue.items[i].entry)
                          /\ queue.items[i].sequence < queue.next
                          /\ \A j \in 1..(i - 1) :
                               /\ queue.items[j].entry < queue.items[i].entry
                               /\ queue.items[j].sequence < queue.items[i].sequence
    BY <1>0 DEF QueueOrdered, len
  <2> SUFFICES ASSUME NEW i \in 1..(len + 1)
               PROVE  /\ StillOld(queue'.items[i].entry)
                      /\ queue'.items[i].sequence < queue'.next
                      /\ \A j \in 1..(i - 1) :
                           /\ queue'.items[j].entry < queue'.items[i].entry
                           /\ queue'.items[j].sequence < queue'.items[i].sequence
    BY <2>2, Zenon DEF QueueOrdered, Old, StillOld
  <2>5. CASE i \in 1..len
    <3>1. i \in Nat /\ \A j \in 1..(i - 1) : j \in 1..len
      BY <2>3, <2>5
    <3>2. queue'.items[i] = queue.items[i]
      BY <2>2, <2>5
    <3>3. \A j \in 1..(i - 1) : queue'.items[j] = queue.items[j]
      BY <2>2, <3>1
    <3>4. /\ StillOld(queue.items[i].entry)
          /\ queue.items[i].sequence < queue.next + 1
          /\ \A j \in 1..(i - 1) :
               /\ queue.items[j].entry < queue.items[i].entry
               /\ queue.items[j].sequence < queue.items[i].sequence
      BY <2>3, <2>4, <2>5
    <3> QED
      BY <2>2, <3>2, <3>3, <3>4, Zenon
  <2>6. CASE i = len + 1
    <3>1. \A j \in 1..(i - 1) : j \in 1..len
      BY <2>3, <2>6
    <3>2. \A j \in 1..(i - 1) : /\ queue'.items[j].entry < n
                                /\ queue'.items[j].sequence < queue.next
      BY <2>1, <2>2, <2>4, <3>1, Zenon
    <3>3. queue.next < queue.next + 1
      BY <2>3
    <3>4. queue'.items[i].entry = n /\ queue'.items[i].sequence = queue.next
      BY <2>2, <2>6, Zenon
    <3> QED
      BY <2>1, <2>2, <3>2, <3>3, <3>4, Zenon
  <2> QED
    BY <2>3, <2>5, <2>6
<1>3. CASE Empties
  BY <1>3 DEF Empties, NoQueue, QueueOrdered
<1>4. CASE LoopDequeue
  <2> DEFINE len == Len(queue.items)
  <2>1. /\ len >= 1 /\ len \in Nat /\ Len(queue'.items) = len - 1
        /\ \A i \in 1..(len - 1) : queue'.items[i] = queue.items[i + 1]
        /\ queue'.next = queue.next
    BY <1>4, DequeuedFacts, QueueFacts
  <2>2. \A i \in 1..len : /\ StillOld(queue.items[i].entry)
                          /\ queue.items[i].sequence < queue.next
                          /\ \A j \in 1..(i - 1) :
                               /\ queue.items[j].entry < queue.items[i].entry
                               /\ queue.items[j].sequence < queue.items[i].sequence
    BY <1>0 DEF QueueOrdered
  <2> HIDE DEF len
  <2> SUFFICES ASSUME NEW i \in 1..(len - 1)
               PROVE  /\ StillOld(queue'.items[i].entry)
                      /\ queue'.items[i].sequence < queue'.next
                      /\ \A j \in 1..(i - 1) :
                           /\ queue'.items[j].entry < queue'.items[i].entry
                           /\ queue'.items[j].sequence < queue'.items[i].sequence
    BY <2>1, Zenon DEF QueueOrdered, Old, StillOld
  <2>3. i \in Nat /\ i + 1 \in 1..len /\ queue'.items[i] = queue.items[i + 1]
    BY <2>1
  <2>4. \A j \in 1..(i - 1) : j + 1 \in 1..((i + 1) - 1)
                              /\ queue'.items[j] = queue.items[j + 1]
    BY <2>1, <2>3
  <2> QED
    BY <2>1, <2>2, <2>3, <2>4
<1> QED
  BY <1>1, <1>2, <1>3, <1>4 DEF Still, Arrives, BeginRun

(* Every step keeps the entry taken ahead of those queued.                 *)
LEMMA TakenStep ==
  ASSUME TypeOK, QueueOrdered, TakenOrdered,
         Still \/ Arrives \/ Enqueues \/ Empties \/ LoopDequeue \/ BeginRun
  PROVE  TakenOrdered'
<1>0. \A n : Old(n) => StillOld(n)
  BY OldStays
<1>1. CASE Still \/ Arrives
  BY <1>0, <1>1 DEF Old, StillOld, Still, Arrives, KeepsTaken, TakenOrdered
<1>2. CASE Enqueues \/ Empties \/ BeginRun
  BY <1>2 DEF Enqueues, Empties, BeginRun, TakenOrdered
<1>3. CASE LoopDequeue
  <2> DEFINE len == Len(queue.items)
  <2>1. /\ len >= 1 /\ len \in Nat /\ Len(queue'.items) = len - 1
        /\ \A i \in 1..(len - 1) : queue'.items[i] = queue.items[i + 1]
        /\ run' = queue.items[1].entry
    BY <1>3, DequeuedFacts, QueueFacts
  <2>2. /\ StillOld(queue.items[1].entry)
        /\ \A i \in 2..len : queue.items[1].entry < queue.items[i].entry
    BY <1>0, <2>1 DEF QueueOrdered
  <2> QED
    BY <1>3, <2>1, <2>2 DEF TakenOrdered, LoopDequeue, Old, StillOld
<1> QED
  BY <1>1, <1>2, <1>3

(* Every step keeps the runs begun in order, before all that is to come.   *)
LEMMA BegunStep ==
  ASSUME TypeOK, SocketOrdered, QueueOrdered, TakenOrdered, BegunOrdered,
         Still \/ Arrives \/ Enqueues \/ Empties \/ LoopDequeue \/ BeginRun
  PROVE  BegunOrdered'
<1>0. \A n : Old(n) => StillOld(n)
  BY OldStays
<1>1. CASE Still \/ Arrives
  BY <1>0, <1>1 DEF Old, StillOld, Still, Arrives, KeepsTaken, BegunOrdered
<1>2. CASE Enqueues
  <2> DEFINE n == Head(inbox).id
             len == Len(queue.items)
  <2>1. n \in 1..MaxSends /\ \A i \in 1..Len(begun) : begun[i] < n
    BY <1>2, InboxFacts DEF Enqueues, BegunOrdered
  <2>2. /\ Len(queue'.items) = len + 1
        /\ \A i \in 1..len : queue'.items[i] = queue.items[i]
        /\ queue'.items[len + 1].entry = n
        /\ len \in Nat
    BY <1>2, <2>1, EnqueuedFacts, QueueFacts, Zenon
  <2>3. begun' = begun /\ pc' # "taken"
    BY <1>2 DEF Enqueues
  <2> HIDE DEF n, len
  <2>4. \A i \in 1..Len(begun) : /\ \A j \in 1..len : begun[i] < queue.items[j].entry
                                 /\ \A j \in 1..(i - 1) : begun[j] < begun[i]
                                 /\ StillOld(begun[i])
    BY <1>0 DEF BegunOrdered, len
  <2>5. \A i \in 1..Len(begun) : \A j \in 1..(len + 1) : begun[i] < queue'.items[j].entry
    BY <2>1, <2>2, <2>4
  <2> QED
    BY <2>2, <2>3, <2>4, <2>5, Zenon DEF BegunOrdered, Old, StillOld
<1>3. CASE Empties
  BY <1>0, <1>3 DEF Empties, NoQueue, BegunOrdered, Old, StillOld
<1>4. CASE LoopDequeue
  <2>1. begun' = begun /\ run' = queue.items[1].entry
    BY <1>4, DequeuedFacts DEF LoopDequeue
  <2>2. 1 \in 1..Len(queue.items)
        /\ \A i \in 1..Len(queue'.items) :
             queue'.items[i] = queue.items[i + 1] /\ i + 1 \in 1..Len(queue.items)
    BY <1>4, DequeuedFacts, Zenon
  <2>3. \A i \in 1..Len(begun) :
          /\ StillOld(begun[i])
          /\ \A j \in 1..Len(queue.items) : begun[i] < queue.items[j].entry
          /\ \A j \in 1..(i - 1) : begun[j] < begun[i]
    BY <1>0 DEF BegunOrdered
  <2> QED
    BY <2>1, <2>2, <2>3 DEF BegunOrdered, Old, StillOld
<1>5. CASE BeginRun
  <2>1. /\ pc = "taken" /\ pc' # "taken" /\ queue' = queue
        /\ begun' = Append(begun, run) /\ run \in 1..MaxSends
    BY <1>5 DEF BeginRun, TypeOK
  <2>2. /\ Len(begun') = Len(begun) + 1 /\ Len(begun) \in Nat
        /\ \A i \in 1..Len(begun) : begun'[i] = begun[i]
        /\ begun'[Len(begun) + 1] = run
    BY <2>1, QueueFacts, AppendFacts
  <2>3. /\ StillOld(run) /\ \A j \in 1..Len(queue.items) : run < queue.items[j].entry
        /\ \A i \in 1..Len(begun) : begun[i] < run
    BY <1>0, <2>1 DEF TakenOrdered, BegunOrdered
  <2> SUFFICES ASSUME NEW i \in 1..(Len(begun) + 1)
               PROVE  /\ StillOld(begun'[i])
                      /\ \A j \in 1..Len(queue.items) : begun'[i] < queue.items[j].entry
                      /\ \A j \in 1..(i - 1) : begun'[j] < begun'[i]
    BY <2>1, <2>2, Zenon DEF BegunOrdered, Old, StillOld
  <2>4. CASE i \in 1..Len(begun)
    BY <1>0, <2>2, <2>4 DEF BegunOrdered
  <2>5. CASE i = Len(begun) + 1
    BY <2>2, <2>3, <2>5
  <2> QED
    BY <2>2, <2>4, <2>5
<1> QED
  BY <1>1, <1>2, <1>3, <1>4, <1>5

-----------------------------------------------------------------------------
(* The types that depend on the entries, by the kind of step.              *)
LEMMA EntryTypes ==
  ASSUME TypeOK, SocketOrdered, SocketOrdered',
         Still \/ Arrives \/ Enqueues \/ Empties \/ LoopDequeue \/ BeginRun
  PROVE  /\ inbox' \in Seq(Message) /\ sends' \in 0..MaxSends
         /\ queue' \in [next : 1..(MaxSends + 1), items : Seq(Item)]
         /\ begun' \in Seq(1..MaxSends)
<1>0. /\ inbox \in Seq(Message) /\ sends \in 0..MaxSends /\ MaxSends \in Nat
      /\ queue \in [next : 1..(MaxSends + 1), items : Seq(Item)]
      /\ begun \in Seq(1..MaxSends)
  BY ServeAssumption DEF TypeOK
<1>1. sends' \in 0..MaxSends
  BY <1>0 DEF Still, Arrives, Enqueues, Empties, LoopDequeue, BeginRun
<1>2. inbox' \in Seq(Message)
  <2>1. CASE Arrives
    <3>1. PICK kind \in Kind : inbox' = Append(inbox, [kind |-> kind, id |-> sends + 1])
      BY <2>1 DEF Arrives
    <3>2. [kind |-> kind, id |-> sends + 1] \in Message
      BY <1>0, <2>1 DEF Arrives, Message
    <3> QED
      BY <1>0, <3>1, <3>2
  <2>2. CASE inbox # <<>> /\ inbox' = Tail(inbox)
    BY <1>0, <2>2
  <2>3. CASE inbox' = inbox \/ inbox' = <<>>
    <3>1. <<>> \in Seq(Message)
      OBVIOUS
    <3> QED
      BY <1>0, <2>3, <3>1, Zenon
  <2> QED
    BY <2>1, <2>2, <2>3 DEF Still, Enqueues, Empties, LoopDequeue, BeginRun
<1>3. queue' \in [next : 1..(MaxSends + 1), items : Seq(Item)]
  <2>1. CASE Enqueues
    <3> DEFINE item == [sequence |-> queue.next, entry |-> Head(inbox).id]
    <3>1. item \in Item
      BY <1>0, <2>1, InboxFacts DEF Enqueues, Item
    <3>2. queue' = [next |-> queue.next + 1, items |-> Append(queue.items, item)]
      BY <2>1 DEF Enqueues, Enqueued
    <3>3. queue'.next \in 1..(MaxSends + 1)
      BY <1>0, <1>1 DEF SocketOrdered
    <3> HIDE DEF item
    <3>4. Append(queue.items, item) \in Seq(Item)
      BY <1>0, <3>1
    <3> QED
      BY <3>2, <3>3, <3>4
  <2>2. CASE LoopDequeue
    <3>1. queue.items \in Seq(Item) /\ queue.items # <<>>
      BY <1>0, <2>2 DEF LoopDequeue, HasItem
    <3>2. Tail(queue.items) \in Seq(Item)
      BY <3>1
    <3> QED
      BY <1>0, <2>2, <3>2 DEF LoopDequeue, Dequeued
  <2>3. CASE Empties
    BY <1>0, <2>3 DEF Empties, NoQueue
  <2> QED
    BY <1>0, <2>1, <2>2, <2>3 DEF Still, Arrives, BeginRun
<1>4. begun' \in Seq(1..MaxSends)
  <2>1. CASE BeginRun
    <3>1. run \in 1..MaxSends
      BY <1>0, <2>1 DEF BeginRun, TypeOK
    <3> QED
      BY <1>0, <2>1, <3>1 DEF BeginRun
  <2> QED
    BY <1>0, <2>1 DEF Still, Arrives, Enqueues, Empties, LoopDequeue
<1> QED
  BY <1>1, <1>2, <1>3, <1>4

(* Where the worker is, and what its flags and files hold.                 *)
Placed ==
  /\ pc \in Location
  /\ shutdown \in BOOLEAN /\ nested \in BOOLEAN
  /\ run \in 0..MaxSends
  /\ run = 0 <=> pc \in {"off", "loop"}
  /\ nested => pc = "running"
  /\ disk = 0 <=> outcome = "none"
  /\ disk \in 0..MaxSends /\ outcome \in Outcome
  /\ gone \subseteq 1..MaxSends
  /\ stops \in 0..MaxStops

(* A flag that is lowered is a Boolean that does not hold.                 *)
LEMMA LoweredFlag ==
  ASSUME NEW f, f = FALSE
  PROVE  f \in BOOLEAN /\ ~ f
OBVIOUS

(* A run that ends, or a process: what is where, but for the budget.       *)
LEMMA EndsPlaced ==
  ASSUME TypeOK, RunIsSaved, pc \in {"running", "interrupted"},
         NEW how \in {"done", "failed", "aborted"}, Ends(how), stops' \in 0..MaxStops
  PROVE  Placed' /\ RunIsSaved' /\ ServesEnded'
<1>1. nested' \in BOOLEAN /\ ~ nested'
  BY LoweredFlag DEF Ends
<1>2. shutdown' \in BOOLEAN
  BY Zenon DEF Ends, TypeOK
<1>3. disk # 0
  BY DEF TypeOK, RunIsSaved
<1>4. 0 \in 0..MaxSends
  BY ServeAssumption
<1>5. /\ pc' = "loop" /\ run' = 0 /\ outcome' = how /\ disk' = disk
      /\ gone' = gone /\ how \in Outcome /\ how # "none" /\ how # "open"
  BY DEF Ends, Outcome
<1> QED
  BY <1>1, <1>2, <1>3, <1>4, <1>5
     DEF TypeOK, Placed, RunIsSaved, ServesEnded, Location

(* The same of a process that ends.                                        *)
LEMMA EndedPlaced ==
  ASSUME TypeOK, Ended, UNCHANGED <<files, gone>>, stops' \in 0..MaxStops
  PROVE  Placed' /\ RunIsSaved' /\ ServesEnded'
<1>1. nested' \in BOOLEAN /\ ~ nested'
  BY LoweredFlag DEF Ended
<1>2. shutdown' \in BOOLEAN
  BY LoweredFlag DEF Ended
<1>3. 0 \in 0..MaxSends
  BY ServeAssumption
<1>4. pc' = "off" /\ run' = 0 /\ outcome' = outcome /\ disk' = disk /\ gone' = gone
  BY DEF Ended, files
<1> QED
  BY <1>1, <1>2, <1>3, <1>4 DEF TypeOK, Placed, RunIsSaved, ServesEnded, Location

(* Every step keeps the run where the place in the loop says it is.        *)
LEMMA PlacedStep ==
  ASSUME TypeOK, RunIsSaved, ServesEnded, [Next]_vars
  PROVE  Placed' /\ RunIsSaved' /\ ServesEnded'
<1> USE ServeAssumption DEF TypeOK, Placed, RunIsSaved, ServesEnded, Location, Outcome
<1>1. ASSUME NEW kind \in Kind, Send(kind) PROVE Placed' /\ RunIsSaved' /\ ServesEnded'
  BY <1>1 DEF Send, files
<1>2. CASE LoopDequeue
  <2>1. run' \in 1..MaxSends
    BY <1>2, DequeuedFacts, QueueFacts
  <2> QED
    BY <1>2, <2>1 DEF LoopDequeue, Loop
<1>3. CASE LoopReceive
  BY <1>3 DEF LoopReceive, Loop, ResumeRun
<1>4. CASE BeginRun
  BY <1>4 DEF BeginRun, SavedFresh
<1>5. CASE RefuseRun
  BY <1>5 DEF RefuseRun, files
<1>6. CASE LoopExit \/ Crash
  <2>1. stops' \in 0..MaxStops
    BY <1>6 DEF LoopExit, Crash, Stop
  <2> QED
    BY <1>6, <2>1, EndedPlaced DEF LoopExit, Crash
<1>7. CASE InterruptedReceives
  <2>1. CASE Head(inbox).kind \in {"rerun", "skip"}
    BY <1>7, <2>1 DEF InterruptedReceives, files
  <2>2. CASE Head(inbox).kind = "abort"
    BY <1>7, <2>2, EndsPlaced DEF InterruptedReceives
  <2>3. CASE Head(inbox).kind \notin {"rerun", "skip", "abort"}
    BY <1>7, <2>3 DEF InterruptedReceives, files
  <2> QED
    BY <2>1, <2>2, <2>3
<1>8. CASE InterruptedExit
  BY <1>8 DEF InterruptedExit, SeesShutdown, files
<1>15. CASE TaskReceives \/ RunReceives
  BY <1>15 DEF TaskReceives, RunReceives, files
<1>9. CASE RunCompletes \/ RunFails
  <2>1. stops' \in 0..MaxStops /\ pc = "running"
    BY <1>9 DEF RunCompletes, RunFails, Stop
  <2>2. PICK how \in {"done", "failed"} : Ends(how)
    BY <1>9 DEF RunCompletes, RunFails
  <2> QED
    BY <2>1, <2>2, EndsPlaced
<1>10. CASE Interrupt
  <2>1. stops' \in 0..MaxStops /\ pc = "running"
    BY <1>10 DEF Interrupt, Stop
  <2>2. CASE Ends("failed")
    BY <2>1, <2>2, EndsPlaced
  <2>3. CASE pc' = "interrupted" /\ ~ nested
    BY <1>10, <2>1, <2>3 DEF Interrupt, files
  <2> QED
    BY <1>10, <2>2, <2>3 DEF Interrupt
<1>11. CASE Start
  <2>1. InQueue \subseteq 1..MaxSends
    BY QueueFacts DEF InQueue
  <2>2. gone' \subseteq 1..MaxSends
    BY <1>11, <2>1 DEF Start
  <2> QED
    BY <1>11, <2>2 DEF Start, ResumesAtStart, ResumeRun
<1>12. CASE Clear
  BY <1>12 DEF Clear, process
<1>13. CASE Shutdown
  BY <1>13 DEF Shutdown, Stop, files
<1>14. CASE UNCHANGED vars
  BY <1>14 DEF vars, process, files
<1> QED
  BY <1>1, <1>2, <1>3, <1>4, <1>5, <1>6, <1>7, <1>8, <1>9, <1>10, <1>11, <1>12,
     <1>13, <1>14, <1>15 DEF Next, Serving, Running, Environment

(* The entries are in order of arrival from the socket through the queue   *)
(* file and the worker's hands to the runs begun, and the run in progress   *)
(* is the saved one: an invariant that every step preserves by itself.      *)
THEOREM InductiveInvariant == Spec => []IInv
<1>1. Init => IInv
  <2> SUFFICES ASSUME Init PROVE IInv
    OBVIOUS
  <2>1. /\ inbox = <<>> /\ begun = <<>> /\ queue = [next |-> 1, items |-> <<>>]
        /\ sends = 0 /\ stops = 0 /\ MaxSends \in Nat /\ MaxStops \in Nat
    BY ServeAssumption DEF Init, NoQueue
  <2>2. TypeOK
    <3>1. /\ nested \in BOOLEAN /\ ~ nested /\ shutdown \in BOOLEAN
      BY LoweredFlag DEF Init
    <3>2. /\ 0 \in 0..MaxSends /\ 0 \in 0..MaxStops
          /\ <<>> \in Seq(Message) /\ <<>> \in Seq(1..MaxSends) /\ <<>> \in Seq(Item)
          /\ 1 \in 1..(MaxSends + 1)
      BY <2>1
    <3>3. /\ pc = "off" /\ run = 0 /\ disk = 0 /\ outcome = "none" /\ gone = {}
      BY DEF Init
    <3> QED
      BY <2>1, <3>1, <3>2, <3>3 DEF TypeOK, Location, Outcome
  <2>3. Ordered
    BY <2>1 DEF Init, Ordered, SocketOrdered, QueueOrdered, TakenOrdered, BegunOrdered
  <2> QED
    BY <2>2, <2>3 DEF Init, IInv, RunIsSaved, ServesEnded
<1>2. ASSUME IInv, [Next]_vars PROVE IInv'
  <2>1. TypeOK /\ Ordered /\ RunIsSaved /\ ServesEnded
    BY <1>2 DEF IInv
  <2>2. Still \/ Arrives \/ Enqueues \/ Empties \/ LoopDequeue \/ BeginRun
    BY <1>2, <2>1, KindsOfStep
  <2>3. Ordered'
    BY <2>1, <2>2, SocketStep, QueueStep, TakenStep, BegunStep DEF Ordered
  <2>4. Placed' /\ RunIsSaved' /\ ServesEnded'
    BY <1>2, <2>1, PlacedStep
  <2>5. TypeOK'
    BY <2>1, <2>2, <2>3, <2>4, EntryTypes DEF Ordered, Placed, TypeOK
  <2> QED
    BY <2>3, <2>4, <2>5 DEF IInv
<1> QED
  BY <1>1, <1>2, PTL DEF Spec

-----------------------------------------------------------------------------
(* The types of the worker and of its files, at every step.                *)
THEOREM TypeCorrect == Spec => []TypeOK
BY InductiveInvariant, PTL DEF IInv

(* The run in progress, or interrupted, is the one in the state file.      *)
THEOREM RunSaved == Spec => []RunIsSaved
BY InductiveInvariant, PTL DEF IInv

(* Sequence numbers in the queue file increase and are never given twice.  *)
THEOREM SequenceNumbers == Spec => []Numbered
<1>1. IInv => Numbered
  BY DEF IInv, Ordered, QueueOrdered, Numbered
<1> QED
  BY <1>1, InductiveInvariant, PTL

(* A run cut short is taken up before another takes its place.             *)
THEOREM CutShortResumed == Spec => CutShortIsResumed
<1>1. ASSUME IInv, [Next]_vars PROVE [disk' \notin {0, disk} => outcome # "open"]_vars
  <2>1. CASE BeginRun
    BY <1>1, <2>1 DEF BeginRun, IInv, ServesEnded
  <2>2. CASE UNCHANGED disk
    BY <2>2
  <2>3. CASE Clear
    BY <2>3 DEF Clear
  <2>4. ASSUME ~ BeginRun, ~ Clear PROVE UNCHANGED disk
    BY <1>1, <2>4 DEF Next, Serving, Running, Environment, Send, LoopDequeue,
       LoopReceive, ResumeRun, RefuseRun, LoopExit, Ended, InterruptedReceives, Ends,
       InterruptedExit, RunReceives, TaskReceives, RunCompletes, RunFails, Interrupt,
       Start, Shutdown, Crash, vars, process, files
  <2> QED
    BY <2>1, <2>2, <2>3, <2>4
<1> QED
  BY <1>1, InductiveInvariant, PTL DEF Spec, CutShortIsResumed

-----------------------------------------------------------------------------
Entry == 1..MaxSends

(* The entries of a list of items, one by one.                             *)
LEMMA EntriesFacts ==
  ASSUME NEW items \in Seq(Item)
  PROVE  /\ Entries(items) \in Seq(Entry) /\ Len(Entries(items)) = Len(items)
         /\ Len(items) \in Nat
         /\ \A i \in 1..Len(items) : Entries(items)[i] = items[i].entry
<1>1. Len(items) \in Nat /\ \A i \in 1..Len(items) : items[i].entry \in Entry
  <2>1. Len(items) \in Nat /\ \A i \in 1..Len(items) : items[i] \in Item
    OBVIOUS
  <2> QED
    BY <2>1 DEF Item, Entry
<1>2. Entries(items) \in [1..Len(items) -> Entry]
  BY <1>1 DEF Entries
<1>3. Entries(items) \in Seq(Entry)
  BY <1>1, <1>2, SeqDef
<1>4. DOMAIN Entries(items) = 1..Len(Entries(items)) /\ Len(Entries(items)) \in Nat
  BY <1>3
<1>5. Len(Entries(items)) = Len(items)
  BY <1>1, <1>2, <1>4
<1> QED
  BY <1>1, <1>3, <1>5 DEF Entries

(* Appending an item appends its entry.                                    *)
LEMMA EntriesAppend ==
  ASSUME NEW items \in Seq(Item), NEW item \in Item
  PROVE  Entries(Append(items, item)) = Append(Entries(items), item.entry)
<1>1. /\ Append(items, item) \in Seq(Item)
      /\ Len(Append(items, item)) = Len(items) + 1
      /\ \A i \in 1..Len(items) : Append(items, item)[i] = items[i]
      /\ Append(items, item)[Len(items) + 1] = item
  BY AppendFacts
<1>2. item.entry \in Entry
  BY DEF Item, Entry
<1> DEFINE e == Entries(items)
           x == item.entry
<1>3. /\ Append(e, x) \in Seq(Entry)
      /\ Len(Append(e, x)) = Len(e) + 1
      /\ \A i \in 1..Len(e) : Append(e, x)[i] = e[i]
      /\ Append(e, x)[Len(e) + 1] = x
  BY <1>2, EntriesFacts, AppendFacts
<1>4. /\ Entries(Append(items, item)) \in Seq(Entry)
      /\ Len(Entries(Append(items, item))) = Len(items) + 1
      /\ \A i \in 1..(Len(items) + 1) :
           Entries(Append(items, item))[i] = Append(items, item)[i].entry
  BY <1>1, EntriesFacts
<1>5. Len(e) = Len(items) /\ Len(items) \in Nat /\ \A i \in 1..Len(items) : e[i] = items[i].entry
  BY EntriesFacts
<1> HIDE DEF e
<1>6. \A i \in 1..(Len(items) + 1) :
         Entries(Append(items, item))[i] = Append(e, x)[i]
  BY <1>1, <1>3, <1>4, <1>5
<1> QED
  <2>1. Len(Append(e, x)) = Len(items) + 1
    BY <1>3, <1>5
  <2> DEFINE s == Entries(Append(items, item))
             t == Append(e, x)
  <2>2. s \in Seq(Entry) /\ t \in Seq(Entry) /\ Len(s) = Len(t)
        /\ \A i \in 1..Len(s) : s[i] = t[i]
    BY <1>3, <1>4, <1>6, <2>1
  <2> HIDE DEF s, t
  <2>3. s = t
    BY <2>2, SeqEqual
  <2> QED
    BY <2>3 DEF s, t, e

(* An entry put in front of a line.                                        *)
LEMMA JoinFacts ==
  ASSUME NEW r \in Entry, NEW s \in Seq(Entry)
  PROVE  /\ <<r>> \o s # <<>> /\ Head(<<r>> \o s) = r /\ Tail(<<r>> \o s) = s
         /\ <<r>> \o s \in Seq(Entry)
         /\ <<>> \o s = s
<1> DEFINE t == <<r>> \o s
<1>1. <<r>> \in Seq(Entry) /\ Len(<<r>>) = 1 /\ Len(s) \in Nat
  OBVIOUS
<1>2. /\ t \in Seq(Entry) /\ Len(t) = 1 + Len(s)
      /\ \A i \in 1..(1 + Len(s)) : t[i] = IF i <= 1 THEN <<r>>[i] ELSE s[i - 1]
  BY <1>1, ConcatProperties
<1> HIDE DEF t
<1>3. t # <<>> /\ Head(t) = r
  BY <1>1, <1>2
<1>4. /\ Tail(t) \in Seq(Entry) /\ Len(Tail(t)) = Len(s)
      /\ \A i \in 1..Len(s) : Tail(t)[i] = s[i]
  BY <1>1, <1>2, <1>3, HeadTailProperties
<1>5. Tail(t) = s
  BY <1>4, SeqEqual
<1> QED
  BY <1>2, <1>3, <1>5, ConcatEmptySeq DEF t

(* The first item's entry is in front of those of the rest.                *)
LEMMA EntriesTail ==
  ASSUME NEW items \in Seq(Item), items # <<>>
  PROVE  Entries(items) = <<items[1].entry>> \o Entries(Tail(items))
<1>1. /\ Tail(items) \in Seq(Item) /\ Len(Tail(items)) = Len(items) - 1
      /\ Len(items) \in Nat /\ items[1] \in Item
      /\ \A i \in 1..(Len(items) - 1) : Tail(items)[i] = items[i + 1]
  OBVIOUS
<1>2. /\ Entries(items) \in Seq(Entry) /\ Len(Entries(items)) = Len(items)
      /\ \A i \in 1..Len(items) : Entries(items)[i] = items[i].entry
  BY EntriesFacts
<1>3. /\ Entries(Tail(items)) \in Seq(Entry)
      /\ Len(Entries(Tail(items))) = Len(items) - 1
      /\ \A i \in 1..(Len(items) - 1) : Entries(Tail(items))[i] = items[i + 1].entry
  BY <1>1, EntriesFacts
<1>4. items[1].entry \in Entry /\ <<items[1].entry>> \in Seq(Entry)
      /\ Len(<<items[1].entry>>) = 1
  BY <1>1 DEF Item, Entry
<1> DEFINE e == Entries(Tail(items))
           r == items[1].entry
           all == <<r>> \o e
<1>5. /\ all \in Seq(Entry) /\ Len(all) = Len(items)
      /\ \A i \in 1..Len(items) : all[i] = IF i <= 1 THEN <<r>>[i] ELSE e[i - 1]
  <2>1. /\ e \in Seq(Entry) /\ Len(e) = Len(items) - 1 /\ <<r>> \in Seq(Entry)
        /\ Len(<<r>>) = 1
    BY <1>3, <1>4
  <2>2. /\ all \in Seq(Entry) /\ Len(all) = Len(<<r>>) + Len(e)
        /\ \A i \in 1..(Len(<<r>>) + Len(e)) :
             all[i] = IF i <= Len(<<r>>) THEN <<r>>[i] ELSE e[i - Len(<<r>>)]
    BY <2>1, ConcatProperties
  <2>3. Len(<<r>>) + Len(e) = Len(items)
    <3>1. Len(items) \in Nat /\ Len(<<r>>) = 1 /\ Len(e) = Len(items) - 1
      BY <1>1, <2>1, Zenon
    <3> DEFINE m == Len(<<r>>)
               n == Len(e)
               k == Len(items)
    <3>2. k \in Nat /\ m = 1 /\ n = k - 1
      BY <3>1
    <3> HIDE DEF m, n, k
    <3>3. m + n = k
      BY <3>2
    <3> QED
      BY <3>3 DEF m, n, k
  <2> QED
    BY <2>1, <2>2, <2>3
<1> HIDE DEF e, all
<1>6. ASSUME NEW i \in 1..Len(items) PROVE all[i] = Entries(items)[i]
  <2>1. CASE i = 1
    BY <1>2, <1>5, <2>1
  <2>2. CASE i > 1
    <3>1. i - 1 \in 1..(Len(items) - 1) /\ (i - 1) + 1 = i
      BY <1>1, <2>2
    <3> QED
      BY <1>2, <1>3, <1>5, <2>2, <3>1 DEF e
  <2> QED
    BY <2>1, <2>2
<1>7. all = Entries(items)
  BY <1>2, <1>5, <1>6, SeqEqual
<1> QED
  BY <1>7 DEF all, e

-----------------------------------------------------------------------------
(* The line in terms of the queue file.                                    *)
LEMMA LineFacts ==
  ASSUME TypeOK
  PROVE  /\ pc # "taken" => Line = Entries(queue.items)
         /\ pc = "taken" => Line = <<run>> \o Entries(queue.items) /\ run \in Entry
         /\ Entries(queue.items) \in Seq(Entry) /\ Line \in Seq(Entry)
<1>1. Entries(queue.items) \in Seq(Entry)
  BY QueueFacts, EntriesFacts
<1>2. pc = "taken" => run \in Entry
  BY ServeAssumption DEF TypeOK, Entry
<1>3. <<>> \o Entries(queue.items) = Entries(queue.items)
  BY <1>1, ConcatEmptySeq
<1>4. /\ pc # "taken" => Line = Entries(queue.items)
      /\ pc = "taken" => Line = <<run>> \o Entries(queue.items)
  BY <1>3 DEF Line
<1> QED
  BY <1>1, <1>2, <1>4, JoinFacts

(* The same after a step.                                                  *)
LEMMA NextLine ==
  ASSUME TypeOK'
  PROVE  /\ pc' # "taken" => Line' = Entries(queue'.items)
         /\ pc' = "taken" => Line' = <<run'>> \o Entries(queue'.items)
<1>1. Entries(queue'.items) \in Seq(Entry)
  BY EntriesFacts DEF TypeOK
<1>2. <<>> \o Entries(queue'.items) = Entries(queue'.items)
  BY <1>1, ConcatEmptySeq
<1> QED
  BY <1>2 DEF Line

(* A step that moves no entry loses at most the one taken.                 *)
LEMMA StillLine ==
  ASSUME TypeOK, TypeOK', Still
  PROVE  Fifo!LoseFirst \/ UNCHANGED <<Line, begun>>
<1>1. /\ pc' # "taken" => Line' = Entries(queue'.items)
      /\ pc' = "taken" => Line' = <<run'>> \o Entries(queue'.items)
  BY NextLine
<1>2. queue' = queue /\ begun' = begun
  BY DEF Still
<1>3. CASE pc = "taken" /\ pc' # "taken"
  <2>1. Line # <<>> /\ Line' = Tail(Line)
    BY <1>1, <1>2, <1>3, LineFacts, JoinFacts
  <2> QED
    BY <1>2, <2>1 DEF Fifo!LoseFirst
<1>4. CASE pc = "taken" /\ pc' = "taken"
  BY <1>1, <1>2, <1>4, LineFacts DEF Still, KeepsTaken
<1>5. CASE pc # "taken"
  BY <1>1, <1>2, <1>5, LineFacts DEF Still, KeepsTaken
<1> QED
  BY <1>3, <1>4, <1>5

(* Every step of the worker is a step of the line, or leaves it alone.     *)
LEMMA LineStep ==
  ASSUME TypeOK, TypeOK', Ordered, [Next]_vars
  PROVE  [Fifo!Next]_(Fifo!fifo)
<1>1. Still \/ Arrives \/ Enqueues \/ Empties \/ LoopDequeue \/ BeginRun
  BY KindsOfStep
<1>2. CASE Still
  BY <1>2, StillLine DEF Fifo!Next, Fifo!fifo
<1>3. CASE Arrives
  <2>1. queue' = queue /\ begun' = begun /\ pc' = pc /\ run' = run
    BY <1>3 DEF Arrives
  <2> QED
    BY <2>1 DEF Line, Fifo!fifo
<1>4. CASE Enqueues
  <2> DEFINE n == Head(inbox).id
  <2>1. /\ n \in 1..MaxSends /\ \A i \in 1..Len(queue.items) : queue.items[i].entry < n
        /\ \A i \in 1..Len(begun) : begun[i] < n
    BY <1>4, InboxFacts DEF Enqueues, Ordered, QueueOrdered, BegunOrdered
  <2>2. Line = Entries(queue.items)
    BY <1>4, LineFacts DEF Enqueues
  <2>3. Line' = Append(Line, n)
    <3> DEFINE item == [sequence |-> queue.next, entry |-> n]
    <3>1. queue'.items = Append(queue.items, item) /\ pc' # "taken"
      BY <1>4 DEF Enqueues, Enqueued
    <3>2. item \in Item /\ item.entry = n
      BY <2>1 DEF Item, TypeOK
    <3>3. queue.items \in Seq(Item)
      BY QueueFacts
    <3> HIDE DEF item, n
    <3>4. Entries(queue'.items) = Append(Entries(queue.items), n)
      BY <3>1, <3>2, <3>3, EntriesAppend
    <3> QED
      BY <2>2, <3>1, <3>4, NextLine
  <2>4. \A i \in 1..Len(Line) : Line[i] < n
    BY <2>1, <2>2, EntriesFacts, QueueFacts
  <2>5. Fifo!Before(n, Line) /\ Fifo!Before(n, begun)
    BY <2>1, <2>4 DEF Fifo!Before
  <2>6. begun' = begun
    BY <1>4 DEF Enqueues
  <2> QED
    BY <2>1, <2>3, <2>5, <2>6 DEF Fifo!Next, Fifo!Accept
<1>5. CASE Empties
  <2>1. queue'.items = <<>> /\ pc' # "taken" /\ begun' = begun
    BY <1>5 DEF Empties, NoQueue
  <2>2. Entries(<<>>) = <<>>
    BY DEF Entries
  <2> QED
    BY <2>1, <2>2, NextLine DEF Fifo!Next, Fifo!Clear
<1>6. CASE LoopDequeue
  <2>1. /\ queue.items \in Seq(Item) /\ queue.items # <<>>
        /\ queue'.items = Tail(queue.items) /\ run' = queue.items[1].entry
        /\ pc # "taken" /\ pc' = "taken" /\ begun' = begun
    BY <1>6, QueueFacts, DequeuedFacts DEF LoopDequeue, Loop, HasItem, Dequeued, TypeOK
  <2>2. Entries(queue.items) = <<run'>> \o Entries(queue'.items)
    BY <2>1, EntriesTail
  <2> QED
    BY <2>1, <2>2, LineFacts, NextLine DEF Fifo!fifo
<1>7. CASE BeginRun
  <2>1. /\ pc = "taken" /\ pc' # "taken" /\ queue' = queue /\ begun' = Append(begun, run)
    BY <1>7 DEF BeginRun
  <2>2. Line # <<>> /\ Head(Line) = run /\ Line' = Tail(Line)
    BY <2>1, LineFacts, NextLine, JoinFacts
  <2> QED
    BY <2>1, <2>2 DEF Fifo!Next, Fifo!Begin
<1> QED
  BY <1>1, <1>2, <1>3, <1>4, <1>5, <1>6, <1>7

(* The worker implements the line: entry signals start runs in the order   *)
(* they arrived, none of them twice, whatever happens to the process.      *)
THEOREM ImplementsFifo == Spec => ServesInOrder
<1>1. Init => Fifo!Init
  BY DEF Init, Fifo!Init, Line, Entries, NoQueue
<1>2. ASSUME IInv, IInv', [Next]_vars PROVE [Fifo!Next]_(Fifo!fifo)
  BY <1>2, LineStep DEF IInv
<1> QED
  BY <1>1, <1>2, InductiveInvariant, PTL DEF Spec, ServesInOrder, Fifo!Spec

(* The runs begun are in the order in which their entry signals arrived.   *)
THEOREM StartsInOrder == Spec => []Fifo!BegunInOrder
<1>1. IInv => Fifo!BegunInOrder
  <2> SUFFICES ASSUME IInv, NEW i \in 1..Len(begun), NEW j \in 1..Len(begun), i < j
               PROVE  begun[i] < begun[j]
    BY DEF Fifo!BegunInOrder
  <2>1. i \in 1..(j - 1)
    OBVIOUS
  <2> QED
    BY <2>1 DEF IInv, Ordered, BegunOrdered
<1> QED
  BY <1>1, InductiveInvariant, PTL

(* What a worker holds taken, it begins, refuses, or loses with itself.    *)
LEMMA LeavesTaken ==
  ASSUME [Next]_vars, pc = "taken", ~ KeepsTaken \/ pc' # "taken"
  PROVE  BeginRun \/ run \in gone \/ pc' = "off"
BY DEF Next, Serving, Running, Environment, Send, LoopDequeue, Loop, LoopReceive,
   RefuseRun, LoopExit, InterruptedReceives, InterruptedExit, RunReceives,
   TaskReceives, RunCompletes, RunFails, Interrupt, Start, Clear, Shutdown, Crash,
   Ended, KeepsTaken, vars, process

(* An accepted entry stays, starts, is gone or goes down with the worker.  *)
LEMMA KeptStep ==
  ASSUME TypeOK, SocketOrdered, [Next]_vars, NEW n \in Accepted
  PROVE  \/ n \in Accepted'
         \/ \E i \in 1..Len(begun') : begun'[i] = n
         \/ n \in gone
         \/ pc' = "off"
<1>1. CASE n \in InQueue
  <2>1. PICK i \in 1..Len(queue.items) : queue.items[i].entry = n
    BY <1>1 DEF InQueue
  <2>2. CASE queue' = queue
    BY <2>1, <2>2 DEF Accepted, InQueue
  <2>3. CASE Enqueues
    <3>1. /\ Len(queue'.items) = Len(queue.items) + 1 /\ Len(queue.items) \in Nat
          /\ queue'.items[i] = queue.items[i]
      BY <2>3, EnqueuedFacts, InboxFacts, QueueFacts DEF Enqueues
    <3>2. i \in 1..Len(queue'.items)
      BY <3>1
    <3> QED
      BY <2>1, <3>1, <3>2 DEF Accepted, InQueue
  <2>4. CASE LoopDequeue
    <3>1. CASE i = 1
      BY <2>1, <2>4, <3>1, DequeuedFacts DEF Accepted, LoopDequeue
    <3>2. CASE i # 1
      <4>1. i - 1 \in 1..Len(queue'.items) /\ (i - 1) + 1 = i
        BY <2>4, <3>2, DequeuedFacts, QueueFacts
      <4>2. queue'.items[i - 1] = queue.items[i]
        BY <2>4, <4>1, DequeuedFacts
      <4> QED
        BY <2>1, <4>1, <4>2 DEF Accepted, InQueue
    <3> QED
      BY <3>1, <3>2
  <2>5. CASE Empties
    BY <2>5 DEF Empties
  <2> QED
    BY <2>2, <2>3, <2>4, <2>5, KindsOfStep DEF Still, Arrives, BeginRun
<1>2. CASE pc = "taken" /\ n = run
  <2>1. CASE BeginRun
    <3>1. begun' = Append(begun, run) /\ begun \in Seq(1..MaxSends) /\ Len(begun) \in Nat
      BY <2>1, QueueFacts DEF BeginRun
    <3>2. run \in 1..MaxSends
      BY <1>2, ServeAssumption DEF TypeOK
    <3>3. begun'[Len(begun) + 1] = run /\ Len(begun) + 1 \in 1..Len(begun')
      BY <3>1, <3>2, AppendFacts
    <3> QED
      BY <1>2, <3>3
  <2>2. CASE pc' = "taken" /\ KeepsTaken
    BY <1>2, <2>2 DEF KeepsTaken, Accepted
  <2> QED
    BY <1>2, <2>1, <2>2, LeavesTaken
<1> QED
  BY <1>1, <1>2 DEF Accepted

(* While the worker is up, no accepted entry signal leaves the line but    *)
(* for its run, or because the configuration no longer has its execution.  *)
THEOREM KeptAlways == Spec => KeptWhileUp
<1>1. ASSUME IInv, [Next]_vars
      PROVE  [\A n \in Accepted :
                \/ n \in Accepted'
                \/ \E i \in 1..Len(begun') : begun'[i] = n
                \/ n \in gone
                \/ pc' = "off"]_vars
  BY <1>1, KeptStep DEF IInv, Ordered
<1> QED
  BY <1>1, InductiveInvariant, PTL DEF Spec, KeptWhileUp
=============================================================================
