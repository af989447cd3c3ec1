----------------------------- MODULE EntryFifo -----------------------------
(***************************************************************************)
(* What a serve worker promises about entry signals, whatever happens to   *)
(* its process: those it has accepted wait in line, the one in front is    *)
(* the next to start a run, and it starts one.  Those in front may be lost *)
(* (a crash before their run is saved, an execution that is gone), and     *)
(* `clear` empties the line; nothing overtakes and nothing starts twice.   *)
(***************************************************************************)
EXTENDS Naturals, Sequences

CONSTANT Entry  \* entry signals: numbers, in the order they arrive

VARIABLES
  waiting,  \* the accepted entry signals, the next to start in front
  begun     \* history: those that started a run

fifo == <<waiting, begun>>

Init == waiting = <<>> /\ begun = <<>>

Before(n, s) == \A i \in 1..Len(s) : s[i] < n

Accept(n) ==
  /\ Before(n, waiting) /\ Before(n, begun)
  /\ waiting' = Append(waiting, n)
  /\ UNCHANGED begun

Begin ==
  /\ waiting # <<>>
  /\ begun' = Append(begun, Head(waiting))
  /\ waiting' = Tail(waiting)

LoseFirst ==
  /\ waiting # <<>>
  /\ waiting' = Tail(waiting)
  /\ UNCHANGED begun

Clear == waiting' = <<>> /\ UNCHANGED begun

Next == (\E n \in Entry : Accept(n)) \/ Begin \/ LoseFirst \/ Clear

Spec == Init /\ [][Next]_fifo

(* Entry signals start runs in the order they arrived, none of them twice. *)
BegunInOrder == \A i, j \in 1..Len(begun) : i < j => begun[i] < begun[j]
=============================================================================
