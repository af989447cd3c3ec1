--------------------------- MODULE MCContextStore ---------------------------
(***************************************************************************)
(* ContextStore with two signals without a field in common, and a wait     *)
(* task that goes back if the number f is the text of :k, which may be no  *)
(* number, and on if g has the value it names.                             *)
(***************************************************************************)
EXTENDS ContextStore

First == [f |-> <<"number", "1">>, type |-> <<"string", "2">>]
Second == [g |-> <<"string", "2">>]

(* Without signals entries, or with one that compares with what an earlier *)
(* run left.                                                               *)
MCAccepting == {{}, {[f |-> <<"equals_context", "k">>]}}

MCSignal == {First, Second}
MCFieldType == [f |-> "number", g |-> "string", type |-> "string"]
MCRoutes == <<[when |-> [f |-> <<"equals_context", "k">>], back |-> TRUE],
              [when |-> [g |-> <<"string", "2">>], back |-> FALSE]>>
=============================================================================
