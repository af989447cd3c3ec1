-------------------------- MODULE MCConfigLoading --------------------------
(***************************************************************************)
(* ConfigLoading with names for two or three executions and some include   *)
(* files: one that needs a parameter, one with a default for it that       *)
(* defines an execution of the first again, and one without parameters.    *)
(***************************************************************************)
EXTENDS ConfigLoading

CONSTANTS p

MCContents ==
  {[names |-> {"x", "y"}, needs |-> {p}, defaults |-> {}],
   [names |-> {"y"}, needs |-> {p}, defaults |-> {p}],
   [names |-> {"x"}, needs |-> {}, defaults |-> {}]}

(* Each sub-task is read alike whatever execution it is in: only the first *)
(* has two.                                                                *)
MCMaxTasks == <<2, 1, 1>>

MCField == [text |-> "string", count |-> "number", data |-> "mapping"]
=============================================================================
