---------------------------- MODULE MCGitPublish ----------------------------
(* A small repository and an execution of four phases for TLC. *)
EXTENDS GitPublish

CONSTANTS own1, own2, other1

MCChange == {own1, own2, other1, Env, Marker}

MCOwn == <<own1, own2>>

MCOthers == <<other1>>

(* git:branch before, an agent, git:publish after it, a task that waits    *)
(* for the checks; failed checks lead back to the agent.                   *)
MCPhases == << <<"branch">>, <<"agent">>, <<"commit", "push", "pr">>, <<"checks">> >>

(* What CompletedIsPublished is about. *)
ASSUME MCPublishes == PublishesLast
=============================================================================
