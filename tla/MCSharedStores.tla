---- MODULE MCSharedStores ----
(* The two logs that clients of a workspace follow page by page: changes of *)
(* profiles, and messages and run events of conversations.  They have no    *)
(* rows in common, so a behaviour exercises one of them.  Pages hold one    *)
(* change or event, so that a log of two already takes two pages.           *)
EXTENDS WorkspaceSync, Conversations

VARIABLE part   \* the part a behaviour exercises

sharedVars == <<part, syncVars, convVars>>

SharedInit ==
    /\ part \in {"sync", "conversations"}
    /\ SyncInit /\ ConvInit
    /\ part = "sync" => dialect = "sqlite" /\ workload = "thread"

SharedNext ==
    /\ UNCHANGED part
    /\ \/ part = "sync" /\ SyncNext /\ UNCHANGED convVars
       \/ part = "conversations" /\ ConvNext /\ UNCHANGED syncVars

(* The fairness of FairSyncSpec and of FairConvSpec, each for its part. *)
SharedFairness ==
    /\ WF_sharedVars(part = "sync" /\ UNCHANGED <<part, convVars>> /\ \E r \in net : Served(r))
    /\ WF_sharedVars(part = "conversations" /\ UNCHANGED <<part, syncVars>> /\ PageBounds)
    /\ WF_sharedVars(part = "conversations" /\ UNCHANGED <<part, syncVars>> /\ PageChain)
    /\ \A c \in Callers :
          WF_sharedVars(/\ part = "conversations" /\ UNCHANGED <<part, syncVars>>
                        /\ \E op \in Requests : Finish(c, op))

SharedSpec == SharedInit /\ [][SharedNext]_sharedVars /\ SharedFairness
===============================
