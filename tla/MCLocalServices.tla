---- MODULE MCLocalServices ----
(* The parts of the local product beside its runs.  They share the SQLite   *)
(* store but no rows, and each write transaction is exclusive, so a         *)
(* behaviour exercises one of them and leaves the others as they start.     *)
EXTENDS Ingress, SkillLibrary, Governance, Contributions, Delivery, CodingWorkflow, ChatRuntime,
        TLC

VARIABLE part   \* the part a behaviour exercises

svcVars == <<part, ingVars, skillVars, govVars, vars, delVars, wfVars, rtVars>>

SvcInit ==
    /\ part \in {"ingress", "skills", "governance", "contribution", "delivery", "workflow", "chats"}
    /\ IngInit /\ SkillInit /\ GovInit /\ Init /\ DelInit /\ WfInit /\ RtInit
    /\ part # "governance" => topic = "flows"
    /\ part # "contribution" => bytes \in Secrets
    /\ part # "workflow" => backend = "docker"
    /\ part # "chats" => followed

SvcNext ==
    /\ UNCHANGED part
    /\ \/ part = "ingress" /\ IngNext
          /\ UNCHANGED <<skillVars, govVars, vars, delVars, wfVars, rtVars>>
       \/ part = "skills" /\ SkillNext
          /\ UNCHANGED <<ingVars, govVars, vars, delVars, wfVars, rtVars>>
       \/ part = "governance" /\ GovNext
          /\ UNCHANGED <<ingVars, skillVars, vars, delVars, wfVars, rtVars>>
       \/ part = "contribution" /\ Next
          /\ UNCHANGED <<ingVars, skillVars, govVars, delVars, wfVars, rtVars>>
       \/ part = "delivery" /\ DelNext
          /\ UNCHANGED <<ingVars, skillVars, govVars, vars, wfVars, rtVars>>
       \/ part = "workflow" /\ WfNext
          /\ UNCHANGED <<ingVars, skillVars, govVars, vars, delVars, rtVars>>
       \/ part = "chats" /\ RtNext
          /\ UNCHANGED <<ingVars, skillVars, govVars, vars, delVars, wfVars>>

SvcSpec == SvcInit /\ [][SvcNext]_svcVars

(* The parts share the model values of their symmetric sets. *)
Symmetry == Permutations(Procs) \cup Permutations(Bundles) \cup Permutations(CandidateContents)
================================
