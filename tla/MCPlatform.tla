---- MODULE MCPlatform ----
(* The parts of the hosted platform that keep no state in common: sign-in   *)
(* and profiles, the schema and its migrations, the creation of projects    *)
(* under an anchored authority, and governed agent runs.  A behaviour       *)
(* exercises one of them and leaves the others as they start.               *)
EXTENDS WebIdentity, AgentRuntime, SchemaLifecycle, ProjectAuthority, TLC

VARIABLE part   \* the part a behaviour exercises

platformVars == <<part, idVars, agentVars, schemaVars, authVars>>

PlatformInit ==
    /\ part \in {"identity", "agents", "schema", "authority"}
    /\ IdInit /\ AgentInit /\ SchemaInit /\ AuthInit
    /\ part # "identity" => workload = "session" /\ accounts = {}
    /\ part # "schema" => course = "migrate"
    /\ part # "authority" => scenario = "alone"

PlatformNext ==
    /\ UNCHANGED part
    /\ \/ part = "identity" /\ IdNext /\ UNCHANGED <<agentVars, schemaVars, authVars>>
       \/ part = "agents" /\ AgentNext /\ UNCHANGED <<idVars, schemaVars, authVars>>
       \/ part = "schema" /\ SchemaNext /\ UNCHANGED <<idVars, agentVars, authVars>>
       \/ part = "authority" /\ AuthNext /\ UNCHANGED <<idVars, agentVars, schemaVars>>

PlatformSpec == PlatformInit /\ [][PlatformNext]_platformVars

(* The parts share the model values of their symmetric sets. *)
Symmetry == Permutations(Tabs) \cup Permutations(Subjects) \cup Permutations(Emails)
===========================
