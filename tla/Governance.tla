------------------------------ MODULE Governance ------------------------------
(* mvp/governance.py: teams, provider connections and the two flows that     *)
(* connect them, credential grants, autonomy, skills and routines, restored  *)
(* records.  Every method is one write transaction (BEGIN IMMEDIATE), so the *)
(* question is what sequences of calls reach.                                *)
EXTENDS Integers, Sequences, FiniteSets

CONSTANTS
    People,           \* principals
    Projects,
    MaxTeams, MaxConnections, MaxFlows, MaxSkills, MaxDecisions, MaxEvidence  \* bounds

ASSUME GovernanceBounds ==
    {MaxTeams, MaxConnections, MaxFlows, MaxSkills, MaxDecisions, MaxEvidence} \subseteq Nat

VARIABLES
    topic,        \* the part of the service a behaviour exercises
    teams,        \* mvp_teams with mvp_team_members: sequence of [project, role]
    connections,  \* mvp_provider_connections: sequence of [project, status]
    flows,        \* mvp_oauth_flows, mvp_device_flows: sequence of
                  \*   [kind, connection, status, by, late]
    grants,       \* mvp_credential_grants: set of [connection, to, by]
    decisions,    \* mvp_autonomy_decisions: sequence of [project, person, executed]
    evidence,     \* mvp_autonomy_evidence: sequence of [decision, successful]
    policy,       \* mvp_autonomy_policies: function of <<project, person>>
    govSkills,    \* mvp_skill_versions: sequence of [project, active]
    routines,     \* mvp_routines: sequence of [project, skill]
    runsOf,       \* mvp_routine_runs: set of [routine, skill, by]
    owned         \* ghost: who was an owner of a project at some time: set of <<project, person>>

govVars == <<topic, teams, connections, flows, grants, decisions, evidence, policy, govSkills,
             routines, runsOf, owned>>
flowVars == <<connections, flows, grants>>
autonomyVars == <<decisions, evidence, policy>>
skillsVars == <<govSkills, routines, runsOf>>

Roles == {"owner", "operator", "viewer"}

GovInit ==
    /\ topic \in {"flows", "grants", "autonomy", "routines"}
    /\ teams = <<>> /\ connections = <<>> /\ flows = <<>> /\ grants = {}
    /\ decisions = <<>> /\ evidence = <<>> /\ owned = {}
    /\ policy = [x \in Projects \X People |-> [mode |-> "shadow", evidence |-> 0]]
    /\ govSkills = <<>> /\ routines = <<>> /\ runsOf = {}

(* _require_project_owner and _require_project_member: by any team of the   *)
(* project.                                                                 *)
RoleIn(k, p) == IF p \in DOMAIN teams[k].role THEN teams[k].role[p] ELSE "none"

IsOwner(j, p) == \E k \in DOMAIN teams : teams[k].project = j /\ RoleIn(k, p) = "owner"
IsMember(j, p) == \E k \in DOMAIN teams : teams[k].project = j /\ RoleIn(k, p) # "none"

CreateTeam(j, p) ==
    /\ topic # "autonomy" /\ Len(teams) < MaxTeams
    /\ teams' = Append(teams, [project |-> j, role |-> [x \in {p} |-> "owner"]])
    /\ owned' = owned \cup {<<j, p>>}
    /\ UNCHANGED <<topic, flowVars, autonomyVars, skillsVars>>

(* add_member: an owner sets anyone's role, their own and the last owner's  *)
(* too.                                                                     *)
AddMember(p) ==
    \E k \in DOMAIN teams, q \in People, role \in Roles :
        /\ RoleIn(k, p) = "owner" /\ RoleIn(k, q) # role
        /\ teams' = [teams EXCEPT ![k].role =
               [x \in DOMAIN @ \cup {q} |-> IF x = q THEN role ELSE @[x]]]
        /\ owned' = IF role = "owner" THEN owned \cup {<<teams[k].project, q>>} ELSE owned
        /\ UNCHANGED <<topic, flowVars, autonomyVars, skillsVars>>

-----------------------------------------------------------------------------
CreateConnection(j) ==
    /\ topic \in {"flows", "grants"} /\ Len(connections) < MaxConnections
    /\ connections' = Append(connections, [project |-> j, status |-> "configured"])
    /\ UNCHANGED <<topic, teams, flows, grants, owned, autonomyVars, skillsVars>>

(* grant_provider_capability                                                *)
Grant(p) ==
    \E k \in DOMAIN connections, q \in People :
        /\ topic = "grants" /\ IsOwner(connections[k].project, p)
        /\ grants' = grants \cup {[connection |-> k, to |-> q, by |-> p]}
        /\ UNCHANGED <<topic, teams, connections, flows, owned, autonomyVars, skillsVars>>

(* begin_oauth and begin_device_flow                                        *)
BeginFlow(kind) ==
    \E k \in DOMAIN connections :
        /\ topic = "flows" /\ Len(flows) < MaxFlows
        /\ flows' = Append(flows, [kind |-> kind, connection |-> k, status |-> "pending",
                                   by |-> {}, late |-> FALSE])
        /\ UNCHANGED <<topic, teams, connections, grants, owned, autonomyVars, skillsVars>>

(* Ten minutes after its begin.                                             *)
FlowExpires ==
    \E f \in DOMAIN flows :
        /\ flows[f].kind = "device" /\ ~flows[f].late
        /\ flows' = [flows EXCEPT ![f].late = TRUE]
        /\ UNCHANGED <<topic, teams, connections, grants, owned, autonomyVars, skillsVars>>

Connected(k) == [connections EXCEPT ![k].status = "connected"]

(* complete_oauth: a pending flow with its own verifier; an authorization   *)
(* code is not checked further.                                             *)
CompleteOAuth ==
    \E f \in DOMAIN flows :
        /\ flows[f].kind = "oauth" /\ flows[f].status = "pending"
        /\ flows' = [flows EXCEPT ![f].status = "completed"]
        /\ connections' = Connected(flows[f].connection)
        /\ UNCHANGED <<topic, teams, grants, owned, autonomyVars, skillsVars>>

(* approve_device_flow: by an owner, before it expires; the status written  *)
(* for an expired flow is rolled back with the error.                       *)
MayApprove(f, p) == IsOwner(connections[flows[f].connection].project, p) /\ ~flows[f].late

ApproveDevice(p) ==
    \E f \in DOMAIN flows :
        /\ flows[f].kind = "device" /\ flows[f].status \in {"pending", "approved"}
        /\ MayApprove(f, p)
        /\ flows' = [flows EXCEPT ![f].status = "approved", ![f].by = {p}]
        /\ UNCHANGED <<topic, teams, connections, grants, owned, autonomyVars, skillsVars>>

\* Mistake: an approved flow does not expire.
PendingExpires(f) == flows[f].late /\ flows[f].status = "pending"

(* expires_at <= now, whatever the status is.                               *)
Expired(f) == flows[f].late

(* poll_device_flow: expiry first; a flow that has connected turns expired  *)
(* too, and its connection stays connected.                                 *)
PollDevice ==
    \E f \in DOMAIN flows :
        /\ flows[f].kind = "device"
        /\ \/ /\ flows[f].late /\ flows[f].status # "expired"
              /\ flows' = [flows EXCEPT ![f].status = "expired"]
              /\ UNCHANGED connections
           \/ /\ ~Expired(f) /\ flows[f].status = "approved"
              /\ flows' = [flows EXCEPT ![f].status = "connected"]
              /\ connections' = Connected(flows[f].connection)
        /\ UNCHANGED <<topic, teams, grants, owned, autonomyVars, skillsVars>>

-----------------------------------------------------------------------------
(* evaluate_autonomy: executed only in mode autonomous.                     *)
Evaluate(j, p) ==
    /\ topic = "autonomy" /\ Len(decisions) < MaxDecisions
    /\ \E requested \in BOOLEAN :
        decisions' = Append(decisions, [project |-> j, person |-> p,
            executed |-> requested /\ policy[<<j, p>>].mode = "autonomous"])
    /\ UNCHANGED <<topic, teams, owned, flowVars, evidence, policy, skillsVars>>

RecordEvidence ==
    \E d \in DOMAIN decisions, ok \in BOOLEAN :
        /\ Len(evidence) < MaxEvidence
        /\ evidence' = Append(evidence, [decision |-> d, successful |-> ok])
        /\ UNCHANGED <<topic, teams, owned, flowVars, decisions, policy, skillsVars>>

Successes(j, p) ==
    Cardinality({e \in DOMAIN evidence :
        /\ evidence[e].successful
        /\ decisions[evidence[e].decision].project = j
        /\ decisions[evidence[e].decision].person = p})

(* promote_autonomy writes mode supervised, never autonomous.               *)
Promoted(j, p) ==
    [policy EXCEPT ![<<j, p>>] = [mode |-> "supervised", evidence |-> Successes(j, p)]]

PromoteAutonomy(j, p) ==
    /\ topic = "autonomy"
    /\ \E minimum \in 1..MaxEvidence : Successes(j, p) >= minimum
    /\ policy' = Promoted(j, p)
    /\ UNCHANGED <<topic, teams, owned, flowVars, decisions, evidence, skillsVars>>

-----------------------------------------------------------------------------
CreateSkill(j) ==
    /\ topic = "routines" /\ Len(govSkills) < MaxSkills
    /\ govSkills' = Append(govSkills, [project |-> j, active |-> FALSE])
    /\ UNCHANGED <<topic, teams, owned, flowVars, autonomyVars, routines, runsOf>>

ActivateSkill ==
    \E s \in DOMAIN govSkills :
        /\ ~govSkills[s].active /\ govSkills' = [govSkills EXCEPT ![s].active = TRUE]
        /\ UNCHANGED <<topic, teams, owned, flowVars, autonomyVars, routines, runsOf>>

(* routine_requires_active_project_skill                                    *)
SkillFits(s, j) == govSkills[s].project = j /\ govSkills[s].active

CreateRoutine(j) ==
    \E s \in DOMAIN govSkills :
        /\ SkillFits(s, j) /\ Len(routines) < MaxSkills
        /\ routines' = Append(routines, [project |-> j, skill |-> s])
        /\ UNCHANGED <<topic, teams, owned, flowVars, autonomyVars, govSkills, runsOf>>

(* run_routine                                                              *)
RunRoutine(p) ==
    \E r \in DOMAIN routines :
        /\ IsMember(routines[r].project, p) /\ govSkills[routines[r].skill].active
        /\ runsOf' = runsOf \cup {[routine |-> r, skill |-> routines[r].skill, by |-> p]}
        /\ UNCHANGED <<topic, teams, owned, flowVars, autonomyVars, govSkills, routines>>

GovNext ==
    \/ CompleteOAuth \/ PollDevice \/ FlowExpires \/ RecordEvidence \/ ActivateSkill
    \/ BeginFlow("oauth") \/ BeginFlow("device")
    \/ \E p \in People : AddMember(p) \/ Grant(p) \/ ApproveDevice(p) \/ RunRoutine(p)
    \/ \E j \in Projects : CreateConnection(j) \/ CreateSkill(j) \/ CreateRoutine(j)
    \/ \E j \in Projects, p \in People : CreateTeam(j, p) \/ Evaluate(j, p) \/ PromoteAutonomy(j, p)

GovSpec == GovInit /\ [][GovNext]_govVars

-----------------------------------------------------------------------------
(* A connection is connected through a flow of its own: an OAuth flow that  *)
(* was completed, or a device flow that somebody approved who owned the     *)
(* project then.  Roles change, flows expire and are polled in any order.   *)
ConnectedByOwner ==
    \A k \in DOMAIN connections : connections[k].status = "connected" =>
        \E f \in DOMAIN flows :
            /\ flows[f].connection = k
            /\ \/ flows[f].kind = "oauth" /\ flows[f].status = "completed"
               \/ \E p \in flows[f].by : <<connections[k].project, p>> \in owned

(* A flow that has expired connects nothing from then on.                   *)
ExpiredNeverConnects ==
    [][\A k \in DOMAIN connections : connections'[k].status # connections[k].status =>
         \E f \in DOMAIN flows : flows[f].connection = k /\ ~flows[f].late
             /\ flows'[f].status # flows[f].status]_govVars

(* Grants come from people who owned the connection's project, not another. *)
GrantsByOwners ==
    \A g \in grants : <<connections[g.connection].project, g.by>> \in owned

(* A policy rests on as many successes of that person in that project, and  *)
(* no sequence of evaluations, evidence and promotions executes anything.   *)
EvidenceBased ==
    /\ \A x \in DOMAIN policy : policy[x].mode # "shadow" =>
          policy[x].evidence \in 1..Successes(x[1], x[2])
    /\ \A d \in DOMAIN decisions : ~decisions[d].executed

(* A routine only ever runs a skill of its own project, for someone who     *)
(* joined a team of that project.                                           *)
RoutinesStayInProject ==
    \A r \in runsOf :
        /\ govSkills[r.skill].project = routines[r.routine].project
        /\ \E k \in DOMAIN teams : /\ teams[k].project = routines[r.routine].project
                                   /\ r.by \in DOMAIN teams[k].role

(* No sequence of calls connects, grants, promotes or runs what an owner,   *)
(* the evidence or the project does not back, and no expired flow connects. *)
GovernanceKept ==
    /\ [](ConnectedByOwner /\ GrantsByOwners /\ EvidenceBased /\ RoutinesStayInProject)
    /\ ExpiredNeverConnects
=============================================================================
