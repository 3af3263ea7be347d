------------------------------- MODULE Ingress -------------------------------
(* Signed envelopes of the local service (mvp/ingress.py): intents queued   *)
(* while the connector is offline and reconciled after a reconnect, and     *)
(* channel events.  Every method is one write transaction of SQLite; a      *)
(* reconnect is a sequence of them over rows it read before.                *)
EXTENDS Integers, Sequences, FiniteSets

CONSTANTS
    Reconnects,       \* calls of reconnect_and_reconcile
    ExternalEvents,   \* external_event_id of one provider
    Principals,
    MaxIntents,       \* bound: queued intents
    MaxSigners,       \* bound: starts of the service, each with a new signing key
    NoPrincipal

ASSUME IngressBounds == MaxIntents \in Nat \ {0} /\ MaxSigners \in Nat \ {0}

VARIABLES
    connected,
    signer,       \* the key the running service signs with
    actorKey,     \* mvp_envelope_actor_keys: the key registered for the actor
    intents,      \* mvp_offline_intents: sequence of [key, expired, status, count]
    rounds,       \* of each call: [rows: what it read, last: the last it has passed]
    identity,     \* mvp_channel_identities for the one external identity
    events,       \* mvp_channel_events: set of [id, principal, status]
    told          \* what callers were told: set of [about, principal, answer]

ingVars == <<connected, signer, actorKey, intents, rounds, identity, events, told>>

NoRound == [rows |-> {}, last |-> 0]

IngInit ==
    /\ connected = TRUE /\ signer = 1 /\ actorKey = 0
    /\ intents = <<>> /\ rounds = [c \in Reconnects |-> NoRound]
    /\ identity = NoPrincipal /\ events = {} /\ told = {}

(* register_actor: a later key replaces the earlier one.                    *)
RegisterActor ==
    /\ actorKey # signer
    /\ actorKey' = signer
    /\ UNCHANGED <<connected, signer, intents, rounds, identity, events, told>>

Disconnect ==
    /\ connected /\ connected' = FALSE
    /\ UNCHANGED <<signer, actorKey, intents, rounds, identity, events, told>>

(* queue_intent: signed with the service's key, refused while connected.    *)
QueueIntent ==
    /\ ~connected /\ Len(intents) < MaxIntents
    /\ intents' = Append(intents, [key |-> signer, expired |-> FALSE,
                                   status |-> "queued", count |-> 0])
    /\ UNCHANGED <<connected, signer, actorKey, rounds, identity, events, told>>

IntentExpires ==
    \E i \in DOMAIN intents :
        /\ ~intents[i].expired
        /\ intents' = [intents EXCEPT ![i].expired = TRUE]
        /\ UNCHANGED <<connected, signer, actorKey, rounds, identity, events, told>>

(* reconnect_and_reconcile reads the queued rows.                           *)
ReconnectBegin(c) ==
    /\ rounds[c] = NoRound
    /\ connected' = TRUE
    /\ rounds' = [rounds EXCEPT ![c].rows = {i \in DOMAIN intents : intents[i].status = "queued"}]
    /\ UNCHANGED <<signer, actorKey, intents, identity, events, told>>

(* _verify: not expired, and signed with the key registered now.            *)
Verifies(i) == ~intents[i].expired /\ intents[i].key = actorKey

\* Mistake: an intent that was applied is verified again.
VerifiedAgain(i) == FALSE

(* reconcile returns the row of an applied intent as it is.                 *)
AlreadyApplied(i) == intents[i].status = "applied"

(* The transaction of reconcile: what it leaves of the rows, and its answer.*)
Reconciled(i) ==
    IF AlreadyApplied(i) THEN [intents |-> intents, answer |-> "applied"]
    ELSE IF ~Verifies(i) THEN [intents |-> intents, answer |-> "refused"]
    ELSE [intents |-> [intents EXCEPT ![i].status = "applied", ![i].count = IF @ = 0 THEN 1 ELSE @],
          answer |-> "applied"]

Answer(about, principal, answer) ==
    told' = told \cup {[about |-> about, principal |-> principal, answer |-> answer]}

(* What a call has still to reconcile of the rows it read.                  *)
Ahead(r) == {i \in r.rows : i > r.last}

(* The generator of reconnect_and_reconcile, oldest first: the first intent *)
(* that is refused ends the call, and those behind it stay queued.          *)
ReconcileNext(c) ==
    \E i \in Ahead(rounds[c]) :
        /\ \A j \in Ahead(rounds[c]) : i <= j
        /\ intents' = Reconciled(i).intents
        /\ Answer(<<"intent", i>>, NoPrincipal, Reconciled(i).answer)
        /\ rounds' = [rounds EXCEPT ![c] =
               IF Reconciled(i).answer = "refused" THEN NoRound ELSE [@ EXCEPT !.last = i]]
        /\ UNCHANGED <<connected, signer, actorKey, identity, events>>

ReconnectEnds(c) ==
    /\ rounds[c] # NoRound /\ Ahead(rounds[c]) = {}
    /\ rounds' = [rounds EXCEPT ![c] = NoRound]
    /\ UNCHANGED <<connected, signer, actorKey, intents, identity, events, told>>

(* reconcile of an envelope that is delivered again.                        *)
Redelivered ==
    \E i \in DOMAIN intents :
        /\ intents' = Reconciled(i).intents
        /\ Answer(<<"intent", i>>, NoPrincipal, Reconciled(i).answer)
        /\ UNCHANGED <<connected, signer, actorKey, rounds, identity, events>>

-----------------------------------------------------------------------------
MapIdentity ==
    \E p \in Principals :
        /\ identity' = p
        /\ UNCHANGED <<connected, signer, actorKey, intents, rounds, events, told>>

StatusOf(sensitive) ==
    CASE identity = NoPrincipal -> "identity_unmapped"
      [] identity # NoPrincipal /\ sensitive -> "step_up_required"
      [] OTHER -> "accepted"

(* The row of an event that came in before.                                 *)
Recorded(e) == {x \in events : x.id = e}

(* ingest: a known event is answered from its row; a new one that verifies  *)
(* is decided by the identity map as it is now.                             *)
Ingest(e) ==
    /\ \/ /\ Recorded(e) # {}
          /\ \E x \in Recorded(e) : Answer(<<"event", e>>, x.principal, x.status)
          /\ UNCHANGED events
       \/ /\ Recorded(e) = {}
          /\ \E sensitive \in BOOLEAN :
              /\ events' = {x \in events : x.id # e} \cup
                    {[id |-> e, principal |-> identity, status |-> StatusOf(sensitive)]}
              /\ Answer(<<"event", e>>, identity, StatusOf(sensitive))
    /\ UNCHANGED <<connected, signer, actorKey, intents, rounds, identity>>

(* The service restarts with a new signing key (LocalEnvelopeSigner         *)
(* .generate); the calls that were running are gone, the rows are not.      *)
ServiceRestarts ==
    /\ signer < MaxSigners
    /\ signer' = signer + 1 /\ connected' = TRUE
    /\ rounds' = [c \in Reconnects |-> NoRound]
    /\ UNCHANGED <<actorKey, intents, identity, events, told>>

IngNext ==
    \/ RegisterActor \/ Disconnect \/ QueueIntent \/ IntentExpires \/ Redelivered
    \/ MapIdentity \/ ServiceRestarts
    \/ \E c \in Reconnects : ReconnectBegin(c) \/ ReconcileNext(c) \/ ReconnectEnds(c)
    \/ \E e \in ExternalEvents : Ingest(e)

IngSpec == IngInit /\ [][IngNext]_ingVars

-----------------------------------------------------------------------------
(* An intent is applied at most once, however often it is delivered.        *)
IntentAppliedOnce ==
    \A i \in DOMAIN intents :
        intents[i].count = IF intents[i].status = "applied" THEN 1 ELSE 0

(* Whoever was told that an intent was applied, or what became of an event, *)
(* is told the same for every later delivery: after the envelope expired,   *)
(* after a new key was registered, after the identity was mapped.           *)
AnswersAgree ==
    [][\A t \in told' \ told :
           \A u \in told : u.about = t.about =>
               \/ t.about[1] = "intent" /\ u.answer # "applied"
               \/ t = u]_ingVars

(* A reconnect applies the queue in order: every intent it has passed is    *)
(* applied, so none is overtaken by a later one of the same call.           *)
QueueInOrder ==
    \A c \in Reconnects : \A i \in rounds[c].rows :
        i <= rounds[c].last => intents[i].status = "applied"

(* Deliveries that come again, late or after a restart apply an intent      *)
(* once, in order, and are answered alike.                                  *)
IngressKept == [](IntentAppliedOnce /\ QueueInOrder) /\ AnswersAgree
=============================================================================
