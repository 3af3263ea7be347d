----------------------------- MODULE WebIdentity -----------------------------
(* Sign-in with Google, sessions, devices and versioned profiles of the     *)
(* hosted service (platform/api/identity.py over repositories/accounts.py,  *)
(* platform_identity.py and oauth/).  A request reads in one step and       *)
(* writes in another: neither engine.begin() on SQLite nor READ COMMITTED   *)
(* keeps what was read; only the tables' unique keys meet a race.  Tabs of  *)
(* one browser share its cookies, and answers arrive late or not at all.    *)
EXTENDS Integers, Sequences, FiniteSets

CONSTANTS
    Tabs,
    Subjects,       \* Google subjects
    Emails,         \* verified e-mails, as an ID token shows them
    Keys,           \* idempotency keys
    MaxStates, MaxSessions, MaxRows, MaxDevices,   \* bounds on rows
    MaxLost,        \* bound: lost answers
    None

ASSUME IdentityBounds ==
    /\ MaxStates \in Nat /\ MaxSessions \in Nat /\ MaxRows \in Nat \ {0}
    /\ MaxDevices \in Nat /\ MaxLost \in Nat

VARIABLES
    workload,     \* "session": sign-in and sessions; "profile": the signed-in API
    accounts,     \* accounts: set of [id, email]
    identities,   \* external_identities: set of [subject, email, account]
    oauth,        \* oauth_transactions: sequence of "open" or "consumed"
    devices,      \* device_registrations: sequence of [account, version, active]
    sessions,     \* session_records: sequence of [account, device, dv, via, rows]
    jar,          \* the browser's cookies
    tab,          \* the request of each tab
    profile,      \* identity_workspaces / account_onboarding_versions: sequence of edits
    created,      \* platform_idempotency with what it names: set of [key, body, id, owner]
    accepted,     \* what callers were told: set of [kind, key, place]
    lost

idVars == <<workload, accounts, identities, oauth, devices, sessions, jar,
            tab, profile, created, accepted, lost>>
signVars == <<accounts, identities, oauth, devices, sessions>>
apiVars == <<profile, created, accepted>>

NoRequest == [pc |-> "idle"]

(* An installation without accounts, or with one that was set up for        *)
(* an e-mail in advance (create_preprovisioned_account).                    *)
IdInit ==
    /\ workload \in {"session", "profile"}
    /\ accounts \in {{}} \cup {{[id |-> 1, email |-> e]} : e \in Emails}
    /\ identities = {} /\ oauth = <<>> /\ devices = <<>> /\ sessions = <<>>
    /\ jar = [session |-> None, device |-> 0, state |-> 0]
    /\ tab = [t \in Tabs |-> NoRequest]
    /\ profile = <<None>> /\ created = {} /\ accepted = {} /\ lost = 0

Fresh == 1 + Cardinality(accounts)
Idle(t) == tab[t].pc = "idle"
Goto(t, r) == tab' = [tab EXCEPT ![t] = r]

-----------------------------------------------------------------------------
(* Sign-in                                                                  *)

(* google_start                                                             *)
GoogleStart(t) ==
    /\ workload = "session" /\ Idle(t) /\ Len(oauth) < MaxStates
    /\ oauth' = Append(oauth, "open")
    /\ jar' = [jar EXCEPT !.state = Len(oauth) + 1]
    /\ UNCHANGED <<workload, accounts, identities, devices, sessions, tab, apiVars, lost>>

(* google_callback: the state is the one in the cookie; consume reads it.   *)
Callback(t) ==
    /\ Idle(t) /\ jar.state # 0 /\ oauth[jar.state] = "open"
    /\ Goto(t, [pc |-> "consume", state |-> jar.state, device |-> jar.device])
    /\ UNCHANGED <<workload, signVars, jar, apiVars, lost>>

(* UPDATE ... WHERE consumed_at IS NULL: one of two callbacks gets the row. *)
(* An expired state, or an answer with an error, is consumed and refused.   *)
Consume(t) ==
    /\ tab[t].pc = "consume"
    /\ oauth' = [oauth EXCEPT ![tab[t].state] = "consumed"]
    /\ \/ oauth[tab[t].state] = "open" /\ Goto(t, [tab[t] EXCEPT !.pc = "exchange"])
       \/ Goto(t, NoRequest)
    /\ UNCHANGED <<workload, accounts, identities, devices, sessions, jar, apiVars, lost>>

(* The code is exchanged and the ID token verified, or the login is refused.*)
Exchange(t) ==
    /\ tab[t].pc = "exchange"
    /\ \/ \E s \in Subjects, e \in Emails :
             Goto(t, [pc |-> "identify", subject |-> s, email |-> e,
                      state |-> tab[t].state, device |-> tab[t].device])
       \/ Goto(t, NoRequest)
    /\ UNCHANGED <<workload, signVars, jar, apiVars, lost>>

Linked(s) == {i \in identities : i.subject = s}
OfEmail(e) == {a.id : a \in {x \in accounts : x.email = e}}
Links(a) == {i \in identities : i.account = a}

(* The browser's device, when it is one of this account and still active.   *)
Usable(d, a) == d \in DOMAIN devices /\ devices[d].account = a /\ devices[d].active

(* _complete_google_identity up to its first insert: the identity, with the *)
(* e-mail it was linked with, or else the account of the e-mail if nothing  *)
(* is linked to it.                                                         *)
Identify(t) ==
    LET r == tab[t]
        known == Linked(r.subject)
        a == IF known # {} THEN (CHOOSE i \in known : TRUE).account
             ELSE IF OfEmail(r.email) # {} THEN CHOOSE x \in OfEmail(r.email) : TRUE ELSE 0
    IN  /\ r.pc = "identify"
        /\ IF \/ \E i \in known : i.email # r.email    \* external_identity_claim_conflict
              \/ known = {} /\ a # 0 /\ Links(a) # {}  \* identity_email_link_conflict
           THEN Goto(t, NoRequest)
           ELSE Goto(t, [pc |-> "login", subject |-> r.subject, email |-> r.email,
                         state |-> r.state, linked |-> known # {}, account |-> a,
                         device |-> IF Usable(r.device, a) THEN r.device ELSE 0])
        /\ UNCHANGED <<workload, signVars, jar, apiVars, lost>>

(* uq_accounts_normalized_email and uq_external_identity_issuer_subject.    *)
LoginUnique(r) ==
    /\ r.account = 0 => OfEmail(r.email) = {}
    /\ ~r.linked => Linked(r.subject) = {}

(* complete_web_login: account, identity, device and session in one         *)
(* transaction, or web_login_conflict.                                      *)
Login(t) ==
    LET r == tab[t]
        a == IF r.account = 0 THEN Fresh ELSE r.account
        d == IF r.device = 0 THEN Len(devices) + 1 ELSE r.device
    IN  /\ r.pc = "login"
        /\ \/ /\ ~LoginUnique(r) /\ Goto(t, NoRequest)
              /\ UNCHANGED signVars
           \/ /\ LoginUnique(r) /\ Len(sessions) < MaxSessions
              /\ r.device = 0 => Len(devices) < MaxDevices
              /\ accounts' = accounts \cup {[id |-> a, email |-> r.email]}
              /\ identities' = identities \cup
                    {[subject |-> r.subject, email |-> r.email, account |-> a]}
              /\ devices' = IF r.device # 0 THEN devices
                            ELSE Append(devices, [account |-> a, version |-> 1, active |-> TRUE])
              /\ sessions' = Append(sessions, [account |-> a, device |-> d, via |-> r.state,
                                 dv |-> IF r.device = 0 THEN 1 ELSE devices[d].version,
                                 expired |-> FALSE, rows |-> <<"active">>])
              /\ UNCHANGED oauth
              /\ Goto(t, [pc |-> "answer", cookies |->
                              [session |-> <<Len(sessions) + 1, 1>>, device |-> d, state |-> 0]])
        /\ UNCHANGED <<workload, jar, apiVars, lost>>

-----------------------------------------------------------------------------
(* Sessions: a token is <<session, version>>, its row the latest or not.    *)

\* Mistake: a token that was replaced still gets in.
AnyRowAuthenticates(tok) ==
    /\ tok # None
    /\ sessions[tok[1]].rows[tok[2]] = "active" /\ ~sessions[tok[1]].expired
    /\ devices[sessions[tok[1]].device].active

(* _authenticate_web_session                                                *)
Authenticates(tok) ==
    /\ tok # None
    /\ LET s == sessions[tok[1]] IN
       /\ tok[2] = Len(s.rows) /\ s.rows[tok[2]] = "active" /\ ~s.expired
       /\ devices[s.device].active /\ devices[s.device].version = s.dv

(* refresh_session and logout read the session behind the cookie.           *)
SessionRequest(t, kind) ==
    /\ Idle(t) /\ workload = "session" /\ Authenticates(jar.session)
    /\ Goto(t, [pc |-> kind, token |-> jar.session])
    /\ UNCHANGED <<workload, signVars, jar, apiVars, lost>>

(* pk_session_records (id, version)                                         *)
RowFree(tok) == Len(sessions[tok[1]].rows) = tok[2]

(* rotate_web_session                                                       *)
Rotate(t) ==
    LET tok == tab[t].token IN
    /\ tab[t].pc = "rotate"
    /\ \/ /\ ~RowFree(tok) /\ Goto(t, NoRequest)          \* session_replacement_conflict
          /\ UNCHANGED sessions
       \/ /\ RowFree(tok) /\ tok[2] < MaxRows
          /\ sessions' = [sessions EXCEPT ![tok[1]].rows = Append(@, "active"),
                                          ![tok[1]].expired = FALSE]
          /\ Goto(t, [pc |-> "answer", cookies |-> [session |-> <<tok[1], tok[2] + 1>>]])
    /\ UNCHANGED <<workload, accounts, identities, oauth, devices, jar, apiVars, lost>>

(* revoke_web_session; logout clears the cookie.                            *)
Logout(t) ==
    LET tok == tab[t].token IN
    /\ tab[t].pc = "logout"
    /\ \/ /\ ~RowFree(tok) /\ Goto(t, NoRequest)          \* session_revocation_conflict
          /\ UNCHANGED sessions
       \/ /\ RowFree(tok) /\ tok[2] <= MaxRows
          /\ sessions' = [sessions EXCEPT ![tok[1]].rows = Append(@, "revoked")]
          /\ Goto(t, [pc |-> "answer", cookies |-> [session |-> None]])
    /\ UNCHANGED <<workload, accounts, identities, oauth, devices, jar, apiVars, lost>>

SessionExpires ==
    \E i \in DOMAIN sessions :
        /\ ~sessions[i].expired
        /\ sessions' = [sessions EXCEPT ![i].expired = TRUE]
        /\ UNCHANGED <<workload, accounts, identities, oauth, devices, jar, tab,
                       apiVars, lost>>

(* delete_device: the latest row is read, then a row after it inserted.     *)
DeleteDevice(t) ==
    /\ Idle(t) /\ Authenticates(jar.session)
    /\ \E d \in DOMAIN devices :
        /\ devices[d].active /\ devices[d].account = sessions[jar.session[1]].account
        /\ Goto(t, [pc |-> "revoke", device |-> d, version |-> devices[d].version])
    /\ UNCHANGED <<workload, signVars, jar, apiVars, lost>>

RevokeDevice(t) ==
    /\ tab[t].pc = "revoke"
    /\ LET d == tab[t].device IN
       devices' = IF devices[d].version = tab[t].version /\ devices[d].active
                  THEN [devices EXCEPT ![d].version = @ + 1, ![d].active = FALSE]
                  ELSE devices      \* device_version_conflict, or revoked already
    /\ Goto(t, NoRequest)
    /\ UNCHANGED <<workload, accounts, identities, oauth, sessions, jar, apiVars, lost>>

(* The answer reaches the browser, which keeps its cookies, or is lost.     *)
Answered(t) ==
    /\ tab[t].pc = "answer"
    /\ jar' = [f \in DOMAIN jar |->
                 IF f \in DOMAIN tab[t].cookies THEN tab[t].cookies[f] ELSE jar[f]]
    /\ Goto(t, NoRequest)
    /\ UNCHANGED <<workload, signVars, apiVars, lost>>

AnswerLost(t) ==
    /\ tab[t].pc = "answer" /\ lost < MaxLost /\ lost' = lost + 1
    /\ Goto(t, NoRequest)
    /\ UNCHANGED <<workload, signVars, jar, apiVars>>

-----------------------------------------------------------------------------
(* The signed-in API: versioned updates and idempotent creations.           *)

(* update_onboarding, update_workspace: the version is read and compared.   *)
ReadVersion(t) ==
    /\ workload = "profile" /\ Idle(t)
    /\ Goto(t, [pc |-> "update", version |-> Len(profile)])
    /\ UNCHANGED <<workload, signVars, jar, apiVars, lost>>

(* The next version is inserted; its primary key settles a race             *)
(* (_recognized_version_race turns the loser's error into a conflict).      *)
UpdateVersion(t) ==
    LET v == tab[t].version IN
    /\ tab[t].pc = "update"
    /\ \/ /\ Len(profile) = v /\ v < MaxRows
          /\ profile' = Append(profile, t)
          /\ accepted' = accepted \cup {[kind |-> "update", key |-> t, place |-> v + 1]}
       \/ Len(profile) # v /\ UNCHANGED <<profile, accepted>>
       \/ v >= MaxRows /\ UNCHANGED <<profile, accepted>>
    /\ Goto(t, NoRequest)
    /\ UNCHANGED <<workload, signVars, jar, created, lost>>

(* create_workspace, register_device: the key's row is read first.          *)
ReadKey(t) ==
    /\ workload = "profile" /\ Idle(t)
    /\ \E k \in Keys, b \in {"b1", "b2"} :
        LET old == {c \in created : c.key = k} IN
        IF old = {} THEN Goto(t, [pc |-> "create", key |-> k, body |-> b]) /\ UNCHANGED accepted
        ELSE /\ UNCHANGED tab
             /\ accepted' = accepted \cup
                   {[kind |-> "create", key |-> <<k, b>>, place |-> c.id] :
                       c \in {x \in old : x.body = b}}       \* else payload_mismatch
    /\ UNCHANGED <<workload, signVars, jar, profile, created, lost>>

(* The key of platform_idempotency.                                         *)
KeyUnused(k) == ~\E c \in created : c.key = k

(* The entity, its owner's membership and the key's row, or none of them    *)
(* (workspace_create_conflict, device_create_conflict).                     *)
Create(t) ==
    LET r == tab[t]
        new == [key |-> r.key, body |-> r.body, id |-> Cardinality(created) + 1, owner |-> t]
    IN  /\ r.pc = "create"
        /\ IF KeyUnused(r.key)
           THEN /\ created' = created \cup {new}
                /\ accepted' = accepted \cup
                      {[kind |-> "create", key |-> <<r.key, r.body>>, place |-> new.id]}
           ELSE UNCHANGED <<created, accepted>>
        /\ Goto(t, NoRequest)
        /\ UNCHANGED <<workload, signVars, jar, profile, lost>>

-----------------------------------------------------------------------------
TabStep(t) ==
    \/ GoogleStart(t) \/ Callback(t) \/ Consume(t) \/ Exchange(t) \/ Identify(t) \/ Login(t)
    \/ SessionRequest(t, "rotate") \/ SessionRequest(t, "logout") \/ Rotate(t) \/ Logout(t)
    \/ DeleteDevice(t) \/ RevokeDevice(t) \/ Answered(t) \/ AnswerLost(t)
    \/ ReadVersion(t) \/ UpdateVersion(t) \/ ReadKey(t) \/ Create(t)

IdNext == SessionExpires \/ \E t \in Tabs : TabStep(t)

IdSpec == IdInit /\ [][IdNext]_idVars

-----------------------------------------------------------------------------
(* Properties                                                               *)

Tokens ==
    {None} \cup {tok \in (1..MaxSessions) \X (1..(MaxRows + 1)) : tok[1] <= Len(sessions)}

(* Every row points at rows that exist, a session at a device of its own    *)
(* account, and every cookie at a session.                                  *)
IdTypeOK ==
    /\ \A i \in identities : [id |-> i.account, email |-> i.email] \in accounts
    /\ \A i \in DOMAIN sessions :
          LET s == sessions[i] IN
          /\ s.account \in {a.id : a \in accounts} /\ s.device \in DOMAIN devices
          /\ devices[s.device].account = s.account /\ s.via \in DOMAIN oauth
    /\ jar.session \in Tokens /\ jar.device \in 0..Len(devices) /\ jar.state \in 0..Len(oauth)

(* However logins race, an e-mail has one account and a Google subject      *)
(* belongs to one account.                                                  *)
OneAccountEach ==
    /\ \A a, b \in accounts : a.email = b.email \/ a.id = b.id => a = b
    /\ \A i, j \in identities : i.subject = j.subject => i = j

(* A state of the authorization redirect signs in at most once, and only    *)
(* after it was consumed: two callbacks with one URL do not make two        *)
(* sessions.                                                                *)
StateSignsInOnce ==
    \A i, j \in DOMAIN sessions :
        /\ oauth[sessions[i].via] = "consumed"
        /\ sessions[i].via = sessions[j].via => i = j

(* Logging out is the end of a session: no row follows the revoked one, so  *)
(* a refresh that was already under way does not bring it back.             *)
LogoutIsFinal ==
    \A i \in DOMAIN sessions : \A v \in DOMAIN sessions[i].rows :
        sessions[i].rows[v] = "revoked" => v = Len(sessions[i].rows)

(* A browser whose answers all arrive is not locked out by its own          *)
(* refreshes: the token in its cookie is the session's newest, or the       *)
(* newest is on its way, or the session was ended.                          *)
NotLockedOut ==
    (jar.session # None /\ lost = 0) =>
        LET s == jar.session[1] IN
        \/ jar.session[2] = Len(sessions[s].rows)
        \/ sessions[s].rows[Len(sessions[s].rows)] = "revoked"
        \/ \E t \in Tabs : tab[t].pc = "answer"

(* A token that authenticates is the only one of its session, and none of a *)
(* revoked device does, logins and refreshes that overlapped the revocation *)
(* included.                                                                *)
OneLiveToken ==
    \A a, b \in Tokens \ {None} :
        (a[2] <= Len(sessions[a[1]].rows) /\ b[2] <= Len(sessions[b[1]].rows)
         /\ Authenticates(a) /\ Authenticates(b) /\ a[1] = b[1]) => a = b

(* No accepted update is lost: each has a version of its own that still     *)
(* holds it.                                                                *)
NoLostUpdate ==
    \A a \in accepted : a.kind = "update" =>
        /\ a.place \in DOMAIN profile /\ profile[a.place] = a.key
        /\ \A b \in accepted : (b.kind = "update" /\ b.place = a.place) => b = a

(* A key creates one thing, and every answer for the key names it.          *)
CreatedOnce ==
    /\ \A c, d \in created : c.key = d.key => c = d
    /\ \A a, b \in accepted :
          (a.kind = "create" /\ b.kind = "create" /\ a.key[1] = b.key[1]) => a.place = b.place

(* Requests that overlap leave one account for each person, one use of each *)
(* sign-in state, and no version or creation lost or doubled; overlapping   *)
(* refreshes, logouts and revocations leave at most one token of a session  *)
(* alive, none of an ended one, and lock nobody out.                        *)
IdentitySound ==
    /\ IdTypeOK /\ OneAccountEach /\ StateSignsInOnce /\ NoLostUpdate /\ CreatedOnce
    /\ LogoutIsFinal /\ NotLockedOut /\ OneLiveToken
=============================================================================
