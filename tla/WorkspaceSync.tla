---------------------------- MODULE WorkspaceSync ----------------------------
(* The ordered change log of one workspace (repositories/sync.py behind     *)
(* platform/api/sync.py) and the web client that follows it                 *)
(* (apps/web/src/sync/SyncProvider.tsx).  Several tabs of one browser share *)
(* a device; another device calls the API with requests of its own, and     *)
(* profiles also change outside the log (platform_identity.py).  A change   *)
(* digest is modelled by what it commits to: the chain of change bodies.    *)
EXTENDS Integers, Sequences, FiniteSets

CONSTANTS
    Tabs,           \* browser tabs of the web device
    ApiKeys,        \* idempotency keys of the API device
    SyncPageLimit,      \* changes in a page (100 in the client)
    MaxLog,         \* bound: changes in the log
    MaxVersion,     \* bound: versions of a profile
    MaxOps,         \* bound: operations a tab starts
    MaxTroubles     \* bound: changes outside the log and lost responses, together

ASSUME SyncBounds ==
    /\ SyncPageLimit \in Nat \ {0} /\ MaxLog \in Nat /\ MaxVersion \in Nat \ {0}
    /\ MaxOps \in Nat /\ MaxTroubles \in Nat

Entities == {"workspace", "account"}
Devices == {"web", "api"}
Roles == {"owner", "viewer"}
Created == <<"created", 0>>     \* the edits no key stands for
Outside == <<"outside", 0>>

VARIABLES
    profile,     \* [Entities -> versions of the profile, each the edit that made it]
    changes,     \* workspace_changes: [seq, prev, digest, body]
    head,        \* workspace_sync_heads: [seq, digest, version], version 0 = no row
    ack,         \* latest device_sync_acknowledgements
    idem,        \* platform_idempotency: [device, entity, key, print, seq]
    device,      \* latest device_registrations: [version, active]
    membership,  \* latest workspace_memberships: [version, role, active]
    tab,         \* SyncProvider of each tab
    net,         \* requests of the tabs on their way
    troubles     \* changes outside the log and lost responses so far

syncVars == <<profile, changes, head, ack, idem, device, membership, tab, net, troubles>>
serverVars == <<profile, changes, head, ack, idem, device, membership>>

EmptyLedger == [cursor |-> 0, version |-> 0, high |-> 0, digest |-> <<>>]

NewTab == [op |-> 0, status |-> "idle", ledger |-> EmptyLedger,
           work |-> EmptyLedger,      \* the local variable reduced
           selected |-> 0,            \* version of selectedWorkspace
           current |-> 0]             \* conflict.currentVersion

SyncInit ==
    /\ profile = [e \in Entities |-> <<Created>>]
    /\ changes = {} /\ head = [seq |-> 0, digest |-> <<>>, version |-> 0]
    /\ ack = [d \in Devices |-> 0] /\ idem = {}
    /\ device = [d \in Devices |-> [version |-> 1, active |-> TRUE]]
    /\ membership = [version |-> 1, role |-> "owner", active |-> TRUE]
    /\ tab = [t \in Tabs |-> NewTab] /\ net = {}
    /\ troubles = 0

-----------------------------------------------------------------------------
(* The server                                                               *)

(* _authorize: the latest device row is active and the one the session is   *)
(* bound to, the latest membership row is active.                           *)
Authorized(d, dv) ==
    /\ device[d].active /\ device[d].version = dv
    /\ membership.active

Version(p, e) == Len(p[e])
Change(s) == CHOOSE c \in changes : c.seq = s

HasHistory == changes # {} \/ idem # {} \/ \E d \in Devices : ack[d] > 0

(* _head and _validate_head_tail: the head row agrees with the change it    *)
(* points at, and that change with its predecessor.                         *)
HeadValid ==
    IF head.seq = 0 THEN head.digest = <<>> /\ ~HasHistory
    ELSE /\ \E c \in changes : c.seq = head.seq
         /\ Change(head.seq).digest = head.digest
         /\ Change(head.seq).prev =
               IF head.seq = 1 THEN <<>> ELSE Change(head.seq - 1).digest

(* _acknowledge: not ahead of the head, not behind the latest one.          *)
AckOK(d, a) == a <= head.seq /\ a >= ack[d]

(* What platform_idempotency compares a retry with: the mutation and the    *)
(* versions of the device and the membership.                               *)
Fingerprint(m, d) == <<m, membership.version, device[d].version>>

Repeats(s, m, d) == {i \in s.idem : i.device = d /\ i.entity = m.entity /\ i.key = m.key}

\* Mistake: a repeated key is applied again.
ApplyWithoutReplay(s, m, d) ==
    LET v == Version(s.profile, m.entity) + 1
        body == [entity |-> m.entity, version |-> v, edit |-> m.key, device |-> d]
        digest == Append(s.digest, body)
    IN  IF m.expected # v - 1 \/ (m.entity = "workspace" /\ membership.role # "owner")
        THEN [s EXCEPT !.ok = FALSE]
        ELSE [s EXCEPT !.profile[m.entity] = Append(@, m.key),
                       !.changes = @ \cup {[seq |-> s.seq + 1, prev |-> s.digest,
                                            digest |-> digest, body |-> body]},
                       !.idem = @ \cup {[device |-> d, entity |-> m.entity,
                                         key |-> m.key, print |-> Fingerprint(m, d),
                                         seq |-> s.seq + 1]},
                       !.seq = @ + 1, !.digest = digest]

(* _apply_entity: the submitted version is the current one and the role may *)
(* change the workspace.                                                    *)
EntityAccepts(s, m) ==
    /\ m.expected = Version(s.profile, m.entity)
    /\ m.entity = "workspace" => membership.role = "owner"

(* _append_change: the next sequence, chained to the digest before it.      *)
NextChange(s, m, d) ==
    LET body == [entity |-> m.entity, version |-> m.expected + 1,
                 edit |-> m.key, device |-> d]
    IN  [seq |-> s.seq + 1, prev |-> s.digest,
         digest |-> Append(s.digest, body), body |-> body]

(* _record_idempotency                                                      *)
Recorded(s, m, d) ==
    s.idem \cup {[device |-> d, entity |-> m.entity, key |-> m.key,
                  print |-> Fingerprint(m, d), seq |-> s.seq + 1]}

(* One mutation of a batch on the transaction's state: a repeat is answered *)
(* from its row, or refused when the row was written for another request.   *)
ApplyOne(s, m, d) ==
    IF ~s.ok THEN s
    ELSE IF Repeats(s, m, d) # {}
    THEN [s EXCEPT !.ok = \A i \in Repeats(s, m, d) : i.print = Fingerprint(m, d)]
    ELSE IF ~EntityAccepts(s, m) THEN [s EXCEPT !.ok = FALSE]
    ELSE [s EXCEPT !.profile[m.entity] = Append(@, m.key),
                   !.changes = @ \cup {NextChange(s, m, d)},
                   !.idem = Recorded(s, m, d),
                   !.seq = @ + 1,
                   !.digest = NextChange(s, m, d).digest]

Transaction ==
    [ok |-> TRUE, profile |-> profile, changes |-> changes, idem |-> idem,
     seq |-> head.seq, digest |-> head.digest]

(* The batch of at most two mutations of a request.                         *)
AfterBatch(ms, d) ==
    IF ms = <<>> THEN Transaction
    ELSE LET first == ApplyOne(Transaction, ms[1], d)
         IN  IF Len(ms) = 1 \/ ~first.ok THEN first ELSE ApplyOne(first, ms[2], d)

Accepts(d, dv, a, ms) ==
    /\ Authorized(d, dv) /\ HeadValid /\ AckOK(d, a)
    /\ AfterBatch(ms, d).ok

(* apply: the acknowledgement, every mutation and the head are one          *)
(* transaction; the head moves only when the log grew.                      *)
Commit(d, a, ms) ==
    LET s == AfterBatch(ms, d) IN
    /\ profile' = s.profile /\ changes' = s.changes /\ idem' = s.idem
    /\ head' = IF s.seq = head.seq THEN head
               ELSE [seq |-> s.seq, digest |-> s.digest,
                     version |-> IF head.version = 0 THEN 2 ELSE head.version + 1]
    /\ ack' = [ack EXCEPT ![d] = a]
    /\ UNCHANGED <<device, membership>>

(* page: the changes after the cursor, at most SyncPageLimit of them, up to the *)
(* head the page was read at.                                               *)
Page(cursor) ==
    LET last == IF head.seq - cursor > SyncPageLimit THEN cursor + SyncPageLimit ELSE head.seq
    IN  [from |-> cursor, next |-> last, high |-> head.seq,
         items |-> [i \in 1..(last - cursor) |-> Change(cursor + i)],
         more |-> last < head.seq]

(* Requests of the API device, in any order and as often as it likes.  One  *)
(* that moves the acknowledgement and mutates commits what two commit, one  *)
(* after the other: the acknowledgement is bounded by the head before them. *)
Mutations == [entity : Entities, key : ApiKeys \X {0}, expected : 1..MaxVersion]
Batches == {<<>>} \cup {<<m>> : m \in Mutations} \cup (Mutations \X Mutations)

ApiRequest ==
    /\ Authorized("api", device["api"].version) /\ HeadValid
    /\ \E ms \in Batches :
        LET s == AfterBatch(ms, "api") IN
        /\ s.ok /\ s.seq <= MaxLog
        /\ \A e \in Entities : Len(s.profile[e]) <= MaxVersion
        /\ LET a == IF ms = <<>> THEN head.seq ELSE ack["api"]
           IN  AckOK("api", a) /\ Commit("api", a, ms)
        /\ UNCHANGED <<tab, net, troubles>>

(* update_onboarding and update_workspace: a profile changes without a log  *)
(* entry (the role is checked for the workspace).                           *)
ProfileOutsideLog ==
    \E e \in Entities :
        /\ troubles < MaxTroubles /\ Len(profile[e]) < MaxVersion
        /\ e = "workspace" => membership.active /\ membership.role = "owner"
        /\ profile' = [profile EXCEPT ![e] = Append(@, Outside)]
        /\ troubles' = troubles + 1
        /\ UNCHANGED <<changes, head, ack, idem, device, membership, tab, net>>

(* revoke_device                                                            *)
DeviceRevoked ==
    \E d \in Devices :
        /\ troubles < MaxTroubles /\ device[d].active
        /\ device' = [device EXCEPT ![d] = [version |-> @.version + 1, active |-> FALSE]]
        /\ troubles' = troubles + 1
        /\ UNCHANGED <<profile, changes, head, ack, idem, membership, tab, net>>

(* A new version of the membership: another role, or an end of it.          *)
RoleChanges ==
    \E r \in Roles, on \in BOOLEAN :
        /\ troubles < MaxTroubles
        /\ (r = membership.role) # (on = membership.active)
        /\ membership' = [version |-> membership.version + 1, role |-> r, active |-> on]
        /\ troubles' = troubles + 1
        /\ UNCHANGED <<profile, changes, head, ack, idem, device, tab, net>>

-----------------------------------------------------------------------------
(* The web client                                                           *)

Send(t, kind, led, k, exp, fresh) ==
    [tab |-> t, op |-> tab[t].op, kind |-> kind, ledger |-> led,
     key |-> k, expected |-> exp, fresh |-> fresh]

(* operation === operationRef.current                                       *)
Current(r) == r.op = tab[r.tab].op

Started(t) == [tab[t] EXCEPT !.op = @ + 1]
NextOp(r) == [r EXCEPT !.op = @ + 1]

(* loadWorkspace from a ledger: getWorkspace comes first.                   *)
Loading(t, w, led) == [w EXCEPT !.status = "loading", !.work = led]

(* discoverWorkspaces, selectWorkspace and reloadConflict start from an     *)
(* empty ledger, refresh from the one on display.                           *)
LoadStarts(t, led) ==
    /\ tab[t].op < MaxOps
    /\ tab' = [tab EXCEPT ![t] = Loading(t, Started(t), led)]
    /\ net' = net \cup {NextOp(Send(t, "get", led, Created, 0, FALSE))}
    /\ UNCHANGED <<serverVars, troubles>>

OpenWorkspace(t) == LoadStarts(t, EmptyLedger)

RefreshLedger(t) == tab[t].selected > 0 /\ LoadStarts(t, tab[t].ledger)

Known(t) == IF tab[t].ledger.version > 0 THEN tab[t].ledger.version ELSE tab[t].selected

(* updateWorkspaceProfile: only while canMutate, which is the ready status. *)
EditProfile(t) ==
    /\ tab[t].status = "ready" /\ tab[t].op < MaxOps
    /\ tab' = [tab EXCEPT ![t] = Started(t)]
    /\ net' = net \cup {NextOp(Send(t, "edit", tab[t].ledger, <<t, tab[t].op>>,
                                    Known(t), FALSE))}
    /\ UNCHANGED <<serverVars, troubles>>

(* retryConflict: the user keeps the edit on top of the version shown.      *)
RetryConflict(t) ==
    /\ tab[t].status = "conflict" /\ tab[t].op < MaxOps
    /\ tab' = [tab EXCEPT ![t] = Started(t)]
    /\ net' = net \cup {NextOp(Send(t, "edit", tab[t].ledger, <<t, tab[t].op>>,
                                    tab[t].current, TRUE))}
    /\ UNCHANGED <<serverVars, troubles>>

(* The request's tab after an answer; an answer to an older operation is    *)
(* dropped.                                                                 *)
Answer(r, w, more) ==
    IF Current(r)
    THEN tab' = [tab EXCEPT ![r.tab] = w] /\ net' = (net \ {r}) \cup more
    ELSE net' = net \ {r} /\ UNCHANGED tab

Status(r, s) == [tab[r.tab] EXCEPT !.status = s]

(* An error ends a load or an edit in a status; a retry of a conflict       *)
(* throws it to the dialog and the conflict stays.                          *)
Failed(r, s) == IF r.kind = "edit" /\ r.fresh THEN tab[r.tab] ELSE Status(r, s)

(* getWorkspace confirms the membership and brings the version.             *)
ServeGet(r) ==
    /\ r.kind = "get" /\ Authorized("web", 1)
    /\ Answer(r, [tab[r.tab] EXCEPT !.selected = Version(profile, "workspace")],
              {[r EXCEPT !.kind = "page"]})
    /\ UNCHANGED <<serverVars, troubles>>

LastOf(e, items, default) ==
    LET mine == {i \in DOMAIN items : items[i].body.entity = e} IN
    IF mine = {} THEN default
    ELSE items[CHOOSE i \in mine : \A j \in mine : j <= i].body.version

(* reduceSyncPage: consecutive sequences chained from the ledger's digest.  *)
Reducible(led, p) ==
    /\ p.from = led.cursor /\ p.high >= led.high
    /\ \A i \in DOMAIN p.items :
          /\ p.items[i].seq = led.cursor + i
          /\ p.items[i].prev = IF i = 1 THEN led.digest ELSE p.items[i - 1].digest

Reduced(led, p) ==
    [cursor |-> p.next, high |-> p.high,
     digest |-> IF p.items = <<>> THEN led.digest ELSE p.items[Len(p.items)].digest,
     version |-> LastOf("workspace", p.items, led.version)]

LoadedTab(r, led) == [Status(r, "ready") EXCEPT !.ledger = led, !.work = EmptyLedger,
                                                 !.current = 0]

(* One page: what it brought is acknowledged before the next is fetched.    *)
ServePage(r) ==
    LET p == Page(r.ledger.cursor)
        led == Reduced(r.ledger, p)
    IN  /\ r.kind = "page" /\ Authorized("web", 1)
        /\ r.ledger.cursor <= head.seq /\ HeadValid
        /\ IF ~Reducible(r.ledger, p) THEN Answer(r, Status(r, "error"), {})
           ELSE IF led.cursor > r.ledger.cursor
           THEN Answer(r, [tab[r.tab] EXCEPT !.work = led],
                       {[r EXCEPT !.kind = "ack", !.ledger = led, !.fresh = p.more]})
           ELSE Answer(r, LoadedTab(r, led), {})
        /\ UNCHANGED <<serverVars, troubles>>

\* Mistake: the rest of a long log is never asked for.
AckEndsThere(r) ==
    /\ r.kind = "ack" /\ Accepts("web", 1, r.ledger.cursor, <<>>)
    /\ Commit("web", r.ledger.cursor, <<>>)
    /\ Answer(r, IF r.fresh THEN tab[r.tab] ELSE LoadedTab(r, r.ledger), {})
    /\ UNCHANGED troubles

(* The acknowledgement of a page.                                           *)
ServeAck(r) ==
    /\ r.kind = "ack" /\ Accepts("web", 1, r.ledger.cursor, <<>>)
    /\ Commit("web", r.ledger.cursor, <<>>)
    /\ Answer(r, IF r.fresh THEN tab[r.tab] ELSE LoadedTab(r, r.ledger),
              IF r.fresh THEN {[r EXCEPT !.kind = "page", !.fresh = FALSE]} ELSE {})
    /\ UNCHANGED troubles

(* sync_acknowledgement_rewind: another tab, or an earlier load, has        *)
(* acknowledged more; a page or an edit of this one ends in an error.       *)
ServeRewind(r) ==
    /\ r.kind \in {"ack", "edit"} /\ Authorized("web", 1)
    /\ r.ledger.cursor < ack["web"]
    /\ Answer(r, Failed(r, "error"), {})
    /\ UNCHANGED <<serverVars, troubles>>

Edit(r) == [entity |-> "workspace", key |-> r.key, expected |-> r.expected]

(* The edit is applied: the workspace is loaded again, after a retry from   *)
(* an empty ledger.                                                         *)
ServeEdit(r) ==
    LET led == IF r.fresh THEN EmptyLedger ELSE tab[r.tab].ledger IN
    /\ r.kind = "edit" /\ Accepts("web", 1, r.ledger.cursor, <<Edit(r)>>)
    /\ head.seq < MaxLog /\ Version(profile, "workspace") < MaxVersion
    /\ Commit("web", r.ledger.cursor, <<Edit(r)>>)
    /\ Answer(r, Loading(r.tab, tab[r.tab], led),
              {[r EXCEPT !.kind = "get", !.ledger = led, !.fresh = FALSE]})
    /\ UNCHANGED troubles

(* sync_version_conflict: the current version is shown to the user.         *)
ServeConflict(r) ==
    /\ r.kind = "edit" /\ Authorized("web", 1) /\ AckOK("web", r.ledger.cursor)
    /\ r.expected # Version(profile, "workspace")
    /\ Answer(r, IF r.fresh THEN tab[r.tab]
                 ELSE [Status(r, "conflict") EXCEPT
                         !.current = Version(profile, "workspace")], {})
    /\ UNCHANGED <<serverVars, troubles>>

(* 404 and 403: the device or the membership is gone, or the role is not    *)
(* enough.  authenticate_web_session refuses a revoked device with a 401.   *)
ServeRefused(r) ==
    /\ \/ ~Authorized("web", 1)
       \/ /\ r.kind = "edit" /\ membership.role # "owner"
          /\ r.expected = Version(profile, "workspace")
          /\ AckOK("web", r.ledger.cursor)
    /\ Answer(r, IF ~device["web"].active
                 THEN [Status(r, "idle") EXCEPT !.selected = 0, !.ledger = EmptyLedger]
                 ELSE IF membership.active THEN Status(r, "forbidden") ELSE Failed(r, "error"), {})
    /\ UNCHANGED <<serverVars, troubles>>

(* The answer is lost, before or after the request took effect.             *)
ResponseLost(r) ==
    /\ troubles < MaxTroubles /\ troubles' = troubles + 1
    /\ Answer(r, Failed(r, "offline"), {})
    /\ \/ UNCHANGED serverVars
       \/ /\ r.kind = "edit" /\ Accepts("web", 1, r.ledger.cursor, <<Edit(r)>>)
          /\ head.seq < MaxLog /\ Version(profile, "workspace") < MaxVersion
          /\ Commit("web", r.ledger.cursor, <<Edit(r)>>)
       \/ /\ r.kind = "ack" /\ Accepts("web", 1, r.ledger.cursor, <<>>)
          /\ Commit("web", r.ledger.cursor, <<>>)

Served(r) ==
    \/ ServeGet(r) \/ ServePage(r) \/ ServeAck(r) \/ ServeRewind(r)
    \/ ServeEdit(r) \/ ServeConflict(r) \/ ServeRefused(r)

SyncNext ==
    \/ ApiRequest \/ ProfileOutsideLog \/ DeviceRevoked \/ RoleChanges
    \/ \E t \in Tabs : OpenWorkspace(t) \/ RefreshLedger(t) \/ EditProfile(t) \/ RetryConflict(t)
    \/ \E r \in net : Served(r) \/ ResponseLost(r)

SyncSpec == SyncInit /\ [][SyncNext]_syncVars

(* Every request is answered in the end.                                    *)
FairSyncSpec == SyncSpec /\ WF_syncVars(\E r \in net : Served(r))

-----------------------------------------------------------------------------
(* Properties                                                               *)

EditKeys == (ApiKeys \cup Tabs) \X (0..MaxOps)
Ledgers == [cursor : 0..MaxLog, version : 0..MaxVersion, high : 0..MaxLog,
            digest : {<<>>} \cup {c.digest : c \in changes}]

(* Every variable keeps its type; in particular a ledger's digest is always *)
(* one the server has issued.                                               *)
SyncTypeOK ==
    /\ \A e \in Entities : /\ Len(profile[e]) \in 1..MaxVersion
                            /\ \A v \in DOMAIN profile[e] :
                                  profile[e][v] \in EditKeys \cup {Created, Outside}
    /\ \A c \in changes : c.seq \in 1..MaxLog
    /\ head.seq \in 0..MaxLog /\ ack \in [Devices -> 0..MaxLog]
    /\ device \in [Devices -> [version : 1..2, active : BOOLEAN]]
    /\ membership \in [version : 1..(MaxTroubles + 1), role : Roles, active : BOOLEAN]
    /\ \A t \in Tabs : /\ tab[t].op \in 0..MaxOps
                        /\ {tab[t].ledger, tab[t].work} \subseteq Ledgers
                        /\ tab[t].status \in {"idle", "loading", "ready", "conflict",
                                              "forbidden", "offline", "error"}

(* The log is one chain without gaps that ends at the head, whatever mix of *)
(* replays, refusals and batches wrote it: _head and _validate_head_tail    *)
(* never refuse what apply itself committed (503 would close the workspace  *)
(* for every device, for good).                                             *)
ChainIntact ==
    /\ {c.seq : c \in changes} = 1..head.seq /\ Cardinality(changes) = head.seq
    /\ \A c \in changes : c.prev = IF c.seq = 1 THEN <<>> ELSE Change(c.seq - 1).digest
    /\ HeadValid

(* A key of a device changes an entity at most once, and every change can   *)
(* be replayed from exactly one idempotency row (_replay).                  *)
AppliedOnce ==
    /\ \A i, j \in idem : <<i.device, i.entity, i.key>> = <<j.device, j.entity, j.key>> => i = j
    /\ \A c \in changes : \E i \in idem :
          /\ i.seq = c.seq /\ i.device = c.body.device
          /\ i.entity = c.body.entity /\ i.key = c.body.edit

(* Each change carries the profile version it made, also when profiles      *)
(* change outside the log, and the versions of an entity rise along it.     *)
LogMatchesProfiles ==
    \A c \in changes :
        /\ c.body.version <= Len(profile[c.body.entity])
        /\ profile[c.body.entity][c.body.version] = c.body.edit
        /\ \A d \in changes : (c.body.entity = d.body.entity /\ c.seq < d.seq)
                                => c.body.version < d.body.version

(* What a device has acknowledged never goes back, two tabs of one device   *)
(* or a load from an empty ledger included, and is never ahead of the log.  *)
AckMonotone ==
    [][\A d \in Devices : ack'[d] >= ack[d] /\ ack'[d] <= head'.seq]_syncVars

(* The ledger on display is the replay of a prefix of the log: the digest   *)
(* and the workspace version are those at its cursor, although pages of     *)
(* several operations of the tab arrive late and in any order.              *)
LedgerIsPrefix ==
    \A t \in Tabs :
        LET led == tab[t].ledger
            edits == {c \in changes : c.seq <= led.cursor /\ c.body.entity = "workspace"}
        IN  /\ led.cursor <= head.seq /\ led.high <= head.seq
            /\ led.digest = IF led.cursor = 0 THEN <<>> ELSE Change(led.cursor).digest
            /\ \A c \in edits : c.body.version <= led.version
            /\ edits # {} => \E c \in edits : c.body.version = led.version

(* A tab that has caught up has also acknowledged: a ready tab's cursor is  *)
(* never ahead of what the server has recorded for its device.              *)
ReadyIsAcknowledged ==
    \A t \in Tabs : tab[t].status = "ready" => tab[t].ledger.cursor <= ack["web"]

(* A load ends: with the ledger on display, a refusal or an error.          *)
LoadEnds == \A t \in Tabs : tab[t].status = "loading" ~> tab[t].status # "loading"

(* The log is one chain that holds every accepted mutation once and agrees  *)
(* with the profiles, and what a client shows is a prefix of it that it has *)
(* acknowledged.                                                            *)
SyncSound ==
    /\ SyncTypeOK /\ ChainIntact /\ AppliedOnce /\ LogMatchesProfiles
    /\ LedgerIsPrefix /\ ReadyIsAcknowledged

(* A load ends, and no load on the way takes back an acknowledgement.       *)
SyncProgress == AckMonotone /\ LoadEnds
=============================================================================
