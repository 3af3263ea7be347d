---------------------------- MODULE PlatformProofs ----------------------------
(* Theorems about the hosted platform: WebIdentity, for any tabs, subjects,  *)
(* e-mails and keys, and any bounds on the rows of its tables, and           *)
(* ProjectAuthority, for any processes and finitely many requests, together  *)
(* and alone.                                                                *)
EXTENDS WebIdentity, ProjectAuthority, FiniteSetTheorems, SequenceTheorems, TLAPS

(*****************************************************************************)
(* Sign-in, sessions and profiles                                            *)
(*****************************************************************************)

AccountIds == {a.id : a \in accounts}
States == {"open", "consumed"}
DeviceRecords == [account : Nat \ {0}, version : Nat, active : BOOLEAN]
SessionRecords ==
    [account : Nat, device : Nat, via : Nat, dv : Nat, expired : BOOLEAN,
     rows : Seq({"active", "revoked"})]
Cookies == [session : Nat \X Nat, device : Nat, state : {0}] \cup [session : {None} \cup (Nat \X Nat)]
TabRecords ==
    {NoRequest}
    \cup [pc : {"consume", "exchange"}, state : Nat, device : Nat]
    \cup [pc : {"identify"}, subject : Subjects, email : Emails, state : Nat, device : Nat]
    \cup [pc : {"login"}, subject : Subjects, email : Emails, state : Nat, linked : BOOLEAN,
          account : Nat, device : Nat]
    \cup [pc : {"rotate", "logout"}, token : Nat \X Nat]
    \cup [pc : {"answer"}, cookies : Cookies]
    \cup [pc : {"revoke"}, device : Nat, version : Nat]
    \cup [pc : {"update"}, version : Nat]
    \cup [pc : {"create"}, key : Keys, body : {"b1", "b2"}]
Signing == {"exchange", "identify", "login"}
Renewing == {"rotate", "logout"}

(* Accounts are numbered, and an identity is of an account with its e-mail.  *)
PeopleInv ==
    /\ IsFiniteSet(accounts) /\ accounts \subseteq [id : 1..Cardinality(accounts), email : Emails]
    /\ OneAccountEach
    /\ identities \subseteq [subject : Subjects, email : Emails, account : Nat]
    /\ \A i \in identities : [id |-> i.account, email |-> i.email] \in accounts

SessionTypes ==
    /\ oauth \in Seq(States) /\ devices \in Seq(DeviceRecords) /\ sessions \in Seq(SessionRecords)

(* A session is of an account, on a device of that account, through a state  *)
(* that was consumed for it alone.                                           *)
SessionsInv ==
    /\ SessionTypes /\ Len(sessions) <= MaxSessions
    /\ \A i \in DOMAIN sessions :
          /\ sessions[i].account \in AccountIds
          /\ sessions[i].device \in DOMAIN devices
          /\ devices[sessions[i].device].account = sessions[i].account
          /\ sessions[i].via \in DOMAIN oauth
          /\ Len(sessions[i].rows) \in 1..(MaxRows + 1)
    /\ StateSignsInOnce /\ LogoutIsFinal

IsToken(tok) == tok[1] \in DOMAIN sessions /\ tok[2] \in DOMAIN sessions[tok[1]].rows

JarInv ==
    /\ jar \in [session : {None} \cup (Nat \X Nat), device : 0..Len(devices), state : 0..Len(oauth)]
    /\ lost \in Nat
    /\ jar.session # None => IsToken(jar.session)
    /\ NotLockedOut

(* What Identify found still holds when the login is written.                *)
Decided(r) ==
    /\ r.device # 0 => r.device \in DOMAIN devices /\ devices[r.device].account = r.account
    /\ r.account # 0 => [id |-> r.account, email |-> r.email] \in accounts
    /\ r.linked => /\ r.account # 0
                   /\ [subject |-> r.subject, email |-> r.email, account |-> r.account] \in identities

(* A cookie on its way is the newest token of its session.                   *)
Answers(k) ==
    /\ "device" \in DOMAIN k => k.device \in 1..Len(devices)
    /\ k.session # None =>
          /\ IsToken(k.session) /\ k.session[2] = Len(sessions[k.session[1]].rows)
          /\ jar.session # None /\ jar.session[1] = k.session[1] => jar.session[2] < k.session[2]

(* What a request has read still holds when it writes.                       *)
Alone(r) ==
    /\ r.pc = "consume" => r.state \in DOMAIN oauth
    /\ r.pc \in Signing => /\ r.state \in DOMAIN oauth /\ oauth[r.state] = "consumed"
                           /\ \A i \in DOMAIN sessions : sessions[i].via # r.state
    /\ r.pc = "login" => Decided(r)
    /\ r.pc \in Renewing => IsToken(r.token) /\ sessions[r.token[1]].rows[r.token[2]] = "active"
    /\ r.pc = "revoke" => r.device \in DOMAIN devices
    /\ r.pc = "answer" => Answers(r.cookies)

(* Two requests do not sign in through one state, no renewal has the token   *)
(* that is on its way, and one token of a session is.                        *)
Compatible(q, r) ==
    /\ q.pc \in Signing /\ r.pc \in Signing => q.state # r.state
    /\ (q.pc = "answer" /\ q.cookies.session # None /\ r.pc \in Renewing
        /\ r.token[1] = q.cookies.session[1]) => r.token[2] < q.cookies.session[2]
    /\ (q.pc = "answer" /\ q.cookies.session # None /\ r.pc = "answer" /\ r.cookies.session # None)
       => q.cookies.session[1] # r.cookies.session[1]

TabsInv ==
    /\ tab \in [Tabs -> TabRecords]
    /\ \A t \in Tabs : Alone(tab[t])
    /\ \A t, u \in Tabs : t # u => Compatible(tab[t], tab[u])

(* What callers were told is there.                                          *)
ApiInv ==
    /\ profile \in Seq(Tabs \cup {None})
    /\ \A a \in accepted :
          /\ a = [kind |-> a.kind, key |-> a.key, place |-> a.place]
          /\ a.kind = "update" => a.place \in DOMAIN profile /\ profile[a.place] = a.key
          /\ a.kind = "create" => \E c \in created : c.key = a.key[1] /\ c.id = a.place
    /\ \A c, d \in created : c.key = d.key => c = d

IdInv == PeopleInv /\ SessionsInv /\ JarInv /\ TabsInv /\ ApiInv

-----------------------------------------------------------------------------
(* An installation satisfies it before anybody signs in.                     *)
LEMMA IdInitInv == IdInit => IdInv
<1>. SUFFICES ASSUME IdInit PROVE IdInv
  OBVIOUS
<1>1. /\ accounts \in {{}} \cup {{[id |-> 1, email |-> e]} : e \in Emails}
      /\ identities = {} /\ oauth = <<>> /\ devices = <<>> /\ sessions = <<>>
      /\ jar = [session |-> None, device |-> 0, state |-> 0]
      /\ tab = [t \in Tabs |-> NoRequest]
      /\ profile = <<None>> /\ created = {} /\ accepted = {}
  BY DEF IdInit
<1>2. PeopleInv
  <2>1. CASE accounts = {}
    BY <1>1, <2>1, FS_EmptySet DEF PeopleInv, OneAccountEach
  <2>2. ASSUME NEW e \in Emails, accounts = {[id |-> 1, email |-> e]} PROVE PeopleInv
    <3>1. IsFiniteSet(accounts) /\ Cardinality(accounts) = 1
      BY <2>2, FS_Singleton
    <3>2. accounts \subseteq [id : 1..Cardinality(accounts), email : Emails]
      BY <2>2, <3>1
    <3>. QED
      BY <1>1, <2>2, <3>1, <3>2 DEF PeopleInv, OneAccountEach
  <2>. QED
    BY <1>1, <2>1, <2>2
<1>3. SessionsInv
  <2>1. <<>> \in Seq(States) /\ <<>> \in Seq(DeviceRecords) /\ <<>> \in Seq(SessionRecords)
    BY EmptySeq
  <2>2. DOMAIN sessions = {} /\ Len(sessions) = 0
    BY <1>1
  <2>. QED
    BY <1>1, <2>1, <2>2, IdentityBounds DEF SessionsInv, SessionTypes, StateSignsInOnce, LogoutIsFinal
<1>4. JarInv
  BY <1>1 DEF JarInv, NotLockedOut, IdInit
<1>5. TabsInv
  BY <1>1 DEF TabsInv, TabRecords, Alone, Compatible, NoRequest, Signing, Renewing
<1>6. ApiInv
  BY <1>1 DEF ApiInv
<1>. QED
  BY <1>2, <1>3, <1>4, <1>5, <1>6 DEF IdInv

(* What a request knows, by its place.                                       *)
LEMMA TabFields ==
    ASSUME NEW r \in TabRecords
    PROVE  /\ r.pc \in {"consume", "exchange"} => r \in [pc : {"consume", "exchange"}, state : Nat, device : Nat]
           /\ r.pc = "identify" => r \in [pc : {"identify"}, subject : Subjects, email : Emails,
                                          state : Nat, device : Nat]
           /\ r.pc = "login" => r \in [pc : {"login"}, subject : Subjects, email : Emails,
                                       state : Nat, linked : BOOLEAN, account : Nat, device : Nat]
           /\ r.pc \in Renewing => r.token \in Nat \X Nat
           /\ r.pc = "answer" => r.cookies \in Cookies
           /\ r.pc = "revoke" => r.device \in Nat /\ r.version \in Nat
           /\ r.pc = "update" => r.version \in Nat
           /\ r.pc = "create" => r.key \in Keys /\ r.body \in {"b1", "b2"}
           /\ r.pc = "idle" => r = NoRequest
BY DEF TabRecords, NoRequest, Renewing

(* The rows of the tables are of their types. *)
LEMMA SessionLengths ==
    ASSUME SessionTypes
    PROVE  /\ Len(oauth) \in Nat /\ DOMAIN oauth = 1..Len(oauth)
           /\ Len(devices) \in Nat /\ DOMAIN devices = 1..Len(devices)
           /\ Len(sessions) \in Nat /\ DOMAIN sessions = 1..Len(sessions)
           /\ \A i \in DOMAIN oauth : oauth[i] \in States
           /\ \A i \in DOMAIN devices : devices[i] \in DeviceRecords
           /\ \A i \in DOMAIN sessions :
                 /\ sessions[i] \in SessionRecords /\ sessions[i].rows \in Seq({"active", "revoked"})
                 /\ Len(sessions[i].rows) \in Nat
                 /\ DOMAIN sessions[i].rows = 1..Len(sessions[i].rows)
                 /\ \A v \in DOMAIN sessions[i].rows : sessions[i].rows[v] \in {"active", "revoked"}
<1>1. /\ Len(oauth) \in Nat /\ DOMAIN oauth = 1..Len(oauth)
      /\ Len(devices) \in Nat /\ DOMAIN devices = 1..Len(devices)
      /\ Len(sessions) \in Nat /\ DOMAIN sessions = 1..Len(sessions)
  BY LenProperties DEF SessionTypes
<1>2. /\ \A i \in DOMAIN oauth : oauth[i] \in States
      /\ \A i \in DOMAIN devices : devices[i] \in DeviceRecords
      /\ \A i \in DOMAIN sessions : sessions[i] \in SessionRecords
  BY <1>1, ElementOfSeq DEF SessionTypes
<1>3. ASSUME NEW i \in DOMAIN sessions
      PROVE  /\ sessions[i].rows \in Seq({"active", "revoked"})
             /\ Len(sessions[i].rows) \in Nat
             /\ DOMAIN sessions[i].rows = 1..Len(sessions[i].rows)
             /\ \A v \in DOMAIN sessions[i].rows : sessions[i].rows[v] \in {"active", "revoked"}
  <2>1. sessions[i].rows \in Seq({"active", "revoked"})
    BY <1>2 DEF SessionRecords
  <2>. QED
    BY <2>1, LenProperties, ElementOfSeq
<1>. QED
  BY <1>1, <1>2, <1>3

-----------------------------------------------------------------------------
Shares == Signing \cup Renewing \cup {"answer"}

(* Requests of a place that shares nothing agree with every other.           *)
LEMMA NothingShared ==
    ASSUME NEW q, NEW r, r.pc \notin Shares
    PROVE  Compatible(q, r) /\ Compatible(r, q)
BY DEF Compatible, Shares, Signing, Renewing

(* One tab moves on, to a request that agrees with those of the others.      *)
LEMMA TabMoves ==
    ASSUME TabsInv, NEW t \in Tabs, NEW r \in TabRecords, tab' = [tab EXCEPT ![t] = r],
           Alone(r)',
           \A u \in Tabs \ {t}, q \in TabRecords : q = tab[u] => Alone(q)',
           \A u \in Tabs \ {t} : Compatible(tab[u], r) /\ Compatible(r, tab[u])
    PROVE  TabsInv'
<1>1. /\ tab \in [Tabs -> TabRecords] /\ tab' \in [Tabs -> TabRecords]
      /\ tab'[t] = r /\ \A u \in Tabs \ {t} : tab'[u] = tab[u]
  BY DEF TabsInv
<1>2. \A u \in Tabs, q \in TabRecords : q = tab'[u] => Alone(q)'
  BY <1>1
<1>4. (\A u \in Tabs : Alone(tab[u]))'
  <2>. SUFFICES ASSUME NEW u \in Tabs PROVE Alone(tab[u])'
    OBVIOUS
  <2>1. PICK q \in TabRecords : q = tab'[u]
    BY <1>1
  <2>2. Alone(q)'
    BY <1>2, <2>1
  <2>. QED
    BY <2>1, <2>2 DEF Alone, Answers, Decided, IsToken
<1>3. \A u, v \in Tabs : u # v => Compatible(tab'[u], tab'[v])
  <2>. SUFFICES ASSUME NEW u \in Tabs, NEW v \in Tabs, u # v PROVE Compatible(tab'[u], tab'[v])
    OBVIOUS
  <2>1. CASE u = t
    BY <1>1, <2>1 DEF Compatible
  <2>2. CASE v = t
    BY <1>1, <2>2 DEF Compatible
  <2>3. CASE u # t /\ v # t
    BY <1>1, <2>3 DEF TabsInv, Compatible
  <2>. QED
    BY <2>1, <2>2, <2>3
<1>. QED
  BY <1>1, <1>4, <1>3 DEF TabsInv

(* Without a write what a request has read still holds.                      *)
LEMMA AloneStays ==
    ASSUME NEW r, Alone(r), UNCHANGED <<accounts, identities, oauth, devices, sessions, jar>>
    PROVE  Alone(r)'
BY DEF Alone, Answers, Decided, IsToken

(* While sessions are left alone, so is what is said of their tokens. *)
LEMMA RowsStay ==
    ASSUME PeopleInv, SessionsInv, UNCHANGED signVars
    PROVE  PeopleInv' /\ SessionsInv'
<1>1. UNCHANGED <<accounts, identities, oauth, devices, sessions>>
  BY DEF signVars
<1>2. PeopleInv'
  BY <1>1 DEF PeopleInv, OneAccountEach
<1>3. SessionsInv'
  BY <1>1 DEF SessionsInv, SessionTypes, StateSignsInOnce, LogoutIsFinal, AccountIds
<1>. QED
  BY <1>2, <1>3

(* What callers were told stays true while profiles are left alone. *)
LEMMA ApiStays == ASSUME ApiInv, UNCHANGED apiVars PROVE ApiInv'
BY DEF ApiInv, apiVars

(* The browser is not locked out by a tab that had no answer to bring.       *)
LEMMA JarStays ==
    ASSUME JarInv, TabsInv, NEW t \in Tabs, NEW r, tab' = [tab EXCEPT ![t] = r],
           UNCHANGED <<signVars, jar>>, lost' \in Nat,
           lost' # 0 \/ (lost' = lost /\ tab[t].pc # "answer")
    PROVE  JarInv'
<1>1. UNCHANGED <<oauth, devices, sessions, jar>>
  BY DEF signVars
<1>2. \A u \in Tabs \ {t} : tab'[u] = tab[u]
  BY DEF TabsInv
<1>3. NotLockedOut'
  BY <1>1, <1>2 DEF JarInv, NotLockedOut
<1>. QED
  BY <1>1, <1>3 DEF JarInv, IsToken

(* A step that only moves a tab on.                                          *)
LEMMA MoveKeepsInv ==
    ASSUME IdInv, NEW t \in Tabs, NEW r \in TabRecords, tab' = [tab EXCEPT ![t] = r],
           UNCHANGED <<signVars, jar, apiVars>>, lost' \in Nat,
           lost' # 0 \/ (lost' = lost /\ tab[t].pc # "answer"), Alone(r),
           \A u \in Tabs \ {t} : Compatible(tab[u], r) /\ Compatible(r, tab[u])
    PROVE  IdInv'
<1>1. PeopleInv' /\ SessionsInv' /\ ApiInv' /\ JarInv'
  BY RowsStay, ApiStays, JarStays DEF IdInv
<1>2. UNCHANGED <<accounts, identities, oauth, devices, sessions, jar>>
  BY DEF signVars
<1>3. Alone(r)' /\ \A u \in Tabs \ {t}, q \in TabRecords : q = tab[u] => Alone(q)'
  BY <1>2, AloneStays DEF IdInv, TabsInv
<1>4. TabsInv'
  BY <1>3, TabMoves DEF IdInv
<1>. QED
  BY <1>1, <1>4 DEF IdInv

(* A request that only reads, and one that is refused.                       *)
LEMMA ReadKeepsInv ==
    ASSUME IdInv, NEW t \in Tabs, NEW r \in TabRecords, tab' = [tab EXCEPT ![t] = r],
           UNCHANGED <<signVars, jar, apiVars, lost>>, tab[t].pc # "answer",
           r.pc \notin Shares, Alone(r)
    PROVE  IdInv'
<1>1. lost' \in Nat
  BY DEF IdInv, JarInv
<1>2. \A u \in Tabs \ {t} : Compatible(tab[u], r) /\ Compatible(r, tab[u])
  BY NothingShared
<1>. QED
  BY <1>1, <1>2, MoveKeepsInv

(* A request that is refused knows nothing and shares nothing. *)
LEMMA Refusal == NoRequest \in TabRecords /\ NoRequest.pc \notin Shares /\ Alone(NoRequest)
BY DEF TabRecords, NoRequest, Shares, Signing, Renewing, Alone

-----------------------------------------------------------------------------
(* The steps that read and decide.                                           *)
LEMMA CallbackKeeps == ASSUME IdInv, NEW t \in Tabs, Callback(t) PROVE IdInv'
<1> DEFINE r == [pc |-> "consume", state |-> jar.state, device |-> jar.device]
<1>1. /\ tab' = [tab EXCEPT ![t] = r] /\ tab[t].pc = "idle" /\ jar.state # 0
      /\ UNCHANGED <<signVars, jar, apiVars, lost>>
  BY DEF Callback, Goto, Idle
<1>2. jar.state \in DOMAIN oauth /\ jar.state \in Nat /\ jar.device \in Nat
  <2>1. jar.state \in 0..Len(oauth) /\ jar.device \in 0..Len(devices)
    BY DEF IdInv, JarInv
  <2>2. Len(oauth) \in Nat /\ DOMAIN oauth = 1..Len(oauth) /\ Len(devices) \in Nat
    BY SessionLengths DEF IdInv, SessionsInv
  <2>. QED
    BY <1>1, <2>1, <2>2
<1>3. r \in TabRecords /\ r.pc \notin Shares /\ Alone(r)
  BY <1>2 DEF TabRecords, Shares, Signing, Renewing, Alone
<1>. QED
  BY <1>1, <1>3, ReadKeepsInv

(* Google is asked about a code; the answer is of one of its accounts. *)
LEMMA ExchangeKeeps == ASSUME IdInv, NEW t \in Tabs, Exchange(t) PROVE IdInv'
<1>1. /\ tab[t].pc = "exchange" /\ UNCHANGED <<signVars, jar, apiVars, lost>>
      /\ tab[t] \in TabRecords /\ lost' \in Nat
      /\ \A u \in Tabs \ {t} : Compatible(tab[u], tab[t]) /\ Compatible(tab[t], tab[u])
      /\ Alone(tab[t])
  BY DEF Exchange, IdInv, TabsInv, JarInv
<1>2. tab[t] \in [pc : {"consume", "exchange"}, state : Nat, device : Nat]
  BY <1>1, TabFields
<1>3. ASSUME NEW s \in Subjects, NEW e \in Emails,
             Goto(t, [pc |-> "identify", subject |-> s, email |-> e,
                      state |-> tab[t].state, device |-> tab[t].device])
      PROVE  IdInv'
  <2> DEFINE r == [pc |-> "identify", subject |-> s, email |-> e,
                   state |-> tab[t].state, device |-> tab[t].device]
  <2>1. r \in TabRecords
    BY <1>2 DEF TabRecords
  <2>2. Alone(r)
    BY <1>1 DEF Alone, Signing, Renewing
  <2>3. \A u \in Tabs \ {t} : Compatible(tab[u], r) /\ Compatible(r, tab[u])
    BY <1>1 DEF Compatible, Signing, Renewing
  <2>. QED
    BY <1>1, <1>3, <2>1, <2>2, <2>3, MoveKeepsInv DEF Goto
<1>4. CASE Goto(t, NoRequest)
  BY <1>1, <1>4, Refusal, ReadKeepsInv DEF Goto
<1>. QED
  BY <1>3, <1>4 DEF Exchange

(* What Identify finds holds in the transaction that writes the login. *)
LEMMA IdentifyKeeps == ASSUME IdInv, NEW t \in Tabs, Identify(t) PROVE IdInv'
<1> DEFINE r == tab[t]
           known == Linked(r.subject)
           a == IF known # {} THEN (CHOOSE i \in known : TRUE).account
                ELSE IF OfEmail(r.email) # {} THEN CHOOSE x \in OfEmail(r.email) : TRUE ELSE 0
           l == [pc |-> "login", subject |-> r.subject, email |-> r.email,
                 state |-> r.state, linked |-> known # {}, account |-> a,
                 device |-> IF Usable(r.device, a) THEN r.device ELSE 0]
<1>1. /\ r.pc = "identify" /\ UNCHANGED <<signVars, jar, apiVars, lost>>
      /\ r \in TabRecords /\ lost' \in Nat
      /\ \A u \in Tabs \ {t} : Compatible(tab[u], r) /\ Compatible(r, tab[u])
      /\ Alone(r)
  BY DEF Identify, IdInv, TabsInv, JarInv
<1>2. r \in [pc : {"identify"}, subject : Subjects, email : Emails, state : Nat, device : Nat]
  BY <1>1, TabFields
<1>3. CASE Goto(t, NoRequest)
  BY <1>1, <1>3, Refusal, ReadKeepsInv DEF Goto
<1>4. ASSUME \A i \in known : i.email = r.email, Goto(t, l) PROVE IdInv'
  <2>1. /\ a \in Nat
        /\ a # 0 => [id |-> a, email |-> r.email] \in accounts
        /\ known # {} => a # 0 /\ [subject |-> r.subject, email |-> r.email, account |-> a] \in identities
    <3>0. /\ accounts \subseteq [id : 1..Cardinality(accounts), email : Emails]
          /\ Cardinality(accounts) \in Nat
          /\ identities \subseteq [subject : Subjects, email : Emails, account : Nat]
          /\ \A i \in identities : [id |-> i.account, email |-> i.email] \in accounts
      BY FS_CardinalityType DEF IdInv, PeopleInv
    <3>1. CASE known # {}
      <4>1. PICK i : i = (CHOOSE j \in known : TRUE)
        OBVIOUS
      <4>2. i \in known /\ a = i.account
        BY <3>1, <4>1
      <4>3. i \in identities /\ i.subject = r.subject /\ i.email = r.email
        BY <1>4, <4>2 DEF Linked
      <4>4. i = [subject |-> r.subject, email |-> r.email, account |-> a]
        BY <3>0, <4>2, <4>3
      <4>5. [id |-> a, email |-> r.email] \in accounts
        BY <3>0, <4>2, <4>3
      <4>6. a \in 1..Cardinality(accounts)
        <5>. HIDE DEF a
        <5>. QED
          BY <3>0, <4>5
      <4>. QED
        BY <3>0, <4>3, <4>4, <4>5, <4>6
    <3>2. CASE known = {} /\ OfEmail(r.email) # {}
      <4>1. a \in OfEmail(r.email)
        BY <3>2
      <4>2. PICK x \in accounts : x.email = r.email /\ x.id = a
        BY <4>1 DEF OfEmail
      <4>3. x = [id |-> a, email |-> r.email]
        BY <3>0, <4>2
      <4>4. a \in 1..Cardinality(accounts)
        <5>. HIDE DEF a
        <5>. QED
          BY <3>0, <4>2
      <4>. QED
        BY <3>0, <3>2, <4>2, <4>3, <4>4
    <3>3. CASE known = {} /\ OfEmail(r.email) = {}
      BY <3>3
    <3>. QED
      BY <3>1, <3>2, <3>3
  <2>2. l.device \in Nat /\ (l.device # 0 => l.device \in DOMAIN devices /\ devices[l.device].account = a)
    BY <1>2 DEF Usable
  <2> HIDE DEF a, known
  <2>3. l \in TabRecords
    BY <1>2, <2>1, <2>2 DEF TabRecords
  <2>4. Alone(l)
    BY <1>1, <2>1, <2>2 DEF Alone, Signing, Renewing, Decided
  <2>5. \A u \in Tabs \ {t} : Compatible(tab[u], l) /\ Compatible(l, tab[u])
    BY <1>1 DEF Compatible, Signing, Renewing
  <2> HIDE DEF l
  <2>. QED
    BY <1>1, <1>4, <2>3, <2>4, <2>5, MoveKeepsInv DEF Goto
<1>. QED
  BY <1>3, <1>4 DEF Identify

(* The token of a cookie that authenticates is active. *)
LEMMA SessionRequestKeeps ==
    ASSUME IdInv, NEW t \in Tabs, NEW kind \in {"rotate", "logout"}, SessionRequest(t, kind)
    PROVE  IdInv'
<1> DEFINE r == [pc |-> kind, token |-> jar.session]
<1>1. /\ tab' = [tab EXCEPT ![t] = r] /\ tab[t].pc = "idle" /\ Authenticates(jar.session)
      /\ UNCHANGED <<signVars, jar, apiVars, lost>> /\ lost' \in Nat
  BY DEF SessionRequest, Goto, Idle, IdInv, JarInv
<1>2. jar.session # None /\ jar.session \in Nat \X Nat /\ IsToken(jar.session)
  BY <1>1 DEF Authenticates, IdInv, JarInv
<1>3. r \in TabRecords
  BY <1>2 DEF TabRecords
<1>4. Alone(r)
  BY <1>1, <1>2 DEF Alone, Signing, Renewing, Authenticates
<1>5. ASSUME NEW u \in Tabs \ {t} PROVE Compatible(tab[u], r) /\ Compatible(r, tab[u])
  <2>1. Alone(tab[u]) /\ tab[u] \in TabRecords
    BY DEF IdInv, TabsInv
  <2>2. tab[u].pc = "answer" => Answers(tab[u].cookies)
    BY <2>1 DEF Alone
  <2>. QED
    BY <1>2, <2>2 DEF Compatible, Signing, Renewing, Answers
<1>. QED
  BY <1>1, <1>3, <1>4, <1>5, MoveKeepsInv

(* A device to be deleted is one of the account that asks. *)
LEMMA DeleteDeviceKeeps == ASSUME IdInv, NEW t \in Tabs, DeleteDevice(t) PROVE IdInv'
<1>1. PICK d \in DOMAIN devices :
         tab' = [tab EXCEPT ![t] = [pc |-> "revoke", device |-> d, version |-> devices[d].version]]
  BY DEF DeleteDevice, Goto
<1> DEFINE r == [pc |-> "revoke", device |-> d, version |-> devices[d].version]
<1>2. tab[t].pc = "idle" /\ UNCHANGED <<signVars, jar, apiVars, lost>>
  BY DEF DeleteDevice, Idle
<1>3. d \in Nat /\ devices[d].version \in Nat
  <2>1. DOMAIN devices = 1..Len(devices) /\ devices[d] \in DeviceRecords /\ Len(devices) \in Nat
    BY SessionLengths DEF IdInv, SessionsInv
  <2>. QED
    BY <2>1 DEF DeviceRecords
<1>4. r \in TabRecords /\ r.pc \notin Shares /\ Alone(r)
  BY <1>3 DEF TabRecords, Shares, Signing, Renewing, Alone
<1>. QED
  BY <1>1, <1>2, <1>4, ReadKeepsInv

(* An answer that is lost takes its cookie with it. *)
LEMMA AnswerLostKeeps == ASSUME IdInv, NEW t \in Tabs, AnswerLost(t) PROVE IdInv'
<1>1. /\ tab' = [tab EXCEPT ![t] = NoRequest] /\ lost' = lost + 1
      /\ UNCHANGED <<signVars, jar, apiVars>> /\ lost \in Nat
  BY DEF AnswerLost, Goto, IdInv, JarInv
<1>2. \A u \in Tabs \ {t} : Compatible(tab[u], NoRequest) /\ Compatible(NoRequest, tab[u])
  BY Refusal, NothingShared
<1>3. lost' \in Nat /\ lost' # 0
  BY <1>1
<1>. QED
  BY <1>1, <1>2, <1>3, Refusal, MoveKeepsInv

(* A version that was read is at most the current one. *)
LEMMA ReadVersionKeeps == ASSUME IdInv, NEW t \in Tabs, ReadVersion(t) PROVE IdInv'
<1> DEFINE r == [pc |-> "update", version |-> Len(profile)]
<1>1. /\ tab' = [tab EXCEPT ![t] = r] /\ tab[t].pc = "idle"
      /\ UNCHANGED <<signVars, jar, apiVars, lost>>
  BY DEF ReadVersion, Goto, Idle
<1>2. Len(profile) \in Nat
  BY LenProperties DEF IdInv, ApiInv
<1>3. r \in TabRecords /\ r.pc \notin Shares /\ Alone(r)
  BY <1>2 DEF TabRecords, Shares, Signing, Renewing, Alone
<1>. QED
  BY <1>1, <1>3, ReadKeepsInv

-----------------------------------------------------------------------------
(* The signed-in API.                                                        *)
LEMMA ApiStepKeeps ==
    ASSUME IdInv, NEW t \in Tabs, tab' = [tab EXCEPT ![t] = NoRequest] \/ UNCHANGED tab,
           tab[t].pc # "answer", UNCHANGED <<signVars, jar, lost>>, ApiInv'
    PROVE  IdInv'
<1>1. CASE tab' = [tab EXCEPT ![t] = NoRequest]
  <2>1. PeopleInv' /\ SessionsInv' /\ JarInv'
    <3>1. lost' \in Nat
      BY DEF IdInv, JarInv
    <3>. QED
      BY <1>1, <3>1, RowsStay, JarStays DEF IdInv
  <2>2. UNCHANGED <<accounts, identities, oauth, devices, sessions, jar>>
    BY DEF signVars
  <2>3. Alone(NoRequest)' /\ \A u \in Tabs \ {t}, q \in TabRecords : q = tab[u] => Alone(q)'
    BY <2>2, AloneStays, Refusal DEF IdInv, TabsInv
  <2>4. TabsInv'
    BY <1>1, <2>3, TabMoves, Refusal, NothingShared DEF IdInv
  <2>. QED
    BY <2>1, <2>4 DEF IdInv
<1>2. CASE UNCHANGED tab
  <2>1. PeopleInv' /\ SessionsInv'
    BY RowsStay DEF IdInv
  <2>2. UNCHANGED <<accounts, identities, oauth, devices, sessions, jar>>
    BY DEF signVars
  <2>3. JarInv'
    BY <1>2, <2>2 DEF IdInv, JarInv, NotLockedOut, IsToken
  <2>4. TabsInv'
    BY <1>2, <2>2 DEF IdInv, TabsInv, Alone, Answers, Decided, IsToken
  <2>. QED
    BY <2>1, <2>3, <2>4 DEF IdInv
<1>. QED
  BY <1>1, <1>2

(* A compare-and-set on the version applies one update of those that read it. *)
LEMMA UpdateVersionKeeps == ASSUME IdInv, NEW t \in Tabs, UpdateVersion(t) PROVE IdInv'
<1>1. /\ tab[t].pc = "update" /\ tab' = [tab EXCEPT ![t] = NoRequest]
      /\ UNCHANGED <<signVars, jar, created, lost>>
  BY DEF UpdateVersion, Goto
<1>2. /\ profile \in Seq(Tabs \cup {None})
      /\ \A a \in accepted :
          /\ a = [kind |-> a.kind, key |-> a.key, place |-> a.place]
          /\ a.kind = "update" => a.place \in DOMAIN profile /\ profile[a.place] = a.key
          /\ a.kind = "create" => \E c \in created : c.key = a.key[1] /\ c.id = a.place
      /\ \A c, d \in created : c.key = d.key => c = d
  BY DEF IdInv, ApiInv
<1>3. ApiInv'
  <2>1. CASE UNCHANGED <<profile, accepted>>
    BY <1>1, <1>2, <2>1 DEF ApiInv
  <2>2. ASSUME Len(profile) = tab[t].version, profile' = Append(profile, t),
               accepted' = accepted \cup
                   {[kind |-> "update", key |-> t, place |-> tab[t].version + 1]}
        PROVE  ApiInv'
    <3>1. /\ profile' \in Seq(Tabs \cup {None}) /\ Len(profile) \in Nat
          /\ Len(profile') = Len(profile) + 1 /\ DOMAIN profile' = 1..(Len(profile) + 1)
          /\ profile'[Len(profile) + 1] = t
          /\ \A i \in 1..Len(profile) : profile'[i] = profile[i]
          /\ DOMAIN profile = 1..Len(profile)
      BY <1>2, <2>2, AppendProperties, LenProperties
    <3>2. ASSUME NEW a \in accepted'
          PROVE  /\ a = [kind |-> a.kind, key |-> a.key, place |-> a.place]
                 /\ a.kind = "update" => a.place \in DOMAIN profile' /\ profile'[a.place] = a.key
                 /\ a.kind = "create" => \E c \in created' : c.key = a.key[1] /\ c.id = a.place
      <4>1. CASE a \in accepted
        BY <1>1, <1>2, <3>1, <4>1
      <4>2. CASE a = [kind |-> "update", key |-> t, place |-> Len(profile) + 1]
        BY <3>1, <4>2
      <4>. QED
        BY <2>2, <4>1, <4>2
    <3>. QED
      BY <1>1, <1>2, <3>1, <3>2 DEF ApiInv
  <2>. QED
    BY <2>1, <2>2 DEF UpdateVersion
<1>. QED
  BY <1>1, <1>3, ApiStepKeeps

(* A key that is not there yet has no response to return. *)
LEMMA ReadKeyKeeps == ASSUME IdInv, NEW t \in Tabs, ReadKey(t) PROVE IdInv'
<1>1. PICK k \in Keys, b \in {"b1", "b2"} :
         LET old == {c \in created : c.key = k} IN
         IF old = {} THEN Goto(t, [pc |-> "create", key |-> k, body |-> b]) /\ UNCHANGED accepted
         ELSE /\ UNCHANGED tab
              /\ accepted' = accepted \cup
                    {[kind |-> "create", key |-> <<k, b>>, place |-> c.id] :
                        c \in {x \in old : x.body = b}}
  BY DEF ReadKey
<1>2. tab[t].pc = "idle" /\ UNCHANGED <<signVars, jar, profile, created, lost>>
  BY DEF ReadKey, Idle
<1>3. CASE tab' = [tab EXCEPT ![t] = [pc |-> "create", key |-> k, body |-> b]] /\ UNCHANGED accepted
  <2> DEFINE r == [pc |-> "create", key |-> k, body |-> b]
  <2>1. r \in TabRecords /\ r.pc \notin Shares /\ Alone(r)
    BY DEF TabRecords, Shares, Signing, Renewing, Alone
  <2>2. UNCHANGED apiVars
    BY <1>2, <1>3 DEF apiVars
  <2>. QED
    BY <1>2, <1>3, <2>1, <2>2, ReadKeepsInv
<1>4. CASE /\ UNCHANGED tab
           /\ accepted' = accepted \cup
                {[kind |-> "create", key |-> <<k, b>>, place |-> c.id] :
                    c \in {x \in created : x.key = k /\ x.body = b}}
  <2>1. ApiInv'
    <3>1. ASSUME NEW a \in accepted', a \notin accepted
          PROVE  /\ a = [kind |-> a.kind, key |-> a.key, place |-> a.place]
                 /\ a.kind = "create" /\ \E c \in created : c.key = a.key[1] /\ c.id = a.place
      BY <1>4, <3>1
    <3>. QED
      BY <1>2, <3>1 DEF IdInv, ApiInv
  <2>. QED
    BY <1>2, <1>4, <2>1, ApiStepKeeps
<1>5. {x \in {c \in created : c.key = k} : x.body = b} = {x \in created : x.key = k /\ x.body = b}
  OBVIOUS
<1>. QED
  BY <1>1, <1>3, <1>4, <1>5 DEF Goto

(* A unique key keeps the first response. *)
LEMMA CreateKeeps == ASSUME IdInv, NEW t \in Tabs, Create(t) PROVE IdInv'
<1> DEFINE r == tab[t]
           new == [key |-> r.key, body |-> r.body, id |-> Cardinality(created) + 1, owner |-> t]
           ans == [kind |-> "create", key |-> <<r.key, r.body>>, place |-> new.id]
<1>1. /\ r.pc = "create" /\ tab' = [tab EXCEPT ![t] = NoRequest]
      /\ UNCHANGED <<signVars, jar, profile, lost>>
      /\ IF KeyUnused(r.key)
         THEN created' = created \cup {new} /\ accepted' = accepted \cup {ans}
         ELSE UNCHANGED <<created, accepted>>
  BY DEF Create, Goto
<1>2. ApiInv'
  <2>1. CASE ~KeyUnused(r.key)
    BY <1>1, <2>1 DEF IdInv, ApiInv
  <2>2. CASE KeyUnused(r.key)
    <3>1. \A a \in accepted' : a \in accepted \/ a = ans
      BY <1>1, <2>2
    <3>2. \A c, d \in created' : c.key = d.key => c = d
      BY <1>1, <2>2 DEF KeyUnused, IdInv, ApiInv
    <3>3. new \in created' /\ new.key = ans.key[1] /\ new.id = ans.place
      BY <1>1, <2>2
    <3>4. ans = [kind |-> ans.kind, key |-> ans.key, place |-> ans.place] /\ ans.kind = "create"
      OBVIOUS
    <3>5. created \subseteq created'
      BY <1>1, <2>2
    <3>. HIDE DEF ans, new
    <3>. QED
      BY <1>1, <3>1, <3>2, <3>3, <3>4, <3>5 DEF IdInv, ApiInv
  <2>. QED
    BY <2>1, <2>2
<1>. QED
  BY <1>1, <1>2, ApiStepKeeps

-----------------------------------------------------------------------------
(* What every write leaves as it is: rows stay, a consumed state stays       *)
(* consumed, a device stays with its account, and a session's rows grow.     *)
Grown ==
    /\ accounts \subseteq accounts' /\ identities \subseteq identities'
    /\ DOMAIN oauth \subseteq DOMAIN oauth'
    /\ \A i \in DOMAIN oauth : oauth[i] = "consumed" => oauth'[i] = "consumed"
    /\ DOMAIN devices \subseteq DOMAIN devices' /\ 1..Len(devices) \subseteq 1..Len(devices')
    /\ \A i \in DOMAIN devices : devices'[i].account = devices[i].account
    /\ DOMAIN sessions \subseteq DOMAIN sessions'
    /\ \A i \in DOMAIN sessions :
          /\ DOMAIN sessions[i].rows \subseteq DOMAIN sessions'[i].rows
          /\ \A v \in DOMAIN sessions[i].rows : sessions'[i].rows[v] = sessions[i].rows[v]

(* What a request has read is still so after such a write. *)
LEMMA AloneGrows ==
    ASSUME Grown, NEW q, Alone(q),
           q.pc \in Signing => \A i \in DOMAIN sessions' : sessions'[i].via # q.state,
           q.pc = "answer" => Answers(q.cookies)'
    PROVE  Alone(q)'
<1>1. q.pc = "consume" => q.state \in DOMAIN oauth'
  BY DEF Grown, Alone
<1>2. q.pc \in Signing => /\ q.state \in DOMAIN oauth' /\ oauth'[q.state] = "consumed"
                          /\ \A i \in DOMAIN sessions' : sessions'[i].via # q.state
  BY DEF Grown, Alone
<1>3. q.pc = "login" => Decided(q)'
  BY DEF Grown, Alone, Decided
<1>4. q.pc \in Renewing => IsToken(q.token)' /\ sessions'[q.token[1]].rows[q.token[2]] = "active"
  BY DEF Grown, Alone, IsToken
<1>5. q.pc = "revoke" => q.device \in DOMAIN devices'
  BY DEF Grown, Alone
<1>. QED
  BY <1>1, <1>2, <1>3, <1>4, <1>5 DEF Alone

(* An answer that is on its way stays the newest while nobody renews its     *)
(* session.                                                                  *)
LEMMA AnswersGrow ==
    ASSUME Grown, NEW k, Answers(k), UNCHANGED jar,
           (k.session # None /\ k.session[1] \in DOMAIN sessions) =>
               Len(sessions'[k.session[1]].rows) = Len(sessions[k.session[1]].rows)
    PROVE  Answers(k)'
BY DEF Grown, Answers, IsToken

(* A new state is no other request's. *)
LEMMA GoogleStartKeeps == ASSUME IdInv, NEW t \in Tabs, GoogleStart(t) PROVE IdInv'
<1>1. /\ oauth' = Append(oauth, "open") /\ jar' = [jar EXCEPT !.state = Len(oauth) + 1]
      /\ UNCHANGED <<accounts, identities, devices, sessions, tab, apiVars, lost>>
  BY DEF GoogleStart
<1>2. /\ oauth \in Seq(States) /\ oauth' \in Seq(States)
      /\ Len(oauth) \in Nat /\ Len(oauth') = Len(oauth) + 1
      /\ DOMAIN oauth = 1..Len(oauth) /\ DOMAIN oauth' = 1..(Len(oauth) + 1)
      /\ \A i \in DOMAIN oauth : oauth'[i] = oauth[i]
  <2>1. oauth \in Seq(States) /\ "open" \in States
    BY DEF IdInv, SessionsInv, SessionTypes, States
  <2>. HIDE DEF States
  <2>. QED
    BY <1>1, <2>1, AppendProperties, LenProperties
<1>3. /\ jar \in [session : {None} \cup (Nat \X Nat), device : 0..Len(devices), state : 0..Len(oauth)]
      /\ jar' \in [session : {None} \cup (Nat \X Nat), device : 0..Len(devices), state : 0..Len(oauth')]
      /\ jar'.session = jar.session
  BY <1>1, <1>2 DEF IdInv, JarInv
<1>4. Grown
  BY <1>1, <1>2 DEF Grown
<1>5. PeopleInv'
  BY <1>1 DEF IdInv, PeopleInv, OneAccountEach
<1>6. SessionsInv'
  BY <1>1, <1>2 DEF IdInv, SessionsInv, SessionTypes, StateSignsInOnce, LogoutIsFinal, AccountIds
<1>7. JarInv'
  BY <1>1, <1>3 DEF IdInv, JarInv, NotLockedOut, IsToken
<1>8. TabsInv'
  <2>1. ASSUME NEW q, Alone(q) PROVE Alone(q)'
    <3>1. q.pc = "answer" => Answers(q.cookies)'
      BY <1>1, <1>3, <2>1 DEF Alone, Answers, IsToken
    <3>2. q.pc \in Signing => \A i \in DOMAIN sessions' : sessions'[i].via # q.state
      BY <1>1, <2>1 DEF Alone
    <3>. QED
      BY <1>4, <2>1, <3>1, <3>2, AloneGrows
  <2>2. ASSUME NEW u \in Tabs PROVE Alone(tab[u])'
    <3>1. PICK q : q = tab[u]
      OBVIOUS
    <3>2. Alone(q)'
      BY <2>1, <3>1 DEF IdInv, TabsInv
    <3>3. q = tab'[u]
      BY <1>1, <3>1
    <3>. QED
      BY <3>2, <3>3 DEF Alone, Answers, Decided, IsToken
  <2>. QED
    BY <1>1, <2>2 DEF IdInv, TabsInv
<1>9. ApiInv'
  BY <1>1, ApiStays DEF IdInv
<1>. QED
  BY <1>5, <1>6, <1>7, <1>8, <1>9 DEF IdInv

(* A write of one tab, which moves on.                                       *)
LEMMA WriteMoves ==
    ASSUME Grown, TabsInv, NEW t \in Tabs, NEW r \in TabRecords, tab' = [tab EXCEPT ![t] = r],
           UNCHANGED jar, Alone(r)',
           \A u \in Tabs \ {t} :
               /\ Compatible(tab[u], r) /\ Compatible(r, tab[u])
               /\ tab[u].pc \in Signing => \A i \in DOMAIN sessions' : sessions'[i].via # tab[u].state
               /\ (tab[u].pc = "answer" /\ tab[u].cookies.session # None) =>
                      Len(sessions'[tab[u].cookies.session[1]].rows)
                      = Len(sessions[tab[u].cookies.session[1]].rows)
    PROVE  TabsInv'
<1>1. ASSUME NEW u \in Tabs \ {t}, NEW q \in TabRecords, q = tab[u] PROVE Alone(q)'
  <2>1. Alone(q)
    BY <1>1 DEF TabsInv
  <2>2. q.pc \in Signing => \A i \in DOMAIN sessions' : sessions'[i].via # q.state
    BY <1>1
  <2>3. q.pc = "answer" => Answers(q.cookies)'
    <3>. SUFFICES ASSUME q.pc = "answer" PROVE Answers(q.cookies)'
      OBVIOUS
    <3>1. PICK k : k = q.cookies
      OBVIOUS
    <3>2. Answers(k) /\ (k.session # None => Len(sessions'[k.session[1]].rows)
                                             = Len(sessions[k.session[1]].rows))
      BY <1>1, <2>1, <3>1 DEF Alone
    <3>3. Answers(k)'
      BY <3>2, AnswersGrow
    <3>. QED
      BY <3>1, <3>3
  <2>. QED
    BY <2>1, <2>2, <2>3, AloneGrows
<1>. QED
  BY <1>1, TabMoves

(* One request of those that carry a state consumes it. *)
LEMMA ConsumeKeeps == ASSUME IdInv, NEW t \in Tabs, Consume(t) PROVE IdInv'
<1>1. /\ tab[t].pc = "consume" /\ tab[t].state \in DOMAIN oauth
      /\ oauth' = [oauth EXCEPT ![tab[t].state] = "consumed"]
      /\ UNCHANGED <<accounts, identities, devices, sessions, jar, apiVars, lost>>
      /\ tab[t] \in TabRecords
  BY DEF Consume, IdInv, TabsInv, Alone
<1>2. /\ oauth \in Seq(States) /\ oauth' \in Seq(States)
      /\ Len(oauth') = Len(oauth) /\ DOMAIN oauth' = DOMAIN oauth
      /\ oauth'[tab[t].state] = "consumed"
      /\ \A i \in DOMAIN oauth : oauth'[i] \in {oauth[i], "consumed"}
  <2>1. oauth \in Seq(States) /\ "consumed" \in States
    BY DEF IdInv, SessionsInv, SessionTypes, States
  <2>. HIDE DEF States
  <2>2. oauth' \in Seq(States) /\ Len(oauth') = Len(oauth) /\ DOMAIN oauth' = DOMAIN oauth
    BY <1>1, <2>1, ExceptSeq
  <2>. QED
    BY <1>1, <2>1, <2>2
<1>3. Grown
  BY <1>1, <1>2 DEF Grown
<1>4. PeopleInv' /\ ApiInv'
  BY <1>1, ApiStays DEF IdInv, PeopleInv, OneAccountEach
<1>5. SessionsInv'
  BY <1>1, <1>2 DEF IdInv, SessionsInv, SessionTypes, StateSignsInOnce, LogoutIsFinal, AccountIds
<1>6. ASSUME NEW r, tab' = [tab EXCEPT ![t] = r] PROVE JarInv'
  <2>1. \A u \in Tabs \ {t} : tab'[u] = tab[u]
    BY <1>6 DEF IdInv, TabsInv
  <2>. QED
    BY <1>1, <1>2, <2>1 DEF IdInv, JarInv, NotLockedOut, IsToken
<1>7. \A u \in Tabs \ {t} : tab[u].pc \in Signing => \A i \in DOMAIN sessions' : sessions'[i].via # tab[u].state
  BY <1>1 DEF IdInv, TabsInv, Alone
<1>8. ASSUME oauth[tab[t].state] = "open", tab' = [tab EXCEPT ![t] = [tab[t] EXCEPT !.pc = "exchange"]]
      PROVE  TabsInv'
  <2>1. tab[t] \in [pc : {"consume", "exchange"}, state : Nat, device : Nat]
    BY <1>1, TabFields
  <2>2. PICK r : r = [pc |-> "exchange", state |-> tab[t].state, device |-> tab[t].device]
    OBVIOUS
  <2>3. r \in TabRecords /\ tab' = [tab EXCEPT ![t] = r] /\ r.pc = "exchange" /\ r.state = tab[t].state
    <3>1. r = [tab[t] EXCEPT !.pc = "exchange"]
      BY <2>1, <2>2
    <3>2. r \in [pc : {"consume", "exchange"}, state : Nat, device : Nat]
      BY <2>1, <2>2
    <3>. QED
      BY <1>8, <2>2, <3>1, <3>2 DEF TabRecords
  <2>4. \A i \in DOMAIN sessions : sessions[i].via # r.state
    BY <1>8, <2>3 DEF IdInv, SessionsInv, StateSignsInOnce
  <2>5. Alone(r)'
    BY <1>1, <1>2, <2>3, <2>4 DEF Alone, Signing, Renewing
  <2>6. ASSUME NEW u \in Tabs \ {t} PROVE Compatible(tab[u], r) /\ Compatible(r, tab[u])
    <3>1. tab[u].pc \in Signing => oauth[tab[u].state] = "consumed"
      BY DEF IdInv, TabsInv, Alone
    <3>. QED
      BY <1>8, <2>3, <3>1 DEF Compatible, Signing, Renewing
  <2>. QED
    BY <1>1, <1>3, <1>7, <2>3, <2>5, <2>6, WriteMoves DEF IdInv
<1>9. ASSUME tab' = [tab EXCEPT ![t] = NoRequest] PROVE TabsInv'
  <2>1. NoRequest \in TabRecords /\ Alone(NoRequest)'
    BY Refusal DEF NoRequest, Alone, Signing, Renewing
  <2>2. \A u \in Tabs \ {t} : Compatible(tab[u], NoRequest) /\ Compatible(NoRequest, tab[u])
    BY Refusal, NothingShared
  <2>. QED
    BY <1>1, <1>3, <1>7, <1>9, <2>1, <2>2, WriteMoves DEF IdInv
<1>. QED
  BY <1>4, <1>5, <1>6, <1>8, <1>9 DEF Consume, Goto, IdInv

(* A device that is revoked revokes the newest token of its sessions. *)
LEMMA RevokeDeviceKeeps == ASSUME IdInv, NEW t \in Tabs, RevokeDevice(t) PROVE IdInv'
<1> DEFINE d == tab[t].device
<1>1. /\ tab[t].pc = "revoke" /\ d \in DOMAIN devices
      /\ tab' = [tab EXCEPT ![t] = NoRequest]
      /\ UNCHANGED <<accounts, identities, oauth, sessions, jar, apiVars, lost>>
      /\ devices' = devices \/ devices' = [devices EXCEPT ![d].version = @ + 1, ![d].active = FALSE]
  BY DEF RevokeDevice, Goto, IdInv, TabsInv, Alone
<1>2. /\ devices \in Seq(DeviceRecords) /\ devices' \in Seq(DeviceRecords)
      /\ Len(devices') = Len(devices) /\ DOMAIN devices' = DOMAIN devices
      /\ \A i \in DOMAIN devices : devices'[i].account = devices[i].account
  <2>1. /\ devices \in Seq(DeviceRecords) /\ devices[d] \in DeviceRecords
        /\ \A i \in DOMAIN devices : devices[i] \in DeviceRecords
    BY <1>1, SessionLengths DEF IdInv, SessionsInv, SessionTypes
  <2>2. PICK e : e = [devices[d] EXCEPT !.version = @ + 1, !.active = FALSE]
    OBVIOUS
  <2>3. e \in DeviceRecords /\ e.account = devices[d].account
    <3>1. devices[d] \in [account : Nat \ {0}, version : Nat, active : BOOLEAN]
      BY <2>1 DEF DeviceRecords
    <3>2. e = [account |-> devices[d].account, version |-> devices[d].version + 1, active |-> FALSE]
      BY <2>2, <3>1
    <3>. QED
      BY <3>1, <3>2 DEF DeviceRecords
  <2>4. devices' = devices \/ devices' = [devices EXCEPT ![d] = e]
    BY <1>1, <2>1, <2>2 DEF DeviceRecords
  <2>5. [devices EXCEPT ![d] = e] \in Seq(DeviceRecords)
        /\ Len([devices EXCEPT ![d] = e]) = Len(devices)
        /\ DOMAIN [devices EXCEPT ![d] = e] = DOMAIN devices
    BY <1>1, <2>1, <2>3, ExceptSeq
  <2>. QED
    BY <1>1, <2>1, <2>3, <2>4, <2>5
<1>3. Grown
  BY <1>1, <1>2 DEF Grown
<1>4. PeopleInv' /\ ApiInv'
  BY <1>1, ApiStays DEF IdInv, PeopleInv, OneAccountEach
<1>5. SessionsInv'
  BY <1>1, <1>2 DEF IdInv, SessionsInv, SessionTypes, StateSignsInOnce, LogoutIsFinal, AccountIds
<1>6. JarInv'
  <2>1. \A u \in Tabs \ {t} : tab'[u] = tab[u]
    BY <1>1 DEF IdInv, TabsInv
  <2>. QED
    BY <1>1, <1>2, <2>1 DEF IdInv, JarInv, NotLockedOut, IsToken
<1>7. \A u \in Tabs \ {t} : tab[u].pc \in Signing => \A i \in DOMAIN sessions' : sessions'[i].via # tab[u].state
  BY <1>1 DEF IdInv, TabsInv, Alone
<1>8. TabsInv'
  <2>1. NoRequest \in TabRecords /\ Alone(NoRequest)'
    BY Refusal DEF NoRequest, Alone, Signing, Renewing
  <2>2. \A u \in Tabs \ {t} : Compatible(tab[u], NoRequest) /\ Compatible(NoRequest, tab[u])
    BY Refusal, NothingShared
  <2>. QED
    BY <1>1, <1>3, <1>7, <2>1, <2>2, WriteMoves DEF IdInv
<1>. QED
  BY <1>4, <1>5, <1>6, <1>8 DEF IdInv

(* A session that expires keeps its tokens. *)
LEMMA SessionExpiresKeeps == ASSUME IdInv, SessionExpires PROVE IdInv'
<1>1. PICK i \in DOMAIN sessions : sessions' = [sessions EXCEPT ![i].expired = TRUE]
  BY DEF SessionExpires
<1>2. UNCHANGED <<accounts, identities, oauth, devices, jar, tab, apiVars, lost>>
  BY DEF SessionExpires
<1>3. /\ sessions' \in Seq(SessionRecords)
      /\ Len(sessions') = Len(sessions) /\ DOMAIN sessions' = DOMAIN sessions
      /\ \A j \in DOMAIN sessions :
            /\ sessions'[j].account = sessions[j].account /\ sessions'[j].device = sessions[j].device
            /\ sessions'[j].via = sessions[j].via /\ sessions'[j].rows = sessions[j].rows
  <2>1. /\ sessions \in Seq(SessionRecords)
        /\ \A j \in DOMAIN sessions : sessions[j] \in SessionRecords
    BY SessionLengths DEF IdInv, SessionsInv, SessionTypes
  <2>2. PICK e : e = [sessions[i] EXCEPT !.expired = TRUE]
    OBVIOUS
  <2>3. /\ e \in SessionRecords /\ e.account = sessions[i].account /\ e.device = sessions[i].device
        /\ e.via = sessions[i].via /\ e.rows = sessions[i].rows
    BY <2>1, <2>2 DEF SessionRecords
  <2>4. sessions' = [sessions EXCEPT ![i] = e]
    BY <1>1, <2>2
  <2>5. sessions' \in Seq(SessionRecords) /\ Len(sessions') = Len(sessions)
        /\ DOMAIN sessions' = DOMAIN sessions
    BY <2>1, <2>3, <2>4, ExceptSeq
  <2>. QED
    BY <2>1, <2>3, <2>4, <2>5
<1>4. Grown
  BY <1>2, <1>3 DEF Grown
<1>5. PeopleInv' /\ ApiInv'
  BY <1>2, ApiStays DEF IdInv, PeopleInv, OneAccountEach
<1>6. SessionsInv'
  <2>1. SessionTypes' /\ Len(sessions') <= MaxSessions
    BY <1>2, <1>3 DEF IdInv, SessionsInv, SessionTypes
  <2>2. StateSignsInOnce'
    BY <1>2, <1>3 DEF IdInv, SessionsInv, StateSignsInOnce
  <2>3. LogoutIsFinal'
    BY <1>3 DEF IdInv, SessionsInv, LogoutIsFinal
  <2>4. \A j \in DOMAIN sessions' :
          /\ sessions'[j].account \in AccountIds'
          /\ sessions'[j].device \in DOMAIN devices'
          /\ devices'[sessions'[j].device].account = sessions'[j].account
          /\ sessions'[j].via \in DOMAIN oauth'
          /\ Len(sessions'[j].rows) \in 1..(MaxRows + 1)
    BY <1>2, <1>3 DEF IdInv, SessionsInv, AccountIds
  <2>. QED
    BY <2>1, <2>2, <2>3, <2>4 DEF SessionsInv
<1>7. JarInv'
  BY <1>2, <1>3 DEF IdInv, JarInv, NotLockedOut, IsToken
<1>8. TabsInv'
  <2>1. ASSUME NEW q, Alone(q) PROVE Alone(q)'
    <3>1. q.pc = "answer" => Answers(q.cookies)'
      BY <1>2, <1>3, <2>1 DEF Alone, Answers, IsToken
    <3>2. q.pc \in Signing => \A j \in DOMAIN sessions' : sessions'[j].via # q.state
      BY <1>3, <2>1 DEF Alone
    <3>. QED
      BY <1>4, <2>1, <3>1, <3>2, AloneGrows
  <2>2. ASSUME NEW u \in Tabs PROVE Alone(tab[u])'
    <3>1. PICK q : q = tab[u]
      OBVIOUS
    <3>2. Alone(q)' /\ q = tab'[u]
      BY <1>2, <2>1, <3>1 DEF IdInv, TabsInv
    <3>. QED
      BY <3>2 DEF Alone, Answers, Decided, IsToken
  <2>. QED
    BY <1>2, <2>2 DEF IdInv, TabsInv
<1>. QED
  BY <1>5, <1>6, <1>7, <1>8 DEF IdInv

-----------------------------------------------------------------------------
(* A row is added to the session of a token that was the newest when it was  *)
(* read and is so still.                                                     *)
Renewed(tok, x) ==
    /\ sessions' \in Seq(SessionRecords) /\ DOMAIN sessions' = DOMAIN sessions
    /\ Len(sessions') = Len(sessions)
    /\ tok[1] \in DOMAIN sessions /\ Len(sessions[tok[1]].rows) = tok[2]
    /\ sessions'[tok[1]].rows = Append(sessions[tok[1]].rows, x)
    /\ \A j \in DOMAIN sessions :
          /\ sessions'[j].account = sessions[j].account /\ sessions'[j].device = sessions[j].device
          /\ sessions'[j].via = sessions[j].via
          /\ j # tok[1] => sessions'[j].rows = sessions[j].rows
    /\ UNCHANGED <<accounts, identities, oauth, devices, jar, apiVars, lost>>

(* A renewed session keeps its token family in order. *)
LEMMA RenewedRows ==
    ASSUME IdInv, NEW t \in Tabs, tab[t].pc \in Renewing, NEW x \in {"active", "revoked"},
           Renewed(tab[t].token, x), tab[t].token[2] <= MaxRows
    PROVE  /\ Grown /\ SessionsInv'
           /\ tab[t].token \in Nat \X Nat /\ DOMAIN sessions = 1..Len(sessions)
           /\ Len(sessions'[tab[t].token[1]].rows) = tab[t].token[2] + 1
           /\ DOMAIN sessions'[tab[t].token[1]].rows = 1..(tab[t].token[2] + 1)
           /\ sessions'[tab[t].token[1]].rows[tab[t].token[2] + 1] = x
           /\ \A u \in Tabs \ {t} :
               /\ tab[u].pc \in Signing => \A i \in DOMAIN sessions' : sessions'[i].via # tab[u].state
               /\ (tab[u].pc = "answer" /\ tab[u].cookies.session # None) =>
                      /\ tab[u].cookies.session[1] # tab[t].token[1]
                      /\ Len(sessions'[tab[u].cookies.session[1]].rows)
                         = Len(sessions[tab[u].cookies.session[1]].rows)
<1>1. PICK tok : tok = tab[t].token
  OBVIOUS
<1>2. PICK i : i = tok[1]
  OBVIOUS
<1>3. /\ tok \in Nat \X Nat /\ i \in DOMAIN sessions /\ tok[2] \in DOMAIN sessions[i].rows
      /\ sessions[i].rows[tok[2]] = "active" /\ Len(sessions[i].rows) = tok[2] /\ tok[2] <= MaxRows
      /\ sessions'[i].rows = Append(sessions[i].rows, x)
  <2>1. tab[t] \in TabRecords /\ Alone(tab[t])
    BY DEF IdInv, TabsInv
  <2>2. tok \in Nat \X Nat
    BY <1>1, <2>1, TabFields
  <2>. QED
    BY <1>1, <1>2, <2>1, <2>2 DEF Alone, IsToken, Renewed
<1>4. /\ Len(sessions'[i].rows) = tok[2] + 1 /\ DOMAIN sessions'[i].rows = 1..(tok[2] + 1)
      /\ DOMAIN sessions[i].rows = 1..tok[2] /\ sessions'[i].rows[tok[2] + 1] = x
      /\ \A v \in 1..tok[2] : sessions'[i].rows[v] = sessions[i].rows[v]
  <2>1. sessions[i].rows \in Seq({"active", "revoked"})
    BY <1>3, SessionLengths DEF IdInv, SessionsInv
  <2>. QED
    BY <1>3, <2>1, AppendProperties, LenProperties
<1>5. \A j \in DOMAIN sessions : j # i => sessions'[j].rows = sessions[j].rows
  BY <1>1, <1>2 DEF Renewed
<1>6. Grown
  <2>1. \A j \in DOMAIN sessions :
           /\ DOMAIN sessions[j].rows \subseteq DOMAIN sessions'[j].rows
           /\ \A v \in DOMAIN sessions[j].rows : sessions'[j].rows[v] = sessions[j].rows[v]
    <3>. SUFFICES ASSUME NEW j \in DOMAIN sessions
                  PROVE /\ DOMAIN sessions[j].rows \subseteq DOMAIN sessions'[j].rows
                        /\ \A v \in DOMAIN sessions[j].rows : sessions'[j].rows[v] = sessions[j].rows[v]
      OBVIOUS
    <3>1. CASE j = i
      <4>1. tok[2] \in Nat
        BY <1>3
      <4>2. 1..tok[2] \subseteq 1..(tok[2] + 1)
        BY <4>1
      <4>. QED
        BY <1>4, <3>1, <4>2
    <3>2. CASE j # i
      BY <1>5, <3>2
    <3>. QED
      BY <3>1, <3>2
  <2>. QED
    BY <2>1 DEF Grown, Renewed
<1>7. SessionsInv'
  <2>1. SessionTypes' /\ Len(sessions') <= MaxSessions
    BY DEF Renewed, IdInv, SessionsInv, SessionTypes
  <2>2. StateSignsInOnce'
    BY DEF Renewed, IdInv, SessionsInv, StateSignsInOnce
  <2>3. LogoutIsFinal'
    <3>. SUFFICES ASSUME NEW j \in DOMAIN sessions', NEW v \in DOMAIN sessions'[j].rows,
                         sessions'[j].rows[v] = "revoked"
                  PROVE  v = Len(sessions'[j].rows)
      BY DEF LogoutIsFinal
    <3>1. CASE j # i
      BY <1>5, <3>1 DEF Renewed, IdInv, SessionsInv, LogoutIsFinal
    <3>2. CASE j = i /\ v # tok[2] + 1
      <4>1. v \in DOMAIN sessions[i].rows /\ sessions[i].rows[v] = "revoked"
        BY <1>3, <1>4, <3>2
      <4>2. v = Len(sessions[i].rows)
        BY <1>3, <4>1 DEF IdInv, SessionsInv, LogoutIsFinal
      <4>. QED
        BY <1>3, <4>1, <4>2
    <3>3. CASE j = i /\ v = tok[2] + 1
      BY <1>4, <3>3
    <3>. QED
      BY <3>1, <3>2, <3>3
  <2>4. ASSUME NEW j \in DOMAIN sessions'
        PROVE  /\ sessions'[j].account \in AccountIds'
               /\ sessions'[j].device \in DOMAIN devices'
               /\ devices'[sessions'[j].device].account = sessions'[j].account
               /\ sessions'[j].via \in DOMAIN oauth'
    BY DEF Renewed, IdInv, SessionsInv, AccountIds
  <2>5. ASSUME NEW j \in DOMAIN sessions' PROVE Len(sessions'[j].rows) \in 1..(MaxRows + 1)
    <3>1. CASE j = i
      BY <1>3, <1>4, <3>1, IdentityBounds
    <3>2. CASE j # i
      BY <1>5, <3>2 DEF Renewed, IdInv, SessionsInv
    <3>. QED
      BY <3>1, <3>2
  <2>. QED
    BY <2>1, <2>2, <2>3, <2>4, <2>5 DEF SessionsInv
<1>8. ASSUME NEW u \in Tabs \ {t}
      PROVE  /\ tab[u].pc \in Signing => \A j \in DOMAIN sessions' : sessions'[j].via # tab[u].state
             /\ (tab[u].pc = "answer" /\ tab[u].cookies.session # None) =>
                    /\ tab[u].cookies.session[1] # i
                    /\ Len(sessions'[tab[u].cookies.session[1]].rows)
                       = Len(sessions[tab[u].cookies.session[1]].rows)
  <2>1. Alone(tab[u]) /\ Compatible(tab[u], tab[t])
    BY DEF IdInv, TabsInv
  <2>2. tab[u].pc \in Signing => \A j \in DOMAIN sessions' : sessions'[j].via # tab[u].state
    BY <2>1 DEF Alone, Renewed
  <2>3. ASSUME tab[u].pc = "answer", tab[u].cookies.session # None
        PROVE  /\ tab[u].cookies.session[1] # i
               /\ Len(sessions'[tab[u].cookies.session[1]].rows)
                  = Len(sessions[tab[u].cookies.session[1]].rows)
    <3>1. PICK s : s = tab[u].cookies.session
      OBVIOUS
    <3>2. s[1] \in DOMAIN sessions /\ s[2] = Len(sessions[s[1]].rows)
      BY <2>1, <2>3, <3>1 DEF Alone, Answers, IsToken
    <3>3. i = s[1] => tok[2] < s[2]
      BY <1>1, <1>2, <2>1, <2>3, <3>1 DEF Compatible
    <3>4. s[1] # i
      BY <1>3, <3>2, <3>3
    <3>. QED
      BY <1>5, <3>1, <3>2, <3>4
  <2>. QED
    BY <2>2, <2>3
<1>9. DOMAIN sessions = 1..Len(sessions)
  BY SessionLengths DEF IdInv, SessionsInv
<1>. QED
  BY <1>1, <1>2, <1>3, <1>4, <1>6, <1>7, <1>8, <1>9

(* What rotate and logout do to the session of their token.                  *)
LEMMA RowAdded ==
    ASSUME IdInv, NEW tok \in Nat \X Nat, IsToken(tok), RowFree(tok),
           NEW x \in {"active", "revoked"}, NEW e \in BOOLEAN,
           sessions' = [sessions EXCEPT ![tok[1]].rows = Append(@, x), ![tok[1]].expired = e],
           UNCHANGED <<accounts, identities, oauth, devices, jar, apiVars, lost>>
    PROVE  Renewed(tok, x)
<1>1. PICK i : i = tok[1]
  OBVIOUS
<1>2. /\ i \in DOMAIN sessions /\ sessions \in Seq(SessionRecords)
      /\ sessions[i].rows \in Seq({"active", "revoked"}) /\ sessions[i] \in SessionRecords
  BY <1>1, SessionLengths DEF IdInv, SessionsInv, SessionTypes, IsToken
<1>3. PICK s : s = [sessions[i] EXCEPT !.rows = Append(@, x), !.expired = e]
  OBVIOUS
<1>4. sessions[i] \in [account : Nat, device : Nat, via : Nat, dv : Nat, expired : BOOLEAN,
                       rows : Seq({"active", "revoked"})]
  BY <1>2 DEF SessionRecords
<1>5. s = [account |-> sessions[i].account, device |-> sessions[i].device, via |-> sessions[i].via,
           dv |-> sessions[i].dv, expired |-> e, rows |-> Append(sessions[i].rows, x)]
  BY <1>3, <1>4
<1>6. Append(sessions[i].rows, x) \in Seq({"active", "revoked"})
  BY <1>2, AppendProperties
<1>7. s \in SessionRecords
  BY <1>4, <1>5, <1>6 DEF SessionRecords
<1>8. sessions' = [sessions EXCEPT ![i] = s]
  BY <1>1, <1>2, <1>3
<1>9. sessions' \in Seq(SessionRecords) /\ Len(sessions') = Len(sessions)
      /\ DOMAIN sessions' = DOMAIN sessions
  <2>1. i \in 1..Len(sessions) /\ sessions \in Seq(SessionRecords)
    BY <1>2, LenProperties
  <2>2. [sessions EXCEPT ![i] = s] \in Seq(SessionRecords)
        /\ Len([sessions EXCEPT ![i] = s]) = Len(sessions)
    BY <1>7, <2>1, ExceptSeq
  <2>. QED
    BY <1>8, <2>2
<1>10. sessions'[i] = s /\ \A j \in DOMAIN sessions : j # i => sessions'[j] = sessions[j]
  BY <1>2, <1>8
<1>11. sessions'[i].rows = Append(sessions[i].rows, x)
  <2>1. s.rows = Append(sessions[i].rows, x)
    BY <1>5, Zenon
  <2>2. sessions'[i] = s
    BY <1>10
  <2>. QED
    BY <2>1, <2>2, Zenon
<1>12. ASSUME NEW j \in DOMAIN sessions
       PROVE  /\ sessions'[j].account = sessions[j].account
              /\ sessions'[j].device = sessions[j].device /\ sessions'[j].via = sessions[j].via
              /\ j # tok[1] => sessions'[j].rows = sessions[j].rows
  <2>1. CASE j = i
    BY <1>1, <1>5, <1>10, <2>1
  <2>2. CASE j # i
    BY <1>10, <2>2
  <2>. QED
    BY <2>1, <2>2
<1>. QED
  BY <1>1, <1>2, <1>9, <1>11, <1>12 DEF Renewed, RowFree

(* A token stays one when sessions only grow. *)
LEMMA TokenStays == ASSUME Grown, NEW q, IsToken(q) PROVE IsToken(q)'
BY DEF Grown, IsToken

(* Rotation revokes the presented token and issues the next one. *)
LEMMA RotateKeeps == ASSUME IdInv, NEW t \in Tabs, Rotate(t) PROVE IdInv'
<1> DEFINE tok == tab[t].token
<1>1. /\ tab[t].pc = "rotate" /\ tab[t] \in TabRecords /\ Alone(tab[t])
      /\ UNCHANGED <<accounts, identities, oauth, devices, jar, apiVars, lost>>
  BY DEF Rotate, IdInv, TabsInv
<1>2. tok \in Nat \X Nat /\ IsToken(tok)
  BY <1>1, TabFields DEF Alone, Renewing
<1>3. CASE UNCHANGED sessions /\ Goto(t, NoRequest)
  <2>1. UNCHANGED <<signVars, jar, apiVars, lost>>
    BY <1>1, <1>3 DEF signVars
  <2>. QED
    BY <1>1, <1>3, <2>1, Refusal, ReadKeepsInv DEF Goto
<1>4. ASSUME RowFree(tok), tok[2] < MaxRows,
             sessions' = [sessions EXCEPT ![tok[1]].rows = Append(@, "active"),
                                          ![tok[1]].expired = FALSE],
             Goto(t, [pc |-> "answer", cookies |-> [session |-> <<tok[1], tok[2] + 1>>]])
      PROVE  IdInv'
  <2>1. Renewed(tok, "active")
    BY <1>1, <1>2, <1>4, RowAdded
  <2>2. tok[2] <= MaxRows
    BY <1>2, <1>4, IdentityBounds
  <2>3. /\ Grown /\ SessionsInv'
        /\ Len(sessions'[tok[1]].rows) = tok[2] + 1
        /\ DOMAIN sessions'[tok[1]].rows = 1..(tok[2] + 1)
        /\ \A u \in Tabs \ {t} :
               /\ tab[u].pc \in Signing => \A i \in DOMAIN sessions' : sessions'[i].via # tab[u].state
               /\ (tab[u].pc = "answer" /\ tab[u].cookies.session # None) =>
                      /\ tab[u].cookies.session[1] # tok[1]
                      /\ Len(sessions'[tab[u].cookies.session[1]].rows)
                         = Len(sessions[tab[u].cookies.session[1]].rows)
    BY <1>1, <2>1, <2>2, RenewedRows DEF Renewing
  <2>4. PeopleInv' /\ ApiInv'
    BY <1>1, ApiStays DEF IdInv, PeopleInv, OneAccountEach
  <2>5. PICK s : s = <<tok[1], tok[2] + 1>>
    OBVIOUS
  <2>6. s \in Nat \X Nat /\ s[1] = tok[1] /\ s[2] = tok[2] + 1
    BY <1>2, <2>5
  <2>7. PICK r : r = [pc |-> "answer", cookies |-> [session |-> s]]
    OBVIOUS
  <2>8. /\ r \in TabRecords /\ r.pc = "answer" /\ r.cookies.session = s
        /\ "device" \notin DOMAIN r.cookies /\ tab' = [tab EXCEPT ![t] = r]
    BY <1>4, <2>5, <2>6, <2>7 DEF TabRecords, Cookies, Goto
  <2>9. Alone(r)'
    <3>1. IsToken(s)' /\ s[2] = Len(sessions'[s[1]].rows)
      <4>1. tok[1] \in DOMAIN sessions' /\ tok[2] + 1 \in 1..(tok[2] + 1)
        BY <1>2, <2>1 DEF IsToken, Renewed
      <4>. QED
        BY <2>3, <2>6, <4>1 DEF IsToken
    <3>2. ASSUME jar'.session # None, jar'.session[1] = s[1] PROVE jar'.session[2] < s[2]
      <4>1. jar'.session = jar.session /\ IsToken(jar.session) /\ jar.session \in Nat \X Nat
        BY <1>1, <3>2 DEF IdInv, JarInv
      <4>2. jar.session[2] \in 1..Len(sessions[tok[1]].rows)
        <5>1. jar.session[1] = tok[1] /\ tok[1] \in DOMAIN sessions
          BY <2>6, <3>2, <4>1 DEF IsToken
        <5>2. DOMAIN sessions[tok[1]].rows = 1..Len(sessions[tok[1]].rows)
          BY <5>1, SessionLengths DEF IdInv, SessionsInv
        <5>. QED
          BY <4>1, <5>1, <5>2 DEF IsToken
      <4>3. Len(sessions[tok[1]].rows) = tok[2]
        BY <1>4 DEF RowFree
      <4>. QED
        BY <1>2, <2>6, <4>1, <4>2, <4>3
    <3>3. Answers(r.cookies)'
      BY <2>8, <3>1, <3>2 DEF Answers
    <3>. QED
      BY <2>8, <3>3 DEF Alone, Signing, Renewing
  <2>10. ASSUME NEW u \in Tabs \ {t} PROVE Compatible(tab[u], r) /\ Compatible(r, tab[u])
    <3>1. Alone(tab[u])
      BY DEF IdInv, TabsInv
    <3>2. ASSUME tab[u].pc = "answer", tab[u].cookies.session # None
          PROVE  tab[u].cookies.session[1] # s[1]
      BY <2>3, <2>6, <3>2
    <3>3. ASSUME tab[u].pc \in Renewing, tab[u].token[1] = s[1] PROVE tab[u].token[2] < s[2]
      <4>1. IsToken(tab[u].token) /\ tab[u].token \in Nat \X Nat
        BY <3>1, <3>3, TabFields DEF Alone, IdInv, TabsInv
      <4>2. tok[1] \in DOMAIN sessions /\ DOMAIN sessions[tok[1]].rows = 1..Len(sessions[tok[1]].rows)
        BY <1>2, SessionLengths DEF IsToken, IdInv, SessionsInv
      <4>3. tab[u].token[2] \in 1..tok[2]
        BY <1>4, <2>6, <3>3, <4>1, <4>2 DEF IsToken, RowFree
      <4>. QED
        BY <1>2, <2>6, <4>1, <4>3
    <3>. QED
      BY <2>8, <3>2, <3>3 DEF Compatible, Signing, Renewing
  <2>11. TabsInv'
    BY <1>1, <2>3, <2>8, <2>9, <2>10, WriteMoves DEF IdInv
  <2>12. JarInv'
    <3>1. tab'[t].pc = "answer"
      BY <2>8 DEF IdInv, TabsInv
    <3>2. NotLockedOut'
      BY <3>1 DEF NotLockedOut
    <3>3. jar.session # None => IsToken(jar.session)'
      <4>1. PICK q : q = jar.session
        OBVIOUS
      <4>2. q = jar'.session
        BY <1>1, <4>1
      <4>3. q # None => IsToken(q)'
        BY <2>3, <4>1, TokenStays DEF IdInv, JarInv
      <4>. QED
        BY <4>1, <4>2, <4>3 DEF IsToken
    <3>. QED
      BY <1>1, <3>2, <3>3 DEF IdInv, JarInv, IsToken
  <2>. QED
    BY <2>3, <2>4, <2>11, <2>12 DEF IdInv
<1>. QED
  BY <1>3, <1>4 DEF Rotate

(* Logout revokes the presented token and answers with no cookie. *)
LEMMA LogoutKeeps == ASSUME IdInv, NEW t \in Tabs, Logout(t) PROVE IdInv'
<1> DEFINE tok == tab[t].token
<1>1. /\ tab[t].pc = "logout" /\ tab[t] \in TabRecords /\ Alone(tab[t])
      /\ UNCHANGED <<accounts, identities, oauth, devices, jar, apiVars, lost>>
  BY DEF Logout, IdInv, TabsInv
<1>2. tok \in Nat \X Nat /\ IsToken(tok)
  BY <1>1, TabFields DEF Alone, Renewing
<1>3. CASE UNCHANGED sessions /\ Goto(t, NoRequest)
  <2>1. UNCHANGED <<signVars, jar, apiVars, lost>>
    BY <1>1, <1>3 DEF signVars
  <2>. QED
    BY <1>1, <1>3, <2>1, Refusal, ReadKeepsInv DEF Goto
<1>4. ASSUME RowFree(tok), tok[2] <= MaxRows,
             sessions' = [sessions EXCEPT ![tok[1]].rows = Append(@, "revoked")],
             Goto(t, [pc |-> "answer", cookies |-> [session |-> None]])
      PROVE  IdInv'
  <2>1. Renewed(tok, "revoked")
    <3>1. PICK e \in BOOLEAN : e = sessions[tok[1]].expired
      <4>1. sessions[tok[1]] \in SessionRecords
        BY <1>2, SessionLengths DEF IsToken, IdInv, SessionsInv
      <4>. QED
        BY <4>1 DEF SessionRecords
    <3>2. sessions' = [sessions EXCEPT ![tok[1]].rows = Append(@, "revoked"), ![tok[1]].expired = e]
      <4>1. tok[1] \in DOMAIN sessions /\ sessions[tok[1]] \in SessionRecords
        BY <1>2, SessionLengths DEF IsToken, IdInv, SessionsInv
      <4>2. [sessions[tok[1]] EXCEPT !.rows = Append(@, "revoked")]
            = [sessions[tok[1]] EXCEPT !.rows = Append(@, "revoked"), !.expired = e]
        BY <3>1, <4>1 DEF SessionRecords
      <4>. QED
        BY <1>4, <4>1, <4>2
    <3>. QED
      BY <1>1, <1>2, <1>4, <3>2, RowAdded
  <2>2. /\ Grown /\ SessionsInv'
        /\ Len(sessions'[tok[1]].rows) = tok[2] + 1
        /\ sessions'[tok[1]].rows[tok[2] + 1] = "revoked"
        /\ \A u \in Tabs \ {t} :
               /\ tab[u].pc \in Signing => \A i \in DOMAIN sessions' : sessions'[i].via # tab[u].state
               /\ (tab[u].pc = "answer" /\ tab[u].cookies.session # None) =>
                      /\ tab[u].cookies.session[1] # tok[1]
                      /\ Len(sessions'[tab[u].cookies.session[1]].rows)
                         = Len(sessions[tab[u].cookies.session[1]].rows)
    BY <1>1, <1>4, <2>1, RenewedRows DEF Renewing
  <2>3. PeopleInv' /\ ApiInv'
    BY <1>1, ApiStays DEF IdInv, PeopleInv, OneAccountEach
  <2>4. PICK r : r = [pc |-> "answer", cookies |-> [session |-> None]]
    OBVIOUS
  <2>5. /\ r \in TabRecords /\ r.pc = "answer" /\ r.cookies.session = None
        /\ "device" \notin DOMAIN r.cookies /\ tab' = [tab EXCEPT ![t] = r]
    BY <1>4, <2>4 DEF TabRecords, Cookies, Goto
  <2>6. Alone(r)' /\ \A u \in Tabs \ {t} : Compatible(tab[u], r) /\ Compatible(r, tab[u])
    BY <2>5 DEF Alone, Answers, Compatible, Signing, Renewing
  <2>7. TabsInv'
    BY <1>1, <2>2, <2>5, <2>6, WriteMoves DEF IdInv
  <2>8. JarInv'
    <3>1. tab'[t].pc = "answer"
      BY <2>5 DEF IdInv, TabsInv
    <3>2. NotLockedOut'
      BY <3>1 DEF NotLockedOut
    <3>3. jar.session # None => IsToken(jar.session)'
      <4>1. PICK q : q = jar.session
        OBVIOUS
      <4>2. q = jar'.session
        BY <1>1, <4>1
      <4>3. q # None => IsToken(q)'
        BY <2>2, <4>1, TokenStays DEF IdInv, JarInv
      <4>. QED
        BY <4>1, <4>2, <4>3 DEF IsToken
    <3>. QED
      BY <1>1, <3>2, <3>3 DEF IdInv, JarInv, IsToken
  <2>. QED
    BY <2>2, <2>3, <2>7, <2>8 DEF IdInv
<1>. QED
  BY <1>3, <1>4 DEF Logout

(* The answer comes: the cookie on its way is the newest of its session, and *)
(* no other answer is about that session.                                    *)
LEMMA AnsweredKeeps == ASSUME IdInv, NEW t \in Tabs, Answered(t) PROVE IdInv'
<1>1. PICK k : k = tab[t].cookies
  OBVIOUS
<1>2. /\ tab[t].pc = "answer" /\ tab' = [tab EXCEPT ![t] = NoRequest]
      /\ UNCHANGED <<signVars, apiVars, lost>> /\ tab[t] \in TabRecords /\ Alone(tab[t])
      /\ jar' = [f \in DOMAIN jar |-> IF f \in DOMAIN k THEN k[f] ELSE jar[f]]
      /\ UNCHANGED <<accounts, identities, oauth, devices, sessions>>
  BY <1>1 DEF Answered, Goto, IdInv, TabsInv, signVars
<1>3. k \in Cookies /\ Answers(k)
  BY <1>1, <1>2, TabFields DEF Alone
<1>4. jar \in [session : {None} \cup (Nat \X Nat), device : 0..Len(devices), state : 0..Len(oauth)]
  BY DEF IdInv, JarInv
<1>5. jar'.session = k.session
      /\ jar' \in [session : {None} \cup (Nat \X Nat), device : 0..Len(devices), state : 0..Len(oauth)]
  <2>1. Len(oauth) \in Nat /\ Len(devices) \in Nat
    BY SessionLengths DEF IdInv, SessionsInv
  <2>2. CASE k \in [session : Nat \X Nat, device : Nat, state : {0}]
    <3>1. jar' = [session |-> k.session, device |-> k.device, state |-> 0]
      BY <1>2, <1>4, <2>2
    <3>2. k.device \in 0..Len(devices)
      BY <1>3, <2>1, <2>2 DEF Answers
    <3>3. 0 \in 0..Len(oauth)
      BY <2>1
    <3>. QED
      BY <2>2, <3>1, <3>2, <3>3
  <2>3. CASE k \in [session : {None} \cup (Nat \X Nat)]
    <3>1. jar' = [session |-> k.session, device |-> jar.device, state |-> jar.state]
      BY <1>2, <1>4, <2>3
    <3>. QED
      BY <1>4, <2>3, <3>1
  <2>. QED
    BY <1>3, <2>2, <2>3 DEF Cookies
<1>6. PeopleInv' /\ SessionsInv' /\ ApiInv'
  BY <1>2, RowsStay, ApiStays DEF IdInv
<1>7. JarInv'
  <2>1. k.session # None => IsToken(k.session) /\ k.session[2] = Len(sessions[k.session[1]].rows)
    BY <1>3 DEF Answers
  <2>2. jar'.session # None =>
           IsToken(jar.session)' /\ jar'.session[2] = Len(sessions'[jar'.session[1]].rows)
    BY <1>2, <1>5, <2>1 DEF IsToken
  <2>3. lost' \in Nat
    BY <1>2 DEF IdInv, JarInv
  <2>. QED
    BY <1>2, <1>5, <2>2, <2>3 DEF JarInv, NotLockedOut
<1>8. TabsInv'
  <2>1. ASSUME NEW u \in Tabs \ {t}, NEW q \in TabRecords, q = tab[u] PROVE Alone(q)'
    <3>1. Alone(q) /\ Compatible(q, tab[t])
      BY <2>1 DEF IdInv, TabsInv
    <3>2. q.pc = "answer" => Answers(q.cookies)'
      <4>1. q.pc = "answer" =>
              /\ Answers(q.cookies)
              /\ k.session # None /\ q.cookies.session # None => q.cookies.session[1] # k.session[1]
        BY <1>1, <1>2, <3>1 DEF Alone, Compatible
      <4>. QED
        BY <1>2, <1>5, <4>1 DEF Answers, IsToken
    <3>. QED
      BY <1>2, <3>1, <3>2 DEF Alone, Decided, IsToken
  <2>2. Alone(NoRequest)'
    BY DEF NoRequest, Alone, Signing, Renewing
  <2>3. \A u \in Tabs \ {t} : Compatible(tab[u], NoRequest) /\ Compatible(NoRequest, tab[u])
    BY Refusal, NothingShared
  <2>. QED
    BY <1>2, <2>1, <2>2, <2>3, Refusal, TabMoves DEF IdInv
<1>. QED
  BY <1>6, <1>7, <1>8 DEF IdInv

(* A login of an identity that is known, or of nobody else's, leaves one     *)
(* account for an e-mail and one for a subject.                              *)
LEMMA LoginPeople ==
    ASSUME PeopleInv, NEW r, r.email \in Emails, r.subject \in Subjects, r.account \in Nat,
           Decided(r), LoginUnique(r), NEW a, a = (IF r.account = 0 THEN Fresh ELSE r.account),
           accounts' = accounts \cup {[id |-> a, email |-> r.email]},
           identities' = identities \cup
               {[subject |-> r.subject, email |-> r.email, account |-> a]}
    PROVE  PeopleInv' /\ a \in Nat \ {0} /\ a \in AccountIds'
<1>1. /\ IsFiniteSet(accounts) /\ Cardinality(accounts) \in Nat
      /\ accounts \subseteq [id : 1..Cardinality(accounts), email : Emails]
      /\ \A x, y \in accounts : x.email = y.email \/ x.id = y.id => x = y
      /\ \A i, j \in identities : i.subject = j.subject => i = j
      /\ identities \subseteq [subject : Subjects, email : Emails, account : Nat]
      /\ \A i \in identities : [id |-> i.account, email |-> i.email] \in accounts
  BY FS_CardinalityType DEF PeopleInv, OneAccountEach
<1>2. PICK x : x = [id |-> a, email |-> r.email]
  OBVIOUS
<1>3. PICK i : i = [subject |-> r.subject, email |-> r.email, account |-> a]
  OBVIOUS
<1>4. accounts' = accounts \cup {x} /\ identities' = identities \cup {i}
  BY <1>2, <1>3
<1>5. /\ IsFiniteSet(accounts') /\ Cardinality(accounts') \in Nat
      /\ accounts' \subseteq [id : 1..Cardinality(accounts'), email : Emails]
      /\ \A y, z \in accounts' : y.email = z.email \/ y.id = z.id => y = z
      /\ a \in Nat \ {0}
  <2>1. CASE r.account = 0
    <3>1. a = Cardinality(accounts) + 1 /\ \A y \in accounts : y.email # r.email /\ y.id # a
      BY <1>1, <2>1 DEF Fresh, LoginUnique, OfEmail
    <3>2. x \notin accounts
      BY <1>2, <3>1
    <3>3. IsFiniteSet(accounts') /\ Cardinality(accounts') = Cardinality(accounts) + 1
      <4>1. IsFiniteSet(accounts \cup {x})
            /\ Cardinality(accounts \cup {x}) = Cardinality(accounts) + 1
        BY <1>1, <3>2, FS_AddElement
      <4>. QED
        BY <1>4, <4>1
    <3>4. \A y \in accounts' : y \in [id : 1..Cardinality(accounts'), email : Emails]
      <4>1. \A y \in accounts : y \in [id : 1..Cardinality(accounts), email : Emails]
        BY <1>1
      <4>2. 1..Cardinality(accounts) \subseteq 1..Cardinality(accounts')
            /\ a \in 1..Cardinality(accounts')
        BY <1>1, <3>1, <3>3
      <4>3. \A y \in accounts : y \in [id : 1..Cardinality(accounts'), email : Emails]
        BY <4>1, <4>2
      <4>4. x \in [id : 1..Cardinality(accounts'), email : Emails]
        BY <1>2, <4>2
      <4>. QED
        BY <1>4, <4>3, <4>4
    <3>5. \A y, z \in accounts' : y.email = z.email \/ y.id = z.id => y = z
      BY <1>1, <1>2, <1>4, <3>1
    <3>. QED
      BY <1>1, <3>1, <3>3, <3>4, <3>5
  <2>2. CASE r.account # 0
    <3>1. x \in accounts /\ a = r.account
      BY <1>2, <2>2 DEF Decided
    <3>2. accounts' = accounts
      BY <1>4, <3>1
    <3>. QED
      BY <1>1, <2>2, <3>1, <3>2
  <2>. QED
    BY <2>1, <2>2
<1>6. \A j, k \in identities' : j.subject = k.subject => j = k
  <2>1. CASE r.linked
    <3>1. i \in identities
      BY <1>3, <2>1 DEF Decided
    <3>2. identities' = identities
      BY <1>4, <3>1
    <3>. QED
      BY <1>1, <3>2
  <2>2. CASE ~r.linked
    <3>1. \A j \in identities : j.subject # i.subject
      BY <1>3, <2>2 DEF LoginUnique, Linked
    <3>. QED
      BY <1>1, <1>4, <3>1
  <2>. QED
    BY <2>1, <2>2
<1>7. identities' \subseteq [subject : Subjects, email : Emails, account : Nat]
  <2>1. i \in [subject : Subjects, email : Emails, account : Nat]
    BY <1>3, <1>5
  <2>. QED
    BY <1>1, <1>4, <2>1
<1>8. \A j \in identities' : [id |-> j.account, email |-> j.email] \in accounts'
  <2>1. [id |-> i.account, email |-> i.email] = x
    BY <1>2, <1>3
  <2>. QED
    BY <1>1, <1>4, <2>1
<1>9. a \in AccountIds'
  BY <1>2, <1>4 DEF AccountIds
<1>. QED
  BY <1>5, <1>6, <1>7, <1>8, <1>9 DEF PeopleInv, OneAccountEach

(* What a login writes of its device and session.                            *)
Starts(a, device, via, d) ==
    /\ a \in Nat \ {0} /\ a \in AccountIds' /\ device \in Nat
    /\ device # 0 => device \in DOMAIN devices /\ devices[device].account = a
    /\ via \in DOMAIN oauth /\ oauth[via] = "consumed"
    /\ \A i \in DOMAIN sessions : sessions[i].via # via
    /\ Len(sessions) < MaxSessions /\ accounts \subseteq accounts' /\ oauth' = oauth
    /\ d = IF device = 0 THEN Len(devices) + 1 ELSE device
    /\ devices' = IF device # 0 THEN devices
                  ELSE Append(devices, [account |-> a, version |-> 1, active |-> TRUE])
    /\ sessions' = Append(sessions, [account |-> a, device |-> d, via |-> via,
                                dv |-> IF device = 0 THEN 1 ELSE devices[device].version,
                                expired |-> FALSE, rows |-> <<"active">>])

(* What it leaves.                                                           *)
SessionStarted(via, d) ==
    /\ SessionsInv' /\ d \in 1..Len(devices')
    /\ Len(sessions) \in Nat /\ Len(sessions') = Len(sessions) + 1
    /\ DOMAIN sessions = 1..Len(sessions) /\ DOMAIN sessions' = 1..(Len(sessions) + 1)
    /\ \A i \in DOMAIN sessions : sessions'[i] = sessions[i]
    /\ sessions'[Len(sessions) + 1].rows = <<"active">>
    /\ sessions'[Len(sessions) + 1].via = via
    /\ DOMAIN devices \subseteq DOMAIN devices' /\ 1..Len(devices) \subseteq 1..Len(devices')
    /\ \A i \in DOMAIN devices : devices'[i].account = devices[i].account

(* The session of a login is new, and its device is one of the account.      *)
LEMMA LoginSession ==
    ASSUME SessionsInv, NEW a, NEW device, NEW via, NEW d, Starts(a, device, via, d)
    PROVE  SessionStarted(via, d)
<1>. USE DEF Starts
<1>1. /\ oauth \in Seq(States) /\ devices \in Seq(DeviceRecords) /\ sessions \in Seq(SessionRecords)
      /\ Len(oauth) \in Nat /\ DOMAIN oauth = 1..Len(oauth)
      /\ Len(devices) \in Nat /\ DOMAIN devices = 1..Len(devices)
      /\ Len(sessions) \in Nat /\ DOMAIN sessions = 1..Len(sessions)
      /\ \A i \in DOMAIN devices : devices[i] \in DeviceRecords
  BY SessionLengths DEF SessionsInv, SessionTypes
<1>2. PICK w : w = [account |-> a, version |-> 1, active |-> TRUE]
  OBVIOUS
<1>3. /\ devices' \in Seq(DeviceRecords) /\ DOMAIN devices' = 1..Len(devices')
      /\ d \in 1..Len(devices') /\ devices'[d].account = a
      /\ Len(devices') \in Nat /\ Len(devices) <= Len(devices')
      /\ \A i \in DOMAIN devices : devices'[i] = devices[i]
  <2>1. CASE device # 0
    BY <1>1, <2>1
  <2>2. CASE device = 0
    <3>1. w \in DeviceRecords /\ w.account = a
      BY <1>2 DEF DeviceRecords
    <3>2. devices' = Append(devices, w) /\ d = Len(devices) + 1
      BY <1>2, <2>2
    <3>3. /\ devices' \in Seq(DeviceRecords) /\ Len(devices') = Len(devices) + 1
          /\ devices'[Len(devices) + 1] = w
          /\ \A i \in 1..Len(devices) : devices'[i] = devices[i]
      BY <1>1, <3>1, <3>2, AppendProperties
    <3>4. DOMAIN devices' = 1..Len(devices')
      BY <3>3, LenProperties
    <3>. QED
      BY <1>1, <3>1, <3>2, <3>3, <3>4
  <2>. QED
    BY <2>1, <2>2
<1>4. PICK dv : dv = IF device = 0 THEN 1 ELSE devices[device].version
  OBVIOUS
<1>5. dv \in Nat
  BY <1>1, <1>4 DEF DeviceRecords
<1>6. PICK s : s = [account |-> a, device |-> d, via |-> via, dv |-> dv, expired |-> FALSE,
                    rows |-> <<"active">>]
  OBVIOUS
<1>7. s \in SessionRecords
  <2>1. d \in Nat /\ via \in Nat
    BY <1>1, <1>3
  <2>2. <<"active">> \in Seq({"active", "revoked"})
    OBVIOUS
  <2>. QED
    BY <1>5, <1>6, <2>1, <2>2 DEF SessionRecords
<1>8. sessions' = Append(sessions, s)
  BY <1>4, <1>6
<1>9. /\ sessions' \in Seq(SessionRecords) /\ Len(sessions') = Len(sessions) + 1
      /\ sessions'[Len(sessions) + 1] = s
      /\ \A i \in 1..Len(sessions) : sessions'[i] = sessions[i]
      /\ DOMAIN sessions' = 1..(Len(sessions) + 1)
  <2>1. /\ sessions' \in Seq(SessionRecords) /\ Len(sessions') = Len(sessions) + 1
        /\ sessions'[Len(sessions) + 1] = s
        /\ \A i \in 1..Len(sessions) : sessions'[i] = sessions[i]
    BY <1>1, <1>7, <1>8, AppendProperties
  <2>. QED
    BY <2>1, LenProperties
<1>10. ASSUME NEW i \in DOMAIN sessions' PROVE i \in DOMAIN sessions \/ i = Len(sessions) + 1
  BY <1>1, <1>9
<1>11. ASSUME NEW i \in DOMAIN sessions'
       PROVE  /\ sessions'[i].account \in AccountIds'
              /\ sessions'[i].device \in DOMAIN devices'
              /\ devices'[sessions'[i].device].account = sessions'[i].account
              /\ sessions'[i].via \in DOMAIN oauth'
              /\ Len(sessions'[i].rows) \in 1..(MaxRows + 1)
  <2>1. CASE i \in DOMAIN sessions
    <3>1. sessions'[i] = sessions[i]
      BY <1>1, <1>9, <2>1
    <3>2. /\ sessions[i].account \in AccountIds
          /\ sessions[i].device \in DOMAIN devices
          /\ devices[sessions[i].device].account = sessions[i].account
          /\ sessions[i].via \in DOMAIN oauth
          /\ Len(sessions[i].rows) \in 1..(MaxRows + 1)
      BY <2>1 DEF SessionsInv
    <3>3. sessions[i].account \in AccountIds'
      BY <3>2 DEF AccountIds
    <3>4. sessions[i].device \in DOMAIN devices'
      BY <1>1, <1>3, <3>2
    <3>. QED
      BY <1>3, <3>1, <3>2, <3>3, <3>4
  <2>2. CASE i = Len(sessions) + 1
    <3>1. Len(<<"active">>) = 1 /\ 1 \in 1..(MaxRows + 1)
      BY IdentityBounds
    <3>. QED
      BY <1>3, <1>6, <1>9, <2>2, <3>1
  <2>. QED
    BY <1>10, <2>1, <2>2
<1>12. StateSignsInOnce'
  <2>. SUFFICES ASSUME NEW i \in DOMAIN sessions', NEW j \in DOMAIN sessions'
                PROVE  /\ oauth'[sessions'[i].via] = "consumed"
                       /\ sessions'[i].via = sessions'[j].via => i = j
    BY DEF StateSignsInOnce
  <2>1. \A k \in DOMAIN sessions : sessions'[k] = sessions[k]
    BY <1>1, <1>9
  <2>2. sessions'[Len(sessions) + 1].via = via
    BY <1>6, <1>9
  <2>. QED
    BY <1>10, <2>1, <2>2 DEF SessionsInv, StateSignsInOnce
<1>13. LogoutIsFinal'
  <2>. SUFFICES ASSUME NEW i \in DOMAIN sessions', NEW v \in DOMAIN sessions'[i].rows,
                       sessions'[i].rows[v] = "revoked"
                PROVE  v = Len(sessions'[i].rows)
    BY DEF LogoutIsFinal
  <2>1. CASE i \in DOMAIN sessions
    <3>1. sessions'[i] = sessions[i]
      BY <1>1, <1>9, <2>1
    <3>. QED
      BY <2>1, <3>1 DEF SessionsInv, LogoutIsFinal
  <2>2. CASE i = Len(sessions) + 1
    <3>1. sessions'[i].rows = <<"active">>
      BY <1>6, <1>9, <2>2
    <3>. QED
      BY <3>1
  <2>. QED
    BY <1>10, <2>1, <2>2
<1>14. SessionsInv'
  <2>1. Len(sessions') <= MaxSessions
    BY <1>1, <1>9, IdentityBounds
  <2>2. SessionTypes'
    BY <1>1, <1>3, <1>9 DEF SessionTypes
  <2>. QED
    BY <1>11, <1>12, <1>13, <2>1, <2>2 DEF SessionsInv
<1>. QED
  BY <1>1, <1>3, <1>6, <1>9, <1>14 DEF SessionStarted

(* A login writes its account, device and session, and answers with the first token. *)
LEMMA LoginKeeps == ASSUME IdInv, NEW t \in Tabs, Login(t) PROVE IdInv'
<1> DEFINE r == tab[t]
<1>1. /\ r.pc = "login" /\ r \in TabRecords /\ Alone(r)
      /\ UNCHANGED <<jar, apiVars, lost, workload>>
  BY DEF Login, IdInv, TabsInv
<1>2. r \in [pc : {"login"}, subject : Subjects, email : Emails, state : Nat, linked : BOOLEAN,
             account : Nat, device : Nat]
  BY <1>1, TabFields
<1>3. CASE UNCHANGED signVars /\ Goto(t, NoRequest)
  BY <1>1, <1>3, Refusal, ReadKeepsInv DEF Goto
<1>4. CASE UNCHANGED signVars /\ ~LoginUnique(r)
  BY <1>3, <1>4 DEF Login
<1>5. PICK a : a = IF r.account = 0 THEN Fresh ELSE r.account
  OBVIOUS
<1>6. PICK d : d = IF r.device = 0 THEN Len(devices) + 1 ELSE r.device
  OBVIOUS
<1>7. ASSUME LoginUnique(r), Len(sessions) < MaxSessions,
             accounts' = accounts \cup {[id |-> a, email |-> r.email]},
             identities' = identities \cup
                 {[subject |-> r.subject, email |-> r.email, account |-> a]},
             devices' = IF r.device # 0 THEN devices
                        ELSE Append(devices, [account |-> a, version |-> 1, active |-> TRUE]),
             sessions' = Append(sessions, [account |-> a, device |-> d, via |-> r.state,
                                 dv |-> IF r.device = 0 THEN 1 ELSE devices[r.device].version,
                                 expired |-> FALSE, rows |-> <<"active">>]),
             UNCHANGED oauth,
             Goto(t, [pc |-> "answer", cookies |->
                              [session |-> <<Len(sessions) + 1, 1>>, device |-> d, state |-> 0]])
      PROVE  IdInv'
  <2>1. /\ Decided(r) /\ r.state \in DOMAIN oauth /\ oauth[r.state] = "consumed"
        /\ \A i \in DOMAIN sessions : sessions[i].via # r.state
    BY <1>1 DEF Alone, Signing
  <2>2. PeopleInv' /\ a \in Nat \ {0} /\ a \in AccountIds'
    BY <1>2, <1>5, <1>7, <2>1, LoginPeople DEF IdInv
  <2>3. r.device # 0 => r.device \in DOMAIN devices /\ devices[r.device].account = a
    <3>. SUFFICES ASSUME r.device # 0
                  PROVE  r.device \in DOMAIN devices /\ devices[r.device].account = a
      OBVIOUS
    <3>1. r.device \in DOMAIN devices /\ devices[r.device].account = r.account
      BY <2>1 DEF Decided
    <3>2. devices[r.device] \in DeviceRecords
      BY <3>1, SessionLengths DEF IdInv, SessionsInv
    <3>3. r.account # 0
      BY <3>1, <3>2 DEF DeviceRecords
    <3>. QED
      BY <1>5, <3>1, <3>3
  <2>4. r.device \in Nat /\ accounts \subseteq accounts' /\ identities \subseteq identities'
    BY <1>2, <1>7
  <2>5. /\ SessionsInv' /\ d \in 1..Len(devices')
        /\ Len(sessions) \in Nat /\ Len(sessions') = Len(sessions) + 1
        /\ DOMAIN sessions = 1..Len(sessions) /\ DOMAIN sessions' = 1..(Len(sessions) + 1)
        /\ \A i \in DOMAIN sessions : sessions'[i] = sessions[i]
        /\ sessions'[Len(sessions) + 1].rows = <<"active">>
        /\ sessions'[Len(sessions) + 1].via = r.state
        /\ DOMAIN devices \subseteq DOMAIN devices' /\ 1..Len(devices) \subseteq 1..Len(devices')
        /\ \A i \in DOMAIN devices : devices'[i].account = devices[i].account
    <3>1. PICK device : device = r.device
      OBVIOUS
    <3>2. PICK via : via = r.state
      OBVIOUS
    <3>3. Starts(a, device, via, d)
      BY <1>6, <1>7, <2>1, <2>2, <2>3, <2>4, <3>1, <3>2 DEF Starts
    <3>. HIDE DEF r
    <3>4. SessionStarted(via, d)
      BY <3>3, LoginSession DEF IdInv
    <3>. QED
      BY <3>2, <3>4 DEF SessionStarted
  <2>6. Grown
    <3>1. DOMAIN sessions \subseteq DOMAIN sessions'
      BY <2>5
    <3>2. DOMAIN oauth = DOMAIN oauth' /\ oauth' = oauth
      BY <1>7
    <3>. QED
      BY <2>4, <2>5, <3>1, <3>2 DEF Grown
  <2>7. PICK n : n = Len(sessions) + 1
    OBVIOUS
  <2>8. PICK tok : tok = <<n, 1>>
    OBVIOUS
  <2>9. PICK q : q = [pc |-> "answer", cookies |-> [session |-> tok, device |-> d, state |-> 0]]
    OBVIOUS
  <2>10. /\ n \in Nat /\ tok \in Nat \X Nat /\ tok[1] = n /\ tok[2] = 1 /\ d \in Nat
         /\ n \notin DOMAIN sessions /\ n \in DOMAIN sessions'
    BY <2>5, <2>7, <2>8
  <2>11. /\ q \in TabRecords /\ q.pc = "answer" /\ q.cookies.session = tok /\ q.cookies.device = d
         /\ tab' = [tab EXCEPT ![t] = q]
    BY <1>7, <2>7, <2>8, <2>9, <2>10 DEF TabRecords, Cookies, Goto
  <2>12. Alone(q)'
    <3>1. sessions'[n].rows = <<"active">> /\ Len(<<"active">>) = 1 /\ 1 \in DOMAIN <<"active">>
      BY <2>5, <2>7
    <3>2. IsToken(tok)' /\ tok[2] = Len(sessions'[tok[1]].rows)
      BY <2>10, <3>1 DEF IsToken
    <3>3. jar'.session # None => jar'.session[1] # tok[1]
      BY <1>1, <2>10 DEF IdInv, JarInv, IsToken
    <3>4. Answers(q.cookies)'
      BY <2>5, <2>11, <3>2, <3>3 DEF Answers
    <3>. QED
      BY <2>11, <3>4 DEF Alone, Signing, Renewing
  <2>13. ASSUME NEW u \in Tabs \ {t}
         PROVE  /\ Compatible(tab[u], q) /\ Compatible(q, tab[u])
                /\ tab[u].pc \in Signing =>
                      \A i \in DOMAIN sessions' : sessions'[i].via # tab[u].state
                /\ (tab[u].pc = "answer" /\ tab[u].cookies.session # None) =>
                      Len(sessions'[tab[u].cookies.session[1]].rows)
                      = Len(sessions[tab[u].cookies.session[1]].rows)
    <3>1. Alone(tab[u]) /\ Compatible(tab[u], r)
      BY DEF IdInv, TabsInv
    <3>2. ASSUME tab[u].pc = "answer", tab[u].cookies.session # None
          PROVE  tab[u].cookies.session[1] \in DOMAIN sessions
      BY <3>1, <3>2 DEF Alone, Answers, IsToken
    <3>3. ASSUME tab[u].pc \in Renewing PROVE tab[u].token[1] \in DOMAIN sessions
      BY <3>1, <3>3 DEF Alone, IsToken
    <3>4. Compatible(tab[u], q) /\ Compatible(q, tab[u])
      BY <2>10, <2>11, <3>2, <3>3 DEF Compatible, Signing, Renewing
    <3>5. ASSUME tab[u].pc \in Signing, NEW i \in DOMAIN sessions'
          PROVE  sessions'[i].via # tab[u].state
      <4>1. tab[u].state # r.state /\ \A j \in DOMAIN sessions : sessions[j].via # tab[u].state
        BY <1>1, <3>1, <3>5 DEF Compatible, Alone, Signing
      <4>2. i \in DOMAIN sessions \/ i = n
        BY <2>5, <2>7
      <4>. QED
        BY <2>5, <2>7, <4>1, <4>2
    <3>. QED
      BY <2>5, <3>2, <3>4, <3>5
  <2>14. TabsInv'
    BY <1>1, <2>6, <2>11, <2>12, <2>13, WriteMoves DEF IdInv
  <2>15. JarInv'
    <3>1. tab'[t].pc = "answer"
      BY <2>11 DEF IdInv, TabsInv
    <3>2. NotLockedOut'
      BY <3>1 DEF NotLockedOut
    <3>3. jar.session # None => IsToken(jar.session)'
      <4>1. PICK p : p = jar.session
        OBVIOUS
      <4>2. p = jar'.session
        BY <1>1, <4>1
      <4>3. p # None => IsToken(p)'
        BY <2>6, <4>1, TokenStays DEF IdInv, JarInv
      <4>. QED
        BY <4>1, <4>2, <4>3 DEF IsToken
    <3>4. jar' \in [session : {None} \cup (Nat \X Nat), device : 0..Len(devices'), state : 0..Len(oauth')]
      <4>1. 0..Len(devices) \subseteq 0..Len(devices')
        <5>1. Len(devices) \in Nat /\ Len(devices') \in Nat
          BY <2>5, LenProperties DEF IdInv, SessionsInv, SessionTypes
        <5>. QED
          BY <2>5, <5>1
      <4>. QED
        BY <1>1, <1>7, <4>1 DEF IdInv, JarInv
    <3>. QED
      BY <1>1, <3>2, <3>3, <3>4 DEF IdInv, JarInv, IsToken
  <2>16. ApiInv'
    BY <1>1, ApiStays DEF IdInv
  <2>. QED
    BY <2>2, <2>5, <2>14, <2>15, <2>16 DEF IdInv
<1>. QED
  BY <1>3, <1>5, <1>6, <1>7 DEF Login

-----------------------------------------------------------------------------
(* Every installation satisfies the invariant at all times. *)
LEMMA IdentityInvariant == IdSpec => []IdInv
<1>1. IdInv /\ [IdNext]_idVars => IdInv'
  <2>. SUFFICES ASSUME IdInv, [IdNext]_idVars PROVE IdInv'
    OBVIOUS
  <2>1. CASE SessionExpires
    BY <2>1, SessionExpiresKeeps
  <2>2. ASSUME NEW t \in Tabs, TabStep(t) PROVE IdInv'
    <3>1. CASE GoogleStart(t) \/ Callback(t) \/ Consume(t) \/ Exchange(t) \/ Identify(t) \/ Login(t)
      BY <3>1, GoogleStartKeeps, CallbackKeeps, ConsumeKeeps, ExchangeKeeps, IdentifyKeeps, LoginKeeps
    <3>2. CASE SessionRequest(t, "rotate") \/ SessionRequest(t, "logout") \/ Rotate(t) \/ Logout(t)
      BY <3>2, SessionRequestKeeps, RotateKeeps, LogoutKeeps
    <3>3. CASE DeleteDevice(t) \/ RevokeDevice(t) \/ Answered(t) \/ AnswerLost(t)
      BY <3>3, DeleteDeviceKeeps, RevokeDeviceKeeps, AnsweredKeeps, AnswerLostKeeps
    <3>4. CASE ReadVersion(t) \/ UpdateVersion(t) \/ ReadKey(t) \/ Create(t)
      BY <3>4, ReadVersionKeeps, UpdateVersionKeeps, ReadKeyKeeps, CreateKeeps
    <3>. QED
      BY <2>2, <3>1, <3>2, <3>3, <3>4 DEF TabStep
  <2>3. CASE UNCHANGED idVars
    <3>1. /\ UNCHANGED <<signVars, jar, tab, apiVars, lost>>
          /\ UNCHANGED <<accounts, identities, oauth, devices, sessions>>
      BY <2>3 DEF idVars, signVars, apiVars
    <3>2. PeopleInv' /\ SessionsInv' /\ ApiInv'
      BY <3>1, RowsStay, ApiStays DEF IdInv
    <3>3. JarInv'
      BY <3>1 DEF IdInv, JarInv, NotLockedOut, IsToken
    <3>4. TabsInv'
      BY <3>1 DEF IdInv, TabsInv, Alone, Answers, Decided, IsToken
    <3>. QED
      BY <3>2, <3>3, <3>4 DEF IdInv
  <2>. QED
    BY <2>1, <2>2, <2>3 DEF IdNext
<1>. QED
  BY <1>1, IdInitInv, PTL DEF IdSpec

(* For any number of tabs, people, keys and lost answers, whatever requests  *)
(* overlap (platform/api/identity.py): one account for each person, one use  *)
(* of each sign-in state, no version or creation lost or doubled, no session *)
(* that comes back after its logout and no browser that is locked out.       *)
THEOREM IdentitySoundHolds == IdSpec => []IdentitySound
<1>1. IdInv => IdentitySound
  <2>. SUFFICES ASSUME IdInv PROVE IdentitySound
    OBVIOUS
  <2>0. /\ Len(sessions) \in Nat /\ DOMAIN sessions = 1..Len(sessions)
        /\ \A i \in DOMAIN sessions : DOMAIN sessions[i].rows = 1..Len(sessions[i].rows)
        /\ \A i \in DOMAIN sessions : sessions[i] \in SessionRecords
    BY SessionLengths DEF IdInv, SessionsInv
  <2>1. jar.session \in Tokens
    <3>1. CASE jar.session = None
      BY <3>1 DEF Tokens
    <3>2. CASE jar.session # None
      <4>1. jar.session \in Nat \X Nat /\ IsToken(jar.session)
        BY <3>2 DEF IdInv, JarInv
      <4>2. /\ jar.session[1] \in 1..Len(sessions) /\ Len(sessions) <= MaxSessions
            /\ jar.session[2] \in 1..Len(sessions[jar.session[1]].rows)
            /\ Len(sessions[jar.session[1]].rows) \in 1..(MaxRows + 1)
        BY <2>0, <4>1 DEF IsToken, IdInv, SessionsInv
      <4>3. jar.session[1] \in 1..MaxSessions /\ jar.session[2] \in 1..(MaxRows + 1)
            /\ jar.session[1] <= Len(sessions)
        BY <2>0, <4>2, IdentityBounds
      <4>4. jar.session \in (1..MaxSessions) \X (1..(MaxRows + 1))
        BY <4>1, <4>3
      <4>. QED
        BY <4>3, <4>4 DEF Tokens
    <3>. QED
      BY <3>1, <3>2
  <2>2. IdTypeOK
    <3>1. \A i \in identities : [id |-> i.account, email |-> i.email] \in accounts
      BY DEF IdInv, PeopleInv
    <3>2. \A i \in DOMAIN sessions :
             LET s == sessions[i] IN
             /\ s.account \in {a.id : a \in accounts} /\ s.device \in DOMAIN devices
             /\ devices[s.device].account = s.account /\ s.via \in DOMAIN oauth
      BY DEF IdInv, SessionsInv, AccountIds
    <3>3. jar.device \in 0..Len(devices) /\ jar.state \in 0..Len(oauth)
      BY DEF IdInv, JarInv
    <3>. QED
      BY <2>1, <3>1, <3>2, <3>3 DEF IdTypeOK
  <2>3. OneAccountEach /\ StateSignsInOnce /\ LogoutIsFinal /\ NotLockedOut
    BY DEF IdInv, PeopleInv, SessionsInv, JarInv
  <2>4. NoLostUpdate
    BY DEF IdInv, ApiInv, NoLostUpdate
  <2>5. CreatedOnce
    BY DEF IdInv, ApiInv, CreatedOnce
  <2>6. OneLiveToken
    <3>. SUFFICES ASSUME NEW a \in Tokens \ {None}, NEW b \in Tokens \ {None},
                         Authenticates(a), Authenticates(b), a[1] = b[1]
                  PROVE  a = b
      BY DEF OneLiveToken
    <3>1. a[2] = b[2]
      BY DEF Authenticates
    <3>2. a \in (1..MaxSessions) \X (1..(MaxRows + 1)) /\ b \in (1..MaxSessions) \X (1..(MaxRows + 1))
      BY DEF Tokens
    <3>. QED
      BY <3>1, <3>2
  <2>. QED
    BY <2>2, <2>3, <2>4, <2>5, <2>6 DEF IdentitySound
<1>. QED
  BY <1>1, IdentityInvariant, PTL

(*****************************************************************************)
(* The anchored authority                                                    *)
(*****************************************************************************)

IntentStates == {"prepared", "anchor_reserved", "db_committed", "anchor_finalized", "quarantined"}
Applied == {"db_committed", "anchor_finalized"}
CheckpointStates ==
    {"none", "prepared", "authority_finalized", "binding_persisted", "complete", "quarantined"}
Trailed == {"authority_finalized", "binding_persisted", "complete"}

(* The places of an attempt: with an intent of its own still in memory, with *)
(* one that is stored, behind its checkpoint, its commitments, its           *)
(* finalization and its trail.                                               *)
Early == {"receipt", "record", "append", "plan"}
Reserving == {"reserve", "reserved"}
Checkpointing == {"checkpoint", "newcheckpoint"}
Committing == {"project", "commitments", "newcommitments", "quarantine", "quarantine2", "quarantine3"}
Finalizing == {"commit", "finalize", "finalized"}
Trailing == {"trail", "binding", "newbinding", "bind", "finish", "invalid", "heads", "seal", "complete"}
Done == {"heads", "seal", "complete"}
Stored == Reserving \cup Checkpointing \cup Committing \cup Finalizing \cup Trailing

\* The rows of an intent after the step that had read it in state then.
Reaches(now, then) ==
    \/ now = then
    \/ now = "quarantined" /\ then # "anchor_finalized"
    \/ then = "prepared" /\ now \in {"anchor_reserved", "db_committed", "anchor_finalized"}
    \/ then = "anchor_reserved" /\ now \in {"db_committed", "anchor_finalized"}
    \/ then = "db_committed" /\ now = "anchor_finalized"

IntentFields == {"state", "prior", "priorRoot", "root"}
AttemptFields == {"pc", "req", "view", "fresh", "intent", "receipt", "checkpoint", "heads"}
TableNames ==
    {"authority", "intents", "receipts", "checkpoints", "bindings", "projects", "envelopes",
     "snapshots", "commitments"}
SealFields == {"generation", "root", "pending", "pendingRoot", "heads", "pendingHeads", "last"}
SamePlan(i, m) == i.prior = m.prior /\ i.priorRoot = m.priorRoot /\ i.root = m.root
Tied(i) ==
    /\ i.prior + 1 \in 0..Cardinality(Requests)
    /\ authDb.commitments[i.prior + 1] \in {i.root, Tampered}

(* What an attempt remembers of a stored intent is still so, but for steps   *)
(* that the intent has taken since.                                          *)
Remembers(r, m) ==
    /\ DOMAIN m = IntentFields
    /\ m.state \in IntentStates /\ authDb.intents[r].state \in IntentStates
    /\ SamePlan(authDb.intents[r], m)
    /\ Reaches(authDb.intents[r].state, m.state)
    /\ m.state \in Applied => m.prior < authDb.authority.generation

AuthorityOK(a) ==
    /\ DOMAIN a = {"generation", "root", "state", "version"}
    /\ a.generation \in Nat /\ a.version \in Nat /\ a.root \in Roots
AttemptInv(at) ==
    LET r == at.req
        m == at.intent
        pc == at.pc
    IN
    /\ DOMAIN at = AttemptFields
    /\ pc # "idle" => r \in Requests
    /\ pc = "authority" => m = NoIntent \/ Remembers(r, m)
    /\ pc \in Early =>
          /\ at.fresh \in BOOLEAN /\ AuthorityOK(at.view)
          /\ at.fresh => /\ DOMAIN m = IntentFields /\ m.state = "prepared"
                         /\ m.prior \in Nat /\ m.priorRoot \in Roots
          /\ ~at.fresh => Remembers(r, m) /\ m.state # "quarantined"
    /\ pc = "prepare" => m \in [state : {"prepared"}, prior : Nat, priorRoot : Roots, root : Roots]
    /\ pc \in Stored => Remembers(r, m) /\ m.state # "quarantined"
    /\ pc \in Reserving => m.state = "prepared"
    /\ pc = "reserved" /\ authDb.intents[r].state = "prepared" => sealed.pending = r
    /\ pc \in Stored \ Reserving => m.state # "prepared"
    /\ pc = "commit" => m.state = "anchor_reserved"
    /\ pc = "finalized" => m.state = "db_committed" /\ m.prior < sealed.generation
    /\ pc \in Trailing => m.state = "anchor_finalized"
    /\ pc \in {"plan", "prepare"} \cup Stored =>
          at.receipt \in DOMAIN authDb.receipts /\ authDb.receipts[at.receipt].of = r
    /\ pc \in Committing \cup Finalizing \cup Trailing =>
          /\ authDb.checkpoints[r].state # "none" /\ authDb.checkpoints[r].receipt = at.receipt
          /\ at.checkpoint = "complete" => authDb.checkpoints[r].state = "complete"
    /\ pc \in (Committing \ {"project"}) \cup Finalizing \cup Trailing => r \in authDb.projects
    /\ pc \in Finalizing \cup Trailing => Tied(m)
    /\ pc \in Done => authDb.checkpoints[r].state = "complete" /\ authDb.bindings[r] # 0

(* The tables and the keyring. *)
RowsType ==
    /\ DOMAIN authDb = TableNames
    /\ AuthorityOK(authDb.authority)
    /\ authDb.intents \in [Requests -> {NoIntent} \cup
           [state : IntentStates, prior : Nat, priorRoot : Roots, root : Roots]]
    /\ authDb.receipts \in Seq([of : Requests \cup {NoValue}, generation : Nat])
    /\ authDb.checkpoints \in [Requests -> [state : CheckpointStates, receipt : Nat]]
    /\ authDb.bindings \in [Requests -> Nat]
    /\ authDb.projects \in SUBSET Requests
    /\ authDb.envelopes \in [Requests -> {"none", "in_progress", "succeeded"}]
    /\ authDb.snapshots \in SUBSET Requests
    /\ authDb.commitments \in [0..Cardinality(Requests) -> Roots \cup {NoValue, Tampered}]
SealType ==
    /\ DOMAIN sealed = SealFields
    /\ sealed.generation \in Nat /\ sealed.root \in Roots
    /\ sealed.pending \in Requests \cup {NoValue} /\ sealed.last \in Requests \cup {NoValue}

(* One intent is in flight, and where it stands is where the authority is;   *)
(* the committed ones are its history, and each of its generations was       *)
(* somebody's.                                                               *)
ChainInv ==
    /\ \A r \in Requests : authDb.intents[r].state # "none" => authDb.intents[r].prior <= authDb.authority.generation
    /\ \A q, r \in Requests : q # r /\ authDb.intents[q].state \in InFlight => authDb.intents[r].state \notin InFlight
    /\ \A r \in Requests : authDb.intents[r].state \in {"prepared", "anchor_reserved"} =>
          authDb.intents[r].prior = authDb.authority.generation /\ authDb.intents[r].priorRoot = authDb.authority.root
    /\ \A r \in Requests : authDb.intents[r].state = "db_committed" =>
          /\ authDb.intents[r].prior + 1 = authDb.authority.generation
          /\ \A q \in Requests \ {r} : authDb.intents[q].state # "none" => authDb.intents[q].prior < authDb.authority.generation
    /\ \A r \in Requests : Committed(r) =>
          /\ authDb.intents[r].prior < authDb.authority.generation
          /\ authDb.intents[r].prior + 1 = authDb.authority.generation => authDb.intents[r].root = authDb.authority.root
          /\ \A q \in Requests \ {r} : Committed(q) =>
                /\ authDb.intents[q].prior # authDb.intents[r].prior
                /\ authDb.intents[r].prior = authDb.intents[q].prior + 1 => authDb.intents[r].priorRoot = authDb.intents[q].root
    /\ \A g \in Nat : g < authDb.authority.generation =>
          \E r \in Requests : authDb.intents[r].prior = g /\ authDb.intents[r].state \in {"db_committed", "anchor_finalized", "quarantined"}

(* The keyring is with the authority, or one behind it for the pending       *)
(* intent.                                                                   *)
Level == sealed.generation = authDb.authority.generation /\ sealed.root = authDb.authority.root
Behind(i) == sealed.generation + 1 = authDb.authority.generation /\ i.root = authDb.authority.root
SealInv ==
    /\ sealed.pending = NoValue => Level
    /\ sealed.pending # NoValue =>
          LET i == authDb.intents[sealed.pending] IN
          /\ i.state \in IntentStates \ {"anchor_finalized"}
          /\ i.prior = sealed.generation /\ i.priorRoot = sealed.root /\ i.root = sealed.pendingRoot
          /\ i.state \in {"prepared", "anchor_reserved"} => Level
          /\ i.state = "db_committed" => Behind(i)
          /\ i.state = "quarantined" => Level \/ Behind(i)
    /\ \A r \in Requests : authDb.intents[r].state = "anchor_reserved" => sealed.pending = r
    /\ \A r \in Requests : authDb.intents[r].state = "db_committed" =>
          sealed.pending = r \/ sealed.pending = NoValue
    /\ \A r \in Requests : authDb.intents[r].state = "anchor_finalized" => authDb.intents[r].prior < sealed.generation
    /\ sealed.last # NoValue => /\ authDb.intents[sealed.last].state \in IntentStates
                                /\ authDb.intents[sealed.last].prior < sealed.generation

(* Receipt, checkpoint, commitments and binding of a request.                *)
TrailInv ==
    /\ \A r \in Requests : authDb.checkpoints[r].state # "none" =>
          authDb.checkpoints[r].receipt \in DOMAIN authDb.receipts /\ authDb.receipts[authDb.checkpoints[r].receipt].of = r
    /\ \A r \in Requests : authDb.checkpoints[r].state \in Trailed =>
          authDb.intents[r].state = "anchor_finalized" /\ Tied(authDb.intents[r])
    /\ \A r \in Requests : authDb.bindings[r] # 0 =>
          authDb.checkpoints[r].state # "none" /\ authDb.checkpoints[r].receipt = authDb.bindings[r]
    /\ \A r \in Requests : authDb.envelopes[r] = "succeeded" => Visible(r)

StoreInv == RowsType /\ SealType /\ ChainInv /\ SealInv /\ TrailInv

(* What the attempts know. *)
InProgress == {attempt[p] : p \in Procs}
AttemptsInv == DOMAIN attempt = Procs /\ \A at \in InProgress : AttemptInv(at)
AuthInv == StoreInv /\ AttemptsInv

-----------------------------------------------------------------------------
(* The roots of any rows are roots.                                          *)
LEMMA RootType ==
    ASSUME NEW a, a.generation \in Nat, a.version \in Nat, NEW projects \in SUBSET Requests,
           NEW intents \in SUBSET Requests, NEW tables, Len(tables.receipts) \in Nat,
           tables.snapshots \in SUBSET Requests
    PROVE  Root(a, projects, intents, tables) \in Roots
BY DEF Root, Roots

(* A workspace satisfies the invariant when it is set up.                    *)
LEMMA AuthInitInv == AuthInit => AuthInv
<1>. SUFFICES ASSUME AuthInit PROVE AuthInv
  OBVIOUS
<1>1. GenesisRoot \in Roots
  <2>1. Len(GenesisRows.receipts) \in Nat /\ GenesisRows.snapshots \in SUBSET Requests
    BY DEF GenesisRows
  <2>. QED
    BY <2>1, RootType DEF GenesisRoot
<1>2. Cardinality(Requests) \in Nat
  BY AuthAssumption, FS_CardinalityType
<1>3. /\ authDb = [authority |-> [generation |-> 0, root |-> GenesisRoot, state |-> "active", version |-> 1],
             intents |-> [r \in Requests |-> NoIntent], receipts |-> <<>>,
             checkpoints |-> [r \in Requests |-> NoCheckpoint], bindings |-> [r \in Requests |-> 0],
             projects |-> {}, envelopes |-> [r \in Requests |-> "none"], snapshots |-> {},
             commitments |-> [g \in 0..Cardinality(Requests) |-> IF g = 0 THEN GenesisRoot ELSE NoValue]]
      /\ sealed = [generation |-> 0, root |-> GenesisRoot, pending |-> NoValue, pendingRoot |-> NoValue,
                 heads |-> GenesisHeads, pendingHeads |-> NoValue, last |-> NoValue]
      /\ attempt = [p \in Procs |-> NoAttempt]
  BY DEF AuthInit
<1>4. /\ authDb.authority.generation = 0 /\ authDb.authority.root = GenesisRoot
      /\ \A r \in Requests : /\ authDb.intents[r].state = "none"
                             /\ authDb.checkpoints[r].state = "none"
                             /\ authDb.bindings[r] = 0 /\ authDb.envelopes[r] = "none"
      /\ sealed.pending = NoValue /\ sealed.last = NoValue
      /\ sealed.generation = 0 /\ sealed.root = GenesisRoot
  BY <1>3 DEF NoIntent, NoCheckpoint
<1>5. RowsType
  <2>1. AuthorityOK(authDb.authority) /\ DOMAIN authDb = TableNames
    BY <1>1, <1>3 DEF AuthorityOK, TableNames
  <2>2. authDb.receipts \in Seq([of : Requests \cup {NoValue}, generation : Nat])
    BY <1>3
  <2>3. authDb.commitments \in [0..Cardinality(Requests) -> Roots \cup {NoValue, Tampered}]
    BY <1>1, <1>3
  <2>. QED
    BY <1>3, <2>1, <2>2, <2>3 DEF RowsType, NoIntent, NoCheckpoint, CheckpointStates
<1>6. SealType
  BY <1>1, <1>3 DEF SealType, SealFields
<1>7. ChainInv
  BY <1>4 DEF ChainInv, Committed, InFlight
<1>8. SealInv
  BY <1>4, AuthAssumption DEF SealInv, Level
<1>9. TrailInv
  BY <1>4 DEF TrailInv, Trailed
<1>10. AttemptsInv
  <2>1. \A at \in InProgress : at = NoAttempt
    BY <1>3 DEF InProgress
  <2>2. AttemptInv(NoAttempt)
    BY DEF AttemptInv, NoAttempt, AttemptFields, Early, Stored, Reserving, Checkpointing, Committing,
           Finalizing, Trailing, Done
  <2>. QED
    BY <1>3, <2>1, <2>2 DEF AttemptsInv
<1>. QED
  BY <1>5, <1>6, <1>7, <1>8, <1>9, <1>10 DEF AuthInv, StoreInv

(* The stored state has what is promised of it.                              *)
LEMMA StoreIsSound == StoreInv => AnchorSound
<1>. SUFFICES ASSUME StoreInv PROVE AnchorSound
  OBVIOUS
<1>1. RowsType /\ SealType /\ ChainInv /\ SealInv /\ TrailInv
  BY DEF StoreInv
<1>2. AnchorFollowsDatabase
  <2>1. \/ sealed.generation = authDb.authority.generation /\ sealed.root = authDb.authority.root
        \/ /\ sealed.generation + 1 = authDb.authority.generation
           /\ sealed.pending # NoValue
           /\ authDb.intents[sealed.pending].state \in {"db_committed", "quarantined"}
           /\ authDb.intents[sealed.pending].root = authDb.authority.root
    BY <1>1 DEF SealInv, Level, Behind, IntentStates
  <2>2. \A r \in Requests : authDb.intents[r].state = "anchor_finalized" => sealed.generation > authDb.intents[r].prior
    <3>. SUFFICES ASSUME NEW r \in Requests, authDb.intents[r].state = "anchor_finalized"
                  PROVE  sealed.generation > authDb.intents[r].prior
      OBVIOUS
    <3>1. authDb.intents[r].prior < sealed.generation
      BY <1>1 DEF SealInv
    <3>2. authDb.intents[r].prior \in Nat /\ sealed.generation \in Nat
      BY <1>1 DEF RowsType, NoIntent, SealType
    <3>. QED
      BY <3>1, <3>2
  <2>3. \A q, r \in Requests : q # r =>
          /\ ~(authDb.intents[q].state \in InFlight /\ authDb.intents[r].state \in InFlight)
          /\ Committed(q) /\ Committed(r) =>
                /\ authDb.intents[q].prior # authDb.intents[r].prior
                /\ authDb.intents[r].prior = authDb.intents[q].prior + 1 => authDb.intents[r].priorRoot = authDb.intents[q].root
    BY <1>1 DEF ChainInv
  <2>. QED
    BY <2>1, <2>2, <2>3 DEF AnchorFollowsDatabase
<1>3. CreatedIsAnchored
  <2>. SUFFICES ASSUME NEW r \in Requests
                PROVE  /\ Visible(r) =>
                            /\ authDb.intents[r].state = "anchor_finalized"
                            /\ sealed.generation > authDb.intents[r].prior
                            /\ authDb.commitments[authDb.intents[r].prior + 1] \in {authDb.intents[r].root, Tampered}
                       /\ authDb.envelopes[r] = "succeeded" => Visible(r)
    BY DEF CreatedIsAnchored
  <2>1. Visible(r) => authDb.intents[r].state = "anchor_finalized" /\ Tied(authDb.intents[r])
    BY <1>1 DEF Visible, TrailInv, Trailed
  <2>2. authDb.intents[r].state = "anchor_finalized" => sealed.generation > authDb.intents[r].prior
    BY <1>2 DEF AnchorFollowsDatabase
  <2>. QED
    BY <1>1, <2>1, <2>2 DEF Tied, TrailInv
<1>4. OneAuditTrail
  BY <1>1 DEF OneAuditTrail, TrailInv
<1>. QED
  BY <1>2, <1>3, <1>4 DEF AnchorSound

-----------------------------------------------------------------------------
(* What every step does to the rows an attempt has read: generations grow,   *)
(* and a stored intent keeps its plan and goes forward;                      *)
AnchorGrows ==
    /\ authDb.authority.generation <= authDb'.authority.generation
    /\ sealed.generation <= sealed'.generation
    /\ authDb'.authority.generation \in Nat /\ sealed'.generation \in Nat
    /\ \A r \in Requests :
          /\ authDb.intents[r].state \in IntentStates =>
                /\ authDb'.intents[r].state \in IntentStates
                /\ SamePlan(authDb'.intents[r], authDb.intents[r])
                /\ Reaches(authDb'.intents[r].state, authDb.intents[r].state)
          /\ authDb'.intents[r].state = "prepared" /\ sealed.pending = r => sealed'.pending = r

(* receipts are appended, and what was written is not taken away.            *)
TablesGrow ==
    /\ \A r \in Requests :
          /\ authDb.checkpoints[r].state # "none" =>
                /\ authDb'.checkpoints[r].state # "none"
                /\ authDb'.checkpoints[r].receipt = authDb.checkpoints[r].receipt
                /\ authDb.checkpoints[r].state = "complete" => authDb'.checkpoints[r].state = "complete"
          /\ authDb.bindings[r] # 0 => authDb'.bindings[r] # 0
          /\ r \in authDb.projects => r \in authDb'.projects
    /\ \A i \in DOMAIN authDb.receipts :
          i \in DOMAIN authDb'.receipts /\ authDb'.receipts[i] = authDb.receipts[i]
    /\ \A g \in 0..Cardinality(Requests) :
          authDb.commitments[g] # NoValue => authDb'.commitments[g] \in {authDb.commitments[g], Tampered}
Evolved == AnchorGrows /\ TablesGrow

(* A step that writes nothing. *)
LEMMA NothingEvolves == ASSUME StoreInv, UNCHANGED <<authDb, sealed>> PROVE Evolved
<1>1. authDb.authority.generation \in Nat /\ sealed.generation \in Nat
  BY DEF StoreInv, RowsType, SealType, AuthorityOK
<1>. QED
  BY <1>1 DEF Evolved, AnchorGrows, TablesGrow, SamePlan, Reaches

(* Two steps of an intent are one way forward.                               *)
LEMMA ReachesOn ==
    ASSUME NEW a, NEW b, NEW c, Reaches(a, b), Reaches(b, c)
    PROVE  Reaches(a, c)
BY DEF Reaches

(* The rows of an intent that is stored, and what was read of them.          *)
LEMMA IntentTypes ==
    ASSUME RowsType, NEW r \in Requests, authDb.intents[r].state # "none"
    PROVE  authDb.intents[r] \in [state : IntentStates, prior : Nat, priorRoot : Roots, root : Roots]
<1>1. authDb.intents[r] \in {NoIntent} \cup
           [state : IntentStates, prior : Nat, priorRoot : Roots, root : Roots]
  BY DEF RowsType
<1>. QED
  BY <1>1 DEF NoIntent

(* The plan that an attempt remembers has the types of a stored one.         *)
LEMMA RememberedTypes ==
    ASSUME RowsType, NEW r \in Requests, NEW m, Remembers(r, m)
    PROVE  m.prior \in Nat /\ m.root \in Roots /\ m.priorRoot \in Roots
<1>1. authDb.intents[r].state \in IntentStates /\ SamePlan(authDb.intents[r], m)
  BY DEF Remembers
<1>2. authDb.intents[r].state # "none"
  BY <1>1 DEF IntentStates
<1>3. authDb.intents[r] \in [state : IntentStates, prior : Nat, priorRoot : Roots, root : Roots]
  BY <1>2, IntentTypes
<1>. QED
  BY <1>1, <1>3 DEF SamePlan

(* What an attempt remembers is so after the step of another one.            *)
LEMMA RememberedStays ==
    ASSUME StoreInv, Evolved, NEW r \in Requests, NEW m, Remembers(r, m)
    PROVE  Remembers(r, m)'
<1>1. /\ DOMAIN m = IntentFields /\ m.state \in IntentStates
      /\ authDb.intents[r].state \in IntentStates
      /\ SamePlan(authDb.intents[r], m) /\ Reaches(authDb.intents[r].state, m.state)
      /\ m.state \in Applied => m.prior < authDb.authority.generation
  BY DEF Remembers
<1>2. /\ authDb'.intents[r].state \in IntentStates
      /\ SamePlan(authDb'.intents[r], authDb.intents[r])
      /\ Reaches(authDb'.intents[r].state, authDb.intents[r].state)
  BY <1>1 DEF Evolved, AnchorGrows, TablesGrow
<1>3. SamePlan(authDb'.intents[r], m)
  BY <1>1, <1>2 DEF SamePlan
<1>4. Reaches(authDb'.intents[r].state, m.state)
  BY <1>1, <1>2, ReachesOn
<1>5. m.state \in Applied => m.prior < authDb'.authority.generation
  <2>1. authDb.intents[r].prior \in Nat /\ m.prior = authDb.intents[r].prior
    BY <1>1 DEF StoreInv, RowsType, SamePlan, NoIntent
  <2>2. authDb.authority.generation \in Nat /\ authDb'.authority.generation \in Nat
        /\ authDb.authority.generation <= authDb'.authority.generation
    BY DEF StoreInv, RowsType, AuthorityOK, Evolved, AnchorGrows, TablesGrow
  <2>. QED
    BY <1>1, <2>1, <2>2
<1>. QED
  BY <1>1, <1>2, <1>3, <1>4, <1>5 DEF Remembers

(* Commitments stay those of a plan or become nobody's.                      *)
LEMMA TiedStays ==
    ASSUME Evolved, NEW i, i.root \in Roots, Tied(i)
    PROVE  Tied(i)'
<1>1. i.root # NoValue /\ Tampered # NoValue
  BY AuthAssumption
<1>. QED
  BY <1>1 DEF Evolved, AnchorGrows, TablesGrow, Tied

(* So an attempt that is not at work stays where the invariant has it.       *)
LEMMA AttemptStays ==
    ASSUME StoreInv, Evolved, NEW at, AttemptInv(at)
    PROVE  AttemptInv(at)'
<1> DEFINE r == at.req
           m == at.intent
           pc == at.pc
<1>1. /\ DOMAIN at = AttemptFields /\ (pc # "idle" => r \in Requests)
      /\ (pc \in Early => at.fresh \in BOOLEAN /\ AuthorityOK(at.view))
      /\ (pc \in Early => (at.fresh => /\ DOMAIN m = IntentFields /\ m.state = "prepared"
                                       /\ m.prior \in Nat /\ m.priorRoot \in Roots))
      /\ (pc = "prepare" => m \in [state : {"prepared"}, prior : Nat, priorRoot : Roots, root : Roots])
      /\ (pc \in Reserving => m.state = "prepared")
      /\ (pc \in Stored \ Reserving => m.state # "prepared")
      /\ (pc = "commit" => m.state = "anchor_reserved")
      /\ (pc \in Trailing => m.state = "anchor_finalized")
      /\ (pc \in Stored => m.state # "quarantined")
  BY DEF AttemptInv
<1>2. pc = "authority" => m = NoIntent \/ Remembers(r, m)'
  BY <1>1, RememberedStays DEF AttemptInv
<1>3. pc \in Early => (~at.fresh => Remembers(r, m)' /\ m.state # "quarantined")
  BY <1>1, RememberedStays DEF AttemptInv, Early
<1>4. pc \in Stored => Remembers(r, m)'
  BY <1>1, RememberedStays DEF AttemptInv, Stored, Reserving, Checkpointing, Committing, Finalizing, Trailing
<1>5. pc = "reserved" /\ authDb'.intents[r].state = "prepared" => sealed'.pending = r
  <2>. SUFFICES ASSUME pc = "reserved", authDb'.intents[r].state = "prepared" PROVE sealed'.pending = r
    OBVIOUS
  <2>1. Remembers(r, m) /\ r \in Requests
    BY <1>1 DEF AttemptInv, Stored, Reserving
  <2>2. authDb.intents[r].state = "prepared"
    BY <2>1 DEF Remembers, Evolved, AnchorGrows, TablesGrow, Reaches
  <2>3. sealed.pending = r
    BY <2>2 DEF AttemptInv
  <2>. QED
    BY <2>1, <2>3 DEF Evolved, AnchorGrows, TablesGrow
<1>6. pc = "finalized" => m.state = "db_committed" /\ m.prior < sealed'.generation
  <2>. SUFFICES ASSUME pc = "finalized" PROVE m.state = "db_committed" /\ m.prior < sealed'.generation
    OBVIOUS
  <2>1. Remembers(r, m) /\ r \in Requests /\ m.state = "db_committed" /\ m.prior < sealed.generation
    BY <1>1 DEF AttemptInv, Stored, Finalizing
  <2>2. m.prior \in Nat /\ sealed.generation \in Nat /\ sealed'.generation \in Nat
        /\ sealed.generation <= sealed'.generation
    BY <2>1, RememberedTypes DEF StoreInv, SealType, Evolved, AnchorGrows, TablesGrow
  <2>. QED
    BY <2>1, <2>2
<1>7. pc \in {"plan", "prepare"} \cup Stored =>
          at.receipt \in DOMAIN authDb'.receipts /\ authDb'.receipts[at.receipt].of = r
  BY DEF AttemptInv, Evolved, AnchorGrows, TablesGrow
<1>8. pc \in Committing \cup Finalizing \cup Trailing =>
          /\ authDb'.checkpoints[r].state # "none" /\ authDb'.checkpoints[r].receipt = at.receipt
          /\ at.checkpoint = "complete" => authDb'.checkpoints[r].state = "complete"
  BY <1>1 DEF AttemptInv, Evolved, AnchorGrows, TablesGrow, Committing, Finalizing, Trailing
<1>9. pc \in (Committing \ {"project"}) \cup Finalizing \cup Trailing => r \in authDb'.projects
  BY <1>1 DEF AttemptInv, Evolved, AnchorGrows, TablesGrow, Committing, Finalizing, Trailing
<1>10. pc \in Finalizing \cup Trailing => Tied(m)'
  <2>. SUFFICES ASSUME pc \in Finalizing \cup Trailing PROVE Tied(m)'
    OBVIOUS
  <2>1. Tied(m) /\ Remembers(r, m) /\ r \in Requests
    BY <1>1 DEF AttemptInv, Finalizing, Trailing, Stored
  <2>2. m.root \in Roots
    BY <2>1, RememberedTypes DEF StoreInv
  <2>. QED
    BY <2>1, <2>2, TiedStays
<1>11. pc \in Done => authDb'.checkpoints[r].state = "complete" /\ authDb'.bindings[r] # 0
  BY <1>1 DEF AttemptInv, Evolved, AnchorGrows, TablesGrow, Done
<1>. QED
  BY <1>1, <1>2, <1>3, <1>4, <1>5, <1>6, <1>7, <1>8, <1>9, <1>10, <1>11 DEF AttemptInv, AuthorityOK

(* One attempt goes on and the others stay.                                  *)
LEMMA AttemptMoves ==
    ASSUME StoreInv, AttemptsInv, Evolved, NEW p \in Procs, NEW at, AttemptInv(at)',
           attempt' = [attempt EXCEPT ![p] = at]
    PROVE  AttemptsInv'
<1>1. DOMAIN attempt = Procs /\ \A q \in Procs : attempt[q] \in InProgress
  BY DEF AttemptsInv, InProgress
<1>2. \A x \in InProgress' : x = at \/ x \in InProgress
  <2>. SUFFICES ASSUME NEW q \in Procs PROVE attempt'[q] = at \/ attempt'[q] \in InProgress
    BY DEF InProgress
  <2>. QED
    BY <1>1
<1>3. \A x \in InProgress : AttemptInv(x)'
  BY AttemptStays DEF AttemptsInv
<1>4. \A x \in InProgress' : AttemptInv(x)'
  BY <1>2, <1>3
<1>5. DOMAIN attempt' = Procs
  BY <1>1
<1>. QED
  BY <1>4, <1>5 DEF AttemptsInv

(* A step that is nobody's attempt leaves them where the invariant has them. *)
LEMMA AttemptsStay ==
    ASSUME StoreInv, AttemptsInv, Evolved, UNCHANGED attempt
    PROVE  AttemptsInv'
<1>1. InProgress' = InProgress /\ DOMAIN attempt' = Procs
  BY DEF AttemptsInv, InProgress
<1>2. \A x \in InProgress : AttemptInv(x)'
  BY AttemptStays DEF AttemptsInv
<1>3. \A x \in InProgress' : AttemptInv(x)'
  BY <1>1, <1>2
<1>. QED
  BY <1>1, <1>3 DEF AttemptsInv

-----------------------------------------------------------------------------
(* Steps of one attempt                                                      *)

(* What is stored stays sound when nothing is written.                       *)
LEMMA StoreStays == ASSUME StoreInv, UNCHANGED <<authDb, sealed>> PROVE StoreInv'
<1>1. RowsType' /\ SealType'
  BY DEF StoreInv, RowsType, SealType, AuthorityOK
<1>2. ChainInv'
  BY DEF StoreInv, ChainInv, Committed
<1>3. SealInv'
  BY DEF StoreInv, SealInv, Level, Behind
<1>4. TrailInv'
  BY DEF StoreInv, TrailInv, Tied, Visible
<1>. QED
  BY <1>1, <1>2, <1>3, <1>4 DEF StoreInv

(* A step that only reads.                                                   *)
LEMMA ReadKeeps ==
    ASSUME AuthInv, UNCHANGED <<authDb, sealed>>, NEW p \in Procs, NEW at, AttemptInv(at),
           attempt' = [attempt EXCEPT ![p] = at]
    PROVE  AuthInv'
<1>1. StoreInv' /\ Evolved
  BY StoreStays, NothingEvolves DEF AuthInv
<1>2. AttemptInv(at)'
  BY <1>1, AttemptStays DEF AuthInv
<1>. QED
  BY <1>1, <1>2, AttemptMoves DEF AuthInv

(* A step that writes.                                                       *)
LEMMA WriteKeeps ==
    ASSUME AuthInv, Evolved, StoreInv', NEW p \in Procs, NEW at, AttemptInv(at)',
           attempt' = [attempt EXCEPT ![p] = at]
    PROVE  AuthInv'
BY AttemptMoves DEF AuthInv

(* An attempt that is over.                                                  *)
LEMMA OverInv == AttemptInv(NoAttempt)
BY DEF AttemptInv, NoAttempt, AttemptFields, Early, Stored, Reserving, Checkpointing, Committing,
       Finalizing, Trailing, Done

(* An attempt that is refused ends and leaves what it has written.           *)
LEMMA RefuseKeeps == ASSUME AuthInv, NEW p \in Procs, Refuse(p) PROVE AuthInv'
BY OverInv, ReadKeeps DEF Refuse, Reply

(* What an attempt is, and one that goes on to the next place.               *)
LEMMA AttemptIs ==
    ASSUME AuthInv, NEW p \in Procs
    PROVE  AttemptInv(attempt[p]) /\ DOMAIN attempt = Procs /\ DOMAIN attempt[p] = AttemptFields
<1>1. attempt[p] \in InProgress
  BY DEF InProgress
<1>. QED
  BY <1>1 DEF AuthInv, AttemptsInv, AttemptInv

SameBut(at, old, fields) ==
    /\ DOMAIN at = AttemptFields
    /\ "req" \notin fields => at.req = old.req
    /\ "view" \notin fields => at.view = old.view
    /\ "fresh" \notin fields => at.fresh = old.fresh
    /\ "intent" \notin fields => at.intent = old.intent
    /\ "receipt" \notin fields => at.receipt = old.receipt
    /\ "checkpoint" \notin fields => at.checkpoint = old.checkpoint

(* An attempt that goes on changes its place and nothing else.               *)
LEMMA Proceeds ==
    ASSUME AuthInv, NEW p \in Procs, NEW pc, Proceed(p, pc)
    PROVE  \E at : /\ attempt' = [attempt EXCEPT ![p] = at]
                   /\ SameBut(at, attempt[p], {}) /\ at.pc = pc
<1>1. DOMAIN attempt = Procs /\ DOMAIN attempt[p] = AttemptFields
  BY AttemptIs
<1>2. PICK at : at = [attempt[p] EXCEPT !.pc = pc]
  OBVIOUS
<1>3. attempt' = [attempt EXCEPT ![p] = at]
  BY <1>2 DEF Proceed
<1>4. SameBut(at, attempt[p], {}) /\ at.pc = pc
  BY <1>1, <1>2 DEF SameBut, AttemptFields
<1>. QED
  BY <1>3, <1>4

-----------------------------------------------------------------------------
(* The steps that read                                                       *)
LEMMA AuthorizeKeeps ==
    ASSUME AuthInv, NEW p \in Procs, NEW r \in Requests, Authorize(p, r)
    PROVE  AuthInv'
<1>1. PICK at : at = [NoAttempt EXCEPT !.pc = "claim", !.req = r]
  OBVIOUS
<1>2. attempt' = [attempt EXCEPT ![p] = at] /\ UNCHANGED <<authDb, sealed>>
  BY <1>1 DEF Authorize
<1>3. AttemptInv(at)
  BY <1>1 DEF AttemptInv, NoAttempt, AttemptFields, Early, Stored, Reserving, Checkpointing,
              Committing, Finalizing, Trailing, Done
<1>. QED
  BY <1>2, <1>3, ReadKeeps

(* load of the intent: what is read is remembered, or nothing was stored.    *)
LEMMA LoadIntentKeeps == ASSUME AuthInv, NEW p \in Procs, LoadIntent(p) PROVE AuthInv'
<1>1. /\ AttemptInv(attempt[p]) /\ DOMAIN attempt = Procs /\ DOMAIN attempt[p] = AttemptFields
      /\ attempt[p].pc = "intent" /\ UNCHANGED <<authDb, sealed>>
  BY AttemptIs DEF LoadIntent, At
<1>2. PICK r \in Requests : r = attempt[p].req
  BY <1>1 DEF AttemptInv
<1>3. PICK m : m = authDb.intents[r]
  OBVIOUS
<1>4. PICK at : at = [attempt[p] EXCEPT !.pc = "authority", !.intent = m]
  OBVIOUS
<1>5. attempt' = [attempt EXCEPT ![p] = at]
  BY <1>2, <1>3, <1>4 DEF LoadIntent, Rq
<1>6. DOMAIN at = AttemptFields /\ at.pc = "authority" /\ at.req = r /\ at.intent = m
  BY <1>1, <1>2, <1>4 DEF AttemptFields
<1>7. m = NoIntent \/ Remembers(r, m)
  <2>. SUFFICES ASSUME m # NoIntent PROVE Remembers(r, m)
    OBVIOUS
  <2>1. m \in [state : IntentStates, prior : Nat, priorRoot : Roots, root : Roots]
    BY <1>3 DEF AuthInv, StoreInv, RowsType
  <2>2. m.state \in Applied => m.prior < authDb.authority.generation
    BY <1>3 DEF AuthInv, StoreInv, ChainInv, Committed, Applied
  <2>. QED
    BY <1>3, <2>1, <2>2 DEF Remembers, SamePlan, Reaches, IntentFields
<1>8. AttemptInv(at)
  BY <1>6, <1>7 DEF AttemptInv, Early, Stored, Reserving, Checkpointing, Committing, Finalizing, Trailing, Done
<1>. QED
  BY <1>1, <1>5, <1>8, ReadKeeps

(* load of the authority: a new intent is planned on the row as read.        *)
LEMMA LoadAuthorityKeeps == ASSUME AuthInv, NEW p \in Procs, LoadAuthority(p) PROVE AuthInv'
<1>1. /\ AttemptInv(attempt[p]) /\ DOMAIN attempt = Procs /\ DOMAIN attempt[p] = AttemptFields
      /\ attempt[p].pc = "authority"
  BY AttemptIs DEF LoadAuthority, At
<1>2. CASE authDb.authority.state = "quarantined" \/ Mine(p).state = "quarantined"
  BY <1>2, RefuseKeeps DEF LoadAuthority
<1>3. CASE ~(authDb.authority.state = "quarantined" \/ Mine(p).state = "quarantined")
  <2>1. PICK r \in Requests : r = attempt[p].req
    BY <1>1 DEF AttemptInv
  <2>2. PICK old : old = attempt[p].intent
    OBVIOUS
  <2>3. PICK m : m = IF old.state # "none" THEN old ELSE
                     [state |-> "prepared", prior |-> authDb.authority.generation,
                      priorRoot |-> authDb.authority.root, root |-> NoValue]
    OBVIOUS
  <2>4. PICK at : at = [attempt[p] EXCEPT !.pc = "receipt", !.view = authDb.authority,
                                          !.fresh = (old.state = "none"), !.intent = m]
    OBVIOUS
  <2>5. attempt' = [attempt EXCEPT ![p] = at] /\ UNCHANGED <<authDb, sealed>>
    BY <1>3, <2>2, <2>3, <2>4 DEF LoadAuthority, Mine
  <2>6. /\ DOMAIN at = AttemptFields /\ at.pc = "receipt" /\ at.req = r /\ at.intent = m
        /\ at.view = authDb.authority /\ (at.fresh <=> old.state = "none") /\ at.fresh \in BOOLEAN
    BY <1>1, <2>1, <2>4 DEF AttemptFields
  <2>7. AuthorityOK(authDb.authority)
    BY DEF AuthInv, StoreInv, RowsType
  <2>8. old = NoIntent \/ Remembers(r, old)
    BY <1>1, <2>1, <2>2 DEF AttemptInv
  <2>9. old.state = "none" => /\ DOMAIN m = IntentFields /\ m.state = "prepared"
                              /\ m.prior \in Nat /\ m.priorRoot \in Roots
    BY <2>3, <2>7 DEF AuthorityOK, IntentFields
  <2>10. old.state # "none" => Remembers(r, m) /\ m.state # "quarantined"
    BY <1>3, <2>2, <2>3, <2>8 DEF NoIntent, Mine
  <2>11. AttemptInv(at)
    BY <2>6, <2>7, <2>9, <2>10 DEF AttemptInv, Early, Stored, Reserving, Checkpointing, Committing, Finalizing, Trailing, Done
  <2>. QED
    BY <2>5, <2>11, ReadKeeps
<1>. QED
  BY <1>2, <1>3

(* A receipt of the request that is found is the one the attempt goes on with. *)
LEMMA LoadReceiptKeeps == ASSUME AuthInv, NEW p \in Procs, LoadReceipt(p) PROVE AuthInv'
<1>1. /\ AttemptInv(attempt[p]) /\ DOMAIN attempt = Procs /\ DOMAIN attempt[p] = AttemptFields
      /\ attempt[p].pc = "receipt" /\ UNCHANGED <<authDb, sealed>>
  BY AttemptIs DEF LoadReceipt, At
<1>2. CASE Reply(p)
  BY <1>1, <1>2, RefuseKeeps DEF Refuse
<1>3. ASSUME NEW i \in ReceiptsOf(Rq(p)),
             attempt' = [attempt EXCEPT ![p].pc = "plan", ![p].receipt = i]
      PROVE  AuthInv'
  <2>1. i \in DOMAIN authDb.receipts /\ authDb.receipts[i].of = attempt[p].req
    BY DEF ReceiptsOf, Rq
  <2>2. PICK at : at = [attempt[p] EXCEPT !.pc = "plan", !.receipt = i]
    OBVIOUS
  <2>3. attempt' = [attempt EXCEPT ![p] = at]
    BY <1>3, <2>2
  <2>4. SameBut(at, attempt[p], {"receipt"}) /\ at.pc = "plan" /\ at.receipt = i
    BY <1>1, <2>2 DEF SameBut, AttemptFields
  <2>5. AttemptInv(at)
    BY <1>1, <2>1, <2>4 DEF AttemptInv, SameBut, Early, Stored, Reserving, Checkpointing, Committing, Finalizing, Trailing, Done
  <2>. QED
    BY <1>1, <2>3, <2>5, ReadKeeps
<1>4. CASE Proceed(p, "record")
  <2>1. PICK at : /\ attempt' = [attempt EXCEPT ![p] = at]
                  /\ SameBut(at, attempt[p], {}) /\ at.pc = "record"
    BY <1>4, Proceeds
  <2>2. AttemptInv(at)
    BY <1>1, <2>1 DEF AttemptInv, SameBut, Early, Stored, Reserving, Checkpointing, Committing, Finalizing, Trailing, Done
  <2>. QED
    BY <1>1, <2>1, <2>2, ReadKeeps
<1>. QED
  BY <1>2, <1>3, <1>4 DEF LoadReceipt

(* record_with_context: the number is only taken when the receipt is appended. *)
LEMMA NumberReceiptKeeps == ASSUME AuthInv, NEW p \in Procs, NumberReceipt(p) PROVE AuthInv'
<1>1. /\ AttemptInv(attempt[p]) /\ DOMAIN attempt = Procs /\ DOMAIN attempt[p] = AttemptFields
      /\ attempt[p].pc = "record" /\ UNCHANGED <<authDb, sealed>>
  BY AttemptIs DEF NumberReceipt, At
<1>2. CASE Reply(p)
  BY <1>1, <1>2, RefuseKeeps DEF Refuse
<1>3. CASE attempt' = [attempt EXCEPT ![p].pc = "append", ![p].receipt = Len(authDb.receipts) + 1]
  <2>2. PICK at : at = [attempt[p] EXCEPT !.pc = "append", !.receipt = Len(authDb.receipts) + 1]
    OBVIOUS
  <2>3. attempt' = [attempt EXCEPT ![p] = at]
    BY <1>3, <2>2
  <2>4. SameBut(at, attempt[p], {"receipt"}) /\ at.pc = "append"
    BY <1>1, <2>2 DEF SameBut, AttemptFields
  <2>5. AttemptInv(at)
    BY <1>1, <2>4 DEF AttemptInv, SameBut, Early, Stored, Reserving, Checkpointing, Committing, Finalizing, Trailing, Done
  <2>. QED
    BY <1>1, <2>3, <2>5, ReadKeeps
<1>. QED
  BY <1>2, <1>3 DEF NumberReceipt

(* _target_authority: a repeated attempt goes on with the plan that is stored. *)
LEMMA PlanKeeps == ASSUME AuthInv, NEW p \in Procs, Plan(p) PROVE AuthInv'
<1>1. /\ AttemptInv(attempt[p]) /\ DOMAIN attempt = Procs /\ DOMAIN attempt[p] = AttemptFields
      /\ attempt[p].pc = "plan" /\ UNCHANGED <<authDb, sealed>>
  BY AttemptIs DEF Plan, At
<1>2. CASE Reply(p)
  BY <1>1, <1>2, RefuseKeeps DEF Refuse
<1>3. PICK root : root = Planned(p)
  OBVIOUS
<1>4. PICK m : m = attempt[p].intent
  OBVIOUS
<1>5. PICK r \in Requests : r = attempt[p].req
  BY <1>1 DEF AttemptInv
<1>6. ASSUME attempt[p].fresh \/ root = m.root,
             attempt' = [attempt EXCEPT ![p].intent.root = root, ![p].view = NoValue, ![p].fresh = FALSE,
                 ![p].pc = IF attempt[p].fresh THEN "prepare" ELSE IfPrepared(m.state)]
      PROVE  AuthInv'
  <2>1. PICK n : n = [m EXCEPT !.root = root]
    OBVIOUS
  <2>2. PICK at : at = [attempt[p] EXCEPT !.intent = n, !.view = NoValue, !.fresh = FALSE,
                           !.pc = IF attempt[p].fresh THEN "prepare" ELSE IfPrepared(m.state)]
    OBVIOUS
  <2>3. attempt' = [attempt EXCEPT ![p] = at]
    BY <1>1, <1>4, <1>6, <2>1, <2>2 DEF AttemptFields
  <2>4. /\ DOMAIN at = AttemptFields /\ at.req = r /\ at.receipt = attempt[p].receipt /\ at.intent = n
        /\ at.pc = IF attempt[p].fresh THEN "prepare" ELSE IfPrepared(m.state)
    BY <1>1, <1>5, <2>2 DEF AttemptFields
  <2>5. at.receipt \in DOMAIN authDb.receipts /\ authDb.receipts[at.receipt].of = r
    BY <1>1, <1>5, <2>4 DEF AttemptInv
  <2>6. CASE attempt[p].fresh
    <3>1. /\ DOMAIN m = IntentFields /\ m.state = "prepared" /\ m.prior \in Nat /\ m.priorRoot \in Roots
          /\ AuthorityOK(attempt[p].view)
      BY <1>1, <1>4, <2>6 DEF AttemptInv, Early
    <3>2. root \in Roots
      <4>1. TargetAuthority(p).generation \in Nat /\ TargetAuthority(p).version \in Nat
        BY <3>1 DEF TargetAuthority, AuthorityOK
      <4>2. /\ authDb.projects \cup {r} \in SUBSET Requests /\ IntentRows \cup {r} \in SUBSET Requests
            /\ authDb.snapshots \in SUBSET Requests
            /\ authDb.receipts \in Seq([of : Requests \cup {NoValue}, generation : Nat])
        BY DEF AuthInv, StoreInv, RowsType, IntentRows
      <4>3. Len(authDb.receipts) \in Nat
        BY <4>2, LenProperties
      <4>. QED
        BY <1>3, <1>5, <4>1, <4>2, <4>3, RootType DEF Planned, Rq
    <3>3. n \in [state : {"prepared"}, prior : Nat, priorRoot : Roots, root : Roots]
      BY <2>1, <3>1, <3>2 DEF IntentFields
    <3>4. at.pc = "prepare"
      BY <2>4, <2>6
    <3>5. AttemptInv(at)
      BY <2>4, <2>5, <3>3, <3>4 DEF AttemptInv, Early, Stored, Reserving, Checkpointing, Committing, Finalizing, Trailing, Done
    <3>. QED
      BY <1>1, <2>3, <3>5, ReadKeeps
  <2>7. CASE ~attempt[p].fresh
    <3>1. Remembers(r, m) /\ m.state # "quarantined"
      BY <1>1, <1>4, <1>5, <2>7 DEF AttemptInv, Early
    <3>2. Remembers(r, n) /\ n.state = m.state
      <4>1. /\ DOMAIN n = IntentFields /\ n.state = m.state /\ n.prior = m.prior
            /\ n.priorRoot = m.priorRoot /\ n.root = m.root
        BY <1>6, <2>1, <2>7, <3>1 DEF Remembers, IntentFields
      <4>. QED
        BY <3>1, <4>1 DEF Remembers, SamePlan
    <3>3. at.pc = IF m.state = "prepared" THEN "reserve" ELSE "checkpoint"
      BY <2>4, <2>7 DEF IfPrepared
    <3>4. CASE m.state = "prepared"
      <4>1. at.pc = "reserve"
        BY <3>3, <3>4
      <4>. QED
        <5>1. AttemptInv(at)
          BY <2>4, <2>5, <3>1, <3>2, <3>4, <4>1 DEF AttemptInv, Early, Stored, Reserving, Checkpointing, Committing, Finalizing, Trailing, Done
        <5>. QED
          BY <1>1, <2>3, <5>1, ReadKeeps
    <3>5. CASE m.state # "prepared"
      <4>1. at.pc = "checkpoint"
        BY <3>3, <3>5
      <4>. QED
        <5>1. AttemptInv(at)
          BY <2>4, <2>5, <3>1, <3>2, <3>5, <4>1 DEF AttemptInv, Early, Stored, Reserving, Checkpointing, Committing, Finalizing, Trailing, Done
        <5>. QED
          BY <1>1, <2>3, <5>1, ReadKeeps
    <3>. QED
      BY <3>4, <3>5
  <2>. QED
    BY <2>6, <2>7
<1>. QED
  BY <1>2, <1>3, <1>4, <1>6 DEF Plan, Mine

(* load of the checkpoint: only that of the attempt's own receipt is accepted. *)
LEMMA LoadCheckpointKeeps == ASSUME AuthInv, NEW p \in Procs, LoadCheckpoint(p) PROVE AuthInv'
<1>1. /\ AttemptInv(attempt[p]) /\ DOMAIN attempt = Procs /\ DOMAIN attempt[p] = AttemptFields
      /\ attempt[p].pc = "checkpoint" /\ UNCHANGED <<authDb, sealed>>
  BY AttemptIs DEF LoadCheckpoint, At
<1>2. CASE Reply(p)
  BY <1>1, <1>2, RefuseKeeps DEF Refuse
<1>3. CASE Proceed(p, "newcheckpoint")
  <2>1. PICK at : /\ attempt' = [attempt EXCEPT ![p] = at]
                  /\ SameBut(at, attempt[p], {}) /\ at.pc = "newcheckpoint"
    BY <1>3, Proceeds
  <2>2. AttemptInv(at)
    BY <1>1, <2>1 DEF AttemptInv, SameBut, Early, Stored, Reserving, Checkpointing, Committing, Finalizing, Trailing, Done
  <2>. QED
    BY <1>1, <2>1, <2>2, ReadKeeps
<1>4. ASSUME authDb.checkpoints[Rq(p)].state # "none",
             authDb.checkpoints[Rq(p)].receipt = attempt[p].receipt,
             attempt' = [attempt EXCEPT ![p].pc = "project", ![p].checkpoint = authDb.checkpoints[Rq(p)].state]
      PROVE  AuthInv'
  <2>2. PICK at : at = [attempt[p] EXCEPT !.pc = "project", !.checkpoint = authDb.checkpoints[Rq(p)].state]
    OBVIOUS
  <2>3. attempt' = [attempt EXCEPT ![p] = at]
    BY <1>4, <2>2
  <2>4. /\ SameBut(at, attempt[p], {"checkpoint"}) /\ at.pc = "project"
        /\ at.checkpoint = authDb.checkpoints[attempt[p].req].state
    BY <1>1, <2>2 DEF SameBut, AttemptFields, Rq
  <2>5. AttemptInv(at)
    BY <1>1, <1>4, <2>4 DEF AttemptInv, SameBut, Early, Stored, Reserving, Checkpointing, Committing, Finalizing, Trailing, Done, Rq
  <2>. QED
    BY <1>1, <2>3, <2>5, ReadKeeps
<1>. QED
  BY <1>2, <1>3, <1>4 DEF LoadCheckpoint

(* The generation after a stored intent has a place among the commitments:   *)
(* each one below it was the step of another request.                        *)
LEMMA GenerationHasPlace ==
    ASSUME StoreInv, NEW r \in Requests, authDb.intents[r].state # "none"
    PROVE  authDb.intents[r].prior + 1 \in 0..Cardinality(Requests)
<1> DEFINE n == authDb.intents[r].prior
           G == authDb.authority.generation
           P == {authDb.intents[q].prior : q \in Requests}
<1>1. n \in Nat /\ G \in Nat /\ n <= G
  BY IntentTypes DEF StoreInv, RowsType, AuthorityOK, ChainInv
<1>2. \A g \in 0..n : g \in P
  <2>. SUFFICES ASSUME NEW g \in 0..n PROVE g \in P
    OBVIOUS
  <2>1. CASE g = n
    BY <2>1
  <2>2. CASE g # n
    <3>1. g \in Nat /\ g < G
      BY <1>1, <2>2
    <3>2. PICK q \in Requests : authDb.intents[q].prior = g
      BY <3>1 DEF StoreInv, ChainInv
    <3>. QED
      BY <3>2
  <2>. QED
    BY <2>1, <2>2
<1>3. IsFiniteSet(P) /\ Cardinality(P) <= Cardinality(Requests)
  <2>. DEFINE f == [q \in Requests |-> authDb.intents[q].prior]
  <2>1. f \in Surjection(Requests, P)
    BY DEF Surjection
  <2>. QED
    BY <2>1, FS_Surjection, AuthAssumption
<1>4. Cardinality(0..n) = n + 1 /\ Cardinality(0..n) <= Cardinality(P)
  <2>1. 0..n \subseteq P
    BY <1>2
  <2>. HIDE DEF n, P
  <2>2. Cardinality(0..n) <= Cardinality(P)
    BY <1>3, <2>1, FS_Subset
  <2>3. Cardinality(0..n) = n + 1
    <3>1. n - 0 + 1 = n + 1 /\ 0 <= n /\ 0 \in Int /\ n \in Int
      BY <1>1
    <3>2. Cardinality(0..n) = IF 0 > n THEN 0 ELSE n - 0 + 1
      BY <3>1, FS_Interval
    <3>. QED
      BY <3>1, <3>2
  <2>. QED
    BY <2>2, <2>3
<1>5. Cardinality(Requests) \in Nat /\ Cardinality(P) \in Nat
  BY <1>3, AuthAssumption, FS_CardinalityType
<1>. HIDE DEF n, P
<1>6. n + 1 \in 0..Cardinality(Requests)
  BY <1>1, <1>3, <1>4, <1>5
<1>. QED
  BY <1>6 DEF n

(* The same of what an attempt remembers of it. *)
LEMMA RememberedPlace ==
    ASSUME StoreInv, NEW r \in Requests, NEW m, Remembers(r, m)
    PROVE  m.prior + 1 \in 0..Cardinality(Requests)
<1>1. authDb.intents[r].state \in IntentStates /\ m.prior = authDb.intents[r].prior
  BY DEF Remembers, SamePlan
<1>2. authDb.intents[r].state # "none"
  BY <1>1 DEF IntentStates
<1>. QED
  BY <1>1, <1>2, GenerationHasPlace

(* validate_commitments: the attempt commits to its own plan or quarantines it. *)
LEMMA ValidateCommitmentsKeeps ==
    ASSUME AuthInv, NEW p \in Procs, ValidateCommitments(p)
    PROVE  AuthInv'
<1>1. /\ AttemptInv(attempt[p]) /\ DOMAIN attempt = Procs /\ DOMAIN attempt[p] = AttemptFields
      /\ attempt[p].pc = "commitments" /\ UNCHANGED <<authDb, sealed>>
  BY AttemptIs DEF ValidateCommitments, At
<1>2. ASSUME NEW pc \in {"newcommitments", "quarantine"}, Proceed(p, pc) PROVE AuthInv'
  <2>1. PICK at : /\ attempt' = [attempt EXCEPT ![p] = at]
                  /\ SameBut(at, attempt[p], {}) /\ at.pc = pc
    BY <1>2, Proceeds
  <2>2. AttemptInv(at)
    BY <1>1, <1>2, <2>1 DEF AttemptInv, SameBut, Early, Stored, Reserving, Checkpointing, Committing, Finalizing, Trailing, Done
  <2>. QED
    BY <1>1, <2>1, <2>2, ReadKeeps
<1>3. ASSUME CommitmentsAt(p) = Mine(p).root, Proceed(p, IfReserved(Mine(p).state)) PROVE AuthInv'
  <2>1. PICK m : m = attempt[p].intent
    OBVIOUS
  <2>2. PICK r \in Requests : r = attempt[p].req
    BY <1>1 DEF AttemptInv
  <2>3. Remembers(r, m) /\ m.state \notin {"prepared", "quarantined"}
    BY <1>1, <2>1, <2>2 DEF AttemptInv, Stored, Reserving, Committing
  <2>4. Tied(m)
    BY <1>3, <2>1, <2>3, RememberedPlace DEF Tied, CommitmentsAt, Mine, AuthInv
  <2>5. PICK pc : pc = IfReserved(m.state)
    OBVIOUS
  <2>6. pc \in {"commit", "finalize"} /\ (pc = "commit" => m.state = "anchor_reserved")
    BY <2>5 DEF IfReserved
  <2>7. PICK at : /\ attempt' = [attempt EXCEPT ![p] = at]
                  /\ SameBut(at, attempt[p], {}) /\ at.pc = pc
    BY <1>3, <2>1, <2>5, Proceeds DEF Mine
  <2>8. AttemptInv(at)
    BY <1>1, <2>1, <2>2, <2>3, <2>4, <2>6, <2>7 DEF AttemptInv, SameBut, Early, Stored, Reserving, Checkpointing, Committing, Finalizing, Trailing, Done
  <2>. QED
    BY <1>1, <2>7, <2>8, ReadKeeps
<1>. QED
  BY <1>2, <1>3 DEF ValidateCommitments

(* load of the binding: an attempt past it has a complete, bound checkpoint. *)
LEMMA LoadBindingKeeps == ASSUME AuthInv, NEW p \in Procs, LoadBinding(p) PROVE AuthInv'
<1>1. /\ AttemptInv(attempt[p]) /\ DOMAIN attempt = Procs /\ DOMAIN attempt[p] = AttemptFields
      /\ attempt[p].pc = "binding" /\ UNCHANGED <<authDb, sealed>>
  BY AttemptIs DEF LoadBinding, At
<1>2. CASE Reply(p)
  BY <1>1, <1>2, RefuseKeeps DEF Refuse
<1>3. CASE Proceed(p, "newbinding")
  <2>1. PICK at : /\ attempt' = [attempt EXCEPT ![p] = at]
                  /\ SameBut(at, attempt[p], {}) /\ at.pc = "newbinding"
    BY <1>3, Proceeds
  <2>2. AttemptInv(at)
    BY <1>1, <2>1 DEF AttemptInv, SameBut, Early, Stored, Reserving, Checkpointing, Committing, Finalizing, Trailing, Done
  <2>. QED
    BY <1>1, <2>1, <2>2, ReadKeeps
<1>4. ASSUME authDb.bindings[Rq(p)] = attempt[p].receipt, Proceed(p, IfUnbound(attempt[p].checkpoint))
      PROVE  AuthInv'
  <2>1. PICK pc : pc = IfUnbound(attempt[p].checkpoint)
    OBVIOUS
  <2>2. /\ pc \in {"bind", "finish", "heads", "invalid"}
        /\ pc = "heads" => attempt[p].checkpoint = "complete"
    BY <2>1 DEF IfUnbound
  <2>3. PICK at : /\ attempt' = [attempt EXCEPT ![p] = at]
                  /\ SameBut(at, attempt[p], {}) /\ at.pc = pc
    BY <1>4, <2>1, Proceeds
  <2>4. attempt[p].receipt \in DOMAIN authDb.receipts
    BY <1>1 DEF AttemptInv, Stored, Trailing
  <2>5. attempt[p].receipt # 0
    <3>1. authDb.receipts \in Seq([of : Requests \cup {NoValue}, generation : Nat])
      BY DEF AuthInv, StoreInv, RowsType
    <3>. QED
      BY <2>4, <3>1, LenProperties
  <2>6. pc = "heads" => authDb.checkpoints[attempt[p].req].state = "complete" /\ authDb.bindings[attempt[p].req] # 0
    BY <1>1, <1>4, <2>2, <2>5 DEF AttemptInv, Trailing, Rq
  <2>7. AttemptInv(at)
    BY <1>1, <2>2, <2>3, <2>6 DEF AttemptInv, SameBut, Early, Stored, Reserving, Checkpointing, Committing, Finalizing, Trailing, Done
  <2>. QED
    BY <1>1, <2>3, <2>7, ReadKeeps
<1>. QED
  BY <1>2, <1>3, <1>4 DEF LoadBinding

(* current_history_heads: what is read is sealed later, or refused.          *)
LEMMA ReadHeadsKeeps == ASSUME AuthInv, NEW p \in Procs, ReadHeads(p) PROVE AuthInv'
<1>1. /\ AttemptInv(attempt[p]) /\ DOMAIN attempt = Procs /\ DOMAIN attempt[p] = AttemptFields
      /\ attempt[p].pc = "heads" /\ UNCHANGED <<authDb, sealed>>
  BY AttemptIs DEF ReadHeads, At
<1>2. PICK at : at = [attempt[p] EXCEPT !.pc = "seal", !.heads = HistoryHeads]
  OBVIOUS
<1>3. attempt' = [attempt EXCEPT ![p] = at]
  BY <1>2 DEF ReadHeads
<1>4. SameBut(at, attempt[p], {}) /\ at.pc = "seal"
  BY <1>1, <1>2 DEF SameBut, AttemptFields
<1>5. AttemptInv(at)
  BY <1>1, <1>4 DEF AttemptInv, SameBut, Early, Stored, Reserving, Checkpointing, Committing, Finalizing, Trailing, Done
<1>. QED
  BY <1>1, <1>3, <1>5, ReadKeeps

(* An attempt ends without an answer. *)
LEMMA AttemptDiesKeeps == ASSUME AuthInv, NEW p \in Procs, AttemptDies(p) PROVE AuthInv'
BY OverInv, ReadKeeps DEF AttemptDies, Reply

-----------------------------------------------------------------------------
(* Steps that write one table                                                *)

(* The tables a step does not write.                                         *)
TablesBut(names) ==
    /\ DOMAIN authDb' = TableNames
    /\ "authority" \notin names => authDb'.authority = authDb.authority
    /\ "intents" \notin names => authDb'.intents = authDb.intents
    /\ "receipts" \notin names => authDb'.receipts = authDb.receipts
    /\ "checkpoints" \notin names => authDb'.checkpoints = authDb.checkpoints
    /\ "bindings" \notin names => authDb'.bindings = authDb.bindings
    /\ "projects" \notin names => authDb'.projects = authDb.projects
    /\ "envelopes" \notin names => authDb'.envelopes = authDb.envelopes
    /\ "snapshots" \notin names => authDb'.snapshots = authDb.snapshots
    /\ "commitments" \notin names => authDb'.commitments = authDb.commitments

(* A step writes authDb, and one attempt goes on.                            *)
LEMMA ChainStays ==
    ASSUME ChainInv, authDb'.intents = authDb.intents,
           authDb'.authority.generation = authDb.authority.generation,
           authDb'.authority.root = authDb.authority.root
    PROVE  ChainInv'
BY DEF ChainInv, Committed

(* The keyring stays with an authority and intents that do not move.         *)
LEMMA SealStays ==
    ASSUME SealInv, authDb'.intents = authDb.intents,
           authDb'.authority.generation = authDb.authority.generation,
           authDb'.authority.root = authDb.authority.root, UNCHANGED sealed
    PROVE  SealInv'
BY DEF SealInv, Level, Behind

(* A trail stays one, and is continued where its next row belongs to it.     *)
TrailGoesOn ==
    \A r \in Requests :
        /\ authDb.checkpoints[r].state = "none" =>
              \/ authDb'.checkpoints[r].state = "none"
              \/ /\ authDb'.checkpoints[r].receipt \in DOMAIN authDb'.receipts
                 /\ authDb'.receipts[authDb'.checkpoints[r].receipt].of = r
        /\ authDb'.checkpoints[r].state \in Trailed =>
              \/ authDb.checkpoints[r].state \in Trailed
              \/ authDb.intents[r].state = "anchor_finalized" /\ Tied(authDb.intents[r])
        /\ authDb'.bindings[r] # 0 =>
              \/ authDb'.bindings[r] = authDb.bindings[r]
              \/ /\ authDb'.checkpoints[r].state # "none"
                 /\ authDb'.checkpoints[r].receipt = authDb'.bindings[r]
        /\ authDb'.envelopes[r] = "succeeded" => Visible(r)

(* The trails stay sound when tables grow as TrailGoesOn has them.           *)
LEMMA TrailStays == ASSUME StoreInv, Evolved, TrailGoesOn PROVE TrailInv'
<1>. SUFFICES ASSUME NEW r \in Requests
              PROVE  /\ authDb'.checkpoints[r].state # "none" =>
                           /\ authDb'.checkpoints[r].receipt \in DOMAIN authDb'.receipts
                           /\ authDb'.receipts[authDb'.checkpoints[r].receipt].of = r
                     /\ authDb'.checkpoints[r].state \in Trailed =>
                           authDb'.intents[r].state = "anchor_finalized" /\ Tied(authDb.intents[r])'
                     /\ authDb'.bindings[r] # 0 =>
                           /\ authDb'.checkpoints[r].state # "none"
                           /\ authDb'.checkpoints[r].receipt = authDb'.bindings[r]
                     /\ authDb'.envelopes[r] = "succeeded" => Visible(r)'
  BY DEF TrailInv, Tied, Visible
<1>1. /\ authDb.checkpoints[r].state # "none" =>
            /\ authDb.checkpoints[r].receipt \in DOMAIN authDb.receipts
            /\ authDb.receipts[authDb.checkpoints[r].receipt].of = r
      /\ authDb.checkpoints[r].state \in Trailed =>
            authDb.intents[r].state = "anchor_finalized" /\ Tied(authDb.intents[r])
      /\ authDb.bindings[r] # 0 =>
            authDb.checkpoints[r].state # "none" /\ authDb.checkpoints[r].receipt = authDb.bindings[r]
  BY DEF StoreInv, TrailInv
<1>2. authDb'.checkpoints[r].state # "none" =>
           /\ authDb'.checkpoints[r].receipt \in DOMAIN authDb'.receipts
           /\ authDb'.receipts[authDb'.checkpoints[r].receipt].of = r
  BY <1>1 DEF Evolved, TablesGrow, TrailGoesOn
<1>3. authDb'.checkpoints[r].state \in Trailed =>
           authDb'.intents[r].state = "anchor_finalized" /\ Tied(authDb.intents[r])'
  <2>. SUFFICES ASSUME authDb'.checkpoints[r].state \in Trailed
                PROVE  authDb'.intents[r].state = "anchor_finalized" /\ Tied(authDb.intents[r])'
    OBVIOUS
  <2>1. PICK i : i = authDb.intents[r]
    OBVIOUS
  <2>2. i.state = "anchor_finalized" /\ Tied(i)
    BY <1>1, <2>1 DEF TrailGoesOn
  <2>3. i.root \in Roots
    BY <2>1, <2>2, IntentTypes DEF StoreInv
  <2>4. Tied(i)'
    BY <2>2, <2>3, TiedStays
  <2>5. authDb'.intents[r].state = "anchor_finalized" /\ SamePlan(authDb'.intents[r], i)
    BY <2>1, <2>2 DEF Evolved, AnchorGrows, Reaches, IntentStates
  <2>. QED
    BY <2>4, <2>5 DEF Tied, SamePlan
<1>4. authDb'.bindings[r] # 0 =>
            /\ authDb'.checkpoints[r].state # "none"
            /\ authDb'.checkpoints[r].receipt = authDb'.bindings[r]
  BY <1>1 DEF Evolved, TablesGrow, TrailGoesOn
<1>5. authDb'.envelopes[r] = "succeeded" => Visible(r)'
  BY DEF Evolved, TablesGrow, TrailGoesOn, Visible
<1>. QED
  BY <1>2, <1>3, <1>4, <1>5

(* A step that leaves the authority, the intents and the keyring alone.      *)
LEMMA TableKeeps ==
    ASSUME StoreInv, UNCHANGED sealed, RowsType', TablesGrow, TrailGoesOn,
           authDb'.authority = authDb.authority, authDb'.intents = authDb.intents
    PROVE  StoreInv' /\ Evolved
<1>1. Evolved
  <2>1. authDb.authority.generation \in Nat /\ sealed.generation \in Nat
    BY DEF StoreInv, RowsType, SealType, AuthorityOK
  <2>. QED
    BY <2>1 DEF Evolved, AnchorGrows, SamePlan, Reaches
<1>2. SealType'
  BY DEF StoreInv, SealType
<1>. QED
  BY <1>1, <1>2, ChainStays, SealStays, TrailStays DEF StoreInv

(* Such a step of an attempt that goes on as the invariant has it.           *)
LEMMA TableWriteKeeps ==
    ASSUME AuthInv, UNCHANGED sealed, RowsType', TablesGrow, TrailGoesOn,
           authDb'.authority = authDb.authority, authDb'.intents = authDb.intents,
           NEW p \in Procs, NEW at, attempt' = [attempt EXCEPT ![p] = at],
           (\A old : old = attempt[p] /\ AttemptInv(old)' /\ DOMAIN attempt[p] = AttemptFields
                     => AttemptInv(at)')
    PROVE  AuthInv'
<1>1. StoreInv' /\ Evolved
  BY TableKeeps DEF AuthInv
<1>2. PICK old : old = attempt[p]
  OBVIOUS
<1>3. AttemptInv(old) /\ DOMAIN attempt[p] = AttemptFields
  BY <1>2, AttemptIs
<1>4. AttemptInv(old)'
  BY <1>1, <1>3, AttemptStays DEF AuthInv
<1>. QED
  BY <1>1, <1>2, <1>3, <1>4, WriteKeeps

-----------------------------------------------------------------------------
(* The snapshot of a decision is a row of its own.                           *)
LEMMA AppendSnapshotKeeps ==
    ASSUME AuthInv, NEW r \in Requests, AppendSnapshot(r)
    PROVE  AuthInv'
<1>1. RowsType
  BY DEF AuthInv, StoreInv
<1>2. TablesBut({"snapshots"}) /\ authDb'.snapshots = authDb.snapshots \cup {r}
      /\ UNCHANGED <<sealed, attempt>>
  BY <1>1 DEF AppendSnapshot, RowsType, TablesBut, TableNames
<1>3. RowsType'
  BY <1>1, <1>2 DEF RowsType, TablesBut, AuthorityOK
<1>4. TablesGrow
  BY <1>2 DEF TablesBut, TablesGrow
<1>5. TrailGoesOn
  BY <1>2 DEF TablesBut, TrailGoesOn, AuthInv, StoreInv, TrailInv
<1>6. StoreInv' /\ Evolved
  BY <1>2, <1>3, <1>4, <1>5, TableKeeps DEF AuthInv, TablesBut
<1>. QED
  BY <1>2, <1>6, AttemptsStay DEF AuthInv

(* The claim of the idempotency envelope, or its cached answer.              *)
LEMMA ClaimKeeps == ASSUME AuthInv, NEW p \in Procs, Claim(p) PROVE AuthInv'
<1>1. /\ AttemptInv(attempt[p]) /\ attempt[p].pc = "claim" /\ RowsType
  BY AttemptIs DEF Claim, At, AuthInv, StoreInv
<1>2. PICK r \in Requests : r = attempt[p].req
  BY <1>1 DEF AttemptInv
<1>3. CASE authDb.envelopes[r] = "succeeded"
  BY <1>2, <1>3, RefuseKeeps DEF Claim, Rq
<1>4. CASE authDb.envelopes[r] # "succeeded"
  <2>1. /\ TablesBut({"envelopes"}) /\ UNCHANGED sealed /\ Proceed(p, "intent")
        /\ authDb'.envelopes = [authDb.envelopes EXCEPT ![r] = "in_progress"]
    BY <1>1, <1>2, <1>4 DEF Claim, Claimed, Rq, RowsType, TablesBut, TableNames
  <2>2. RowsType'
    BY <1>1, <2>1 DEF RowsType, TablesBut, AuthorityOK
  <2>3. TablesGrow
    BY <2>1 DEF TablesBut, TablesGrow
  <2>4. TrailGoesOn
    BY <1>1, <2>1 DEF TablesBut, TrailGoesOn, AuthInv, StoreInv, TrailInv, RowsType
  <2>5. PICK at : /\ attempt' = [attempt EXCEPT ![p] = at]
                  /\ SameBut(at, attempt[p], {}) /\ at.pc = "intent"
    BY <2>1, Proceeds
  <2>6. AttemptInv(at)'
    BY <1>2, <2>5 DEF AttemptInv, SameBut, Early, Stored, Reserving, Checkpointing, Committing, Finalizing, Trailing, Done
  <2>. QED
    BY <2>1, <2>2, <2>3, <2>4, <2>5, <2>6, TableWriteKeeps DEF TablesBut
<1>. QED
  BY <1>3, <1>4

(* The envelope succeeds only behind a complete and bound checkpoint.        *)
LEMMA CompleteEnvelopeKeeps == ASSUME AuthInv, NEW p \in Procs, CompleteEnvelope(p) PROVE AuthInv'
<1>1. /\ AttemptInv(attempt[p]) /\ attempt[p].pc = "complete" /\ RowsType
  BY AttemptIs DEF CompleteEnvelope, At, AuthInv, StoreInv
<1>2. PICK r \in Requests : r = attempt[p].req
  BY <1>1 DEF AttemptInv
<1>3. CASE Refuse(p)
  BY <1>3, RefuseKeeps
<1>4. CASE ~Refuse(p)
  <2>1. /\ TablesBut({"envelopes"}) /\ UNCHANGED sealed /\ attempt' = [attempt EXCEPT ![p] = NoAttempt]
        /\ authDb'.envelopes = [authDb.envelopes EXCEPT ![r] = "succeeded"]
    BY <1>1, <1>2, <1>4 DEF CompleteEnvelope, Completed, Rq, RowsType, TablesBut, TableNames, Reply
  <2>2. RowsType'
    BY <1>1, <2>1 DEF RowsType, TablesBut, AuthorityOK
  <2>3. TablesGrow
    BY <2>1 DEF TablesBut, TablesGrow
  <2>4. Visible(r)
    BY <1>1, <1>2 DEF AttemptInv, Visible, Done, Trailing
  <2>5. TrailGoesOn
    BY <1>1, <2>1, <2>4 DEF TablesBut, TrailGoesOn, AuthInv, StoreInv, TrailInv, RowsType
  <2>6. AttemptInv(NoAttempt)'
    BY DEF AttemptInv, NoAttempt, AttemptFields, Early, Stored, Reserving, Checkpointing, Committing, Finalizing, Trailing, Done
  <2>. QED
    BY <2>1, <2>2, <2>3, <2>5, <2>6, TableWriteKeeps DEF TablesBut
<1>. QED
  BY <1>3, <1>4

(* A receipt is appended behind all others.                                  *)
LEMMA ReceiptAppended ==
    ASSUME AuthInv, NEW e \in [of : Requests \cup {NoValue}, generation : Nat],
           authDb' = [authDb EXCEPT !.receipts = Append(@, e)]
    PROVE  /\ TablesBut({"receipts"}) /\ RowsType' /\ TablesGrow /\ TrailGoesOn
           /\ Len(authDb.receipts) + 1 \in DOMAIN authDb'.receipts
           /\ authDb'.receipts[Len(authDb.receipts) + 1] = e
<1> DEFINE T == [of : Requests \cup {NoValue}, generation : Nat]
<1>1. RowsType /\ authDb.receipts \in Seq(T)
  BY DEF AuthInv, StoreInv, RowsType
<1>2. TablesBut({"receipts"}) /\ authDb'.receipts = Append(authDb.receipts, e)
  BY <1>1 DEF RowsType, TablesBut, TableNames
<1>3. e \in T
  OBVIOUS
<1>. HIDE DEF T
<1>4. PICK s \in Seq(T) : s = authDb.receipts
  BY <1>1
<1>5. /\ Append(s, e) \in Seq(T) /\ Len(s) \in Nat /\ DOMAIN s = 1..Len(s)
      /\ DOMAIN Append(s, e) = 1..(Len(s) + 1)
      /\ \A i \in 1..Len(s) : Append(s, e)[i] = s[i]
      /\ Append(s, e)[Len(s) + 1] = e
  BY <1>3, AppendProperties, LenProperties
<1>6. authDb'.receipts \in Seq(T)
  BY <1>2, <1>4, <1>5
<1>7. \A i \in DOMAIN authDb.receipts : i \in DOMAIN authDb'.receipts /\ authDb'.receipts[i] = authDb.receipts[i]
  BY <1>2, <1>4, <1>5
<1>8. /\ Len(authDb.receipts) + 1 \in DOMAIN authDb'.receipts
      /\ authDb'.receipts[Len(authDb.receipts) + 1] = e
  BY <1>2, <1>4, <1>5
<1>9. RowsType'
  BY <1>1, <1>2, <1>6 DEF RowsType, TablesBut, AuthorityOK, T
<1>10. TablesGrow
  BY <1>2, <1>7 DEF TablesBut, TablesGrow
<1>11. TrailGoesOn
  BY <1>2 DEF TablesBut, TrailGoesOn, AuthInv, StoreInv, TrailInv
<1>. QED
  BY <1>2, <1>8, <1>9, <1>10, <1>11

(* A receipt of somebody else moves no receipt that is referred to.          *)
LEMMA AuditedDecisionKeeps == ASSUME AuthInv, AuditedDecision PROVE AuthInv'
<1>1. PICK e : e = [of |-> NoValue, generation |-> authDb.authority.generation]
  OBVIOUS
<1>2. authDb' = [authDb EXCEPT !.receipts = Append(@, e)] /\ UNCHANGED <<sealed, attempt>>
  BY <1>1 DEF AuditedDecision
<1>3. e \in [of : Requests \cup {NoValue}, generation : Nat]
  BY <1>1 DEF AuthInv, StoreInv, RowsType, AuthorityOK
<1>4. TablesBut({"receipts"}) /\ RowsType' /\ TablesGrow /\ TrailGoesOn
  BY <1>2, <1>3, ReceiptAppended
<1>5. StoreInv' /\ Evolved
  BY <1>2, <1>4, TableKeeps DEF AuthInv, TablesBut
<1>. QED
  BY <1>2, <1>5, AttemptsStay DEF AuthInv

(* append of the attempt's receipt, at the number it has taken.              *)
LEMMA AppendReceiptKeeps == ASSUME AuthInv, NEW p \in Procs, AppendReceipt(p) PROVE AuthInv'
<1>1. /\ AttemptInv(attempt[p]) /\ attempt[p].pc = "append"
  BY AttemptIs DEF AppendReceipt, At
<1>2. CASE Refuse(p)
  BY <1>2, RefuseKeeps
<1>3. CASE ~Refuse(p)
  <2>1. PICK r \in Requests : r = attempt[p].req
    BY <1>1 DEF AttemptInv
  <2>2. PICK m : m = attempt[p].intent
    OBVIOUS
  <2>3. PICK e : e = [of |-> r, generation |-> m.prior]
    OBVIOUS
  <2>4. /\ authDb' = [authDb EXCEPT !.receipts = Append(@, e)]
        /\ attempt[p].receipt = Len(authDb.receipts) + 1
        /\ Proceed(p, "plan") /\ UNCHANGED sealed
    BY <1>3, <2>1, <2>2, <2>3 DEF AppendReceipt, Rq, Mine
  <2>5. m.prior \in Nat
    <3>1. CASE attempt[p].fresh
      BY <1>1, <2>2, <3>1 DEF AttemptInv, Early
    <3>2. CASE ~attempt[p].fresh
      <4>1. Remembers(r, m)
        BY <1>1, <2>1, <2>2, <3>2 DEF AttemptInv, Early
      <4>. QED
        BY <4>1, RememberedTypes DEF AuthInv, StoreInv
    <3>. QED
      BY <3>1, <3>2
  <2>6. e \in [of : Requests \cup {NoValue}, generation : Nat]
    BY <2>3, <2>5
  <2>7. /\ TablesBut({"receipts"}) /\ RowsType' /\ TablesGrow /\ TrailGoesOn
        /\ Len(authDb.receipts) + 1 \in DOMAIN authDb'.receipts
        /\ authDb'.receipts[Len(authDb.receipts) + 1] = e
    BY <2>4, <2>6, ReceiptAppended
  <2>8. PICK at : /\ attempt' = [attempt EXCEPT ![p] = at]
                  /\ SameBut(at, attempt[p], {}) /\ at.pc = "plan"
    BY <2>4, Proceeds
  <2>9. at.receipt \in DOMAIN authDb'.receipts /\ authDb'.receipts[at.receipt].of = r
    BY <2>3, <2>4, <2>7, <2>8 DEF SameBut
  <2>10. ASSUME NEW old, old = attempt[p], AttemptInv(old)' PROVE AttemptInv(at)'
    BY <1>1, <2>1, <2>8, <2>9, <2>10 DEF AttemptInv, SameBut, Early, Stored, Reserving, Checkpointing, Committing, Finalizing, Trailing, Done
  <2>. QED
    BY <2>4, <2>7, <2>8, <2>10, TableWriteKeeps DEF TablesBut
<1>. QED
  BY <1>2, <1>3

(* The checkpoint of a request is prepared once, with its receipt.           *)
LEMMA PrepareCheckpointKeeps == ASSUME AuthInv, NEW p \in Procs, PrepareCheckpoint(p) PROVE AuthInv'
<1>1. /\ AttemptInv(attempt[p]) /\ attempt[p].pc = "newcheckpoint" /\ RowsType
      /\ DOMAIN attempt = Procs /\ DOMAIN attempt[p] = AttemptFields
  BY AttemptIs DEF PrepareCheckpoint, At, AuthInv, StoreInv
<1>2. CASE Refuse(p)
  BY <1>2, RefuseKeeps
<1>3. CASE ~Refuse(p)
  <2>1. PICK r \in Requests : r = attempt[p].req
    BY <1>1 DEF AttemptInv
  <2>2. PICK c : c = [state |-> "prepared", receipt |-> attempt[p].receipt]
    OBVIOUS
  <2>3. /\ authDb' = [authDb EXCEPT !.checkpoints[r] = c] /\ UNCHANGED sealed
        /\ authDb.checkpoints[r].state = "none"
        /\ attempt' = [attempt EXCEPT ![p].pc = "project", ![p].checkpoint = "prepared"]
    BY <1>3, <2>1, <2>2 DEF PrepareCheckpoint, Rq
  <2>4. TablesBut({"checkpoints"}) /\ authDb'.checkpoints = [authDb.checkpoints EXCEPT ![r] = c]
    BY <1>1, <2>3 DEF RowsType, TablesBut, TableNames
  <2>5. attempt[p].receipt \in DOMAIN authDb.receipts /\ authDb.receipts[attempt[p].receipt].of = r
    BY <1>1, <2>1 DEF AttemptInv, Stored, Checkpointing
  <2>6. c \in [state : CheckpointStates, receipt : Nat]
    <3>1. authDb.receipts \in Seq([of : Requests \cup {NoValue}, generation : Nat])
      BY <1>1 DEF RowsType
    <3>. QED
      BY <2>2, <2>5, <3>1, LenProperties DEF CheckpointStates
  <2>7. RowsType'
    BY <1>1, <2>4, <2>6 DEF RowsType, TablesBut, AuthorityOK
  <2>8. \A q \in Requests : authDb'.checkpoints[q] = IF q = r THEN c ELSE authDb.checkpoints[q]
    BY <1>1, <2>4 DEF RowsType
  <2>9. TablesGrow
    BY <2>3, <2>4, <2>8 DEF TablesBut, TablesGrow
  <2>10. TrailGoesOn
    BY <2>2, <2>3, <2>4, <2>5, <2>8 DEF TablesBut, TrailGoesOn, AuthInv, StoreInv, TrailInv, Trailed
  <2>11. PICK at : at = [attempt[p] EXCEPT !.pc = "project", !.checkpoint = "prepared"]
    OBVIOUS
  <2>12. attempt' = [attempt EXCEPT ![p] = at]
    BY <2>3, <2>11
  <2>13. SameBut(at, attempt[p], {"checkpoint"}) /\ at.pc = "project" /\ at.checkpoint = "prepared"
    BY <1>1, <2>11 DEF SameBut, AttemptFields
  <2>14. ASSUME NEW old, old = attempt[p], AttemptInv(old)' PROVE AttemptInv(at)'
    BY <1>1, <2>1, <2>2, <2>8, <2>13, <2>14 DEF AttemptInv, SameBut, Early, Stored, Reserving, Checkpointing, Committing, Finalizing, Trailing, Done
  <2>. QED
    BY <2>3, <2>4, <2>7, <2>9, <2>10, <2>12, <2>14, TableWriteKeeps DEF TablesBut
<1>. QED
  BY <1>2, <1>3

(* The project row, before any commitment of its generation.                 *)
LEMMA AddProjectKeeps == ASSUME AuthInv, NEW p \in Procs, AddProject(p) PROVE AuthInv'
<1>1. /\ AttemptInv(attempt[p]) /\ attempt[p].pc = "project" /\ RowsType
  BY AttemptIs DEF AddProject, At, AuthInv, StoreInv
<1>2. PICK r \in Requests : r = attempt[p].req
  BY <1>1 DEF AttemptInv
<1>3. /\ TablesBut({"projects"}) /\ authDb'.projects = authDb.projects \cup {r}
      /\ Proceed(p, "commitments") /\ UNCHANGED sealed
  BY <1>1, <1>2 DEF AddProject, Rq, RowsType, TablesBut, TableNames
<1>4. RowsType'
  BY <1>1, <1>3 DEF RowsType, TablesBut, AuthorityOK
<1>5. TablesGrow
  BY <1>3 DEF TablesBut, TablesGrow
<1>6. TrailGoesOn
  BY <1>3 DEF TablesBut, TrailGoesOn, AuthInv, StoreInv, TrailInv
<1>7. PICK at : /\ attempt' = [attempt EXCEPT ![p] = at]
                /\ SameBut(at, attempt[p], {}) /\ at.pc = "commitments"
  BY <1>3, Proceeds
<1>8. ASSUME NEW old, old = attempt[p], AttemptInv(old)' PROVE AttemptInv(at)'
  BY <1>1, <1>2, <1>3, <1>7, <1>8 DEF AttemptInv, SameBut, Early, Stored, Reserving, Checkpointing, Committing, Finalizing, Trailing, Done
<1>. QED
  BY <1>3, <1>4, <1>5, <1>6, <1>7, <1>8, TableWriteKeeps DEF TablesBut

(* The commitments of a generation are written or altered, at its place.     *)
LEMMA CommitmentWritten ==
    ASSUME AuthInv, NEW g \in 0..Cardinality(Requests), NEW c \in Roots \cup {Tampered},
           authDb.commitments[g] = NoValue \/ c = Tampered,
           authDb' = [authDb EXCEPT !.commitments[g] = c]
    PROVE  /\ TablesBut({"commitments"}) /\ RowsType' /\ TablesGrow /\ TrailGoesOn
           /\ authDb'.commitments[g] = c
<1>1. RowsType
  BY DEF AuthInv, StoreInv
<1>2. TablesBut({"commitments"}) /\ authDb'.commitments = [authDb.commitments EXCEPT ![g] = c]
  BY <1>1 DEF RowsType, TablesBut, TableNames
<1>3. RowsType'
  BY <1>1, <1>2 DEF RowsType, TablesBut, AuthorityOK
<1>4. \A h \in 0..Cardinality(Requests) :
          authDb'.commitments[h] = IF h = g THEN c ELSE authDb.commitments[h]
  BY <1>1, <1>2 DEF RowsType
<1>5. TablesGrow
  BY <1>2, <1>4 DEF TablesBut, TablesGrow
<1>6. TrailGoesOn
  BY <1>2 DEF TablesBut, TrailGoesOn, AuthInv, StoreInv, TrailInv
<1>. QED
  BY <1>2, <1>3, <1>4, <1>5, <1>6

(* Altered commitments are nobody's plan, and the invariant allows for them. *)
LEMMA TamperKeeps == ASSUME AuthInv, NEW g \in DOMAIN authDb.commitments, Tamper(g) PROVE AuthInv'
<1>1. g \in 0..Cardinality(Requests)
  BY DEF AuthInv, StoreInv, RowsType
<1>2. authDb' = [authDb EXCEPT !.commitments[g] = Tampered] /\ UNCHANGED <<sealed, attempt>>
  BY DEF Tamper
<1>3. TablesBut({"commitments"}) /\ RowsType' /\ TablesGrow /\ TrailGoesOn
  BY <1>1, <1>2, CommitmentWritten
<1>4. StoreInv' /\ Evolved
  BY <1>2, <1>3, TableKeeps DEF AuthInv, TablesBut
<1>. QED
  BY <1>2, <1>4, AttemptsStay DEF AuthInv

(* The commitments of the new generation are those of the plan.              *)
LEMMA AppendCommitmentsKeeps == ASSUME AuthInv, NEW p \in Procs, AppendCommitments(p) PROVE AuthInv'
<1>1. /\ AttemptInv(attempt[p]) /\ attempt[p].pc = "newcommitments"
  BY AttemptIs DEF AppendCommitments, At
<1>2. CASE Refuse(p)
  BY <1>2, RefuseKeeps
<1>3. CASE ~Refuse(p)
  <2>1. PICK r \in Requests : r = attempt[p].req
    BY <1>1 DEF AttemptInv
  <2>2. PICK m : m = attempt[p].intent
    OBVIOUS
  <2>3. PICK g : g = m.prior + 1
    OBVIOUS
  <2>4. PICK c : c = m.root
    OBVIOUS
  <2>5. PICK pc : pc = IfReserved(m.state)
    OBVIOUS
  <2>6. /\ authDb' = [authDb EXCEPT !.commitments[g] = c] /\ authDb.commitments[g] = NoValue
        /\ Proceed(p, pc) /\ UNCHANGED sealed
    BY <1>3, <2>2, <2>3, <2>4, <2>5 DEF AppendCommitments, CommitmentsAt, Mine
  <2>7. Remembers(r, m) /\ m.state \notin {"prepared", "quarantined"}
    BY <1>1, <2>1, <2>2 DEF AttemptInv, Stored, Reserving, Committing
  <2>8. g \in 0..Cardinality(Requests) /\ c \in Roots
    BY <2>3, <2>4, <2>7, RememberedPlace, RememberedTypes DEF AuthInv, StoreInv
  <2>9. /\ TablesBut({"commitments"}) /\ RowsType' /\ TablesGrow /\ TrailGoesOn
        /\ authDb'.commitments[g] = c
    BY <2>6, <2>8, CommitmentWritten
  <2>10. Tied(m)'
    BY <2>3, <2>4, <2>8, <2>9 DEF Tied
  <2>11. pc \in {"commit", "finalize"} /\ (pc = "commit" => m.state = "anchor_reserved")
    BY <2>5 DEF IfReserved
  <2>12. PICK at : /\ attempt' = [attempt EXCEPT ![p] = at]
                   /\ SameBut(at, attempt[p], {}) /\ at.pc = pc
    BY <2>6, Proceeds
  <2>13. ASSUME NEW old, old = attempt[p], AttemptInv(old)' PROVE AttemptInv(at)'
    BY <1>1, <2>1, <2>2, <2>7, <2>10, <2>11, <2>12, <2>13 DEF AttemptInv, SameBut, Early, Stored, Reserving, Checkpointing, Committing, Finalizing, Trailing, Done
  <2>. QED
    BY <2>6, <2>9, <2>12, <2>13, TableWriteKeeps DEF TablesBut
<1>. QED
  BY <1>2, <1>3

(* The state of a checkpoint that is not complete changes.                   *)
LEMMA CheckpointMoved ==
    ASSUME AuthInv, NEW r \in Requests, NEW to \in CheckpointStates \ {"none"},
           authDb.checkpoints[r].state \notin {"none", "complete"},
           to \in Trailed => authDb.intents[r].state = "anchor_finalized" /\ Tied(authDb.intents[r]),
           authDb' = [authDb EXCEPT !.checkpoints[r].state = to]
    PROVE  /\ TablesBut({"checkpoints"}) /\ RowsType' /\ TablesGrow /\ TrailGoesOn
           /\ authDb'.checkpoints[r].state = to
           /\ authDb'.checkpoints[r].receipt = authDb.checkpoints[r].receipt
<1>1. RowsType
  BY DEF AuthInv, StoreInv
<1>2. TablesBut({"checkpoints"}) /\ authDb'.checkpoints = [authDb.checkpoints EXCEPT ![r].state = to]
  BY <1>1 DEF RowsType, TablesBut, TableNames
<1>3. authDb.checkpoints \in [Requests -> [state : CheckpointStates, receipt : Nat]]
  BY <1>1 DEF RowsType
<1>4. /\ authDb'.checkpoints \in [Requests -> [state : CheckpointStates, receipt : Nat]]
      /\ \A q \in Requests \ {r} : authDb'.checkpoints[q] = authDb.checkpoints[q]
      /\ authDb'.checkpoints[r].state = to
      /\ authDb'.checkpoints[r].receipt = authDb.checkpoints[r].receipt
  BY <1>2, <1>3
<1>5. RowsType'
  BY <1>1, <1>2, <1>4 DEF RowsType, TablesBut, AuthorityOK
<1>6. TablesGrow
  BY <1>2, <1>4 DEF TablesBut, TablesGrow
<1>7. TrailGoesOn
  BY <1>2, <1>4 DEF TablesBut, TrailGoesOn, AuthInv, StoreInv, TrailInv
<1>. QED
  BY <1>2, <1>4, <1>5, <1>6, <1>7

(* _quarantine_inflight, the checkpoint: a complete one is left alone.       *)
LEMMA QuarantineCheckpointKeeps ==
    ASSUME AuthInv, NEW p \in Procs, QuarantineCheckpoint(p)
    PROVE  AuthInv'
<1>1. /\ AttemptInv(attempt[p]) /\ attempt[p].pc = "quarantine2"
  BY AttemptIs DEF QuarantineCheckpoint, At
<1>2. PICK r \in Requests : r = attempt[p].req
  BY <1>1 DEF AttemptInv
<1>3. CASE Refuse(p)
  BY <1>3, RefuseKeeps
<1>4. CASE Proceed(p, "quarantine3") /\ UNCHANGED <<authDb, sealed>>
  <2>1. PICK at : /\ attempt' = [attempt EXCEPT ![p] = at]
                  /\ SameBut(at, attempt[p], {}) /\ at.pc = "quarantine3"
    BY <1>4, Proceeds
  <2>2. AttemptInv(at)
    BY <1>1, <2>1 DEF AttemptInv, SameBut, Early, Stored, Reserving, Checkpointing, Committing, Finalizing, Trailing, Done
  <2>. QED
    BY <1>4, <2>1, <2>2, ReadKeeps
<1>5. ASSUME attempt[p].checkpoint \notin {"complete", "quarantined"},
             authDb.checkpoints[r].state = attempt[p].checkpoint,
             authDb' = [authDb EXCEPT !.checkpoints[r].state = "quarantined"],
             Proceed(p, "quarantine3"), UNCHANGED sealed
      PROVE  AuthInv'
  <2>1. authDb.checkpoints[r].state \notin {"none", "complete"}
    BY <1>1, <1>2, <1>5 DEF AttemptInv, Committing
  <2>2. /\ TablesBut({"checkpoints"}) /\ RowsType' /\ TablesGrow /\ TrailGoesOn
    BY <1>5, <2>1, CheckpointMoved DEF CheckpointStates, Trailed
  <2>3. PICK at : /\ attempt' = [attempt EXCEPT ![p] = at]
                  /\ SameBut(at, attempt[p], {}) /\ at.pc = "quarantine3"
    BY <1>5, Proceeds
  <2>4. ASSUME NEW old, old = attempt[p], AttemptInv(old)' PROVE AttemptInv(at)'
    BY <1>1, <2>3, <2>4 DEF AttemptInv, SameBut, Early, Stored, Reserving, Checkpointing, Committing, Finalizing, Trailing, Done
  <2>. QED
    BY <1>5, <2>2, <2>3, <2>4, TableWriteKeeps DEF TablesBut
<1>. QED
  BY <1>2, <1>3, <1>4, <1>5 DEF QuarantineCheckpoint, Rq

(* The three steps of the trail.                                             *)
LEMMA AdvanceCheckpointKeeps ==
    ASSUME AuthInv, NEW p \in Procs, attempt[p].pc \in Trailing, NEW from, NEW to, NEW next,
           <<from, to, next>> \in {<<"prepared", "authority_finalized", "binding">>,
                                   <<"authority_finalized", "binding_persisted", "finish">>,
                                   <<"binding_persisted", "complete", "heads">>},
           AdvanceCheckpoint(p, from, to, next)
    PROVE  AuthInv'
<1>1. /\ AttemptInv(attempt[p]) /\ DOMAIN attempt = Procs /\ DOMAIN attempt[p] = AttemptFields
  BY AttemptIs
<1>2. PICK r \in Requests : r = attempt[p].req
  BY <1>1 DEF AttemptInv, Trailing
<1>3. CASE Refuse(p)
  BY <1>3, RefuseKeeps
<1>4. CASE ~Refuse(p)
  <2>1. /\ from \in {"prepared", "authority_finalized", "binding_persisted"}
        /\ to \in Trailed /\ next \in {"binding", "finish", "heads"}
        /\ next = "heads" => to = "complete"
    BY DEF Trailed
  <2>2. PICK c : c = authDb.checkpoints[r]
    OBVIOUS
  <2>3. /\ c.state = from /\ c.receipt = attempt[p].receipt
        /\ to \in {"binding_persisted", "complete"} => authDb.bindings[r] = c.receipt
        /\ authDb' = [authDb EXCEPT !.checkpoints[r].state = to]
        /\ attempt' = [attempt EXCEPT ![p].pc = next, ![p].checkpoint = to]
        /\ UNCHANGED sealed
    BY <1>2, <1>4, <2>2 DEF AdvanceCheckpoint, Rq
  <2>4. authDb.intents[r].state = "anchor_finalized" /\ Tied(authDb.intents[r])
    <3>1. PICK m : m = attempt[p].intent
      OBVIOUS
    <3>2. Remembers(r, m) /\ m.state = "anchor_finalized" /\ Tied(m)
      BY <1>1, <1>2, <3>1 DEF AttemptInv, Stored
    <3>. QED
      BY <3>2 DEF Remembers, Reaches, Tied, SamePlan
  <2>5. /\ TablesBut({"checkpoints"}) /\ RowsType' /\ TablesGrow /\ TrailGoesOn
        /\ authDb'.checkpoints[r].state = to
        /\ authDb'.checkpoints[r].receipt = c.receipt
    <3>1. to \in CheckpointStates \ {"none"} /\ authDb.checkpoints[r].state \notin {"none", "complete"}
      BY <2>1, <2>2, <2>3 DEF Trailed, CheckpointStates
    <3>. QED
      BY <2>2, <2>3, <2>4, <3>1, CheckpointMoved
  <2>6. c.receipt # 0
    <3>1. attempt[p].receipt \in DOMAIN authDb.receipts
      BY <1>1 DEF AttemptInv, Stored
    <3>2. authDb.receipts \in Seq([of : Requests \cup {NoValue}, generation : Nat])
      BY DEF AuthInv, StoreInv, RowsType
    <3>. QED
      BY <2>3, <3>1, <3>2, LenProperties
  <2>7. PICK at : at = [attempt[p] EXCEPT !.pc = next, !.checkpoint = to]
    OBVIOUS
  <2>8. attempt' = [attempt EXCEPT ![p] = at]
    BY <2>3, <2>7
  <2>9. SameBut(at, attempt[p], {"checkpoint"}) /\ at.pc = next /\ at.checkpoint = to
    BY <1>1, <2>7 DEF SameBut, AttemptFields
  <2>10. ASSUME NEW old, old = attempt[p], AttemptInv(old)' PROVE AttemptInv(at)'
    <3>1. to = "complete" => authDb'.bindings[r] # 0
      BY <2>3, <2>5, <2>6 DEF TablesBut
    <3>. QED
      BY <1>1, <1>2, <2>1, <2>5, <2>9, <2>10, <3>1 DEF AttemptInv, SameBut, Early, Stored, Reserving, Checkpointing, Committing, Finalizing, Trailing, Done
  <2>. QED
    BY <2>3, <2>5, <2>8, <2>10, TableWriteKeeps DEF TablesBut
<1>. QED
  BY <1>3, <1>4

(* The binding is of the checkpoint's receipt.                               *)
LEMMA AppendBindingKeeps == ASSUME AuthInv, NEW p \in Procs, AppendBinding(p) PROVE AuthInv'
<1>1. /\ AttemptInv(attempt[p]) /\ attempt[p].pc = "newbinding" /\ RowsType
  BY AttemptIs DEF AppendBinding, At, AuthInv, StoreInv
<1>2. CASE Refuse(p)
  BY <1>2, RefuseKeeps
<1>3. CASE ~Refuse(p)
  <2>1. PICK r \in Requests : r = attempt[p].req
    BY <1>1 DEF AttemptInv
  <2>2. PICK n : n = attempt[p].receipt
    OBVIOUS
  <2>3. PICK pc : pc = IfUnbound(attempt[p].checkpoint)
    OBVIOUS
  <2>4. /\ authDb' = [authDb EXCEPT !.bindings[r] = n] /\ authDb.bindings[r] = 0
        /\ Proceed(p, pc) /\ UNCHANGED sealed
    BY <1>3, <2>1, <2>2, <2>3 DEF AppendBinding, Rq
  <2>5. TablesBut({"bindings"}) /\ authDb'.bindings = [authDb.bindings EXCEPT ![r] = n]
    BY <1>1, <2>4 DEF RowsType, TablesBut, TableNames
  <2>6. n \in Nat \ {0}
    <3>1. n \in DOMAIN authDb.receipts
      BY <1>1, <2>2 DEF AttemptInv, Stored, Trailing
    <3>2. authDb.receipts \in Seq([of : Requests \cup {NoValue}, generation : Nat])
      BY DEF AuthInv, StoreInv, RowsType
    <3>. QED
      BY <3>1, <3>2, LenProperties
  <2>7. RowsType' /\ \A q \in Requests : authDb'.bindings[q] = IF q = r THEN n ELSE authDb.bindings[q]
    BY <1>1, <2>5, <2>6 DEF RowsType, TablesBut, AuthorityOK
  <2>8. TablesGrow
    BY <2>4, <2>5, <2>6, <2>7 DEF TablesBut, TablesGrow
  <2>9. authDb.checkpoints[r].state # "none" /\ authDb.checkpoints[r].receipt = n
    BY <1>1, <2>1, <2>2 DEF AttemptInv, Trailing
  <2>10. TrailGoesOn
    BY <2>5, <2>7, <2>9 DEF TablesBut, TrailGoesOn, AuthInv, StoreInv, TrailInv
  <2>11. /\ pc \in {"bind", "finish", "heads", "invalid"}
         /\ pc = "heads" => attempt[p].checkpoint = "complete"
    BY <2>3 DEF IfUnbound
  <2>12. PICK at : /\ attempt' = [attempt EXCEPT ![p] = at]
                   /\ SameBut(at, attempt[p], {}) /\ at.pc = pc
    BY <2>4, Proceeds
  <2>13. ASSUME NEW old, old = attempt[p], AttemptInv(old)' PROVE AttemptInv(at)'
    <3>1. pc = "heads" => authDb'.checkpoints[r].state = "complete" /\ authDb'.bindings[r] # 0
      BY <1>1, <2>1, <2>5, <2>6, <2>7, <2>11 DEF AttemptInv, Trailing, TablesBut
    <3>. QED
      BY <1>1, <2>1, <2>11, <2>12, <2>13, <3>1 DEF AttemptInv, SameBut, Early, Stored, Reserving, Checkpointing, Committing, Finalizing, Trailing, Done
  <2>. QED
    BY <2>4, <2>5, <2>7, <2>8, <2>10, <2>12, <2>13, TableWriteKeeps DEF TablesBut
<1>. QED
  BY <1>2, <1>3

-----------------------------------------------------------------------------
(* Steps of the authority, the intents and the keyring                       *)

(* Nothing of the trails is touched.                                         *)
LEMMA AnchorKeeps ==
    ASSUME AuthInv, AnchorGrows, RowsType', SealType', ChainInv', SealInv',
           TablesBut({"authority", "intents"}), NEW p \in Procs, NEW at,
           attempt' = [attempt EXCEPT ![p] = at],
           (\A old : old = attempt[p] /\ AttemptInv(old)' /\ DOMAIN attempt[p] = AttemptFields
                     => AttemptInv(at)')
    PROVE  AuthInv'
<1>1. Evolved
  BY DEF Evolved, TablesGrow, TablesBut
<1>2. TrailGoesOn
  BY DEF TrailGoesOn, TablesBut, AuthInv, StoreInv, TrailInv
<1>3. StoreInv'
  BY <1>1, <1>2, TrailStays DEF StoreInv, AuthInv
<1>4. PICK old : old = attempt[p]
  OBVIOUS
<1>5. AttemptInv(old) /\ DOMAIN attempt[p] = AttemptFields
  BY <1>4, AttemptIs
<1>6. AttemptInv(old)'
  BY <1>1, <1>5, AttemptStays DEF AuthInv
<1>. QED
  BY <1>1, <1>3, <1>4, <1>5, <1>6, WriteKeeps

(* _quarantine_inflight, the authority: its generation and root stay.        *)
LEMMA QuarantineAuthorityKeeps ==
    ASSUME AuthInv, NEW p \in Procs, QuarantineAuthority(p)
    PROVE  AuthInv'
<1>1. /\ AttemptInv(attempt[p]) /\ attempt[p].pc = "quarantine" /\ RowsType /\ SealType
  BY AttemptIs DEF QuarantineAuthority, At, AuthInv, StoreInv
<1>2. CASE Refuse(p)
  BY <1>2, RefuseKeeps
<1>3. CASE ~Refuse(p)
  <2>1. Proceed(p, "quarantine2") /\ UNCHANGED sealed
    BY <1>3 DEF QuarantineAuthority
  <2>2. TablesBut({"authority"})
    BY <1>1, <1>3 DEF QuarantineAuthority, RowsType, TablesBut, TableNames
  <2>3. /\ AuthorityOK(authDb'.authority)
        /\ authDb'.authority.generation = authDb.authority.generation
        /\ authDb'.authority.root = authDb.authority.root
    <3>1. AuthorityOK(authDb.authority) /\ DOMAIN authDb = TableNames
      BY <1>1 DEF RowsType
    <3>2. CASE UNCHANGED authDb
      BY <3>1, <3>2
    <3>3. ASSUME NEW a, a = IF authDb.authority.state = "active"
                            THEN [authDb.authority EXCEPT !.state = "quarantined",
                                                          !.version = authDb.authority.version + 1]
                            ELSE authDb.authority,
                 authDb' = [authDb EXCEPT !.authority = a]
          PROVE  /\ AuthorityOK(authDb'.authority)
                 /\ authDb'.authority.generation = authDb.authority.generation
                 /\ authDb'.authority.root = authDb.authority.root
      <4>1. authDb'.authority = a
        BY <3>1, <3>3 DEF TableNames
      <4>. QED
        BY <3>1, <3>3, <4>1 DEF AuthorityOK
    <3>. QED
      BY <1>3, <3>2, <3>3 DEF QuarantineAuthority
  <2>4. RowsType' /\ SealType'
    BY <1>1, <2>1, <2>2, <2>3 DEF RowsType, SealType, TablesBut
  <2>5. ChainInv' /\ SealInv'
    BY <2>1, <2>2, <2>3, ChainStays, SealStays DEF AuthInv, StoreInv, TablesBut
  <2>6. AnchorGrows
    BY <1>1, <2>1, <2>2, <2>3 DEF AnchorGrows, TablesBut, RowsType, AuthorityOK, SealType, SamePlan, Reaches
  <2>7. PICK at : /\ attempt' = [attempt EXCEPT ![p] = at]
                  /\ SameBut(at, attempt[p], {}) /\ at.pc = "quarantine2"
    BY <2>1, Proceeds
  <2>8. ASSUME NEW old, old = attempt[p], AttemptInv(old)' PROVE AttemptInv(at)'
    BY <1>1, <2>7, <2>8 DEF AttemptInv, SameBut, Early, Stored, Reserving, Checkpointing, Committing, Finalizing, Trailing, Done
  <2>9. TablesBut({"authority", "intents"})
    BY <2>2 DEF TablesBut
  <2>. QED
    BY <2>4, <2>5, <2>6, <2>7, <2>8, <2>9, AnchorKeeps
<1>. QED
  BY <1>2, <1>3

(* The chain of intents, as facts about two of them.                         *)
LEMMA ChainFacts ==
    ASSUME StoreInv, NEW r \in Requests
    PROVE  /\ authDb.authority.generation \in Nat /\ authDb.authority.root \in Roots
           /\ sealed.generation \in Nat
           /\ authDb.intents[r].state # "none" =>
                 /\ authDb.intents[r] \in [state : IntentStates, prior : Nat, priorRoot : Roots, root : Roots]
                 /\ authDb.intents[r].prior <= authDb.authority.generation
           /\ authDb.intents[r].state \in {"prepared", "anchor_reserved"} =>
                 /\ authDb.intents[r].prior = authDb.authority.generation
                 /\ authDb.intents[r].priorRoot = authDb.authority.root
BY IntentTypes DEF StoreInv, RowsType, AuthorityOK, SealType, ChainInv

(* One intent changes, and the tables keep their types.                      *)
LEMMA IntentWritten ==
    ASSUME AuthInv, NEW r \in Requests,
           NEW i \in [state : IntentStates, prior : Nat, priorRoot : Roots, root : Roots],
           NEW a, AuthorityOK(a),
           authDb' = [authDb EXCEPT !.intents[r] = i, !.authority = a]
    PROVE  /\ TablesBut({"authority", "intents"}) /\ RowsType'
           /\ authDb'.authority = a /\ authDb'.intents[r] = i
           /\ \A q \in Requests \ {r} : authDb'.intents[q] = authDb.intents[q]
<1>1. RowsType
  BY DEF AuthInv, StoreInv
<1>2. /\ TablesBut({"authority", "intents"}) /\ authDb'.authority = a
      /\ authDb'.intents = [authDb.intents EXCEPT ![r] = i]
  BY <1>1 DEF RowsType, TablesBut, TableNames
<1>3. authDb'.intents \in [Requests -> {NoIntent} \cup
           [state : IntentStates, prior : Nat, priorRoot : Roots, root : Roots]]
  BY <1>1, <1>2 DEF RowsType
<1>4. RowsType'
  BY <1>1, <1>2, <1>3 DEF RowsType, TablesBut
<1>. QED
  BY <1>1, <1>2, <1>4 DEF RowsType

(* prepare: beside no other intent in flight, and on the row as it stands.   *)
LEMMA PrepareKeeps == ASSUME AuthInv, NEW p \in Procs, Prepare(p) PROVE AuthInv'
<1>1. /\ AttemptInv(attempt[p]) /\ attempt[p].pc = "prepare" /\ StoreInv
  BY AttemptIs DEF Prepare, At, AuthInv
<1>2. CASE Refuse(p)
  BY <1>2, RefuseKeeps
<1>3. CASE ~Refuse(p)
  <2>1. PICK r \in Requests : r = attempt[p].req
    BY <1>1 DEF AttemptInv
  <2>2. PICK m : m = attempt[p].intent
    OBVIOUS
  <2>3. m \in [state : {"prepared"}, prior : Nat, priorRoot : Roots, root : Roots]
    BY <1>1, <2>2 DEF AttemptInv
  <2>4. /\ authDb' = [authDb EXCEPT !.intents[r] = m]
        /\ Proceed(p, "reserve") /\ UNCHANGED sealed
        /\ authDb.authority.generation = m.prior /\ authDb.authority.root = m.priorRoot
        /\ \A q \in Requests : authDb.intents[q].state \notin InFlight
        /\ authDb.intents[r].state = "none"
    BY <1>3, <2>1, <2>2 DEF Prepare, PrepareAllowed, Rq, Mine
  <2>5. PICK a : a = authDb.authority
    OBVIOUS
  <2>6. AuthorityOK(a) /\ authDb' = [authDb EXCEPT !.intents[r] = m, !.authority = a]
    <3>1. DOMAIN authDb = TableNames /\ AuthorityOK(a)
      BY <1>1, <2>5 DEF StoreInv, RowsType
    <3>. QED
      BY <2>4, <2>5, <3>1 DEF TableNames
  <2>7. m \in [state : IntentStates, prior : Nat, priorRoot : Roots, root : Roots]
    BY <2>3 DEF IntentStates
  <2>8. /\ TablesBut({"authority", "intents"}) /\ RowsType'
        /\ authDb'.authority = a /\ authDb'.intents[r] = m
        /\ \A q \in Requests \ {r} : authDb'.intents[q] = authDb.intents[q]
    BY <2>6, <2>7, IntentWritten
  <2>9. SealType'
    BY <1>1, <2>4 DEF StoreInv, SealType
  <2>10. ChainInv'
    BY <1>1, <2>3, <2>4, <2>5, <2>6, <2>8 DEF StoreInv, ChainInv, Committed, InFlight, AuthorityOK
  <2>11. SealInv'
    <3>1. sealed.pending # r /\ sealed.last # r
      BY <1>1, <2>4, AuthAssumption DEF StoreInv, SealInv, IntentStates
    <3>2. \A q \in Requests : q # r => authDb'.intents[q] = authDb.intents[q]
      BY <2>8
    <3>3. sealed.pending \in Requests \cup {NoValue} /\ sealed.last \in Requests \cup {NoValue}
      BY <1>1 DEF StoreInv, SealType
    <3>. QED
      BY <1>1, <2>3, <2>4, <2>5, <2>8, <3>1, <3>2, <3>3 DEF StoreInv, SealInv, Level, Behind
  <2>12. AnchorGrows
    BY <1>1, <2>4, <2>5, <2>6, <2>8 DEF AnchorGrows, StoreInv, AuthorityOK, SealType, SamePlan, Reaches, IntentStates
  <2>13. PICK at : /\ attempt' = [attempt EXCEPT ![p] = at]
                   /\ SameBut(at, attempt[p], {}) /\ at.pc = "reserve"
    BY <2>4, Proceeds
  <2>14. ASSUME NEW old, old = attempt[p], AttemptInv(old)' PROVE AttemptInv(at)'
    <3>1. Remembers(r, m)'
      BY <2>3, <2>8 DEF Remembers, IntentFields, IntentStates, SamePlan, Reaches, Applied
    <3>. QED
      BY <1>1, <2>1, <2>2, <2>3, <2>13, <2>14, <3>1 DEF AttemptInv, SameBut, Early, Stored, Reserving, Checkpointing, Committing, Finalizing, Trailing, Done
  <2>. QED
    BY <2>8, <2>9, <2>10, <2>11, <2>12, <2>13, <2>14, AnchorKeeps
<1>. QED
  BY <1>2, <1>3

(* An intent that the step takes from one state to the next, the authority   *)
(* with it.                                                                  *)
Advanced(r, from, to) ==
    /\ TablesBut({"authority", "intents"}) /\ RowsType' /\ SealType' /\ UNCHANGED sealed
    /\ authDb.intents[r].state = from /\ authDb'.intents[r].state = to
    /\ SamePlan(authDb'.intents[r], authDb.intents[r])
    /\ \A q \in Requests \ {r} : authDb'.intents[q] = authDb.intents[q]

RowAdvances(r, to, a) == authDb' = [authDb EXCEPT !.intents[r].state = to, !.authority = a]

(* What the write of an intent's state does to the tables.                   *)
LEMMA IntentAdvances ==
    ASSUME AuthInv, NEW r \in Requests, NEW from \in IntentStates, NEW to \in IntentStates,
           authDb.intents[r].state = from, NEW a, AuthorityOK(a), UNCHANGED sealed,
           RowAdvances(r, to, a)
    PROVE  Advanced(r, from, to) /\ authDb'.authority = a
<1>1. PICK i : i = [authDb.intents[r] EXCEPT !.state = to]
  OBVIOUS
<1>2. /\ RowsType /\ DOMAIN authDb = TableNames
      /\ authDb.intents[r] \in [state : IntentStates, prior : Nat, priorRoot : Roots, root : Roots]
  <2>1. authDb.intents[r].state # "none"
    BY DEF IntentStates
  <2>. QED
    BY <2>1, IntentTypes DEF AuthInv, StoreInv, RowsType
<1>3. /\ i \in [state : IntentStates, prior : Nat, priorRoot : Roots, root : Roots]
      /\ i.state = to /\ SamePlan(i, authDb.intents[r])
  BY <1>1, <1>2 DEF SamePlan
<1>4. authDb' = [authDb EXCEPT !.intents[r] = i, !.authority = a]
  BY <1>1, <1>2 DEF TableNames, RowsType, RowAdvances
<1>5. /\ TablesBut({"authority", "intents"}) /\ RowsType'
      /\ authDb'.authority = a /\ authDb'.intents[r] = i
      /\ \A q \in Requests \ {r} : authDb'.intents[q] = authDb.intents[q]
  BY <1>3, <1>4, IntentWritten
<1>6. SealType'
  BY DEF AuthInv, StoreInv, SealType
<1>. QED
  BY <1>3, <1>5, <1>6 DEF Advanced

(* What advance_commit leaves the attempt with.                              *)
LEMMA AdvanceCommits ==
    ASSUME AuthInv, NEW p \in Procs, NEW from \in IntentStates, NEW to \in IntentStates, NEW next,
           AdvanceCommit(p, from, to, next), ~Refuse(p),
           NEW r \in Requests, r = attempt[p].req, NEW m, m = attempt[p].intent, Remembers(r, m)
    PROVE  /\ Advanced(r, from, to) /\ SamePlan(authDb.intents[r], m)
           /\ to # "db_committed" => authDb'.authority = authDb.authority
           /\ to = "db_committed" =>
                 /\ authDb.authority.generation = m.prior /\ authDb.authority.root = m.priorRoot
                 /\ authDb'.authority.generation = m.prior + 1 /\ authDb'.authority.root = m.root
           /\ \E at : /\ attempt' = [attempt EXCEPT ![p] = at]
                      /\ SameBut(at, attempt[p], {"intent"}) /\ at.pc = next
                      /\ DOMAIN at.intent = IntentFields /\ at.intent.state = to
                      /\ SamePlan(at.intent, m)
<1>1. /\ DOMAIN attempt = Procs /\ DOMAIN attempt[p] = AttemptFields
      /\ RowsType /\ AuthorityOK(authDb.authority) /\ DOMAIN m = IntentFields
      /\ m.prior \in Nat /\ m.root \in Roots
  BY AttemptIs, RememberedTypes DEF AuthInv, StoreInv, RowsType, Remembers
<1>2. PICK a : a = IF to = "db_committed"
                   THEN [authDb.authority EXCEPT !.generation = m.prior + 1, !.root = m.root,
                                                 !.version = authDb.authority.version + 1]
                   ELSE authDb.authority
  OBVIOUS
<1>3. /\ authDb.intents[r] = [m EXCEPT !.state = from]
      /\ to = "db_committed" => authDb.authority.generation = m.prior /\ authDb.authority.root = m.priorRoot
      /\ authDb' = [authDb EXCEPT !.intents[r].state = to, !.authority = a]
      /\ attempt' = [attempt EXCEPT ![p].pc = next, ![p].intent.state = to]
      /\ UNCHANGED sealed
  <2>1. /\ AdvanceAllowed(p, from, to)
        /\ authDb' = [authDb EXCEPT !.intents[Rq(p)].state = to,
                            !.authority = IF to = "db_committed" THEN AdvancedAuthority(p) ELSE @]
        /\ attempt' = [attempt EXCEPT ![p].pc = next, ![p].intent.state = to]
        /\ UNCHANGED sealed
    BY DEF AdvanceCommit
  <2>2. a = IF to = "db_committed" THEN AdvancedAuthority(p) ELSE authDb.authority
    BY <1>2 DEF AdvancedAuthority, Mine
  <2>3. DOMAIN authDb = TableNames
    BY <1>1 DEF RowsType
  <2>. QED
    BY <2>1, <2>2, <2>3 DEF AdvanceAllowed, Rq, Mine, TableNames
<1>4. AuthorityOK(a)
  BY <1>1, <1>2 DEF AuthorityOK
<1>5. authDb.intents[r].state = from /\ SamePlan(authDb.intents[r], m)
  BY <1>1, <1>3 DEF SamePlan, IntentFields
<1>6. Advanced(r, from, to) /\ authDb'.authority = a
  <2>1. RowAdvances(r, to, a) /\ UNCHANGED sealed
    BY <1>3 DEF RowAdvances
  <2>2. authDb.intents[r].state = from
    BY <1>5
  <2>. QED
    BY <1>4, <2>1, <2>2, IntentAdvances
<1>7. PICK n : n = [m EXCEPT !.state = to]
  OBVIOUS
<1>8. PICK at : at = [attempt[p] EXCEPT !.pc = next, !.intent = n]
  OBVIOUS
<1>9. attempt' = [attempt EXCEPT ![p] = at]
  BY <1>1, <1>3, <1>7, <1>8 DEF AttemptFields
<1>10. SameBut(at, attempt[p], {"intent"}) /\ at.pc = next /\ at.intent = n
  BY <1>1, <1>8 DEF SameBut, AttemptFields
<1>11. DOMAIN n = IntentFields /\ n.state = to /\ SamePlan(n, m)
  BY <1>1, <1>7 DEF IntentFields, SamePlan
<1>12. to # "db_committed" => authDb'.authority = authDb.authority
  BY <1>2, <1>6
<1>13. to = "db_committed" => authDb'.authority.generation = m.prior + 1 /\ authDb'.authority.root = m.root
  BY <1>1, <1>2, <1>6 DEF AuthorityOK
<1>. QED
  BY <1>3, <1>5, <1>6, <1>9, <1>10, <1>11, <1>12, <1>13

(* A step of an intent is one that attempts expect.                          *)
LEMMA AdvancedGrows ==
    ASSUME StoreInv, NEW r \in Requests, NEW from \in IntentStates, NEW to \in IntentStates,
           Advanced(r, from, to), Reaches(to, from), to # "prepared",
           authDb.authority.generation <= authDb'.authority.generation
    PROVE  AnchorGrows
<1>1. sealed.generation \in Nat /\ authDb'.authority.generation \in Nat
  BY DEF StoreInv, SealType, Advanced, RowsType, AuthorityOK
<1>2. UNCHANGED sealed /\ sealed.generation <= sealed'.generation
  BY <1>1 DEF Advanced
<1>. QED
  BY <1>1, <1>2 DEF Advanced, AnchorGrows, SamePlan, Reaches

(* An attempt remembers what it has just written.                            *)
LEMMA RemembersWritten ==
    ASSUME NEW r \in Requests, NEW from \in IntentStates, NEW to \in IntentStates,
           Advanced(r, from, to), NEW m, SamePlan(authDb.intents[r], m),
           NEW n, DOMAIN n = IntentFields, n.state = to, SamePlan(n, m),
           to \in Applied => m.prior < authDb'.authority.generation
    PROVE  Remembers(r, n)'
BY DEF Advanced, Remembers, SamePlan, Reaches

(* advance_commit to anchor_reserved, once the keyring holds the reservation. *)
LEMMA MarkReservedKeeps == ASSUME AuthInv, NEW p \in Procs, MarkReserved(p) PROVE AuthInv'
<1>1. /\ AttemptInv(attempt[p]) /\ attempt[p].pc = "reserved" /\ StoreInv
      /\ AdvanceCommit(p, "prepared", "anchor_reserved", "checkpoint")
  BY AttemptIs DEF MarkReserved, At, AuthInv
<1>2. CASE Refuse(p)
  BY <1>2, RefuseKeeps
<1>3. CASE ~Refuse(p)
  <2>1. PICK r \in Requests : r = attempt[p].req
    BY <1>1 DEF AttemptInv
  <2>2. PICK m : m = attempt[p].intent
    OBVIOUS
  <2>3. Remembers(r, m)
    BY <1>1, <2>1, <2>2 DEF AttemptInv, Stored, Reserving
  <2>4. "prepared" \in IntentStates /\ "anchor_reserved" \in IntentStates
    BY DEF IntentStates
  <2>5. /\ Advanced(r, "prepared", "anchor_reserved") /\ SamePlan(authDb.intents[r], m)
        /\ authDb'.authority = authDb.authority
    BY <1>1, <1>3, <2>1, <2>2, <2>3, <2>4, AdvanceCommits
  <2>6. PICK at : /\ attempt' = [attempt EXCEPT ![p] = at]
                  /\ SameBut(at, attempt[p], {"intent"}) /\ at.pc = "checkpoint"
                  /\ DOMAIN at.intent = IntentFields /\ at.intent.state = "anchor_reserved"
                  /\ SamePlan(at.intent, m)
    BY <1>1, <1>3, <2>1, <2>2, <2>3, <2>4, AdvanceCommits
  <2>7. sealed.pending = r
    BY <1>1, <2>1, <2>5 DEF AttemptInv, Advanced
  <2>8. ChainInv'
    BY <1>1, <2>5 DEF StoreInv, ChainInv, Committed, InFlight, Advanced, SamePlan
  <2>9. SealInv'
    <3>1. \A q \in Requests : q # r => authDb'.intents[q] = authDb.intents[q]
      BY <2>5 DEF Advanced
    <3>2. r # NoValue /\ sealed.last \in Requests \cup {NoValue}
      BY <1>1, AuthAssumption DEF StoreInv, SealType
    <3>3. /\ authDb.intents[r].prior = sealed.generation /\ authDb.intents[r].priorRoot = sealed.root
          /\ authDb.intents[r].root = sealed.pendingRoot /\ Level
      BY <1>1, <2>5, <2>7, <3>2 DEF StoreInv, SealInv, Advanced
    <3>4. Level'
      BY <2>5, <3>3 DEF Level, Advanced
    <3>. QED
      BY <1>1, <2>5, <2>7, <3>1, <3>2, <3>3, <3>4 DEF StoreInv, SealInv, Advanced, SamePlan, IntentStates
  <2>10. AnchorGrows
    <3>1. authDb.authority.generation <= authDb'.authority.generation
      BY <1>1, <2>5 DEF StoreInv, RowsType, AuthorityOK
    <3>. QED
      BY <1>1, <2>4, <2>5, <3>1, AdvancedGrows DEF Reaches
  <2>11. Remembers(r, at.intent)'
    <3>1. PICK n : n = at.intent
      OBVIOUS
    <3>2. Remembers(r, n)'
      BY <2>4, <2>5, <2>6, <3>1, RemembersWritten DEF Applied
    <3>. QED
      BY <3>1, <3>2
  <2>12. ASSUME NEW old, old = attempt[p], AttemptInv(old)' PROVE AttemptInv(at)'
    BY <1>1, <2>1, <2>6, <2>11, <2>12 DEF AttemptInv, SameBut, Early, Stored, Reserving, Checkpointing, Committing, Finalizing, Trailing, Done
  <2>. QED
    BY <2>5, <2>6, <2>8, <2>9, <2>10, <2>12, AnchorKeeps DEF Advanced
<1>. QED
  BY <1>2, <1>3

(* advance_commit to db_committed: the row moves and the keyring is one behind. *)
LEMMA CommitAuthorityKeeps == ASSUME AuthInv, NEW p \in Procs, CommitAuthority(p) PROVE AuthInv'
<1>1. /\ AttemptInv(attempt[p]) /\ attempt[p].pc = "commit" /\ StoreInv
      /\ AdvanceCommit(p, "anchor_reserved", "db_committed", "finalize")
  BY AttemptIs DEF CommitAuthority, At, AuthInv
<1>2. CASE Refuse(p)
  BY <1>2, RefuseKeeps
<1>3. CASE ~Refuse(p)
  <2>1. PICK r \in Requests : r = attempt[p].req
    BY <1>1 DEF AttemptInv
  <2>2. PICK m : m = attempt[p].intent
    OBVIOUS
  <2>3. Remembers(r, m) /\ m.prior \in Nat
    BY <1>1, <2>1, <2>2, RememberedTypes DEF AttemptInv, Stored, Finalizing, StoreInv
  <2>4. "anchor_reserved" \in IntentStates /\ "db_committed" \in IntentStates
    BY DEF IntentStates
  <2>5. /\ Advanced(r, "anchor_reserved", "db_committed") /\ SamePlan(authDb.intents[r], m)
        /\ authDb.authority.generation = m.prior /\ authDb.authority.root = m.priorRoot
        /\ authDb'.authority.generation = m.prior + 1 /\ authDb'.authority.root = m.root
    BY <1>1, <1>3, <2>1, <2>2, <2>3, <2>4, AdvanceCommits
  <2>6. PICK at : /\ attempt' = [attempt EXCEPT ![p] = at]
                  /\ SameBut(at, attempt[p], {"intent"}) /\ at.pc = "finalize"
                  /\ DOMAIN at.intent = IntentFields /\ at.intent.state = "db_committed"
                  /\ SamePlan(at.intent, m)
    BY <1>1, <1>3, <2>1, <2>2, <2>3, <2>4, AdvanceCommits
  <2>7. /\ \A q \in Requests \ {r} : authDb'.intents[q] = authDb.intents[q]
        /\ \A q \in Requests \ {r} : authDb.intents[q].state \notin InFlight
        /\ authDb.intents[r].state = "anchor_reserved" /\ authDb'.intents[r].state = "db_committed"
        /\ authDb'.intents[r].prior = m.prior /\ authDb'.intents[r].root = m.root
        /\ authDb'.intents[r].priorRoot = m.priorRoot
    BY <1>1, <2>5 DEF Advanced, StoreInv, ChainInv, SamePlan, InFlight
  <2>8. \A q \in Requests : authDb.intents[q].state # "none" =>
            authDb.intents[q].prior \in Nat /\ authDb.intents[q].prior <= m.prior
    BY <1>1, <2>5, ChainFacts
  <2>9. \A q \in Requests \ {r} : Committed(q) =>
            authDb.intents[q].prior < m.prior /\ (authDb.intents[q].prior + 1 = m.prior => authDb.intents[q].root = m.priorRoot)
    BY <1>1, <2>5 DEF StoreInv, ChainInv
  <2>10. ChainInv'
    <3>1. \A q \in Requests : authDb'.intents[q].state # "none" => authDb'.intents[q].prior <= authDb'.authority.generation
      BY <2>3, <2>5, <2>7, <2>8
    <3>2. \A q, s \in Requests : q # s /\ authDb'.intents[q].state \in InFlight => authDb'.intents[s].state \notin InFlight
      BY <2>7
    <3>3. \A s \in Requests : authDb'.intents[s].state \notin {"prepared", "anchor_reserved"}
      BY <2>7 DEF InFlight
    <3>4. \A s \in Requests : authDb'.intents[s].state = "db_committed" =>
            /\ authDb'.intents[s].prior + 1 = authDb'.authority.generation
            /\ \A q \in Requests \ {s} : authDb'.intents[q].state # "none" => authDb'.intents[q].prior < authDb'.authority.generation
      <4>1. \A s \in Requests : authDb'.intents[s].state = "db_committed" => s = r
        BY <2>7 DEF InFlight
      <4>2. \A q \in Requests \ {r} : authDb'.intents[q].state # "none" => authDb'.intents[q].prior < m.prior + 1
        BY <2>3, <2>7, <2>8
      <4>. QED
        BY <2>5, <2>7, <4>1, <4>2
    <3>5. \A s \in Requests : Committed(s)' =>
              /\ authDb'.intents[s].prior < authDb'.authority.generation
              /\ authDb'.intents[s].prior + 1 = authDb'.authority.generation => authDb'.intents[s].root = authDb'.authority.root
      <4>. SUFFICES ASSUME NEW s \in Requests, Committed(s)'
                    PROVE  /\ authDb'.intents[s].prior < authDb'.authority.generation
                           /\ authDb'.intents[s].prior + 1 = authDb'.authority.generation => authDb'.intents[s].root = authDb'.authority.root
        OBVIOUS
      <4>1. CASE s = r
        BY <2>3, <2>5, <2>7, <4>1
      <4>2. CASE s # r
        <5>1. Committed(s) /\ authDb'.intents[s] = authDb.intents[s] /\ authDb.intents[s].state # "none"
          BY <2>7, <4>2 DEF Committed
        <5>. QED
          BY <2>3, <2>5, <2>8, <2>9, <4>2, <5>1
      <4>. QED
        BY <4>1, <4>2
    <3>6. \A s \in Requests : Committed(s)' => \A q \in Requests \ {s} : Committed(q)' =>
              /\ authDb'.intents[q].prior # authDb'.intents[s].prior
              /\ authDb'.intents[s].prior = authDb'.intents[q].prior + 1 => authDb'.intents[s].priorRoot = authDb'.intents[q].root
      <4>. SUFFICES ASSUME NEW s \in Requests, NEW q \in Requests \ {s}, Committed(s)', Committed(q)'
                    PROVE  /\ authDb'.intents[q].prior # authDb'.intents[s].prior
                           /\ authDb'.intents[s].prior = authDb'.intents[q].prior + 1 => authDb'.intents[s].priorRoot = authDb'.intents[q].root
        OBVIOUS
      <4>1. CASE s = r
        <5>1. Committed(q) /\ authDb'.intents[q] = authDb.intents[q] /\ authDb.intents[q].state # "none"
          BY <2>7, <4>1 DEF Committed
        <5>. QED
          BY <2>3, <2>7, <2>8, <2>9, <4>1, <5>1
      <4>2. CASE q = r
        <5>1. Committed(s) /\ authDb'.intents[s] = authDb.intents[s] /\ authDb.intents[s].state # "none"
          BY <2>7, <4>2 DEF Committed
        <5>. QED
          BY <2>3, <2>7, <2>8, <2>9, <4>2, <5>1
      <4>3. CASE s # r /\ q # r
        <5>1. /\ Committed(s) /\ authDb'.intents[s] = authDb.intents[s]
              /\ Committed(q) /\ authDb'.intents[q] = authDb.intents[q]
          BY <2>7, <4>3 DEF Committed
        <5>. QED
          BY <1>1, <5>1 DEF StoreInv, ChainInv
      <4>. QED
        BY <4>1, <4>2, <4>3
    <3>7. \A g \in Nat : g < authDb'.authority.generation =>
          \E s \in Requests : authDb'.intents[s].prior = g /\ authDb'.intents[s].state \in {"db_committed", "anchor_finalized", "quarantined"}
      <4>. SUFFICES ASSUME NEW g \in Nat, g < m.prior + 1
                    PROVE \E s \in Requests : authDb'.intents[s].prior = g /\ authDb'.intents[s].state \in {"db_committed", "anchor_finalized", "quarantined"}
        BY <2>5
      <4>1. CASE g = m.prior
        BY <2>7, <4>1
      <4>2. CASE g # m.prior
        <5>1. g < authDb.authority.generation
          BY <2>3, <2>5, <4>2
        <5>2. PICK s \in Requests : authDb.intents[s].prior = g /\ authDb.intents[s].state \in {"db_committed", "anchor_finalized", "quarantined"}
          BY <1>1, <5>1 DEF StoreInv, ChainInv
        <5>3. s # r
          BY <2>7, <5>2
        <5>. QED
          BY <2>7, <5>2, <5>3
      <4>. QED
        BY <4>1, <4>2
    <3>. QED
      BY <3>1, <3>2, <3>3, <3>4, <3>5, <3>6, <3>7 DEF ChainInv
  <2>11. SealInv'
    <3>2. r # NoValue /\ sealed.last \in Requests \cup {NoValue} /\ UNCHANGED sealed
      BY <1>1, <2>5, AuthAssumption DEF StoreInv, SealType, Advanced
    <3>3. /\ sealed.pending = r /\ Level
          /\ authDb.intents[r].prior = sealed.generation /\ authDb.intents[r].priorRoot = sealed.root
          /\ authDb.intents[r].root = sealed.pendingRoot
      BY <1>1, <2>7, <3>2 DEF StoreInv, SealInv
    <3>4. Behind(authDb.intents[r])'
      BY <2>5, <2>7, <3>2, <3>3 DEF Level, Behind
    <3>5. /\ m.prior = sealed.generation /\ m.priorRoot = sealed.root /\ m.root = sealed.pendingRoot
      BY <2>5, <3>3 DEF SamePlan
    <3>. QED
      BY <1>1, <2>7, <3>2, <3>3, <3>4, <3>5 DEF StoreInv, SealInv, IntentStates, InFlight
  <2>12. AnchorGrows
    <3>1. authDb.authority.generation <= authDb'.authority.generation
      BY <2>3, <2>5
    <3>. QED
      BY <1>1, <2>4, <2>5, <3>1, AdvancedGrows DEF Reaches
  <2>13. Remembers(r, at.intent)'
    <3>1. PICK n : n = at.intent
      OBVIOUS
    <3>2. m.prior < authDb'.authority.generation
      BY <2>3, <2>5
    <3>3. Remembers(r, n)'
      BY <2>4, <2>5, <2>6, <3>1, <3>2, RemembersWritten
    <3>. QED
      BY <3>1, <3>3
  <2>14. ASSUME NEW old, old = attempt[p], AttemptInv(old)' PROVE AttemptInv(at)'
    <3>1. Tied(at.intent)'
      BY <1>1, <2>2, <2>6, <2>14 DEF AttemptInv, Finalizing, Tied, SamePlan
    <3>. QED
      BY <1>1, <2>1, <2>6, <2>13, <2>14, <3>1 DEF AttemptInv, SameBut, Early, Stored, Reserving, Checkpointing, Committing, Finalizing, Trailing, Done
  <2>. QED
    BY <2>5, <2>6, <2>10, <2>11, <2>12, <2>14, AnchorKeeps DEF Advanced
<1>. QED
  BY <1>2, <1>3

(* advance_commit to anchor_finalized, once the keyring has followed.        *)
LEMMA MarkFinalizedKeeps == ASSUME AuthInv, NEW p \in Procs, MarkFinalized(p) PROVE AuthInv'
<1>1. /\ AttemptInv(attempt[p]) /\ attempt[p].pc = "finalized" /\ StoreInv
      /\ AdvanceCommit(p, "db_committed", "anchor_finalized", IfUntrailed(attempt[p].checkpoint))
  BY AttemptIs DEF MarkFinalized, At, AuthInv
<1>2. CASE Refuse(p)
  BY <1>2, RefuseKeeps
<1>3. CASE ~Refuse(p)
  <2>1. PICK r \in Requests : r = attempt[p].req
    BY <1>1 DEF AttemptInv
  <2>2. PICK m : m = attempt[p].intent
    OBVIOUS
  <2>3. /\ Remembers(r, m) /\ m.state = "db_committed" /\ Tied(m)
        /\ m.prior < sealed.generation /\ m.prior < authDb.authority.generation
    BY <1>1, <2>1, <2>2 DEF AttemptInv, Stored, Finalizing, Remembers, Applied
  <2>4. /\ "db_committed" \in IntentStates /\ "anchor_finalized" \in IntentStates
        /\ m.prior \in Nat /\ sealed.generation \in Nat
    BY <1>1, <2>3, RememberedTypes DEF IntentStates, StoreInv, SealType
  <2>5. PICK pc : pc = IfUntrailed(attempt[p].checkpoint)
    OBVIOUS
  <2>6. AdvanceCommit(p, "db_committed", "anchor_finalized", pc) /\ pc \in {"trail", "binding"}
    BY <1>1, <2>5 DEF IfUntrailed
  <2>7. /\ Advanced(r, "db_committed", "anchor_finalized") /\ SamePlan(authDb.intents[r], m)
        /\ authDb'.authority = authDb.authority
    BY <1>3, <2>1, <2>2, <2>3, <2>4, <2>6, AdvanceCommits
  <2>8. PICK at : /\ attempt' = [attempt EXCEPT ![p] = at]
                  /\ SameBut(at, attempt[p], {"intent"}) /\ at.pc = pc
                  /\ DOMAIN at.intent = IntentFields /\ at.intent.state = "anchor_finalized"
                  /\ SamePlan(at.intent, m)
    BY <1>3, <2>1, <2>2, <2>3, <2>4, <2>6, AdvanceCommits
  <2>9. ChainInv'
    BY <1>1, <2>7 DEF StoreInv, ChainInv, Committed, InFlight, Advanced, SamePlan
  <2>10. SealInv'
    <3>1. \A q \in Requests : q # r => authDb'.intents[q] = authDb.intents[q]
      BY <2>7 DEF Advanced
    <3>2. r # NoValue /\ sealed.last \in Requests \cup {NoValue} /\ UNCHANGED sealed
      BY <1>1, <2>7, AuthAssumption DEF StoreInv, SealType, Advanced
    <3>3. authDb'.intents[r].prior = m.prior /\ authDb.intents[r].prior = m.prior
      BY <2>7 DEF Advanced, SamePlan
    <3>4. sealed.pending # r
      BY <1>1, <2>3, <2>4, <3>2, <3>3 DEF StoreInv, SealInv
    <3>5. sealed.pending \in Requests \cup {NoValue} /\ (Level => Level')
          /\ authDb'.intents[r].state = "anchor_finalized"
      BY <1>1, <2>7, <3>2 DEF StoreInv, SealType, Level, Advanced
    <3>. QED
      BY <1>1, <2>3, <2>7, <3>1, <3>2, <3>3, <3>4, <3>5 DEF StoreInv, SealInv, Behind, IntentStates
  <2>11. AnchorGrows
    <3>1. authDb.authority.generation <= authDb'.authority.generation
      BY <1>1, <2>7 DEF StoreInv, RowsType, AuthorityOK
    <3>. QED
      BY <1>1, <2>4, <2>7, <3>1, AdvancedGrows DEF Reaches
  <2>12. Remembers(r, at.intent)'
    <3>1. PICK n : n = at.intent
      OBVIOUS
    <3>2. m.prior < authDb'.authority.generation
      BY <2>3, <2>7
    <3>3. Remembers(r, n)'
      BY <2>4, <2>7, <2>8, <3>1, <3>2, RemembersWritten
    <3>. QED
      BY <3>1, <3>3
  <2>13. ASSUME NEW old, old = attempt[p], AttemptInv(old)' PROVE AttemptInv(at)'
    <3>1. Tied(at.intent)'
      BY <1>1, <2>2, <2>8, <2>13 DEF AttemptInv, Finalizing, Tied, SamePlan
    <3>. QED
      BY <1>1, <2>1, <2>6, <2>8, <2>12, <2>13, <3>1 DEF AttemptInv, SameBut, Early, Stored, Reserving, Checkpointing, Committing, Finalizing, Trailing, Done
  <2>. QED
    BY <2>7, <2>8, <2>9, <2>10, <2>11, <2>13, AnchorKeeps DEF Advanced
<1>. QED
  BY <1>2, <1>3

(* _quarantine_inflight, the intent: a reservation may outlive it.           *)
LEMMA QuarantineIntentKeeps == ASSUME AuthInv, NEW p \in Procs, QuarantineIntent(p) PROVE AuthInv'
<1>1. /\ AttemptInv(attempt[p]) /\ attempt[p].pc = "quarantine3" /\ StoreInv /\ Reply(p)
  BY AttemptIs DEF QuarantineIntent, At, AuthInv
<1>2. CASE UNCHANGED <<authDb, sealed>>
  BY <1>1, <1>2, RefuseKeeps DEF Refuse
<1>3. CASE ~UNCHANGED <<authDb, sealed>>
  <2>1. PICK r \in Requests : r = attempt[p].req
    BY <1>1 DEF AttemptInv
  <2>2. PICK f : f = attempt[p].intent.state
    OBVIOUS
  <2>3. /\ f # "anchor_finalized" /\ authDb.intents[r].state = f
        /\ authDb' = [authDb EXCEPT !.intents[r].state = "quarantined"]
        /\ UNCHANGED sealed
    BY <1>3, <2>1, <2>2 DEF QuarantineIntent, Mine, Rq
  <2>4. f \in {"anchor_reserved", "db_committed"}
    BY <1>1, <2>2, <2>3 DEF AttemptInv, Stored, Reserving, Committing, Remembers, IntentStates
  <2>5. PICK a : a = authDb.authority
    OBVIOUS
  <2>6. AuthorityOK(a) /\ RowAdvances(r, "quarantined", a)
    <3>1. DOMAIN authDb = TableNames /\ AuthorityOK(a)
      BY <1>1, <2>5 DEF StoreInv, RowsType
    <3>. QED
      BY <2>3, <2>5, <3>1 DEF TableNames, RowAdvances
  <2>7. f \in IntentStates /\ "quarantined" \in IntentStates
    BY <2>4 DEF IntentStates
  <2>8. Advanced(r, f, "quarantined") /\ authDb'.authority = authDb.authority
    BY <2>3, <2>5, <2>6, <2>7, IntentAdvances
  <2>9. ChainInv'
    BY <1>1, <2>4, <2>8 DEF StoreInv, ChainInv, Committed, InFlight, Advanced, SamePlan
  <2>10. SealInv'
    <3>1. \A q \in Requests : q # r => authDb'.intents[q] = authDb.intents[q]
      BY <2>8 DEF Advanced
    <3>2. r # NoValue /\ sealed.last \in Requests \cup {NoValue} /\ UNCHANGED sealed
          /\ sealed.pending \in Requests \cup {NoValue}
      BY <1>1, <2>8, AuthAssumption DEF StoreInv, SealType, Advanced
    <3>3. /\ authDb'.intents[r].prior = authDb.intents[r].prior
          /\ authDb'.intents[r].priorRoot = authDb.intents[r].priorRoot
          /\ authDb'.intents[r].root = authDb.intents[r].root
          /\ authDb'.intents[r].state = "quarantined" /\ authDb.intents[r].state = f
      BY <2>8 DEF Advanced, SamePlan
    <3>4. sealed.pending = r => Level \/ Behind(authDb.intents[r])
      BY <1>1, <2>4, <3>2, <3>3 DEF StoreInv, SealInv
    <3>5. (Level => Level') /\ (Behind(authDb.intents[r]) => Behind(authDb.intents[r])')
      BY <2>8, <3>2, <3>3 DEF Level, Behind
    <3>6. sealed.pending = NoValue => Level'
      BY <1>1, <3>5 DEF StoreInv, SealInv
    <3>7. sealed.pending # NoValue =>
             LET i == authDb'.intents[sealed.pending] IN
             /\ i.state \in IntentStates \ {"anchor_finalized"}
             /\ i.prior = sealed.generation /\ i.priorRoot = sealed.root /\ i.root = sealed.pendingRoot
             /\ i.state \in {"prepared", "anchor_reserved"} => Level'
             /\ i.state = "db_committed" => Behind(authDb.intents[sealed.pending])'
             /\ i.state = "quarantined" => Level' \/ Behind(authDb.intents[sealed.pending])'
      <4>1. CASE sealed.pending = r
        BY <1>1, <2>4, <2>7, <3>2, <3>3, <3>4, <3>5, <4>1 DEF StoreInv, SealInv
      <4>2. CASE sealed.pending \in Requests \ {r}
        <5>1. PICK q \in Requests \ {r} : q = sealed.pending
          BY <4>2
        <5>2. /\ authDb'.intents[q] = authDb.intents[q]
              /\ Behind(authDb.intents[q]) => Behind(authDb.intents[q])'
          BY <2>8, <3>1, <3>2, <5>1 DEF Behind
        <5>. QED
          BY <1>1, <3>2, <3>5, <5>1, <5>2 DEF StoreInv, SealInv
      <4>. QED
        BY <3>2, <4>1, <4>2
    <3>8. /\ \A q \in Requests : authDb'.intents[q].state = "anchor_reserved" => sealed.pending = q
          /\ \A q \in Requests : authDb'.intents[q].state = "db_committed" =>
                sealed.pending = q \/ sealed.pending = NoValue
          /\ \A q \in Requests : authDb'.intents[q].state = "anchor_finalized" => authDb'.intents[q].prior < sealed.generation
          /\ sealed.last # NoValue => /\ authDb'.intents[sealed.last].state \in IntentStates
                                      /\ authDb'.intents[sealed.last].prior < sealed.generation
      BY <1>1, <2>7, <3>1, <3>2, <3>3 DEF StoreInv, SealInv
    <3>. QED
      BY <3>2, <3>6, <3>7, <3>8 DEF SealInv
  <2>11. AnchorGrows
    <3>1. authDb.authority.generation <= authDb'.authority.generation
      BY <1>1, <2>8 DEF StoreInv, RowsType, AuthorityOK
    <3>. QED
      BY <1>1, <2>4, <2>7, <2>8, <3>1, AdvancedGrows DEF Reaches
  <2>12. PICK at : at = NoAttempt
    OBVIOUS
  <2>13. attempt' = [attempt EXCEPT ![p] = at]
    BY <1>1, <2>12 DEF Reply
  <2>14. AttemptInv(at)'
    BY <2>12 DEF AttemptInv, NoAttempt, AttemptFields, Early, Stored, Reserving, Checkpointing, Committing,
                 Finalizing, Trailing, Done
  <2>. QED
    BY <2>8, <2>9, <2>10, <2>11, <2>13, <2>14, AnchorKeeps DEF Advanced
<1>. QED
  BY <1>2, <1>3

(* reserve: on a keyring that is level with the row, or one's own reservation. *)
LEMMA ReserveKeeps == ASSUME AuthInv, NEW p \in Procs, Reserve(p) PROVE AuthInv'
<1>1. /\ AttemptInv(attempt[p]) /\ attempt[p].pc = "reserve" /\ StoreInv
  BY AttemptIs DEF Reserve, At, AuthInv
<1>2. PICK r \in Requests : r = attempt[p].req
  BY <1>1 DEF AttemptInv
<1>3. PICK m : m = attempt[p].intent
  OBVIOUS
<1>4. Remembers(r, m) /\ m.state = "prepared"
  BY <1>1, <1>2, <1>3 DEF AttemptInv, Stored, Reserving
<1>5. CASE Refuse(p)
  BY <1>5, RefuseKeeps
<1>6. CASE ReserveReplays(p) /\ Proceed(p, "reserved") /\ UNCHANGED <<authDb, sealed>>
  <2>1. PICK at : /\ attempt' = [attempt EXCEPT ![p] = at]
                  /\ SameBut(at, attempt[p], {}) /\ at.pc = "reserved"
    BY <1>6, Proceeds
  <2>2. sealed.pending = r
    BY <1>2, <1>6 DEF ReserveReplays, Rq
  <2>3. AttemptInv(at)
    BY <1>1, <1>2, <2>1, <2>2 DEF AttemptInv, SameBut, Early, Stored, Reserving, Checkpointing, Committing, Finalizing, Trailing, Done
  <2>. QED
    BY <1>6, <2>1, <2>3, ReadKeeps
<1>7. CASE ~Refuse(p) /\ ~ReserveReplays(p)
  <2>1. /\ sealed.pending = NoValue /\ m.prior = sealed.generation /\ m.priorRoot = sealed.root
        /\ sealed' = [sealed EXCEPT !.pending = r, !.pendingRoot = m.root,
                 !.pendingHeads = IF @ = NoValue THEN sealed.heads ELSE @]
        /\ Proceed(p, "reserved") /\ UNCHANGED authDb
    BY <1>2, <1>3, <1>7 DEF Reserve, ReserveAllowed, Rq, Mine
  <2>2. DOMAIN sealed = SealFields /\ SealType
    BY <1>1 DEF StoreInv, SealType
  <2>3. /\ sealed'.pending = r /\ sealed'.pendingRoot = m.root /\ DOMAIN sealed' = SealFields
        /\ sealed'.generation = sealed.generation /\ sealed'.root = sealed.root /\ sealed'.last = sealed.last
    BY <2>1, <2>2 DEF SealFields
  <2>4. RowsType' /\ SealType'
    BY <1>1, <2>1, <2>2, <2>3 DEF StoreInv, RowsType, SealType, AuthorityOK
  <2>5. ChainInv'
    BY <1>1, <2>1, ChainStays DEF StoreInv
  <2>6. /\ authDb.intents[r].state \in IntentStates /\ SamePlan(authDb.intents[r], m)
        /\ authDb.authority.generation \in Nat /\ authDb.intents[r].prior \in Nat /\ r # NoValue
    BY <1>1, <1>4, ChainFacts, RememberedTypes, AuthAssumption DEF Remembers, SamePlan, StoreInv
  <2>7. Level /\ m.prior = authDb.authority.generation
    BY <1>1, <2>1 DEF StoreInv, SealInv, Level
  <2>8. authDb.intents[r].prior = authDb.authority.generation /\ authDb.intents[r].prior = sealed.generation
    BY <2>1, <2>6, <2>7 DEF SamePlan
  <2>9. authDb.intents[r].state # "anchor_finalized"
    BY <1>1, <2>6, <2>8 DEF StoreInv, SealInv
  <2>10. \A q \in Requests : authDb.intents[q].state \notin {"anchor_reserved", "db_committed"}
    <3>. SUFFICES ASSUME NEW q \in Requests
                  PROVE  authDb.intents[q].state # "anchor_reserved" /\ authDb.intents[q].state # "db_committed"
      OBVIOUS
    <3>1. authDb.intents[q].state # "anchor_reserved"
      BY <1>1, <2>1, AuthAssumption DEF StoreInv, SealInv
    <3>2. authDb.intents[q].state = "db_committed" => q # r
      BY <1>1, <2>6, <2>8 DEF StoreInv, ChainInv
    <3>3. authDb.intents[q].state = "db_committed" /\ q # r => authDb.intents[r].prior < authDb.authority.generation
      BY <1>1, <2>6 DEF StoreInv, ChainInv, IntentStates
    <3>. QED
      BY <2>6, <2>8, <3>1, <3>2, <3>3
  <2>11. SealInv'
    <3>1. Level'
      BY <2>1, <2>3, <2>7 DEF Level
    <3>2. authDb'.intents[r] = authDb.intents[r] /\ UNCHANGED authDb
      BY <2>1
    <3>. QED
      BY <1>1, <2>1, <2>3, <2>6, <2>9, <2>10, <3>1, <3>2 DEF StoreInv, SealInv, SamePlan, IntentStates
  <2>12. AnchorGrows
    <3>1. \A q \in Requests : q # NoValue
      BY AuthAssumption
    <3>2. sealed.generation \in Nat /\ sealed.generation <= sealed'.generation
      BY <2>2, <2>3 DEF SealType
    <3>. QED
      BY <2>1, <2>3, <2>6, <3>1, <3>2 DEF AnchorGrows, SamePlan, Reaches
  <2>13. TablesBut({"authority", "intents"})
    BY <1>1, <2>1 DEF TablesBut, StoreInv, RowsType
  <2>14. PICK at : /\ attempt' = [attempt EXCEPT ![p] = at]
                   /\ SameBut(at, attempt[p], {}) /\ at.pc = "reserved"
    BY <2>1, Proceeds
  <2>15. ASSUME NEW old, old = attempt[p], AttemptInv(old)' PROVE AttemptInv(at)'
    BY <1>1, <1>2, <2>3, <2>14, <2>15 DEF AttemptInv, SameBut, Early, Stored, Reserving, Checkpointing, Committing, Finalizing, Trailing, Done
  <2>. QED
    BY <2>4, <2>5, <2>11, <2>12, <2>13, <2>14, <2>15, AnchorKeeps
<1>. QED
  BY <1>5, <1>6, <1>7 DEF Reserve

(* finalize: the keyring follows the row that this intent has moved.         *)
LEMMA FinalizeKeeps == ASSUME AuthInv, NEW p \in Procs, Finalize(p) PROVE AuthInv'
<1>1. /\ AttemptInv(attempt[p]) /\ attempt[p].pc = "finalize" /\ StoreInv
  BY AttemptIs DEF Finalize, At, AuthInv
<1>2. PICK r \in Requests : r = attempt[p].req
  BY <1>1 DEF AttemptInv
<1>3. PICK m : m = attempt[p].intent
  OBVIOUS
<1>4. PICK pc : pc = IF m.state = "db_committed" THEN "finalized" ELSE IfUntrailed(attempt[p].checkpoint)
  OBVIOUS
<1>5. CASE Refuse(p)
  BY <1>5, RefuseKeeps
<1>6. CASE ~Refuse(p)
  <2>1. /\ m.state \in {"db_committed", "anchor_finalized"}
        /\ \/ sealed.last = r
           \/ /\ sealed.pending = r /\ sealed.pendingRoot = m.root
              /\ sealed.generation = m.prior /\ sealed.root = m.priorRoot
        /\ sealed' = IF sealed.last = r THEN sealed ELSE
              [sealed EXCEPT !.generation = m.prior + 1, !.root = m.root,
                             !.pending = NoValue, !.pendingRoot = NoValue, !.last = r]
        /\ Proceed(p, pc) /\ UNCHANGED authDb
    BY <1>2, <1>3, <1>4, <1>6 DEF Finalize, FinalizeAllowed, Rq, Mine
  <2>2. Remembers(r, m) /\ Tied(m) /\ m.prior \in Nat /\ m.root \in Roots
    BY <1>1, <1>2, <1>3, RememberedTypes DEF AttemptInv, Stored, Finalizing, StoreInv
  <2>3. /\ authDb.intents[r].state \in IntentStates /\ SamePlan(authDb.intents[r], m)
        /\ Reaches(authDb.intents[r].state, m.state) /\ m.prior < authDb.authority.generation
        /\ authDb.authority.generation \in Nat /\ sealed.generation \in Nat /\ r # NoValue
    BY <1>1, <2>1, <2>2, ChainFacts, AuthAssumption DEF Remembers, Applied
  <2>4. PICK at : /\ attempt' = [attempt EXCEPT ![p] = at]
                  /\ SameBut(at, attempt[p], {}) /\ at.pc = pc
    BY <2>1, Proceeds
  <2>5. /\ pc \in {"finalized", "trail", "binding"}
        /\ pc = "finalized" => m.state = "db_committed"
        /\ pc \in {"trail", "binding"} => m.state = "anchor_finalized"
    BY <1>4, <2>1 DEF IfUntrailed
  <2>6. CASE sealed.last = r
    <3>1. m.prior < sealed.generation
      BY <1>1, <2>3, <2>6 DEF StoreInv, SealInv, SamePlan
    <3>2. AttemptInv(at)
      BY <1>1, <1>2, <1>3, <2>2, <2>4, <2>5, <3>1 DEF AttemptInv, SameBut, Early, Stored, Reserving, Checkpointing, Committing, Finalizing, Trailing, Done
    <3>3. UNCHANGED <<authDb, sealed>>
      BY <2>1, <2>6
    <3>. QED
      BY <2>4, <3>2, <3>3, ReadKeeps
  <2>7. CASE sealed.last # r
    <3>1. /\ sealed.pending = r /\ sealed.generation = m.prior
          /\ sealed' = [sealed EXCEPT !.generation = m.prior + 1, !.root = m.root,
                             !.pending = NoValue, !.pendingRoot = NoValue, !.last = r]
      BY <2>1, <2>7
    <3>2. DOMAIN sealed = SealFields /\ SealType
      BY <1>1 DEF StoreInv, SealType
    <3>3. /\ sealed'.generation = m.prior + 1 /\ sealed'.root = m.root /\ DOMAIN sealed' = SealFields
          /\ sealed'.pending = NoValue /\ sealed'.last = r
      BY <3>1, <3>2 DEF SealFields
    <3>4. RowsType' /\ SealType'
      BY <1>1, <2>1, <2>2, <3>3 DEF StoreInv, RowsType, SealType, AuthorityOK
    <3>5. ChainInv'
      BY <1>1, <2>1, ChainStays DEF StoreInv
    <3>6. authDb.intents[r].state \in {"db_committed", "quarantined"} /\ Behind(authDb.intents[r])
      <4>1. authDb.intents[r].state \in {"db_committed", "quarantined"}
        BY <1>1, <2>1, <2>3, <3>1 DEF StoreInv, SealInv, Reaches, IntentStates
      <4>2. ~Level
        BY <2>2, <2>3, <3>1 DEF Level
      <4>. QED
        BY <1>1, <2>3, <3>1, <4>1, <4>2 DEF StoreInv, SealInv
    <3>7. Level'
      BY <2>1, <2>3, <3>1, <3>3, <3>6 DEF Level, Behind, SamePlan
    <3>8. SealInv'
      <4>1. \A q \in Requests : authDb.intents[q].state # "anchor_reserved"
        BY <1>1, <3>1, <3>6 DEF StoreInv, SealInv
      <4>2. \A q \in Requests : authDb.intents[q].state = "anchor_finalized" => authDb.intents[q].prior < m.prior + 1
        <5>. SUFFICES ASSUME NEW q \in Requests, authDb.intents[q].state = "anchor_finalized"
                      PROVE  authDb.intents[q].prior < m.prior + 1
          OBVIOUS
        <5>1. authDb.intents[q].prior < m.prior /\ authDb.intents[q].prior \in Nat
          BY <1>1, <3>1, ChainFacts DEF StoreInv, SealInv
        <5>. QED
          BY <2>2, <5>1
      <4>3. authDb.intents[r].prior < m.prior + 1
        BY <2>2, <2>3 DEF SamePlan
      <4>. QED
        BY <2>1, <2>3, <3>3, <3>7, <4>1, <4>2, <4>3 DEF SealInv
    <3>9. AnchorGrows
      <4>1. sealed.generation <= sealed'.generation /\ sealed'.generation \in Nat
        BY <2>2, <3>1, <3>3
      <4>. QED
        BY <2>1, <2>3, <3>1, <3>6, <4>1 DEF AnchorGrows, SamePlan, Reaches
    <3>10. TablesBut({"authority", "intents"})
      BY <1>1, <2>1 DEF TablesBut, StoreInv, RowsType
    <3>11. m.prior < sealed'.generation
      BY <2>2, <3>3
    <3>12. ASSUME NEW old, old = attempt[p], AttemptInv(old)' PROVE AttemptInv(at)'
      BY <1>1, <1>2, <1>3, <2>4, <2>5, <3>11, <3>12 DEF AttemptInv, SameBut, Early, Stored, Reserving, Checkpointing, Committing, Finalizing, Trailing, Done
    <3>. QED
      BY <2>4, <3>4, <3>5, <3>8, <3>9, <3>10, <3>12, AnchorKeeps
  <2>. QED
    BY <2>6, <2>7
<1>. QED
  BY <1>5, <1>6

(* finalize_audit_histories: the heads alone change.                         *)
LEMMA SealHeadsKeeps == ASSUME AuthInv, NEW p \in Procs, SealHeads(p) PROVE AuthInv'
<1>1. /\ AttemptInv(attempt[p]) /\ attempt[p].pc = "seal" /\ StoreInv
  BY AttemptIs DEF SealHeads, At, AuthInv
<1>2. CASE Refuse(p)
  BY <1>2, RefuseKeeps
<1>3. CASE ~Refuse(p)
  <2>1. /\ sealed' = [sealed EXCEPT !.heads = attempt[p].heads, !.pendingHeads = NoValue]
        /\ Proceed(p, "complete") /\ UNCHANGED authDb
    BY <1>3 DEF SealHeads
  <2>2. DOMAIN sealed = SealFields /\ SealType
    BY <1>1 DEF StoreInv, SealType
  <2>3. /\ sealed'.generation = sealed.generation /\ sealed'.root = sealed.root
        /\ sealed'.pending = sealed.pending /\ sealed'.pendingRoot = sealed.pendingRoot
        /\ sealed'.last = sealed.last /\ DOMAIN sealed' = SealFields
    BY <2>1, <2>2 DEF SealFields
  <2>4. RowsType' /\ SealType'
    BY <1>1, <2>1, <2>2, <2>3 DEF StoreInv, RowsType, SealType, AuthorityOK
  <2>5. ChainInv'
    BY <1>1, <2>1, ChainStays DEF StoreInv
  <2>6. SealInv'
    BY <1>1, <2>1, <2>3 DEF StoreInv, SealInv, Level, Behind
  <2>7. AnchorGrows
    <3>1. /\ authDb.authority.generation \in Nat /\ sealed.generation \in Nat
          /\ sealed.generation <= sealed'.generation
      BY <1>1, <2>2, <2>3 DEF StoreInv, RowsType, AuthorityOK, SealType
    <3>. QED
      BY <2>1, <2>3, <3>1 DEF AnchorGrows, SamePlan, Reaches
  <2>8. TablesBut({"authority", "intents"})
    BY <1>1, <2>1 DEF TablesBut, StoreInv, RowsType
  <2>9. PICK at : /\ attempt' = [attempt EXCEPT ![p] = at]
                  /\ SameBut(at, attempt[p], {}) /\ at.pc = "complete"
    BY <2>1, Proceeds
  <2>10. ASSUME NEW old, old = attempt[p], AttemptInv(old)' PROVE AttemptInv(at)'
    BY <1>1, <2>9, <2>10 DEF AttemptInv, SameBut, Early, Stored, Reserving, Checkpointing, Committing, Finalizing, Trailing, Done
  <2>. QED
    BY <2>4, <2>5, <2>6, <2>7, <2>8, <2>9, <2>10, AnchorKeeps
<1>. QED
  BY <1>2, <1>3

(* The three steps of the trail, and those that write nothing here.          *)
LEMMA TrailKeeps ==
    ASSUME AuthInv, NEW p \in Procs,
           MarkAuthorityFinalized(p) \/ PersistBinding(p) \/ CompleteCheckpoint(p) \/ CheckpointInvalid(p)
    PROVE  AuthInv'
<1>1. CASE MarkAuthorityFinalized(p)
  <2>1. attempt[p].pc \in Trailing /\ AdvanceCheckpoint(p, "prepared", "authority_finalized", "binding")
    BY <1>1 DEF MarkAuthorityFinalized, At, Trailing
  <2>. QED
    BY <2>1, AdvanceCheckpointKeeps
<1>2. CASE PersistBinding(p)
  <2>1. attempt[p].pc \in Trailing /\ AdvanceCheckpoint(p, "authority_finalized", "binding_persisted", "finish")
    BY <1>2 DEF PersistBinding, At, Trailing
  <2>. QED
    BY <2>1, AdvanceCheckpointKeeps
<1>3. CASE CompleteCheckpoint(p)
  <2>1. attempt[p].pc \in Trailing /\ AdvanceCheckpoint(p, "binding_persisted", "complete", "heads")
    BY <1>3 DEF CompleteCheckpoint, At, Trailing
  <2>. QED
    BY <2>1, AdvanceCheckpointKeeps
<1>4. CASE CheckpointInvalid(p)
  BY <1>4, RefuseKeeps DEF CheckpointInvalid
<1>. QED
  BY <1>1, <1>2, <1>3, <1>4

(* A step that touches neither the stored state nor an attempt.              *)
LEMMA QuietKeeps == ASSUME AuthInv, UNCHANGED <<authDb, sealed, attempt>> PROVE AuthInv'
BY StoreStays, NothingEvolves, AttemptsStay DEF AuthInv

(* Every step of an attempt keeps the invariant.                             *)
LEMMA AttemptKeeps == ASSUME AuthInv, NEW p \in Procs, Attempt(p) PROVE AuthInv'
BY ClaimKeeps, CompleteEnvelopeKeeps, LoadIntentKeeps, LoadAuthorityKeeps, LoadReceiptKeeps,
   NumberReceiptKeeps, AppendReceiptKeeps, PlanKeeps, PrepareKeeps, ReserveKeeps, MarkReservedKeeps,
   LoadCheckpointKeeps, PrepareCheckpointKeeps, AddProjectKeeps, ValidateCommitmentsKeeps,
   AppendCommitmentsKeeps, QuarantineAuthorityKeeps, QuarantineCheckpointKeeps, QuarantineIntentKeeps,
   CommitAuthorityKeeps, FinalizeKeeps, MarkFinalizedKeeps, LoadBindingKeeps, AppendBindingKeeps,
   TrailKeeps, ReadHeadsKeeps, SealHeadsKeeps
   DEF Attempt

(* The invariant of the anchored authority.                                  *)
LEMMA AuthorityInvariant == AuthSpec => []AuthInv
<1>1. AuthInv /\ [AuthNext]_authVars => AuthInv'
  <2>. SUFFICES ASSUME AuthInv, [AuthNext]_authVars PROVE AuthInv'
    OBVIOUS
  <2>1. ASSUME NEW r \in Requests, IssueProof(r) PROVE AuthInv'
    BY <2>1, QuietKeeps DEF IssueProof
  <2>2. ASSUME NEW r \in Requests, AppendSnapshot(r) PROVE AuthInv'
    BY <2>2, AppendSnapshotKeeps
  <2>3. ASSUME NEW p \in Procs, NEW r \in Requests, Authorize(p, r) PROVE AuthInv'
    BY <2>3, AuthorizeKeeps
  <2>4. ASSUME NEW p \in Procs, Attempt(p) PROVE AuthInv'
    BY <2>4, AttemptKeeps
  <2>5. ASSUME NEW p \in Procs, AttemptDies(p) PROVE AuthInv'
    BY <2>5, AttemptDiesKeeps
  <2>6. CASE AuditedDecision
    BY <2>6, AuditedDecisionKeeps
  <2>7. ASSUME NEW g \in DOMAIN authDb.commitments, Tamper(g) PROVE AuthInv'
    BY <2>7, TamperKeeps
  <2>8. CASE UNCHANGED authVars
    BY <2>8, QuietKeeps DEF authVars
  <2>. QED
    BY <2>1, <2>2, <2>3, <2>4, <2>5, <2>6, <2>7, <2>8 DEF AuthNext
<1>. QED
  BY <1>1, AuthInitInv, PTL DEF AuthSpec

(* The sealed generation in the keyring follows the authority row, or is one *)
(* behind it for the intent that holds the reservation; at most one intent   *)
(* is in flight; a project that readers see is anchored; and its receipt,    *)
(* checkpoint and binding are one trail.  Whatever attempts interleave, die  *)
(* between two writes and are repeated, for any number of requests.          *)
THEOREM AnchorSoundHolds == AuthSpec => []AnchorSound
<1>1. AuthInv => AnchorSound
  BY StoreIsSound DEF AuthInv
<1>. QED
  BY <1>1, AuthorityInvariant, PTL

-----------------------------------------------------------------------------
(* A create that is alone in its workspace                                   *)

(* Alone, a create writes its rows in one order, and every attempt goes on   *)
(* where the last one died: the whole state follows from the number n of     *)
(* writes that have been done, of seventeen.                                 *)
Writes == 0..17
RootOf(r) ==
    [generation |-> 1, version |-> 2, projects |-> {r}, intents |-> {r},
     receipts |-> 1, envelopes |-> {r}, snapshots |-> {r}]
GenesisAuthority == [generation |-> 0, root |-> GenesisRoot, state |-> "active", version |-> 1]
AuthorityAt(r, n) ==
    IF n < 9 THEN GenesisAuthority ELSE [generation |-> 1, root |-> RootOf(r), state |-> "active", version |-> 2]
StoredIntent(r, state) == [state |-> state, prior |-> 0, priorRoot |-> GenesisRoot, root |-> RootOf(r)]
IntentAt(r, n) ==
    IF n < 3 THEN NoIntent
    ELSE StoredIntent(r, IF n < 5 THEN "prepared" ELSE IF n < 9 THEN "anchor_reserved"
                         ELSE IF n < 11 THEN "db_committed" ELSE "anchor_finalized")
CheckpointState(n) ==
    IF n < 6 THEN "none" ELSE IF n < 12 THEN "prepared" ELSE IF n < 14 THEN "authority_finalized"
    ELSE IF n < 15 THEN "binding_persisted" ELSE "complete"
EnvelopeAt(n) == IF n < 1 THEN "none" ELSE IF n < 17 THEN "in_progress" ELSE "succeeded"
Only(r, row, others) == [q \in Requests |-> IF q = r THEN row ELSE others]
ReceiptsAt(r, n) == IF n < 2 THEN <<>> ELSE <<[of |-> r, generation |-> 0]>>
CheckpointAt(n) == IF n < 6 THEN NoCheckpoint ELSE [state |-> CheckpointState(n), receipt |-> 1]
BindingAt(n) == IF n < 13 THEN 0 ELSE 1
ProjectsAt(r, n) == IF n < 7 THEN {} ELSE {r}
PlanAt(r, n) == IF n < 8 THEN NoValue ELSE RootOf(r)
RowsAt(d, r, n) ==
    /\ DOMAIN d = TableNames
    /\ d.authority = AuthorityAt(r, n)
    /\ d.intents = Only(r, IntentAt(r, n), NoIntent)
    /\ d.receipts = ReceiptsAt(r, n)
    /\ d.checkpoints = Only(r, CheckpointAt(n), NoCheckpoint)
    /\ d.bindings = Only(r, BindingAt(n), 0)
    /\ d.projects = ProjectsAt(r, n)
    /\ d.envelopes = Only(r, EnvelopeAt(n), "none")
    /\ d.snapshots \subseteq {r} /\ (n > 0 => d.snapshots = {r})
    /\ DOMAIN d.commitments = 0..Cardinality(Requests)
    /\ d.commitments[0] = GenesisRoot /\ d.commitments[1] = PlanAt(r, n)
FinalHeads(r) == [checkpoints |-> Only(r, "complete", "none"), bindings |-> Only(r, 1, 0)]
KeyringAt(s, r, n) ==
    /\ DOMAIN s = SealFields
    /\ s.generation = (IF n < 10 THEN 0 ELSE 1)
    /\ s.root = (IF n < 10 THEN GenesisRoot ELSE RootOf(r))
    /\ s.pending = (IF n \in 4..9 THEN r ELSE NoValue)
    /\ s.pendingRoot = (IF n \in 4..9 THEN RootOf(r) ELSE NoValue)
    /\ s.heads = (IF n < 16 THEN GenesisHeads ELSE FinalHeads(r))
    /\ s.pendingHeads = (IF n \in 4..15 THEN GenesisHeads ELSE NoValue)
    /\ s.last = (IF n < 10 THEN NoValue ELSE r)

(* Where an attempt can be after n writes, and what it has read by then.     *)
PlacesAt(n) ==
    {"claim"}
    \cup (IF n \in 1..16 THEN {"intent", "authority", "receipt"} ELSE {})
    \cup (IF n = 1 THEN {"record", "append"} ELSE {})
    \cup (IF n \in 2..16 THEN {"plan"} ELSE {})
    \cup (IF n = 2 THEN {"prepare"} ELSE {})
    \cup (IF n \in 3..4 THEN {"reserve"} ELSE {})
    \cup (IF n = 4 THEN {"reserved"} ELSE {})
    \cup (IF n \in 5..16 THEN {"checkpoint"} ELSE {})
    \cup (IF n = 5 THEN {"newcheckpoint"} ELSE {})
    \cup (IF n \in 6..16 THEN {"project"} ELSE {})
    \cup (IF n \in 7..16 THEN {"commitments"} ELSE {})
    \cup (IF n = 7 THEN {"newcommitments"} ELSE {})
    \cup (IF n = 8 THEN {"commit"} ELSE {})
    \cup (IF n \in 9..16 THEN {"finalize"} ELSE {})
    \cup (IF n = 10 THEN {"finalized"} ELSE {})
    \cup (IF n = 11 THEN {"trail"} ELSE {})
    \cup (IF n \in 12..16 THEN {"binding"} ELSE {})
    \cup (IF n = 12 THEN {"newbinding"} ELSE {})
    \cup (IF n = 13 THEN {"bind"} ELSE {})
    \cup (IF n = 14 THEN {"finish"} ELSE {})
    \cup (IF n \in 15..16 THEN {"heads", "seal"} ELSE {})
    \cup (IF n = 16 THEN {"complete"} ELSE {})
Planning == {"receipt", "record", "append", "plan"}
Numbered == {"append", "plan", "prepare", "reserve", "reserved", "checkpoint", "newcheckpoint"}
Checkpointed == {"project", "commitments", "newcommitments", "commit", "finalize", "finalized", "trail",
                 "binding", "newbinding", "bind", "finish", "heads", "seal", "complete"}
IntentRead(r, n, pc) ==
    IF pc \in {"claim", "intent"} THEN NoValue
    ELSE IF pc \in Planning /\ n < 3 THEN [StoredIntent(r, "prepared") EXCEPT !.root = NoValue]
    ELSE IF pc = "prepare" THEN StoredIntent(r, "prepared") ELSE IntentAt(r, n)
Doing(at, r, n, pc) ==
    /\ DOMAIN at = AttemptFields /\ at.pc = pc /\ at.req = r
    /\ pc \in Planning => at.view = AuthorityAt(r, n) /\ (at.fresh <=> n < 3)
    /\ at.intent = IntentRead(r, n, pc)
    /\ pc \in Numbered \cup Checkpointed => at.receipt = 1
    /\ pc \in Checkpointed => at.checkpoint = CheckpointState(n)
    /\ pc = "seal" => at.heads = FinalHeads(r)

(* One request has a proof; nobody is at work on it, or one process is.      *)
Reached(r, n) ==
    /\ RowsAt(authDb, r, n) /\ KeyringAt(sealed, r, n)
    /\ proof = Only(r, [generation |-> 0, root |-> GenesisRoot], NoValue)
Working(p, r, n, pc) ==
    /\ Reached(r, n) /\ authDb.snapshots = {r}
    /\ DOMAIN attempt = Procs /\ Doing(attempt[p], r, n, pc)
    /\ \A q \in Procs \ {p} : attempt[q] = NoAttempt
AllIdle == DOMAIN attempt = Procs /\ \A q \in Procs : attempt[q] = NoAttempt
Begun(r) ==
    \E n \in Writes :
        /\ Reached(r, n)
        /\ AllIdle \/ \E p \in Procs : \E pc \in PlacesAt(n) : Working(p, r, n, pc)
OneCreateInv ==
    /\ crashes \in Nat
    /\ scenario = "alone" =>
          \/ \E r \in Requests : Begun(r)
          \/ /\ AllIdle /\ proof = [r \in Requests |-> NoValue]
             /\ \A r \in Requests : RowsAt(authDb, r, 0) /\ authDb.snapshots = {} /\ KeyringAt(sealed, r, 0)

(* A process that goes on: somewhere, after as many writes or one more.      *)
Goes(p, r) == \E m \in Writes : \E place \in PlacesAt(m) : Working(p, r, m, place)'

(* A process that is done: nobody is at work, and the create is answered.    *)
Ends(r) == AllIdle' /\ Reached(r, 17)'

(* The places, and after how many writes an attempt is there.                *)
LEMMA Places ==
    ASSUME NEW n \in Writes, NEW pc \in PlacesAt(n)
    PROVE  /\ pc \in {"claim", "intent", "authority", "prepare", "reserve", "reserved", "checkpoint", "newcheckpoint"}
                     \cup Planning \cup Checkpointed
           /\ pc \in {"intent", "authority", "receipt"} => n \in 1..16
           /\ pc \in {"record", "append"} => n = 1
           /\ pc = "plan" => n \in 2..16
           /\ pc = "prepare" => n = 2
           /\ pc = "reserve" => n \in 3..4
           /\ pc = "reserved" => n = 4
           /\ pc = "checkpoint" => n \in 5..16
           /\ pc = "newcheckpoint" => n = 5
           /\ pc = "project" => n \in 6..16
           /\ pc = "commitments" => n \in 7..16
           /\ pc = "newcommitments" => n = 7
           /\ pc = "commit" => n = 8
           /\ pc = "finalize" => n \in 9..16
           /\ pc = "finalized" => n = 10
           /\ pc = "trail" => n = 11
           /\ pc = "binding" => n \in 12..16
           /\ pc = "newbinding" => n = 12
           /\ pc = "bind" => n = 13
           /\ pc = "finish" => n = 14
           /\ pc \in {"heads", "seal"} => n \in 15..16
           /\ pc = "complete" => n = 16
           /\ n \in Nat /\ n <= 17 /\ pc # "idle"
BY DEF PlacesAt, Planning, Checkpointed, Writes

(* What a process at work has, and what is stored then.                      *)
LEMMA WorkingFacts ==
    ASSUME NEW p \in Procs, NEW r \in Requests, NEW n \in Writes, NEW pc \in PlacesAt(n), Working(p, r, n, pc)
    PROVE  /\ attempt[p].pc = pc /\ Rq(p) = r /\ Mine(p) = IntentRead(r, n, pc)
           /\ DOMAIN attempt = Procs /\ DOMAIN attempt[p] = AttemptFields /\ Doing(attempt[p], r, n, pc)
           /\ RowsAt(authDb, r, n) /\ KeyringAt(sealed, r, n) /\ authDb.snapshots = {r}
           /\ authDb.authority = AuthorityAt(r, n)
           /\ authDb.intents[r] = IntentAt(r, n)
           /\ authDb.receipts = ReceiptsAt(r, n)
           /\ authDb.checkpoints[r] = CheckpointAt(n)
           /\ authDb.bindings[r] = BindingAt(n)
           /\ authDb.projects = ProjectsAt(r, n)
           /\ authDb.envelopes[r] = EnvelopeAt(n)
           /\ authDb.commitments[1] = PlanAt(r, n)
BY DEF Working, Reached, Doing, RowsAt, Only, Rq, Mine

(* A row of the request is replaced.                                         *)
LEMMA OnlyReplaced ==
    ASSUME NEW r \in Requests, NEW a, NEW b, NEW c
    PROVE  [Only(r, a, b) EXCEPT ![r] = c] = Only(r, c, b)
BY DEF Only

(* Generation one has its commitments, since there is a request.             *)
LEMMA FirstGeneration == ASSUME NEW r \in Requests PROVE {0, 1} \subseteq 0..Cardinality(Requests)
<1>1. Cardinality(Requests) \in Nat /\ Cardinality(Requests) # 0
  BY AuthAssumption, FS_CardinalityType, FS_EmptySet
<1>. QED
  BY <1>1

(* What stands for no value is none of these.                                *)
LEMMA NoValueIsNone ==
    ASSUME NEW r \in Requests
    PROVE  /\ NoValue # r /\ RootOf(r) # NoValue /\ GenesisRoot # NoValue /\ GenesisHeads # NoValue
           /\ RootOf(r) # GenesisRoot
<1>1. RootOf(r) \in Roots /\ RootOf(r).generation = 1
  BY DEF RootOf, Roots
<1>2. GenesisRoot \in Roots /\ GenesisRoot.generation = 0
  BY DEF GenesisRoot, Root, GenesisRows, Roots
<1>3. GenesisHeads \in Heads
  BY DEF GenesisHeads, Heads
<1>. QED
  BY <1>1, <1>2, <1>3, AuthAssumption

(* A step of a process that reads, or does again what has been done.         *)
LEMMA ReadsAlone ==
    ASSUME NEW p \in Procs, NEW r \in Requests, NEW n \in Writes, NEW pc \in PlacesAt(n), Working(p, r, n, pc),
           UNCHANGED <<authDb, sealed, proof>>, NEW place \in PlacesAt(n), NEW at, Doing(at, r, n, place),
           attempt' = [attempt EXCEPT ![p] = at]
    PROVE  Goes(p, r)
<1>1. DOMAIN attempt' = Procs /\ attempt'[p] = at /\ \A q \in Procs \ {p} : attempt'[q] = NoAttempt
  BY DEF Working
<1>2. Working(p, r, n, place)'
  BY <1>1 DEF Working, Reached
<1>. QED
  BY <1>2 DEF Goes

(* A step of a process that writes.                                          *)
LEMMA WritesAlone ==
    ASSUME NEW p \in Procs, NEW r \in Requests, NEW n \in Writes, NEW pc \in PlacesAt(n), Working(p, r, n, pc),
           NEW m \in Writes, RowsAt(authDb', r, m), authDb'.snapshots = {r}, KeyringAt(sealed', r, m), UNCHANGED proof,
           NEW place \in PlacesAt(m), NEW at, Doing(at, r, m, place), attempt' = [attempt EXCEPT ![p] = at]
    PROVE  Goes(p, r)
<1>1. DOMAIN attempt' = Procs /\ attempt'[p] = at /\ \A q \in Procs \ {p} : attempt'[q] = NoAttempt
  BY DEF Working
<1>2. Working(p, r, m, place)'
  BY <1>1 DEF Working, Reached
<1>. QED
  BY <1>2 DEF Goes

(* An attempt that goes on to the next place has what it had.                *)
LEMMA GoesOn ==
    ASSUME NEW p \in Procs, DOMAIN attempt = Procs, DOMAIN attempt[p] = AttemptFields, NEW place, Proceed(p, place)
    PROVE  \E at : /\ attempt' = [attempt EXCEPT ![p] = at]
                   /\ SameBut(at, attempt[p], {}) /\ at.pc = place /\ at.heads = attempt[p].heads
<1>1. PICK at : at = [attempt[p] EXCEPT !.pc = place]
  OBVIOUS
<1>2. attempt' = [attempt EXCEPT ![p] = at]
  BY <1>1 DEF Proceed
<1>3. SameBut(at, attempt[p], {}) /\ at.pc = place /\ at.heads = attempt[p].heads
  BY <1>1 DEF SameBut, AttemptFields
<1>. QED
  BY <1>2, <1>3

(* The envelope of the request is claimed, again if an attempt has died.     *)
LEMMA ClaimAlone ==
    ASSUME NEW p \in Procs, NEW r \in Requests, NEW n \in Writes, NEW pc \in PlacesAt(n), Working(p, r, n, pc),
           Claim(p)
    PROVE  Goes(p, r) \/ (Ends(r) /\ n = 17)
<1>1. /\ pc = "claim" /\ Rq(p) = r /\ n \in Nat /\ n <= 17
      /\ DOMAIN attempt = Procs /\ DOMAIN attempt[p] = AttemptFields /\ Doing(attempt[p], r, n, pc)
      /\ RowsAt(authDb, r, n) /\ KeyringAt(sealed, r, n) /\ authDb.snapshots = {r}
      /\ authDb.envelopes[r] = EnvelopeAt(n)
  BY WorkingFacts, Places DEF Claim, At
<1>2. CASE n = 17
  <2>1. authDb.envelopes[r] = "succeeded"
    BY <1>1, <1>2 DEF EnvelopeAt
  <2>2. attempt' = [attempt EXCEPT ![p] = NoAttempt] /\ UNCHANGED <<authDb, sealed, proof>>
    BY <1>1, <2>1 DEF Claim, Refuse, Reply, Unmoved
  <2>3. AllIdle'
    BY <1>1, <2>2 DEF AllIdle, Working
  <2>4. Reached(r, 17)'
    BY <1>2, <2>2 DEF Working, Reached
  <2>. QED
    BY <1>2, <2>3, <2>4 DEF Ends
<1>3. CASE n # 17
  <2>1. authDb.envelopes[r] # "succeeded"
    BY <1>1, <1>3 DEF EnvelopeAt
  <2>2. PICK m \in 1..16 : m = IF n = 0 THEN 1 ELSE n
    BY <1>1, <1>3
  <2>3. /\ TablesBut({"envelopes"}) /\ UNCHANGED <<sealed, proof>> /\ Proceed(p, "intent")
        /\ authDb'.envelopes = [authDb.envelopes EXCEPT ![r] = "in_progress"]
    BY <1>1, <2>1 DEF Claim, Claimed, Unmoved, TablesBut, TableNames, RowsAt
  <2>4. PICK at : /\ attempt' = [attempt EXCEPT ![p] = at]
                  /\ SameBut(at, attempt[p], {}) /\ at.pc = "intent"
    BY <1>1, <2>3, GoesOn
  <2>5. Doing(at, r, m, "intent")
    BY <1>1, <2>4 DEF Doing, SameBut, IntentRead, Planning, Numbered, Checkpointed
  <2>6. authDb'.envelopes = Only(r, EnvelopeAt(m), "none")
    BY <1>1, <2>2, <2>3, OnlyReplaced DEF RowsAt, EnvelopeAt
  <2>7. RowsAt(authDb', r, m)
    <3>1. CASE n = 0
      BY <1>1, <2>2, <2>3, <2>6, <3>1 DEF RowsAt, TablesBut, AuthorityAt, IntentAt, ReceiptsAt, CheckpointAt,
         BindingAt, ProjectsAt, PlanAt
    <3>2. CASE n # 0
      BY <1>1, <2>2, <2>3, <2>6, <3>2 DEF RowsAt, TablesBut
    <3>. QED
      BY <3>1, <3>2
  <2>8. KeyringAt(sealed', r, m)
    BY <1>1, <2>2, <2>3 DEF KeyringAt
  <2>9. m \in Writes /\ "intent" \in PlacesAt(m) /\ authDb'.snapshots = {r}
    BY <1>1, <2>2, <2>3 DEF Writes, PlacesAt, TablesBut
  <2>. QED
    BY <2>3, <2>4, <2>5, <2>7, <2>8, <2>9, WritesAlone
<1>. QED
  BY <1>2, <1>3

(* The intent is read.                                                       *)
LEMMA LoadIntentAlone ==
    ASSUME NEW p \in Procs, NEW r \in Requests, NEW n \in Writes, NEW pc \in PlacesAt(n), Working(p, r, n, pc),
           LoadIntent(p)
    PROVE  Goes(p, r)
<1>1. /\ pc = "intent" /\ Rq(p) = r /\ n \in 1..16 /\ authDb.intents[r] = IntentAt(r, n)
      /\ DOMAIN attempt[p] = AttemptFields /\ Doing(attempt[p], r, n, pc)
  BY WorkingFacts, Places DEF LoadIntent, At
<1>2. PICK at : at = [attempt[p] EXCEPT !.pc = "authority", !.intent = IntentAt(r, n)]
  OBVIOUS
<1>3. attempt' = [attempt EXCEPT ![p] = at] /\ UNCHANGED <<authDb, sealed, proof>>
  BY <1>1, <1>2 DEF LoadIntent, Unmoved
<1>4. Doing(at, r, n, "authority")
  BY <1>1, <1>2 DEF Doing, AttemptFields, IntentRead, Planning, Numbered, Checkpointed
<1>5. "authority" \in PlacesAt(n)
  BY <1>1 DEF PlacesAt
<1>. QED
  BY <1>3, <1>4, <1>5, ReadsAlone

(* The authority is read: it is never quarantined.                           *)
LEMMA LoadAuthorityAlone ==
    ASSUME NEW p \in Procs, NEW r \in Requests, NEW n \in Writes, NEW pc \in PlacesAt(n), Working(p, r, n, pc),
           LoadAuthority(p)
    PROVE  Goes(p, r)
<1>1. /\ pc = "authority" /\ Rq(p) = r /\ n \in 1..16 /\ authDb.authority = AuthorityAt(r, n)
      /\ attempt[p].intent = IntentRead(r, n, pc) /\ DOMAIN attempt[p] = AttemptFields /\ Doing(attempt[p], r, n, pc)
  BY WorkingFacts, Places DEF LoadAuthority, At, Mine
<1>2. IntentRead(r, n, pc) = IntentAt(r, n) /\ AuthorityAt(r, n).state = "active"
  BY <1>1 DEF IntentRead, Planning, AuthorityAt, GenesisAuthority
<1>3. IntentAt(r, n).state # "quarantined" /\ (IntentAt(r, n).state = "none" <=> n < 3)
  BY <1>1 DEF IntentAt, NoIntent, StoredIntent
<1>4. PICK m : m = IntentRead(r, n, "receipt")
  OBVIOUS
<1>5. n < 3 => m = [state |-> "prepared", prior |-> authDb.authority.generation,
                    priorRoot |-> authDb.authority.root, root |-> NoValue]
  BY <1>1, <1>4 DEF IntentRead, Planning, StoredIntent, AuthorityAt, GenesisAuthority
<1>6. ~(n < 3) => m = IntentAt(r, n)
  BY <1>4 DEF IntentRead, Planning
<1>7. m = IF IntentAt(r, n).state # "none" THEN IntentAt(r, n)
          ELSE [state |-> "prepared", prior |-> authDb.authority.generation,
                priorRoot |-> authDb.authority.root, root |-> NoValue]
  BY <1>3, <1>5, <1>6, Zenon
<1>8. PICK old : old = attempt[p].intent
  OBVIOUS
<1>9. /\ old = IntentAt(r, n) /\ authDb.authority.state # "quarantined" /\ old.state # "quarantined"
      /\ m = IF old.state # "none" THEN old ELSE
                [state |-> "prepared", prior |-> authDb.authority.generation,
                 priorRoot |-> authDb.authority.root, root |-> NoValue]
  BY <1>1, <1>2, <1>3, <1>7, <1>8
<1>10. PICK at : at = [attempt[p] EXCEPT !.pc = "receipt", !.view = authDb.authority,
                                         !.fresh = (old.state = "none"), !.intent = m]
  OBVIOUS
<1>11. attempt' = [attempt EXCEPT ![p] = at] /\ UNCHANGED <<authDb, sealed, proof>>
  <2>1. /\ UNCHANGED <<authDb, sealed, proof>>
        /\ attempt' = [attempt EXCEPT
               ![p].pc = "receipt", ![p].view = authDb.authority, ![p].fresh = (old.state = "none"),
               ![p].intent = IF @.state # "none" THEN @ ELSE
                  [state |-> "prepared", prior |-> authDb.authority.generation,
                   priorRoot |-> authDb.authority.root, root |-> NoValue]]
    BY <1>8, <1>9 DEF LoadAuthority, Unmoved, Mine
  <2>2. attempt' = [attempt EXCEPT
               ![p].pc = "receipt", ![p].view = authDb.authority, ![p].fresh = (old.state = "none"),
               ![p].intent = m]
    BY <1>8, <1>9, <2>1
  <2>. QED
    BY <1>10, <2>1, <2>2
<1>12. /\ DOMAIN at = AttemptFields /\ at.pc = "receipt" /\ at.req = r /\ at.intent = m
       /\ at.view = AuthorityAt(r, n) /\ (at.fresh <=> n < 3)
  BY <1>1, <1>3, <1>9, <1>10 DEF AttemptFields, Doing
<1>13. Doing(at, r, n, "receipt")
  BY <1>4, <1>12 DEF Doing, Planning, Numbered, Checkpointed
<1>14. "receipt" \in PlacesAt(n)
  BY <1>1 DEF PlacesAt
<1>. QED
  BY <1>11, <1>13, <1>14, ReadsAlone

(* The receipts of the request: none, then one.                              *)
LEMMA ReceiptsAlone ==
    ASSUME NEW r \in Requests, NEW n \in Writes, authDb.receipts = ReceiptsAt(r, n)
    PROVE  /\ n < 2 => ReceiptsOf(r) = {} /\ Len(authDb.receipts) = 0
           /\ ~(n < 2) => ReceiptsOf(r) = {1} /\ Len(authDb.receipts) = 1
<1>1. CASE n < 2
  BY <1>1 DEF ReceiptsAt, ReceiptsOf
<1>2. CASE ~(n < 2)
  <2>1. DOMAIN authDb.receipts = {1} /\ authDb.receipts[1].of = r /\ Len(authDb.receipts) = 1
    BY <1>2 DEF ReceiptsAt
  <2>. QED
    BY <1>2, <2>1 DEF ReceiptsOf
<1>. QED
  BY <1>1, <1>2

(* The receipt is looked for, and is there exactly when one was written.     *)
LEMMA LoadReceiptAlone ==
    ASSUME NEW p \in Procs, NEW r \in Requests, NEW n \in Writes, NEW pc \in PlacesAt(n), Working(p, r, n, pc),
           LoadReceipt(p)
    PROVE  Goes(p, r)
<1>1. /\ pc = "receipt" /\ Rq(p) = r /\ n \in 1..16 /\ authDb.receipts = ReceiptsAt(r, n)
      /\ DOMAIN attempt = Procs /\ DOMAIN attempt[p] = AttemptFields /\ Doing(attempt[p], r, n, pc)
      /\ UNCHANGED <<authDb, sealed, proof>>
  BY WorkingFacts, Places DEF LoadReceipt, At, Unmoved
<1>2. Cardinality({}) = 0 /\ Cardinality({1}) = 1
  BY FS_EmptySet, FS_Singleton
<1>3. CASE n < 2
  <2>1. ReceiptsOf(r) = {}
    BY <1>1, <1>3, ReceiptsAlone
  <2>2. Proceed(p, "record")
    BY <1>1, <1>2, <2>1 DEF LoadReceipt
  <2>3. PICK at : /\ attempt' = [attempt EXCEPT ![p] = at]
                  /\ SameBut(at, attempt[p], {}) /\ at.pc = "record"
    BY <1>1, <2>2, GoesOn
  <2>4. Doing(at, r, n, "record")
    BY <1>1, <2>3 DEF Doing, SameBut, IntentRead, Planning, Numbered, Checkpointed
  <2>5. "record" \in PlacesAt(n)
    BY <1>1, <1>3 DEF PlacesAt
  <2>. QED
    BY <1>1, <2>3, <2>4, <2>5, ReadsAlone
<1>4. CASE ~(n < 2)
  <2>1. ReceiptsOf(r) = {1}
    BY <1>1, <1>4, ReceiptsAlone
  <2>2. attempt' = [attempt EXCEPT ![p].pc = "plan", ![p].receipt = 1]
    BY <1>1, <1>2, <2>1 DEF LoadReceipt
  <2>3. PICK at : at = [attempt[p] EXCEPT !.pc = "plan", !.receipt = 1]
    OBVIOUS
  <2>4. attempt' = [attempt EXCEPT ![p] = at]
    BY <2>2, <2>3
  <2>5. Doing(at, r, n, "plan")
    BY <1>1, <2>3 DEF Doing, AttemptFields, IntentRead, Planning, Numbered, Checkpointed
  <2>6. "plan" \in PlacesAt(n)
    BY <1>1, <1>4 DEF PlacesAt
  <2>. QED
    BY <1>1, <2>4, <2>5, <2>6, ReadsAlone
<1>. QED
  BY <1>3, <1>4

(* The proof of the request is of the generation that the intent begins at.  *)
LEMMA NumberReceiptAlone ==
    ASSUME NEW p \in Procs, NEW r \in Requests, NEW n \in Writes, NEW pc \in PlacesAt(n), Working(p, r, n, pc),
           NumberReceipt(p)
    PROVE  Goes(p, r)
<1>1. /\ pc = "record" /\ Rq(p) = r /\ n = 1 /\ authDb.receipts = ReceiptsAt(r, n)
      /\ DOMAIN attempt = Procs /\ DOMAIN attempt[p] = AttemptFields /\ Doing(attempt[p], r, n, pc)
      /\ Mine(p) = IntentRead(r, n, pc) /\ UNCHANGED <<authDb, sealed, proof>>
  BY WorkingFacts, Places DEF NumberReceipt, At, Unmoved
<1>2. proof[r] = [generation |-> 0, root |-> GenesisRoot]
  BY DEF Working, Reached, Only
<1>3. Mine(p).prior = 0 /\ Mine(p).priorRoot = GenesisRoot
  BY <1>1 DEF IntentRead, Planning, StoredIntent
<1>4. Len(authDb.receipts) + 1 = 1
  BY <1>1, ReceiptsAlone
<1>5. attempt' = [attempt EXCEPT ![p].pc = "append", ![p].receipt = 1]
  BY <1>1, <1>2, <1>3, <1>4 DEF NumberReceipt
<1>6. PICK at : at = [attempt[p] EXCEPT !.pc = "append", !.receipt = 1]
  OBVIOUS
<1>7. attempt' = [attempt EXCEPT ![p] = at]
  BY <1>5, <1>6
<1>8. Doing(at, r, n, "append")
  BY <1>1, <1>6 DEF Doing, AttemptFields, IntentRead, Planning, Numbered, Checkpointed
<1>9. "append" \in PlacesAt(n)
  BY <1>1 DEF PlacesAt
<1>. QED
  BY <1>1, <1>7, <1>8, <1>9, ReadsAlone

(* The receipt is written under the number that was read.                    *)
LEMMA AppendReceiptAlone ==
    ASSUME NEW p \in Procs, NEW r \in Requests, NEW n \in Writes, NEW pc \in PlacesAt(n), Working(p, r, n, pc),
           AppendReceipt(p)
    PROVE  Goes(p, r)
<1>1. /\ pc = "append" /\ Rq(p) = r /\ n = 1 /\ authDb.receipts = ReceiptsAt(r, n)
      /\ DOMAIN attempt = Procs /\ DOMAIN attempt[p] = AttemptFields /\ Doing(attempt[p], r, n, pc)
      /\ Mine(p) = IntentRead(r, n, pc) /\ UNCHANGED proof
      /\ RowsAt(authDb, r, n) /\ KeyringAt(sealed, r, n) /\ authDb.snapshots = {r}
  BY WorkingFacts, Places DEF AppendReceipt, At, Unmoved
<1>2. attempt[p].receipt = 1 /\ Len(authDb.receipts) + 1 = 1 /\ authDb.receipts = <<>>
  BY <1>1, ReceiptsAlone DEF Doing, Numbered, ReceiptsAt
<1>3. Mine(p).prior = 0
  BY <1>1 DEF IntentRead, Planning, StoredIntent
<1>4. /\ TablesBut({"receipts"}) /\ UNCHANGED sealed /\ Proceed(p, "plan")
      /\ authDb'.receipts = Append(<<>>, [of |-> r, generation |-> 0])
  BY <1>1, <1>2, <1>3 DEF AppendReceipt, Refuse, TablesBut, TableNames, RowsAt
<1>5. PICK at : /\ attempt' = [attempt EXCEPT ![p] = at]
                /\ SameBut(at, attempt[p], {}) /\ at.pc = "plan"
  BY <1>1, <1>4, GoesOn
<1>6. Doing(at, r, 2, "plan")
  BY <1>1, <1>5 DEF Doing, SameBut, IntentRead, Planning, Numbered, Checkpointed, AuthorityAt
<1>7. authDb'.receipts = ReceiptsAt(r, 2)
  BY <1>4 DEF ReceiptsAt
<1>8. RowsAt(authDb', r, 2)
  <2>1. /\ AuthorityAt(r, 1) = AuthorityAt(r, 2) /\ IntentAt(r, 1) = IntentAt(r, 2)
        /\ CheckpointAt(1) = CheckpointAt(2) /\ BindingAt(1) = BindingAt(2)
        /\ ProjectsAt(r, 1) = ProjectsAt(r, 2) /\ EnvelopeAt(1) = EnvelopeAt(2) /\ PlanAt(r, 1) = PlanAt(r, 2)
    BY DEF AuthorityAt, IntentAt, CheckpointAt, BindingAt, ProjectsAt, EnvelopeAt, PlanAt
  <2>. QED
    BY <1>1, <1>4, <1>7, <2>1 DEF RowsAt, TablesBut
<1>9. KeyringAt(sealed', r, 2)
  BY <1>1, <1>4 DEF KeyringAt
<1>10. 2 \in Writes /\ "plan" \in PlacesAt(2) /\ authDb'.snapshots = {r}
  BY <1>1, <1>4 DEF Writes, PlacesAt, TablesBut
<1>. QED
  BY <1>1, <1>5, <1>6, <1>8, <1>9, <1>10, WritesAlone

(* What is planned is the root that a create alone has at generation one.    *)
LEMMA PlannedAlone ==
    ASSUME NEW p \in Procs, NEW r \in Requests, NEW n \in Writes, NEW pc \in PlacesAt(n), Working(p, r, n, pc),
           pc = "plan"
    PROVE  /\ Planned(p) = RootOf(r)
           /\ PriorMatches(p) \/ FinalizedMatches(p)
<1>1. /\ Rq(p) = r /\ n \in 2..16 /\ Doing(attempt[p], r, n, pc) /\ Mine(p) = IntentRead(r, n, pc)
      /\ RowsAt(authDb, r, n) /\ authDb.receipts = ReceiptsAt(r, n) /\ authDb.snapshots = {r}
      /\ authDb.projects = ProjectsAt(r, n)
  BY WorkingFacts, Places
<1>2. attempt[p].view = AuthorityAt(r, n)
  BY <1>1 DEF Doing, Planning
<1>3. TargetAuthority(p).generation = 1 /\ TargetAuthority(p).version = 2
      /\ (PriorMatches(p) \/ FinalizedMatches(p))
  <2>1. CASE n < 9
    <3>1. AuthorityAt(r, n) = GenesisAuthority /\ Mine(p).prior = 0 /\ Mine(p).priorRoot = GenesisRoot
      BY <1>1, <2>1 DEF AuthorityAt, IntentRead, Planning, IntentAt, StoredIntent
    <3>2. PriorMatches(p)
      BY <1>2, <3>1 DEF PriorMatches, GenesisAuthority
    <3>. QED
      BY <1>2, <3>1, <3>2 DEF TargetAuthority, GenesisAuthority
  <2>2. CASE ~(n < 9)
    <3>1. /\ AuthorityAt(r, n) = [generation |-> 1, root |-> RootOf(r), state |-> "active", version |-> 2]
          /\ Mine(p).prior = 0 /\ Mine(p).root = RootOf(r)
      BY <1>1, <2>2 DEF AuthorityAt, IntentRead, Planning, IntentAt, StoredIntent
    <3>2. ~PriorMatches(p) /\ FinalizedMatches(p)
      BY <1>2, <3>1 DEF PriorMatches, FinalizedMatches
    <3>. QED
      BY <1>2, <3>1, <3>2 DEF TargetAuthority
  <2>. QED
    BY <2>1, <2>2
<1>4. authDb.projects \cup {r} = {r}
  BY <1>1 DEF ProjectsAt
<1>5. IntentRows \cup {r} = {r}
  BY <1>1 DEF IntentRows, RowsAt, Only, NoIntent
<1>6. Len(authDb.receipts) = 1
  BY <1>1, ReceiptsAlone
<1>7. {q \in Requests : authDb.envelopes[q] # "none"} = {r}
  BY <1>1 DEF RowsAt, Only, EnvelopeAt
<1>8. Planned(p) = RootOf(r)
  BY <1>1, <1>3, <1>4, <1>5, <1>6, <1>7 DEF Planned, Root, RootOf
<1>. QED
  BY <1>3, <1>8

(* The plan is made, or made again and the same.                             *)
LEMMA PlanAlone ==
    ASSUME NEW p \in Procs, NEW r \in Requests, NEW n \in Writes, NEW pc \in PlacesAt(n), Working(p, r, n, pc),
           Plan(p)
    PROVE  Goes(p, r)
<1>1. /\ pc = "plan" /\ Rq(p) = r /\ n \in 2..16 /\ DOMAIN attempt = Procs
      /\ DOMAIN attempt[p] = AttemptFields /\ Doing(attempt[p], r, n, pc)
      /\ Mine(p) = IntentRead(r, n, pc) /\ UNCHANGED <<authDb, sealed, proof>>
  BY WorkingFacts, Places DEF Plan, At, Unmoved
<1>2. PICK m : m = attempt[p].intent
  OBVIOUS
<1>3. m = IntentRead(r, n, "plan") /\ (attempt[p].fresh <=> n < 3)
  BY <1>1, <1>2 DEF Doing, Planning
<1>4. Planned(p) = RootOf(r) /\ (PriorMatches(p) \/ FinalizedMatches(p))
  BY <1>1, PlannedAlone
<1>5. ~(n < 3) => m = IntentAt(r, n) /\ m.root = RootOf(r) /\ (m.state = "prepared" <=> n < 5)
  BY <1>1, <1>3 DEF IntentRead, Planning, IntentAt, StoredIntent
<1>6. PICK i : i = [m EXCEPT !.root = RootOf(r)]
  OBVIOUS
<1>7. /\ n < 3 => i = StoredIntent(r, "prepared")
      /\ ~(n < 3) => i = IntentAt(r, n)
  <2>1. CASE n < 3
    <3>1. m = [state |-> "prepared", prior |-> 0, priorRoot |-> GenesisRoot, root |-> NoValue]
      BY <1>3, <2>1 DEF IntentRead, Planning, StoredIntent
    <3>. QED
      BY <1>6, <2>1, <3>1 DEF StoredIntent
  <2>2. CASE ~(n < 3)
    BY <1>5, <1>6, <2>2 DEF IntentAt, StoredIntent
  <2>. QED
    BY <2>1, <2>2
<1>8. PICK place : place = IF attempt[p].fresh THEN "prepare" ELSE IfPrepared(m.state)
  OBVIOUS
<1>9. place = IF n < 3 THEN "prepare" ELSE IF n < 5 THEN "reserve" ELSE "checkpoint"
  BY <1>3, <1>5, <1>8 DEF IfPrepared
<1>10. attempt[p].fresh \/ Planned(p) = m.root
  BY <1>3, <1>4, <1>5
<1>11. attempt' = [attempt EXCEPT ![p].intent.root = RootOf(r), ![p].view = NoValue, ![p].fresh = FALSE,
                                  ![p].pc = place]
  BY <1>2, <1>4, <1>8, <1>10 DEF Plan, Mine
<1>12. PICK at : at = [attempt[p] EXCEPT !.intent = i, !.view = NoValue, !.fresh = FALSE, !.pc = place]
  OBVIOUS
<1>13. attempt' = [attempt EXCEPT ![p] = at]
  BY <1>1, <1>2, <1>6, <1>11, <1>12 DEF AttemptFields
<1>14. /\ DOMAIN at = AttemptFields /\ at.pc = place /\ at.req = r /\ at.intent = i /\ at.receipt = 1
  BY <1>1, <1>12 DEF AttemptFields, Doing, Numbered
<1>15. i = IntentRead(r, n, place)
  BY <1>7, <1>9 DEF IntentRead, Planning
<1>16. Doing(at, r, n, place)
  BY <1>9, <1>14, <1>15 DEF Doing, Planning, Checkpointed
<1>17. place \in PlacesAt(n)
  BY <1>1, <1>9 DEF PlacesAt
<1>. QED
  BY <1>1, <1>13, <1>16, <1>17, ReadsAlone

(* Nothing is in flight, and the intent is stored as it was planned.         *)
LEMMA PrepareAlone ==
    ASSUME NEW p \in Procs, NEW r \in Requests, NEW n \in Writes, NEW pc \in PlacesAt(n), Working(p, r, n, pc),
           Prepare(p)
    PROVE  Goes(p, r)
<1>1. /\ pc = "prepare" /\ Rq(p) = r /\ n = 2 /\ DOMAIN attempt = Procs
      /\ DOMAIN attempt[p] = AttemptFields /\ Doing(attempt[p], r, n, pc)
      /\ Mine(p) = IntentRead(r, n, pc) /\ UNCHANGED proof
      /\ RowsAt(authDb, r, n) /\ KeyringAt(sealed, r, n) /\ authDb.snapshots = {r}
  BY WorkingFacts, Places DEF Prepare, At, Unmoved
<1>2. Mine(p) = StoredIntent(r, "prepared")
  BY <1>1 DEF IntentRead, Planning
<1>3. /\ IntentAt(r, 2) = NoIntent /\ IntentAt(r, 3) = StoredIntent(r, "prepared")
      /\ AuthorityAt(r, 2) = GenesisAuthority
  BY DEF IntentAt, AuthorityAt
<1>4. \A q \in Requests : authDb.intents[q] = NoIntent
  BY <1>1, <1>3 DEF RowsAt, Only
<1>5. PrepareAllowed(p)
  BY <1>1, <1>2, <1>3, <1>4 DEF PrepareAllowed, RowsAt, GenesisAuthority, StoredIntent, NoIntent, InFlight
<1>6. /\ TablesBut({"intents"}) /\ UNCHANGED sealed /\ Proceed(p, "reserve")
      /\ authDb'.intents = [authDb.intents EXCEPT ![r] = StoredIntent(r, "prepared")]
  BY <1>1, <1>2, <1>5 DEF Prepare, TablesBut, TableNames, RowsAt
<1>7. PICK at : /\ attempt' = [attempt EXCEPT ![p] = at]
                /\ SameBut(at, attempt[p], {}) /\ at.pc = "reserve"
  BY <1>1, <1>6, GoesOn
<1>8. Doing(at, r, 3, "reserve")
  BY <1>1, <1>2, <1>3, <1>7 DEF Doing, SameBut, IntentRead, Planning, Numbered, Checkpointed
<1>9. authDb'.intents = Only(r, IntentAt(r, 3), NoIntent)
  BY <1>1, <1>3, <1>6, OnlyReplaced DEF RowsAt
<1>10. RowsAt(authDb', r, 3)
  <2>1. /\ AuthorityAt(r, 2) = AuthorityAt(r, 3) /\ ReceiptsAt(r, 2) = ReceiptsAt(r, 3)
        /\ CheckpointAt(2) = CheckpointAt(3) /\ BindingAt(2) = BindingAt(3)
        /\ ProjectsAt(r, 2) = ProjectsAt(r, 3) /\ EnvelopeAt(2) = EnvelopeAt(3) /\ PlanAt(r, 2) = PlanAt(r, 3)
    BY DEF AuthorityAt, ReceiptsAt, CheckpointAt, BindingAt, ProjectsAt, EnvelopeAt, PlanAt
  <2>. QED
    BY <1>1, <1>6, <1>9, <2>1 DEF RowsAt, TablesBut
<1>11. KeyringAt(sealed', r, 3)
  BY <1>1, <1>6 DEF KeyringAt
<1>12. 3 \in Writes /\ "reserve" \in PlacesAt(3) /\ authDb'.snapshots = {r}
  BY <1>1, <1>6 DEF Writes, PlacesAt, TablesBut
<1>. QED
  BY <1>1, <1>7, <1>8, <1>10, <1>11, <1>12, WritesAlone

(* The keyring is free, or holds the reservation of this very intent.        *)
LEMMA ReserveAlone ==
    ASSUME NEW p \in Procs, NEW r \in Requests, NEW n \in Writes, NEW pc \in PlacesAt(n), Working(p, r, n, pc),
           Reserve(p)
    PROVE  Goes(p, r)
<1>1. /\ pc = "reserve" /\ Rq(p) = r /\ n \in 3..4 /\ DOMAIN attempt = Procs
      /\ DOMAIN attempt[p] = AttemptFields /\ Doing(attempt[p], r, n, pc)
      /\ Mine(p) = IntentRead(r, n, pc) /\ UNCHANGED proof
      /\ RowsAt(authDb, r, n) /\ KeyringAt(sealed, r, n) /\ authDb.snapshots = {r}
  BY WorkingFacts, Places DEF Reserve, At, Unmoved
<1>2. Mine(p) = StoredIntent(r, "prepared") /\ IntentRead(r, n, "reserve") = IntentRead(r, 4, "reserved")
      /\ IntentRead(r, 4, "reserved") = StoredIntent(r, "prepared")
  BY <1>1 DEF IntentRead, Planning, IntentAt
<1>3. Mine(p).prior = 0 /\ Mine(p).priorRoot = GenesisRoot /\ Mine(p).root = RootOf(r)
  BY <1>2 DEF StoredIntent
<1>4. "reserved" \in PlacesAt(4) /\ 4 \in Writes
  BY DEF PlacesAt, Writes
<1>5. CASE n = 4
  <2>1. ReserveReplays(p)
    BY <1>1, <1>3, <1>5 DEF ReserveReplays, KeyringAt
  <2>2. UNCHANGED <<authDb, sealed>> /\ Proceed(p, "reserved")
    BY <2>1 DEF Reserve
  <2>3. PICK at : /\ attempt' = [attempt EXCEPT ![p] = at]
                  /\ SameBut(at, attempt[p], {}) /\ at.pc = "reserved"
    BY <1>1, <2>2, GoesOn
  <2>4. Doing(at, r, n, "reserved")
    BY <1>1, <1>2, <1>5, <2>3 DEF Doing, SameBut, Planning, Numbered, Checkpointed
  <2>. QED
    BY <1>1, <1>4, <1>5, <2>2, <2>3, <2>4, ReadsAlone
<1>6. CASE n = 3
  <2>1. ~ReserveReplays(p) /\ ReserveAllowed(p)
    BY <1>1, <1>3, <1>6, NoValueIsNone DEF ReserveReplays, ReserveAllowed, KeyringAt
  <2>2. /\ UNCHANGED authDb /\ Proceed(p, "reserved")
        /\ sealed' = [sealed EXCEPT !.pending = r, !.pendingRoot = RootOf(r),
                         !.pendingHeads = IF @ = NoValue THEN sealed.heads ELSE @]
    BY <1>1, <1>3, <2>1 DEF Reserve, Refuse
  <2>3. PICK at : /\ attempt' = [attempt EXCEPT ![p] = at]
                  /\ SameBut(at, attempt[p], {}) /\ at.pc = "reserved"
    BY <1>1, <2>2, GoesOn
  <2>4. Doing(at, r, 4, "reserved")
    BY <1>1, <1>2, <2>3 DEF Doing, SameBut, Planning, Numbered, Checkpointed
  <2>5. RowsAt(authDb', r, 4)
    <3>1. /\ AuthorityAt(r, 3) = AuthorityAt(r, 4) /\ ReceiptsAt(r, 3) = ReceiptsAt(r, 4)
          /\ IntentAt(r, 3) = IntentAt(r, 4) /\ CheckpointAt(3) = CheckpointAt(4) /\ BindingAt(3) = BindingAt(4)
          /\ ProjectsAt(r, 3) = ProjectsAt(r, 4) /\ EnvelopeAt(3) = EnvelopeAt(4) /\ PlanAt(r, 3) = PlanAt(r, 4)
      BY DEF AuthorityAt, ReceiptsAt, IntentAt, CheckpointAt, BindingAt, ProjectsAt, EnvelopeAt, PlanAt
    <3>. QED
      BY <1>1, <1>6, <2>2, <3>1 DEF RowsAt
  <2>6. KeyringAt(sealed', r, 4)
    BY <1>1, <1>6, <2>2 DEF KeyringAt, SealFields
  <2>. QED
    BY <1>1, <1>4, <2>2, <2>3, <2>4, <2>5, <2>6, WritesAlone
<1>. QED
  BY <1>1, <1>5, <1>6

(* The state of the intent goes forward.                                     *)
LEMMA IntentMovedAlone ==
    ASSUME NEW r \in Requests, NEW from, NEW to, NEW others
    PROVE  [Only(r, StoredIntent(r, from), others) EXCEPT ![r].state = to] = Only(r, StoredIntent(r, to), others)
<1>1. PICK i : i = [StoredIntent(r, from) EXCEPT !.state = to]
  OBVIOUS
<1>2. i = StoredIntent(r, to)
  BY <1>1 DEF StoredIntent
<1>3. PICK f : f = Only(r, StoredIntent(r, from), others)
  OBVIOUS
<1>4. f[r] = StoredIntent(r, from)
  BY <1>3 DEF Only
<1>5. [f EXCEPT ![r].state = to] = [f EXCEPT ![r] = i]
  BY <1>1, <1>4
<1>6. [f EXCEPT ![r] = i] = Only(r, StoredIntent(r, to), others)
  BY <1>2, <1>3, OnlyReplaced
<1>. QED
  BY <1>3, <1>5, <1>6

(* The intent is marked as reserved.                                         *)
LEMMA MarkReservedAlone ==
    ASSUME NEW p \in Procs, NEW r \in Requests, NEW n \in Writes, NEW pc \in PlacesAt(n), Working(p, r, n, pc),
           MarkReserved(p)
    PROVE  Goes(p, r)
<1>1. /\ pc = "reserved" /\ Rq(p) = r /\ n = 4 /\ DOMAIN attempt = Procs
      /\ DOMAIN attempt[p] = AttemptFields /\ Doing(attempt[p], r, n, pc)
      /\ Mine(p) = IntentRead(r, n, pc) /\ UNCHANGED proof /\ authDb.intents[r] = IntentAt(r, n)
      /\ RowsAt(authDb, r, n) /\ KeyringAt(sealed, r, n) /\ authDb.snapshots = {r}
  BY WorkingFacts, Places DEF MarkReserved, AdvanceCommit, At, Unmoved
<1>2. Mine(p) = StoredIntent(r, "prepared") /\ IntentAt(r, 4) = StoredIntent(r, "prepared")
      /\ IntentAt(r, 5) = StoredIntent(r, "anchor_reserved")
  BY <1>1 DEF IntentRead, Planning, IntentAt
<1>3. AdvanceAllowed(p, "prepared", "anchor_reserved")
  BY <1>1, <1>2 DEF AdvanceAllowed, StoredIntent
<1>4. /\ authDb' = [authDb EXCEPT !.intents[r].state = "anchor_reserved", !.authority = @] /\ UNCHANGED sealed
      /\ attempt' = [attempt EXCEPT ![p].pc = "checkpoint", ![p].intent.state = "anchor_reserved"]
  BY <1>1, <1>3 DEF MarkReserved, AdvanceCommit
<1>5. /\ TablesBut({"intents"})
      /\ authDb'.intents = [authDb.intents EXCEPT ![r].state = "anchor_reserved"]
  BY <1>1, <1>4 DEF TablesBut, TableNames, RowsAt
<1>6. authDb'.intents = Only(r, IntentAt(r, 5), NoIntent)
  BY <1>1, <1>2, <1>5, IntentMovedAlone DEF RowsAt
<1>7. PICK i : i = [attempt[p].intent EXCEPT !.state = "anchor_reserved"]
  OBVIOUS
<1>8. i = IntentAt(r, 5)
  BY <1>2, <1>7 DEF StoredIntent, Mine
<1>9. PICK at : at = [attempt[p] EXCEPT !.pc = "checkpoint", !.intent = i]
  OBVIOUS
<1>10. attempt' = [attempt EXCEPT ![p] = at]
  BY <1>1, <1>4, <1>7, <1>9 DEF AttemptFields
<1>11. Doing(at, r, 5, "checkpoint")
  BY <1>1, <1>8, <1>9 DEF Doing, AttemptFields, IntentRead, Planning, Numbered, Checkpointed
<1>12. RowsAt(authDb', r, 5)
  <2>1. /\ AuthorityAt(r, 4) = AuthorityAt(r, 5) /\ ReceiptsAt(r, 4) = ReceiptsAt(r, 5)
        /\ CheckpointAt(4) = CheckpointAt(5) /\ BindingAt(4) = BindingAt(5)
        /\ ProjectsAt(r, 4) = ProjectsAt(r, 5) /\ EnvelopeAt(4) = EnvelopeAt(5) /\ PlanAt(r, 4) = PlanAt(r, 5)
    BY DEF AuthorityAt, ReceiptsAt, CheckpointAt, BindingAt, ProjectsAt, EnvelopeAt, PlanAt
  <2>. QED
    BY <1>1, <1>5, <1>6, <2>1 DEF RowsAt, TablesBut
<1>13. KeyringAt(sealed', r, 5)
  BY <1>1, <1>4 DEF KeyringAt
<1>14. 5 \in Writes /\ "checkpoint" \in PlacesAt(5) /\ authDb'.snapshots = {r}
  BY <1>1, <1>5 DEF Writes, PlacesAt, TablesBut
<1>. QED
  BY <1>1, <1>10, <1>11, <1>12, <1>13, <1>14, WritesAlone

(* The checkpoint is looked for, and belongs to the receipt that was found.  *)
LEMMA LoadCheckpointAlone ==
    ASSUME NEW p \in Procs, NEW r \in Requests, NEW n \in Writes, NEW pc \in PlacesAt(n), Working(p, r, n, pc),
           LoadCheckpoint(p)
    PROVE  Goes(p, r)
<1>1. /\ pc = "checkpoint" /\ Rq(p) = r /\ n \in 5..16 /\ authDb.checkpoints[r] = CheckpointAt(n)
      /\ DOMAIN attempt = Procs /\ DOMAIN attempt[p] = AttemptFields /\ Doing(attempt[p], r, n, pc)
      /\ UNCHANGED <<authDb, sealed, proof>>
  BY WorkingFacts, Places DEF LoadCheckpoint, At, Unmoved
<1>2. attempt[p].receipt = 1
  BY <1>1 DEF Doing, Numbered
<1>3. CASE n = 5
  <2>1. Proceed(p, "newcheckpoint")
    BY <1>1, <1>3 DEF LoadCheckpoint, CheckpointAt, NoCheckpoint
  <2>2. PICK at : /\ attempt' = [attempt EXCEPT ![p] = at]
                  /\ SameBut(at, attempt[p], {}) /\ at.pc = "newcheckpoint"
    BY <1>1, <2>1, GoesOn
  <2>3. Doing(at, r, n, "newcheckpoint")
    BY <1>1, <2>2 DEF Doing, SameBut, IntentRead, Planning, Numbered, Checkpointed
  <2>4. "newcheckpoint" \in PlacesAt(n)
    BY <1>3 DEF PlacesAt
  <2>. QED
    BY <1>1, <2>2, <2>3, <2>4, ReadsAlone
<1>4. CASE n # 5
  <2>1. CheckpointAt(n).state = CheckpointState(n) /\ CheckpointState(n) # "none" /\ CheckpointAt(n).receipt = 1
    BY <1>1, <1>4 DEF CheckpointAt, CheckpointState
  <2>2. attempt' = [attempt EXCEPT ![p].pc = "project", ![p].checkpoint = CheckpointState(n)]
    BY <1>1, <1>2, <2>1 DEF LoadCheckpoint
  <2>3. PICK at : at = [attempt[p] EXCEPT !.pc = "project", !.checkpoint = CheckpointState(n)]
    OBVIOUS
  <2>4. attempt' = [attempt EXCEPT ![p] = at]
    BY <2>2, <2>3
  <2>5. Doing(at, r, n, "project")
    BY <1>1, <2>3 DEF Doing, AttemptFields, IntentRead, Planning, Numbered, Checkpointed
  <2>6. "project" \in PlacesAt(n)
    BY <1>1, <1>4 DEF PlacesAt
  <2>. QED
    BY <1>1, <2>4, <2>5, <2>6, ReadsAlone
<1>. QED
  BY <1>3, <1>4

(* The checkpoint is written for the receipt.                                *)
LEMMA PrepareCheckpointAlone ==
    ASSUME NEW p \in Procs, NEW r \in Requests, NEW n \in Writes, NEW pc \in PlacesAt(n), Working(p, r, n, pc),
           PrepareCheckpoint(p)
    PROVE  Goes(p, r)
<1>1. /\ pc = "newcheckpoint" /\ Rq(p) = r /\ n = 5 /\ authDb.checkpoints[r] = CheckpointAt(n)
      /\ DOMAIN attempt = Procs /\ DOMAIN attempt[p] = AttemptFields /\ Doing(attempt[p], r, n, pc)
      /\ UNCHANGED proof /\ RowsAt(authDb, r, n) /\ KeyringAt(sealed, r, n) /\ authDb.snapshots = {r}
  BY WorkingFacts, Places DEF PrepareCheckpoint, At, Unmoved
<1>2. attempt[p].receipt = 1 /\ authDb.checkpoints[r].state = "none"
  BY <1>1 DEF Doing, Numbered, CheckpointAt, NoCheckpoint
<1>3. CheckpointAt(6) = [state |-> "prepared", receipt |-> 1] /\ CheckpointState(6) = "prepared"
  BY DEF CheckpointAt, CheckpointState
<1>4. /\ TablesBut({"checkpoints"}) /\ UNCHANGED sealed
      /\ authDb'.checkpoints = [authDb.checkpoints EXCEPT ![r] = CheckpointAt(6)]
      /\ attempt' = [attempt EXCEPT ![p].pc = "project", ![p].checkpoint = "prepared"]
  BY <1>1, <1>2, <1>3 DEF PrepareCheckpoint, TablesBut, TableNames, RowsAt
<1>5. authDb'.checkpoints = Only(r, CheckpointAt(6), NoCheckpoint)
  BY <1>1, <1>4, OnlyReplaced DEF RowsAt
<1>6. PICK at : at = [attempt[p] EXCEPT !.pc = "project", !.checkpoint = "prepared"]
  OBVIOUS
<1>7. attempt' = [attempt EXCEPT ![p] = at]
  BY <1>4, <1>6
<1>8. IntentAt(r, 5) = IntentAt(r, 6) /\ IntentRead(r, 5, "newcheckpoint") = IntentRead(r, 6, "project")
  BY DEF IntentAt, IntentRead, Planning
<1>9. Doing(at, r, 6, "project")
  BY <1>1, <1>3, <1>6, <1>8 DEF Doing, AttemptFields, Planning, Numbered, Checkpointed
<1>10. RowsAt(authDb', r, 6)
  <2>1. /\ AuthorityAt(r, 5) = AuthorityAt(r, 6) /\ ReceiptsAt(r, 5) = ReceiptsAt(r, 6)
        /\ BindingAt(5) = BindingAt(6) /\ ProjectsAt(r, 5) = ProjectsAt(r, 6)
        /\ EnvelopeAt(5) = EnvelopeAt(6) /\ PlanAt(r, 5) = PlanAt(r, 6)
    BY DEF AuthorityAt, ReceiptsAt, BindingAt, ProjectsAt, EnvelopeAt, PlanAt
  <2>. QED
    BY <1>1, <1>4, <1>5, <1>8, <2>1 DEF RowsAt, TablesBut
<1>11. KeyringAt(sealed', r, 6)
  BY <1>1, <1>4 DEF KeyringAt
<1>12. 6 \in Writes /\ "project" \in PlacesAt(6) /\ authDb'.snapshots = {r}
  BY <1>1, <1>4 DEF Writes, PlacesAt, TablesBut
<1>. QED
  BY <1>1, <1>7, <1>9, <1>10, <1>11, <1>12, WritesAlone

(* The project is added, or is there.                                        *)
LEMMA AddProjectAlone ==
    ASSUME NEW p \in Procs, NEW r \in Requests, NEW n \in Writes, NEW pc \in PlacesAt(n), Working(p, r, n, pc),
           AddProject(p)
    PROVE  Goes(p, r)
<1>1. /\ pc = "project" /\ Rq(p) = r /\ n \in 6..16 /\ authDb.projects = ProjectsAt(r, n)
      /\ DOMAIN attempt = Procs /\ DOMAIN attempt[p] = AttemptFields /\ Doing(attempt[p], r, n, pc)
      /\ RowsAt(authDb, r, n) /\ KeyringAt(sealed, r, n) /\ authDb.snapshots = {r}
  BY WorkingFacts, Places DEF AddProject, At
<1>2. PICK m \in 7..16 : m = IF n = 6 THEN 7 ELSE n
  BY <1>1
<1>3. /\ TablesBut({"projects"}) /\ UNCHANGED <<sealed, proof>> /\ Proceed(p, "commitments")
      /\ authDb'.projects = authDb.projects \cup {r}
  BY <1>1 DEF AddProject, Unmoved, TablesBut, TableNames, RowsAt
<1>4. authDb'.projects = ProjectsAt(r, m)
  BY <1>1, <1>2, <1>3 DEF ProjectsAt
<1>5. PICK at : /\ attempt' = [attempt EXCEPT ![p] = at]
                /\ SameBut(at, attempt[p], {}) /\ at.pc = "commitments"
  BY <1>1, <1>3, GoesOn
<1>6. IntentAt(r, n) = IntentAt(r, m) /\ CheckpointState(n) = CheckpointState(m)
  BY <1>1, <1>2 DEF IntentAt, CheckpointState
<1>7. Doing(at, r, m, "commitments")
  BY <1>1, <1>5, <1>6 DEF Doing, SameBut, IntentRead, Planning, Numbered, Checkpointed
<1>8. RowsAt(authDb', r, m)
  <2>1. /\ AuthorityAt(r, n) = AuthorityAt(r, m) /\ ReceiptsAt(r, n) = ReceiptsAt(r, m)
        /\ CheckpointAt(n) = CheckpointAt(m) /\ BindingAt(n) = BindingAt(m)
        /\ EnvelopeAt(n) = EnvelopeAt(m) /\ PlanAt(r, n) = PlanAt(r, m)
    BY <1>1, <1>2 DEF AuthorityAt, ReceiptsAt, CheckpointAt, CheckpointState, BindingAt, EnvelopeAt, PlanAt
  <2>. QED
    BY <1>1, <1>2, <1>3, <1>4, <1>6, <2>1 DEF RowsAt, TablesBut
<1>9. KeyringAt(sealed', r, m)
  BY <1>1, <1>2, <1>3 DEF KeyringAt
<1>10. m \in Writes /\ "commitments" \in PlacesAt(m) /\ authDb'.snapshots = {r}
  BY <1>1, <1>2, <1>3 DEF Writes, PlacesAt, TablesBut
<1>. QED
  BY <1>3, <1>5, <1>7, <1>8, <1>9, <1>10, WritesAlone

(* The commitments of generation one are looked for: none, or of this plan.  *)
LEMMA ValidateCommitmentsAlone ==
    ASSUME NEW p \in Procs, NEW r \in Requests, NEW n \in Writes, NEW pc \in PlacesAt(n), Working(p, r, n, pc),
           ValidateCommitments(p)
    PROVE  Goes(p, r)
<1>1. /\ pc = "commitments" /\ Rq(p) = r /\ n \in 7..16 /\ authDb.commitments[1] = PlanAt(r, n)
      /\ DOMAIN attempt = Procs /\ DOMAIN attempt[p] = AttemptFields /\ Doing(attempt[p], r, n, pc)
      /\ Mine(p) = IntentRead(r, n, pc) /\ UNCHANGED <<authDb, sealed, proof>>
  BY WorkingFacts, Places DEF ValidateCommitments, At, Unmoved
<1>2. Mine(p).prior + 1 = 1 /\ Mine(p).root = RootOf(r) /\ (Mine(p).state = "anchor_reserved" <=> n < 9)
  BY <1>1 DEF IntentRead, Planning, IntentAt, StoredIntent
<1>3. PICK place : place = IF n = 7 THEN "newcommitments" ELSE IF n = 8 THEN "commit" ELSE "finalize"
  OBVIOUS
<1>4. Proceed(p, place)
  <2>1. CommitmentsAt(p) = PlanAt(r, n) /\ NoValue # RootOf(r)
    BY <1>1, <1>2, NoValueIsNone DEF CommitmentsAt
  <2>2. CASE n = 7
    BY <1>1, <1>2, <1>3, <2>1, <2>2 DEF ValidateCommitments, PlanAt
  <2>3. CASE n # 7
    <3>1. IfReserved(Mine(p).state) = place
      BY <1>1, <1>2, <1>3, <2>3 DEF IfReserved
    <3>. QED
      BY <1>1, <1>2, <2>1, <2>3, <3>1 DEF ValidateCommitments, PlanAt
  <2>. QED
    BY <2>2, <2>3
<1>5. PICK at : /\ attempt' = [attempt EXCEPT ![p] = at]
                /\ SameBut(at, attempt[p], {}) /\ at.pc = place
  BY <1>1, <1>4, GoesOn
<1>6. Doing(at, r, n, place)
  BY <1>1, <1>3, <1>5 DEF Doing, SameBut, IntentRead, Planning, Numbered, Checkpointed
<1>7. place \in PlacesAt(n)
  BY <1>1, <1>3 DEF PlacesAt
<1>. QED
  BY <1>1, <1>5, <1>6, <1>7, ReadsAlone

(* The commitments are written.                                              *)
LEMMA AppendCommitmentsAlone ==
    ASSUME NEW p \in Procs, NEW r \in Requests, NEW n \in Writes, NEW pc \in PlacesAt(n), Working(p, r, n, pc),
           AppendCommitments(p)
    PROVE  Goes(p, r)
<1>1. /\ pc = "newcommitments" /\ Rq(p) = r /\ n = 7 /\ authDb.commitments[1] = PlanAt(r, n)
      /\ DOMAIN attempt = Procs /\ DOMAIN attempt[p] = AttemptFields /\ Doing(attempt[p], r, n, pc)
      /\ Mine(p) = IntentRead(r, n, pc) /\ UNCHANGED proof
      /\ RowsAt(authDb, r, n) /\ KeyringAt(sealed, r, n) /\ authDb.snapshots = {r}
  BY WorkingFacts, Places DEF AppendCommitments, At, Unmoved
<1>2. Mine(p).prior + 1 = 1 /\ Mine(p).root = RootOf(r) /\ IfReserved(Mine(p).state) = "commit"
  BY <1>1 DEF IntentRead, Planning, IntentAt, StoredIntent, IfReserved
<1>3. CommitmentsAt(p) = NoValue
  BY <1>1, <1>2 DEF CommitmentsAt, PlanAt
<1>4. /\ TablesBut({"commitments"}) /\ UNCHANGED sealed /\ Proceed(p, "commit")
      /\ authDb'.commitments = [authDb.commitments EXCEPT ![1] = RootOf(r)]
  BY <1>1, <1>2, <1>3 DEF AppendCommitments, TablesBut, TableNames, RowsAt
<1>5. /\ DOMAIN authDb'.commitments = 0..Cardinality(Requests)
      /\ authDb'.commitments[0] = GenesisRoot /\ authDb'.commitments[1] = PlanAt(r, 8)
  <2>1. /\ DOMAIN authDb.commitments = 0..Cardinality(Requests) /\ authDb.commitments[0] = GenesisRoot
        /\ PlanAt(r, 8) = RootOf(r)
    BY <1>1 DEF RowsAt, PlanAt
  <2>2. 0 \in DOMAIN authDb.commitments /\ 1 \in DOMAIN authDb.commitments
    BY <2>1, FirstGeneration
  <2>3. PICK f : f = authDb.commitments
    OBVIOUS
  <2>4. authDb'.commitments = [f EXCEPT ![1] = RootOf(r)]
    BY <1>4, <2>3
  <2>5. DOMAIN f = 0..Cardinality(Requests) /\ f[0] = GenesisRoot /\ 0 \in DOMAIN f /\ 1 \in DOMAIN f
    BY <2>1, <2>2, <2>3
  <2>. QED
    BY <2>1, <2>4, <2>5
<1>6. PICK at : /\ attempt' = [attempt EXCEPT ![p] = at]
                /\ SameBut(at, attempt[p], {}) /\ at.pc = "commit"
  BY <1>1, <1>4, GoesOn
<1>7. /\ IntentAt(r, 7) = IntentAt(r, 8) /\ CheckpointState(7) = CheckpointState(8)
      /\ IntentRead(r, 7, "newcommitments") = IntentRead(r, 8, "commit")
  BY DEF IntentAt, CheckpointState, IntentRead, Planning
<1>8. Doing(at, r, 8, "commit")
  BY <1>1, <1>6, <1>7 DEF Doing, SameBut, Planning, Numbered, Checkpointed
<1>9. RowsAt(authDb', r, 8)
  <2>1. /\ AuthorityAt(r, 7) = AuthorityAt(r, 8) /\ ReceiptsAt(r, 7) = ReceiptsAt(r, 8)
        /\ CheckpointAt(7) = CheckpointAt(8) /\ BindingAt(7) = BindingAt(8)
        /\ ProjectsAt(r, 7) = ProjectsAt(r, 8) /\ EnvelopeAt(7) = EnvelopeAt(8)
    BY DEF AuthorityAt, ReceiptsAt, CheckpointAt, CheckpointState, BindingAt, ProjectsAt, EnvelopeAt
  <2>. QED
    BY <1>1, <1>4, <1>5, <1>7, <2>1 DEF RowsAt, TablesBut
<1>10. KeyringAt(sealed', r, 8)
  BY <1>1, <1>4 DEF KeyringAt
<1>11. 8 \in Writes /\ "commit" \in PlacesAt(8) /\ authDb'.snapshots = {r}
  BY <1>1, <1>4 DEF Writes, PlacesAt, TablesBut
<1>. QED
  BY <1>1, <1>6, <1>8, <1>9, <1>10, <1>11, WritesAlone

(* The row of the authority, advanced to generation one.                     *)
LEMMA RowAdvanced ==
    ASSUME NEW a, NEW new, NEW old, a = [generation |-> 0, root |-> old, state |-> "active", version |-> 1]
    PROVE  [a EXCEPT !.generation = 1, !.root = new, !.version = 2]
              = [generation |-> 1, root |-> new, state |-> "active", version |-> 2]
<1>1. PICK b : b = [a EXCEPT !.generation = 1, !.root = new, !.version = 2]
  OBVIOUS
<1>2. /\ DOMAIN b = {"generation", "root", "state", "version"}
      /\ b.generation = 1 /\ b.root = new /\ b.state = "active" /\ b.version = 2
  BY <1>1
<1>3. b = [i \in DOMAIN b |-> b[i]]
  BY <1>1
<1>4. b = [generation |-> 1, root |-> new, state |-> "active", version |-> 2]
  BY <1>2, <1>3
<1>. QED
  BY <1>1, <1>4

(* The intent is committed, and the authority moves with it.                 *)
LEMMA CommitAuthorityAlone ==
    ASSUME NEW p \in Procs, NEW r \in Requests, NEW n \in Writes, NEW pc \in PlacesAt(n), Working(p, r, n, pc),
           CommitAuthority(p)
    PROVE  Goes(p, r)
<1>1. /\ pc = "commit" /\ Rq(p) = r /\ n = 8 /\ DOMAIN attempt = Procs
      /\ DOMAIN attempt[p] = AttemptFields /\ Doing(attempt[p], r, n, pc)
      /\ Mine(p) = IntentRead(r, n, pc) /\ UNCHANGED proof /\ authDb.intents[r] = IntentAt(r, n)
      /\ RowsAt(authDb, r, n) /\ KeyringAt(sealed, r, n) /\ authDb.snapshots = {r}
  BY WorkingFacts, Places DEF CommitAuthority, AdvanceCommit, At, Unmoved
<1>2. /\ Mine(p) = StoredIntent(r, "anchor_reserved") /\ IntentAt(r, 8) = StoredIntent(r, "anchor_reserved")
      /\ IntentAt(r, 9) = StoredIntent(r, "db_committed")
  BY <1>1 DEF IntentRead, Planning, IntentAt
<1>3. authDb.authority = GenesisAuthority
  BY <1>1 DEF RowsAt, AuthorityAt
<1>4. AdvanceAllowed(p, "anchor_reserved", "db_committed")
  BY <1>1, <1>2, <1>3 DEF AdvanceAllowed, StoredIntent, GenesisAuthority
<1>5. AdvancedAuthority(p) = AuthorityAt(r, 9)
  <2>1. Mine(p).prior + 1 = 1 /\ Mine(p).root = RootOf(r) /\ GenesisAuthority.version + 1 = 2
    BY <1>2 DEF StoredIntent, GenesisAuthority
  <2>2. AdvancedAuthority(p) = [GenesisAuthority EXCEPT !.generation = 1, !.root = RootOf(r), !.version = 2]
    BY <1>3, <2>1 DEF AdvancedAuthority
  <2>3. AuthorityAt(r, 9) = [generation |-> 1, root |-> RootOf(r), state |-> "active", version |-> 2]
    BY DEF AuthorityAt
  <2>4. PICK a : a = [generation |-> 0, root |-> GenesisRoot, state |-> "active", version |-> 1]
    OBVIOUS
  <2>5. [a EXCEPT !.generation = 1, !.root = RootOf(r), !.version = 2]
           = [generation |-> 1, root |-> RootOf(r), state |-> "active", version |-> 2]
    BY <2>4, RowAdvanced
  <2>. QED
    BY <2>2, <2>3, <2>4, <2>5 DEF GenesisAuthority
<1>6. /\ authDb' = [authDb EXCEPT !.intents[r].state = "db_committed", !.authority = AuthorityAt(r, 9)]
      /\ UNCHANGED sealed
      /\ attempt' = [attempt EXCEPT ![p].pc = "finalize", ![p].intent.state = "db_committed"]
  BY <1>1, <1>4, <1>5 DEF CommitAuthority, AdvanceCommit
<1>7. /\ TablesBut({"intents", "authority"}) /\ authDb'.authority = AuthorityAt(r, 9)
      /\ authDb'.intents = [authDb.intents EXCEPT ![r].state = "db_committed"]
  BY <1>1, <1>6 DEF TablesBut, TableNames, RowsAt
<1>8. authDb'.intents = Only(r, IntentAt(r, 9), NoIntent)
  BY <1>1, <1>2, <1>7, IntentMovedAlone DEF RowsAt
<1>9. PICK i : i = [attempt[p].intent EXCEPT !.state = "db_committed"]
  OBVIOUS
<1>10. i = IntentAt(r, 9) /\ IntentRead(r, 9, "finalize") = IntentAt(r, 9)
  BY <1>2, <1>9 DEF StoredIntent, Mine, IntentRead, Planning
<1>11. PICK at : at = [attempt[p] EXCEPT !.pc = "finalize", !.intent = i]
  OBVIOUS
<1>12. attempt' = [attempt EXCEPT ![p] = at]
  BY <1>1, <1>6, <1>9, <1>11 DEF AttemptFields
<1>13. Doing(at, r, 9, "finalize")
  BY <1>1, <1>10, <1>11 DEF Doing, AttemptFields, Planning, Numbered, Checkpointed, CheckpointState
<1>14. RowsAt(authDb', r, 9)
  <2>1. /\ ReceiptsAt(r, 8) = ReceiptsAt(r, 9) /\ CheckpointAt(8) = CheckpointAt(9) /\ BindingAt(8) = BindingAt(9)
        /\ ProjectsAt(r, 8) = ProjectsAt(r, 9) /\ EnvelopeAt(8) = EnvelopeAt(9) /\ PlanAt(r, 8) = PlanAt(r, 9)
    BY DEF ReceiptsAt, CheckpointAt, CheckpointState, BindingAt, ProjectsAt, EnvelopeAt, PlanAt
  <2>. QED
    BY <1>1, <1>7, <1>8, <2>1 DEF RowsAt, TablesBut
<1>15. KeyringAt(sealed', r, 9)
  BY <1>1, <1>6 DEF KeyringAt
<1>16. 9 \in Writes /\ "finalize" \in PlacesAt(9) /\ authDb'.snapshots = {r}
  BY <1>1, <1>7 DEF Writes, PlacesAt, TablesBut
<1>. QED
  BY <1>1, <1>12, <1>13, <1>14, <1>15, <1>16, WritesAlone

(* The keyring is finalized, or has been for this intent.                    *)
LEMMA FinalizeAlone ==
    ASSUME NEW p \in Procs, NEW r \in Requests, NEW n \in Writes, NEW pc \in PlacesAt(n), Working(p, r, n, pc),
           Finalize(p)
    PROVE  Goes(p, r)
<1>1. /\ pc = "finalize" /\ Rq(p) = r /\ n \in 9..16 /\ DOMAIN attempt = Procs
      /\ DOMAIN attempt[p] = AttemptFields /\ Doing(attempt[p], r, n, pc)
      /\ Mine(p) = IntentRead(r, n, pc) /\ UNCHANGED proof
      /\ RowsAt(authDb, r, n) /\ KeyringAt(sealed, r, n) /\ authDb.snapshots = {r}
  BY WorkingFacts, Places DEF Finalize, At, Unmoved
<1>2. /\ Mine(p).prior = 0 /\ Mine(p).priorRoot = GenesisRoot /\ Mine(p).root = RootOf(r)
      /\ Mine(p).state \in {"db_committed", "anchor_finalized"} /\ (Mine(p).state = "db_committed" <=> n < 11)
  BY <1>1 DEF IntentRead, Planning, IntentAt, StoredIntent
<1>3. attempt[p].checkpoint = CheckpointState(n)
  BY <1>1 DEF Doing, Checkpointed
<1>4. PICK place : place = IF n < 11 THEN "finalized" ELSE IF n = 11 THEN "trail" ELSE "binding"
  OBVIOUS
<1>5. place = IF Mine(p).state = "db_committed" THEN "finalized" ELSE IfUntrailed(attempt[p].checkpoint)
  BY <1>1, <1>2, <1>3, <1>4 DEF IfUntrailed, CheckpointState
<1>6. FinalizeAllowed(p)
  BY <1>1, <1>2 DEF FinalizeAllowed, KeyringAt
<1>7. UNCHANGED authDb /\ Proceed(p, place)
  BY <1>5, <1>6 DEF Finalize, Refuse
<1>8. PICK at : /\ attempt' = [attempt EXCEPT ![p] = at]
                /\ SameBut(at, attempt[p], {}) /\ at.pc = place
  BY <1>1, <1>7, GoesOn
<1>9. CASE n = 9
  <2>1. sealed.last # r
    BY <1>1, <1>9, NoValueIsNone DEF KeyringAt
  <2>2. sealed' = [sealed EXCEPT !.generation = 1, !.root = RootOf(r),
                               !.pending = NoValue, !.pendingRoot = NoValue, !.last = r]
    <3>1. Mine(p).prior + 1 = 1 /\ Mine(p).root = RootOf(r)
      BY <1>2
    <3>. QED
      BY <1>1, <1>6, <2>1, <3>1 DEF Finalize
  <2>3. KeyringAt(sealed', r, 10)
    BY <1>1, <1>9, <2>2 DEF KeyringAt, SealFields
  <2>4. /\ IntentAt(r, 9) = IntentAt(r, 10) /\ CheckpointState(9) = CheckpointState(10)
        /\ IntentRead(r, 9, "finalize") = IntentRead(r, 10, "finalized")
    BY DEF IntentAt, CheckpointState, IntentRead, Planning
  <2>5. Doing(at, r, 10, "finalized")
    BY <1>1, <1>4, <1>8, <1>9, <2>4 DEF Doing, SameBut, Planning, Numbered, Checkpointed
  <2>6. RowsAt(authDb', r, 10)
    <3>1. /\ AuthorityAt(r, 9) = AuthorityAt(r, 10) /\ ReceiptsAt(r, 9) = ReceiptsAt(r, 10)
          /\ CheckpointAt(9) = CheckpointAt(10) /\ BindingAt(9) = BindingAt(10)
          /\ ProjectsAt(r, 9) = ProjectsAt(r, 10) /\ EnvelopeAt(9) = EnvelopeAt(10) /\ PlanAt(r, 9) = PlanAt(r, 10)
      BY DEF AuthorityAt, ReceiptsAt, CheckpointAt, CheckpointState, BindingAt, ProjectsAt, EnvelopeAt, PlanAt
    <3>. QED
      BY <1>1, <1>7, <1>9, <2>4, <3>1 DEF RowsAt
  <2>7. 10 \in Writes /\ "finalized" \in PlacesAt(10)
    BY DEF Writes, PlacesAt
  <2>. QED
    BY <1>1, <1>7, <1>8, <2>3, <2>5, <2>6, <2>7, WritesAlone
<1>10. CASE n # 9
  <2>1. sealed.last = r
    BY <1>1, <1>10 DEF KeyringAt
  <2>2. UNCHANGED sealed
    BY <1>1, <1>6, <2>1 DEF Finalize, Refuse
  <2>3. Doing(at, r, n, place)
    BY <1>1, <1>4, <1>8 DEF Doing, SameBut, IntentRead, Planning, Numbered, Checkpointed
  <2>4. place \in PlacesAt(n)
    BY <1>1, <1>4, <1>10 DEF PlacesAt
  <2>. QED
    BY <1>1, <1>7, <1>8, <2>2, <2>3, <2>4, ReadsAlone
<1>. QED
  BY <1>9, <1>10

(* The intent is marked as finalized.                                        *)
LEMMA MarkFinalizedAlone ==
    ASSUME NEW p \in Procs, NEW r \in Requests, NEW n \in Writes, NEW pc \in PlacesAt(n), Working(p, r, n, pc),
           MarkFinalized(p)
    PROVE  Goes(p, r)
<1>1. /\ pc = "finalized" /\ Rq(p) = r /\ n = 10 /\ DOMAIN attempt = Procs
      /\ DOMAIN attempt[p] = AttemptFields /\ Doing(attempt[p], r, n, pc)
      /\ Mine(p) = IntentRead(r, n, pc) /\ UNCHANGED proof /\ authDb.intents[r] = IntentAt(r, n)
      /\ RowsAt(authDb, r, n) /\ KeyringAt(sealed, r, n) /\ authDb.snapshots = {r}
  BY WorkingFacts, Places DEF MarkFinalized, AdvanceCommit, At, Unmoved
<1>2. /\ Mine(p) = StoredIntent(r, "db_committed") /\ IntentAt(r, 10) = StoredIntent(r, "db_committed")
      /\ IntentAt(r, 11) = StoredIntent(r, "anchor_finalized")
  BY <1>1 DEF IntentRead, Planning, IntentAt
<1>3. AdvanceAllowed(p, "db_committed", "anchor_finalized")
  BY <1>1, <1>2 DEF AdvanceAllowed, StoredIntent
<1>4. IfUntrailed(attempt[p].checkpoint) = "trail"
  BY <1>1 DEF Doing, Checkpointed, CheckpointState, IfUntrailed
<1>5. /\ authDb' = [authDb EXCEPT !.intents[r].state = "anchor_finalized", !.authority = @] /\ UNCHANGED sealed
      /\ attempt' = [attempt EXCEPT ![p].pc = "trail", ![p].intent.state = "anchor_finalized"]
  BY <1>1, <1>3, <1>4 DEF MarkFinalized, AdvanceCommit
<1>6. /\ TablesBut({"intents"})
      /\ authDb'.intents = [authDb.intents EXCEPT ![r].state = "anchor_finalized"]
  BY <1>1, <1>5 DEF TablesBut, TableNames, RowsAt
<1>7. authDb'.intents = Only(r, IntentAt(r, 11), NoIntent)
  BY <1>1, <1>2, <1>6, IntentMovedAlone DEF RowsAt
<1>8. PICK i : i = [attempt[p].intent EXCEPT !.state = "anchor_finalized"]
  OBVIOUS
<1>9. i = IntentAt(r, 11) /\ IntentRead(r, 11, "trail") = IntentAt(r, 11)
  BY <1>2, <1>8 DEF StoredIntent, Mine, IntentRead, Planning
<1>10. PICK at : at = [attempt[p] EXCEPT !.pc = "trail", !.intent = i]
  OBVIOUS
<1>11. attempt' = [attempt EXCEPT ![p] = at]
  BY <1>1, <1>5, <1>8, <1>10 DEF AttemptFields
<1>12. Doing(at, r, 11, "trail")
  BY <1>1, <1>9, <1>10 DEF Doing, AttemptFields, Planning, Numbered, Checkpointed, CheckpointState
<1>13. RowsAt(authDb', r, 11)
  <2>1. /\ AuthorityAt(r, 10) = AuthorityAt(r, 11) /\ ReceiptsAt(r, 10) = ReceiptsAt(r, 11)
        /\ CheckpointAt(10) = CheckpointAt(11) /\ BindingAt(10) = BindingAt(11)
        /\ ProjectsAt(r, 10) = ProjectsAt(r, 11) /\ EnvelopeAt(10) = EnvelopeAt(11) /\ PlanAt(r, 10) = PlanAt(r, 11)
    BY DEF AuthorityAt, ReceiptsAt, CheckpointAt, CheckpointState, BindingAt, ProjectsAt, EnvelopeAt, PlanAt
  <2>. QED
    BY <1>1, <1>6, <1>7, <2>1 DEF RowsAt, TablesBut
<1>14. KeyringAt(sealed', r, 11)
  BY <1>1, <1>5 DEF KeyringAt
<1>15. 11 \in Writes /\ "trail" \in PlacesAt(11) /\ authDb'.snapshots = {r}
  BY <1>1, <1>6 DEF Writes, PlacesAt, TablesBut
<1>. QED
  BY <1>1, <1>11, <1>12, <1>13, <1>14, <1>15, WritesAlone

(* The checkpoint goes forward, and the attempt with it.                     *)
LEMMA CheckpointMovedAlone ==
    ASSUME NEW p \in Procs, NEW r \in Requests, NEW n \in Writes, NEW pc \in PlacesAt(n), Working(p, r, n, pc),
           n \in {11, 13, 14}, pc \in Checkpointed, NEW from, NEW to, NEW place \in PlacesAt(n + 1), place \in {"binding", "finish", "heads"},
           from = CheckpointState(n), to = CheckpointState(n + 1), AdvanceCheckpoint(p, from, to, place)
    PROVE  Goes(p, r)
<1>1. n \in Writes /\ n + 1 \in Writes /\ n # 12
  BY DEF Writes
<1>2. /\ Rq(p) = r /\ DOMAIN attempt = Procs /\ DOMAIN attempt[p] = AttemptFields /\ Doing(attempt[p], r, n, pc)
      /\ RowsAt(authDb, r, n) /\ KeyringAt(sealed, r, n) /\ authDb.snapshots = {r}
      /\ authDb.checkpoints[r] = CheckpointAt(n) /\ authDb.bindings[r] = BindingAt(n)
  BY WorkingFacts
<1>3. attempt[p].receipt = 1
  BY <1>2 DEF Doing
<1>4. CheckpointAt(n) = [state |-> from, receipt |-> 1] /\ CheckpointAt(n + 1) = [state |-> to, receipt |-> 1]
  <2>1. ~(n < 6) /\ ~(n + 1 < 6)
    OBVIOUS
  <2>2. /\ CheckpointAt(n) = [state |-> CheckpointState(n), receipt |-> 1]
        /\ CheckpointAt(n + 1) = [state |-> CheckpointState(n + 1), receipt |-> 1]
    BY <2>1 DEF CheckpointAt
  <2>. QED
    BY <2>2
<1>5. to \in {"binding_persisted", "complete"} => authDb.bindings[r] = 1
  BY <1>2 DEF BindingAt, CheckpointState
<1>6. /\ authDb' = [authDb EXCEPT !.checkpoints[r].state = to] /\ UNCHANGED <<sealed, proof>>
      /\ attempt' = [attempt EXCEPT ![p].pc = place, ![p].checkpoint = to]
  BY <1>2, <1>3, <1>4, <1>5 DEF AdvanceCheckpoint, Unmoved
<1>7. TablesBut({"checkpoints"}) /\ authDb'.checkpoints = [authDb.checkpoints EXCEPT ![r].state = to]
  BY <1>2, <1>6 DEF TablesBut, TableNames, RowsAt
<1>8. authDb'.checkpoints = Only(r, CheckpointAt(n + 1), NoCheckpoint)
  <2>1. PICK c : c = [CheckpointAt(n) EXCEPT !.state = to]
    OBVIOUS
  <2>2. c = CheckpointAt(n + 1)
    BY <1>4, <2>1
  <2>3. authDb'.checkpoints = [authDb.checkpoints EXCEPT ![r] = c]
    BY <1>2, <1>7, <2>1
  <2>. QED
    BY <1>2, <2>2, <2>3, OnlyReplaced DEF RowsAt
<1>9. PICK at : at = [attempt[p] EXCEPT !.pc = place, !.checkpoint = to]
  OBVIOUS
<1>10. attempt' = [attempt EXCEPT ![p] = at]
  BY <1>6, <1>9
<1>11. /\ IntentRead(r, n, pc) = IntentAt(r, n) /\ IntentRead(r, n + 1, place) = IntentAt(r, n + 1)
       /\ IntentAt(r, n) = IntentAt(r, n + 1)
  BY DEF IntentAt, IntentRead, Planning, Checkpointed
<1>12. Doing(at, r, n + 1, place)
  BY <1>2, <1>3, <1>9, <1>11 DEF Doing, AttemptFields, Planning, Numbered, Checkpointed
<1>13. RowsAt(authDb', r, n + 1)
  <2>1. /\ AuthorityAt(r, n) = AuthorityAt(r, n + 1) /\ ReceiptsAt(r, n) = ReceiptsAt(r, n + 1)
        /\ BindingAt(n) = BindingAt(n + 1) /\ ProjectsAt(r, n) = ProjectsAt(r, n + 1)
        /\ EnvelopeAt(n) = EnvelopeAt(n + 1) /\ PlanAt(r, n) = PlanAt(r, n + 1)
    BY <1>1 DEF AuthorityAt, ReceiptsAt, BindingAt, ProjectsAt, EnvelopeAt, PlanAt
  <2>. QED
    BY <1>2, <1>7, <1>8, <1>11, <2>1 DEF RowsAt, TablesBut
<1>14. KeyringAt(sealed', r, n + 1)
  BY <1>2, <1>6 DEF KeyringAt
<1>15. authDb'.snapshots = {r}
  BY <1>2, <1>7 DEF TablesBut
<1>. QED
  BY <1>1, <1>6, <1>10, <1>12, <1>13, <1>14, <1>15, WritesAlone

(* The three steps of the checkpoint.                                        *)
LEMMA CheckpointStepsAlone ==
    ASSUME NEW p \in Procs, NEW r \in Requests, NEW n \in Writes, NEW pc \in PlacesAt(n), Working(p, r, n, pc),
           MarkAuthorityFinalized(p) \/ PersistBinding(p) \/ CompleteCheckpoint(p)
    PROVE  Goes(p, r)
<1>1. CASE MarkAuthorityFinalized(p)
  <2>1. pc = "trail" /\ n = 11 /\ AdvanceCheckpoint(p, "prepared", "authority_finalized", "binding")
    BY <1>1, WorkingFacts, Places DEF MarkAuthorityFinalized, At
  <2>2. /\ CheckpointState(11) = "prepared" /\ CheckpointState(12) = "authority_finalized"
        /\ pc \in Checkpointed /\ "binding" \in PlacesAt(12) /\ 11 + 1 = 12
    BY <2>1 DEF CheckpointState, Checkpointed, PlacesAt
  <2>. QED
    BY <2>1, <2>2, CheckpointMovedAlone
<1>2. CASE PersistBinding(p)
  <2>1. pc = "bind" /\ n = 13 /\ AdvanceCheckpoint(p, "authority_finalized", "binding_persisted", "finish")
    BY <1>2, WorkingFacts, Places DEF PersistBinding, At
  <2>2. /\ CheckpointState(13) = "authority_finalized" /\ CheckpointState(14) = "binding_persisted"
        /\ pc \in Checkpointed /\ "finish" \in PlacesAt(14) /\ 13 + 1 = 14
    BY <2>1 DEF CheckpointState, Checkpointed, PlacesAt
  <2>. QED
    BY <2>1, <2>2, CheckpointMovedAlone
<1>3. CASE CompleteCheckpoint(p)
  <2>1. pc = "finish" /\ n = 14 /\ AdvanceCheckpoint(p, "binding_persisted", "complete", "heads")
    BY <1>3, WorkingFacts, Places DEF CompleteCheckpoint, At
  <2>2. /\ CheckpointState(14) = "binding_persisted" /\ CheckpointState(15) = "complete"
        /\ pc \in Checkpointed /\ "heads" \in PlacesAt(15) /\ 14 + 1 = 15
    BY <2>1 DEF CheckpointState, Checkpointed, PlacesAt
  <2>. QED
    BY <2>1, <2>2, CheckpointMovedAlone
<1>. QED
  BY <1>1, <1>2, <1>3

(* The binding is looked for, and is there from the thirteenth write on.     *)
LEMMA LoadBindingAlone ==
    ASSUME NEW p \in Procs, NEW r \in Requests, NEW n \in Writes, NEW pc \in PlacesAt(n), Working(p, r, n, pc),
           LoadBinding(p)
    PROVE  Goes(p, r)
<1>1. /\ pc = "binding" /\ Rq(p) = r /\ n \in 12..16 /\ authDb.bindings[r] = BindingAt(n)
      /\ DOMAIN attempt = Procs /\ DOMAIN attempt[p] = AttemptFields /\ Doing(attempt[p], r, n, pc)
      /\ UNCHANGED <<authDb, sealed, proof>>
  BY WorkingFacts, Places DEF LoadBinding, At, Unmoved
<1>2. attempt[p].receipt = 1 /\ attempt[p].checkpoint = CheckpointState(n)
  BY <1>1 DEF Doing, Checkpointed
<1>3. PICK place : place = IF n = 12 THEN "newbinding" ELSE IF n = 13 THEN "bind"
                           ELSE IF n = 14 THEN "finish" ELSE "heads"
  OBVIOUS
<1>4. Proceed(p, place)
  <2>1. CASE n = 12
    BY <1>1, <1>2, <1>3, <2>1 DEF LoadBinding, BindingAt
  <2>2. CASE n # 12
    <3>1. authDb.bindings[r] = 1
      BY <1>1, <2>2 DEF BindingAt
    <3>2. IfUnbound(attempt[p].checkpoint) = place
      BY <1>1, <1>2, <1>3, <2>2 DEF IfUnbound, CheckpointState
    <3>. QED
      BY <1>1, <1>2, <3>1, <3>2 DEF LoadBinding
  <2>. QED
    BY <2>1, <2>2
<1>5. PICK at : /\ attempt' = [attempt EXCEPT ![p] = at]
                /\ SameBut(at, attempt[p], {}) /\ at.pc = place
  BY <1>1, <1>4, GoesOn
<1>6. Doing(at, r, n, place)
  BY <1>1, <1>3, <1>5 DEF Doing, SameBut, IntentRead, Planning, Numbered, Checkpointed
<1>7. place \in PlacesAt(n)
  BY <1>1, <1>3 DEF PlacesAt
<1>. QED
  BY <1>1, <1>5, <1>6, <1>7, ReadsAlone

(* The binding is written.                                                   *)
LEMMA AppendBindingAlone ==
    ASSUME NEW p \in Procs, NEW r \in Requests, NEW n \in Writes, NEW pc \in PlacesAt(n), Working(p, r, n, pc),
           AppendBinding(p)
    PROVE  Goes(p, r)
<1>1. /\ pc = "newbinding" /\ Rq(p) = r /\ n = 12 /\ authDb.bindings[r] = BindingAt(n)
      /\ DOMAIN attempt = Procs /\ DOMAIN attempt[p] = AttemptFields /\ Doing(attempt[p], r, n, pc)
      /\ UNCHANGED proof /\ RowsAt(authDb, r, n) /\ KeyringAt(sealed, r, n) /\ authDb.snapshots = {r}
  BY WorkingFacts, Places DEF AppendBinding, At, Unmoved
<1>2. attempt[p].receipt = 1 /\ authDb.bindings[r] = 0 /\ IfUnbound(attempt[p].checkpoint) = "bind"
  BY <1>1 DEF Doing, Checkpointed, CheckpointState, IfUnbound, BindingAt
<1>3. /\ TablesBut({"bindings"}) /\ UNCHANGED sealed /\ Proceed(p, "bind")
      /\ authDb'.bindings = [authDb.bindings EXCEPT ![r] = 1]
  BY <1>1, <1>2 DEF AppendBinding, TablesBut, TableNames, RowsAt
<1>4. authDb'.bindings = Only(r, BindingAt(13), 0)
  BY <1>1, <1>3, OnlyReplaced DEF RowsAt, BindingAt
<1>5. PICK at : /\ attempt' = [attempt EXCEPT ![p] = at]
                /\ SameBut(at, attempt[p], {}) /\ at.pc = "bind"
  BY <1>1, <1>3, GoesOn
<1>6. /\ IntentAt(r, 12) = IntentAt(r, 13) /\ CheckpointState(12) = CheckpointState(13)
      /\ IntentRead(r, 12, "newbinding") = IntentRead(r, 13, "bind")
  BY DEF IntentAt, CheckpointState, IntentRead, Planning
<1>7. Doing(at, r, 13, "bind")
  BY <1>1, <1>5, <1>6 DEF Doing, SameBut, Planning, Numbered, Checkpointed
<1>8. RowsAt(authDb', r, 13)
  <2>1. /\ AuthorityAt(r, 12) = AuthorityAt(r, 13) /\ ReceiptsAt(r, 12) = ReceiptsAt(r, 13)
        /\ CheckpointAt(12) = CheckpointAt(13) /\ ProjectsAt(r, 12) = ProjectsAt(r, 13)
        /\ EnvelopeAt(12) = EnvelopeAt(13) /\ PlanAt(r, 12) = PlanAt(r, 13)
    BY DEF AuthorityAt, ReceiptsAt, CheckpointAt, CheckpointState, ProjectsAt, EnvelopeAt, PlanAt
  <2>. QED
    BY <1>1, <1>3, <1>4, <1>6, <2>1 DEF RowsAt, TablesBut
<1>9. KeyringAt(sealed', r, 13)
  BY <1>1, <1>3 DEF KeyringAt
<1>10. 13 \in Writes /\ "bind" \in PlacesAt(13) /\ authDb'.snapshots = {r}
  BY <1>1, <1>3 DEF Writes, PlacesAt, TablesBut
<1>. QED
  BY <1>1, <1>5, <1>7, <1>8, <1>9, <1>10, WritesAlone

(* The heads are read when the checkpoint is complete and bound.             *)
LEMMA ReadHeadsAlone ==
    ASSUME NEW p \in Procs, NEW r \in Requests, NEW n \in Writes, NEW pc \in PlacesAt(n), Working(p, r, n, pc),
           ReadHeads(p)
    PROVE  Goes(p, r)
<1>1. /\ pc = "heads" /\ Rq(p) = r /\ n \in 15..16 /\ DOMAIN attempt = Procs
      /\ DOMAIN attempt[p] = AttemptFields /\ Doing(attempt[p], r, n, pc)
      /\ RowsAt(authDb, r, n) /\ UNCHANGED <<authDb, sealed, proof>>
  BY WorkingFacts, Places DEF ReadHeads, At, Unmoved
<1>2. HistoryHeads = FinalHeads(r)
  <2>1. CheckpointAt(n).state = "complete" /\ NoCheckpoint.state = "none" /\ BindingAt(n) = 1
    BY <1>1 DEF CheckpointAt, CheckpointState, NoCheckpoint, BindingAt
  <2>2. [q \in Requests |-> authDb.checkpoints[q].state] = Only(r, "complete", "none")
    BY <1>1, <2>1 DEF RowsAt, Only
  <2>3. authDb.bindings = Only(r, 1, 0)
    BY <1>1, <2>1 DEF RowsAt
  <2>. QED
    BY <2>2, <2>3 DEF HistoryHeads, FinalHeads
<1>3. attempt' = [attempt EXCEPT ![p].pc = "seal", ![p].heads = FinalHeads(r)]
  BY <1>2 DEF ReadHeads
<1>4. PICK at : at = [attempt[p] EXCEPT !.pc = "seal", !.heads = FinalHeads(r)]
  OBVIOUS
<1>5. attempt' = [attempt EXCEPT ![p] = at]
  BY <1>3, <1>4
<1>6. Doing(at, r, n, "seal")
  BY <1>1, <1>4 DEF Doing, AttemptFields, IntentRead, Planning, Numbered, Checkpointed
<1>7. "seal" \in PlacesAt(n)
  BY <1>1 DEF PlacesAt
<1>. QED
  BY <1>1, <1>5, <1>6, <1>7, ReadsAlone

(* The heads that were read are sealed, or are the sealed ones.              *)
LEMMA SealHeadsAlone ==
    ASSUME NEW p \in Procs, NEW r \in Requests, NEW n \in Writes, NEW pc \in PlacesAt(n), Working(p, r, n, pc),
           SealHeads(p)
    PROVE  Goes(p, r)
<1>1. /\ pc = "seal" /\ Rq(p) = r /\ n \in 15..16 /\ DOMAIN attempt = Procs
      /\ DOMAIN attempt[p] = AttemptFields /\ Doing(attempt[p], r, n, pc) /\ UNCHANGED proof
      /\ RowsAt(authDb, r, n) /\ KeyringAt(sealed, r, n) /\ authDb.snapshots = {r}
  BY WorkingFacts, Places DEF SealHeads, At, Unmoved
<1>2. attempt[p].heads = FinalHeads(r)
  BY <1>1 DEF Doing
<1>3. SealAllowed(p)
  BY <1>1, <1>2, NoValueIsNone DEF SealAllowed, KeyringAt
<1>4. /\ sealed' = [sealed EXCEPT !.heads = FinalHeads(r), !.pendingHeads = NoValue]
      /\ UNCHANGED authDb /\ Proceed(p, "complete")
  BY <1>2, <1>3 DEF SealHeads
<1>5. PICK at : /\ attempt' = [attempt EXCEPT ![p] = at]
                /\ SameBut(at, attempt[p], {}) /\ at.pc = "complete"
  BY <1>1, <1>4, GoesOn
<1>6. /\ IntentAt(r, n) = IntentAt(r, 16) /\ CheckpointState(n) = CheckpointState(16)
      /\ IntentRead(r, n, "seal") = IntentRead(r, 16, "complete")
  BY <1>1 DEF IntentAt, CheckpointState, IntentRead, Planning
<1>7. Doing(at, r, 16, "complete")
  BY <1>1, <1>5, <1>6 DEF Doing, SameBut, Planning, Numbered, Checkpointed
<1>8. RowsAt(authDb', r, 16)
  <2>1. /\ AuthorityAt(r, n) = AuthorityAt(r, 16) /\ ReceiptsAt(r, n) = ReceiptsAt(r, 16)
        /\ CheckpointAt(n) = CheckpointAt(16) /\ BindingAt(n) = BindingAt(16)
        /\ ProjectsAt(r, n) = ProjectsAt(r, 16) /\ EnvelopeAt(n) = EnvelopeAt(16) /\ PlanAt(r, n) = PlanAt(r, 16)
    BY <1>1 DEF AuthorityAt, ReceiptsAt, CheckpointAt, CheckpointState, BindingAt, ProjectsAt, EnvelopeAt, PlanAt
  <2>. QED
    BY <1>1, <1>4, <1>6, <2>1 DEF RowsAt
<1>9. KeyringAt(sealed', r, 16)
  BY <1>1, <1>4 DEF KeyringAt, SealFields
<1>10. 16 \in Writes /\ "complete" \in PlacesAt(16) /\ authDb'.snapshots = {r}
  BY <1>1, <1>4 DEF Writes, PlacesAt
<1>. QED
  BY <1>1, <1>4, <1>5, <1>7, <1>8, <1>9, <1>10, WritesAlone

(* The create is answered.                                                   *)
LEMMA CompleteEnvelopeAlone ==
    ASSUME NEW p \in Procs, NEW r \in Requests, NEW n \in Writes, NEW pc \in PlacesAt(n), Working(p, r, n, pc),
           CompleteEnvelope(p)
    PROVE  Ends(r)
<1>1. /\ pc = "complete" /\ Rq(p) = r /\ n = 16 /\ DOMAIN attempt = Procs
      /\ UNCHANGED proof /\ authDb.envelopes[r] = EnvelopeAt(n)
      /\ RowsAt(authDb, r, n) /\ KeyringAt(sealed, r, n) /\ authDb.snapshots = {r}
  BY WorkingFacts, Places DEF CompleteEnvelope, At, Unmoved
<1>2. authDb.envelopes[r] = "in_progress"
  BY <1>1 DEF EnvelopeAt
<1>3. /\ TablesBut({"envelopes"}) /\ UNCHANGED sealed /\ attempt' = [attempt EXCEPT ![p] = NoAttempt]
      /\ authDb'.envelopes = [authDb.envelopes EXCEPT ![r] = "succeeded"]
  BY <1>1, <1>2 DEF CompleteEnvelope, Completed, Reply, TablesBut, TableNames, RowsAt
<1>4. AllIdle'
  BY <1>1, <1>3 DEF AllIdle, Working
<1>5. authDb'.envelopes = Only(r, EnvelopeAt(17), "none")
  BY <1>1, <1>3, OnlyReplaced DEF RowsAt, EnvelopeAt
<1>6. RowsAt(authDb', r, 17)
  <2>1. /\ AuthorityAt(r, 16) = AuthorityAt(r, 17) /\ ReceiptsAt(r, 16) = ReceiptsAt(r, 17)
        /\ IntentAt(r, 16) = IntentAt(r, 17) /\ CheckpointAt(16) = CheckpointAt(17) /\ BindingAt(16) = BindingAt(17)
        /\ ProjectsAt(r, 16) = ProjectsAt(r, 17) /\ PlanAt(r, 16) = PlanAt(r, 17)
    BY DEF AuthorityAt, ReceiptsAt, IntentAt, CheckpointAt, CheckpointState, BindingAt, ProjectsAt, PlanAt
  <2>. QED
    BY <1>1, <1>3, <1>5, <2>1 DEF RowsAt, TablesBut
<1>7. KeyringAt(sealed', r, 17)
  BY <1>1, <1>3 DEF KeyringAt
<1>8. Reached(r, 17)'
  BY <1>1, <1>6, <1>7 DEF Working, Reached
<1>. QED
  BY <1>4, <1>8 DEF Ends

(* Alone, no step of an attempt is refused: it goes on, or it has answered.  *)
LEMMA StepsAlone ==
    ASSUME NEW p \in Procs, NEW r \in Requests, NEW n \in Writes, NEW pc \in PlacesAt(n), Working(p, r, n, pc),
           Attempt(p)
    PROVE  Goes(p, r) \/ Ends(r)
<1>1. attempt[p].pc = pc /\ pc \notin {"quarantine", "quarantine2", "quarantine3", "invalid"}
  BY WorkingFacts, Places DEF Planning, Checkpointed
<1>2. ~QuarantineAuthority(p) /\ ~QuarantineCheckpoint(p) /\ ~QuarantineIntent(p) /\ ~CheckpointInvalid(p)
  BY <1>1 DEF QuarantineAuthority, QuarantineCheckpoint, QuarantineIntent, CheckpointInvalid, At
<1>. QED
  BY <1>2, ClaimAlone, CompleteEnvelopeAlone, LoadIntentAlone, LoadAuthorityAlone, LoadReceiptAlone,
     NumberReceiptAlone, AppendReceiptAlone, PlanAlone, PrepareAlone, ReserveAlone, MarkReservedAlone,
     LoadCheckpointAlone, PrepareCheckpointAlone, AddProjectAlone, ValidateCommitmentsAlone,
     AppendCommitmentsAlone, CommitAuthorityAlone, FinalizeAlone, MarkFinalizedAlone, CheckpointStepsAlone,
     LoadBindingAlone, AppendBindingAlone, ReadHeadsAlone, SealHeadsAlone
     DEF Attempt

(* The proof is of the genesis generation, and it is a value.                *)
LEMMA IssuedIsValue == [generation |-> 0, root |-> GenesisRoot] # NoValue
<1>1. GenesisRoot \in Roots
  BY DEF GenesisRoot, Root, GenesisRows, Roots
<1>2. [generation |-> 0, root |-> GenesisRoot] \in IssuedProofs
  BY <1>1 DEF IssuedProofs
<1>. QED
  BY <1>2, AuthAssumption

(* Every step of an attempt is of a process at work, and no fault.           *)
LEMMA AttemptsAreFaultless ==
    ASSUME NEW p \in Procs, Attempt(p)
    PROVE  attempt[p].pc # "idle" /\ Unmoved
<1>1. attempt[p].pc # "idle"
  BY DEF Attempt, At, Claim, CompleteEnvelope, LoadIntent, LoadAuthority, LoadReceipt, NumberReceipt, AppendReceipt,
         Plan, Prepare, Reserve, MarkReserved, LoadCheckpoint, PrepareCheckpoint, AddProject, ValidateCommitments,
         AppendCommitments, QuarantineAuthority, QuarantineCheckpoint, QuarantineIntent, CommitAuthority, Finalize,
         MarkFinalized, MarkAuthorityFinalized, LoadBinding, AppendBinding, PersistBinding, CompleteCheckpoint,
         CheckpointInvalid, ReadHeads, SealHeads
<1>2. Unmoved
  BY DEF Attempt, Claim, CompleteEnvelope, LoadIntent, LoadAuthority, LoadReceipt, NumberReceipt, AppendReceipt,
         Plan, Prepare, Reserve, MarkReserved, LoadCheckpoint, PrepareCheckpoint, AddProject, ValidateCommitments,
         AppendCommitments, QuarantineAuthority, QuarantineCheckpoint, QuarantineIntent, CommitAuthority, Finalize,
         MarkFinalized, MarkAuthorityFinalized, LoadBinding, AppendBinding, PersistBinding, CompleteCheckpoint,
         CheckpointInvalid, ReadHeads, SealHeads, AdvanceCommit, AdvanceCheckpoint
<1>. QED
  BY <1>1, <1>2

(* Nothing has been written at first, whichever request will be the first.   *)
LEMMA AloneInit == ASSUME AuthInit PROVE OneCreateInv
<1>1. ASSUME NEW r \in Requests PROVE RowsAt(authDb, r, 0)
  <2>1. /\ AuthorityAt(r, 0) = GenesisAuthority /\ IntentAt(r, 0) = NoIntent /\ ReceiptsAt(r, 0) = <<>>
        /\ CheckpointAt(0) = NoCheckpoint /\ BindingAt(0) = 0 /\ ProjectsAt(r, 0) = {} /\ EnvelopeAt(0) = "none"
        /\ PlanAt(r, 0) = NoValue
    BY DEF AuthorityAt, IntentAt, ReceiptsAt, CheckpointAt, BindingAt, ProjectsAt, EnvelopeAt, PlanAt
  <2>2. /\ DOMAIN authDb = TableNames /\ authDb.authority = GenesisAuthority
        /\ authDb.intents = [q \in Requests |-> NoIntent] /\ authDb.receipts = <<>>
        /\ authDb.checkpoints = [q \in Requests |-> NoCheckpoint] /\ authDb.bindings = [q \in Requests |-> 0]
        /\ authDb.projects = {} /\ authDb.envelopes = [q \in Requests |-> "none"] /\ authDb.snapshots = {}
        /\ authDb.commitments = [g \in 0..Cardinality(Requests) |-> IF g = 0 THEN GenesisRoot ELSE NoValue]
    BY DEF AuthInit, TableNames, GenesisAuthority
  <2>3. /\ authDb.intents = Only(r, NoIntent, NoIntent) /\ authDb.checkpoints = Only(r, NoCheckpoint, NoCheckpoint)
        /\ authDb.bindings = Only(r, 0, 0) /\ authDb.envelopes = Only(r, "none", "none")
    BY <2>2 DEF Only
  <2>4. /\ DOMAIN authDb.commitments = 0..Cardinality(Requests)
        /\ authDb.commitments[0] = GenesisRoot /\ authDb.commitments[1] = NoValue
    BY <2>2, FirstGeneration
  <2>. QED
    BY <2>1, <2>2, <2>3, <2>4 DEF RowsAt
<1>2. ASSUME NEW r \in Requests PROVE KeyringAt(sealed, r, 0)
  BY DEF AuthInit, KeyringAt, SealFields
<1>3. /\ crashes \in Nat /\ AllIdle /\ proof = [r \in Requests |-> NoValue] /\ authDb.snapshots = {}
  BY DEF AuthInit, AllIdle
<1>. QED
  BY <1>1, <1>2, <1>3 DEF OneCreateInv

(* The first proof begins a create, and there is no second.                  *)
LEMMA IssueAlone ==
    ASSUME OneCreateInv, scenario = "alone", NEW r \in Requests, IssueProof(r)
    PROVE  Begun(r)'
<1>1. \A q \in Requests : proof[q] = NoValue
  BY DEF IssueProof
<1>2. \A q \in Requests : ~Begun(q)
  <2>1. SUFFICES ASSUME NEW q \in Requests, Begun(q) PROVE FALSE
    OBVIOUS
  <2>2. proof[q] = [generation |-> 0, root |-> GenesisRoot]
    BY <2>1 DEF Begun, Reached, Only
  <2>. QED
    BY <1>1, <2>2, IssuedIsValue
<1>3. /\ AllIdle /\ proof = [q \in Requests |-> NoValue] /\ RowsAt(authDb, r, 0) /\ KeyringAt(sealed, r, 0)
  BY <1>2 DEF OneCreateInv
<1>4. sealed.generation = 0 /\ sealed.root = GenesisRoot
  BY <1>3 DEF KeyringAt
<1>5. proof' = Only(r, [generation |-> 0, root |-> GenesisRoot], NoValue)
  <2>1. PICK issued : issued = [generation |-> 0, root |-> GenesisRoot]
    OBVIOUS
  <2>2. proof' = [proof EXCEPT ![r] = issued]
    BY <1>4, <2>1 DEF IssueProof
  <2>. QED
    BY <1>3, <2>1, <2>2 DEF Only
<1>6. UNCHANGED <<authDb, sealed, attempt>>
  BY DEF IssueProof
<1>7. AllIdle' /\ RowsAt(authDb, r, 0)' /\ KeyringAt(sealed, r, 0)'
  BY <1>3, <1>6 DEF AllIdle
<1>8. Reached(r, 0)' /\ 0 \in Writes
  BY <1>5, <1>7 DEF Reached, Writes
<1>. QED
  BY <1>7, <1>8 DEF Begun

(* The snapshot of the decision is stored before anything is written.        *)
LEMMA SnapshotAlone ==
    ASSUME OneCreateInv, scenario = "alone", NEW q \in Requests, AppendSnapshot(q)
    PROVE  \E r \in Requests : Begun(r)'
<1>1. /\ proof[q] # NoValue /\ q \notin authDb.snapshots /\ UNCHANGED <<sealed, attempt, proof>>
      /\ authDb' = [authDb EXCEPT !.snapshots = @ \cup {q}]
  BY DEF AppendSnapshot, Unmoved
<1>2. PICK r \in Requests : Begun(r)
  BY <1>1 DEF OneCreateInv
<1>3. PICK n \in Writes :
         Reached(r, n) /\ (AllIdle \/ \E p \in Procs : \E pc \in PlacesAt(n) : Working(p, r, n, pc))
  BY <1>2 DEF Begun
<1>4. q = r
  BY <1>1, <1>3 DEF Reached, Only
<1>5. n = 0 /\ authDb.snapshots = {}
  BY <1>1, <1>3, <1>4 DEF Reached, RowsAt, Writes
<1>6. AllIdle
  BY <1>3, <1>5 DEF Working
<1>7. TablesBut({"snapshots"}) /\ authDb'.snapshots = {r}
  BY <1>1, <1>3, <1>4, <1>5 DEF TablesBut, TableNames, Reached, RowsAt
<1>8. RowsAt(authDb', r, 0)
  BY <1>3, <1>5, <1>7 DEF RowsAt, TablesBut, Reached
<1>9. Reached(r, 0)' /\ AllIdle'
  BY <1>1, <1>3, <1>5, <1>6, <1>8 DEF Reached, AllIdle
<1>. QED
  BY <1>5, <1>9 DEF Begun

(* An attempt starts when nobody is at work.                                 *)
LEMMA AuthorizeAlone ==
    ASSUME OneCreateInv, scenario = "alone", NEW p \in Procs, NEW q \in Requests, Authorize(p, q)
    PROVE  attempt'[p].pc = "claim" /\ (\E r \in Requests : Begun(r)')
           /\ \A o \in Procs : attempt[o].pc = "idle"
<1>1. /\ q \in authDb.snapshots /\ UNCHANGED <<authDb, sealed, proof>> /\ \A o \in Procs : attempt[o].req # q
      /\ attempt' = [attempt EXCEPT ![p] = [NoAttempt EXCEPT !.pc = "claim", !.req = q]]
  BY DEF Authorize, SnapshotVerified, Unmoved
<1>2. PICK r \in Requests : Begun(r)
  BY <1>1 DEF OneCreateInv
<1>3. PICK n \in Writes :
         Reached(r, n) /\ (AllIdle \/ \E o \in Procs : \E pc \in PlacesAt(n) : Working(o, r, n, pc))
  BY <1>2 DEF Begun
<1>4. q = r /\ authDb.snapshots = {r}
  BY <1>1, <1>3 DEF Reached, RowsAt
<1>5. AllIdle
  BY <1>1, <1>3, <1>4 DEF Working, Doing
<1>6. PICK at : at = [NoAttempt EXCEPT !.pc = "claim", !.req = r]
  OBVIOUS
<1>7. attempt' = [attempt EXCEPT ![p] = at]
  BY <1>1, <1>4, <1>6
<1>8. Doing(at, r, n, "claim")
  BY <1>6 DEF Doing, NoAttempt, AttemptFields, IntentRead, Planning, Numbered, Checkpointed
<1>9. "claim" \in PlacesAt(n)
  BY DEF PlacesAt
<1>10. DOMAIN attempt' = Procs /\ attempt'[p] = at /\ \A o \in Procs \ {p} : attempt'[o] = NoAttempt
  BY <1>5, <1>7 DEF AllIdle
<1>11. Reached(r, n)'
  BY <1>1, <1>3 DEF Reached
<1>12. Working(p, r, n, "claim")'
  BY <1>1, <1>4, <1>8, <1>10, <1>11 DEF Working
<1>13. Begun(r)'
  BY <1>9, <1>11, <1>12 DEF Begun
<1>14. \A o \in Procs : attempt[o].pc = "idle"
  BY <1>5 DEF AllIdle, NoAttempt
<1>. QED
  BY <1>8, <1>10, <1>13, <1>14 DEF Doing

(* A process that takes a step is the one at work.                           *)
LEMMA WorkerAlone ==
    ASSUME OneCreateInv, scenario = "alone", NEW p \in Procs, attempt[p].pc # "idle"
    PROVE  \E r \in Requests : \E n \in Writes : \E pc \in PlacesAt(n) : Working(p, r, n, pc)
<1>1. attempt[p] # NoAttempt
  BY DEF NoAttempt
<1>2. PICK r \in Requests : Begun(r)
  BY <1>1 DEF OneCreateInv, AllIdle
<1>3. PICK n \in Writes : AllIdle \/ \E o \in Procs : \E pc \in PlacesAt(n) : Working(o, r, n, pc)
  BY <1>2 DEF Begun
<1>4. PICK o \in Procs : \E pc \in PlacesAt(n) : Working(o, r, n, pc)
  BY <1>1, <1>3 DEF AllIdle
<1>5. o = p
  BY <1>1, <1>4 DEF Working
<1>. QED
  BY <1>4, <1>5

(* An attempt that dies leaves what it has written.                          *)
LEMMA DiesAlone ==
    ASSUME OneCreateInv, scenario = "alone", NEW p \in Procs, AttemptDies(p)
    PROVE  (\E r \in Requests : Begun(r)') /\ crashes' = crashes + 1
<1>1. attempt[p].pc # "idle" /\ crashes' = crashes + 1 /\ attempt' = [attempt EXCEPT ![p] = NoAttempt]
      /\ UNCHANGED <<authDb, sealed, proof>>
  BY DEF AttemptDies, At, Reply
<1>2. PICK r \in Requests, n \in Writes : \E pc \in PlacesAt(n) : Working(p, r, n, pc)
  BY <1>1, WorkerAlone
<1>3. AllIdle'
  BY <1>1, <1>2 DEF AllIdle, Working
<1>4. Reached(r, n)'
  BY <1>1, <1>2 DEF Working, Reached
<1>. QED
  BY <1>1, <1>3, <1>4 DEF Begun

(* An attempt that is not cut short goes on or has answered.                 *)
LEMMA AttemptAlone ==
    ASSUME OneCreateInv, scenario = "alone", NEW p \in Procs, Attempt(p)
    PROVE  /\ \E r \in Requests : Begun(r)'
           /\ \A q \in Procs : attempt[q].pc # "idle" /\ attempt'[q].pc = "idle" => authDb'.envelopes[Rq(q)] = "succeeded"
<1>1. attempt[p].pc # "idle"
  BY AttemptsAreFaultless
<1>2. PICK r \in Requests, n \in Writes : \E pc \in PlacesAt(n) : Working(p, r, n, pc)
  BY <1>1, WorkerAlone
<1>3. PICK pc \in PlacesAt(n) : Working(p, r, n, pc)
  BY <1>2
<1>4. Rq(p) = r
  BY <1>3, WorkingFacts
<1>5. \A q \in Procs : attempt[q].pc # "idle" => q = p
  BY <1>3 DEF Working, NoAttempt
<1>6. CASE Goes(p, r)
  <2>0. PICK m \in Writes : \E place \in PlacesAt(m) : Working(p, r, m, place)'
    BY <1>6 DEF Goes
  <2>1. PICK place \in PlacesAt(m) : Working(p, r, m, place)'
    BY <2>0
  <2>2. Begun(r)'
    BY <2>1 DEF Begun, Working
  <2>3. attempt'[p].pc = place /\ place # "idle"
    BY <2>1, Places DEF Working, Doing
  <2>. QED
    BY <1>5, <2>2, <2>3
<1>7. CASE Ends(r)
  <2>1. Begun(r)'
    BY <1>7 DEF Ends, Begun, Writes
  <2>2. authDb'.envelopes[r] = "succeeded"
    BY <1>7 DEF Ends, Reached, RowsAt, Only, EnvelopeAt
  <2>. QED
    BY <1>4, <1>5, <2>1, <2>2
<1>. QED
  BY <1>3, <1>6, <1>7, StepsAlone

(* Every step of the system leaves the writes in their order.                *)
LEMMA AloneStep == ASSUME OneCreateInv, [AuthNext]_authVars PROVE OneCreateInv'
<1>1. CASE UNCHANGED authVars
  <2>1. UNCHANGED <<authDb, sealed, proof, attempt, scenario, crashes>>
    BY <1>1 DEF authVars
  <2>2. AllIdle' <=> AllIdle
    BY <2>1 DEF AllIdle
  <2>3. ASSUME NEW r \in Requests, NEW n \in Writes PROVE Reached(r, n)' <=> Reached(r, n)
    BY <2>1 DEF Reached
  <2>4. ASSUME NEW p \in Procs, NEW r \in Requests, NEW n \in Writes, NEW pc \in PlacesAt(n)
        PROVE  Working(p, r, n, pc)' <=> Working(p, r, n, pc)
    BY <2>1, <2>3 DEF Working
  <2>5. \A r \in Requests : Begun(r) => Begun(r)'
    BY <2>2, <2>3, <2>4 DEF Begun
  <2>. QED
    BY <2>1, <2>2, <2>5 DEF OneCreateInv
<1>2. CASE AuthNext
  <2>1. scenario' = scenario
    BY <1>2, AttemptsAreFaultless
       DEF AuthNext, IssueProof, AppendSnapshot, Authorize, AttemptDies, AuditedDecision, Tamper, Unmoved
  <2>2. crashes' \in Nat
    <3>1. crashes \in Nat /\ crashes + 1 \in Nat
      BY DEF OneCreateInv
    <3>2. ASSUME NEW p \in Procs, Attempt(p) \/ AttemptDies(p) PROVE crashes' \in {crashes, crashes + 1}
      <4>1. CASE Attempt(p)
        BY <4>1, AttemptsAreFaultless DEF Unmoved
      <4>2. CASE AttemptDies(p)
        BY <4>2 DEF AttemptDies
      <4>. QED
        BY <3>2, <4>1, <4>2
    <3>3. \/ \E p \in Procs : Attempt(p) \/ AttemptDies(p)
          \/ crashes' = crashes
      BY <1>2 DEF AuthNext, IssueProof, AppendSnapshot, Authorize, AuditedDecision, Tamper, Unmoved
    <3>. QED
      BY <3>1, <3>2, <3>3
  <2>3. CASE scenario # "alone"
    BY <2>1, <2>2, <2>3 DEF OneCreateInv
  <2>4. CASE scenario = "alone"
    <3>1. ~AuditedDecision /\ \A g \in DOMAIN authDb.commitments : ~Tamper(g)
      BY <2>4 DEF AuditedDecision, Tamper
    <3>2. \E r \in Requests : Begun(r)'
      BY <1>2, <2>4, <3>1, IssueAlone, SnapshotAlone, AuthorizeAlone, AttemptAlone, DiesAlone DEF AuthNext
    <3>. QED
      BY <2>2, <3>2 DEF OneCreateInv
  <2>. QED
    BY <2>3, <2>4
<1>. QED
  BY <1>1, <1>2

(* What ends alone, other than by dying, has been answered.                  *)
LEMMA AloneEndsAnswered ==
    ASSUME OneCreateInv, [AuthNext]_authVars, NEW p \in Procs, scenario = "alone", crashes' = crashes,
           ~At(p, "idle"), At(p, "idle")'
    PROVE  authDb'.envelopes[Rq(p)] = "succeeded"
<1>1. attempt[p].pc # "idle" /\ attempt'[p].pc = "idle"
  BY DEF At
<1>2. ~UNCHANGED authVars
  BY <1>1 DEF authVars
<1>3. /\ ~AuditedDecision /\ \A g \in DOMAIN authDb.commitments : ~Tamper(g)
      /\ \A r \in Requests : ~IssueProof(r) /\ ~AppendSnapshot(r)
  BY <1>1 DEF AuditedDecision, Tamper, IssueProof, AppendSnapshot
<1>4. \A q \in Procs, r \in Requests : ~Authorize(q, r)
  BY <1>1, AuthorizeAlone
<1>5. \A q \in Procs : ~AttemptDies(q)
  BY DiesAlone DEF OneCreateInv
<1>6. PICK q \in Procs : Attempt(q)
  BY <1>2, <1>3, <1>4, <1>5 DEF AuthNext
<1>. QED
  BY <1>1, <1>6, AttemptAlone

(* A create that is alone in its workspace is never refused: wherever its    *)
(* attempts die, the next one that is not cut short ends with the project    *)
(* created.                                                                  *)
THEOREM RecoversAloneHolds == AuthSpec => RecoversAlone
<1>1. AuthInit => OneCreateInv
  BY AloneInit
<1>2. OneCreateInv /\ [AuthNext]_authVars => OneCreateInv'
  BY AloneStep
<1>3. OneCreateInv /\ [AuthNext]_authVars =>
         [\A p \in Procs : /\ scenario = "alone" /\ crashes' = crashes
                           /\ ~At(p, "idle") /\ At(p, "idle")'
                           => authDb'.envelopes[Rq(p)] = "succeeded"]_authVars
  BY AloneEndsAnswered
<1>. QED
  BY <1>1, <1>2, <1>3, PTL DEF AuthSpec, RecoversAlone
==============================================================================
