-------------------------- MODULE SharedStoresProofs --------------------------
(* Proofs about the stores that clients of a workspace follow: the change    *)
(* log of WorkspaceSync is one chain whatever mix of replays, refusals and   *)
(* batches wrote it, and what a browser shows of it is a prefix that it has  *)
(* acknowledged; the rows of Conversations are as if overlapping             *)
(* transactions had come one after the other, and a follower of a run sees   *)
(* them so; and the database file itself keeps its data and a revision that  *)
(* the code knows, whichever processes create, migrate or roll it back, and  *)
(* in whatever order their steps come.                                       *)
EXTENDS WorkspaceSync, Conversations, SchemaLifecycle, FiniteSetTheorems, SequenceTheorems,
        NaturalsInduction, WellFoundedInduction, TLAPS

(* The state of the server, as apply's transaction sees it                   *)

Edits == EditKeys \cup {Created, Outside}

(* n changes, numbered without a gap, each with the digest before it, and    *)
(* the last with the digest of the head.                                     *)
Chained(cs, n, digest) ==
    /\ n \in Nat /\ IsFiniteSet(cs) /\ Cardinality(cs) = n
    /\ \A c \in cs : c.seq \in 1..n
    /\ \A k \in 1..n : \E c \in cs : c.seq = k
    /\ \A c, d \in cs : c.seq = d.seq => c = d
    /\ \A c \in cs : c.seq = 1 => c.prev = <<>>
    /\ \A c, d \in cs : d.seq = c.seq + 1 => d.prev = c.digest
    /\ \A c \in cs : c.seq = n => c.digest = digest
    /\ n = 0 => digest = <<>>

(* One row for a key of a device and an entity, and a row for every change.  *)
Replayable(cs, records, n) ==
    /\ \A i \in records : i.seq \in 1..n
    /\ \A i, j \in records :
          i.device = j.device /\ i.entity = j.entity /\ i.key = j.key => i = j
    /\ \A c \in cs : \E i \in records :
          /\ i.seq = c.seq /\ i.device = c.body.device
          /\ i.entity = c.body.entity /\ i.key = c.body.edit

(* A change carries the version of the profile that it made.                 *)
Profiled(cs, p) ==
    /\ p \in [Entities -> Seq(Edits)]
    /\ \A e \in Entities : Len(p[e]) >= 1
    /\ \A c \in cs : /\ c.body.entity \in Entities
                     /\ c.body.version \in 1..Len(p[c.body.entity])
                     /\ p[c.body.entity][c.body.version] = c.body.edit
    /\ \A c, d \in cs : c.body.entity = d.body.entity /\ c.seq < d.seq
                            => c.body.version < d.body.version

LogSound(s) ==
    /\ Chained(s.changes, s.seq, s.digest)
    /\ Replayable(s.changes, s.idem, s.seq)
    /\ Profiled(s.changes, s.profile)

(* The ledgers that are the replay of a first part of n changes.             *)
WorkspaceEdits(cs, n) == {c \in cs : c.seq <= n /\ c.body.entity = "workspace"}
LedgersOf(cs, n) ==
    {led \in [cursor : 0..n, version : 0..MaxVersion, high : 0..n,
              digest : {<<>>} \cup {c.digest : c \in cs}] :
        /\ led.cursor = 0 => led.digest = <<>>
        /\ \A c \in cs : c.seq = led.cursor => led.digest = c.digest
        /\ \A c \in WorkspaceEdits(cs, led.cursor) : c.body.version <= led.version
        /\ WorkspaceEdits(cs, led.cursor) # {} =>
              \E c \in WorkspaceEdits(cs, led.cursor) : c.body.version = led.version}

-----------------------------------------------------------------------------
(* The inductive invariant                                                   *)

TabStatuses == {"idle", "loading", "ready", "conflict", "forbidden", "offline", "error"}
TabRecords(L) ==
    [op : 0..MaxOps, status : TabStatuses, ledger : L, work : L, selected : Nat, current : Nat]
NetRecords(L) ==
    [tab : Tabs, op : Nat, kind : {"get", "page", "ack", "edit"}, ledger : L,
     key : Edits, expected : Nat, fresh : BOOLEAN]

ServerInv ==
    /\ Chained(changes, head.seq, head.digest)
    /\ Replayable(changes, idem, head.seq)
    /\ Profiled(changes, profile)
    /\ head = [seq |-> head.seq, digest |-> head.digest, version |-> head.version]
    /\ head.seq <= MaxLog /\ \A e \in Entities : Len(profile[e]) <= MaxVersion
    /\ ack \in [Devices -> Nat] /\ \A d \in Devices : ack[d] <= head.seq

(* A device row is active in its first version only, and a membership has    *)
(* no more versions than there were troubles.                                *)
RowsInv ==
    /\ device \in [Devices -> [version : 1..2, active : BOOLEAN]]
    /\ \A d \in Devices : device[d].active => device[d].version = 1
    /\ troubles \in 0..MaxTroubles
    /\ membership \in [version : 1..(troubles + 1), role : Roles, active : BOOLEAN]

(* Every ledger a tab or a request holds is a first part of the log, and one *)
(* that is on display, or may be put there without another acknowledgement,  *)
(* has been acknowledged.                                                    *)
ClientInv ==
    /\ tab \in [Tabs -> TabRecords(LedgersOf(changes, head.seq))]
    /\ net \subseteq NetRecords(LedgersOf(changes, head.seq))
    /\ \A t \in Tabs : tab[t].ledger.cursor <= ack["web"]
    /\ \A r \in net : r.kind \in {"get", "page"} => r.ledger.cursor <= ack["web"]

SyncInv == ServerInv /\ RowsInv /\ ClientInv

-----------------------------------------------------------------------------
(* One mutation                                                              *)

Mutation(m) == m.entity \in Entities /\ m.key \in Edits /\ m.expected \in Nat
IsState(s) ==
    s = [ok |-> s.ok, profile |-> s.profile, changes |-> s.changes, idem |-> s.idem,
         seq |-> s.seq, digest |-> s.digest]

(* What a transaction adds to a log of n changes, at most k of them.         *)
Grown(s, u, k) ==
    /\ s.changes \subseteq u.changes
    /\ \A c \in u.changes \ s.changes : c.seq \in Nat /\ c.seq > s.seq
    /\ u.seq \in s.seq..(s.seq + k)
    /\ u.seq = s.seq => u.digest = s.digest

(* The next change follows the last one.                                     *)
LEMMA ChainGrows ==
    ASSUME NEW cs, NEW n, NEW digest, Chained(cs, n, digest),
           NEW c, c.seq = n + 1, c.prev = digest
    PROVE  Chained(cs \cup {c}, n + 1, c.digest)
<1>. DEFINE u == cs \cup {c}
<1>1. /\ n \in Nat /\ IsFiniteSet(cs) /\ Cardinality(cs) = n
      /\ \A x \in cs : x.seq \in 1..n
      /\ \A k \in 1..n : \E x \in cs : x.seq = k
      /\ \A x, y \in cs : x.seq = y.seq => x = y
      /\ \A x \in cs : x.seq = 1 => x.prev = <<>>
      /\ \A x, y \in cs : y.seq = x.seq + 1 => y.prev = x.digest
      /\ \A x \in cs : x.seq = n => x.digest = digest
      /\ n = 0 => digest = <<>>
  BY DEF Chained
<1>2. c \notin cs
  BY <1>1
<1>3. IsFiniteSet(u) /\ Cardinality(u) = n + 1
  BY <1>1, <1>2, FS_AddElement
<1>4. \A x \in u : x.seq \in 1..(n + 1)
  BY <1>1
<1>5. \A k \in 1..(n + 1) : \E x \in u : x.seq = k
  <2>1. ASSUME NEW k \in 1..(n + 1) PROVE k = n + 1 \/ k \in 1..n
    BY <1>1
  <2>. QED
    BY <1>1, <2>1
<1>6. \A x, y \in u : x.seq = y.seq => x = y
  BY <1>1
<1>7. \A x \in u : x.seq = 1 => x.prev = <<>>
  BY <1>1
<1>8. \A x, y \in u : y.seq = x.seq + 1 => y.prev = x.digest
  BY <1>1
<1>9. \A x \in u : x.seq = n + 1 => x.digest = c.digest
  BY <1>1
<1>10. n + 1 \in Nat /\ n + 1 # 0
  BY <1>1
<1>. QED
  BY <1>3, <1>4, <1>5, <1>6, <1>7, <1>8, <1>9, <1>10 DEF Chained

(* A row for a key that had none, written with the change it answers for.    *)
LEMMA RecordsGrow ==
    ASSUME NEW cs, NEW records, NEW n \in Nat, Replayable(cs, records, n),
           NEW c, c.seq = n + 1,
           NEW i, i.seq = n + 1, i.device = c.body.device, i.entity = c.body.entity,
           i.key = c.body.edit,
           ~\E j \in records : j.device = i.device /\ j.entity = i.entity /\ j.key = i.key
    PROVE  Replayable(cs \cup {c}, records \cup {i}, n + 1)
<1>1. /\ \A j \in records : j.seq \in 1..n
      /\ \A j, k \in records :
            j.device = k.device /\ j.entity = k.entity /\ j.key = k.key => j = k
      /\ \A x \in cs : \E j \in records :
            /\ j.seq = x.seq /\ j.device = x.body.device
            /\ j.entity = x.body.entity /\ j.key = x.body.edit
  BY DEF Replayable
<1>2. \A j \in records \cup {i} : j.seq \in 1..(n + 1)
  BY <1>1
<1>3. \A j, k \in records \cup {i} :
          j.device = k.device /\ j.entity = k.entity /\ j.key = k.key => j = k
  BY <1>1
<1>4. \A x \in cs \cup {c} : \E j \in records \cup {i} :
          /\ j.seq = x.seq /\ j.device = x.body.device
          /\ j.entity = x.body.entity /\ j.key = x.body.edit
  BY <1>1
<1>. QED
  BY <1>2, <1>3, <1>4 DEF Replayable

(* A profile with one more version keeps those that changes have made.       *)
LEMMA VersionAdded ==
    ASSUME NEW cs, NEW p, Profiled(cs, p), NEW e \in Entities, NEW k \in Edits,
           NEW q, q = [p EXCEPT ![e] = Append(@, k)]
    PROVE  /\ Profiled(cs, q)
           /\ Len(q[e]) = Len(p[e]) + 1 /\ q[e][Len(p[e]) + 1] = k
           /\ \A x \in Entities \ {e} : q[x] = p[x]
<1>1. /\ p \in [Entities -> Seq(Edits)]
      /\ \A x \in Entities : Len(p[x]) >= 1
      /\ \A c \in cs : /\ c.body.entity \in Entities
                       /\ c.body.version \in 1..Len(p[c.body.entity])
                       /\ p[c.body.entity][c.body.version] = c.body.edit
      /\ \A c, d \in cs : c.body.entity = d.body.entity /\ c.seq < d.seq
                              => c.body.version < d.body.version
  BY DEF Profiled
<1>2. p[e] \in Seq(Edits) /\ Len(p[e]) \in Nat
  BY <1>1
<1>3. /\ Append(p[e], k) \in Seq(Edits) /\ Len(Append(p[e], k)) = Len(p[e]) + 1
      /\ Append(p[e], k)[Len(p[e]) + 1] = k
      /\ \A v \in 1..Len(p[e]) : Append(p[e], k)[v] = p[e][v]
  BY <1>2
<1>4. /\ q \in [Entities -> Seq(Edits)] /\ q[e] = Append(p[e], k)
      /\ \A x \in Entities \ {e} : q[x] = p[x]
  BY <1>1, <1>3
<1>5. \A x \in Entities : Len(p[x]) \in Nat /\ Len(q[x]) \in Nat /\ Len(q[x]) >= Len(p[x])
  <2>1. ASSUME NEW x \in Entities
        PROVE  Len(p[x]) \in Nat /\ Len(q[x]) \in Nat /\ Len(q[x]) >= Len(p[x])
    <3>1. p[x] \in Seq(Edits)
      BY <1>1
    <3>2. Len(p[x]) \in Nat
      BY <3>1
    <3>3. CASE x = e
      BY <1>2, <1>3, <1>4, <3>3
    <3>4. CASE x # e
      BY <1>4, <3>2, <3>4
    <3>. QED
      BY <3>3, <3>4
  <2>. QED
    BY <2>1
<1>6. \A x \in Entities : \A v \in 1..Len(p[x]) : q[x][v] = p[x][v]
  BY <1>3, <1>4
<1>7. \A x \in Entities : Len(q[x]) >= 1
  BY <1>1, <1>5
<1>8. ASSUME NEW c \in cs
      PROVE  /\ c.body.version \in 1..Len(q[c.body.entity])
             /\ q[c.body.entity][c.body.version] = c.body.edit
  <2>1. c.body.entity \in Entities /\ c.body.version \in 1..Len(p[c.body.entity])
    BY <1>1
  <2>2. q[c.body.entity][c.body.version] = c.body.edit
    BY <1>1, <1>6, <2>1
  <2>. QED
    BY <1>5, <2>1, <2>2
<1>9. Profiled(cs, q)
  BY <1>1, <1>4, <1>7, <1>8 DEF Profiled
<1>. QED
  BY <1>3, <1>4, <1>9

(* The change behind a new version.                                          *)
LEMMA ProfileGrows ==
    ASSUME NEW cs, NEW p, Profiled(cs, p), NEW e \in Entities, NEW k \in Edits,
           NEW q, q = [p EXCEPT ![e] = Append(@, k)],
           NEW c, c.body.entity = e, c.body.version = Len(p[e]) + 1, c.body.edit = k,
           c.seq \in Nat, \A d \in cs : d.seq \in Nat /\ d.seq < c.seq
    PROVE  Profiled(cs \cup {c}, q)
<1>1. /\ Profiled(cs, q) /\ Len(q[e]) = Len(p[e]) + 1 /\ q[e][Len(p[e]) + 1] = k
      /\ p[e] \in Seq(Edits)
  BY VersionAdded DEF Profiled
<1>2. Len(p[e]) \in Nat
  BY <1>1
<1>3. /\ q \in [Entities -> Seq(Edits)]
      /\ \A x \in Entities : Len(q[x]) >= 1
      /\ \A d \in cs : /\ d.body.entity \in Entities
                       /\ d.body.version \in 1..Len(q[d.body.entity])
                       /\ q[d.body.entity][d.body.version] = d.body.edit
      /\ \A d, f \in cs : d.body.entity = f.body.entity /\ d.seq < f.seq
                              => d.body.version < f.body.version
  BY <1>1 DEF Profiled
<1>4. /\ c.body.version \in 1..Len(q[c.body.entity])
      /\ q[c.body.entity][c.body.version] = c.body.edit
  BY <1>1, <1>2
<1>5. \A d \in cs : d.body.entity = e => d.body.version \in 1..Len(p[e])
  BY DEF Profiled
<1>6. \A d, f \in cs \cup {c} : d.body.entity = f.body.entity /\ d.seq < f.seq
                                  => d.body.version < f.body.version
  <2>1. ASSUME NEW d \in cs, d.body.entity = e PROVE d.body.version < c.body.version
    BY <1>2, <1>5, <2>1
  <2>2. \A d \in cs : ~(c.seq < d.seq)
    OBVIOUS
  <2>3. ~(c.seq < c.seq)
    OBVIOUS
  <2>. QED
    BY <1>3, <2>1, <2>2, <2>3
<1>. QED
  BY <1>3, <1>4, <1>6 DEF Profiled

(* _apply_one: a repeat, a refusal or one more change, and the log stays     *)
(* sound.                                                                    *)
LEMMA ApplyOneSound ==
    ASSUME NEW s, IsState(s), LogSound(s), NEW m, Mutation(m), NEW d \in Devices,
           NEW u, u = ApplyOne(s, m, d)
    PROVE  /\ IsState(u) /\ LogSound(u) /\ Grown(s, u, 1)
           /\ \A e \in Entities : /\ Len(u.profile[e]) <= Len(s.profile[e]) + 1
                                  /\ e # m.entity => u.profile[e] = s.profile[e]
<1>. DEFINE c == NextChange(s, m, d)
            q == [s.profile EXCEPT ![m.entity] = Append(@, m.key)]
            i == [device |-> d, entity |-> m.entity, key |-> m.key,
                  print |-> Fingerprint(m, d), seq |-> s.seq + 1]
<1>1. /\ Chained(s.changes, s.seq, s.digest) /\ Replayable(s.changes, s.idem, s.seq)
      /\ Profiled(s.changes, s.profile)
  BY DEF LogSound
<1>2. /\ s.seq \in Nat /\ \A x \in s.changes : x.seq \in 1..s.seq
      /\ s.profile \in [Entities -> Seq(Edits)]
  BY <1>1 DEF Chained, Profiled
<1>3. \A e \in Entities : Len(s.profile[e]) \in Nat
  BY <1>2
<1>4. CASE \/ u = s
           \/ \E o \in BOOLEAN : u = [s EXCEPT !.ok = o]
  <2>1. PICK o : u = [ok |-> o, profile |-> s.profile, changes |-> s.changes, idem |-> s.idem,
                      seq |-> s.seq, digest |-> s.digest]
    BY <1>4 DEF IsState
  <2>2. /\ u.profile = s.profile /\ u.changes = s.changes /\ u.idem = s.idem
        /\ u.seq = s.seq /\ u.digest = s.digest /\ IsState(u)
    BY <2>1 DEF IsState
  <2>3. Grown(s, u, 1)
    BY <1>2, <2>2 DEF Grown
  <2>. QED
    BY <1>1, <1>3, <2>2, <2>3 DEF LogSound
<1>5. CASE /\ Repeats(s, m, d) = {} /\ EntityAccepts(s, m)
           /\ u = [s EXCEPT !.profile[m.entity] = Append(@, m.key),
                            !.changes = @ \cup {NextChange(s, m, d)},
                            !.idem = Recorded(s, m, d),
                            !.seq = @ + 1,
                            !.digest = NextChange(s, m, d).digest]
  <2>1. u = [ok |-> s.ok, profile |-> q, changes |-> s.changes \cup {c},
             idem |-> s.idem \cup {i}, seq |-> s.seq + 1, digest |-> c.digest]
    BY <1>5 DEF IsState, Recorded
  <2>2. /\ u.profile = q /\ u.changes = s.changes \cup {c} /\ u.idem = s.idem \cup {i}
        /\ u.seq = s.seq + 1 /\ u.digest = c.digest /\ IsState(u)
    <3>. HIDE DEF c, q, i
    <3>. QED
      BY <2>1 DEF IsState
  <2>3. /\ c.seq = s.seq + 1 /\ c.prev = s.digest
        /\ c.body.entity = m.entity /\ c.body.version = m.expected + 1
        /\ c.body.edit = m.key /\ c.body.device = d
    BY DEF NextChange
  <2>4. i.seq = s.seq + 1 /\ i.device = d /\ i.entity = m.entity /\ i.key = m.key
    OBVIOUS
  <2>5. m.expected = Len(s.profile[m.entity]) /\ m.entity \in Entities /\ m.key \in Edits
    BY <1>5 DEF EntityAccepts, Version, Mutation
  <2>6. ~\E j \in s.idem : j.device = i.device /\ j.entity = i.entity /\ j.key = i.key
    BY <1>5, <2>4 DEF Repeats
  <2>. HIDE DEF c, i
  <2>7. Chained(s.changes \cup {c}, s.seq + 1, c.digest)
    BY <1>1, <2>3, ChainGrows
  <2>8. Replayable(s.changes \cup {c}, s.idem \cup {i}, s.seq + 1)
    <3>1. i.device = c.body.device /\ i.entity = c.body.entity /\ i.key = c.body.edit
      BY <2>3, <2>4
    <3>. QED
      BY <1>1, <1>2, <2>3, <2>4, <2>6, <3>1, RecordsGrow
  <2>9. \A x \in s.changes : x.seq \in Nat /\ x.seq < c.seq
    BY <1>2, <2>3
  <2>10. c.seq \in Nat
    BY <1>2, <2>3
  <2>15. q = [s.profile EXCEPT ![m.entity] = Append(@, m.key)]
    OBVIOUS
  <2>16. c.body.version = Len(s.profile[m.entity]) + 1
    BY <2>3, <2>5
  <2>. HIDE DEF q
  <2>11. Profiled(s.changes \cup {c}, q)
    BY <1>1, <2>3, <2>5, <2>9, <2>10, <2>15, <2>16, ProfileGrows
  <2>12. /\ Len(q[m.entity]) = Len(s.profile[m.entity]) + 1
         /\ \A e \in Entities \ {m.entity} : q[e] = s.profile[e]
    BY <1>1, <2>5, <2>15, VersionAdded
  <2>13. \A e \in Entities : /\ Len(u.profile[e]) <= Len(s.profile[e]) + 1
                             /\ e # m.entity => u.profile[e] = s.profile[e]
    BY <1>3, <2>2, <2>5, <2>12
  <2>14. Grown(s, u, 1)
    BY <1>2, <2>2, <2>3 DEF Grown
  <2>. QED
    BY <2>2, <2>7, <2>8, <2>11, <2>13, <2>14 DEF LogSound
<1>. QED
  BY <1>4, <1>5 DEF ApplyOne

(* The transaction before its first mutation.                                *)
LEMMA TransactionSound ==
    ASSUME ServerInv
    PROVE  /\ IsState(Transaction) /\ LogSound(Transaction)
           /\ Transaction.seq = head.seq /\ Transaction.digest = head.digest
           /\ Transaction.changes = changes /\ Transaction.profile = profile
           /\ head.seq \in Nat
<1>1. /\ IsState(Transaction)
      /\ Transaction.seq = head.seq /\ Transaction.digest = head.digest
      /\ Transaction.changes = changes /\ Transaction.profile = profile
      /\ Transaction.idem = idem
  BY DEF Transaction, IsState
<1>2. /\ Chained(changes, head.seq, head.digest)
      /\ Replayable(changes, idem, head.seq) /\ Profiled(changes, profile)
  BY DEF ServerInv
<1>3. LogSound(Transaction)
  BY <1>1, <1>2 DEF LogSound
<1>4. head.seq \in Nat
  BY <1>2 DEF Chained
<1>. QED
  BY <1>1, <1>3, <1>4

(* A request without mutations leaves the log as it is.                      *)
LEMMA EmptyBatch ==
    ASSUME NEW d PROVE AfterBatch(<<>>, d) = Transaction
BY DEF AfterBatch

(* The edit of a tab adds one version to one profile.                        *)
LEMMA SingleBatch ==
    ASSUME ServerInv, NEW m, Mutation(m), NEW d \in Devices,
           NEW s, s = Transaction, NEW u, u = AfterBatch(<<m>>, d)
    PROVE  /\ IsState(u) /\ LogSound(u) /\ Grown(s, u, 1)
           /\ \A e \in Entities : /\ Len(u.profile[e]) <= Len(profile[e]) + 1
                                  /\ e # m.entity => u.profile[e] = profile[e]
<1>1. IsState(s) /\ LogSound(s) /\ s.profile = profile
  BY TransactionSound
<1>2. <<m>> # <<>> /\ Len(<<m>>) = 1 /\ <<m>>[1] = m
  OBVIOUS
<1>3. AfterBatch(<<m>>, d) = ApplyOne(s, m, d)
  BY <1>2 DEF AfterBatch
<1>4. u = ApplyOne(s, m, d)
  BY <1>3
<1>6. IsState(u) /\ LogSound(u) /\ Grown(s, u, 1)
  BY <1>1, <1>4, ApplyOneSound
<1>5. /\ \A e \in Entities : /\ Len(u.profile[e]) <= Len(s.profile[e]) + 1
                             /\ e # m.entity => u.profile[e] = s.profile[e]
  BY <1>1, <1>4, ApplyOneSound
<1>. QED
  BY <1>1, <1>5, <1>6

(* What two mutations add.                                                   *)
LEMMA GrownTwice ==
    ASSUME NEW s, NEW u, NEW v, s.seq \in Nat, Grown(s, u, 1), Grown(u, v, 1)
    PROVE  Grown(s, v, 2)
<1>1. /\ s.changes \subseteq u.changes /\ u.seq \in s.seq..(s.seq + 1)
      /\ \A c \in u.changes \ s.changes : c.seq \in Nat /\ c.seq > s.seq
      /\ u.seq = s.seq => u.digest = s.digest
      /\ u.changes \subseteq v.changes /\ v.seq \in u.seq..(u.seq + 1)
      /\ \A c \in v.changes \ u.changes : c.seq \in Nat /\ c.seq > u.seq
      /\ v.seq = u.seq => v.digest = u.digest
  BY DEF Grown
<1>2. \A c \in v.changes \ s.changes : c.seq \in Nat /\ c.seq > s.seq
  BY <1>1
<1>3. v.seq \in s.seq..(s.seq + 2) /\ (v.seq = s.seq => v.digest = s.digest)
  BY <1>1
<1>. QED
  BY <1>1, <1>2, <1>3 DEF Grown

(* A batch of at most two mutations of the API device.                       *)
LEMMA BatchSound ==
    ASSUME ServerInv, NEW ms \in Batches, \A m \in Mutations : Mutation(m),
           NEW d \in Devices, NEW s, s = Transaction, NEW u, u = AfterBatch(ms, d)
    PROVE  IsState(u) /\ LogSound(u) /\ Grown(s, u, 2)
<1>1. IsState(s) /\ LogSound(s) /\ s.seq \in Nat
  BY TransactionSound
<1>2. CASE ms = <<>>
  <2>1. u = s
    BY <1>2, EmptyBatch
  <2>2. Grown(s, s, 2)
    BY <1>1 DEF Grown
  <2>. QED
    BY <1>1, <2>1, <2>2
<1>3. ASSUME NEW m \in Mutations, ms = <<m>>
      PROVE  IsState(u) /\ LogSound(u) /\ Grown(s, u, 2)
  <2>1. u = AfterBatch(<<m>>, d) /\ Mutation(m)
    BY <1>3
  <2>2. IsState(u) /\ LogSound(u) /\ Grown(s, u, 1)
    BY <2>1, SingleBatch
  <2>3. Grown(s, u, 2)
    BY <1>1, <2>2 DEF Grown
  <2>. QED
    BY <2>2, <2>3
<1>4. ASSUME NEW m \in Mutations, NEW n \in Mutations, ms = <<m, n>>
      PROVE  IsState(u) /\ LogSound(u) /\ Grown(s, u, 2)
  <2>. DEFINE v == ApplyOne(s, m, d)
  <2>1. ms # <<>> /\ Len(ms) = 2 /\ ms[1] = m /\ ms[2] = n /\ Mutation(m) /\ Mutation(n)
    BY <1>4
  <2>2. u = IF ~v.ok THEN v ELSE ApplyOne(v, n, d)
    BY <2>1 DEF AfterBatch
  <2>3. IsState(v) /\ LogSound(v) /\ Grown(s, v, 1)
    BY <1>1, <2>1, ApplyOneSound
  <2>. HIDE DEF v
  <2>4. CASE u = v
    <3>1. Grown(s, u, 2)
      BY <1>1, <2>3, <2>4 DEF Grown
    <3>. QED
      BY <2>3, <2>4, <3>1
  <2>5. CASE u = ApplyOne(v, n, d)
    <3>1. IsState(u) /\ LogSound(u) /\ Grown(v, u, 1)
      BY <2>1, <2>3, <2>5, ApplyOneSound
    <3>2. Grown(s, u, 2)
      BY <1>1, <2>3, <3>1, GrownTwice
    <3>. QED
      BY <3>1, <3>2
  <2>. QED
    BY <2>2, <2>4, <2>5
<1>5. \/ ms = <<>> \/ \E m \in Mutations : ms = <<m>>
      \/ \E m \in Mutations, n \in Mutations : ms = <<m, n>>
  <2>1. \A p \in Mutations \X Mutations : \E m \in Mutations, n \in Mutations : p = <<m, n>>
    OBVIOUS
  <2>. QED
    BY <2>1 DEF Batches
<1>. QED
  BY <1>2, <1>3, <1>4, <1>5

(* The log only grows at its end.                                            *)
LogGrows ==
    /\ changes \subseteq changes' /\ head.seq <= head'.seq
    /\ \A c \in changes' \ changes : c.seq \in Nat /\ c.seq > head.seq

(* apply commits what the batch left: the head is the end of the chain, the  *)
(* acknowledgement is the one that was checked.                              *)
LEMMA CommitSound ==
    ASSUME ServerInv, NEW d \in Devices, NEW a \in Nat, AckOK(d, a),
           NEW ms, Commit(d, a, ms), NEW s, s = Transaction,
           NEW u, u = AfterBatch(ms, d), LogSound(u), Grown(s, u, 2),
           u.seq <= MaxLog, \A e \in Entities : Len(u.profile[e]) <= MaxVersion
    PROVE  /\ ServerInv' /\ LogGrows
           /\ ack' = [ack EXCEPT ![d] = a] /\ \A x \in Devices : ack'[x] >= ack[x]
           /\ UNCHANGED <<device, membership>>
<1>1. /\ s.seq = head.seq /\ s.digest = head.digest /\ s.changes = changes
      /\ head.seq \in Nat
  BY TransactionSound
<1>2. /\ profile' = u.profile /\ changes' = u.changes /\ idem' = u.idem
      /\ head' = IF u.seq = head.seq THEN head
                 ELSE [seq |-> u.seq, digest |-> u.digest,
                       version |-> IF head.version = 0 THEN 2 ELSE head.version + 1]
      /\ ack' = [ack EXCEPT ![d] = a] /\ UNCHANGED <<device, membership>>
  BY DEF Commit
<1>3. /\ changes \subseteq u.changes /\ u.seq \in head.seq..(head.seq + 2)
      /\ \A c \in u.changes \ changes : c.seq \in Nat /\ c.seq > head.seq
      /\ u.seq = head.seq => u.digest = head.digest
  BY <1>1 DEF Grown
<1>4. /\ head = [seq |-> head.seq, digest |-> head.digest, version |-> head.version]
      /\ ack \in [Devices -> Nat] /\ \A x \in Devices : ack[x] <= head.seq
  BY DEF ServerInv
<1>5. /\ head'.seq = u.seq /\ head'.digest = u.digest
      /\ head' = [seq |-> head'.seq, digest |-> head'.digest, version |-> head'.version]
  <2>1. CASE u.seq = head.seq
    BY <1>2, <1>3, <1>4, <2>1
  <2>2. CASE u.seq # head.seq
    BY <1>2, <2>2
  <2>. QED
    BY <2>1, <2>2
<1>6. LogGrows
  BY <1>1, <1>2, <1>3, <1>5 DEF LogGrows
<1>7. a <= head.seq /\ a >= ack[d]
  BY DEF AckOK
<1>8. ack' \in [Devices -> Nat] /\ \A x \in Devices : ack'[x] <= head'.seq /\ ack'[x] >= ack[x]
  <2>1. head'.seq \in Nat /\ head.seq <= head'.seq
    BY <1>1, <1>3, <1>5
  <2>2. ASSUME NEW x \in Devices PROVE ack'[x] <= head'.seq /\ ack'[x] >= ack[x]
    <3>1. ack[x] \in Nat /\ ack[x] <= head.seq /\ ack'[x] = IF x = d THEN a ELSE ack[x]
      BY <1>2, <1>4
    <3>. QED
      BY <1>1, <1>7, <2>1, <3>1
  <2>3. ack' \in [Devices -> Nat]
    BY <1>2, <1>4
  <2>. QED
    BY <2>2, <2>3
<1>9. /\ Chained(changes', head'.seq, head'.digest)
      /\ Replayable(changes', idem', head'.seq) /\ Profiled(changes', profile')
  <2>1. Chained(u.changes, u.seq, u.digest) /\ Replayable(u.changes, u.idem, u.seq)
        /\ Profiled(u.changes, u.profile)
    BY DEF LogSound
  <2>. QED
    BY <1>2, <1>5, <2>1
<1>10. head'.seq <= MaxLog /\ \A e \in Entities : Len(profile'[e]) <= MaxVersion
  BY <1>2, <1>5
<1>11. ServerInv'
  BY <1>5, <1>8, <1>9, <1>10 DEF ServerInv
<1>. QED
  BY <1>2, <1>6, <1>8, <1>11

(* Ledgers stay replays of a first part of a log that grows at its end.      *)
LEMMA LedgersStay ==
    ASSUME ServerInv, LogGrows, head'.seq \in Nat
    PROVE  LedgersOf(changes, head.seq) \subseteq LedgersOf(changes', head'.seq)
<1>. DEFINE cs == changes
            n == head.seq
            k == head'.seq
<1>1. n \in Nat /\ \A c \in cs : c.seq \in 1..n
  BY DEF ServerInv, Chained
<1>2. k \in Nat /\ n <= k /\ cs \subseteq changes'
      /\ \A c \in changes' \ cs : c.seq \in Nat /\ c.seq > n
  BY DEF LogGrows
<1>. SUFFICES ASSUME NEW led \in LedgersOf(cs, n)
              PROVE  led \in LedgersOf(changes', k)
  OBVIOUS
<1>. HIDE DEF cs, n, k
<1>3. /\ led \in [cursor : 0..n, version : 0..MaxVersion, high : 0..n,
                  digest : {<<>>} \cup {c.digest : c \in cs}]
      /\ led.cursor = 0 => led.digest = <<>>
      /\ \A c \in cs : c.seq = led.cursor => led.digest = c.digest
      /\ \A c \in WorkspaceEdits(cs, led.cursor) : c.body.version <= led.version
      /\ WorkspaceEdits(cs, led.cursor) # {} =>
            \E c \in WorkspaceEdits(cs, led.cursor) : c.body.version = led.version
  BY DEF LedgersOf
<1>4. led.cursor \in 0..n /\ led.cursor <= n
  BY <1>3
<1>5. WorkspaceEdits(changes', led.cursor) = WorkspaceEdits(cs, led.cursor)
  <2>1. \A c \in changes' \ cs : ~(c.seq <= led.cursor)
    BY <1>1, <1>2, <1>4
  <2>. QED
    BY <1>2, <2>1 DEF WorkspaceEdits
<1>6. \A c \in changes' : c.seq = led.cursor => led.digest = c.digest
  <2>1. \A c \in changes' \ cs : c.seq # led.cursor
    BY <1>1, <1>2, <1>4
  <2>. QED
    BY <1>3, <2>1
<1>7. led \in [cursor : 0..k, version : 0..MaxVersion, high : 0..k,
               digest : {<<>>} \cup {c.digest : c \in changes'}]
  BY <1>1, <1>2, <1>3
<1>. QED
  BY <1>3, <1>5, <1>6, <1>7 DEF LedgersOf

-----------------------------------------------------------------------------
(* What a page brings                                                        *)

(* A nonempty set of positions has a last one: what LastOf chooses.          *)
LEMMA LastPosition ==
    ASSUME NEW n \in Nat, NEW S \in SUBSET (1..n), S # {}
    PROVE  \E i \in S : \A j \in S : j <= i
<1>. DEFINE R == {ss \in Nat \X Nat : ss[1] < ss[2]}
            T == {n - i : i \in S}
<1>1. IsWellFoundedOn(R, Nat)
  BY NatLessThanWellFounded DEF OpToRel
<1>2. T \subseteq Nat /\ T # {}
  <2>1. \A i \in S : i \in 1..n
    OBVIOUS
  <2>2. \A i \in S : n - i \in Nat
    BY <2>1
  <2>3. PICK i \in S : TRUE
    OBVIOUS
  <2>4. n - i \in T
    BY <2>3
  <2>. QED
    BY <2>2, <2>4
<1>3. \A x, y \in Nat : x < y => <<x, y>> \in R
  OBVIOUS
<1>. HIDE DEF R
<1>4. PICK x \in T : \A y \in T : <<y, x>> \notin R
  BY <1>1, <1>2, WFMin
<1>5. PICK i \in S : x = n - i
  BY <1>4
<1>6. ASSUME NEW j \in S PROVE j <= i
  <2>1. n - j \in T /\ n - j \in Nat /\ x \in Nat /\ i \in 1..n /\ j \in 1..n
    BY <1>2, <1>4
  <2>2. ~(n - j < x)
    BY <1>3, <1>4, <2>1
  <2>. QED
    BY <1>5, <2>1, <2>2
<1>. QED
  BY <1>6

(* Every number up to the head is that of one change.                        *)
LEMMA ChangeAt ==
    ASSUME ServerInv, NEW k \in 1..head.seq
    PROVE  /\ Change(k) \in changes /\ Change(k).seq = k
           /\ \A c \in changes : c.seq = k => c = Change(k)
<1>1. /\ \A i \in 1..head.seq : \E c \in changes : c.seq = i
      /\ \A c, d \in changes : c.seq = d.seq => c = d
  BY DEF ServerInv, Chained
<1>2. PICK c \in changes : c.seq = k
  BY <1>1
<1>3. Change(k) \in changes /\ Change(k).seq = k
  BY <1>2 DEF Change
<1>. QED
  BY <1>1, <1>3

(* A ledger that holds no change.                                            *)
LEMMA EmptyLedgerOf ==
    ASSUME ServerInv PROVE EmptyLedger \in LedgersOf(changes, head.seq)
<1>1. head.seq \in Nat /\ \A c \in changes : c.seq \in 1..head.seq
  BY DEF ServerInv, Chained
<1>2. WorkspaceEdits(changes, 0) = {} /\ \A c \in changes : c.seq # 0
  BY <1>1 DEF WorkspaceEdits
<1>3. EmptyLedger \in [cursor : 0..head.seq, version : 0..MaxVersion, high : 0..head.seq,
                       digest : {<<>>} \cup {c.digest : c \in changes}]
  BY <1>1, SyncBounds DEF EmptyLedger
<1>. QED
  BY <1>2, <1>3 DEF LedgersOf, EmptyLedger

(* The numbers of a ledger.                                                  *)
LEMMA LedgerType ==
    ASSUME ServerInv, NEW led \in LedgersOf(changes, head.seq)
    PROVE  /\ led.cursor \in 0..head.seq /\ led.cursor \in Nat /\ led.cursor <= head.seq
           /\ led.version \in 0..MaxVersion /\ led.version \in Nat
           /\ head.seq \in Nat
<1>1. head.seq \in Nat
  BY DEF ServerInv, Chained
<1>2. led \in [cursor : 0..head.seq, version : 0..MaxVersion, high : 0..head.seq,
               digest : {<<>>} \cup {c.digest : c \in changes}]
  BY DEF LedgersOf
<1>3. led.cursor \in 0..head.seq /\ led.version \in 0..MaxVersion
  BY <1>2
<1>. QED
  BY <1>1, <1>3, SyncBounds

(* p has the m changes after the cursor.                                     *)
Follows(p, cursor, m) ==
    /\ p.next = cursor + m /\ p.next \in 0..head.seq /\ p.high = head.seq
    /\ p.items \in Seq(changes) /\ Len(p.items) = m /\ DOMAIN p.items = 1..m
    /\ \A i \in 1..m : cursor + i \in 1..head.seq /\ p.items[i] = Change(cursor + i)

(* What follows a cursor, up to the page limit.                              *)
LEMMA PageType ==
    ASSUME ServerInv, NEW cursor \in 0..head.seq, NEW p, p = Page(cursor)
    PROVE  \E m \in Nat : Follows(p, cursor, m)
<1>. DEFINE last == IF head.seq - cursor > SyncPageLimit THEN cursor + SyncPageLimit
                    ELSE head.seq
            m == last - cursor
            items == [i \in 1..m |-> Change(cursor + i)]
<1>1. head.seq \in Nat /\ SyncPageLimit \in Nat
  BY SyncBounds DEF ServerInv, Chained
<1>2. m \in Nat /\ last = cursor + m /\ last \in 0..head.seq
  BY <1>1
<1>3. p.next = last /\ p.high = head.seq /\ p.items = items
  BY DEF Page
<1>. HIDE DEF m, last
<1>4. \A i \in 1..m : cursor + i \in 1..head.seq
  BY <1>1, <1>2
<1>5. \A i \in 1..m : Change(cursor + i) \in changes
  BY <1>4, ChangeAt
<1>6. DOMAIN items = 1..m /\ \A i \in 1..m : items[i] = Change(cursor + i)
  OBVIOUS
<1>7. items \in [1..m -> changes]
  BY <1>5
<1>. HIDE DEF items
<1>8. items \in Seq(changes)
  BY <1>2, <1>7, SeqDef
<1>9. Len(items) = m
  BY <1>2, <1>6, <1>8, LenProperties
<1>. QED
  BY <1>2, <1>3, <1>4, <1>6, <1>8, <1>9 DEF Follows

(* reduceSyncPage: a replay of a first part of the log, followed by a page   *)
(* of it, is a replay of a longer first part.                                *)
LEMMA ReducedIsLedger ==
    ASSUME ServerInv, NEW led \in LedgersOf(changes, head.seq),
           NEW p, p = Page(led.cursor), NEW new, new = Reduced(led, p)
    PROVE  new \in LedgersOf(changes, head.seq) /\ new.cursor >= led.cursor
<1>. DEFINE n == head.seq
            pos == {i \in DOMAIN p.items : p.items[i].body.entity = "workspace"}
<1>1. /\ led.cursor \in 0..n /\ led.cursor \in Nat
      /\ led.version \in 0..MaxVersion /\ n \in Nat
  BY LedgerType
<1>2. /\ led \in [cursor : 0..n, version : 0..MaxVersion, high : 0..n,
                  digest : {<<>>} \cup {c.digest : c \in changes}]
      /\ led.cursor = 0 => led.digest = <<>>
      /\ \A c \in changes : c.seq = led.cursor => led.digest = c.digest
      /\ \A c \in WorkspaceEdits(changes, led.cursor) : c.body.version <= led.version
      /\ WorkspaceEdits(changes, led.cursor) # {} =>
            \E c \in WorkspaceEdits(changes, led.cursor) : c.body.version = led.version
  BY DEF LedgersOf
<1>18. PICK m \in Nat : Follows(p, led.cursor, m)
  BY <1>1, PageType
<1>3. /\ p.next = led.cursor + m /\ p.next \in 0..n /\ p.high = n
      /\ p.items \in Seq(changes) /\ Len(p.items) = m /\ DOMAIN p.items = 1..m
      /\ \A i \in 1..m : /\ led.cursor + i \in 1..n
                         /\ p.items[i] = Change(led.cursor + i)
  BY <1>18 DEF Follows
<1>4. \A i \in 1..m : /\ p.items[i] \in changes /\ p.items[i].seq = led.cursor + i
                      /\ \A c \in changes : c.seq = led.cursor + i => c = p.items[i]
  BY <1>3, ChangeAt
<1>5. /\ \A c \in changes : c.seq \in 1..n /\ c.seq \in Nat
      /\ \A c \in changes : c.body.entity \in Entities /\ c.body.version \in 1..MaxVersion
      /\ \A c, d \in changes : c.body.entity = d.body.entity /\ c.seq < d.seq
                                 => c.body.version < d.body.version
  <2>1. \A c \in changes : c.seq \in 1..n /\ c.seq \in Nat
    BY <1>1 DEF ServerInv, Chained
  <2>2. /\ profile \in [Entities -> Seq(Edits)]
        /\ \A e \in Entities : Len(profile[e]) <= MaxVersion
        /\ \A c \in changes : /\ c.body.entity \in Entities
                              /\ c.body.version \in 1..Len(profile[c.body.entity])
        /\ \A c, d \in changes : c.body.entity = d.body.entity /\ c.seq < d.seq
                                   => c.body.version < d.body.version
    BY DEF ServerInv, Profiled
  <2>3. \A e \in Entities : Len(profile[e]) \in Nat
    BY <2>2
  <2>4. \A c \in changes : c.body.version \in 1..MaxVersion
    BY <2>2, <2>3, SyncBounds
  <2>. QED
    BY <2>1, <2>2, <2>4
<1>6. /\ new = [cursor |-> p.next, high |-> p.high,
                digest |-> IF p.items = <<>> THEN led.digest ELSE p.items[m].digest,
                version |-> LastOf("workspace", p.items, led.version)]
  BY <1>3 DEF Reduced
<1>7. /\ new.cursor = led.cursor + m /\ new.high = n /\ new.cursor \in 0..n
      /\ m = 0 => new.digest = led.digest
      /\ m # 0 => new.digest = p.items[m].digest
      /\ new.version = LastOf("workspace", p.items, led.version)
  <2>1. p.items = <<>> <=> m = 0
    BY <1>3, EmptySeq
  <2>. QED
    BY <1>3, <1>6, <2>1
<1>. HIDE DEF n
<1>8. m # 0 => m \in 1..m /\ p.items[m] \in changes /\ p.items[m].seq = led.cursor + m
  BY <1>4
<1>9. new.digest \in {<<>>} \cup {c.digest : c \in changes}
  BY <1>2, <1>7, <1>8
<1>10. new.cursor = 0 => new.digest = <<>>
  BY <1>1, <1>2, <1>7
<1>11. \A c \in changes : c.seq = new.cursor => new.digest = c.digest
  BY <1>1, <1>2, <1>4, <1>7, <1>8
<1>12. \A c \in WorkspaceEdits(changes, new.cursor) :
          \/ c \in WorkspaceEdits(changes, led.cursor)
          \/ \E i \in pos : c = p.items[i]
  <2>1. ASSUME NEW c \in changes, c.seq <= new.cursor, c.body.entity = "workspace",
               ~(c.seq <= led.cursor)
        PROVE  \E i \in pos : c = p.items[i]
    <3>1. c.seq - led.cursor \in 1..m /\ c.seq = led.cursor + (c.seq - led.cursor)
      BY <1>1, <1>5, <1>7, <2>1
    <3>2. c = p.items[c.seq - led.cursor]
      BY <1>4, <2>1, <3>1
    <3>. QED
      BY <1>3, <2>1, <3>1, <3>2
  <2>. QED
    BY <2>1 DEF WorkspaceEdits
<1>13. \A c \in WorkspaceEdits(changes, led.cursor) : c \in WorkspaceEdits(changes, new.cursor)
  <2>1. \A c \in changes : c.seq <= led.cursor => c.seq <= new.cursor
    BY <1>1, <1>5, <1>7
  <2>. QED
    BY <2>1 DEF WorkspaceEdits
<1>14. \A i \in pos : i \in 1..m /\ p.items[i] \in WorkspaceEdits(changes, new.cursor)
  BY <1>1, <1>3, <1>4, <1>7 DEF WorkspaceEdits
<1>15. /\ new.version \in 0..MaxVersion
       /\ \A c \in WorkspaceEdits(changes, new.cursor) : c.body.version <= new.version
       /\ WorkspaceEdits(changes, new.cursor) # {} =>
             \E c \in WorkspaceEdits(changes, new.cursor) : c.body.version = new.version
  <2>1. CASE pos = {}
    <3>1. new.version = led.version
      BY <1>7, <2>1 DEF LastOf
    <3>2. WorkspaceEdits(changes, new.cursor) = WorkspaceEdits(changes, led.cursor)
      BY <1>12, <1>13, <2>1
    <3>. QED
      BY <1>1, <1>2, <3>1, <3>2
  <2>2. CASE pos # {}
    <3>. DEFINE j == CHOOSE i \in pos : \A k \in pos : k <= i
    <3>1. new.version = p.items[j].body.version
      BY <1>7, <2>2 DEF LastOf
    <3>2. j \in pos /\ \A k \in pos : k <= j
      <4>1. pos \in SUBSET (1..m)
        BY <1>14
      <4>. HIDE DEF pos
      <4>2. \E i \in pos : \A k \in pos : k <= i
        BY <1>3, <2>2, <4>1, LastPosition
      <4>. QED
        BY <4>2
    <3>. HIDE DEF j
    <3>3. j \in 1..m /\ p.items[j] \in WorkspaceEdits(changes, new.cursor)
      BY <1>14, <3>2
    <3>4. p.items[j] \in changes /\ p.items[j].seq = led.cursor + j
          /\ p.items[j].body.entity = "workspace"
      BY <1>4, <3>2, <3>3
    <3>5. p.items[j].body.version \in 1..MaxVersion
      BY <1>5, <3>4
    <3>6. ASSUME NEW c \in WorkspaceEdits(changes, new.cursor)
          PROVE  c.body.version <= p.items[j].body.version
      <4>1. c \in changes /\ c.body.entity = "workspace" /\ c.seq \in Nat
            /\ c.body.version \in 1..MaxVersion
        BY <1>5 DEF WorkspaceEdits
      <4>2. c.seq < p.items[j].seq \/ c = p.items[j]
        <5>1. CASE c \in WorkspaceEdits(changes, led.cursor)
          <6>1. c.seq <= led.cursor
            BY <5>1 DEF WorkspaceEdits
          <6>. QED
            BY <1>1, <3>3, <3>4, <4>1, <6>1
        <5>2. CASE \E i \in pos : c = p.items[i]
          <6>1. PICK i \in pos : c = p.items[i]
            BY <5>2
          <6>2. i \in 1..m /\ i <= j /\ c.seq = led.cursor + i
            BY <1>4, <1>14, <3>2, <6>1
          <6>3. i = j \/ i < j
            BY <3>3, <6>2
          <6>. QED
            BY <1>1, <3>3, <3>4, <6>1, <6>2, <6>3
        <5>. QED
          BY <1>12, <5>1, <5>2
      <4>3. c.seq < p.items[j].seq => c.body.version < p.items[j].body.version
        BY <1>5, <3>4, <4>1
      <4>. QED
        BY <3>5, <4>1, <4>2, <4>3, SyncBounds
    <3>. QED
      BY <3>1, <3>3, <3>5, <3>6, SyncBounds
  <2>. QED
    BY <2>1, <2>2
<1>16. new \in [cursor : 0..n, version : 0..MaxVersion, high : 0..n,
                digest : {<<>>} \cup {c.digest : c \in changes}]
  <2>1. n \in 0..n
    BY <1>1
  <2>. QED
    BY <1>6, <1>7, <1>9, <1>15, <2>1
<1>17. new.cursor >= led.cursor
  BY <1>1, <1>3, <1>7
<1>. QED
  BY <1>10, <1>11, <1>15, <1>16, <1>17 DEF LedgersOf, n

-----------------------------------------------------------------------------
(* What a step does to the clients                                           *)

(* Records over more ledgers.                                                *)
LEMMA RecordsWiden ==
    ASSUME NEW K, NEW L, K \subseteq L
    PROVE  TabRecords(K) \subseteq TabRecords(L) /\ NetRecords(K) \subseteq NetRecords(L)
BY DEF TabRecords, NetRecords

(* An answer changes the tab it is for and sends on what follows from it; L  *)
(* are the ledgers of the log after the step, b is the acknowledgement.      *)
LEMMA ClientKeeps ==
    ASSUME ClientInv, ack["web"] \in Nat,
           NEW L, L = LedgersOf(changes', head'.seq), LedgersOf(changes, head.seq) \subseteq L,
           \A led \in L : led.cursor \in Nat,
           NEW b \in Nat, b = ack'["web"], ack["web"] <= b,
           NEW t \in Tabs, NEW w \in TabRecords(L), w.ledger.cursor <= b,
           tab' = tab \/ tab' = [tab EXCEPT ![t] = w],
           NEW more \in SUBSET NetRecords(L), net' \subseteq net \cup more,
           \A r \in more : r.kind \in {"get", "page"} => r.ledger.cursor <= b
    PROVE  ClientInv'
<1>1. /\ tab \in [Tabs -> TabRecords(L)] /\ net \subseteq NetRecords(L)
      /\ \A x \in Tabs : tab[x].ledger.cursor <= ack["web"]
      /\ \A r \in net : r.kind \in {"get", "page"} => r.ledger.cursor <= ack["web"]
  BY RecordsWiden DEF ClientInv
<1>2. \A x \in TabRecords(L) : x.ledger \in L
  BY DEF TabRecords
<1>3. \A x \in NetRecords(L) : x.ledger \in L
  BY DEF NetRecords
<1>4. \A led \in L : led.cursor <= ack["web"] => led.cursor <= b
  OBVIOUS
<1>5. tab' \in [Tabs -> TabRecords(L)]
  BY <1>1
<1>6. \A x \in Tabs : tab'[x].ledger.cursor <= b
  <2>1. ASSUME NEW x \in Tabs PROVE tab'[x].ledger.cursor <= b
    <3>1. tab'[x] = tab[x] \/ tab'[x] = w
      BY <1>1
    <3>2. tab[x].ledger \in L /\ tab[x].ledger.cursor <= ack["web"]
      BY <1>1, <1>2
    <3>. QED
      BY <1>4, <3>1, <3>2
  <2>. QED
    BY <2>1
<1>7. net' \subseteq NetRecords(L)
  BY <1>1
<1>8. \A r \in net' : r.kind \in {"get", "page"} => r.ledger.cursor <= b
  BY <1>1, <1>3, <1>4
<1>. QED
  BY <1>5, <1>6, <1>7, <1>8 DEF ClientInv

(* A step that adds to no log and moves no acknowledgement.                  *)
LEMMA ServerStays ==
    ASSUME ServerInv, RowsInv, UNCHANGED <<serverVars, troubles>>
    PROVE  ServerInv' /\ RowsInv'
<1>1. /\ changes' = changes /\ head' = head /\ profile' = profile /\ idem' = idem
      /\ ack' = ack /\ device' = device /\ membership' = membership /\ troubles' = troubles
  BY DEF serverVars
<1>2. ServerInv'
  BY <1>1 DEF ServerInv
<1>3. RowsInv'
  BY <1>1 DEF RowsInv
<1>. QED
  BY <1>2, <1>3

(* An answer without a change of the server.                                 *)
LEMMA AnswerKeeps ==
    ASSUME SyncInv, UNCHANGED <<serverVars, troubles>>,
           NEW r \in net, NEW L, L = LedgersOf(changes, head.seq),
           NEW w \in TabRecords(L), w.ledger.cursor <= ack["web"],
           NEW more \in SUBSET NetRecords(L), Answer(r, w, more),
           \A q \in more : q.kind \in {"get", "page"} => q.ledger.cursor <= ack["web"]
    PROVE  SyncInv'
<1>1. ServerInv /\ RowsInv /\ ClientInv
  BY DEF SyncInv
<1>2. ServerInv' /\ RowsInv'
  BY <1>1, ServerStays
<1>3. changes' = changes /\ head' = head /\ ack' = ack
  BY DEF serverVars
<1>4. L = LedgersOf(changes', head'.seq)
  BY <1>3
<1>5. ack["web"] \in Nat
  BY <1>1 DEF ServerInv, Devices
<1>6. \A led \in L : led.cursor \in Nat
  BY <1>1, LedgerType
<1>7. r.tab \in Tabs
  BY <1>1 DEF ClientInv, NetRecords
<1>8. (tab' = tab \/ tab' = [tab EXCEPT ![r.tab] = w]) /\ net' \subseteq net \cup more
  BY DEF Answer
<1>9. ack["web"] <= ack["web"] /\ ack["web"] = ack'["web"]
  BY <1>3, <1>5
<1>10. ClientInv'
  BY <1>1, <1>4, <1>5, <1>6, <1>7, <1>8, <1>9, ClientKeeps
<1>. QED
  BY <1>2, <1>10 DEF SyncInv

(* What a request on its way and its tab look like.                          *)
LEMMA RequestType ==
    ASSUME SyncInv, NEW r \in net, NEW L, L = LedgersOf(changes, head.seq)
    PROVE  /\ r \in NetRecords(L) /\ r.tab \in Tabs /\ r.ledger \in L
           /\ r.kind \in {"get", "page", "ack", "edit"} /\ r.key \in Edits /\ r.expected \in Nat
           /\ tab[r.tab] \in TabRecords(L)
           /\ tab[r.tab].ledger \in L /\ tab[r.tab].ledger.cursor <= ack["web"]
           /\ r.kind \in {"get", "page"} => r.ledger.cursor <= ack["web"]
<1>1. /\ tab \in [Tabs -> TabRecords(L)] /\ net \subseteq NetRecords(L)
      /\ \A x \in Tabs : tab[x].ledger.cursor <= ack["web"]
      /\ \A q \in net : q.kind \in {"get", "page"} => q.ledger.cursor <= ack["web"]
  BY DEF SyncInv, ClientInv
<1>2. r \in NetRecords(L)
  BY <1>1
<1>3. /\ r.tab \in Tabs /\ r.ledger \in L /\ r.kind \in {"get", "page", "ack", "edit"}
      /\ r.key \in Edits /\ r.expected \in Nat
  BY <1>2 DEF NetRecords
<1>4. tab[r.tab] \in TabRecords(L)
  BY <1>1, <1>3
<1>5. tab[r.tab].ledger \in L
  BY <1>4 DEF TabRecords
<1>. QED
  BY <1>1, <1>2, <1>3, <1>4, <1>5

(* The ways a tab's record changes.                                          *)
LEMMA TabChanges ==
    ASSUME NEW L, NEW w \in TabRecords(L), NEW led \in L
    PROVE  /\ \A s \in TabStatuses : [w EXCEPT !.status = s] \in TabRecords(L)
           /\ \A s : [w EXCEPT !.status = s].ledger = w.ledger
           /\ [w EXCEPT !.work = led] \in TabRecords(L)
           /\ [w EXCEPT !.work = led].ledger = w.ledger
           /\ \A v \in Nat : [w EXCEPT !.selected = v] \in TabRecords(L)
           /\ \A v : [w EXCEPT !.selected = v].ledger = w.ledger
           /\ \A v \in Nat : [w EXCEPT !.current = v] \in TabRecords(L)
           /\ \A v : [w EXCEPT !.current = v].ledger = w.ledger
           /\ [w EXCEPT !.ledger = led] \in TabRecords(L)
           /\ [w EXCEPT !.ledger = led].ledger = led
<1>1. w = [op |-> w.op, status |-> w.status, ledger |-> w.ledger, work |-> w.work,
           selected |-> w.selected, current |-> w.current]
  BY DEF TabRecords
<1>2. /\ w.op \in 0..MaxOps /\ w.status \in TabStatuses /\ w.ledger \in L /\ w.work \in L
      /\ w.selected \in Nat /\ w.current \in Nat
  BY DEF TabRecords
<1>3. ASSUME NEW s \in TabStatuses PROVE [w EXCEPT !.status = s] \in TabRecords(L)
  BY <1>1, <1>2 DEF TabRecords
<1>4. ASSUME NEW v \in Nat
      PROVE  /\ [w EXCEPT !.selected = v] \in TabRecords(L)
             /\ [w EXCEPT !.current = v] \in TabRecords(L)
  BY <1>1, <1>2 DEF TabRecords
<1>5. /\ [w EXCEPT !.work = led] \in TabRecords(L)
      /\ [w EXCEPT !.ledger = led] \in TabRecords(L)
  BY <1>1, <1>2 DEF TabRecords
<1>6. /\ \A s : [w EXCEPT !.status = s].ledger = w.ledger
      /\ [w EXCEPT !.work = led].ledger = w.ledger
      /\ \A v : [w EXCEPT !.selected = v].ledger = w.ledger
      /\ \A v : [w EXCEPT !.current = v].ledger = w.ledger
      /\ [w EXCEPT !.ledger = led].ledger = led
  BY <1>1
<1>. QED
  BY <1>3, <1>4, <1>5, <1>6

(* The versions the server answers with.                                     *)
LEMMA VersionType ==
    ASSUME SyncInv
    PROVE  Version(profile, "workspace") \in Nat /\ ack["web"] \in Nat /\ head.seq \in Nat
<1>1. profile["workspace"] \in Seq(Edits) /\ ack["web"] \in Nat /\ head.seq \in Nat
  BY DEF SyncInv, ServerInv, Profiled, Chained, Entities, Devices
<1>. QED
  BY <1>1, LenProperties DEF Version

(* getWorkspace is answered: the first page is asked for.                    *)
LEMMA ServeGetKeeps ==
    ASSUME SyncInv, NEW r \in net, ServeGet(r) PROVE SyncInv'
<1>. DEFINE L == LedgersOf(changes, head.seq)
            w == [tab[r.tab] EXCEPT !.selected = Version(profile, "workspace")]
            more == {[r EXCEPT !.kind = "page"]}
<1>1. r.kind = "get" /\ Answer(r, w, more) /\ UNCHANGED <<serverVars, troubles>>
  BY DEF ServeGet
<1>2. /\ r \in NetRecords(L) /\ r.ledger \in L /\ r.ledger.cursor <= ack["web"]
      /\ tab[r.tab] \in TabRecords(L) /\ tab[r.tab].ledger.cursor <= ack["web"]
  BY <1>1, RequestType
<1>. HIDE DEF L
<1>3. w \in TabRecords(L) /\ w.ledger = tab[r.tab].ledger
  BY <1>2, VersionType, TabChanges
<1>4. /\ [r EXCEPT !.kind = "page"] \in NetRecords(L)
      /\ [r EXCEPT !.kind = "page"].ledger = r.ledger
  BY <1>2 DEF NetRecords
<1>5. /\ more \in SUBSET NetRecords(L)
      /\ \A q \in more : q.kind \in {"get", "page"} => q.ledger.cursor <= ack["web"]
  BY <1>2, <1>4
<1>6. w.ledger.cursor <= ack["web"]
  BY <1>2, <1>3
<1>. HIDE DEF w, more
<1>7. L = LedgersOf(changes, head.seq)
  BY DEF L
<1>. QED
  BY <1>1, <1>3, <1>5, <1>6, <1>7, AnswerKeeps

(* An answer that ends in a status, with the ledger on display as it was.    *)
LEMMA EndsKeep ==
    ASSUME SyncInv, NEW r \in net, UNCHANGED <<serverVars, troubles>>,
           NEW w, NEW s \in TabStatuses, NEW v \in Nat, Answer(r, w, {}),
           \/ w = tab[r.tab] \/ w = Status(r, s)
           \/ w = [Status(r, s) EXCEPT !.current = v]
           \/ w = [Status(r, s) EXCEPT !.selected = 0, !.ledger = EmptyLedger]
    PROVE  SyncInv'
<1>. DEFINE L == LedgersOf(changes, head.seq)
            x == Status(r, s)
            y == [x EXCEPT !.selected = 0]
<1>1. tab[r.tab] \in TabRecords(L) /\ tab[r.tab].ledger \in L
      /\ tab[r.tab].ledger.cursor <= ack["web"]
  BY RequestType
<1>2. EmptyLedger \in L
  BY EmptyLedgerOf DEF SyncInv
<1>. HIDE DEF L
<1>3. x \in TabRecords(L) /\ x.ledger = tab[r.tab].ledger
  BY <1>1, TabChanges DEF Status
<1>. HIDE DEF x
<1>4. [x EXCEPT !.current = v] \in TabRecords(L) /\ [x EXCEPT !.current = v].ledger = x.ledger
  BY <1>1, <1>3, TabChanges
<1>5. y \in TabRecords(L)
  BY <1>1, <1>3, TabChanges
<1>6. [x EXCEPT !.selected = 0, !.ledger = EmptyLedger] = [y EXCEPT !.ledger = EmptyLedger]
  BY DEF y
<1>. HIDE DEF y
<1>7. /\ [y EXCEPT !.ledger = EmptyLedger] \in TabRecords(L)
      /\ [y EXCEPT !.ledger = EmptyLedger].ledger = EmptyLedger
  BY <1>2, <1>5 DEF TabRecords
<1>8. EmptyLedger.cursor <= ack["web"]
  BY VersionType DEF EmptyLedger
<1>9. \/ w = tab[r.tab] \/ w = x \/ w = [x EXCEPT !.current = v]
      \/ w = [x EXCEPT !.selected = 0, !.ledger = EmptyLedger]
  BY DEF x
<1>10. w \in TabRecords(L)
  BY <1>1, <1>3, <1>4, <1>6, <1>7, <1>9
<1>11. w.ledger.cursor <= ack["web"]
  BY <1>1, <1>3, <1>4, <1>6, <1>7, <1>8, <1>9
<1>12. L = LedgersOf(changes, head.seq)
  BY DEF L
<1>13. /\ {} \in SUBSET NetRecords(L)
       /\ \A q \in {} : q.kind \in {"get", "page"} => q.ledger.cursor <= ack["web"]
  OBVIOUS
<1>. QED
  BY <1>10, <1>11, <1>12, <1>13, AnswerKeeps

(* A page or an edit behind another acknowledgement.                         *)
LEMMA ServeRewindKeeps ==
    ASSUME SyncInv, NEW r \in net, ServeRewind(r) PROVE SyncInv'
<1>1. Answer(r, Failed(r, "error"), {}) /\ UNCHANGED <<serverVars, troubles>>
  BY DEF ServeRewind
<1>2. Failed(r, "error") = tab[r.tab] \/ Failed(r, "error") = Status(r, "error")
  BY DEF Failed
<1>3. "error" \in TabStatuses /\ 0 \in Nat
  BY DEF TabStatuses
<1>. QED
  BY <1>1, <1>2, <1>3, EndsKeep

(* A stale version is shown.                                                 *)
LEMMA ServeConflictKeeps ==
    ASSUME SyncInv, NEW r \in net, ServeConflict(r) PROVE SyncInv'
<1>. DEFINE v == Version(profile, "workspace")
            w == IF r.fresh THEN tab[r.tab] ELSE [Status(r, "conflict") EXCEPT !.current = v]
<1>1. Answer(r, w, {}) /\ UNCHANGED <<serverVars, troubles>>
  BY DEF ServeConflict
<1>2. v \in Nat
  BY VersionType
<1>3. "conflict" \in TabStatuses
  BY DEF TabStatuses
<1>. HIDE DEF v
<1>4. w = tab[r.tab] \/ w = [Status(r, "conflict") EXCEPT !.current = v]
  OBVIOUS
<1>. HIDE DEF w
<1>. QED
  BY <1>1, <1>2, <1>3, <1>4, EndsKeep

(* A revoked device, an ended membership or a role that is not enough.       *)
LEMMA ServeRefusedKeeps ==
    ASSUME SyncInv, NEW r \in net, ServeRefused(r) PROVE SyncInv'
<1>. DEFINE w == IF ~device["web"].active
                 THEN [Status(r, "idle") EXCEPT !.selected = 0, !.ledger = EmptyLedger]
                 ELSE IF membership.active THEN Status(r, "forbidden") ELSE Failed(r, "error")
<1>1. Answer(r, w, {}) /\ UNCHANGED <<serverVars, troubles>>
  BY DEF ServeRefused
<1>2. /\ "idle" \in TabStatuses /\ "forbidden" \in TabStatuses /\ "error" \in TabStatuses
      /\ 0 \in Nat
  BY DEF TabStatuses
<1>3. \/ w = [Status(r, "idle") EXCEPT !.selected = 0, !.ledger = EmptyLedger]
      \/ w = Status(r, "forbidden") \/ w = tab[r.tab] \/ w = Status(r, "error")
  BY DEF Failed
<1>. HIDE DEF w
<1>4. CASE w = [Status(r, "idle") EXCEPT !.selected = 0, !.ledger = EmptyLedger]
  BY <1>1, <1>2, <1>4, EndsKeep
<1>5. CASE w = Status(r, "forbidden")
  BY <1>1, <1>2, <1>5, EndsKeep
<1>6. CASE w = tab[r.tab] \/ w = Status(r, "error")
  BY <1>1, <1>2, <1>6, EndsKeep
<1>. QED
  BY <1>3, <1>4, <1>5, <1>6

(* A page: its ledger is acknowledged before it is shown; one that brings    *)
(* nothing is shown at once.                                                 *)
LEMMA ServePageKeeps ==
    ASSUME SyncInv, NEW r \in net, ServePage(r) PROVE SyncInv'
<1>. DEFINE L == LedgersOf(changes, head.seq)
            p == Page(r.ledger.cursor)
            led == Reduced(r.ledger, p)
<1>1. /\ r.kind = "page" /\ UNCHANGED <<serverVars, troubles>>
      /\ IF ~Reducible(r.ledger, p) THEN Answer(r, Status(r, "error"), {})
         ELSE IF led.cursor > r.ledger.cursor
         THEN Answer(r, [tab[r.tab] EXCEPT !.work = led],
                     {[r EXCEPT !.kind = "ack", !.ledger = led, !.fresh = p.more]})
         ELSE Answer(r, LoadedTab(r, led), {})
  BY DEF ServePage
<1>2. /\ r \in NetRecords(L) /\ r.ledger \in L /\ r.ledger.cursor <= ack["web"]
      /\ tab[r.tab] \in TabRecords(L) /\ tab[r.tab].ledger.cursor <= ack["web"]
  BY <1>1, RequestType
<1>3. ServerInv
  BY DEF SyncInv
<1>4. led \in L /\ led.cursor >= r.ledger.cursor
  BY <1>2, <1>3, ReducedIsLedger
<1>5. led.cursor \in Nat /\ r.ledger.cursor \in Nat
  BY <1>2, <1>3, <1>4, LedgerType
<1>6. p.more \in BOOLEAN
  BY DEF Page
<1>7. L = LedgersOf(changes, head.seq)
  OBVIOUS
<1>8. EmptyLedger \in L
  BY <1>3, EmptyLedgerOf
<1>. HIDE DEF L, p, led
<1>9. CASE ~Reducible(r.ledger, p)
  <2>1. "error" \in TabStatuses /\ 0 \in Nat
    BY DEF TabStatuses
  <2>. QED
    BY <1>1, <1>9, <2>1, EndsKeep
<1>10. CASE Reducible(r.ledger, p) /\ led.cursor > r.ledger.cursor
  <2>. DEFINE w == [tab[r.tab] EXCEPT !.work = led]
              q == [r EXCEPT !.kind = "ack", !.ledger = led, !.fresh = p.more]
  <2>1. Answer(r, w, {q})
    BY <1>1, <1>10
  <2>2. w \in TabRecords(L) /\ w.ledger = tab[r.tab].ledger
    BY <1>2, <1>4 DEF TabRecords
  <2>3. q \in NetRecords(L) /\ q.kind = "ack"
    BY <1>2, <1>4, <1>6 DEF NetRecords
  <2>. HIDE DEF w, q
  <2>4. /\ {q} \in SUBSET NetRecords(L) /\ w.ledger.cursor <= ack["web"]
        /\ \A x \in {q} : x.kind \in {"get", "page"} => x.ledger.cursor <= ack["web"]
    BY <1>2, <2>2, <2>3
  <2>. QED
    BY <1>1, <1>7, <2>1, <2>2, <2>4, AnswerKeeps
<1>11. CASE Reducible(r.ledger, p) /\ ~(led.cursor > r.ledger.cursor)
  <2>1. Answer(r, LoadedTab(r, led), {})
    BY <1>1, <1>11
  <2>2. led.cursor <= ack["web"]
    BY <1>2, <1>4, <1>5, <1>11
  <2>3. LoadedTab(r, led) \in TabRecords(L) /\ LoadedTab(r, led).ledger = led
    BY <1>2, <1>4, <1>8 DEF LoadedTab, Status, TabRecords, TabStatuses
  <2>4. /\ {} \in SUBSET NetRecords(L) /\ LoadedTab(r, led).ledger.cursor <= ack["web"]
        /\ \A x \in {} : x.kind \in {"get", "page"} => x.ledger.cursor <= ack["web"]
    BY <2>2, <2>3
  <2>. QED
    BY <1>1, <1>7, <2>1, <2>3, <2>4, AnswerKeeps
<1>. QED
  BY <1>9, <1>10, <1>11

(* An operation that a tab starts: its request carries a ledger that may be  *)
(* acknowledged again.                                                       *)
LEMMA StartKeeps ==
    ASSUME SyncInv, UNCHANGED <<serverVars, troubles>>,
           NEW t \in Tabs, NEW L, L = LedgersOf(changes, head.seq),
           NEW w \in TabRecords(L), w.ledger.cursor <= ack["web"],
           NEW q \in NetRecords(L), q.ledger.cursor <= ack["web"],
           tab' = [tab EXCEPT ![t] = w], net' = net \cup {q}
    PROVE  SyncInv'
<1>1. ServerInv /\ RowsInv /\ ClientInv
  BY DEF SyncInv
<1>2. ServerInv' /\ RowsInv'
  BY <1>1, ServerStays
<1>3. changes' = changes /\ head' = head /\ ack' = ack
  BY DEF serverVars
<1>4. L = LedgersOf(changes', head'.seq)
  BY <1>3
<1>5. ack["web"] \in Nat
  BY VersionType
<1>6. \A led \in L : led.cursor \in Nat
  BY <1>1, LedgerType
<1>7. ack["web"] <= ack["web"] /\ ack["web"] = ack'["web"]
  BY <1>3, <1>5
<1>8. /\ {q} \in SUBSET NetRecords(L) /\ net' \subseteq net \cup {q}
      /\ \A x \in {q} : x.kind \in {"get", "page"} => x.ledger.cursor <= ack["web"]
  OBVIOUS
<1>9. ClientInv'
  BY <1>1, <1>4, <1>5, <1>6, <1>7, <1>8, ClientKeeps
<1>. QED
  BY <1>2, <1>9 DEF SyncInv

(* A tab, as its own actions see it.                                         *)
LEMMA TabType ==
    ASSUME SyncInv, NEW t \in Tabs, NEW L, L = LedgersOf(changes, head.seq)
    PROVE  /\ tab[t] \in TabRecords(L) /\ tab[t].ledger \in L
           /\ tab[t].ledger.cursor <= ack["web"] /\ tab[t].ledger.version \in Nat
           /\ tab[t].op \in 0..MaxOps /\ tab[t].selected \in Nat /\ tab[t].current \in Nat
<1>1. tab[t] \in TabRecords(L) /\ tab[t].ledger.cursor <= ack["web"]
  BY DEF SyncInv, ClientInv
<1>2. /\ tab[t].ledger \in L /\ tab[t].op \in 0..MaxOps /\ tab[t].selected \in Nat
      /\ tab[t].current \in Nat
  BY <1>1 DEF TabRecords
<1>3. tab[t].ledger.version \in Nat
  BY <1>2, LedgerType DEF SyncInv
<1>. QED
  BY <1>1, <1>2, <1>3

(* The request of a new operation.                                           *)
LEMMA NewRequest ==
    ASSUME NEW t, NEW kind, NEW led, NEW k, NEW exp, NEW fresh
    PROVE  NextOp(Send(t, kind, led, k, exp, fresh)) =
              [tab |-> t, op |-> tab[t].op + 1, kind |-> kind, ledger |-> led,
               key |-> k, expected |-> exp, fresh |-> fresh]
BY DEF NextOp, Send

(* A load starts from an empty ledger or from the one on display.            *)
LEMMA LoadKeeps ==
    ASSUME SyncInv, NEW t \in Tabs, NEW led, led = EmptyLedger \/ led = tab[t].ledger,
           LoadStarts(t, led)
    PROVE  SyncInv'
<1>. DEFINE L == LedgersOf(changes, head.seq)
            w == Loading(t, Started(t), led)
<1>. PICK none \in Nat, no \in BOOLEAN : none = 0 /\ no = FALSE
  OBVIOUS
<1>. DEFINE q == NextOp(Send(t, "get", led, Created, none, no))
<1>1. /\ tab[t].op < MaxOps /\ tab' = [tab EXCEPT ![t] = w] /\ net' = net \cup {q}
      /\ UNCHANGED <<serverVars, troubles>>
  BY DEF LoadStarts
<1>2. /\ tab[t] \in TabRecords(L) /\ tab[t].ledger \in L
      /\ tab[t].ledger.cursor <= ack["web"] /\ tab[t].op \in 0..MaxOps
  BY TabType
<1>3. led \in L /\ led.cursor <= ack["web"]
  <2>1. EmptyLedger \in L
    BY EmptyLedgerOf DEF SyncInv
  <2>2. EmptyLedger.cursor <= ack["web"]
    BY VersionType DEF EmptyLedger
  <2>. QED
    BY <1>2, <2>1, <2>2
<1>4. tab[t].op + 1 \in 0..MaxOps /\ tab[t].op + 1 \in Nat
  BY <1>1, <1>2, SyncBounds
<1>5. L = LedgersOf(changes, head.seq)
  OBVIOUS
<1>. HIDE DEF L
<1>6. w \in TabRecords(L) /\ w.ledger = tab[t].ledger
  BY <1>2, <1>3, <1>4 DEF Loading, Started, TabRecords, TabStatuses
<1>7. q = [tab |-> t, op |-> tab[t].op + 1, kind |-> "get", ledger |-> led,
           key |-> Created, expected |-> none, fresh |-> no]
  BY NewRequest
<1>. HIDE DEF w, q
<1>8. Created \in Edits
  BY DEF Edits
<1>9. q \in NetRecords(L) /\ q.ledger = led
  BY <1>3, <1>4, <1>7, <1>8 DEF NetRecords
<1>10. w.ledger.cursor <= ack["web"] /\ q.ledger.cursor <= ack["web"]
  BY <1>2, <1>3, <1>6, <1>9
<1>. QED
  BY <1>1, <1>5, <1>6, <1>9, <1>10, StartKeeps

(* An edit is sent with the version that the tab shows.                      *)
LEMMA EditSentKeeps ==
    ASSUME SyncInv, NEW t \in Tabs, NEW v \in Nat, NEW fresh \in BOOLEAN,
           tab[t].op < MaxOps, tab' = [tab EXCEPT ![t] = Started(t)],
           net' = net \cup {NextOp(Send(t, "edit", tab[t].ledger, <<t, tab[t].op>>, v, fresh))},
           UNCHANGED <<serverVars, troubles>>
    PROVE  SyncInv'
<1>. DEFINE L == LedgersOf(changes, head.seq)
            w == Started(t)
            q == NextOp(Send(t, "edit", tab[t].ledger, <<t, tab[t].op>>, v, fresh))
<1>1. /\ tab[t] \in TabRecords(L) /\ tab[t].ledger \in L
      /\ tab[t].ledger.cursor <= ack["web"] /\ tab[t].op \in 0..MaxOps
  BY TabType
<1>2. tab[t].op + 1 \in 0..MaxOps /\ tab[t].op + 1 \in Nat
  BY <1>1, SyncBounds
<1>3. <<t, tab[t].op>> \in Edits
  BY <1>1 DEF Edits, EditKeys
<1>4. L = LedgersOf(changes, head.seq)
  OBVIOUS
<1>. HIDE DEF L
<1>5. w \in TabRecords(L) /\ w.ledger = tab[t].ledger
  BY <1>1, <1>2 DEF Started, TabRecords
<1>6. q = [tab |-> t, op |-> tab[t].op + 1, kind |-> "edit", ledger |-> tab[t].ledger,
           key |-> <<t, tab[t].op>>, expected |-> v, fresh |-> fresh]
  BY NewRequest
<1>7. tab' = [tab EXCEPT ![t] = w] /\ net' = net \cup {q}
  OBVIOUS
<1>. HIDE DEF w, q
<1>8. q \in NetRecords(L) /\ q.ledger = tab[t].ledger
  BY <1>1, <1>2, <1>3, <1>6 DEF NetRecords
<1>9. w.ledger.cursor <= ack["web"] /\ q.ledger.cursor <= ack["web"]
  BY <1>1, <1>5, <1>8
<1>. QED
  BY <1>4, <1>5, <1>7, <1>8, <1>9, StartKeeps

(* What a tab does on its own.                                               *)
LEMMA TabActionsKeep ==
    ASSUME SyncInv, NEW t \in Tabs,
           OpenWorkspace(t) \/ RefreshLedger(t) \/ EditProfile(t) \/ RetryConflict(t)
    PROVE  SyncInv'
<1>1. CASE OpenWorkspace(t)
  BY <1>1, LoadKeeps DEF OpenWorkspace
<1>2. CASE RefreshLedger(t)
  BY <1>2, LoadKeeps DEF RefreshLedger
<1>3. CASE EditProfile(t)
  <2>1. Known(t) \in Nat
    BY TabType DEF Known
  <2>. QED
    BY <1>3, <2>1, EditSentKeeps DEF EditProfile
<1>4. CASE RetryConflict(t)
  <2>1. tab[t].current \in Nat
    BY TabType
  <2>. QED
    BY <1>4, <2>1, EditSentKeeps DEF RetryConflict
<1>. QED
  BY <1>1, <1>2, <1>3, <1>4

-----------------------------------------------------------------------------
(* What a step does to the server                                            *)

(* The rows of devices and of the membership change without the log.         *)
LEMMA RowsChangeKeeps ==
    ASSUME SyncInv, DeviceRevoked \/ RoleChanges PROVE SyncInv'
<1>1. /\ profile' = profile /\ changes' = changes /\ head' = head /\ ack' = ack /\ idem' = idem
      /\ tab' = tab /\ net' = net
  BY DEF DeviceRevoked, RoleChanges
<1>2. ServerInv'
  BY <1>1 DEF SyncInv, ServerInv
<1>3. ClientInv'
  BY <1>1 DEF SyncInv, ClientInv
<1>4. /\ device \in [Devices -> [version : 1..2, active : BOOLEAN]]
      /\ \A d \in Devices : device[d].active => device[d].version = 1
      /\ troubles \in 0..MaxTroubles /\ MaxTroubles \in Nat
      /\ membership \in [version : 1..(troubles + 1), role : Roles, active : BOOLEAN]
  BY SyncBounds DEF SyncInv, RowsInv
<1>5. CASE DeviceRevoked
  <2>1. PICK d \in Devices :
           /\ troubles < MaxTroubles /\ device[d].active
           /\ device' = [device EXCEPT ![d] = [version |-> @.version + 1, active |-> FALSE]]
           /\ troubles' = troubles + 1 /\ membership' = membership
    BY <1>5 DEF DeviceRevoked
  <2>2. /\ device' = [device EXCEPT ![d] = [version |-> 2, active |-> FALSE]]
        /\ troubles' \in 0..MaxTroubles /\ 1..(troubles + 1) \subseteq 1..(troubles' + 1)
    <3>1. device[d].version = 1
      BY <1>4, <2>1
    <3>2. device' = [device EXCEPT ![d] = [version |-> 2, active |-> FALSE]]
      BY <2>1, <3>1
    <3>3. troubles + 1 \in 0..MaxTroubles /\ troubles \in Nat
      BY <1>4, <2>1
    <3>4. 1..(troubles + 1) \subseteq 1..(troubles' + 1)
      BY <2>1, <3>3
    <3>. QED
      BY <2>1, <3>2, <3>3, <3>4
  <2>3. device' \in [Devices -> [version : 1..2, active : BOOLEAN]]
    BY <1>4, <2>2
  <2>4. \A x \in Devices : device'[x].active => device'[x].version = 1
    BY <1>4, <2>2
  <2>5. membership' \in [version : 1..(troubles' + 1), role : Roles, active : BOOLEAN]
    BY <1>4, <2>1, <2>2
  <2>6. RowsInv'
    BY <2>2, <2>3, <2>4, <2>5 DEF RowsInv
  <2>. QED
    BY <1>2, <1>3, <2>6 DEF SyncInv
<1>6. CASE RoleChanges
  <2>1. PICK r \in Roles, on \in BOOLEAN :
           /\ troubles < MaxTroubles /\ device' = device
           /\ membership' = [version |-> membership.version + 1, role |-> r, active |-> on]
           /\ troubles' = troubles + 1
    BY <1>6 DEF RoleChanges
  <2>2. troubles' \in 0..MaxTroubles /\ membership.version + 1 \in 1..(troubles' + 1)
    BY <1>4, <2>1
  <2>3. membership' \in [version : 1..(troubles' + 1), role : Roles, active : BOOLEAN]
    BY <2>1, <2>2
  <2>4. RowsInv'
    BY <1>4, <2>1, <2>2, <2>3 DEF RowsInv
  <2>. QED
    BY <1>2, <1>3, <2>4 DEF SyncInv
<1>. QED
  BY <1>5, <1>6

(* A profile changes outside the log: the versions of the log stay.          *)
LEMMA OutsideKeeps ==
    ASSUME SyncInv, ProfileOutsideLog PROVE SyncInv'
<1>1. PICK e \in Entities :
         /\ troubles < MaxTroubles /\ Len(profile[e]) < MaxVersion
         /\ profile' = [profile EXCEPT ![e] = Append(@, Outside)]
         /\ troubles' = troubles + 1
         /\ UNCHANGED <<changes, head, ack, idem, device, membership, tab, net>>
  BY DEF ProfileOutsideLog
<1>. DEFINE q == [profile EXCEPT ![e] = Append(@, Outside)]
<1>2. Profiled(changes, profile) /\ Outside \in Edits
  BY DEF SyncInv, ServerInv, Edits
<1>3. /\ Profiled(changes, profile') /\ Len(profile'[e]) = Len(profile[e]) + 1
      /\ \A x \in Entities \ {e} : profile'[x] = profile[x]
  <2>1. profile' = q /\ q = [profile EXCEPT ![e] = Append(@, Outside)]
    BY <1>1
  <2>. HIDE DEF q
  <2>2. Profiled(changes, q)
    BY <1>2, <2>1, VersionAdded
  <2>3. /\ Len(q[e]) = Len(profile[e]) + 1
        /\ \A x \in Entities \ {e} : q[x] = profile[x]
    BY <1>2, <2>1, VersionAdded
  <2>. QED
    BY <2>1, <2>2, <2>3
<1>4. \A x \in Entities : Len(profile'[x]) <= MaxVersion
  <2>1. Len(profile[e]) \in Nat
    BY <1>2 DEF Profiled
  <2>2. Len(profile'[e]) <= MaxVersion
    BY <1>1, <1>3, <2>1, SyncBounds
  <2>3. \A x \in Entities \ {e} : Len(profile'[x]) <= MaxVersion
    BY <1>3 DEF SyncInv, ServerInv
  <2>. QED
    BY <2>2, <2>3
<1>5. ServerInv'
  BY <1>1, <1>3, <1>4 DEF SyncInv, ServerInv
<1>6. ClientInv'
  BY <1>1 DEF SyncInv, ClientInv
<1>7. RowsInv'
  <2>1. /\ troubles \in 0..MaxTroubles /\ MaxTroubles \in Nat
        /\ membership \in [version : 1..(troubles + 1), role : Roles, active : BOOLEAN]
    BY SyncBounds DEF SyncInv, RowsInv
  <2>2. troubles' \in 0..MaxTroubles /\ 1..(troubles + 1) \subseteq 1..(troubles' + 1)
    BY <1>1, <2>1
  <2>3. membership' \in [version : 1..(troubles' + 1), role : Roles, active : BOOLEAN]
    BY <1>1, <2>1, <2>2
  <2>. QED
    BY <1>1, <2>2, <2>3 DEF SyncInv, RowsInv
<1>. QED
  BY <1>5, <1>6, <1>7 DEF SyncInv

(* A step of the server that clients can follow: what they hold of the log   *)
(* stays a first part of it, and nothing acknowledged is taken back.         *)
Followable ==
    /\ ServerInv'
    /\ LedgersOf(changes, head.seq) \subseteq LedgersOf(changes', head'.seq)
    /\ \A d \in Devices : ack'[d] >= ack[d]
    /\ UNCHANGED <<device, membership>>

(* A commit that keeps the bounds is such a step.                            *)
LEMMA CommitFollowable ==
    ASSUME ServerInv, NEW d \in Devices, NEW a \in Nat, AckOK(d, a),
           NEW ms, Commit(d, a, ms), NEW s, s = Transaction,
           NEW u, u = AfterBatch(ms, d), LogSound(u), Grown(s, u, 2),
           u.seq <= MaxLog, \A e \in Entities : Len(u.profile[e]) <= MaxVersion
    PROVE  Followable /\ ack' = [ack EXCEPT ![d] = a]
<1>1. /\ ServerInv' /\ LogGrows
      /\ ack' = [ack EXCEPT ![d] = a] /\ \A x \in Devices : ack'[x] >= ack[x]
      /\ UNCHANGED <<device, membership>>
  BY CommitSound
<1>2. head'.seq \in Nat
  BY <1>1 DEF ServerInv, Chained
<1>3. LedgersOf(changes, head.seq) \subseteq LedgersOf(changes', head'.seq)
  BY <1>1, <1>2, LedgersStay
<1>. QED
  BY <1>1, <1>3 DEF Followable

(* An acknowledgement alone.                                                 *)
LEMMA AckCommit ==
    ASSUME ServerInv, NEW d \in Devices, NEW a \in Nat, AckOK(d, a), Commit(d, a, <<>>)
    PROVE  Followable /\ ack' = [ack EXCEPT ![d] = a]
<1>1. PICK s : s = Transaction
  OBVIOUS
<1>2. LogSound(s) /\ s.seq \in Nat /\ s.seq = head.seq /\ s.profile = profile
  BY <1>1, TransactionSound
<1>3. s = AfterBatch(<<>>, d)
  BY <1>1, EmptyBatch
<1>4. Grown(s, s, 2)
  BY <1>2 DEF Grown
<1>5. s.seq <= MaxLog /\ \A e \in Entities : Len(s.profile[e]) <= MaxVersion
  BY <1>2 DEF ServerInv
<1>. QED
  BY <1>1, <1>2, <1>3, <1>4, <1>5, CommitFollowable

(* The edit of a request.                                                    *)
LEMMA EditCommit ==
    ASSUME SyncInv, NEW r \in net, AckOK("web", r.ledger.cursor),
           head.seq < MaxLog, Version(profile, "workspace") < MaxVersion,
           Commit("web", r.ledger.cursor, <<Edit(r)>>)
    PROVE  Followable /\ ack' = [ack EXCEPT !["web"] = r.ledger.cursor]
<1>1. ServerInv /\ r.key \in Edits /\ r.expected \in Nat
      /\ r.ledger \in LedgersOf(changes, head.seq)
  BY RequestType DEF SyncInv
<1>2. r.ledger.cursor \in Nat
  BY <1>1, LedgerType
<1>3. PICK m : m = Edit(r)
  OBVIOUS
<1>4. Mutation(m) /\ m.entity = "workspace"
  BY <1>1, <1>3 DEF Edit, Mutation, Entities
<1>5. PICK s : s = Transaction
  OBVIOUS
<1>6. PICK u : u = AfterBatch(<<m>>, "web")
  OBVIOUS
<1>7. "web" \in Devices
  BY DEF Devices
<1>8. LogSound(u) /\ Grown(s, u, 1)
  BY <1>1, <1>4, <1>5, <1>6, <1>7, SingleBatch
<1>9. \A e \in Entities : /\ Len(u.profile[e]) <= Len(profile[e]) + 1
                          /\ e # m.entity => u.profile[e] = profile[e]
  BY <1>1, <1>4, <1>5, <1>6, <1>7, SingleBatch
<1>10. s.seq = head.seq /\ head.seq \in Nat
  BY <1>1, <1>5, TransactionSound
<1>11. Grown(s, u, 2) /\ u.seq <= MaxLog
  BY <1>8, <1>10, SyncBounds DEF Grown
<1>12. ASSUME NEW e \in Entities PROVE Len(u.profile[e]) <= MaxVersion
  <2>1. CASE e = "workspace"
    <3>1. profile[e] \in Seq(Edits) /\ u.profile[e] \in Seq(Edits)
      BY <1>1, <1>8 DEF ServerInv, LogSound, Profiled
    <3>2. Len(profile[e]) \in Nat /\ Len(u.profile[e]) \in Nat
      BY <3>1, LenProperties
    <3>3. Len(profile[e]) < MaxVersion /\ Len(u.profile[e]) <= Len(profile[e]) + 1
      BY <1>9, <2>1 DEF Version
    <3>. QED
      BY <3>2, <3>3, SyncBounds
  <2>2. CASE e # "workspace"
    BY <1>1, <1>4, <1>9, <2>2 DEF ServerInv
  <2>. QED
    BY <2>1, <2>2
<1>13. Commit("web", r.ledger.cursor, <<m>>)
  BY <1>3
<1>. QED
  BY <1>1, <1>2, <1>5, <1>6, <1>7, <1>8, <1>11, <1>12, <1>13, CommitFollowable

(* The versions of a membership after one more trouble, or none.             *)
LEMMA RangeWidens ==
    ASSUME NEW n \in Nat, NEW k, k = n \/ k = n + 1
    PROVE  1..(n + 1) \subseteq 1..(k + 1)
<1>1. k \in Nat /\ n <= k
  OBVIOUS
<1>2. \A i \in 1..(n + 1) : i \in 1..(k + 1)
  BY <1>1
<1>. QED
  BY <1>2

(* A step of the server, lost on its way or not, and the answer to it.       *)
LEMMA FollowedKeeps ==
    ASSUME SyncInv, Followable,
           troubles' = troubles \/ (troubles < MaxTroubles /\ troubles' = troubles + 1),
           NEW L, L = LedgersOf(changes', head'.seq), NEW r \in net,
           NEW w \in TabRecords(L), w.ledger.cursor <= ack'["web"],
           NEW more \in SUBSET NetRecords(L), Answer(r, w, more),
           \A q \in more : q.kind \in {"get", "page"} => q.ledger.cursor <= ack'["web"]
    PROVE  SyncInv'
<1>1. ServerInv /\ RowsInv /\ ClientInv /\ ServerInv' /\ ack["web"] \in Nat
  BY VersionType DEF SyncInv, Followable
<1>2. ack'["web"] \in Nat /\ ack["web"] <= ack'["web"]
  BY <1>1 DEF Followable, ServerInv, Devices
<1>3. LedgersOf(changes, head.seq) \subseteq L
  BY DEF Followable
<1>4. \A led \in L : led.cursor \in Nat
  <2>1. head'.seq \in Nat
    BY <1>1 DEF ServerInv, Chained
  <2>. QED
    BY <2>1 DEF LedgersOf
<1>5. r.tab \in Tabs
  BY RequestType
<1>6. (tab' = tab \/ tab' = [tab EXCEPT ![r.tab] = w]) /\ net' \subseteq net \cup more
  BY DEF Answer
<1>7. ClientInv'
  BY <1>1, <1>2, <1>3, <1>4, <1>5, <1>6, ClientKeeps
<1>8. RowsInv'
  <2>1. /\ device' = device /\ membership' = membership
        /\ troubles \in 0..MaxTroubles /\ MaxTroubles \in Nat
        /\ membership \in [version : 1..(troubles + 1), role : Roles, active : BOOLEAN]
    BY <1>1, SyncBounds DEF RowsInv, Followable
  <2>2. troubles' \in 0..MaxTroubles /\ troubles \in Nat
    BY <2>1
  <2>5. troubles' = troubles \/ troubles' = troubles + 1
    OBVIOUS
  <2>3. 1..(troubles + 1) \subseteq 1..(troubles' + 1)
    BY <2>2, <2>5, RangeWidens
  <2>4. membership' \in [version : 1..(troubles' + 1), role : Roles, active : BOOLEAN]
    BY <2>1, <2>3
  <2>. QED
    BY <1>1, <2>1, <2>2, <2>4 DEF RowsInv
<1>. QED
  BY <1>1, <1>7, <1>8 DEF SyncInv

(* An acknowledgement that ends the load, or is followed by the next page.   *)
LEMMA ServeAckKeeps ==
    ASSUME SyncInv, NEW r \in net, ServeAck(r) PROVE SyncInv'
<1>. DEFINE L == LedgersOf(changes', head'.seq)
            K == LedgersOf(changes, head.seq)
            x == LoadedTab(r, r.ledger)
            w == IF r.fresh THEN tab[r.tab] ELSE x
            q == [r EXCEPT !.kind = "page", !.fresh = FALSE]
            more == IF r.fresh THEN {q} ELSE {}
<1>1. /\ AckOK("web", r.ledger.cursor) /\ Commit("web", r.ledger.cursor, <<>>)
      /\ Answer(r, w, more) /\ troubles' = troubles
  BY DEF ServeAck, Accepts
<1>2. ServerInv /\ "web" \in Devices /\ ack \in [Devices -> Nat]
  BY DEF SyncInv, ServerInv, Devices
<1>3. /\ r \in NetRecords(K) /\ r.ledger \in K /\ tab[r.tab] \in TabRecords(K)
      /\ tab[r.tab].ledger.cursor <= ack["web"] /\ tab[r.tab].ledger \in K
  BY RequestType
<1>4. r.ledger.cursor \in Nat /\ tab[r.tab].ledger.cursor \in Nat
  BY <1>2, <1>3, LedgerType
<1>5. Followable /\ ack' = [ack EXCEPT !["web"] = r.ledger.cursor]
  BY <1>1, <1>2, <1>4, AckCommit
<1>6. ack'["web"] = r.ledger.cursor /\ ack["web"] <= r.ledger.cursor /\ ack["web"] \in Nat
  BY <1>1, <1>2, <1>4, <1>5 DEF AckOK
<1>7. K \subseteq L
  BY <1>5 DEF Followable
<1>8. EmptyLedger \in K
  BY <1>2, EmptyLedgerOf
<1>. HIDE DEF L, K
<1>9. r \in NetRecords(L) /\ tab[r.tab] \in TabRecords(L) /\ r.ledger \in L /\ EmptyLedger \in L
  BY <1>3, <1>7, <1>8, RecordsWiden
<1>10. x \in TabRecords(L) /\ x.ledger = r.ledger
  BY <1>9 DEF LoadedTab, Status, TabRecords, TabStatuses
<1>11. q \in NetRecords(L) /\ q.ledger = r.ledger
  BY <1>9 DEF NetRecords
<1>. HIDE DEF x, q
<1>12. w \in TabRecords(L) /\ w.ledger.cursor <= ack'["web"]
  BY <1>3, <1>4, <1>6, <1>9, <1>10
<1>13. /\ more \in SUBSET NetRecords(L)
       /\ \A y \in more : y.kind \in {"get", "page"} => y.ledger.cursor <= ack'["web"]
  BY <1>4, <1>6, <1>11
<1>14. L = LedgersOf(changes', head'.seq)
  BY DEF L
<1>. HIDE DEF w, more
<1>. QED
  BY <1>1, <1>5, <1>12, <1>13, <1>14, FollowedKeeps

(* An edit that is applied: the workspace is loaded again.                   *)
LEMMA ServeEditKeeps ==
    ASSUME SyncInv, NEW r \in net, ServeEdit(r) PROVE SyncInv'
<1>. DEFINE L == LedgersOf(changes', head'.seq)
            K == LedgersOf(changes, head.seq)
            led == IF r.fresh THEN EmptyLedger ELSE tab[r.tab].ledger
            w == Loading(r.tab, tab[r.tab], led)
            q == [r EXCEPT !.kind = "get", !.ledger = led, !.fresh = FALSE]
<1>1. /\ AckOK("web", r.ledger.cursor) /\ Commit("web", r.ledger.cursor, <<Edit(r)>>)
      /\ head.seq < MaxLog /\ Version(profile, "workspace") < MaxVersion
      /\ Answer(r, w, {q}) /\ troubles' = troubles
  BY DEF ServeEdit, Accepts
<1>2. ServerInv /\ "web" \in Devices /\ ack \in [Devices -> Nat]
  BY DEF SyncInv, ServerInv, Devices
<1>3. /\ r \in NetRecords(K) /\ r.ledger \in K /\ tab[r.tab] \in TabRecords(K)
      /\ tab[r.tab].ledger.cursor <= ack["web"] /\ tab[r.tab].ledger \in K
  BY RequestType
<1>4. r.ledger.cursor \in Nat /\ tab[r.tab].ledger.cursor \in Nat
  BY <1>2, <1>3, LedgerType
<1>5. Followable /\ ack' = [ack EXCEPT !["web"] = r.ledger.cursor]
  BY <1>1, EditCommit
<1>6. ack'["web"] = r.ledger.cursor /\ ack["web"] <= r.ledger.cursor /\ ack["web"] \in Nat
  BY <1>1, <1>2, <1>4, <1>5 DEF AckOK
<1>7. K \subseteq L
  BY <1>5 DEF Followable
<1>8. EmptyLedger \in K /\ EmptyLedger.cursor = 0
  BY <1>2, EmptyLedgerOf DEF EmptyLedger
<1>9. led \in K /\ led.cursor <= ack'["web"]
  BY <1>3, <1>4, <1>6, <1>8
<1>. HIDE DEF L, K, led
<1>10. r \in NetRecords(L) /\ tab[r.tab] \in TabRecords(L) /\ led \in L
  BY <1>3, <1>7, <1>9, RecordsWiden
<1>11. w \in TabRecords(L) /\ w.ledger = tab[r.tab].ledger
  BY <1>10 DEF Loading, TabRecords, TabStatuses
<1>12. q \in NetRecords(L) /\ q.ledger = led
  BY <1>10 DEF NetRecords
<1>. HIDE DEF w, q
<1>13. w.ledger.cursor <= ack'["web"]
  BY <1>3, <1>4, <1>6, <1>11
<1>14. /\ {q} \in SUBSET NetRecords(L)
       /\ \A y \in {q} : y.kind \in {"get", "page"} => y.ledger.cursor <= ack'["web"]
  BY <1>9, <1>12
<1>15. L = LedgersOf(changes', head'.seq)
  BY DEF L
<1>. QED
  BY <1>1, <1>5, <1>11, <1>13, <1>14, <1>15, FollowedKeeps

(* A lost answer: the server may have done what it was asked.                *)
LEMMA ResponseLostKeeps ==
    ASSUME SyncInv, NEW r \in net, ResponseLost(r) PROVE SyncInv'
<1>. DEFINE L == LedgersOf(changes', head'.seq)
            K == LedgersOf(changes, head.seq)
            w == Failed(r, "offline")
<1>1. /\ troubles < MaxTroubles /\ troubles' = troubles + 1 /\ Answer(r, w, {})
      /\ \/ UNCHANGED serverVars
         \/ /\ AckOK("web", r.ledger.cursor) /\ Commit("web", r.ledger.cursor, <<Edit(r)>>)
            /\ head.seq < MaxLog /\ Version(profile, "workspace") < MaxVersion
         \/ AckOK("web", r.ledger.cursor) /\ Commit("web", r.ledger.cursor, <<>>)
  BY DEF ResponseLost, Accepts
<1>2. ServerInv /\ "web" \in Devices /\ ack \in [Devices -> Nat]
  BY DEF SyncInv, ServerInv, Devices
<1>3. /\ r.ledger \in K /\ tab[r.tab] \in TabRecords(K)
      /\ tab[r.tab].ledger.cursor <= ack["web"] /\ tab[r.tab].ledger \in K
  BY RequestType
<1>4. r.ledger.cursor \in Nat /\ tab[r.tab].ledger.cursor \in Nat
  BY <1>2, <1>3, LedgerType
<1>5. Followable
  <2>1. CASE UNCHANGED serverVars
    <3>1. /\ changes' = changes /\ head' = head /\ profile' = profile /\ idem' = idem
          /\ ack' = ack /\ device' = device /\ membership' = membership
      BY <2>1 DEF serverVars
    <3>2. ServerInv'
      BY <1>2, <3>1 DEF ServerInv
    <3>3. \A d \in Devices : ack'[d] >= ack[d]
      BY <1>2, <3>1
    <3>. QED
      BY <3>1, <3>2, <3>3 DEF Followable
  <2>2. CASE /\ AckOK("web", r.ledger.cursor) /\ Commit("web", r.ledger.cursor, <<Edit(r)>>)
             /\ head.seq < MaxLog /\ Version(profile, "workspace") < MaxVersion
    BY <2>2, EditCommit
  <2>3. CASE AckOK("web", r.ledger.cursor) /\ Commit("web", r.ledger.cursor, <<>>)
    BY <1>2, <1>4, <2>3, AckCommit
  <2>. QED
    BY <1>1, <2>1, <2>2, <2>3
<1>6. K \subseteq L /\ ack["web"] <= ack'["web"] /\ ack["web"] \in Nat /\ ack'["web"] \in Nat
  BY <1>2, <1>5 DEF Followable, ServerInv
<1>. HIDE DEF L, K
<1>7. tab[r.tab] \in TabRecords(L)
  BY <1>3, <1>6, RecordsWiden
<1>8. w \in TabRecords(L) /\ w.ledger = tab[r.tab].ledger
  BY <1>7 DEF Failed, Status, TabRecords, TabStatuses
<1>. HIDE DEF w
<1>9. w.ledger.cursor <= ack'["web"]
  BY <1>3, <1>4, <1>6, <1>8
<1>10. L = LedgersOf(changes', head'.seq)
  BY DEF L
<1>11. /\ {} \in SUBSET NetRecords(L)
       /\ \A y \in {} : y.kind \in {"get", "page"} => y.ledger.cursor <= ack'["web"]
  OBVIOUS
<1>. QED
  BY <1>1, <1>5, <1>8, <1>9, <1>10, <1>11, FollowedKeeps

(* The requests of the API device.                                           *)
LEMMA ApiRequestKeeps ==
    ASSUME SyncInv, ApiRequest PROVE SyncInv'
<1>1. PICK ms, u, a :
         /\ ms \in Batches /\ u = AfterBatch(ms, "api") /\ u.seq <= MaxLog
         /\ \A e \in Entities : Len(u.profile[e]) <= MaxVersion
         /\ a = IF ms = <<>> THEN head.seq ELSE ack["api"]
         /\ AckOK("api", a) /\ Commit("api", a, ms)
         /\ UNCHANGED <<tab, net, troubles>>
  BY DEF ApiRequest
<1>2. ServerInv /\ RowsInv /\ ClientInv /\ "api" \in Devices /\ "web" \in Devices
  BY DEF SyncInv, Devices
<1>3. ack \in [Devices -> Nat] /\ head.seq \in Nat
  BY <1>2 DEF ServerInv, Chained
<1>4. a \in Nat
  BY <1>1, <1>2, <1>3
<1>5. \A m \in Mutations : Mutation(m)
  BY SyncBounds DEF Mutations, Mutation, Edits, EditKeys
<1>6. PICK s : s = Transaction
  OBVIOUS
<1>7. LogSound(u) /\ Grown(s, u, 2)
  BY <1>1, <1>2, <1>5, <1>6, BatchSound
<1>8. Followable
  BY <1>1, <1>2, <1>4, <1>6, <1>7, CommitFollowable
<1>. DEFINE L == LedgersOf(changes', head'.seq)
            K == LedgersOf(changes, head.seq)
<1>9. K \subseteq L /\ ack["web"] <= ack'["web"] /\ ack["web"] \in Nat /\ ack'["web"] \in Nat
  BY <1>2, <1>3, <1>8 DEF Followable, ServerInv
<1>10. /\ \A t \in Tabs : tab[t].ledger.cursor <= ack["web"] /\ tab[t].ledger.cursor \in Nat
       /\ \A r \in net : r.ledger.cursor \in Nat
  <2>1. ASSUME NEW t \in Tabs
        PROVE  tab[t].ledger.cursor <= ack["web"] /\ tab[t].ledger.cursor \in Nat
    BY <1>2, TabType, LedgerType
  <2>2. ASSUME NEW r \in net PROVE r.ledger.cursor \in Nat
    <3>1. r.ledger \in K
      BY RequestType
    <3>. QED
      BY <1>2, <3>1, LedgerType
  <2>. QED
    BY <2>1, <2>2
<1>11. TabRecords(K) \subseteq TabRecords(L) /\ NetRecords(K) \subseteq NetRecords(L)
  BY <1>9, RecordsWiden
<1>12. /\ tab \in [Tabs -> TabRecords(K)] /\ net \subseteq NetRecords(K)
       /\ \A r \in net : r.kind \in {"get", "page"} => r.ledger.cursor <= ack["web"]
  BY <1>2 DEF ClientInv
<1>13. tab' = tab /\ net' = net /\ troubles' = troubles
  BY <1>1
<1>14. ClientInv'
  <2>. HIDE DEF K, L
  <2>1. tab' \in [Tabs -> TabRecords(L)] /\ net' \subseteq NetRecords(L)
    BY <1>11, <1>12, <1>13
  <2>2. \A t \in Tabs : tab'[t].ledger.cursor <= ack'["web"]
    BY <1>9, <1>10, <1>13
  <2>3. \A r \in net' : r.kind \in {"get", "page"} => r.ledger.cursor <= ack'["web"]
    BY <1>9, <1>10, <1>12, <1>13
  <2>. QED
    BY <2>1, <2>2, <2>3 DEF ClientInv, L
<1>15. RowsInv'
  BY <1>2, <1>8, <1>13 DEF Followable, RowsInv
<1>. QED
  BY <1>8, <1>14, <1>15 DEF Followable, SyncInv

-----------------------------------------------------------------------------
(* The inductive invariant holds                                             *)

(* A new workspace: empty log, no acknowledgements, tabs without ledgers.    *)
LEMMA SyncInitInv == SyncInit => SyncInv
<1>. SUFFICES ASSUME SyncInit PROVE SyncInv
  OBVIOUS
<1>1. /\ profile = [e \in Entities |-> <<Created>>] /\ changes = {}
      /\ head = [seq |-> 0, digest |-> <<>>, version |-> 0]
      /\ ack = [d \in Devices |-> 0] /\ idem = {}
      /\ device = [d \in Devices |-> [version |-> 1, active |-> TRUE]]
      /\ membership = [version |-> 1, role |-> "owner", active |-> TRUE]
      /\ tab = [t \in Tabs |-> NewTab] /\ net = {} /\ troubles = 0
  BY DEF SyncInit
<1>2. head.seq = 0 /\ head.digest = <<>>
      /\ head = [seq |-> head.seq, digest |-> head.digest, version |-> head.version]
  BY <1>1
<1>3. Chained(changes, head.seq, head.digest)
  <2>1. IsFiniteSet(changes) /\ Cardinality(changes) = 0
    BY <1>1, FS_EmptySet
  <2>. QED
    BY <1>1, <1>2, <2>1 DEF Chained
<1>4. Replayable(changes, idem, head.seq)
  BY <1>1 DEF Replayable
<1>5. \A e \in Entities : profile[e] = <<Created>>
  BY <1>1
<1>6. <<Created>> \in Seq(Edits) /\ Len(<<Created>>) = 1
  <2>1. Created \in Edits
    BY DEF Edits
  <2>. QED
    BY <2>1
<1>7. Profiled(changes, profile)
  <2>1. profile \in [Entities -> Seq(Edits)]
    BY <1>1, <1>6
  <2>2. \A e \in Entities : Len(profile[e]) >= 1
    BY <1>5, <1>6
  <2>. QED
    BY <1>1, <2>1, <2>2 DEF Profiled
<1>8. ServerInv
  <2>1. \A e \in Entities : Len(profile[e]) <= MaxVersion
    <3>1. \A e \in Entities : Len(profile[e]) = 1
      BY <1>5, <1>6
    <3>2. 1 <= MaxVersion
      BY SyncBounds
    <3>. QED
      BY <3>1, <3>2
  <2>2. ack \in [Devices -> Nat] /\ \A d \in Devices : ack[d] <= head.seq
    BY <1>1, <1>2
  <2>3. head.seq <= MaxLog
    BY <1>2, SyncBounds
  <2>. QED
    BY <1>2, <1>3, <1>4, <1>7, <2>1, <2>2, <2>3 DEF ServerInv
<1>9. RowsInv
  <2>1. device \in [Devices -> [version : 1..2, active : BOOLEAN]]
    BY <1>1
  <2>2. \A d \in Devices : device[d].version = 1
    BY <1>1
  <2>3. troubles \in 0..MaxTroubles
    BY <1>1, SyncBounds
  <2>4. membership \in [version : 1..(troubles + 1), role : Roles, active : BOOLEAN]
    BY <1>1 DEF Roles
  <2>. QED
    BY <2>1, <2>2, <2>3, <2>4 DEF RowsInv
<1>10. ClientInv
  <2>. DEFINE L == LedgersOf(changes, head.seq)
  <2>1. EmptyLedger \in L /\ EmptyLedger.cursor = 0
    BY <1>8, EmptyLedgerOf DEF EmptyLedger
  <2>2. ack["web"] = 0
    BY <1>1 DEF Devices
  <2>. HIDE DEF L
  <2>3. NewTab \in TabRecords(L) /\ NewTab.ledger = EmptyLedger
    BY <2>1, SyncBounds DEF NewTab, TabRecords, TabStatuses
  <2>4. tab \in [Tabs -> TabRecords(L)]
    BY <1>1, <2>3
  <2>5. \A t \in Tabs : tab[t].ledger.cursor <= ack["web"]
    BY <1>1, <2>1, <2>2, <2>3
  <2>6. /\ net \subseteq NetRecords(L)
        /\ \A r \in net : r.kind \in {"get", "page"} => r.ledger.cursor <= ack["web"]
    BY <1>1
  <2>. QED
    BY <2>4, <2>5, <2>6 DEF ClientInv, L
<1>. QED
  BY <1>8, <1>9, <1>10 DEF SyncInv

(* Every step of the server, of a tab and of the network keeps it.           *)
LEMMA SyncNextInv == SyncInv /\ [SyncNext]_syncVars => SyncInv'
<1>. SUFFICES ASSUME SyncInv, [SyncNext]_syncVars PROVE SyncInv'
  OBVIOUS
<1>1. CASE ApiRequest
  BY <1>1, ApiRequestKeeps
<1>2. CASE ProfileOutsideLog
  BY <1>2, OutsideKeeps
<1>3. CASE DeviceRevoked \/ RoleChanges
  BY <1>3, RowsChangeKeeps
<1>4. ASSUME NEW t \in Tabs,
             OpenWorkspace(t) \/ RefreshLedger(t) \/ EditProfile(t) \/ RetryConflict(t)
      PROVE  SyncInv'
  BY <1>4, TabActionsKeep
<1>5. ASSUME NEW r \in net, Served(r) PROVE SyncInv'
  <2>1. CASE ServeGet(r)
    BY <2>1, ServeGetKeeps
  <2>2. CASE ServePage(r)
    BY <2>2, ServePageKeeps
  <2>3. CASE ServeAck(r)
    BY <2>3, ServeAckKeeps
  <2>4. CASE ServeRewind(r)
    BY <2>4, ServeRewindKeeps
  <2>5. CASE ServeEdit(r)
    BY <2>5, ServeEditKeeps
  <2>6. CASE ServeConflict(r)
    BY <2>6, ServeConflictKeeps
  <2>7. CASE ServeRefused(r)
    BY <2>7, ServeRefusedKeeps
  <2>. QED
    BY <1>5, <2>1, <2>2, <2>3, <2>4, <2>5, <2>6, <2>7 DEF Served
<1>6. ASSUME NEW r \in net, ResponseLost(r) PROVE SyncInv'
  BY <1>6, ResponseLostKeeps
<1>7. CASE UNCHANGED syncVars
  <2>1. /\ profile' = profile /\ changes' = changes /\ head' = head /\ ack' = ack
        /\ idem' = idem /\ device' = device /\ membership' = membership /\ tab' = tab
        /\ net' = net /\ troubles' = troubles
    BY <1>7 DEF syncVars
  <2>2. ServerInv'
    BY <2>1 DEF SyncInv, ServerInv
  <2>3. RowsInv'
    BY <2>1 DEF SyncInv, RowsInv
  <2>4. ClientInv'
    BY <2>1 DEF SyncInv, ClientInv
  <2>. QED
    BY <2>2, <2>3, <2>4 DEF SyncInv
<1>. QED
  BY <1>1, <1>2, <1>3, <1>4, <1>5, <1>6, <1>7 DEF SyncNext

(* The invariant of every behaviour.                                         *)
THEOREM SyncInvariant == SyncSpec => []SyncInv
<1>1. SyncInit => SyncInv
  BY SyncInitInv
<1>2. SyncInv /\ [SyncNext]_syncVars => SyncInv'
  BY SyncNextInv
<1>. QED
  BY <1>1, <1>2, PTL DEF SyncSpec

-----------------------------------------------------------------------------
(* What follows from it                                                      *)

LEMMA TypesFollow == SyncInv => SyncTypeOK
<1>. SUFFICES ASSUME SyncInv PROVE SyncTypeOK
  OBVIOUS
<1>1. ServerInv /\ RowsInv /\ ClientInv
  BY DEF SyncInv
<1>2. head.seq \in Nat /\ head.seq <= MaxLog /\ MaxLog \in Nat
      /\ \A c \in changes : c.seq \in 1..head.seq
  BY <1>1, SyncBounds DEF ServerInv, Chained
<1>3. ASSUME NEW e \in Entities
      PROVE  /\ Len(profile[e]) \in 1..MaxVersion
             /\ \A v \in DOMAIN profile[e] : profile[e][v] \in EditKeys \cup {Created, Outside}
  <2>1. profile[e] \in Seq(Edits) /\ Len(profile[e]) >= 1 /\ Len(profile[e]) <= MaxVersion
    BY <1>1 DEF ServerInv, Profiled
  <2>2. Len(profile[e]) \in Nat /\ DOMAIN profile[e] = 1..Len(profile[e])
    BY <2>1, LenProperties
  <2>3. \A v \in 1..Len(profile[e]) : profile[e][v] \in Edits
    BY <2>1, ElementOfSeq
  <2>. QED
    BY <2>1, <2>2, <2>3, SyncBounds DEF Edits
<1>4. \A c \in changes : c.seq \in 1..MaxLog
  BY <1>2
<1>5. ack \in [Devices -> 0..MaxLog]
  <2>1. ack \in [Devices -> Nat] /\ \A d \in Devices : ack[d] <= head.seq
    BY <1>1 DEF ServerInv
  <2>2. \A d \in Devices : ack[d] \in 0..MaxLog
    BY <1>2, <2>1
  <2>. QED
    BY <2>1, <2>2
<1>6. membership \in [version : 1..(MaxTroubles + 1), role : Roles, active : BOOLEAN]
  <2>1. /\ troubles \in 0..MaxTroubles /\ MaxTroubles \in Nat
        /\ membership \in [version : 1..(troubles + 1), role : Roles, active : BOOLEAN]
    BY <1>1, SyncBounds DEF RowsInv
  <2>2. \A i \in 1..(troubles + 1) : i \in 1..(MaxTroubles + 1)
    BY <2>1
  <2>. QED
    BY <2>1, <2>2
<1>7. LedgersOf(changes, head.seq) \subseteq Ledgers
  <2>1. \A i \in 0..head.seq : i \in 0..MaxLog
    BY <1>2
  <2>. QED
    BY <2>1 DEF LedgersOf, Ledgers
<1>8. ASSUME NEW t \in Tabs
      PROVE  /\ tab[t].op \in 0..MaxOps /\ {tab[t].ledger, tab[t].work} \subseteq Ledgers
             /\ tab[t].status \in TabStatuses
  <2>1. tab[t] \in TabRecords(LedgersOf(changes, head.seq))
    BY TabType
  <2>. QED
    BY <1>7, <2>1 DEF TabRecords
<1>9. head.seq \in 0..MaxLog
  BY <1>2
<1>10. device \in [Devices -> [version : 1..2, active : BOOLEAN]]
  BY <1>1 DEF RowsInv
<1>. QED
  BY <1>3, <1>4, <1>5, <1>6, <1>8, <1>9, <1>10 DEF SyncTypeOK, TabStatuses

(* The head agrees with the log: _head and _validate_head_tail accept it.    *)
LEMMA ChainFollows == SyncInv => ChainIntact
<1>. SUFFICES ASSUME SyncInv PROVE ChainIntact
  OBVIOUS
<1>1. ServerInv
  BY DEF SyncInv
<1>2. /\ head.seq \in Nat /\ Cardinality(changes) = head.seq
      /\ \A c \in changes : c.seq \in 1..head.seq
      /\ \A k \in 1..head.seq : \E c \in changes : c.seq = k
      /\ \A c \in changes : c.seq = 1 => c.prev = <<>>
      /\ \A c, d \in changes : d.seq = c.seq + 1 => d.prev = c.digest
      /\ \A c \in changes : c.seq = head.seq => c.digest = head.digest
      /\ head.seq = 0 => head.digest = <<>>
  BY <1>1 DEF ServerInv, Chained
<1>3. {c.seq : c \in changes} = 1..head.seq
  BY <1>2
<1>4. ASSUME NEW c \in changes
      PROVE  c.prev = IF c.seq = 1 THEN <<>> ELSE Change(c.seq - 1).digest
  <2>1. CASE c.seq = 1
    BY <1>2, <2>1
  <2>2. CASE c.seq # 1
    <3>1. c.seq - 1 \in 1..head.seq /\ c.seq = (c.seq - 1) + 1
      BY <1>2, <2>2
    <3>2. Change(c.seq - 1) \in changes /\ Change(c.seq - 1).seq = c.seq - 1
      BY <1>1, <3>1, ChangeAt
    <3>3. c.prev = Change(c.seq - 1).digest
      BY <1>2, <3>1, <3>2
    <3>. QED
      BY <2>2, <3>3
  <2>. QED
    BY <2>1, <2>2
<1>5. HeadValid
  <2>1. CASE head.seq = 0
    <3>1. changes = {}
      BY <1>2, <2>1
    <3>2. idem = {}
      <4>1. \A i \in idem : i.seq \in 1..head.seq
        BY <1>1 DEF ServerInv, Replayable
      <4>. QED
        BY <2>1, <4>1
    <3>3. \A d \in Devices : ~(ack[d] > 0)
      BY <1>1, <2>1 DEF ServerInv
    <3>. QED
      BY <1>2, <2>1, <3>1, <3>2, <3>3 DEF HeadValid, HasHistory
  <2>2. CASE head.seq # 0
    <3>1. head.seq \in 1..head.seq
      BY <1>2, <2>2
    <3>2. Change(head.seq) \in changes /\ Change(head.seq).seq = head.seq
      BY <1>1, <3>1, ChangeAt
    <3>3. Change(head.seq).digest = head.digest
      BY <1>2, <3>2
    <3>4. Change(head.seq).prev =
             IF head.seq = 1 THEN <<>> ELSE Change(head.seq - 1).digest
      BY <1>4, <3>2
    <3>. QED
      BY <2>2, <3>2, <3>3, <3>4 DEF HeadValid
  <2>. QED
    BY <2>1, <2>2
<1>. QED
  BY <1>2, <1>3, <1>4, <1>5 DEF ChainIntact

(* Every change has its row and its version.                                 *)
LEMMA LogFollows == SyncInv => AppliedOnce /\ LogMatchesProfiles
<1>. SUFFICES ASSUME SyncInv PROVE AppliedOnce /\ LogMatchesProfiles
  OBVIOUS
<1>1. Replayable(changes, idem, head.seq) /\ Profiled(changes, profile)
  BY DEF SyncInv, ServerInv
<1>2. AppliedOnce
  BY <1>1 DEF Replayable, AppliedOnce
<1>3. LogMatchesProfiles
  <2>1. \A c \in changes : c.body.version <= Len(profile[c.body.entity])
    <3>1. ASSUME NEW c \in changes PROVE c.body.version <= Len(profile[c.body.entity])
      <4>1. /\ profile[c.body.entity] \in Seq(Edits)
            /\ c.body.version \in 1..Len(profile[c.body.entity])
        BY <1>1 DEF Profiled
      <4>. QED
        BY <4>1, LenProperties
    <3>. QED
      BY <3>1
  <2>. QED
    BY <1>1, <2>1 DEF Profiled, LogMatchesProfiles
<1>. QED
  BY <1>2, <1>3

(* What a tab shows is an acknowledged prefix.                               *)
LEMMA ClientsFollow == SyncInv => LedgerIsPrefix /\ ReadyIsAcknowledged
<1>. SUFFICES ASSUME SyncInv PROVE LedgerIsPrefix /\ ReadyIsAcknowledged
  OBVIOUS
<1>1. ServerInv
  BY DEF SyncInv
<1>2. ReadyIsAcknowledged
  BY DEF SyncInv, ClientInv, ReadyIsAcknowledged
<1>3. ASSUME NEW t \in Tabs, NEW led, led = tab[t].ledger,
             NEW edits, edits = WorkspaceEdits(changes, led.cursor)
      PROVE  /\ led.cursor <= head.seq /\ led.high <= head.seq
             /\ led.digest = IF led.cursor = 0 THEN <<>> ELSE Change(led.cursor).digest
             /\ \A c \in edits : c.body.version <= led.version
             /\ edits # {} => \E c \in edits : c.body.version = led.version
  <2>1. led \in LedgersOf(changes, head.seq)
    BY <1>3, TabType
  <2>2. /\ led \in [cursor : 0..head.seq, version : 0..MaxVersion, high : 0..head.seq,
                    digest : {<<>>} \cup {c.digest : c \in changes}]
        /\ led.cursor = 0 => led.digest = <<>>
        /\ \A c \in changes : c.seq = led.cursor => led.digest = c.digest
        /\ \A c \in edits : c.body.version <= led.version
        /\ edits # {} => \E c \in edits : c.body.version = led.version
    BY <1>3, <2>1 DEF LedgersOf
  <2>3. led.cursor \in 0..head.seq /\ led.high \in 0..head.seq /\ head.seq \in Nat
    BY <1>1, <2>1, <2>2, LedgerType
  <2>4. led.cursor # 0 => led.digest = Change(led.cursor).digest
    <3>1. led.cursor # 0 => led.cursor \in 1..head.seq
      BY <2>3
    <3>. QED
      BY <1>1, <2>2, <3>1, ChangeAt
  <2>. QED
    BY <2>2, <2>3, <2>4
<1>4. LedgerIsPrefix
  BY <1>3 DEF LedgerIsPrefix, WorkspaceEdits
<1>. QED
  BY <1>2, <1>4

(* The log is one chain without gaps that ends at the head, holds every      *)
(* accepted mutation once, agrees with the versions of the profiles, and     *)
(* what a tab shows is a prefix of it that the server knows to have been     *)
(* received: for any number of tabs, keys and changes, with lost answers,    *)
(* profiles changed outside the log and revocations in any order.            *)
THEOREM SyncSoundHolds == SyncSpec => []SyncSound
<1>1. SyncInv => SyncSound
  BY TypesFollow, ChainFollows, LogFollows, ClientsFollow DEF SyncSound
<1>. QED
  BY <1>1, SyncInvariant, PTL

(* An acknowledgement only moves forward, within the log.                    *)
LEMMA AckStep ==
    ASSUME SyncInv, SyncInv', [SyncNext]_syncVars
    PROVE  \A d \in Devices : ack'[d] >= ack[d] /\ ack'[d] <= head'.seq
<1>1. \A d \in Devices : ack'[d] <= head'.seq
  BY DEF SyncInv, ServerInv
<1>2. ack \in [Devices -> Nat]
  BY DEF SyncInv, ServerInv
<1>3. \/ ack' = ack
      \/ \E d \in Devices : \E a : a >= ack[d] /\ ack' = [ack EXCEPT ![d] = a]
  <2>1. CASE ApiRequest
    BY <2>1 DEF ApiRequest, Commit, AckOK, Devices
  <2>2. CASE ProfileOutsideLog \/ DeviceRevoked \/ RoleChanges
    BY <2>2 DEF ProfileOutsideLog, DeviceRevoked, RoleChanges
  <2>3. ASSUME NEW t \in Tabs,
               OpenWorkspace(t) \/ RefreshLedger(t) \/ EditProfile(t) \/ RetryConflict(t)
        PROVE  ack' = ack
    BY <2>3 DEF OpenWorkspace, RefreshLedger, EditProfile, RetryConflict, LoadStarts, serverVars
  <2>4. ASSUME NEW r \in net,
               \/ ServeGet(r) \/ ServePage(r) \/ ServeRewind(r) \/ ServeConflict(r)
               \/ ServeRefused(r)
        PROVE  ack' = ack
    BY <2>4 DEF ServeGet, ServePage, ServeRewind, ServeConflict, ServeRefused, serverVars
  <2>5. ASSUME NEW r \in net, ServeAck(r) \/ ServeEdit(r) \/ ResponseLost(r)
        PROVE  \/ ack' = ack
               \/ r.ledger.cursor >= ack["web"] /\ ack' = [ack EXCEPT !["web"] = r.ledger.cursor]
    BY <2>5 DEF ServeAck, ServeEdit, ResponseLost, Accepts, Commit, AckOK, serverVars
  <2>6. CASE UNCHANGED syncVars
    BY <2>6 DEF syncVars
  <2>. QED
    BY <2>1, <2>2, <2>3, <2>4, <2>5, <2>6 DEF SyncNext, Served, Devices
<1>4. \A d \in Devices : ack'[d] >= ack[d]
  <2>1. CASE ack' = ack
    BY <1>2, <2>1
  <2>2. CASE \E d \in Devices : \E a : a >= ack[d] /\ ack' = [ack EXCEPT ![d] = a]
    <3>1. PICK d \in Devices : \E a : a >= ack[d] /\ ack' = [ack EXCEPT ![d] = a]
      BY <2>2
    <3>3. PICK a : a >= ack[d] /\ ack' = [ack EXCEPT ![d] = a]
      BY <3>1
    <3>2. ASSUME NEW x \in Devices PROVE ack'[x] >= ack[x]
      BY <1>2, <3>3
    <3>. QED
      BY <3>2
  <2>. QED
    BY <1>3, <2>1, <2>2
<1>. QED
  BY <1>1, <1>4

(* No step takes back what a device has acknowledged, and none acknowledges  *)
(* more than the log holds (_acknowledge).                                   *)
THEOREM AckMonotoneHolds == SyncSpec => AckMonotone
<1>1. SyncInv /\ SyncInv' /\ [SyncNext]_syncVars =>
         [\A d \in Devices : ack'[d] >= ack[d] /\ ack'[d] <= head'.seq]_syncVars
  BY AckStep
<1>. QED
  BY <1>1, SyncInvariant, PTL DEF SyncSpec, AckMonotone

(*****************************************************************************)
(* Conversations                                                             *)
(*****************************************************************************)

ThreadVersions == [title : Titles, status : {"active", "archived"}]
EventRecords ==
    [type : {"started", "completed"}, key : {None} \cup ProviderIds, tool : {None},
     decision : {None}]
    \cup [type : ToolTypes, key : {None}, tool : Tools, decision : Decisions]
    \cup [type : {"approval_required"}, key : {None}, tool : Tools, decision : Decisions]

(* The messages are numbered from 1, and refer to what is there.             *)
MessagesInv ==
    /\ thread \in Seq(ThreadVersions)
    /\ IsFiniteSet(messages) /\ Cardinality(messages) <= MaxMessages
    /\ MessagesContiguous
    /\ \A m \in messages : thread # <<>> /\ m.files \subseteq {a.id : a \in attachments}

(* The runs, the events of the one that is followed and its artifacts.       *)
RunsInv ==
    /\ RunsDistinct
    /\ \A r \in runs : r.parent = None \/ \E p \in runs : p.id = r.parent
    /\ workload \in Workloads
    /\ IF workload = "thread" THEN events = <<>> ELSE runs # {}
    /\ events \in Seq(EventRecords) /\ ChainValid(events)
    /\ LineageGrounded

(* An answer names a row that is there.                                      *)
AnswerHolds(a) ==
    /\ a = [kind |-> a.kind, key |-> a.key, place |-> a.place]
    /\ a.kind \in {"message", "event"}
    /\ a.kind = "message" => \E m \in messages : m.key = a.key /\ m.seq = a.place
    /\ a.kind = "event" => /\ a.key # None /\ a.place \in DOMAIN events
                           /\ events[a.place].key = a.key

(* Transactions saw versions that are there; with one write lock there is at *)
(* most one of them, and its membership is current.                          *)
CallsInv ==
    /\ member.version \in Nat
    /\ call \in [Callers -> [pc : {"idle", "open"}, version : Nat, seen : Nat]]
    /\ \A c \in Callers : call[c].seen <= Len(thread)
    /\ dialect = "sqlite" =>
          /\ \A c, d \in Callers : call[c].pc = "open" /\ call[d].pc = "open" => c = d
          /\ \A c \in Callers : call[c].pc = "open" =>
                member.active /\ call[c].version = member.version

(* A follower holds the events up to its cursor.                             *)
FollowerInv ==
    /\ follower \in [pc : {"idle", "chain"}, after : 0..Len(events), high : 0..Len(events),
                     seen : Seq(EventRecords)]
    /\ Len(follower.seen) = follower.after
    /\ \A k \in 1..follower.after : follower.seen[k] = events[k]
    /\ follower.pc = "chain" => follower.after < follower.high

ConvInv ==
    MessagesInv /\ RunsInv /\ (\A a \in answers : AnswerHolds(a)) /\ CallsInv /\ FollowerInv

-----------------------------------------------------------------------------
(* Chains of events                                                          *)

(* The first n elements.                                                     *)
LEMMA FirstPart ==
    ASSUME NEW S, NEW es \in Seq(S), NEW n \in 0..Len(es)
    PROVE  /\ SubSeq(es, 1, n) \in Seq(S) /\ Len(SubSeq(es, 1, n)) = n
           /\ \A k \in 1..n : SubSeq(es, 1, n)[k] = es[k]
<1>1. Len(es) \in Nat /\ n \in Int /\ n >= 0
  BY LenProperties
<1>2. \A k \in 1..n : es[k] \in S
  BY <1>1, ElementOfSeq
<1>3. PICK m \in Int : m = 1
  OBVIOUS
<1>4. \A k \in m..n : es[k] \in S
  BY <1>2, <1>3
<1>5. /\ SubSeq(es, m, n) \in Seq(S) /\ Len(SubSeq(es, m, n)) = IF m <= n THEN n - m + 1 ELSE 0
      /\ \A k \in 1..(n - m + 1) : SubSeq(es, m, n)[k] = es[m + k - 1]
  BY <1>1, <1>4, SubSeqProperties
<1>6. IF m <= n THEN n - m + 1 = n ELSE n = 0
  BY <1>1, <1>3
<1>7. n - m + 1 = n /\ \A k \in 1..n : m + k - 1 = k
  BY <1>1, <1>3
<1>8. Len(SubSeq(es, m, n)) = n /\ \A k \in 1..n : SubSeq(es, m, n)[k] = es[k]
  BY <1>5, <1>6, <1>7
<1>. QED
  BY <1>3, <1>5, <1>8

(* A first part of a valid chain is valid: no page is refused as corrupt.    *)
LEMMA PrefixValid ==
    ASSUME NEW S, NEW es \in Seq(S), ChainValid(es), NEW n \in 0..Len(es),
           NEW fs, fs = SubSeq(es, 1, n)
    PROVE  fs \in Seq(S) /\ Len(fs) = n /\ ChainValid(fs)
<1>1. Len(es) \in Nat /\ DOMAIN es = 1..Len(es) /\ n \in Nat /\ n <= Len(es)
  BY LenProperties
<1>2. /\ fs \in Seq(S) /\ Len(fs) = n /\ \A k \in 1..n : fs[k] = es[k]
  BY FirstPart
<1>3. DOMAIN fs = 1..n
  BY <1>2, LenProperties
<1>4. /\ es # <<>> => es[1].type = "started"
      /\ \A i \in 1..Len(es) :
            /\ es[i].type \in Terminal =>
                  /\ i = Len(es)
                  /\ \A j \in 1..i : es[j].type = "tool_requested" =>
                        Before(es, i, Finished, es[j].tool) # {}
            /\ \A j \in 1..(i - 1) :
                  /\ ~(es[i].type = "started" /\ es[j].type = "started")
                  /\ es[i].key # None => es[j].key # es[i].key
            /\ ToolStep(es, i)
  BY <1>1 DEF ChainValid
<1>5. fs # <<>> => fs[1].type = "started"
  <2>1. fs # <<>> => n # 0
    BY <1>2, EmptySeq
  <2>2. n # 0 => es # <<>> /\ 1 \in 1..n
    BY <1>1, EmptySeq
  <2>. QED
    BY <1>2, <1>4, <2>1, <2>2
<1>6. ASSUME NEW i \in 1..n
      PROVE  /\ i \in 1..Len(es) /\ fs[i] = es[i] /\ \A j \in 1..(i - 1) : fs[j] = es[j]
             /\ \A j \in 1..i : fs[j] = es[j]
             /\ \A types, tool : Before(fs, i, types, tool) = Before(es, i, types, tool)
  <2>1. i \in 1..Len(es) /\ \A j \in 1..i : j \in 1..n
    BY <1>1
  <2>2. \A types, tool : Before(fs, i, types, tool) = Before(es, i, types, tool)
    <3>1. \A j \in 1..(i - 1) : fs[j] = es[j]
      BY <1>2, <2>1
    <3>. QED
      BY <3>1 DEF Before
  <2>. QED
    BY <1>2, <2>1, <2>2
<1>7. ASSUME NEW i \in 1..n, fs[i].type \in Terminal
      PROVE  /\ i = Len(fs)
             /\ \A j \in 1..i : fs[j].type = "tool_requested" =>
                   Before(fs, i, Finished, fs[j].tool) # {}
  <2>1. i = Len(es)
    BY <1>4, <1>6, <1>7
  <2>2. i = n
    <3>1. i \in Int /\ i <= n
      BY <1>1
    <3>2. n <= i
      BY <1>1, <2>1
    <3>. QED
      BY <1>1, <3>1, <3>2
  <2>3. \A j \in 1..i : es[j].type = "tool_requested" => Before(es, i, Finished, es[j].tool) # {}
    BY <1>4, <1>6, <1>7
  <2>4. \A j \in 1..i : fs[j] = es[j]
    BY <1>6
  <2>5. \A tool : Before(fs, i, Finished, tool) = Before(es, i, Finished, tool)
    BY <1>6
  <2>. QED
    BY <1>2, <2>2, <2>3, <2>4, <2>5
<1>8. ASSUME NEW i \in 1..n, NEW j \in 1..(i - 1)
      PROVE  /\ ~(fs[i].type = "started" /\ fs[j].type = "started")
             /\ fs[i].key # None => fs[j].key # fs[i].key
  BY <1>4, <1>6
<1>9. ASSUME NEW i \in 1..n PROVE ToolStep(fs, i)
  <2>1. ToolStep(es, i)
    BY <1>4, <1>6
  <2>2. /\ fs[i] = es[i] /\ \A j \in 1..(i - 1) : fs[j] = es[j]
        /\ \A types, tool : Before(fs, i, types, tool) = Before(es, i, types, tool)
    BY <1>6
  <2>3. \A types, tool : \A j \in Before(fs, i, types, tool) : j \in 1..(i - 1)
    BY DEF Before
  <2>. QED
    BY <2>1, <2>2, <2>3 DEF ToolStep
<1>. QED
  BY <1>2, <1>3, <1>5, <1>7, <1>8, <1>9 DEF ChainValid

(* The decision of a tool event is that of the one request for its tool.     *)
LEMMA RequestOf ==
    ASSUME NEW es \in Seq(EventRecords), ChainValid(es), NEW i \in DOMAIN es,
           es[i].type \in ToolTypes \cup {"approval_required"}
    PROVE  \E r \in DOMAIN es : /\ r <= i /\ es[r].type = "tool_requested"
                                /\ es[r].tool = es[i].tool /\ es[r].decision = es[i].decision
<1>1. Len(es) \in Nat /\ DOMAIN es = 1..Len(es) /\ i \in 1..Len(es) /\ i \in Int
  BY LenProperties
<1>2. ToolStep(es, i)
  BY DEF ChainValid
<1>3. CASE es[i].type = "tool_requested"
  BY <1>1, <1>3
<1>4. CASE es[i].type # "tool_requested"
  <2>. DEFINE rs == Before(es, i, {"tool_requested"}, es[i].tool)
  <2>1. rs # {} /\ \A j \in rs : es[j].decision = es[i].decision
    BY <1>2, <1>4 DEF ToolStep, ToolTypes
  <2>2. PICK r \in rs : TRUE
    BY <2>1
  <2>3. /\ r \in 1..(i - 1) /\ es[r].type = "tool_requested" /\ es[r].tool = es[i].tool
    BY <2>2 DEF Before
  <2>4. r \in 1..Len(es) /\ r <= i
    BY <1>1, <2>3
  <2>. QED
    BY <1>1, <2>1, <2>2, <2>3, <2>4
<1>. QED
  BY <1>3, <1>4

(* A decision is requested once, and so is a tool call.                      *)
LEMMA OneRequest ==
    ASSUME NEW es \in Seq(EventRecords), ChainValid(es), NEW i \in DOMAIN es, NEW j \in DOMAIN es,
           es[i].type = "tool_requested", es[j].type = "tool_requested",
           es[i].decision = es[j].decision \/ es[i].tool = es[j].tool
    PROVE  i = j
<1>1. Len(es) \in Nat /\ DOMAIN es = 1..Len(es) /\ i \in 1..Len(es) /\ j \in 1..Len(es)
  BY LenProperties
<1>2. ToolStep(es, i) /\ ToolStep(es, j)
  BY DEF ChainValid
<1>3. ASSUME NEW k \in 1..Len(es), NEW l \in 1..Len(es), k < l, ToolStep(es, l),
             es[k].type = "tool_requested", es[l].type = "tool_requested"
      PROVE  es[k].decision # es[l].decision /\ es[k].tool # es[l].tool
  <2>1. k \in 1..(l - 1)
    BY <1>1, <1>3
  <2>2. /\ Before(es, l, {"tool_requested"}, es[l].tool) = {}
        /\ \A x \in 1..(l - 1) : es[x].type = "tool_requested" => es[x].decision # es[l].decision
    BY <1>3 DEF ToolStep
  <2>3. es[k].tool # es[l].tool
    BY <1>3, <2>1, <2>2 DEF Before
  <2>. QED
    BY <1>3, <2>1, <2>2, <2>3
<1>4. ~(i < j)
  BY <1>1, <1>2, <1>3
<1>5. ~(j < i)
  BY <1>1, <1>2, <1>3
<1>. QED
  BY <1>1, <1>4, <1>5

(* A tool call without an event.                                             *)
LEMMA StepsNone ==
    ASSUME NEW t, Steps(t) = {} PROVE StepsAre(t, <<>>)
<1>. DEFINE pos == [k \in DOMAIN <<>> |-> 1]
<1>1. DOMAIN <<>> = {}
  OBVIOUS
<1>2. pos \in [DOMAIN <<>> -> DOMAIN events]
  BY <1>1
<1>3. Steps(t) = {pos[k] : k \in DOMAIN <<>>}
  BY <1>1
<1>. HIDE DEF pos
<1>. QED
  BY <1>1, <1>2, <1>3 DEF StepsAre

(* One event.                                                                *)
LEMMA StepsOne ==
    ASSUME NEW t, NEW r \in DOMAIN events, Steps(t) = {r}
    PROVE  StepsAre(t, <<events[r].type>>)
<1>. DEFINE pos == <<r>>
            types == <<events[r].type>>
<1>1. /\ DOMAIN types = {1} /\ types[1] = events[r].type
      /\ DOMAIN pos = {1} /\ pos[1] = r
  OBVIOUS
<1>2. pos \in [DOMAIN types -> DOMAIN events]
  BY <1>1
<1>. HIDE DEF pos, types
<1>3. Steps(t) = {pos[k] : k \in DOMAIN types}
  BY <1>1
<1>4. StepsAre(t, types)
  BY <1>1, <1>2, <1>3 DEF StepsAre
<1>. QED
  BY <1>4 DEF types

(* Two of them.                                                              *)
LEMMA StepsTwo ==
    ASSUME NEW t, NEW r \in DOMAIN events, NEW s \in DOMAIN events, Steps(t) = {r, s}, r < s
    PROVE  StepsAre(t, <<events[r].type, events[s].type>>)
<1>. DEFINE pos == <<r, s>>
            types == <<events[r].type, events[s].type>>
<1>1. /\ DOMAIN types = {1, 2} /\ types[1] = events[r].type /\ types[2] = events[s].type
      /\ DOMAIN pos = {1, 2} /\ pos[1] = r /\ pos[2] = s
  OBVIOUS
<1>2. pos \in [DOMAIN types -> DOMAIN events]
  BY <1>1
<1>. HIDE DEF pos, types
<1>3. Steps(t) = {pos[k] : k \in DOMAIN types}
  BY <1>1
<1>4. \A k, l \in DOMAIN types : k < l => pos[k] < pos[l]
  BY <1>1
<1>5. StepsAre(t, types)
  BY <1>1, <1>2, <1>3, <1>4 DEF StepsAre
<1>. QED
  BY <1>5 DEF types

(* Three of them.                                                            *)
LEMMA StepsThree ==
    ASSUME NEW t, NEW r \in DOMAIN events, NEW s \in DOMAIN events, NEW f \in DOMAIN events,
           Steps(t) = {r, s, f}, r < s, s < f, r < f
    PROVE  StepsAre(t, <<events[r].type, events[s].type, events[f].type>>)
<1>. DEFINE pos == <<r, s, f>>
            types == <<events[r].type, events[s].type, events[f].type>>
<1>1. /\ DOMAIN types = {1, 2, 3} /\ types[1] = events[r].type /\ types[2] = events[s].type
      /\ types[3] = events[f].type
      /\ DOMAIN pos = {1, 2, 3} /\ pos[1] = r /\ pos[2] = s /\ pos[3] = f
  OBVIOUS
<1>2. pos \in [DOMAIN types -> DOMAIN events]
  BY <1>1
<1>. HIDE DEF pos, types
<1>3. Steps(t) = {pos[k] : k \in DOMAIN types}
  BY <1>1
<1>4. \A k, l \in DOMAIN types : k < l => pos[k] < pos[l]
  BY <1>1
<1>5. StepsAre(t, types)
  BY <1>1, <1>2, <1>3, <1>4 DEF StepsAre
<1>. QED
  BY <1>5 DEF types

(* The events of a tool call: closed exactly when one of them finishes it.   *)
LEMMA CallSteps ==
    ASSUME events \in Seq(EventRecords), ChainValid(events), NEW t
    PROVE  IF Steps(t) = {} \/ \E f \in Steps(t) : events[f].type \in Finished
           THEN \E types \in ClosedCalls : StepsAre(t, types)
           ELSE \E types \in OpenCalls : StepsAre(t, types)
<1>. DEFINE S == Steps(t)
<1>1. Len(events) \in Nat /\ DOMAIN events = 1..Len(events)
  BY LenProperties
<1>2. \A i \in S : /\ i \in DOMAIN events /\ i \in Int /\ events[i].tool = t
                   /\ events[i].type \in ToolTypes
  BY <1>1 DEF Steps
<1>3. \A i \in DOMAIN events : events[i].tool = t /\ events[i].type \in ToolTypes => i \in S
  BY DEF Steps
<1>. HIDE DEF S
<1>4. CASE S = {}
  <2>1. StepsAre(t, <<>>)
    BY <1>4, StepsNone DEF S
  <2>. QED
    BY <1>4, <2>1 DEF ClosedCalls, S
<1>5. CASE S # {}
  <2>1. PICK x \in S : TRUE
    BY <1>5
  <2>2. PICK r \in DOMAIN events : events[r].type = "tool_requested" /\ events[r].tool = t
    BY <1>2, <2>1, RequestOf
  <2>3. r \in S /\ r \in Int
    BY <1>1, <1>3, <2>2 DEF ToolTypes
  <2>4. \A i \in S : events[i].type = "tool_requested" => i = r
    BY <1>2, <2>2, OneRequest
  <2>5. ASSUME NEW i \in S, i # r PROVE r < i /\ events[i].type # "tool_requested"
    <3>1. PICK q \in DOMAIN events : /\ q <= i /\ events[q].type = "tool_requested"
                                     /\ events[q].tool = t
      BY <1>2, RequestOf
    <3>2. q \in S
      BY <1>3, <3>1 DEF ToolTypes
    <3>3. q = r
      BY <2>4, <3>1, <3>2
    <3>. QED
      BY <1>2, <2>3, <2>4, <2>5, <3>1, <3>3
  <2>6. ASSUME NEW i \in S, i # r
        PROVE  /\ \A j \in S : j < i => events[j].type \notin Finished
               /\ events[i].type \in {"tool_started", "tool_blocked"} =>
                     \A j \in S : j < i => events[j].type # "tool_started"
               /\ events[i].type = "tool_result" =>
                     \E j \in S : j < i /\ events[j].type = "tool_started"
               /\ events[i].type \in {"tool_started", "tool_blocked", "tool_result"}
    <3>1. ToolStep(events, i) /\ events[i].tool = t
      BY <1>2 DEF ChainValid
    <3>2. events[i].type \in {"tool_started", "tool_blocked", "tool_result"}
      BY <1>2, <2>5, <2>6 DEF ToolTypes
    <3>3. /\ Before(events, i, Finished, t) = {}
          /\ events[i].type \in {"tool_started", "tool_blocked"} =>
                Before(events, i, {"tool_started"}, t) = {}
          /\ events[i].type = "tool_result" => Before(events, i, {"tool_started"}, t) # {}
      BY <3>1, <3>2 DEF ToolStep, ToolTypes
    <3>4. \A j \in S : j < i => j \in 1..(i - 1) /\ events[j].tool = t
      BY <1>1, <1>2
    <3>5. \A j \in S : j < i => events[j].type \notin Finished
      BY <3>3, <3>4 DEF Before
    <3>6. events[i].type \in {"tool_started", "tool_blocked"} =>
             \A j \in S : j < i => events[j].type # "tool_started"
      BY <3>3, <3>4 DEF Before
    <3>7. ASSUME events[i].type = "tool_result"
          PROVE  \E j \in S : j < i /\ events[j].type = "tool_started"
      <4>1. PICK j \in Before(events, i, {"tool_started"}, t) : TRUE
        BY <3>3, <3>7
      <4>2. j \in 1..(i - 1) /\ events[j].type = "tool_started" /\ events[j].tool = t
        BY <4>1 DEF Before
      <4>3. j < i /\ j \in DOMAIN events
        BY <1>1, <1>2, <4>2
      <4>4. j \in S
        BY <1>3, <4>2, <4>3 DEF ToolTypes
      <4>. QED
        BY <4>2, <4>3, <4>4
    <3>. QED
      BY <3>2, <3>5, <3>6, <3>7
  <2>7. \A i, j \in S : i # j => i < j \/ j < i
    BY <1>2
  <2>8. \A i, j \in S : events[i].type = "tool_started" /\ events[j].type = "tool_started" => i = j
    BY <2>2, <2>6, <2>7
  <2>9. \A i, j \in S : events[i].type \in Finished /\ events[j].type \in Finished => i = j
    BY <2>2, <2>6, <2>7 DEF Finished
  <2>10. CASE \E f \in S : events[f].type \in Finished
    <3>1. PICK f \in S : events[f].type \in Finished
      BY <2>10
    <3>2. f # r /\ r < f /\ f \in DOMAIN events
      BY <1>2, <2>2, <2>5, <3>1 DEF Finished
    <3>3. \A i \in S : i = r \/ i = f \/ events[i].type = "tool_started"
      BY <2>6, <2>9, <3>1 DEF Finished
    <3>4. \A i \in S : events[i].type = "tool_started" => i < f /\ i # r /\ i # f
      <4>1. ASSUME NEW i \in S, events[i].type = "tool_started" PROVE i < f /\ i # r /\ i # f
        <5>1. i # r /\ i # f
          BY <2>2, <3>1, <4>1 DEF Finished
        <5>2. ~(f < i)
          BY <2>6, <3>1, <5>1
        <5>. QED
          BY <2>7, <5>1, <5>2
      <4>. QED
        BY <4>1
    <3>5. CASE events[f].type = "tool_blocked"
      <4>1. \A i \in S : events[i].type # "tool_started"
        BY <2>6, <3>2, <3>4, <3>5
      <4>2. S = {r, f}
        BY <2>3, <3>1, <3>3, <4>1
      <4>3. StepsAre(t, <<events[r].type, events[f].type>>)
        BY <2>2, <3>2, <4>2, StepsTwo DEF S
      <4>4. StepsAre(t, <<"tool_requested", "tool_blocked">>)
        BY <2>2, <3>5, <4>3
      <4>. QED
        BY <2>10, <4>4 DEF ClosedCalls, S
    <3>6. CASE events[f].type = "tool_result"
      <4>1. PICK s \in S : s < f /\ events[s].type = "tool_started"
        BY <2>6, <3>2, <3>6
      <4>2. s # r /\ r < s /\ s \in DOMAIN events
        BY <1>2, <2>5, <3>4, <4>1
      <4>3. S = {r, s, f}
        BY <2>3, <2>8, <3>1, <3>3, <4>1
      <4>4. StepsAre(t, <<events[r].type, events[s].type, events[f].type>>)
        BY <2>2, <3>2, <4>1, <4>2, <4>3, StepsThree DEF S
      <4>5. StepsAre(t, <<"tool_requested", "tool_started", "tool_result">>)
        BY <2>2, <3>6, <4>1, <4>4
      <4>. QED
        BY <2>10, <4>5 DEF ClosedCalls, S
    <3>. QED
      BY <3>1, <3>5, <3>6 DEF Finished
  <2>11. CASE ~\E f \in S : events[f].type \in Finished
    <3>1. \A i \in S : i = r \/ events[i].type = "tool_started"
      BY <2>6, <2>11 DEF Finished
    <3>2. CASE \E s \in S : events[s].type = "tool_started"
      <4>1. PICK s \in S : events[s].type = "tool_started"
        BY <3>2
      <4>2. s # r /\ r < s /\ s \in DOMAIN events
        BY <1>2, <2>2, <2>5, <4>1
      <4>3. S = {r, s}
        BY <2>3, <2>8, <3>1, <4>1
      <4>4. StepsAre(t, <<events[r].type, events[s].type>>)
        BY <2>2, <4>2, <4>3, StepsTwo DEF S
      <4>5. StepsAre(t, <<"tool_requested", "tool_started">>)
        BY <2>2, <4>1, <4>4
      <4>. QED
        BY <1>5, <2>11, <4>5 DEF OpenCalls, S
    <3>3. CASE ~\E s \in S : events[s].type = "tool_started"
      <4>1. S = {r}
        BY <2>3, <3>1, <3>3
      <4>2. StepsAre(t, <<events[r].type>>)
        BY <2>2, <4>1, StepsOne DEF S
      <4>3. StepsAre(t, <<"tool_requested">>)
        BY <2>2, <4>2
      <4>. QED
        BY <1>5, <2>11, <4>3 DEF OpenCalls, S
    <3>. QED
      BY <3>2, <3>3
  <2>. QED
    BY <2>10, <2>11
<1>. QED
  BY <1>4, <1>5

(* A valid chain keeps the protocol of tool calls.                           *)
LEMMA ChainKeepsProtocol ==
    ASSUME events \in Seq(EventRecords), ChainValid(events)
    PROVE  ToolProtocol
<1>1. Len(events) \in Nat /\ DOMAIN events = 1..Len(events)
  BY LenProperties
<1>2. ASSUME NEW t \in Tools
      PROVE  \E types \in ClosedCalls \cup OpenCalls : StepsAre(t, types)
  BY CallSteps
<1>3. ASSUME NEW i \in DOMAIN events, events[i].type \in Terminal
      PROVE  i = Len(events) /\ \A t \in Tools : \E types \in ClosedCalls : StepsAre(t, types)
  <2>1. /\ i = Len(events)
        /\ \A j \in 1..i : events[j].type = "tool_requested" =>
              Before(events, i, Finished, events[j].tool) # {}
    BY <1>3 DEF ChainValid
  <2>2. ASSUME NEW t \in Tools, Steps(t) # {}
        PROVE  \E f \in Steps(t) : events[f].type \in Finished
    <3>1. PICK x \in Steps(t) : x \in DOMAIN events /\ events[x].tool = t
                                /\ events[x].type \in ToolTypes
      BY <2>2 DEF Steps
    <3>2. PICK r \in DOMAIN events : events[r].type = "tool_requested" /\ events[r].tool = t
      BY <3>1, RequestOf
    <3>3. Before(events, i, Finished, t) # {}
      BY <1>1, <2>1, <3>2
    <3>4. PICK f \in Before(events, i, Finished, t) : TRUE
      BY <3>3
    <3>5. f \in 1..(i - 1) /\ events[f].type \in Finished /\ events[f].tool = t
      BY <3>4 DEF Before
    <3>6. f \in DOMAIN events
      BY <1>1, <2>1, <3>5
    <3>. QED
      BY <3>5, <3>6 DEF Steps, Finished, ToolTypes
  <2>3. ASSUME NEW t \in Tools PROVE \E types \in ClosedCalls : StepsAre(t, types)
    BY <2>2, CallSteps
  <2>. QED
    BY <2>1, <2>3
<1>4. ASSUME NEW i \in DOMAIN events, NEW j \in DOMAIN events,
             events[i].decision # None, events[i].decision = events[j].decision
      PROVE  events[i].tool = events[j].tool
  <2>1. \A k \in DOMAIN events : events[k].decision # None =>
           events[k].type \in ToolTypes \cup {"approval_required"}
    <3>1. \A k \in DOMAIN events : events[k] \in EventRecords
      BY <1>1, ElementOfSeq
    <3>. QED
      BY <3>1 DEF EventRecords
  <2>2. PICK r \in DOMAIN events : /\ events[r].type = "tool_requested"
                                   /\ events[r].tool = events[i].tool
                                   /\ events[r].decision = events[i].decision
    BY <1>4, <2>1, RequestOf
  <2>3. PICK q \in DOMAIN events : /\ events[q].type = "tool_requested"
                                   /\ events[q].tool = events[j].tool
                                   /\ events[q].decision = events[j].decision
    BY <1>4, <2>1, RequestOf
  <2>4. r = q
    BY <1>4, <2>2, <2>3, OneRequest
  <2>. QED
    BY <2>2, <2>3, <2>4
<1>. QED
  BY <1>2, <1>3, <1>4 DEF ToolProtocol

(* What a request of each kind is.                                           *)
LEMMA RequestKinds ==
    ASSUME workload \in Workloads, NEW op \in Requests
    PROVE  /\ op.kind = "create" => op.title \in Titles /\ workload = "thread"
           /\ op.kind = "archive" => op.expected \in Int /\ workload = "thread"
           /\ op.kind = "attach" => workload = "thread"
           /\ op.kind = "message" => op.files \subseteq {"f1"} /\ workload = "thread"
           /\ op.kind = "event" => Body(op) \in EventRecords /\ workload = "event"
           /\ op.kind = "run" => workload = "artifact"
           /\ op.kind = "artifact" => op.id \notin op.parents /\ workload = "artifact"
<1>1. CASE workload = "thread"
  <2>1. op \in ThreadOps \cup AttachmentOps \cup MessageOps
    BY <1>1 DEF Requests
  <2>. QED
    BY <1>1, <2>1 DEF ThreadOps, AttachmentOps, MessageOps
<1>2. CASE workload = "event"
  <2>1. op \in EventOps
    BY <1>2 DEF Requests
  <2>2. op.kind = "event"
    BY <2>1 DEF EventOps
  <2>3. Body(op) = [type |-> op.type, key |-> op.key, tool |-> op.tool, decision |-> op.decision]
    BY DEF Body
  <2>4. Body(op) \in EventRecords
    BY <2>1, <2>3 DEF EventOps, EventRecords
  <2>. QED
    BY <1>2, <2>2, <2>4
<1>3. CASE workload = "artifact"
  <2>1. op \in RunOps \cup ArtifactOps
    BY <1>3 DEF Requests
  <2>2. op.kind = "run" \/ (op.kind = "artifact" /\ op.id \notin op.parents)
    BY <2>1 DEF RunOps, ArtifactOps
  <2>. QED
    BY <1>3, <2>2
<1>. QED
  BY <1>1, <1>2, <1>3 DEF Workloads

(* The next number is one more than there are messages.                      *)
LEMMA NextIsFree ==
    ASSUME MessagesInv
    PROVE  NextSequence = Cardinality(messages) + 1 /\ Cardinality(messages) \in Nat
<1>. DEFINE n == Cardinality(messages)
            S == {m.seq : m \in messages} \cup {0}
<1>1. n \in Nat
  BY FS_CardinalityType DEF MessagesInv
<1>2. {m.seq : m \in messages} = 1..n
  BY DEF MessagesInv, MessagesContiguous
<1>3. S = 0..n
  BY <1>1, <1>2
<1>4. Max(S) = CHOOSE x \in S : \A y \in S : x >= y
  BY DEF Max
<1>. HIDE DEF S
<1>5. n \in S /\ \A y \in S : n >= y
  BY <1>1, <1>3
<1>6. \A x \in S : (\A y \in S : x >= y) => x = n
  BY <1>1, <1>3
<1>7. Max(S) = n
  BY <1>4, <1>5, <1>6
<1>. QED
  BY <1>1, <1>7 DEF NextSequence, S

-----------------------------------------------------------------------------
(* The invariant                                                             *)

(* It holds of a new workspace, of a run just created and of one that has    *)
(* started.                                                                  *)
LEMMA ConvInitInv == ConvInit => ConvInv
<1>. SUFFICES ASSUME ConvInit PROVE ConvInv
  OBVIOUS
<1>1. /\ dialect \in Dialects /\ workload \in Workloads
      /\ member = [version |-> 1, active |-> TRUE]
      /\ thread = IF workload # "thread" THEN <<[title |-> "one", status |-> "active"]>> ELSE <<>>
      /\ messages = IF workload # "thread" THEN {[seq |-> 1, key |-> None, files |-> {}]} ELSE {}
      /\ runs = IF workload # "thread" THEN {[id |-> "r1", key |-> None, parent |-> None]} ELSE {}
      /\ events = IF workload = "artifact"
                  THEN <<[type |-> "started", key |-> None, tool |-> None, decision |-> None]>>
                  ELSE <<>>
      /\ attachments = {} /\ artifacts = {}
      /\ call = [c \in Callers |-> Idle] /\ answers = {}
      /\ follower = [pc |-> "idle", after |-> 0, high |-> 0, seen |-> <<>>]
  BY DEF ConvInit
<1>2. MessagesInv
  <2>1. thread \in Seq(ThreadVersions) /\ (thread = <<>> => workload = "thread")
    <3>1. CASE workload = "thread"
      BY <1>1, <3>1
    <3>2. CASE workload # "thread"
      <4>1. [title |-> "one", status |-> "active"] \in ThreadVersions
        BY DEF ThreadVersions, Titles
      <4>2. thread = <<[title |-> "one", status |-> "active"]>>
        BY <1>1, <3>2
      <4>. QED
        BY <3>2, <4>1, <4>2
    <3>. QED
      BY <3>1, <3>2
  <2>2. CASE messages = {}
    <3>1. IsFiniteSet(messages) /\ Cardinality(messages) = 0
      BY <2>2, FS_EmptySet
    <3>2. {m.seq : m \in messages} = 1..0
      BY <2>2
    <3>3. 0 <= MaxMessages
      BY ConversationBounds
    <3>. QED
      BY <2>1, <2>2, <3>1, <3>2, <3>3 DEF MessagesInv, MessagesContiguous
  <2>3. CASE messages = {[seq |-> 1, key |-> None, files |-> {}]} /\ workload # "thread"
    <3>1. IsFiniteSet(messages) /\ Cardinality(messages) = 1
      BY <2>3, FS_Singleton
    <3>2. {m.seq : m \in messages} = {1}
      BY <2>3
    <3>3. 1 <= MaxMessages /\ {1} = 1..1
      BY ConversationBounds
    <3>4. \A m \in messages : thread # <<>> /\ m.files \subseteq {a.id : a \in attachments}
      BY <2>1, <2>3
    <3>5. \A m, n \in messages : m.key = n.key => m = n
      BY <2>3
    <3>. QED
      BY <2>1, <3>1, <3>2, <3>3, <3>4, <3>5 DEF MessagesInv, MessagesContiguous
  <2>. QED
    BY <1>1, <2>2, <2>3
<1>3. RunsInv
  <2>1. RunsDistinct /\ \A r \in runs : r.parent = None \/ \E p \in runs : p.id = r.parent
    <3>1. CASE workload = "thread"
      BY <1>1, <3>1 DEF RunsDistinct
    <3>2. CASE workload # "thread"
      BY <1>1, <3>2 DEF RunsDistinct
    <3>. QED
      BY <3>1, <3>2
  <2>2. IF workload = "thread" THEN events = <<>> ELSE runs # {}
    BY <1>1
  <2>3. events \in Seq(EventRecords) /\ ChainValid(events)
    <3>1. CASE events = <<>>
      BY <3>1 DEF ChainValid
    <3>2. CASE events # <<>>
      <4>. DEFINE e == [type |-> "started", key |-> None, tool |-> None, decision |-> None]
      <4>1. events = <<e>>
        BY <1>1, <3>2
      <4>2. e \in EventRecords
        BY DEF EventRecords
      <4>3. e.type = "started"
        OBVIOUS
      <4>. HIDE DEF e
      <4>4. DOMAIN events = {1} /\ events[1] = e /\ Len(events) = 1 /\ events \in Seq(EventRecords)
        BY <4>1, <4>2
      <4>5. e.type \notin Terminal /\ e.type \notin ToolTypes \cup {"approval_required"}
        BY <4>3 DEF Terminal, ToolTypes
      <4>6. ToolStep(events, 1)
        BY <4>4, <4>5 DEF ToolStep, ToolTypes
      <4>7. \A j \in 1..(1 - 1) : FALSE
        OBVIOUS
      <4>. QED
        BY <4>3, <4>4, <4>5, <4>6, <4>7 DEF ChainValid
    <3>. QED
      BY <3>1, <3>2
  <2>4. LineageGrounded
    <3>1. artifacts = {} /\ \A S \in (SUBSET artifacts) \ {{}} : FALSE
      BY <1>1
    <3>. QED
      BY <3>1 DEF LineageGrounded
  <2>. QED
    BY <1>1, <2>1, <2>2, <2>3, <2>4 DEF RunsInv
<1>4. CallsInv
  <2>1. Len(thread) \in Nat
    BY <1>2, LenProperties DEF MessagesInv
  <2>2. call \in [Callers -> [pc : {"idle", "open"}, version : Nat, seen : Nat]]
    BY <1>1 DEF Idle
  <2>3. \A c \in Callers : call[c].pc = "idle" /\ call[c].seen = 0
    BY <1>1 DEF Idle
  <2>4. \A c \in Callers : call[c].seen <= Len(thread) /\ call[c].pc # "open"
    BY <2>1, <2>3
  <2>5. member.version \in Nat
    BY <1>1
  <2>. QED
    BY <2>2, <2>4, <2>5 DEF CallsInv
<1>5. FollowerInv
  <2>1. Len(events) \in Nat
    BY <1>3, LenProperties DEF RunsInv
  <2>2. 0 \in 0..Len(events) /\ <<>> \in Seq(EventRecords) /\ Len(<<>>) = 0
    BY <2>1
  <2>3. follower \in [pc : {"idle", "chain"}, after : 0..Len(events), high : 0..Len(events),
                      seen : Seq(EventRecords)]
    BY <1>1, <2>2
  <2>4. follower.after = 0 /\ follower.seen = <<>> /\ follower.pc = "idle"
    BY <1>1
  <2>. QED
    BY <2>2, <2>3, <2>4 DEF FollowerInv
<1>. QED
  BY <1>1, <1>2, <1>3, <1>4, <1>5 DEF ConvInv

(* What was there stays, messages and events among it.                       *)
RowsKept ==
    /\ Len(thread') >= Len(thread) /\ (thread # <<>> => thread' # <<>>)
    /\ messages \subseteq messages' /\ attachments \subseteq attachments'
    /\ events' \in Seq(EventRecords) /\ Len(events') >= Len(events)
    /\ \A k \in 1..Len(events) : events'[k] = events[k]

(* The end of a transaction leaves the calls in order.                       *)
LEMMA CloseKeepsCalls ==
    ASSUME ConvInv, RowsKept, NEW c \in Callers, NEW told, Close(c, told), thread' \in Seq(ThreadVersions)
    PROVE  CallsInv'
<1>1. CallsInv /\ Len(thread) \in Nat /\ Len(thread') \in Nat /\ Len(thread') >= Len(thread)
  BY LenProperties DEF ConvInv, MessagesInv, RowsKept
<1>2. call' = [call EXCEPT ![c] = Idle] /\ member' = member /\ dialect' = dialect
  BY DEF Close
<1>3. Idle \in [pc : {"idle", "open"}, version : Nat, seen : Nat] /\ Idle.pc = "idle" /\ Idle.seen = 0
  BY DEF Idle
<1>4. call' \in [Callers -> [pc : {"idle", "open"}, version : Nat, seen : Nat]]
  BY <1>1, <1>2, <1>3 DEF CallsInv
<1>5. \A d \in Callers : call'[d] = IF d = c THEN Idle ELSE call[d]
  BY <1>1, <1>2 DEF CallsInv
<1>6. \A d \in Callers : call'[d].seen <= Len(thread')
  <2>1. \A d \in Callers : call[d].seen <= Len(thread) /\ call[d].seen \in Nat
    BY <1>1 DEF CallsInv
  <2>. QED
    BY <1>1, <1>3, <1>5, <2>1
<1>7. \A d \in Callers : call'[d].pc = "open" => call'[d] = call[d] /\ call[d].pc = "open"
  BY <1>3, <1>5
<1>8. ASSUME dialect' = "sqlite"
      PROVE  /\ \A d, e \in Callers : call'[d].pc = "open" /\ call'[e].pc = "open" => d = e
             /\ \A d \in Callers : call'[d].pc = "open" =>
                   member'.active /\ call'[d].version = member'.version
  <2>1. /\ \A d, e \in Callers : call[d].pc = "open" /\ call[e].pc = "open" => d = e
        /\ \A d \in Callers : call[d].pc = "open" =>
              member.active /\ call[d].version = member.version
    BY <1>1, <1>2, <1>8 DEF CallsInv
  <2>. QED
    BY <1>2, <1>7, <2>1
<1>9. member'.version \in Nat
  BY <1>1, <1>2 DEF CallsInv
<1>. QED
  BY <1>4, <1>6, <1>8, <1>9 DEF CallsInv

(* An answer that named a row still does.                                    *)
LEMMA AnswersKept ==
    ASSUME ConvInv, RowsKept
    PROVE  \A a \in answers : AnswerHolds(a)'
<1>1. /\ Len(events) \in Nat /\ Len(events') \in Nat /\ Len(events') >= Len(events)
      /\ DOMAIN events = 1..Len(events) /\ DOMAIN events' = 1..Len(events')
  BY LenProperties DEF ConvInv, RunsInv, RowsKept
<1>2. \A k \in DOMAIN events : k \in DOMAIN events' /\ events'[k] = events[k]
  BY <1>1 DEF RowsKept
<1>3. \A m \in messages : m \in messages'
  BY DEF RowsKept
<1>. QED
  BY <1>2, <1>3 DEF ConvInv, AnswerHolds

(* What a follower has seen stays what it was.                               *)
LEMMA FollowerKept ==
    ASSUME ConvInv, RowsKept, follower' = follower
    PROVE  FollowerInv'
<1>1. Len(events) \in Nat /\ Len(events') \in Nat /\ Len(events') >= Len(events) /\ FollowerInv
  BY LenProperties DEF ConvInv, RunsInv, RowsKept
<1>2. /\ follower \in [pc : {"idle", "chain"}, after : 0..Len(events), high : 0..Len(events),
                       seen : Seq(EventRecords)]
      /\ Len(follower.seen) = follower.after
      /\ \A k \in 1..follower.after : follower.seen[k] = events[k]
      /\ follower.pc = "chain" => follower.after < follower.high
  BY <1>1 DEF FollowerInv
<1>3. \A k \in 0..Len(events) : k \in 0..Len(events')
  BY <1>1
<1>4. follower \in [pc : {"idle", "chain"}, after : 0..Len(events'), high : 0..Len(events'),
                    seen : Seq(EventRecords)]
  BY <1>2, <1>3
<1>5. \A k \in 1..follower.after : follower.seen[k] = events'[k]
  <2>1. follower.after \in 0..Len(events)
    BY <1>2
  <2>2. \A k \in 1..follower.after : k \in 1..Len(events)
    BY <1>1, <2>1
  <2>. QED
    BY <1>2, <2>2 DEF RowsKept
<1>. QED
  BY <1>2, <1>4, <1>5 DEF FollowerInv

(* The runs and their events, when none of them changes.                     *)
LEMMA RunsKept ==
    ASSUME RunsInv, UNCHANGED <<workload, runs, events, artifacts>>
    PROVE  RunsInv'
BY DEF RunsInv, RunsDistinct, LineageGrounded

(* The messages, when only the thread or the attachments grow.               *)
LEMMA MessagesKept ==
    ASSUME MessagesInv, RowsKept, messages' = messages, thread' \in Seq(ThreadVersions)
    PROVE  MessagesInv'
<1>1. MessagesContiguous'
  BY DEF MessagesInv, MessagesContiguous
<1>2. ASSUME NEW m \in messages
      PROVE  thread' # <<>> /\ m.files \subseteq {a.id : a \in attachments'}
  <2>1. thread # <<>> /\ m.files \subseteq {a.id : a \in attachments}
    BY DEF MessagesInv
  <2>2. {a.id : a \in attachments} \subseteq {a.id : a \in attachments'}
    BY DEF RowsKept
  <2>. QED
    BY <2>1, <2>2 DEF RowsKept
<1>. QED
  BY <1>1, <1>2 DEF MessagesInv

(* Rows that do not change are kept.                                         *)
LEMMA SameRowsKept ==
    ASSUME ConvInv, UNCHANGED rows
    PROVE  RowsKept /\ thread' \in Seq(ThreadVersions)
<1>1. Len(thread) \in Nat /\ Len(events) \in Nat
  BY LenProperties DEF ConvInv, MessagesInv, RunsInv
<1>. QED
  BY <1>1 DEF rows, RowsKept, ConvInv, MessagesInv, RunsInv

-----------------------------------------------------------------------------
(* Transactions on the thread                                                *)

(* Creating the thread.                                                      *)
LEMMA CreateThreadKeeps ==
    ASSUME ConvInv, NEW c \in Callers, NEW op \in Requests, CreateThread(c, op)
    PROVE  ConvInv'
<1>1. /\ op.kind = "create" /\ Close(c, {}) /\ answers' = answers /\ follower' = follower
      /\ UNCHANGED <<workload, attachments, messages, runs, events, artifacts>>
  BY DEF CreateThread, Open, Close
<1>2. op.title \in Titles
  BY <1>1, RequestKinds DEF ConvInv, RunsInv
<1>3. thread' = thread \/ (thread = <<>> /\ thread' = <<[title |-> op.title, status |-> "active"]>>)
  BY DEF CreateThread
<1>4. thread' \in Seq(ThreadVersions) /\ (thread # <<>> => thread' # <<>>)
  <2>1. [title |-> op.title, status |-> "active"] \in ThreadVersions
    BY <1>2 DEF ThreadVersions
  <2>2. CASE thread' = thread
    BY <2>2 DEF ConvInv, MessagesInv
  <2>3. CASE thread = <<>> /\ thread' = <<[title |-> op.title, status |-> "active"]>>
    BY <2>1, <2>3
  <2>. QED
    BY <1>3, <2>2, <2>3
<1>5. Len(thread') >= Len(thread)
  <2>1. Len(thread) \in Nat /\ Len(thread') \in Nat
    BY <1>4, LenProperties DEF ConvInv, MessagesInv
  <2>2. thread = <<>> => Len(thread) = 0
    OBVIOUS
  <2>. QED
    BY <1>3, <2>1, <2>2
<1>6. RowsKept
  <2>1. Len(events) \in Nat
    BY LenProperties DEF ConvInv, RunsInv
  <2>. QED
    BY <1>1, <1>4, <1>5, <2>1 DEF RowsKept, ConvInv, RunsInv
<1>. QED
  BY <1>1, <1>4, <1>6, CloseKeepsCalls, AnswersKept, FollowerKept, RunsKept, MessagesKept DEF ConvInv

(* Archiving it, also from a version that is not the last one any more.      *)
LEMMA ArchiveThreadKeeps ==
    ASSUME ConvInv, NEW c \in Callers, NEW op \in Requests, ArchiveThread(c, op)
    PROVE  ConvInv'
<1>1. /\ Close(c, {}) /\ answers' = answers /\ follower' = follower
      /\ UNCHANGED <<workload, attachments, messages, runs, events, artifacts>>
  BY DEF ArchiveThread, Close
<1>2. /\ thread \in Seq(ThreadVersions) /\ Len(thread) \in Nat /\ DOMAIN thread = 1..Len(thread)
      /\ call[c].seen \in Nat /\ call[c].seen <= Len(thread)
  BY LenProperties DEF ConvInv, MessagesInv, CallsInv
<1>. DEFINE seen == IF dialect = "sqlite" THEN Len(thread) ELSE call[c].seen
<1>3. \/ thread' = thread
      \/ /\ seen > 0 /\ seen + 1 > Len(thread)
         /\ thread' = Append(thread, [title |-> thread[seen].title, status |-> "archived"])
  BY DEF ArchiveThread
<1>4. seen \in Nat /\ seen <= Len(thread)
  BY <1>2
<1>. HIDE DEF seen
<1>5. /\ thread' \in Seq(ThreadVersions) /\ (thread # <<>> => thread' # <<>>)
      /\ Len(thread') >= Len(thread)
  <2>1. CASE thread' = thread
    BY <1>2, <2>1
  <2>2. CASE /\ seen > 0 /\ seen + 1 > Len(thread)
             /\ thread' = Append(thread, [title |-> thread[seen].title, status |-> "archived"])
    <3>1. seen \in 1..Len(thread)
      BY <1>2, <1>4, <2>2
    <3>2. thread[seen] \in ThreadVersions
      BY <1>2, <3>1, ElementOfSeq
    <3>3. [title |-> thread[seen].title, status |-> "archived"] \in ThreadVersions
      BY <3>2 DEF ThreadVersions
    <3>4. thread' \in Seq(ThreadVersions) /\ Len(thread') = Len(thread) + 1
      BY <1>2, <2>2, <3>3, AppendProperties
    <3>5. thread' # <<>>
      BY <1>2, <2>2, <3>3, AppendProperties
    <3>. QED
      BY <1>2, <3>4, <3>5
  <2>. QED
    BY <1>3, <2>1, <2>2
<1>6. RowsKept
  <2>1. Len(events) \in Nat
    BY LenProperties DEF ConvInv, RunsInv
  <2>. QED
    BY <1>1, <1>5, <2>1 DEF RowsKept, ConvInv, RunsInv
<1>. QED
  BY <1>1, <1>5, <1>6, CloseKeepsCalls, AnswersKept, FollowerKept, RunsKept, MessagesKept DEF ConvInv

(* An attachment.                                                            *)
LEMMA RegisterAttachmentKeeps ==
    ASSUME ConvInv, NEW c \in Callers, NEW op \in Requests, RegisterAttachment(c, op)
    PROVE  ConvInv'
<1>1. /\ Close(c, {}) /\ answers' = answers /\ follower' = follower
      /\ UNCHANGED <<workload, thread, messages, runs, events, artifacts>>
      /\ attachments \subseteq attachments'
  BY DEF RegisterAttachment, Close
<1>2. RowsKept /\ thread' \in Seq(ThreadVersions)
  <2>1. Len(events) \in Nat /\ Len(thread) \in Nat
    BY LenProperties DEF ConvInv, RunsInv, MessagesInv
  <2>. QED
    BY <1>1, <2>1 DEF RowsKept, ConvInv, RunsInv, MessagesInv
<1>. QED
  BY <1>1, <1>2, CloseKeepsCalls, AnswersKept, FollowerKept, RunsKept, MessagesKept DEF ConvInv

(* The message that is added takes the next number, under a new key.         *)
LEMMA MessageAdded ==
    ASSUME ConvInv, NEW op, op.files \subseteq {a.id : a \in attachments}, thread # <<>>,
           {m \in messages : m.key = op.key} = {}, Cardinality(messages) < MaxMessages,
           messages' = messages \cup {[seq |-> NextSequence, key |-> op.key, files |-> op.files]},
           UNCHANGED <<thread, attachments>>
    PROVE  MessagesInv'
<1>. DEFINE q == [seq |-> NextSequence, key |-> op.key, files |-> op.files]
            n == Cardinality(messages)
<1>1. /\ MessagesInv /\ IsFiniteSet(messages) /\ {m.seq : m \in messages} = 1..n
      /\ \A l, m \in messages : l.key = m.key => l = m
  BY DEF ConvInv, MessagesInv, MessagesContiguous
<1>2. NextSequence = n + 1 /\ n \in Nat
  BY <1>1, NextIsFree
<1>3. q.seq = n + 1 /\ q.key = op.key /\ q.files = op.files
  BY <1>2
<1>4. messages' = messages \cup {q} /\ \A m \in messages : m.key # op.key
  OBVIOUS
<1>. HIDE DEF q
<1>5. q \notin messages
  BY <1>3, <1>4
<1>6. IsFiniteSet(messages') /\ Cardinality(messages') = n + 1
  <2>1. IsFiniteSet(messages \cup {q}) /\ Cardinality(messages \cup {q}) = n + 1
    BY <1>1, <1>5, FS_AddElement
  <2>. QED
    BY <1>4, <2>1
<1>7. n + 1 <= MaxMessages
  BY <1>2, ConversationBounds
<1>8. {m.seq : m \in messages'} = 1..(n + 1)
  <2>1. {m.seq : m \in messages'} = {m.seq : m \in messages} \cup {q.seq}
    BY <1>4
  <2>2. (1..n) \cup {n + 1} = 1..(n + 1)
    BY <1>2
  <2>. QED
    BY <1>1, <1>3, <2>1, <2>2
<1>9. \A l, m \in messages' : l.key = m.key => l = m
  BY <1>1, <1>3, <1>4
<1>10. \A m \in messages' : thread' # <<>> /\ m.files \subseteq {a.id : a \in attachments'}
  <2>1. \A m \in messages : m.files \subseteq {a.id : a \in attachments}
    BY <1>1 DEF MessagesInv
  <2>. QED
    BY <1>3, <1>4, <2>1
<1>11. thread' \in Seq(ThreadVersions)
  BY <1>1 DEF MessagesInv
<1>. QED
  BY <1>6, <1>7, <1>8, <1>9, <1>10, <1>11 DEF MessagesInv, MessagesContiguous

(* Appending a message, or being told where it is.                           *)
LEMMA AppendMessageKeeps ==
    ASSUME ConvInv, NEW c \in Callers, NEW op \in Requests, AppendMessage(c, op)
    PROVE  ConvInv'
<1>. DEFINE old == {m \in messages : m.key = op.key}
            same == {m \in old : m.files = op.files}
<1>1. UNCHANGED <<thread, attachments, runs, events, artifacts>> /\ Len(events) \in Nat
      /\ Len(thread) \in Nat
  BY LenProperties DEF AppendMessage, ConvInv, MessagesInv, RunsInv
<1>2. messages \subseteq messages' => RowsKept /\ thread' \in Seq(ThreadVersions)
  BY <1>1 DEF RowsKept, ConvInv, MessagesInv, RunsInv
<1>3. CASE /\ UNCHANGED messages
           /\ \E told : Close(c, told) /\ \A a \in told : \E m \in messages :
                 a = [kind |-> "message", key |-> m.key, place |-> m.seq]
  <2>1. PICK told : Close(c, told) /\ \A a \in told : \E m \in messages :
                       a = [kind |-> "message", key |-> m.key, place |-> m.seq]
    BY <1>3
  <2>2. RowsKept /\ thread' \in Seq(ThreadVersions)
    BY <1>2, <1>3
  <2>3. \A a \in told : AnswerHolds(a)'
    BY <1>3, <2>1 DEF AnswerHolds
  <2>4. answers' = answers \cup told /\ follower' = follower /\ workload' = workload
    BY <2>1 DEF Close
  <2>5. \A a \in answers' : AnswerHolds(a)'
    BY <2>2, <2>3, <2>4, AnswersKept
  <2>. QED
    BY <1>1, <1>3, <2>1, <2>2, <2>4, <2>5, CloseKeepsCalls, FollowerKept, RunsKept, MessagesKept
       DEF ConvInv
<1>4. CASE /\ thread # <<>> /\ old = {} /\ Cardinality(messages) < MaxMessages
           /\ \A f \in op.files : \E a \in attachments : a.id = f
           /\ messages' = messages \cup {[seq |-> NextSequence, key |-> op.key, files |-> op.files]}
           /\ Close(c, Told("message", op.key, NextSequence))
  <2>. DEFINE told == Told("message", op.key, NextSequence)
  <2>1. op.files \subseteq {a.id : a \in attachments}
    BY <1>4
  <2>2. MessagesInv'
    BY <1>1, <1>4, <2>1, MessageAdded
  <2>3. RowsKept /\ thread' \in Seq(ThreadVersions)
    BY <1>2, <1>4
  <2>4. \A a \in told : AnswerHolds(a)'
    <3>. DEFINE place == NextSequence
                q == [seq |-> place, key |-> op.key, files |-> op.files]
    <3>1. q \in messages' /\ q.key = op.key /\ q.seq = place
      BY <1>4
    <3>2. \A a \in told : a = [kind |-> "message", key |-> op.key, place |-> place]
      BY DEF Told
    <3>. HIDE DEF place, q, told
    <3>3. ASSUME NEW a \in told PROVE AnswerHolds(a)'
      <4>1. a.kind = "message" /\ a.key = op.key /\ a.place = place
        BY <3>2
      <4>2. a = [kind |-> a.kind, key |-> a.key, place |-> a.place]
        BY <3>2, <4>1
      <4>. QED
        BY <3>1, <4>1, <4>2 DEF AnswerHolds
    <3>. QED
      BY <3>3
  <2>5. answers' = answers \cup told /\ follower' = follower /\ workload' = workload
    BY <1>4 DEF Close
  <2>6. \A a \in answers' : AnswerHolds(a)'
    BY <2>3, <2>4, <2>5, AnswersKept
  <2>. QED
    BY <1>1, <1>4, <2>2, <2>3, <2>5, <2>6, CloseKeepsCalls, FollowerKept, RunsKept DEF ConvInv
<1>5. \/ UNCHANGED messages /\ Close(c, UNION {Told("message", m.key, m.seq) : m \in same})
      \/ UNCHANGED messages /\ Close(c, {})
      \/ /\ thread # <<>> /\ old = {} /\ Cardinality(messages) < MaxMessages
         /\ \A f \in op.files : \E a \in attachments : a.id = f
         /\ messages' = messages \cup {[seq |-> NextSequence, key |-> op.key, files |-> op.files]}
         /\ Close(c, Told("message", op.key, NextSequence))
  BY DEF AppendMessage
<1>6. ASSUME NEW a \in UNION {Told("message", m.key, m.seq) : m \in same}
      PROVE  \E m \in messages : a = [kind |-> "message", key |-> m.key, place |-> m.seq]
  BY DEF Told
<1>. HIDE DEF old, same
<1>. QED
  BY <1>3, <1>4, <1>5, <1>6

-----------------------------------------------------------------------------
(* Transactions on runs                                                      *)

(* A run, or nothing when its key, its id or its parent does not fit.        *)
LEMMA CreateRunKeeps ==
    ASSUME ConvInv, NEW c \in Callers, NEW op \in Requests, CreateRun(c, op)
    PROVE  ConvInv'
<1>. DEFINE q == [id |-> op.id, key |-> op.key, parent |-> op.parent]
<1>1. /\ Close(c, {}) /\ answers' = answers /\ follower' = follower /\ workload' = workload
      /\ UNCHANGED <<thread, attachments, messages, events, artifacts>>
  BY DEF CreateRun, Close
<1>2. RowsKept /\ thread' \in Seq(ThreadVersions)
  <2>1. Len(events) \in Nat /\ Len(thread) \in Nat
    BY LenProperties DEF ConvInv, RunsInv, MessagesInv
  <2>. QED
    BY <1>1, <2>1 DEF RowsKept, ConvInv, RunsInv, MessagesInv
<1>3. \/ runs' = runs
      \/ /\ runs' = runs \cup {q}
         /\ \A r \in runs : r.key # op.key /\ r.id # op.id
         /\ op.parent = None \/ \E r \in runs : r.id = op.parent
  BY DEF CreateRun
<1>4. q.id = op.id /\ q.key = op.key /\ q.parent = op.parent
  OBVIOUS
<1>. HIDE DEF q
<1>5. RunsInv /\ RunsDistinct /\ \A r \in runs : r.parent = None \/ \E p \in runs : p.id = r.parent
  BY DEF ConvInv, RunsInv
<1>6. RunsDistinct' /\ (runs # {} => runs' # {})
  BY <1>3, <1>4, <1>5 DEF RunsDistinct
<1>7. \A r \in runs' : r.parent = None \/ \E p \in runs' : p.id = r.parent
  BY <1>3, <1>4, <1>5
<1>8. LineageGrounded'
  BY <1>1, <1>5 DEF RunsInv, LineageGrounded
<1>9. RunsInv'
  BY <1>1, <1>5, <1>6, <1>7, <1>8 DEF RunsInv
<1>. QED
  BY <1>1, <1>2, <1>9, CloseKeepsCalls, AnswersKept, FollowerKept, MessagesKept DEF ConvInv

(* An artifact: its parents are there before it, so lineage stays grounded.  *)
LEMMA RecordArtifactKeeps ==
    ASSUME ConvInv, NEW c \in Callers, NEW op \in Requests, RecordArtifact(c, op)
    PROVE  ConvInv'
<1>. DEFINE q == [id |-> op.id, event |-> op.event, parents |-> op.parents]
<1>1. /\ Close(c, {}) /\ answers' = answers /\ follower' = follower /\ workload' = workload
      /\ UNCHANGED <<thread, attachments, messages, runs, events>> /\ op.kind = "artifact"
  BY DEF RecordArtifact, Close, Open
<1>2. RowsKept /\ thread' \in Seq(ThreadVersions)
  <2>1. Len(events) \in Nat /\ Len(thread) \in Nat
    BY LenProperties DEF ConvInv, RunsInv, MessagesInv
  <2>. QED
    BY <1>1, <2>1 DEF RowsKept, ConvInv, RunsInv, MessagesInv
<1>3. op.id \notin op.parents
  BY <1>1, RequestKinds DEF ConvInv, RunsInv
<1>4. \/ artifacts' = artifacts
      \/ /\ artifacts' = artifacts \cup {q}
         /\ op.event \in DOMAIN events /\ \A p \in op.parents : \E a \in artifacts : a.id = p
         /\ \A a \in artifacts : a.id # op.id
  BY DEF RecordArtifact, ArtifactRooted
<1>5. q.id = op.id /\ q.event = op.event /\ q.parents = op.parents
  OBVIOUS
<1>. HIDE DEF q
<1>6. /\ RunsInv
      /\ \A a \in artifacts : a.event \in DOMAIN events /\ a.parents \subseteq {b.id : b \in artifacts}
      /\ \A S \in (SUBSET artifacts) \ {{}} : \E a \in S : a.parents \cap {b.id : b \in S} = {}
  BY DEF ConvInv, RunsInv, LineageGrounded
<1>7. CASE artifacts' = artifacts
  <2>1. RunsInv'
    BY <1>1, <1>6, <1>7, RunsKept
  <2>. QED
    BY <1>1, <1>2, <2>1, CloseKeepsCalls, AnswersKept, FollowerKept, MessagesKept DEF ConvInv
<1>8. CASE /\ artifacts' = artifacts \cup {q}
           /\ op.event \in DOMAIN events /\ \A p \in op.parents : \E a \in artifacts : a.id = p
           /\ \A a \in artifacts : a.id # op.id
  <2>1. \A a \in artifacts' : /\ a.event \in DOMAIN events'
                              /\ a.parents \subseteq {b.id : b \in artifacts'}
    BY <1>1, <1>5, <1>6, <1>8
  <2>2. ASSUME NEW S \in (SUBSET artifacts') \ {{}}
        PROVE  \E a \in S : a.parents \cap {b.id : b \in S} = {}
    <3>. DEFINE T == S \ {q}
    <3>1. CASE T = {}
      <4>1. S = {q}
        BY <3>1
      <4>2. {b.id : b \in S} = {op.id}
        BY <1>5, <4>1
      <4>. QED
        BY <1>3, <1>5, <4>1, <4>2
    <3>2. CASE T # {}
      <4>1. T \in (SUBSET artifacts) \ {{}}
        BY <1>8, <3>2
      <4>2. PICK a \in T : a.parents \cap {b.id : b \in T} = {}
        BY <1>6, <4>1
      <4>3. a \in S /\ a \in artifacts
        BY <4>1, <4>2
      <4>4. op.id \notin a.parents
        BY <1>6, <1>8, <4>3
      <4>5. {b.id : b \in S} \subseteq {b.id : b \in T} \cup {op.id}
        BY <1>5
      <4>. QED
        BY <4>2, <4>3, <4>4, <4>5
    <3>. QED
      BY <3>1, <3>2
  <2>3. LineageGrounded'
    BY <2>1, <2>2 DEF LineageGrounded
  <2>4. RunsInv'
    BY <1>1, <1>6, <2>3 DEF RunsInv, RunsDistinct
  <2>. QED
    BY <1>1, <1>2, <2>4, CloseKeepsCalls, AnswersKept, FollowerKept, MessagesKept DEF ConvInv
<1>. QED
  BY <1>4, <1>7, <1>8

(* Appending an event, or being told where it is.                            *)
LEMMA AppendEventKeeps ==
    ASSUME ConvInv, NEW c \in Callers, NEW op \in Requests, AppendEvent(c, op)
    PROVE  ConvInv'
<1>. DEFINE e == Body(op)
            old == {i \in DOMAIN events : e.key # None /\ events[i].key = e.key}
<1>1. /\ UNCHANGED <<thread, attachments, messages, runs, artifacts>> /\ op.kind = "event"
      /\ Len(events) \in Nat /\ DOMAIN events = 1..Len(events) /\ events \in Seq(EventRecords)
      /\ Len(thread) \in Nat
  BY LenProperties DEF AppendEvent, ConvInv, MessagesInv, RunsInv, Open
<1>2. \/ /\ UNCHANGED events
         /\ Close(c, UNION {Told("event", e.key, i) : i \in {j \in old : events[j] = e}})
      \/ /\ ChainValid(Append(events, e)) /\ events' = Append(events, e)
         /\ Close(c, IF e.key = None THEN {} ELSE Told("event", e.key, Len(events) + 1))
      \/ UNCHANGED events /\ Close(c, {})
  BY DEF AppendEvent
<1>3. e \in EventRecords /\ workload = "event"
  BY <1>1, RequestKinds DEF ConvInv, RunsInv
<1>4. ASSUME NEW a \in UNION {Told("event", e.key, i) : i \in {j \in old : events[j] = e}}
      PROVE  \E i \in DOMAIN events : /\ a = [kind |-> "event", key |-> e.key, place |-> i]
                                      /\ e.key # None /\ events[i].key = e.key
  BY DEF Told
<1>. HIDE DEF e, old
<1>5. CASE /\ UNCHANGED events
           /\ \E told : Close(c, told) /\ \A a \in told : \E i \in DOMAIN events :
                 /\ a = [kind |-> "event", key |-> e.key, place |-> i]
                 /\ e.key # None /\ events[i].key = e.key
  <2>1. PICK told : Close(c, told) /\ \A a \in told : \E i \in DOMAIN events :
                       /\ a = [kind |-> "event", key |-> e.key, place |-> i]
                       /\ e.key # None /\ events[i].key = e.key
    BY <1>5
  <2>2. RowsKept /\ thread' \in Seq(ThreadVersions)
    BY <1>1, <1>5 DEF RowsKept, ConvInv, MessagesInv, RunsInv
  <2>3. \A a \in told : AnswerHolds(a)'
    BY <1>5, <2>1 DEF AnswerHolds
  <2>4. answers' = answers \cup told /\ follower' = follower /\ workload' = workload
    BY <2>1 DEF Close
  <2>5. \A a \in answers' : AnswerHolds(a)'
    BY <2>2, <2>3, <2>4, AnswersKept
  <2>. QED
    BY <1>1, <1>5, <2>1, <2>2, <2>4, <2>5, CloseKeepsCalls, FollowerKept, RunsKept, MessagesKept
       DEF ConvInv
<1>6. CASE /\ ChainValid(Append(events, e)) /\ events' = Append(events, e)
           /\ Close(c, IF e.key = None THEN {} ELSE Told("event", e.key, Len(events) + 1))
  <2>. DEFINE told == IF e.key = None THEN {} ELSE Told("event", e.key, Len(events) + 1)
  <2>1. /\ events' \in Seq(EventRecords) /\ Len(events') = Len(events) + 1
        /\ \A k \in 1..Len(events) : events'[k] = events[k]
        /\ events'[Len(events) + 1] = e
    BY <1>1, <1>3, <1>6, AppendProperties
  <2>2. Len(events') >= Len(events) /\ DOMAIN events' = 1..Len(events')
    BY <1>1, <2>1, LenProperties
  <2>3. RowsKept /\ thread' \in Seq(ThreadVersions)
    <3>1. thread \in Seq(ThreadVersions)
      BY DEF ConvInv, MessagesInv
    <3>. QED
      BY <1>1, <2>1, <2>2, <3>1 DEF RowsKept
  <2>4. \A a \in told : AnswerHolds(a)'
    <3>1. Len(events) + 1 \in DOMAIN events'
      BY <1>1, <2>1, <2>2
    <3>2. \A a \in told : e.key # None /\ a = [kind |-> "event", key |-> e.key,
                                               place |-> Len(events) + 1]
      BY DEF Told
    <3>. QED
      BY <2>1, <3>1, <3>2 DEF AnswerHolds
  <2>5. answers' = answers \cup told /\ follower' = follower /\ workload' = workload
    BY <1>6 DEF Close
  <2>6. \A a \in answers' : AnswerHolds(a)'
    BY <2>3, <2>4, <2>5, AnswersKept
  <2>7. LineageGrounded'
    <3>1. \A a \in artifacts : a.event \in DOMAIN events'
      BY <1>1, <2>1, <2>2 DEF ConvInv, RunsInv, LineageGrounded
    <3>. QED
      BY <1>1, <3>1 DEF ConvInv, RunsInv, LineageGrounded
  <2>8. RunsInv'
    BY <1>1, <1>3, <1>6, <2>1, <2>5, <2>7 DEF ConvInv, RunsInv, RunsDistinct
  <2>9. MessagesInv'
    BY <1>1, <2>3, MessagesKept DEF ConvInv
  <2>10. CallsInv'
    BY <1>6, <2>3, CloseKeepsCalls
  <2>11. FollowerInv'
    BY <2>3, <2>5, FollowerKept
  <2>. QED
    BY <2>6, <2>8, <2>9, <2>10, <2>11 DEF ConvInv
<1>. QED
  BY <1>2, <1>4, <1>5, <1>6

-----------------------------------------------------------------------------
(* Steps that change no row                                                  *)

(* The rows and the answers that name them.                                  *)
LEMMA SameRowsInv ==
    ASSUME ConvInv, UNCHANGED rows, UNCHANGED <<workload, answers>>
    PROVE  MessagesInv' /\ RunsInv' /\ \A a \in answers' : AnswerHolds(a)'
<1>1. RowsKept /\ thread' \in Seq(ThreadVersions)
  BY SameRowsKept
<1>2. UNCHANGED <<runs, events, artifacts, messages>>
  BY DEF rows
<1>. QED
  BY <1>1, <1>2, AnswersKept, RunsKept, MessagesKept DEF ConvInv

(* A membership changes, or a page is read, and no transaction is touched.   *)
LEMMA SameCallsInv ==
    ASSUME ConvInv, UNCHANGED rows, UNCHANGED <<dialect, member, call>>
    PROVE  CallsInv'
BY DEF ConvInv, CallsInv, rows

(* A transaction opens; with one write lock it is the only one.              *)
LEMMA BeginKeeps ==
    ASSUME ConvInv, NEW c \in Callers, Begin(c)
    PROVE  ConvInv'
<1>1. /\ call[c].pc = "idle" /\ WriteLockFree
      /\ UNCHANGED <<dialect, workload, member, answers, follower>> /\ UNCHANGED rows
  BY DEF Begin
<1>2. PICK v \in 1..member.version :
         /\ member.active /\ v = member.version
         /\ call' = [call EXCEPT ![c] = [pc |-> "open", version |-> v, seen |-> Len(thread)]]
  BY DEF Begin, CurrentMembership
<1>. DEFINE q == [pc |-> "open", version |-> v, seen |-> Len(thread)]
<1>3. Len(thread) \in Nat /\ thread' = thread /\ CallsInv
  BY <1>1, LenProperties DEF ConvInv, MessagesInv, rows
<1>4. v \in Nat /\ v = member.version
  BY <1>2, <1>3 DEF CallsInv
<1>5. q \in [pc : {"idle", "open"}, version : Nat, seen : Nat]
      /\ q.pc = "open" /\ q.version = member.version /\ q.seen = Len(thread)
  BY <1>3, <1>4
<1>6. call' = [call EXCEPT ![c] = q]
  BY <1>2
<1>. HIDE DEF q
<1>7. \A d \in Callers : call'[d] = IF d = c THEN q ELSE call[d]
  BY <1>3, <1>6 DEF CallsInv
<1>8. call' \in [Callers -> [pc : {"idle", "open"}, version : Nat, seen : Nat]]
  BY <1>3, <1>5, <1>6 DEF CallsInv
<1>9. \A d \in Callers : call'[d].seen <= Len(thread')
  BY <1>3, <1>5, <1>7 DEF CallsInv
<1>10. ASSUME dialect' = "sqlite"
       PROVE  /\ \A d, e \in Callers : call'[d].pc = "open" /\ call'[e].pc = "open" => d = e
              /\ \A d \in Callers : call'[d].pc = "open" =>
                    member'.active /\ call'[d].version = member'.version
  <2>1. \A d \in Callers : call[d].pc = "idle"
    BY <1>1, <1>10 DEF WriteLockFree
  <2>2. \A d \in Callers : call'[d].pc = "open" => d = c
    BY <1>7, <2>1
  <2>. QED
    BY <1>1, <1>2, <1>5, <1>7, <2>2
<1>11. CallsInv'
  BY <1>1, <1>3, <1>8, <1>9, <1>10 DEF CallsInv
<1>. QED
  BY <1>1, <1>11, SameRowsInv, SameRowsKept, FollowerKept DEF ConvInv

(* The membership changes when no writer holds the lock.                     *)
LEMMA MembershipKeeps ==
    ASSUME ConvInv, MembershipChanges
    PROVE  ConvInv'
<1>1. /\ WriteLockFree /\ UNCHANGED <<dialect, workload, call, answers, follower>>
      /\ UNCHANGED rows /\ member'.version = member.version + 1
  BY DEF MembershipChanges
<1>2. CallsInv'
  <2>1. member'.version \in Nat /\ thread' = thread
    BY <1>1 DEF ConvInv, CallsInv, rows
  <2>2. ASSUME dialect' = "sqlite" PROVE \A c \in Callers : call'[c].pc # "open"
    <3>1. \A c \in Callers : call[c].pc = "idle"
      BY <1>1, <2>2 DEF WriteLockFree
    <3>. QED
      BY <1>1, <3>1
  <2>. QED
    BY <1>1, <2>1, <2>2 DEF ConvInv, CallsInv
<1>. QED
  BY <1>1, <1>2, SameRowsInv, SameRowsKept, FollowerKept DEF ConvInv

(* The bounds of a page.                                                     *)
LEMMA PageBoundsKeeps ==
    ASSUME ConvInv, PageBounds
    PROVE  ConvInv'
<1>1. /\ follower.after < Len(events)
      /\ follower' = [follower EXCEPT !.pc = "chain", !.high = Len(events)]
      /\ UNCHANGED <<dialect, workload, member, call, answers>> /\ UNCHANGED rows
      /\ events' = events
  BY DEF PageBounds, rows
<1>2. /\ follower \in [pc : {"idle", "chain"}, after : 0..Len(events), high : 0..Len(events),
                       seen : Seq(EventRecords)]
      /\ Len(follower.seen) = follower.after
      /\ \A k \in 1..follower.after : follower.seen[k] = events[k]
  BY DEF ConvInv, FollowerInv
<1>3. Len(events) \in Nat
  BY LenProperties DEF ConvInv, RunsInv
<1>4. follower' = [pc |-> "chain", after |-> follower.after, high |-> Len(events),
                   seen |-> follower.seen]
  BY <1>1, <1>2
<1>5. FollowerInv'
  <2>1. Len(events) \in 0..Len(events)
    BY <1>3
  <2>2. follower' \in [pc : {"idle", "chain"}, after : 0..Len(events), high : 0..Len(events),
                       seen : Seq(EventRecords)]
    BY <1>2, <1>4, <2>1
  <2>3. /\ follower'.pc = "chain" /\ follower'.after = follower.after
        /\ follower'.high = Len(events) /\ follower'.seen = follower.seen
    BY <1>4
  <2>. QED
    BY <1>1, <1>2, <2>2, <2>3 DEF FollowerInv
<1>. QED
  BY <1>1, <1>5, SameRowsInv, SameCallsInv DEF ConvInv

(* A page continues what was seen.                                           *)
LEMMA PageChainKeeps ==
    ASSUME ConvInv, PageChain
    PROVE  ConvInv'
<1>. DEFINE page == PageOf(follower)
            top == IF follower.high > follower.after + PageLimit
                   THEN follower.after + PageLimit ELSE follower.high
<1>1. /\ follower' = [follower EXCEPT !.pc = "idle", !.seen = @ \o page, !.after = @ + Len(page)]
      /\ UNCHANGED <<dialect, workload, member, call, answers>> /\ UNCHANGED rows
      /\ events' = events
  BY DEF PageChain, rows
<1>2. /\ follower \in [pc : {"idle", "chain"}, after : 0..Len(events), high : 0..Len(events),
                       seen : Seq(EventRecords)]
      /\ Len(follower.seen) = follower.after
      /\ \A k \in 1..follower.after : follower.seen[k] = events[k]
      /\ follower.after < follower.high
  BY DEF ConvInv, FollowerInv, PageChain
<1>3. /\ Len(events) \in Nat /\ events \in Seq(EventRecords)
      /\ \A k \in 1..Len(events) : events[k] \in EventRecords
  BY LenProperties, ElementOfSeq DEF ConvInv, RunsInv
<1>4. PICK a \in 0..Len(events) : a = follower.after
  BY <1>2
<1>5. /\ top \in Nat /\ a < top /\ top <= Len(events)
  <2>1. follower.high \in 0..Len(events) /\ a < follower.high
    BY <1>2, <1>4
  <2>. QED
    BY <1>3, <1>4, <2>1, ConversationBounds
<1>6. page = SubSeq(events, a + 1, top)
  BY <1>4 DEF PageOf
<1>. HIDE DEF page, top
<1>7. /\ page \in Seq(EventRecords) /\ Len(page) = top - a
      /\ \A k \in 1..(top - a) : page[k] = events[a + k]
  <2>1. /\ a \in Int /\ a + 1 \in Int /\ top \in Int /\ a + 1 <= top
        /\ top - (a + 1) + 1 = top - a /\ \A k \in Int : a + 1 + k - 1 = a + k
    BY <1>3, <1>5
  <2>2. \A k \in (a + 1)..top : events[k] \in EventRecords
    BY <1>3, <1>4, <1>5
  <2>3. PICK m \in Int : m = a + 1
    BY <2>1
  <2>4. \A k \in m..top : events[k] \in EventRecords
    BY <2>2, <2>3
  <2>5. /\ SubSeq(events, m, top) \in Seq(EventRecords)
        /\ Len(SubSeq(events, m, top)) = IF m <= top THEN top - m + 1 ELSE 0
        /\ \A k \in 1..(top - m + 1) : SubSeq(events, m, top)[k] = events[m + k - 1]
    BY <2>1, <2>4, SubSeqProperties
  <2>6. m <= top /\ top - m + 1 = top - a /\ \A k \in 1..(top - a) : m + k - 1 = a + k
    BY <2>1, <2>3
  <2>. QED
    BY <1>6, <2>3, <2>5, <2>6
<1>. DEFINE seen == follower.seen \o page
<1>8. /\ seen \in Seq(EventRecords) /\ Len(seen) = top
      /\ \A k \in 1..top : seen[k] = events[k]
  <2>1. follower.seen \in Seq(EventRecords) /\ Len(follower.seen) = a
    BY <1>2, <1>4
  <2>2. /\ seen \in Seq(EventRecords) /\ Len(seen) = Len(follower.seen) + Len(page)
        /\ \A k \in 1..Len(seen) : seen[k] = IF k <= Len(follower.seen) THEN follower.seen[k]
                                             ELSE page[k - Len(follower.seen)]
    <3>1. PICK t \in Seq(EventRecords) : t = follower.seen
      BY <2>1
    <3>2. /\ t \o page \in Seq(EventRecords) /\ Len(t \o page) = Len(t) + Len(page)
          /\ \A k \in 1..(Len(t) + Len(page)) : (t \o page)[k] = IF k <= Len(t) THEN t[k]
                                                               ELSE page[k - Len(t)]
      BY <1>7, ConcatProperties
    <3>3. seen = t \o page
      BY <3>1
    <3>. HIDE DEF seen
    <3>. QED
      BY <3>1, <3>2, <3>3
  <2>3. Len(seen) = a + (top - a)
    BY <1>7, <2>1, <2>2
  <2>4. Len(seen) = top
    BY <1>3, <1>4, <1>5, <2>3
  <2>5. ASSUME NEW k \in 1..top PROVE seen[k] = events[k]
    <3>1. seen[k] = IF k <= a THEN follower.seen[k] ELSE page[k - a]
      BY <2>1, <2>2, <2>4
    <3>2. CASE k <= a
      <4>1. k \in 1..a
        BY <1>4, <1>5, <3>2
      <4>. QED
        BY <1>2, <1>4, <3>1, <3>2, <4>1
    <3>3. CASE ~(k <= a)
      <4>1. k - a \in 1..(top - a) /\ a + (k - a) = k
        BY <1>4, <1>5, <3>3
      <4>. QED
        BY <1>7, <3>1, <3>3, <4>1
    <3>. QED
      BY <3>2, <3>3
  <2>. QED
    BY <2>2, <2>4, <2>5
<1>. HIDE DEF seen
<1>9. follower' = [pc |-> "idle", after |-> top, high |-> follower.high, seen |-> seen]
  <2>1. a + Len(page) = top
    BY <1>3, <1>4, <1>5, <1>7
  <2>2. follower' = [pc |-> "idle", after |-> follower.after + Len(page),
                     high |-> follower.high, seen |-> follower.seen \o page]
    BY <1>1, <1>2
  <2>. QED
    BY <1>4, <2>1, <2>2 DEF seen
<1>10. FollowerInv'
  <2>1. top \in 0..Len(events)
    BY <1>3, <1>5
  <2>2. follower' \in [pc : {"idle", "chain"}, after : 0..Len(events), high : 0..Len(events),
                       seen : Seq(EventRecords)]
    BY <1>2, <1>8, <1>9, <2>1
  <2>3. follower'.pc = "idle" /\ follower'.after = top /\ follower'.seen = seen
    BY <1>9
  <2>. QED
    BY <1>1, <1>8, <2>2, <2>3 DEF FollowerInv
<1>. QED
  BY <1>1, <1>10, SameRowsInv, SameCallsInv DEF ConvInv

-----------------------------------------------------------------------------
(* Theorems                                                                  *)

(* Every step keeps the invariant.                                           *)
LEMMA ConvStepInv == ConvInv /\ [ConvNext]_convVars => ConvInv'
<1>. SUFFICES ASSUME ConvInv, [ConvNext]_convVars PROVE ConvInv'
  OBVIOUS
<1>1. ASSUME NEW c \in Callers, Begin(c) PROVE ConvInv'
  BY <1>1, BeginKeeps
<1>2. ASSUME NEW c \in Callers, NEW op \in Requests, Finish(c, op) PROVE ConvInv'
  <2>1. CASE CreateThread(c, op)
    BY <2>1, CreateThreadKeeps
  <2>2. CASE ArchiveThread(c, op)
    BY <2>2, ArchiveThreadKeeps
  <2>3. CASE RegisterAttachment(c, op)
    BY <2>3, RegisterAttachmentKeeps
  <2>4. CASE AppendMessage(c, op)
    BY <2>4, AppendMessageKeeps
  <2>5. CASE CreateRun(c, op)
    BY <2>5, CreateRunKeeps
  <2>6. CASE AppendEvent(c, op)
    BY <2>6, AppendEventKeeps
  <2>7. CASE RecordArtifact(c, op)
    BY <2>7, RecordArtifactKeeps
  <2>. QED
    BY <1>2, <2>1, <2>2, <2>3, <2>4, <2>5, <2>6, <2>7 DEF Finish
<1>3. CASE MembershipChanges
  BY <1>3, MembershipKeeps
<1>4. CASE PageBounds
  BY <1>4, PageBoundsKeeps
<1>5. CASE PageChain
  BY <1>5, PageChainKeeps
<1>6. CASE UNCHANGED convVars
  <2>1. /\ UNCHANGED rows /\ UNCHANGED <<workload, answers>> /\ follower' = follower
        /\ UNCHANGED <<dialect, member, call>>
    BY <1>6 DEF convVars, rows
  <2>. QED
    BY <2>1, SameRowsInv, SameCallsInv, SameRowsKept, FollowerKept DEF ConvInv
<1>. QED
  BY <1>1, <1>2, <1>3, <1>4, <1>5, <1>6 DEF ConvNext

(* What the invariant says of the rows, the answers and the follower.        *)
LEMMA ConvInvSound == ConvInv => ConversationsSound
<1>. SUFFICES ASSUME ConvInv PROVE ConversationsSound
  OBVIOUS
<1>1. /\ Len(events) \in Nat /\ DOMAIN events = 1..Len(events) /\ events \in Seq(EventRecords)
      /\ ChainValid(events) /\ RunsInv /\ MessagesInv /\ FollowerInv /\ CallsInv
  BY LenProperties DEF ConvInv, RunsInv
<1>2. ConvTypeOK
  <2>1. ASSUME NEW m \in messages
        PROVE  /\ m.seq \in 1..MaxMessages /\ thread # <<>>
               /\ m.files \subseteq {a.id : a \in attachments}
    <3>1. m.seq \in 1..Cardinality(messages)
      BY <1>1 DEF MessagesInv, MessagesContiguous
    <3>2. Cardinality(messages) \in Nat /\ Cardinality(messages) <= MaxMessages
      BY <1>1, NextIsFree DEF MessagesInv
    <3>3. m.seq \in 1..MaxMessages
      BY <3>1, <3>2, ConversationBounds
    <3>. QED
      BY <1>1, <3>3 DEF MessagesInv
  <2>2. \A i \in DOMAIN thread : thread[i] \in [title : Titles, status : {"active", "archived"}]
    <3>1. thread \in Seq(ThreadVersions)
      BY <1>1 DEF MessagesInv
    <3>2. \A i \in DOMAIN thread : thread[i] \in ThreadVersions
      BY <3>1, ElementOfSeq, LenProperties
    <3>. QED
      BY <3>2 DEF ThreadVersions
  <2>3. /\ \A r \in runs : r.parent = None \/ \E p \in runs : p.id = r.parent
        /\ events # <<>> => runs # {}
    BY <1>1 DEF RunsInv
  <2>4. \A c \in Callers : call[c].pc \in {"idle", "open"}
    BY <1>1 DEF CallsInv
  <2>5. follower.pc \in {"idle", "chain"}
    BY <1>1 DEF FollowerInv
  <2>. QED
    BY <2>1, <2>2, <2>3, <2>4, <2>5 DEF ConvTypeOK
<1>3. RetriesAgree
  <2>1. \A i, j \in DOMAIN events :
           events[i].key # None /\ events[i].key = events[j].key => i = j
    <3>1. ASSUME NEW i \in DOMAIN events, NEW j \in DOMAIN events, j < i, events[i].key # None
          PROVE  events[j].key # events[i].key
      <4>1. j \in 1..(i - 1)
        BY <1>1, <3>1
      <4>. QED
        BY <1>1, <3>1, <4>1 DEF ChainValid
    <3>2. \A i, j \in DOMAIN events : i = j \/ i < j \/ j < i
      BY <1>1
    <3>. QED
      BY <3>1, <3>2
  <2>2. ASSUME NEW a \in answers, NEW b \in answers, a.kind = b.kind, a.key = b.key
        PROVE  a = b
    <3>1. AnswerHolds(a) /\ AnswerHolds(b)
      BY DEF ConvInv
    <3>2. a.place = b.place
      <4>1. CASE a.kind = "message"
        <5>1. PICK m \in messages : m.key = a.key /\ m.seq = a.place
          BY <3>1, <4>1 DEF AnswerHolds
        <5>2. PICK n \in messages : n.key = b.key /\ n.seq = b.place
          BY <2>2, <3>1, <4>1 DEF AnswerHolds
        <5>3. m = n
          BY <1>1, <2>2, <5>1, <5>2 DEF MessagesInv, MessagesContiguous
        <5>. QED
          BY <5>1, <5>2, <5>3
      <4>2. CASE a.kind = "event"
        BY <2>1, <2>2, <3>1, <4>2 DEF AnswerHolds
      <4>. QED
        BY <3>1, <4>1, <4>2 DEF AnswerHolds
    <3>3. /\ a = [kind |-> a.kind, key |-> a.key, place |-> a.place]
          /\ b = [kind |-> b.kind, key |-> b.key, place |-> b.place]
      BY <3>1 DEF AnswerHolds
    <3>. QED
      BY <2>2, <3>2, <3>3
  <2>. QED
    BY <2>2 DEF RetriesAgree, ConvInv, AnswerHolds
<1>4. ToolProtocol
  BY <1>1, ChainKeepsProtocol
<1>5. FollowerSeesChain
  <2>1. /\ follower.seen \in Seq(EventRecords) /\ follower.after \in 0..Len(events)
        /\ follower.high \in 0..Len(events) /\ Len(follower.seen) = follower.after
        /\ \A k \in 1..follower.after : follower.seen[k] = events[k]
    BY <1>1 DEF FollowerInv
  <2>2. ChainValid(SubSeq(events, 1, follower.high))
    BY <1>1, <2>1, PrefixValid
  <2>3. /\ SubSeq(events, 1, follower.after) \in Seq(EventRecords)
        /\ Len(SubSeq(events, 1, follower.after)) = follower.after
        /\ \A k \in 1..follower.after : SubSeq(events, 1, follower.after)[k] = events[k]
    BY <1>1, <2>1, FirstPart
  <2>4. follower.seen = SubSeq(events, 1, follower.after)
    <3>. DEFINE s == follower.seen
                f == SubSeq(events, 1, follower.after)
    <3>1. s \in Seq(EventRecords) /\ f \in Seq(EventRecords) /\ Len(s) = Len(f)
          /\ \A k \in 1..Len(s) : s[k] = f[k]
      BY <2>1, <2>3
    <3>. HIDE DEF s, f
    <3>2. s = f
      BY <3>1, SeqEqual
    <3>. QED
      BY <3>2 DEF s, f
  <2>5. SubSeq(follower.seen, 1, Len(follower.seen)) = follower.seen
    BY <2>1, FirstPart, SeqEqual
  <2>6. Len(follower.seen) <= Len(events)
    BY <1>1, <2>1
  <2>7. IsPrefix(follower.seen, events)
    BY <2>1, <2>4, <2>5, <2>6 DEF IsPrefix
  <2>. QED
    BY <2>1, <2>2, <2>7 DEF FollowerSeesChain
<1>. QED
  BY <1>1, <1>2, <1>3, <1>4, <1>5 DEF ConversationsSound, RunsInv, MessagesInv

(* Overlapping transactions leave threads, messages, runs, tool calls and    *)
(* artifacts as if they had come one after the other; every answer names one *)
(* row, and a follower sees a prefix of the chain.                           *)
THEOREM ConversationsSoundHolds == ConvSpec => []ConversationsSound
<1>1. ConvSpec => []ConvInv
  BY ConvInitInv, ConvStepInv, PTL DEF ConvSpec
<1>. QED
  BY <1>1, ConvInvSound, PTL

(* Under SQLite no row is written for a membership that ended or was renewed *)
(* after the transaction read it.                                            *)
THEOREM WrittenByMembersHolds == ConvSpec => WrittenByMembers
<1>. DEFINE ByMember ==
        \E c \in Callers : /\ call[c].pc = "open" /\ call'[c].pc = "idle"
                           /\ member.active /\ call[c].version = member.version
<1>1. ConvInv /\ [ConvNext]_convVars => [(dialect = "sqlite" /\ rows' # rows) => ByMember]_convVars
  <2>. SUFFICES ASSUME ConvInv, [ConvNext]_convVars, dialect = "sqlite", rows' # rows
                PROVE  ByMember
    OBVIOUS
  <2>1. ~UNCHANGED convVars
    BY DEF convVars, rows
  <2>2. ~MembershipChanges /\ ~PageBounds /\ ~PageChain /\ \A c \in Callers : ~Begin(c)
    BY DEF MembershipChanges, PageBounds, PageChain, Begin, rows
  <2>3. PICK c \in Callers : \E op \in Requests : Finish(c, op)
    BY <2>1, <2>2 DEF ConvNext
  <2>4. call[c].pc = "open" /\ call' = [call EXCEPT ![c] = Idle]
    BY <2>3 DEF Finish, CreateThread, ArchiveThread, RegisterAttachment, AppendMessage, CreateRun,
                AppendEvent, RecordArtifact, Open, Close
  <2>5. call'[c].pc = "idle"
    BY <2>4 DEF ConvInv, CallsInv, Idle
  <2>6. member.active /\ call[c].version = member.version
    BY <2>4 DEF ConvInv, CallsInv
  <2>. QED
    BY <2>4, <2>5, <2>6
<1>2. ConvSpec => []ConvInv
  BY ConvInitInv, ConvStepInv, PTL DEF ConvSpec
<1>. QED
  BY <1>1, <1>2, PTL DEF ConvSpec, WrittenByMembers

(*****************************************************************************)
(* The schema and its migrations                                             *)
(*****************************************************************************)

(* What each revision has been given.                                        *)
ManifestCount(k) == IF k = 0 THEN 0 ELSE LatestManifest[k]
ManifestsAt(k) == [v \in 1..ManifestCount(k) |-> FamilySets[v]]

(* The files a database can be in: those of the first product line and of a  *)
(* new database, those of a revision, and those in the middle of a step.     *)
SimpleFile(d) ==
    /\ d.revision = 0 /\ d.manifests = <<>> /\ d.armed /\ d.hist = {}
    /\ \/ ~d.file /\ d.tables = {} /\ d.version = 0 /\ d.rows = {}
       \/ d.file /\ d.tables = V1Tables /\ d.version = 0 /\ "legacy" \in d.rows
       \/ d.file /\ d.tables = V1Tables \cup {"corvus_schema"} /\ d.version = 1 /\ "legacy" \in d.rows
       \/ d.file /\ d.tables = Base /\ d.version = 2
LegacyOf(d, job) ==
    /\ d.file /\ "legacy" \in d.rows
    /\ job = "m005" => d.tables = V1Tables \cup {"corvus_schema"} /\ d.version = 1
    /\ job = "stamp" => d.tables = V1Tables /\ d.version = 0
Stage(d, k, tables, armed) ==
    /\ d.file /\ d.version = 2 /\ d.revision = k /\ d.manifests = ManifestsAt(k)
    /\ d.tables = tables /\ d.armed = armed
Settled(d, k) == Stage(d, k, Required[k], TRUE)
Creating(d, k) == \E t \in Migration[k].early : Stage(d, k - 1, Required[k - 1] \cup {t}, FALSE)
Built(d, k) ==
    Migration[k].early # {} /\ Stage(d, k - 1, Required[k - 1] \cup Migration[k].early, k # 4)
Undone(d, k) ==
    /\ k > 1
    /\ Migration[k].undo = "triggers" => Stage(d, k, Required[k], FALSE)
    /\ Migration[k].undo # "triggers" =>
          \E dropped \in SUBSET Migration[k].creates : dropped # {} /\ Stage(d, k, Required[k] \ dropped, TRUE)

Publishing == {"publish", "restore"}
Pcs == {"idle", "open", "initialize", "backup"} \cup Publishing \cup BackupSteps \cup MigrationSteps
FileRows == Users \cup {"legacy"}
JobRecords ==
    [pc : Pcs, job : Jobs \cup {"none"}, copy : Files \cup {Nil}, step : 0..HeadRevision, target : 0..HeadRevision,
     orphan : BOOLEAN, late : SUBSET Histories, raced : SUBSET Histories]
SchemaTypes ==
    /\ course \in {"start", "migrate"} /\ db \in Files
    /\ bak \in [Jobs -> [content : Files \cup {Nil}, digest : Files \cup {Nil}]]
    /\ starter \in [Users -> JobRecords]
    /\ acked \subseteq FileRows \cup Histories /\ overlap \subseteq {"publish", "backup"} /\ unfinished \in BOOLEAN

(* The database, in a behaviour c, while a step is in progress or not (u).   *)
DbGood(c, d, u) ==
    /\ c = "start" => SimpleFile(d)
    /\ c = "migrate" /\ d.file => d.version = 2
    /\ d.version # 2 => SimpleFile(d) /\ ~u
    /\ d.version = 2 /\ ~u => \E k \in 0..HeadRevision : Settled(d, k)
    /\ u => /\ c = "migrate" /\ d.file /\ Base \subseteq d.tables /\ Classify(d) # "current"
            /\ d.revision = HeadRevision => ~d.armed
DbInv == DbGood(course, db, unfinished)

(* The backups.                                                              *)
BakGood(c, b, o) ==
    \A j \in Jobs : b[j].content # Nil =>
        /\ c = "start" /\ SimpleFile(b[j].content) /\ b[j].content.file
        /\ o = {} => LegacyOf(b[j].content, j)
BakInv == BakGood(course, bak, overlap)

(* What a process with record s may rely on: at a start or a restore, at a   *)
(* backup and the migration after it, at a milestone step.                   *)
StartGood(s, c, o) ==
    /\ s.pc = "publish" => s.copy = NewFile
    /\ s.pc = "restore" =>
          /\ c = "start" /\ s.copy \in Files /\ SimpleFile(s.copy) /\ s.copy.file
          /\ o = {} => s.copy.version # 2
BackupGood(s, c, d, b, o) ==
    /\ s.pc \in BackupSteps \cup {"backup"} => c = "start" /\ s.job \in Jobs
    /\ s.pc \in {"publish_backup", "sidecar"} => s.copy \in Files /\ SimpleFile(s.copy) /\ s.copy.file
    /\ s.pc \in BackupSteps /\ o = {} =>
          /\ LegacyOf(d, s.job)
          /\ s.pc \in {"publish_backup", "sidecar"} => LegacyOf(s.copy, s.job)
          /\ s.pc = "sidecar" => b[s.job].content = s.copy
          /\ s.pc = "commit" => b[s.job].content # Nil /\ b[s.job].digest = b[s.job].content
MilestoneGood(p, s, c, d, u) ==
    /\ s.pc \in MigrationSteps => p = Operator /\ c = "migrate" /\ s.step \in 1..HeadRevision
    /\ s.pc = "upgrade" => ~u /\ Settled(d, s.step - 1)
    /\ s.pc = "creating" => u /\ Creating(d, s.step)
    /\ s.pc = "built" => u /\ Built(d, s.step)
    /\ s.pc = "downgrade" => (~u /\ Settled(d, s.step)) \/ ~d.armed
    /\ s.pc = "checked" => ~u /\ Settled(d, s.step)
    /\ s.pc = "undone" => u /\ Undone(d, s.step)
    /\ s.pc \in {"checked", "undone"} => HistoryOf(s.step) \cap d.hist \subseteq s.raced
    /\ s.pc \in DowngradeSteps =>
          /\ s.target \in 1..12 /\ s.target < s.step
          /\ \A k \in (s.target + 1)..s.step : HistoryOf(k) \cap d.hist \subseteq s.late
StepGood(p, s, c, d, b, u, o) ==
    /\ s.pc \notin {"idle", "initialize"} \cup Publishing => d.file
    /\ StartGood(s, c, o) /\ BackupGood(s, c, d, b, o) /\ MilestoneGood(p, s, c, d, u)
StepInv(p) == StepGood(p, starter[p], course, db, bak, unfinished, overlap)

(* What processes at once have in common, while no two first starts and no   *)
(* two migrations have met.                                                  *)
ApartGood(s, d, a, o) ==
    /\ "publish" \notin o =>
          /\ \A p, q \in Users : s[p].pc \in Publishing /\ s[q].pc \in Publishing => p = q
          /\ \A p \in Users : s[p].pc \in Publishing => ~d.file
          /\ \A p \in Users : ~s[p].orphan
          /\ ~d.file => a = {}
    /\ "backup" \notin o =>
          \A p, q \in Users : s[p].pc \in BackupSteps /\ s[q].pc \in BackupSteps => p = q
ApartInv == ApartGood(starter, db, acked, overlap)

SchemaInv ==
    /\ SchemaTypes /\ DbInv /\ BakInv /\ ApartInv /\ (\A p \in Users : StepInv(p))
    /\ RowsSurvive /\ MigratedHasBackup /\ HistoryKept

(* The table sets of the revisions.                                          *)
LEMMA RequiredSets ==
    /\ Required[0] = Base
    /\ Required[1] = Required[0] \cup {"alembic_version", "projects"}
    /\ Required[2] = Required[1] \cup AuditTables
    /\ Required[3] = Required[2] \cup AuthorityTables
    /\ Required[4] = Required[3] \cup RegistryTables
    /\ Required[5] = Required[4] \cup InputTables
    /\ Required[6] = Required[5] \cup HandoffTables
    /\ Required[7] = Required[6] \cup ScopeTables
    /\ Required[8] = Required[7]
    /\ Required[9] = Required[7]
    /\ Required[10] = Required[7] \cup IdentityTables
    /\ Required[11] = Required[10] \cup OAuthTables
    /\ Required[12] = (Required[11] \ {"identity_idempotency"}) \cup SyncTables
    /\ Required[13] = Required[12] \cup ConversationTables
<1> DEFINE m1 == Base \cup {"alembic_version", "projects"}
           m2 == m1 \cup AuditTables
           m3 == m2 \cup AuthorityTables
           m4 == m3 \cup RegistryTables
           m5 == m4 \cup InputTables
           m6 == m5 \cup HandoffTables
           m7 == m6 \cup ScopeTables
           m10 == m7 \cup IdentityTables
           m11 == m10 \cup OAuthTables
           m12 == (m11 \ {"identity_idempotency"}) \cup SyncTables
           tables(k) == <<Base, m1, m2, m3, m4, m5, m6, m7, m7, m7, m10, m11, m12,
                          m12 \cup ConversationTables>>[k + 1]
<1>1. Required = [k \in 0..13 |-> tables(k)]
  BY DEF Required, HeadRevision
<1>2. \A k \in 0..13 : Required[k] = tables(k)
  BY <1>1
<1>3. /\ tables(0) = Base /\ tables(1) = m1 /\ tables(2) = m2 /\ tables(3) = m3 /\ tables(4) = m4
      /\ tables(5) = m5 /\ tables(6) = m6 /\ tables(7) = m7 /\ tables(8) = m7 /\ tables(9) = m7
      /\ tables(10) = m10 /\ tables(11) = m11 /\ tables(12) = m12 /\ tables(13) = m12 \cup ConversationTables
  OBVIOUS
<1>4. /\ Required[0] = Base /\ Required[1] = m1 /\ Required[2] = m2 /\ Required[3] = m3 /\ Required[4] = m4
      /\ Required[5] = m5 /\ Required[6] = m6 /\ Required[7] = m7 /\ Required[8] = m7 /\ Required[9] = m7
      /\ Required[10] = m10 /\ Required[11] = m11 /\ Required[12] = m12
      /\ Required[13] = m12 \cup ConversationTables
  <2> HIDE DEF tables, m1, m2, m3, m4, m5, m6, m7, m10, m11, m12
  <2>. QED
    BY <1>2, <1>3
<1>. QED
  <2>1. /\ m2 = m1 \cup AuditTables /\ m3 = m2 \cup AuthorityTables /\ m4 = m3 \cup RegistryTables
        /\ m1 = Base \cup {"alembic_version", "projects"}
        /\ m5 = m4 \cup InputTables /\ m6 = m5 \cup HandoffTables /\ m7 = m6 \cup ScopeTables
        /\ m10 = m7 \cup IdentityTables /\ m11 = m10 \cup OAuthTables
        /\ m12 = (m11 \ {"identity_idempotency"}) \cup SyncTables
    OBVIOUS
  <2> HIDE DEF tables, m1, m2, m3, m4, m5, m6, m7, m10, m11, m12
  <2>. QED
    BY <1>4, <2>1

(* The table sets are sets of tables of the platform.                        *)
LEMMA RequiredTypes == ASSUME NEW k \in 0..13 PROVE Required[k] \subseteq SchemaTables /\ Base \subseteq Required[k]
<1>1. /\ Base \subseteq SchemaTables /\ AuditTables \subseteq SchemaTables /\ AuthorityTables \subseteq SchemaTables
      /\ RegistryTables \subseteq SchemaTables /\ InputTables \subseteq SchemaTables /\ HandoffTables \subseteq SchemaTables
      /\ ScopeTables \subseteq SchemaTables /\ IdentityTables \subseteq SchemaTables /\ OAuthTables \subseteq SchemaTables
      /\ SyncTables \subseteq SchemaTables /\ ConversationTables \subseteq SchemaTables
      /\ {"alembic_version", "projects"} \subseteq SchemaTables
  BY DEF SchemaTables
<1>2. Required[0] \subseteq SchemaTables /\ Required[1] \subseteq SchemaTables /\ Required[2] \subseteq SchemaTables
  BY <1>1, RequiredSets
<1>3. Required[3] \subseteq SchemaTables /\ Required[4] \subseteq SchemaTables /\ Required[5] \subseteq SchemaTables
  BY <1>1, <1>2, RequiredSets
<1>4. /\ Required[6] \subseteq SchemaTables /\ Required[7] \subseteq SchemaTables /\ Required[8] \subseteq SchemaTables
      /\ Required[9] \subseteq SchemaTables
  BY <1>1, <1>3, RequiredSets
<1>5. /\ Required[10] \subseteq SchemaTables /\ Required[11] \subseteq SchemaTables /\ Required[12] \subseteq SchemaTables
      /\ Required[13] \subseteq SchemaTables
  BY <1>1, <1>4, RequiredSets
<1>6. "identity_idempotency" \notin Base
  BY DEF Base, V1Tables, M005Tables
<1>7. /\ Base \subseteq Required[0] /\ Base \subseteq Required[1] /\ Base \subseteq Required[2]
      /\ Base \subseteq Required[3] /\ Base \subseteq Required[4] /\ Base \subseteq Required[5]
      /\ Base \subseteq Required[6] /\ Base \subseteq Required[7] /\ Base \subseteq Required[8]
      /\ Base \subseteq Required[9] /\ Base \subseteq Required[10] /\ Base \subseteq Required[11]
  BY RequiredSets
<1>8. Base \subseteq Required[12] /\ Base \subseteq Required[13]
  BY <1>6, <1>7, RequiredSets
<1>. QED
  BY <1>2, <1>3, <1>4, <1>5, <1>7, <1>8

(* The tables of a step are new when it creates them.                        *)
LEMMA NewTables ==
    /\ {"alembic_version", "projects"} \cap Required[0] = {}
    /\ AuditTables \cap Required[1] = {}
    /\ AuthorityTables \cap Required[2] = {}
    /\ RegistryTables \cap Required[3] = {}
    /\ InputTables \cap Required[4] = {}
    /\ HandoffTables \cap Required[5] = {}
    /\ ScopeTables \cap Required[6] = {}
    /\ IdentityTables \cap Required[9] = {}
    /\ OAuthTables \cap Required[10] = {}
    /\ SyncTables \cap Required[11] = {}
    /\ ConversationTables \cap Required[12] = {}
    /\ "identity_idempotency" \in Required[11] /\ "identity_idempotency" \notin Required[10]
    /\ "identity_idempotency" \notin SyncTables /\ "identity_idempotency" \notin ConversationTables
<1> USE DEF Base, V1Tables, M005Tables
<1>0. {"alembic_version", "projects"} \cap Required[0] = {}
  BY RequiredSets
<1>1. AuditTables \cap Required[1] = {}
  BY RequiredSets DEF AuditTables
<1>2. AuthorityTables \cap Required[2] = {}
  BY RequiredSets DEF AuditTables, AuthorityTables
<1>3. RegistryTables \cap Required[3] = {}
  BY RequiredSets DEF AuditTables, AuthorityTables, RegistryTables
<1>4. InputTables \cap Required[4] = {}
  BY RequiredSets DEF AuditTables, AuthorityTables, RegistryTables, InputTables
<1>5. HandoffTables \cap Required[5] = {}
  BY RequiredSets DEF AuditTables, AuthorityTables, RegistryTables, InputTables, HandoffTables
<1>6. ScopeTables \cap Required[6] = {}
  BY RequiredSets DEF AuditTables, AuthorityTables, RegistryTables, InputTables, HandoffTables, ScopeTables
<1>9. IdentityTables \cap Required[9] = {}
  BY RequiredSets DEF AuditTables, AuthorityTables, RegistryTables, InputTables, HandoffTables, ScopeTables,
                      IdentityTables
<1>10. OAuthTables \cap Required[10] = {} /\ "identity_idempotency" \notin Required[10]
  BY RequiredSets DEF AuditTables, AuthorityTables, RegistryTables, InputTables, HandoffTables, ScopeTables,
                      IdentityTables, OAuthTables
<1>11. SyncTables \cap Required[11] = {} /\ "identity_idempotency" \in Required[11]
  BY RequiredSets DEF AuditTables, AuthorityTables, RegistryTables, InputTables, HandoffTables, ScopeTables,
                      IdentityTables, OAuthTables, SyncTables
<1>12. ConversationTables \cap Required[12] = {}
  BY RequiredSets DEF AuditTables, AuthorityTables, RegistryTables, InputTables, HandoffTables, ScopeTables,
                      IdentityTables, OAuthTables, SyncTables, ConversationTables
<1>13. "identity_idempotency" \notin SyncTables /\ "identity_idempotency" \notin ConversationTables
  BY DEF SyncTables, ConversationTables
<1>. QED
  BY <1>0, <1>1, <1>2, <1>3, <1>4, <1>5, <1>6, <1>9, <1>10, <1>11, <1>12, <1>13

(* The steps, one by one.                                                    *)
LEMMA MigrationAt ==
    /\ Migration[1] = M1_001 /\ Migration[2] = M1_002 /\ Migration[3] = M1_003 /\ Migration[4] = M1_004
    /\ Migration[5] = M1_005 /\ Migration[6] = M1_006 /\ Migration[7] = M1_007 /\ Migration[8] = M1_008
    /\ Migration[9] = M1_009 /\ Migration[10] = M2_001 /\ Migration[11] = M2_001a /\ Migration[12] = M2_002
    /\ Migration[13] = M2_003
BY DEF Migration

(* A step takes the tables of a revision to those of the next, and back.     *)
StepFits(k) ==
    /\ Migration[k].creates \subseteq SchemaTables /\ Migration[k].drops \subseteq SchemaTables
    /\ Migration[k].early \subseteq Migration[k].creates
    /\ \A t \in Migration[k].early : t \notin Required[k - 1]
    /\ (Required[k - 1] \cup Migration[k].creates) \ Migration[k].drops = Required[k]
    /\ (Required[k] \ Migration[k].creates) \cup Migration[k].drops = Required[k - 1]
    /\ Migration[k].undo \in {"triggers", "tables"} /\ (k = HeadRevision => Migration[k].undo = "triggers")
    /\ Migration[k].undo = "tables" /\ k > 1 =>
          /\ Migration[k].creates \subseteq Required[k] /\ Migration[k].drops = {}
          /\ "projects" \in Required[k] /\ "projects" \notin Migration[k].creates
          /\ \E s, t \in Migration[k].creates : s # t

(* A step that creates a family and drops nothing.                           *)
LEMMA PlainStep ==
    ASSUME NEW k \in 1..13, NEW tables \in SUBSET SchemaTables,
           Migration[k].creates = tables, Migration[k].drops = {}, Migration[k].early = tables,
           Required[k] = Required[k - 1] \cup tables, tables \cap Required[k - 1] = {},
           Migration[k].undo = "triggers" \/ (Migration[k].undo = "tables" /\ k # 13),
           Migration[k].undo = "tables" /\ k > 1 =>
              "projects" \in Required[k] /\ "projects" \notin tables /\ \E s, t \in tables : s # t
    PROVE  StepFits(k)
BY DEF StepFits, HeadRevision

(* Every step fits.                                                         *)
LEMMA StepsFit == \A k \in 1..13 : StepFits(k)
<1>1. /\ {"alembic_version", "projects"} \subseteq SchemaTables /\ AuditTables \subseteq SchemaTables
      /\ AuthorityTables \subseteq SchemaTables /\ RegistryTables \subseteq SchemaTables
      /\ InputTables \subseteq SchemaTables /\ HandoffTables \subseteq SchemaTables
      /\ ScopeTables \subseteq SchemaTables /\ IdentityTables \subseteq SchemaTables
      /\ OAuthTables \subseteq SchemaTables /\ SyncTables \subseteq SchemaTables
      /\ ConversationTables \subseteq SchemaTables
  BY DEF SchemaTables
<1>2. /\ "projects" \in Required[2] /\ "projects" \in Required[3] /\ "projects" \in Required[4]
      /\ "projects" \in Required[11]
  BY RequiredSets
<1>3. /\ "projects" \notin AuditTables /\ "projects" \notin AuthorityTables
      /\ "projects" \notin RegistryTables /\ "projects" \notin OAuthTables
  BY DEF AuditTables, AuthorityTables, RegistryTables, OAuthTables
<1>4. /\ \E s, t \in AuditTables : s # t
      /\ \E s, t \in AuthorityTables : s # t
      /\ \E s, t \in RegistryTables : s # t
      /\ \E s, t \in OAuthTables : s # t
  <2>1. "audit_receipts" \in AuditTables /\ "audit_result_bindings" \in AuditTables
    BY DEF AuditTables
  <2>2. "deployment_profiles" \in AuthorityTables /\ "deployment_instances" \in AuthorityTables
    BY DEF AuthorityTables
  <2>3. "authority_registries" \in RegistryTables /\ "authority_registry_trust_states" \in RegistryTables
    BY DEF RegistryTables
  <2>4. "oauth_transactions" \in OAuthTables /\ "web_session_bindings" \in OAuthTables
    BY DEF OAuthTables
  <2>. QED
    BY <2>1, <2>2, <2>3, <2>4
<1>5. StepFits(1)
  <2>1. /\ M1_001.creates = {"alembic_version", "projects"} /\ M1_001.drops = {}
        /\ M1_001.early = {"alembic_version", "projects"} /\ M1_001.undo = "tables"
    BY DEF M1_001
  <2>2. PICK tables \in SUBSET SchemaTables : tables = {"alembic_version", "projects"}
    BY <1>1
  <2>3. /\ Migration[1].creates = tables /\ Migration[1].drops = {} /\ Migration[1].early = tables
        /\ Migration[1].undo = M1_001.undo
    BY <2>1, <2>2, MigrationAt
  <2>4. Required[1] = Required[1 - 1] \cup tables /\ tables \cap Required[1 - 1] = {}
    BY <2>2, RequiredSets, NewTables
  <2>. QED
    BY <2>1, <2>3, <2>4, PlainStep
<1>6. StepFits(2)
  <2>1. /\ M1_002.creates = AuditTables /\ M1_002.drops = {} /\ M1_002.early = AuditTables
        /\ M1_002.undo = "tables"
    BY DEF M1_002
  <2>. QED
    BY <1>1, <1>2, <1>3, <1>4, <2>1, MigrationAt, RequiredSets, NewTables, PlainStep
<1>7. StepFits(3)
  <2>1. /\ M1_003.creates = AuthorityTables /\ M1_003.drops = {} /\ M1_003.early = AuthorityTables
        /\ M1_003.undo = "tables"
    BY DEF M1_003
  <2>. QED
    BY <1>1, <1>2, <1>3, <1>4, <2>1, MigrationAt, RequiredSets, NewTables, PlainStep
<1>8. StepFits(4)
  <2>1. /\ M1_004.creates = RegistryTables /\ M1_004.drops = {} /\ M1_004.early = RegistryTables
        /\ M1_004.undo = "tables"
    BY DEF M1_004
  <2>. QED
    BY <1>1, <1>2, <1>3, <1>4, <2>1, MigrationAt, RequiredSets, NewTables, PlainStep
<1>9. StepFits(5)
  <2>1. /\ M1_005.creates = InputTables /\ M1_005.drops = {} /\ M1_005.early = InputTables
        /\ M1_005.undo = "triggers"
    BY DEF M1_005
  <2>. QED
    BY <1>1, <2>1, MigrationAt, RequiredSets, NewTables, PlainStep
<1>10. StepFits(6)
  <2>1. /\ M1_006.creates = HandoffTables /\ M1_006.drops = {} /\ M1_006.early = HandoffTables
        /\ M1_006.undo = "triggers"
    BY DEF M1_006
  <2>. QED
    BY <1>1, <2>1, MigrationAt, RequiredSets, NewTables, PlainStep
<1>11. StepFits(7)
  <2>1. /\ M1_007.creates = ScopeTables /\ M1_007.drops = {} /\ M1_007.early = ScopeTables
        /\ M1_007.undo = "triggers"
    BY DEF M1_007
  <2>. QED
    BY <1>1, <2>1, MigrationAt, RequiredSets, NewTables, PlainStep
<1>12. StepFits(8)
  <2>1. /\ M1_008.creates = {} /\ M1_008.drops = {} /\ M1_008.early = {} /\ M1_008.undo = "triggers"
    BY DEF M1_008
  <2>2. PICK tables \in SUBSET SchemaTables : tables = {}
    BY <1>1
  <2>3. /\ Migration[8].creates = tables /\ Migration[8].drops = {} /\ Migration[8].early = tables
        /\ Migration[8].undo = M1_008.undo
    BY <2>1, <2>2, MigrationAt
  <2>4. Required[8] = Required[8 - 1] \cup tables /\ tables \cap Required[8 - 1] = {}
    BY <2>2, RequiredSets, NewTables
  <2>. QED
    BY <2>1, <2>3, <2>4, PlainStep
<1>13. StepFits(9)
  <2>1. /\ M1_009.creates = {} /\ M1_009.drops = {} /\ M1_009.early = {} /\ M1_009.undo = "triggers"
    BY DEF M1_009
  <2>2. PICK tables \in SUBSET SchemaTables : tables = {}
    BY <1>1
  <2>3. /\ Migration[9].creates = tables /\ Migration[9].drops = {} /\ Migration[9].early = tables
        /\ Migration[9].undo = M1_009.undo
    BY <2>1, <2>2, MigrationAt
  <2>4. Required[9] = Required[9 - 1] \cup tables /\ tables \cap Required[9 - 1] = {}
    BY <2>2, RequiredSets, NewTables
  <2>. QED
    BY <2>1, <2>3, <2>4, PlainStep
<1>14. StepFits(10)
  <2>1. /\ M2_001.creates = IdentityTables /\ M2_001.drops = {} /\ M2_001.early = IdentityTables
        /\ M2_001.undo = "triggers"
    BY DEF M2_001
  <2>. QED
    BY <1>1, <2>1, MigrationAt, RequiredSets, NewTables, PlainStep
<1>15. StepFits(11)
  <2>1. /\ M2_001a.creates = OAuthTables /\ M2_001a.drops = {} /\ M2_001a.early = OAuthTables
        /\ M2_001a.undo = "tables"
    BY DEF M2_001a
  <2>. QED
    BY <1>1, <1>2, <1>3, <1>4, <2>1, MigrationAt, RequiredSets, NewTables, PlainStep
<1>16. StepFits(12)
  <2>1. /\ M2_002.creates = SyncTables /\ M2_002.drops = {"identity_idempotency"}
        /\ M2_002.early = {"platform_idempotency"} /\ M2_002.undo = "triggers"
    BY DEF M2_002
  <2>2. "platform_idempotency" \in SyncTables
    BY DEF SyncTables
  <2>3. "identity_idempotency" \in SchemaTables
    BY NewTables, RequiredTypes
  <2>. QED
    BY <1>1, <2>1, <2>2, <2>3, MigrationAt, RequiredSets, NewTables DEF StepFits, HeadRevision
<1>17. StepFits(13)
  <2>1. /\ M2_003.creates = ConversationTables /\ M2_003.drops = {} /\ M2_003.early = ConversationTables
        /\ M2_003.undo = "triggers"
    BY DEF M2_003
  <2>2. /\ Migration[13].creates = ConversationTables /\ Migration[13].drops = {} /\ Migration[13].early = ConversationTables
        /\ Migration[13].undo = M2_003.undo
    BY <2>1, MigrationAt
  <2>3. ConversationTables \in SUBSET SchemaTables /\ Required[13] = Required[12] \cup ConversationTables /\ ConversationTables \cap Required[12] = {}
    BY <1>1, RequiredSets, NewTables
  <2>. QED
    BY <2>1, <2>2, <2>3, PlainStep
<1>. QED
  BY <1>5, <1>6, <1>7, <1>8, <1>9, <1>10, <1>11, <1>12, <1>13, <1>14, <1>15, <1>16, <1>17

(* The families of the manifests' versions.                                  *)
LEMMA FamilyFacts ==
    /\ FamilySets[1] = M1_004_Families /\ FamilySets[2] = M1_005_Families
    /\ FamilySets[3] = M1_006_Families /\ FamilySets[4] = M1_007_Families
    /\ FamilySets[5] = M1_007_Families \ PostCommitFamilies
    /\ FamilySets[6] = M1_007_Families
    /\ FamilySets[7] = FamilySets[6] \cup IdentityTables
    /\ FamilySets[8] = FamilySets[7] \cup SyncTables
    /\ FamilySets[9] = FamilySets[8] \cup ConversationTables
    /\ PostCommitFamilies \subseteq M1_007_Families
<1> DEFINE v1 == AuditTables \cup (AuthorityTables \ {"deployment_profiles"}) \cup {"projects"}
                 \cup (RegistryTables \ {"authority_state_root_leaf_families",
                                         "authority_state_root_leaf_commitments"})
           v2 == v1 \cup InputTables
           v3 == v2 \cup HandoffTables
           v4 == v3 \cup ScopeTables
           v7 == v4 \cup IdentityTables
           v8 == v7 \cup SyncTables
<1>1. /\ FamilySets[1] = v1 /\ FamilySets[2] = v2 /\ FamilySets[3] = v3 /\ FamilySets[4] = v4
      /\ FamilySets[5] = v4 \ {"audit_anchor_recovery_checkpoints", "audit_result_bindings"}
      /\ FamilySets[6] = v4 /\ FamilySets[7] = v7 /\ FamilySets[8] = v8
      /\ FamilySets[9] = v8 \cup ConversationTables
  BY DEF FamilySets
<1>2. v1 = M1_004_Families
  BY DEF AuditTables, AuthorityTables, RegistryTables, M1_004_Families
<1>3. /\ M1_005_Families = M1_004_Families \cup InputTables
      /\ M1_006_Families = M1_005_Families \cup HandoffTables
      /\ M1_007_Families = M1_006_Families \cup ScopeTables
  <2>1. M1_005_Families = M1_004_Families \cup InputTables
    BY DEF M1_005_Families, InputTables
  <2>2. M1_006_Families = M1_005_Families \cup HandoffTables
    BY DEF M1_006_Families, HandoffTables
  <2>3. M1_007_Families = M1_006_Families \cup ScopeTables
    BY DEF M1_007_Families, ScopeTables
  <2>. QED
    BY <2>1, <2>2, <2>3
<1>4. PostCommitFamilies \subseteq M1_004_Families
  BY DEF PostCommitFamilies, M1_004_Families
<1>5. v2 = v1 \cup InputTables /\ v3 = v2 \cup HandoffTables /\ v4 = v3 \cup ScopeTables
      /\ v7 = v4 \cup IdentityTables /\ v8 = v7 \cup SyncTables
  OBVIOUS
<1>6. {"audit_anchor_recovery_checkpoints", "audit_result_bindings"} = PostCommitFamilies
  BY DEF PostCommitFamilies
<1> HIDE DEF v1, v2, v3, v4, v7, v8
<1>7. v2 = M1_005_Families /\ v3 = M1_006_Families /\ v4 = M1_007_Families
  BY <1>2, <1>3, <1>5
<1>8. PostCommitFamilies \subseteq M1_007_Families
  BY <1>3, <1>4
<1>. QED
  BY <1>1, <1>2, <1>5, <1>6, <1>7, <1>8

(* They name tables.                                                         *)
LEMMA FamilyTypes == \A v \in 1..9 : FamilySets[v] \subseteq SchemaTables
<1>1. /\ IdentityTables \subseteq SchemaTables /\ SyncTables \subseteq SchemaTables
      /\ ConversationTables \subseteq SchemaTables /\ InputTables \subseteq SchemaTables
      /\ HandoffTables \subseteq SchemaTables /\ ScopeTables \subseteq SchemaTables
  BY DEF SchemaTables
<1>2. M1_004_Families \subseteq SchemaTables
  <2>1. M1_004_Families \subseteq AuditTables \cup AuthorityTables \cup {"projects"} \cup RegistryTables
    BY DEF M1_004_Families, AuditTables, AuthorityTables, RegistryTables
  <2>. QED
    BY <2>1 DEF SchemaTables
<1>3. M1_005_Families \subseteq M1_004_Families \cup InputTables
  BY DEF M1_005_Families, InputTables
<1>4. M1_006_Families \subseteq M1_005_Families \cup HandoffTables
  BY DEF M1_006_Families, HandoffTables
<1>5. M1_007_Families \subseteq M1_006_Families \cup ScopeTables
  BY DEF M1_007_Families, ScopeTables
<1>6. M1_005_Families \subseteq SchemaTables /\ M1_006_Families \subseteq SchemaTables /\ M1_007_Families \subseteq SchemaTables
  BY <1>1, <1>2, <1>3, <1>4, <1>5
<1>7. /\ FamilySets[1] \subseteq SchemaTables /\ FamilySets[2] \subseteq SchemaTables
      /\ FamilySets[3] \subseteq SchemaTables /\ FamilySets[4] \subseteq SchemaTables
      /\ FamilySets[5] \subseteq SchemaTables /\ FamilySets[6] \subseteq SchemaTables
      /\ FamilySets[7] \subseteq SchemaTables /\ FamilySets[8] \subseteq SchemaTables
      /\ FamilySets[9] \subseteq SchemaTables
  BY <1>1, <1>2, <1>6, FamilyFacts
<1>. QED
  BY <1>7

(* How many manifests a revision has, and which step writes one.             *)
CountFits(k) ==
    /\ Migration[k].seeds => ManifestCount(k) = ManifestCount(k - 1) + 1
    /\ ~Migration[k].seeds => ManifestCount(k) = ManifestCount(k - 1)
(* The number of manifests at each revision.                                 *)
LEMMA CountValues ==
    /\ ManifestCount(0) = 0 /\ ManifestCount(1) = 0 /\ ManifestCount(2) = 0 /\ ManifestCount(3) = 0
    /\ ManifestCount(4) = 1 /\ ManifestCount(5) = 2 /\ ManifestCount(6) = 3 /\ ManifestCount(7) = 4
    /\ ManifestCount(8) = 5 /\ ManifestCount(9) = 6 /\ ManifestCount(10) = 7 /\ ManifestCount(11) = 7
    /\ ManifestCount(12) = 8 /\ ManifestCount(13) = 9
BY DEF ManifestCount, LatestManifest

(* The count grows by one at a step that seeds and at no other.              *)
LEMMA CountFacts == \A k \in 1..13 : CountFits(k)
<1>1. /\ ManifestCount(1) = ManifestCount(1 - 1) /\ ManifestCount(2) = ManifestCount(2 - 1)
      /\ ManifestCount(3) = ManifestCount(3 - 1) /\ ManifestCount(11) = ManifestCount(11 - 1)
  BY CountValues
<1>2. /\ ManifestCount(4) = ManifestCount(4 - 1) + 1 /\ ManifestCount(5) = ManifestCount(5 - 1) + 1
      /\ ManifestCount(6) = ManifestCount(6 - 1) + 1 /\ ManifestCount(7) = ManifestCount(7 - 1) + 1
      /\ ManifestCount(8) = ManifestCount(8 - 1) + 1 /\ ManifestCount(9) = ManifestCount(9 - 1) + 1
      /\ ManifestCount(10) = ManifestCount(10 - 1) + 1 /\ ManifestCount(12) = ManifestCount(12 - 1) + 1
      /\ ManifestCount(13) = ManifestCount(13 - 1) + 1
  BY CountValues
<1>3. /\ Migration[1].seeds = FALSE /\ Migration[2].seeds = FALSE /\ Migration[3].seeds = FALSE
      /\ Migration[4].seeds = TRUE /\ Migration[5].seeds = TRUE /\ Migration[6].seeds = TRUE
      /\ Migration[7].seeds = TRUE /\ Migration[8].seeds = TRUE /\ Migration[9].seeds = TRUE
      /\ Migration[10].seeds = TRUE /\ Migration[11].seeds = FALSE /\ Migration[12].seeds = TRUE
      /\ Migration[13].seeds = TRUE
  <2>1. /\ M1_001.seeds = FALSE /\ M1_002.seeds = FALSE /\ M1_003.seeds = FALSE /\ M1_004.seeds = TRUE
        /\ M1_005.seeds = TRUE /\ M1_006.seeds = TRUE /\ M1_007.seeds = TRUE
    BY DEF M1_001, M1_002, M1_003, M1_004, M1_005, M1_006, M1_007
  <2>2. /\ M1_008.seeds = TRUE /\ M1_009.seeds = TRUE /\ M2_001.seeds = TRUE /\ M2_001a.seeds = FALSE
        /\ M2_002.seeds = TRUE /\ M2_003.seeds = TRUE
    BY DEF M1_008, M1_009, M2_001, M2_001a, M2_002, M2_003
  <2>. QED
    BY <2>1, <2>2, MigrationAt
<1>4. CountFits(1) /\ CountFits(2) /\ CountFits(3) /\ CountFits(11)
  BY <1>1, <1>3, Zenon DEF CountFits
<1>5. CountFits(4) /\ CountFits(5) /\ CountFits(6) /\ CountFits(7)
  BY <1>2, <1>3, Zenon DEF CountFits
<1>6. CountFits(8) /\ CountFits(9) /\ CountFits(10) /\ CountFits(12) /\ CountFits(13)
  BY <1>2, <1>3, Zenon DEF CountFits
<1>. QED
  BY <1>4, <1>5, <1>6

(* What a step that seeds writes: the families of its version.               *)
Prior(k) == IF ManifestCount(k - 1) = 0 THEN {} ELSE FamilySets[ManifestCount(k - 1)]
SeedFits(k) == Migration[k].seeds => Seed(k, Prior(k)) = FamilySets[ManifestCount(k)]
(* Each step that seeds writes the families of its version.                  *)
LEMMA SeedFacts == \A k \in 1..13 : SeedFits(k)
<1>1. /\ Prior(4) = {} /\ Prior(5) = FamilySets[1] /\ Prior(6) = FamilySets[2] /\ Prior(7) = FamilySets[3]
      /\ Prior(8) = FamilySets[4] /\ Prior(9) = FamilySets[5] /\ Prior(10) = FamilySets[6]
      /\ Prior(12) = FamilySets[7] /\ Prior(13) = FamilySets[8]
  BY CountValues DEF Prior
<1>2. ~Migration[1].seeds /\ ~Migration[2].seeds /\ ~Migration[3].seeds /\ ~Migration[11].seeds
  <2>1. M1_001.seeds = FALSE /\ M1_002.seeds = FALSE /\ M1_003.seeds = FALSE /\ M2_001a.seeds = FALSE
    BY DEF M1_001, M1_002, M1_003, M2_001a
  <2>. QED
    BY <2>1, MigrationAt
<1>3. SeedFits(1) /\ SeedFits(2) /\ SeedFits(3) /\ SeedFits(11)
  BY <1>2 DEF SeedFits
<1>4. \A prior : /\ Seed(4, prior) = M1_004_Families /\ Seed(5, prior) = M1_005_Families
                 /\ Seed(6, prior) = M1_006_Families /\ Seed(7, prior) = M1_007_Families
                 /\ Seed(8, prior) = prior \ PostCommitFamilies /\ Seed(9, prior) = prior \cup PostCommitFamilies
  BY DEF Seed
<1>5. \A prior : /\ Seed(10, prior) = prior \cup Migration[10].creates
                 /\ Seed(12, prior) = prior \cup Migration[12].creates
                 /\ Seed(13, prior) = prior \cup Migration[13].creates
  BY DEF Seed
<1>6. /\ Migration[10].creates = IdentityTables /\ Migration[12].creates = SyncTables
      /\ Migration[13].creates = ConversationTables
  <2>1. M2_001.creates = IdentityTables /\ M2_002.creates = SyncTables /\ M2_003.creates = ConversationTables
    BY DEF M2_001, M2_002, M2_003
  <2>. QED
    BY <2>1, MigrationAt
<1>7. SeedFits(4) /\ SeedFits(5) /\ SeedFits(6) /\ SeedFits(7)
  BY <1>1, <1>4, FamilyFacts, CountValues DEF SeedFits
<1>8. SeedFits(8)
  <2>1. FamilySets[4] \ PostCommitFamilies = FamilySets[5]
    BY FamilyFacts
  <2>2. Seed(8, FamilySets[4]) = FamilySets[4] \ PostCommitFamilies
    BY <1>4
  <2>. QED
    BY <1>1, <2>1, <2>2, CountValues DEF SeedFits
<1>9. SeedFits(9)
  <2>1. FamilySets[5] \cup PostCommitFamilies = FamilySets[6]
    BY FamilyFacts
  <2>2. Seed(9, FamilySets[5]) = FamilySets[5] \cup PostCommitFamilies
    BY <1>4
  <2>. QED
    BY <1>1, <2>1, <2>2, CountValues DEF SeedFits
<1>10. SeedFits(10)
  BY <1>1, <1>5, <1>6, FamilyFacts, CountValues DEF SeedFits
<1>11. SeedFits(12)
  BY <1>1, <1>5, <1>6, FamilyFacts, CountValues DEF SeedFits
<1>12. SeedFits(13)
  BY <1>1, <1>5, <1>6, FamilyFacts, CountValues DEF SeedFits
<1>. QED
  BY <1>3, <1>7, <1>8, <1>9, <1>10, <1>11, <1>12

(* The manifests of a revision.                                              *)
LEMMA ManifestsTypes ==
    ASSUME NEW k \in 0..13
    PROVE  /\ ManifestCount(k) \in 0..9
           /\ ManifestsAt(k) \in Seq(SUBSET SchemaTables) /\ Len(ManifestsAt(k)) = ManifestCount(k)
           /\ \A v \in 1..ManifestCount(k) : ManifestsAt(k)[v] = FamilySets[v]
<1>1. ManifestCount(k) \in 0..9
  <2>1. CASE k = 0
    BY <2>1 DEF ManifestCount
  <2>2. CASE k # 0
    BY <2>2, CountValues
  <2>. QED
    BY <2>1, <2>2
<1>2. \A v \in 1..ManifestCount(k) : FamilySets[v] \in SUBSET SchemaTables
  BY <1>1, FamilyTypes
<1>. QED
  BY <1>1, <1>2 DEF ManifestsAt

(* A step appends the manifest of its revision, and going back removes it.   *)
LEMMA ManifestsStep ==
    ASSUME NEW k \in 1..13
    PROVE  /\ Migration[k].seeds =>
                 /\ Append(ManifestsAt(k - 1), Seed(k, Latest(ManifestsAt(k - 1)))) = ManifestsAt(k)
                 /\ SubSeq(ManifestsAt(k), 1, Len(ManifestsAt(k)) - 1) = ManifestsAt(k - 1)
           /\ ~Migration[k].seeds => ManifestsAt(k - 1) = ManifestsAt(k)
<1> DEFINE old == ManifestsAt(k - 1)
           new == ManifestsAt(k)
           n == ManifestCount(k - 1)
<1>0. k - 1 \in 0..13 /\ k \in 0..13
  OBVIOUS
<1>1. n \in 0..9 /\ old \in Seq(SUBSET SchemaTables) /\ Len(old) = n /\ \A v \in 1..n : old[v] = FamilySets[v]
  BY <1>0, ManifestsTypes
<1>2. /\ ManifestCount(k) \in 0..9 /\ new \in Seq(SUBSET SchemaTables) /\ Len(new) = ManifestCount(k)
      /\ \A v \in 1..ManifestCount(k) : new[v] = FamilySets[v]
  BY <1>0, ManifestsTypes
<1>3. /\ Migration[k].seeds => ManifestCount(k) = n + 1
      /\ ~Migration[k].seeds => ManifestCount(k) = n
  BY CountFacts DEF CountFits
<1>4. Latest(old) = IF n = 0 THEN {} ELSE FamilySets[n]
  BY <1>1 DEF Latest
<1>5. Migration[k].seeds => Seed(k, Latest(old)) = FamilySets[ManifestCount(k)]
  BY <1>4, SeedFacts DEF SeedFits, Prior
<1> DEFINE last == Seed(k, Latest(old))
<1> HIDE DEF old, new, n, last
<1>6. ASSUME Migration[k].seeds PROVE Append(old, last) = new
  <2>1. last = FamilySets[n + 1] /\ last \in SUBSET SchemaTables
    BY <1>1, <1>3, <1>5, <1>6, <1>2, FamilyTypes DEF last
  <2>2. /\ Append(old, last) \in Seq(SUBSET SchemaTables) /\ Len(Append(old, last)) = n + 1
        /\ \A v \in 1..n : Append(old, last)[v] = old[v]
        /\ Append(old, last)[n + 1] = last
    BY <1>1, <2>1
  <2>3. \A v \in 1..(n + 1) : Append(old, last)[v] = new[v]
    BY <1>1, <1>2, <1>3, <1>6, <2>1, <2>2
  <2>. QED
    BY <1>2, <1>3, <1>6, <2>2, <2>3, SeqEqual
<1>7. ASSUME Migration[k].seeds PROVE SubSeq(new, 1, Len(new) - 1) = old
  <2>1. Len(new) = n + 1 /\ Len(new) - 1 = n
    BY <1>1, <1>2, <1>3, <1>7
  <2>2. /\ SubSeq(new, 1, n) \in Seq(SUBSET SchemaTables) /\ Len(SubSeq(new, 1, n)) = n
        /\ \A v \in 1..n : SubSeq(new, 1, n)[v] = new[v]
    BY <1>1, <1>2, <2>1
  <2>3. \A v \in 1..n : SubSeq(new, 1, n)[v] = old[v]
    BY <1>1, <1>2, <1>3, <1>7, <2>2
  <2>. QED
    BY <1>1, <2>1, <2>2, <2>3, SeqEqual
<1>8. ASSUME ~Migration[k].seeds PROVE old = new
  BY <1>1, <1>2, <1>3, <1>8, SeqEqual
<1>. QED
  BY <1>6, <1>7, <1>8 DEF old, new, last

(* What makes a database of the present product line current.                *)
Complete(d) ==
    /\ d.version = 2 /\ d.armed
    /\ \E k \in 0..HeadRevision :
          d.tables = Required[k] /\ (k > 0 => d.revision = k) /\ (k > 3 => ManifestsMatch(d, k))
(* With its base tables there, a database is current when it is complete and *)
(* partial otherwise.                                                        *)
LEMMA ClassifyComplete ==
    ASSUME NEW d, d.file, Base \subseteq d.tables
    PROVE  Classify(d) \in {"current", "partial"} /\ (Classify(d) = "current" <=> Complete(d))
<1>1. "external_contents" \in d.tables
  BY DEF Base, M005Tables
<1>2. "external_contents" \notin V1Tables \cup {"corvus_schema"}
  BY DEF V1Tables
<1>3. d.tables # {} /\ d.tables # V1Tables /\ d.tables # V1Tables \cup {"corvus_schema"}
  BY <1>1, <1>2
<1>. QED
  BY <1>3 DEF Classify, Complete, TriggersMatch

(* The classes of a database of the first product line.                      *)
LEMMA ClassifySimple ==
    ASSUME NEW d
    PROVE  /\ ~d.file /\ d.tables = {} => Classify(d) = "new"
           /\ d.file /\ d.tables = V1Tables => Classify(d) = "unstamped_v1"
           /\ d.file /\ d.tables = V1Tables \cup {"corvus_schema"} /\ d.version = 1
                => Classify(d) = "migration_required"
<1>1. V1Tables # {} /\ V1Tables \cup {"corvus_schema"} # {} /\ V1Tables \cup {"corvus_schema"} # V1Tables
  BY DEF V1Tables
<1>2. \A k \in 0..HeadRevision : "external_contents" \in Required[k]
  BY RequiredTypes DEF Base, M005Tables, HeadRevision
<1>3. "external_contents" \notin V1Tables \cup {"corvus_schema"}
  BY DEF V1Tables
<1>4. \A k \in 0..HeadRevision : V1Tables # Required[k] /\ V1Tables \cup {"corvus_schema"} # Required[k]
  BY <1>2, <1>3
<1>5. ASSUME ~d.file, d.tables = {} PROVE Classify(d) = "new"
  BY <1>1, <1>2, <1>5 DEF Classify
<1>6. ASSUME d.file, d.tables = V1Tables PROVE Classify(d) = "unstamped_v1"
  BY <1>1, <1>4, <1>6 DEF Classify
<1>7. ASSUME d.file, d.tables = V1Tables \cup {"corvus_schema"}, d.version = 1 PROVE Classify(d) = "migration_required"
  BY <1>1, <1>4, <1>7 DEF Classify
<1>. QED
  BY <1>5, <1>6, <1>7

(* A database on which every step committed is current.                      *)
LEMMA SettledCurrent ==
    ASSUME NEW k \in 0..13, NEW d, Settled(d, k)
    PROVE  Classify(d) = "current" /\ d.version = 2 /\ d.file
<1>1. /\ d.file /\ d.version = 2 /\ d.revision = k /\ d.manifests = ManifestsAt(k)
      /\ d.tables = Required[k] /\ d.armed
  BY DEF Settled, Stage
<1>2. Base \subseteq d.tables
  BY <1>1, RequiredTypes
<1>3. k > 3 => ManifestsMatch(d, k)
  <2>1. SUFFICES ASSUME k > 3 PROVE ManifestsMatch(d, k)
    OBVIOUS
  <2>2. ManifestCount(k) = LatestManifest[k]
    BY <2>1 DEF ManifestCount
  <2>3. Len(d.manifests) = LatestManifest[k] /\ DOMAIN d.manifests = 1..ManifestCount(k)
    <3>1. d.manifests \in Seq(SUBSET SchemaTables) /\ Len(d.manifests) = ManifestCount(k)
      BY <1>1, ManifestsTypes
    <3>. QED
      BY <2>2, <3>1, LenProperties
  <2>4. \A v \in 1..ManifestCount(k) : d.manifests[v] = FamilySets[v]
    BY <1>1, ManifestsTypes
  <2>. QED
    BY <2>3, <2>4 DEF ManifestsMatch
<1>. QED
  BY <1>1, <1>2, <1>3, ClassifyComplete DEF Complete, HeadRevision

(* A database in the middle of a step never is.                              *)
LEMMA UnarmedPartial ==
    ASSUME NEW d, d.file, Base \subseteq d.tables, ~d.armed
    PROVE  Classify(d) # "current"
BY ClassifyComplete DEF Complete

(* Nor is one with tables of the next revision, or without some of its own.  *)
LEMMA OtherTables ==
    ASSUME NEW d, NEW k \in 0..13, d.file, d.revision = k, Base \subseteq d.tables, d.tables # Required[k], d.tables # Base
    PROVE  Classify(d) # "current"
<1>1. SUFFICES ASSUME Complete(d) PROVE FALSE
  BY ClassifyComplete
<1>2. PICK j \in 0..HeadRevision : d.tables = Required[j] /\ (j > 0 => d.revision = j)
  BY <1>1 DEF Complete
<1>3. CASE j = 0
  BY <1>2, <1>3, RequiredSets
<1>4. CASE j # 0
  BY <1>2, <1>4 DEF HeadRevision
<1>. QED
  BY <1>3, <1>4

(* The stages of a step are not current.                                     *)
LEMMA CreatingPartial ==
    ASSUME NEW k \in 1..13, NEW d, Creating(d, k)
    PROVE  Classify(d) # "current" /\ d.file /\ d.version = 2 /\ Base \subseteq d.tables
           /\ d.revision = k - 1 /\ ~d.armed
<1>1. PICK t \in Migration[k].early : Stage(d, k - 1, Required[k - 1] \cup {t}, FALSE)
  BY DEF Creating
<1>2. Base \subseteq Required[k - 1]
  <2>1. k - 1 \in 0..13
    OBVIOUS
  <2>. QED
    BY <2>1, RequiredTypes
<1>3. d.file /\ d.version = 2 /\ Base \subseteq d.tables /\ ~d.armed /\ d.revision = k - 1
  BY <1>1, <1>2 DEF Stage
<1>. QED
  BY <1>3, UnarmedPartial

(* The second stage.                                                         *)
LEMMA BuiltPartial ==
    ASSUME NEW k \in 1..13, NEW d, Built(d, k)
    PROVE  Classify(d) # "current" /\ d.file /\ d.version = 2 /\ Base \subseteq d.tables
           /\ d.revision = k - 1
<1>1. /\ d.file /\ d.version = 2 /\ d.revision = k - 1 /\ d.tables = Required[k - 1] \cup Migration[k].early
      /\ Migration[k].early # {}
  BY DEF Built, Stage
<1>2. k - 1 \in 0..13
  OBVIOUS
<1>3. Base \subseteq Required[k - 1]
  BY <1>2, RequiredTypes
<1>4. PICK t \in Migration[k].early : t \notin Required[k - 1]
  BY <1>1, StepsFit DEF StepFits
<1>5. d.tables # Required[k - 1] /\ d.tables # Base /\ Base \subseteq d.tables
  BY <1>1, <1>3, <1>4
<1>. QED
  BY <1>1, <1>2, <1>5, OtherTables

(* A downgrade in the middle of a step.                                      *)
LEMMA UndonePartial ==
    ASSUME NEW k \in 1..13, NEW d, Undone(d, k)
    PROVE  Classify(d) # "current" /\ d.file /\ d.version = 2 /\ Base \subseteq d.tables
           /\ d.revision = k /\ (k = HeadRevision => ~d.armed) /\ d.manifests = ManifestsAt(k)
<1>1. StepFits(k) /\ k > 1
  BY StepsFit DEF Undone
<1>2. Base \subseteq Required[k] /\ Base \subseteq Required[k - 1]
  <2>1. k - 1 \in 0..13 /\ k \in 0..13
    OBVIOUS
  <2>. QED
    BY <2>1, RequiredTypes
<1>3. CASE Migration[k].undo = "triggers"
  <2>1. Stage(d, k, Required[k], FALSE)
    BY <1>3 DEF Undone
  <2>2. d.file /\ d.version = 2 /\ Base \subseteq d.tables /\ ~d.armed /\ d.revision = k /\ d.manifests = ManifestsAt(k)
    BY <1>2, <2>1 DEF Stage
  <2>. QED
    BY <2>2, UnarmedPartial
<1>4. CASE Migration[k].undo # "triggers"
  <2>1. PICK dropped \in SUBSET Migration[k].creates : dropped # {} /\ Stage(d, k, Required[k] \ dropped, TRUE)
    BY <1>4 DEF Undone
  <2>2. d.file /\ d.version = 2 /\ d.tables = Required[k] \ dropped /\ d.revision = k /\ d.manifests = ManifestsAt(k)
    BY <2>1 DEF Stage
  <2>3. /\ Migration[k].creates \subseteq Required[k] /\ Migration[k].drops = {}
        /\ "projects" \in Required[k] /\ "projects" \notin Migration[k].creates /\ k # HeadRevision
        /\ Required[k] \ Migration[k].creates = Required[k - 1]
    BY <1>1, <1>4 DEF StepFits
  <2>4. "projects" \notin Base
    BY DEF Base, V1Tables, M005Tables
  <2>5. Base \subseteq d.tables /\ d.tables # Base /\ d.tables # Required[k]
    BY <1>2, <2>1, <2>2, <2>3, <2>4
  <2>. QED
    BY <2>2, <2>3, <2>5, OtherTables
<1>. QED
  BY <1>3, <1>4

(* The constant files.                                                       *)
LEMMA ConstantFiles ==
    /\ NoFile \in Files /\ SimpleFile(NoFile) /\ ~NoFile.file /\ NoFile.rows = {} /\ NoFile.version = 0
    /\ NewFile \in Files /\ SimpleFile(NewFile) /\ NewFile.file /\ NewFile.rows = {} /\ NewFile.hist = {}
    /\ NewFile.version = 2
    /\ LegacyFile \in Files /\ SimpleFile(LegacyFile) /\ LegacyFile.rows = {"legacy"} /\ LegacyFile.version = 0
    /\ StampedFile \in Files /\ SimpleFile(StampedFile) /\ StampedFile.rows = {"legacy"} /\ StampedFile.version = 1
<1>1. Base \subseteq SchemaTables /\ V1Tables \subseteq SchemaTables /\ V1Tables \cup {"corvus_schema"} \subseteq SchemaTables
  BY DEF SchemaTables, Base
<1>2. <<>> \in Seq(SUBSET SchemaTables) /\ 0 \in 0..HeadRevision /\ "legacy" \in Users \cup {"legacy"}
  BY DEF HeadRevision
<1>3. NoFile = [file |-> FALSE, tables |-> {}, version |-> 0, revision |-> 0,
                manifests |-> <<>>, armed |-> TRUE, rows |-> {}, hist |-> {}]
  BY DEF NoFile
<1>4. NoFile \in Files /\ SimpleFile(NoFile) /\ ~NoFile.file /\ NoFile.rows = {} /\ NoFile.version = 0
  BY <1>2, <1>3 DEF Files, SimpleFile
<1>5. PICK none \in Files : none = NoFile
  BY <1>4
<1>6. NewFile = [none EXCEPT !.file = TRUE, !.tables = Base, !.version = 2]
  BY <1>5 DEF NewFile
<1>7. LegacyFile = [none EXCEPT !.file = TRUE, !.tables = V1Tables, !.rows = {"legacy"}]
  BY <1>5 DEF LegacyFile
<1>8. none.revision = 0 /\ none.manifests = <<>> /\ none.armed /\ none.hist = {} /\ none.rows = {} /\ none.version = 0
  BY <1>3, <1>5
<1>9. /\ NewFile \in Files /\ NewFile.file /\ NewFile.tables = Base /\ NewFile.version = 2 /\ NewFile.revision = 0
      /\ NewFile.manifests = <<>> /\ NewFile.armed /\ NewFile.hist = {} /\ NewFile.rows = {}
  <2>1. NewFile \in Files
    <3>1. PICK two \in 0..2 : two = 2
      OBVIOUS
    <3>2. PICK tables \in SUBSET SchemaTables : tables = Base
      BY <1>1
    <3>3. NewFile = [none EXCEPT !.file = TRUE, !.tables = tables, !.version = two]
      BY <1>6, <3>1, <3>2
    <3>. QED
      BY <3>3 DEF Files
  <2>2. NewFile.file /\ NewFile.tables = Base /\ NewFile.version = 2
    BY <1>6 DEF Files
  <2>3. /\ NewFile.revision = none.revision /\ NewFile.manifests = none.manifests /\ NewFile.armed = none.armed
        /\ NewFile.hist = none.hist /\ NewFile.rows = none.rows
    BY <1>6 DEF Files
  <2>. QED
    BY <1>8, <2>1, <2>2, <2>3
<1>10. /\ LegacyFile \in Files /\ LegacyFile.file /\ LegacyFile.tables = V1Tables /\ LegacyFile.version = 0
       /\ LegacyFile.revision = 0 /\ LegacyFile.manifests = <<>> /\ LegacyFile.armed /\ LegacyFile.hist = {}
       /\ LegacyFile.rows = {"legacy"}
  BY <1>1, <1>2, <1>7, <1>8 DEF Files
<1>11. PICK old \in Files : old = LegacyFile
  BY <1>10
<1>12. StampedFile = [old EXCEPT !.tables = V1Tables \cup {"corvus_schema"}, !.version = 1]
  BY <1>11 DEF StampedFile
<1>13. /\ StampedFile \in Files /\ StampedFile.file /\ StampedFile.tables = V1Tables \cup {"corvus_schema"}
       /\ StampedFile.version = 1 /\ StampedFile.revision = 0 /\ StampedFile.manifests = <<>> /\ StampedFile.armed
       /\ StampedFile.hist = {} /\ StampedFile.rows = {"legacy"}
  <2>1. StampedFile \in Files
    <3>1. PICK one \in 0..2 : one = 1
      OBVIOUS
    <3>2. PICK tables \in SUBSET SchemaTables : tables = V1Tables \cup {"corvus_schema"}
      BY <1>1
    <3>3. StampedFile = [old EXCEPT !.tables = tables, !.version = one]
      BY <1>12, <3>1, <3>2
    <3>. QED
      BY <3>3 DEF Files
  <2>2. StampedFile.tables = V1Tables \cup {"corvus_schema"} /\ StampedFile.version = 1
    BY <1>12 DEF Files
  <2>3. /\ StampedFile.revision = old.revision /\ StampedFile.manifests = old.manifests
        /\ StampedFile.armed = old.armed /\ StampedFile.hist = old.hist /\ StampedFile.rows = old.rows
        /\ StampedFile.file = old.file
    BY <1>12 DEF Files
  <2>. QED
    BY <1>10, <1>11, <2>1, <2>2, <2>3
<1>14. SimpleFile(NewFile)
  BY <1>9 DEF SimpleFile
<1>15. SimpleFile(LegacyFile)
  BY <1>10 DEF SimpleFile
<1>16. SimpleFile(StampedFile)
  BY <1>13 DEF SimpleFile
<1>. QED
  BY <1>4, <1>9, <1>10, <1>13, <1>14, <1>15, <1>16

(* A new database is the one of revision 0.                                  *)
LEMMA SimpleSettled ==
    ASSUME NEW d, SimpleFile(d), d.version = 2
    PROVE  Settled(d, 0) /\ d.file /\ Classify(d) = "current"
<1>1. d.file /\ d.tables = Base /\ d.revision = 0 /\ d.manifests = <<>> /\ d.armed
  BY DEF SimpleFile
<1>2. ManifestCount(0) = 0
  BY CountValues
<1>3. ManifestsAt(0) = <<>>
  <2>1. ManifestsAt(0) \in Seq(SUBSET SchemaTables) /\ Len(ManifestsAt(0)) = 0
    BY <1>2, ManifestsTypes
  <2>. QED
    BY <2>1, EmptySeq
<1>4. Settled(d, 0)
  BY <1>1, <1>3, RequiredSets DEF Settled, Stage
<1>. QED
  BY <1>1, <1>4, SettledCurrent

(* What the classification says of a file without milestones.                *)
LEMMA SimpleClasses ==
    ASSUME NEW d, SimpleFile(d)
    PROVE  /\ ~d.file => Classify(d) = "new"
           /\ d.file /\ d.version = 0 => Classify(d) = "unstamped_v1" /\ LegacyOf(d, "stamp")
           /\ d.version = 1 => Classify(d) = "migration_required" /\ LegacyOf(d, "m005") /\ d.file
           /\ d.version = 2 => Classify(d) = "current" /\ d.file
           /\ d.version \in 0..2
<1>1. CASE ~d.file /\ d.tables = {} /\ d.version = 0
  BY <1>1, ClassifySimple
<1>2. CASE d.file /\ d.tables = V1Tables /\ d.version = 0 /\ "legacy" \in d.rows
  BY <1>2, ClassifySimple DEF LegacyOf
<1>3. CASE d.file /\ d.tables = V1Tables \cup {"corvus_schema"} /\ d.version = 1 /\ "legacy" \in d.rows
  BY <1>3, ClassifySimple DEF LegacyOf
<1>4. CASE d.file /\ d.tables = Base /\ d.version = 2
  BY <1>4, SimpleSettled
<1>. QED
  BY <1>1, <1>2, <1>3, <1>4 DEF SimpleFile

(* A file of the first product line has its class.                           *)
LEMMA LegacyClass ==
    ASSUME NEW d, NEW j \in Jobs, LegacyOf(d, j)
    PROVE  Classify(d) = Expected(j) /\ d.version # 2 /\ d.file /\ "legacy" \in d.rows
<1>1. CASE j = "m005"
  BY <1>1, ClassifySimple DEF LegacyOf, Expected
<1>2. CASE j = "stamp"
  BY <1>2, ClassifySimple DEF LegacyOf, Expected
<1>. QED
  BY <1>1, <1>2 DEF Jobs

(* What the classification says of the database.                             *)
LEMMA DbClasses ==
    ASSUME NEW c, NEW d, NEW u \in BOOLEAN, DbGood(c, d, u)
    PROVE  /\ ~d.file <=> Classify(d) = "new"
           /\ Classify(d) = "current" <=> d.version = 2 /\ ~u
           /\ \A j \in Jobs : Classify(d) = Expected(j) => LegacyOf(d, j) /\ SimpleFile(d)
           /\ ~d.file => SimpleFile(d)
           /\ d.version = 2 => d.file
<1>1. CASE d.version # 2
  <2>1. SimpleFile(d)
    BY <1>1 DEF DbGood
  <2>2. CASE ~d.file
    BY <1>1, <2>1, <2>2, SimpleClasses DEF Expected
  <2>3. CASE d.file /\ d.version = 0
    BY <1>1, <2>1, <2>3, SimpleClasses DEF Expected, Jobs
  <2>4. CASE d.version = 1
    BY <1>1, <2>1, <2>4, SimpleClasses DEF Expected, Jobs
  <2>. QED
    BY <1>1, <2>1, <2>2, <2>3, <2>4, SimpleClasses
<1>2. CASE d.version = 2 /\ ~u
  <2>1. PICK k \in 0..13 : Settled(d, k)
    BY <1>2 DEF DbGood, HeadRevision
  <2>2. Classify(d) = "current" /\ d.file
    BY <2>1, SettledCurrent
  <2>. QED
    BY <1>2, <2>2 DEF Expected
<1>3. CASE d.version = 2 /\ u
  <2>1. d.file /\ Base \subseteq d.tables /\ Classify(d) # "current"
    BY <1>3 DEF DbGood
  <2>2. Classify(d) = "partial"
    BY <2>1, ClassifyComplete
  <2>. QED
    BY <1>3, <2>1, <2>2 DEF Expected
<1>. QED
  BY <1>1, <1>2, <1>3

(* Two files with the same schema are classified alike.                      *)
SameSchema(d, e) ==
    /\ d.file = e.file /\ d.tables = e.tables /\ d.version = e.version /\ d.revision = e.revision
    /\ d.manifests = e.manifests /\ d.armed = e.armed
(* Rows and histories play no part in the class of a database.               *)
LEMMA SameSchemaClass ==
    ASSUME NEW d, NEW e, SameSchema(d, e)
    PROVE  Classify(e) = Classify(d)
BY DEF SameSchema, Classify, TriggersMatch, ManifestsMatch

(* Nor in the stage of a step it is at.                                      *)
LEMMA SameSchemaStages ==
    ASSUME NEW d, NEW e, SameSchema(d, e), NEW k
    PROVE  /\ Settled(d, k) => Settled(e, k)
           /\ Creating(d, k) => Creating(e, k)
           /\ Built(d, k) => Built(e, k)
           /\ Undone(d, k) => Undone(e, k)
<1>1. \A r, tables, armed : Stage(d, r, tables, armed) => Stage(e, r, tables, armed)
  BY DEF SameSchema, Stage
<1>2. Settled(d, k) => Settled(e, k)
  BY <1>1 DEF Settled
<1>3. Creating(d, k) => Creating(e, k)
  BY <1>1 DEF Creating
<1>4. Built(d, k) => Built(e, k)
  BY <1>1 DEF Built
<1>5. Undone(d, k) => Undone(e, k)
  BY <1>1 DEF Undone
<1>. QED
  BY <1>2, <1>3, <1>4, <1>5

(* The records of a process.                                                 *)
LEMMA RestRecord ==
    /\ AtRest \in JobRecords /\ AtRest.pc = "idle" /\ ~AtRest.orphan /\ AtRest.copy = Nil /\ AtRest.late = {}
    /\ AtRest.raced = {} /\ AtRest.job = "none"
BY DEF AtRest, JobRecords, Pcs, Publishing, HeadRevision

(* The changes of a record, each to some of its fields.                      *)
SetsPc(r, s, pc) == r = [s EXCEPT !.pc = pc]
SetsCopy(r, s, pc, copy) == r = [s EXCEPT !.pc = pc, !.copy = copy]
SetsJob(r, s, pc, job) == r = [s EXCEPT !.pc = pc, !.job = job]
SetsStep(r, s, pc, k) == r = [s EXCEPT !.pc = pc, !.step = k]
SetsTarget(r, s, pc, k, t) == r = [s EXCEPT !.pc = pc, !.step = k, !.target = t]
SetsRaced(r, s, pc, k) == r = [s EXCEPT !.pc = pc, !.step = k, !.raced = {}]

(* Another place in its program.                                             *)
LEMMA JobAt ==
    ASSUME NEW r, NEW s \in JobRecords, NEW pc \in Pcs, SetsPc(r, s, pc)
    PROVE  /\ r \in JobRecords /\ r.pc = pc /\ r.job = s.job /\ r.copy = s.copy /\ r.step = s.step
           /\ r.target = s.target /\ r.orphan = s.orphan /\ r.late = s.late /\ r.raced = s.raced
BY DEF JobRecords, SetsPc

(* The file it works on.                                                     *)
LEMMA JobWithCopy ==
    ASSUME NEW r, NEW s \in JobRecords, NEW pc \in Pcs, NEW copy \in Files \cup {Nil}, SetsCopy(r, s, pc, copy)
    PROVE  /\ r \in JobRecords /\ r.pc = pc /\ r.job = s.job /\ r.copy = copy /\ r.orphan = s.orphan
BY DEF JobRecords, SetsCopy

(* The job it is at.                                                         *)
LEMMA JobWithName ==
    ASSUME NEW r, NEW s \in JobRecords, NEW pc \in Pcs, NEW job \in Jobs, SetsJob(r, s, pc, job)
    PROVE  /\ r \in JobRecords /\ r.pc = pc /\ r.job = job /\ r.copy = s.copy /\ r.orphan = s.orphan
BY DEF JobRecords, SetsJob

(* The step it is at.                                                        *)
LEMMA JobWithStep ==
    ASSUME NEW r, NEW s \in JobRecords, NEW pc \in Pcs, NEW k \in 0..HeadRevision, SetsStep(r, s, pc, k)
    PROVE  /\ r \in JobRecords /\ r.pc = pc /\ r.step = k /\ r.orphan = s.orphan
BY DEF JobRecords, SetsStep

(* The revision it goes down to.                                             *)
LEMMA JobWithTarget ==
    ASSUME NEW r, NEW s \in JobRecords, NEW pc \in Pcs, NEW k \in 0..HeadRevision, NEW t \in 0..HeadRevision, SetsTarget(r, s, pc, k, t)
    PROVE  /\ r \in JobRecords /\ r.pc = pc /\ r.step = k /\ r.target = t /\ r.orphan = s.orphan
           /\ r.late = s.late
BY DEF JobRecords, SetsTarget

(* The next step of a downgrade.                                             *)
LEMMA JobWithRaced ==
    ASSUME NEW r, NEW s \in JobRecords, NEW pc \in Pcs, NEW k \in 0..HeadRevision, SetsRaced(r, s, pc, k)
    PROVE  /\ r \in JobRecords /\ r.pc = pc /\ r.step = k /\ r.target = s.target /\ r.orphan = s.orphan
           /\ r.late = s.late /\ r.raced = {}
BY DEF JobRecords, SetsRaced

(* The assumptions of a process under a longer list of overlaps.             *)
LEMMA StepWeakens ==
    ASSUME NEW p, NEW s, NEW c, NEW d, NEW b, NEW u, NEW o, NEW o2 \in SUBSET {"publish", "backup"}, o \subseteq o2,
           StepGood(p, s, c, d, b, u, o)
    PROVE  StepGood(p, s, c, d, b, u, o2)
<1>1. o2 = {} => o = {}
  OBVIOUS
<1>2. StartGood(s, c, o2)
  BY <1>1 DEF StepGood, StartGood
<1>3. BackupGood(s, c, d, b, o2)
  BY <1>1 DEF StepGood, BackupGood
<1>. QED
  BY <1>2, <1>3 DEF StepGood

(* A process at rest, and one with the platform open.                        *)
LEMMA RestGood ==
    ASSUME NEW p, NEW s, NEW c, NEW d, NEW b, NEW u, NEW o, s.pc \in {"idle", "initialize"} \/ (s.pc = "open" /\ d.file)
    PROVE  StepGood(p, s, c, d, b, u, o)
<1>1. StartGood(s, c, o)
  BY DEF StartGood
<1>2. BackupGood(s, c, d, b, o)
  BY DEF BackupGood, BackupSteps
<1>3. MilestoneGood(p, s, c, d, u)
  BY DEF MilestoneGood, MigrationSteps, DowngradeSteps
<1>. QED
  BY <1>1, <1>2, <1>3 DEF StepGood

(* A step that only changes what one process is doing.                       *)
LEMMA JobStep ==
    ASSUME SchemaInv, NEW p \in Users, NEW r \in JobRecords, starter' = [starter EXCEPT ![p] = r],
           UNCHANGED <<course, db, bak, acked, unfinished>>,
           overlap \subseteq overlap', overlap' \in SUBSET {"publish", "backup"},
           StepGood(p, r, course, db, bak, unfinished, overlap'),
           "publish" \notin overlap' => ~r.orphan,
           "publish" \notin overlap' /\ r.pc \in Publishing =>
              ~db.file /\ \A q \in Users \ {p} : starter[q].pc \notin Publishing,
           "backup" \notin overlap' /\ r.pc \in BackupSteps =>
              \A q \in Users \ {p} : starter[q].pc \notin BackupSteps
    PROVE  SchemaInv'
<1>1. starter \in [Users -> JobRecords] /\ starter' \in [Users -> JobRecords]
  BY DEF SchemaInv, SchemaTypes
<1>2. starter'[p] = r /\ \A q \in Users \ {p} : starter'[q] = starter[q]
  BY <1>1
<1>3. SchemaTypes'
  BY <1>1 DEF SchemaInv, SchemaTypes
<1>4. DbInv'
  BY DEF SchemaInv, DbInv
<1>5. overlap' = {} => overlap = {}
  OBVIOUS
<1>6. BakInv'
  BY <1>5 DEF SchemaInv, BakInv, BakGood
<1>7. \A q \in Users : StepInv(q)'
  <2>1. SUFFICES ASSUME NEW q \in Users PROVE StepGood(q, starter'[q], course, db, bak, unfinished, overlap')
    BY DEF StepInv
  <2>2. CASE q = p
    BY <1>2, <2>2
  <2>3. CASE q # p
    <3>1. StepGood(q, starter[q], course, db, bak, unfinished, overlap)
      BY DEF SchemaInv, StepInv
    <3>. QED
      BY <1>2, <2>3, <3>1, StepWeakens
  <2>. QED
    BY <2>2, <2>3
<1>8. ApartInv'
  <2>1. ApartGood(starter, db, acked, overlap)
    BY DEF SchemaInv, ApartInv
  <2>2. ASSUME "publish" \notin overlap'
        PROVE  /\ \A q1, q2 \in Users : starter'[q1].pc \in Publishing /\ starter'[q2].pc \in Publishing => q1 = q2
               /\ \A q \in Users : starter'[q].pc \in Publishing => ~db.file
               /\ \A q \in Users : ~starter'[q].orphan
               /\ ~db.file => acked = {}
    <3>1. "publish" \notin overlap
      BY <2>2
    <3>. QED
      BY <1>2, <2>1, <2>2, <3>1 DEF ApartGood
  <2>3. ASSUME "backup" \notin overlap'
        PROVE  \A q1, q2 \in Users : starter'[q1].pc \in BackupSteps /\ starter'[q2].pc \in BackupSteps => q1 = q2
    <3>1. "backup" \notin overlap
      BY <2>3
    <3>. QED
      BY <1>2, <2>1, <2>3, <3>1 DEF ApartGood
  <2>4. ApartGood(starter', db, acked, overlap')
    BY <2>2, <2>3 DEF ApartGood
  <2>. QED
    BY <2>4 DEF ApartInv
<1>9. RowsSurvive' /\ MigratedHasBackup' /\ HistoryKept'
  <2>1. RowsSurvive'
    BY DEF SchemaInv, RowsSurvive
  <2>2. MigratedHasBackup'
    BY <1>5 DEF SchemaInv, MigratedHasBackup
  <2>3. HistoryKept'
    BY DEF SchemaInv, HistoryKept
  <2>. QED
    BY <2>1, <2>2, <2>3
<1>. QED
  BY <1>3, <1>4, <1>6, <1>7, <1>8, <1>9 DEF SchemaInv

(* What the invariant says of one process.                                   *)
LEMMA JobFacts ==
    ASSUME SchemaInv, NEW p \in Users
    PROVE  /\ db \in Files /\ starter[p] \in JobRecords /\ unfinished \in BOOLEAN
           /\ overlap \in SUBSET {"publish", "backup"}
           /\ DbGood(course, db, unfinished)
           /\ StepGood(p, starter[p], course, db, bak, unfinished, overlap)
           /\ "publish" \notin overlap => ~starter[p].orphan
           /\ \A j \in Jobs : bak[j].content \in Files \cup {Nil} /\ bak[j].digest \in Files \cup {Nil}
BY DEF SchemaInv, SchemaTypes, DbInv, ApartInv, ApartGood, StepInv

(* Meeting another process is recorded.                                      *)
LEMMA MeetsRecords ==
    ASSUME NEW p \in Users, NEW pcs, NEW job \in {"publish", "backup"}, overlap \in SUBSET {"publish", "backup"},
           Meets(p, pcs, job)
    PROVE  /\ overlap \subseteq overlap' /\ overlap' \in SUBSET {"publish", "backup"}
           /\ job \notin overlap' => \A q \in Users \ {p} : starter[q].pc \notin pcs
BY DEF Meets

(* A start.                                                                  *)
LEMMA BootstrapKeeps ==
    ASSUME SchemaInv, UNCHANGED course, NEW p \in Users, Bootstrap(p)
    PROVE  SchemaInv'
<1> DEFINE c == Classify(db)
           r == CASE c = "new" -> [AtRest EXCEPT !.pc = "initialize"]
                  [] c = "migration_required" -> [AtRest EXCEPT !.pc = "backup", !.job = "m005"]
                  [] c = "current" -> OpenStore
<1>1. /\ c \in {"new", "migration_required", "current"} /\ starter' = [starter EXCEPT ![p] = r]
      /\ UNCHANGED <<db, bak, acked, unfinished, overlap>>
  BY DEF Bootstrap, Become, History
<1>2. /\ DbGood(course, db, unfinished) /\ overlap \in SUBSET {"publish", "backup"} /\ unfinished \in BOOLEAN
  BY JobFacts
<1>3. "initialize" \in Pcs /\ "backup" \in Pcs /\ "open" \in Pcs /\ "m005" \in Jobs
  BY DEF Pcs, Jobs
<1>4. /\ r \in JobRecords /\ ~r.orphan /\ r.pc \notin Publishing /\ r.pc \notin BackupSteps
      /\ StepGood(p, r, course, db, bak, unfinished, overlap)
  <2>1. CASE c = "new"
    <3>1. SetsPc(r, AtRest, "initialize")
      BY <2>1 DEF SetsPc
    <3> HIDE DEF r
    <3>2. r \in JobRecords /\ r.pc = "initialize" /\ ~r.orphan
      BY <1>3, <3>1, RestRecord, JobAt
    <3>. QED
      BY <3>2, RestGood DEF Publishing, BackupSteps
  <2>2. CASE c = "migration_required"
    <3>1. SetsJob(r, AtRest, "backup", "m005")
      BY <2>2 DEF SetsJob
    <3> HIDE DEF r
    <3>2. r \in JobRecords /\ r.pc = "backup" /\ r.job = "m005" /\ ~r.orphan
      BY <1>3, <3>1, RestRecord, JobWithName
    <3>3. LegacyOf(db, "m005")
      BY <1>2, <1>3, <2>2, DbClasses DEF Expected
    <3>4. db.file /\ db.version # 2 /\ course = "start"
      <4>1. db.file /\ db.version # 2
        BY <1>3, <3>3, LegacyClass
      <4>. QED
        BY <1>2, <4>1 DEF DbGood, SchemaInv, SchemaTypes
    <3>5. StartGood(r, course, overlap) /\ MilestoneGood(p, r, course, db, unfinished)
      BY <3>2 DEF StartGood, MilestoneGood, MigrationSteps, DowngradeSteps
    <3>6. BackupGood(r, course, db, bak, overlap)
      BY <1>3, <3>2, <3>4 DEF BackupGood, BackupSteps
    <3>. QED
      BY <3>2, <3>4, <3>5, <3>6 DEF StepGood, Publishing, BackupSteps
  <2>3. CASE c = "current"
    <3>1. SetsPc(r, AtRest, "open")
      BY <2>3 DEF OpenStore, SetsPc
    <3> HIDE DEF r
    <3>2. r \in JobRecords /\ r.pc = "open" /\ ~r.orphan
      BY <1>3, <3>1, RestRecord, JobAt
    <3>3. db.file
      BY <1>2, <2>3, DbClasses
    <3>. QED
      BY <3>2, <3>3, RestGood DEF Publishing, BackupSteps
  <2>. QED
    BY <1>1, <2>1, <2>2, <2>3
<1> HIDE DEF r, c
<1>. QED
  BY <1>1, <1>2, <1>4, JobStep

(* The initialization looks at the path again.                               *)
LEMMA InitializeKeeps ==
    ASSUME SchemaInv, UNCHANGED course, NEW p \in Users, Initialize(p)
    PROVE  SchemaInv'
<1>1. UNCHANGED <<db, bak, acked, unfinished>>
  BY DEF Initialize, History
<1>2. /\ DbGood(course, db, unfinished) /\ overlap \in SUBSET {"publish", "backup"} /\ unfinished \in BOOLEAN
  BY JobFacts
<1>3. CASE Classify(db) = "new"
  <2> DEFINE r == [AtRest EXCEPT !.pc = "publish", !.copy = NewFile]
  <2>1. starter' = [starter EXCEPT ![p] = r] /\ Meets(p, {"publish", "restore"}, "publish")
    BY <1>3 DEF Initialize, Become
  <2>2. "publish" \in Pcs /\ NewFile \in Files
    BY ConstantFiles DEF Pcs, Publishing
  <2>3. r \in JobRecords /\ r.pc = "publish" /\ r.copy = NewFile /\ ~r.orphan
    <3>1. SetsCopy(r, AtRest, "publish", NewFile)
      BY DEF SetsCopy
    <3> HIDE DEF r
    <3>. QED
      BY <2>2, <3>1, RestRecord, JobWithCopy
  <2>4. ~db.file
    BY <1>2, <1>3, DbClasses
  <2>5. /\ overlap \subseteq overlap' /\ overlap' \in SUBSET {"publish", "backup"}
        /\ "publish" \notin overlap' => \A q \in Users \ {p} : starter[q].pc \notin Publishing
    <3>. HIDE DEF r
    <3>. QED
      BY <1>2, <2>1, MeetsRecords DEF Publishing
  <2> HIDE DEF r
  <2>6. StepGood(p, r, course, db, bak, unfinished, overlap')
    <3>1. StartGood(r, course, overlap') /\ MilestoneGood(p, r, course, db, unfinished)
      BY <2>3 DEF StartGood, MilestoneGood, MigrationSteps, DowngradeSteps
    <3>2. BackupGood(r, course, db, bak, overlap')
      BY <2>3 DEF BackupGood, BackupSteps
    <3>. QED
      BY <2>3, <3>1, <3>2 DEF StepGood, Publishing
  <2>7. r.pc \notin BackupSteps
    BY <2>3 DEF BackupSteps
  <2>. QED
    BY <1>1, <2>1, <2>3, <2>4, <2>5, <2>6, <2>7, JobStep
<1>4. CASE Classify(db) # "new"
  <2>1. starter' = [starter EXCEPT ![p] = AtRest] /\ UNCHANGED overlap
    BY <1>4 DEF Initialize, Become
  <2>2. StepGood(p, AtRest, course, db, bak, unfinished, overlap)
    BY RestRecord, RestGood
  <2>. QED
    BY <1>1, <1>2, <2>1, <2>2, RestRecord, JobStep DEF Publishing, BackupSteps
<1>. QED
  BY <1>3, <1>4

(* A process that ends.                                                      *)
LEMMA RestKeeps ==
    ASSUME SchemaInv, UNCHANGED <<course, db, bak, acked, unfinished, overlap>>, NEW p \in Users,
           starter' = [starter EXCEPT ![p] = AtRest]
    PROVE  SchemaInv'
<1>1. overlap \in SUBSET {"publish", "backup"}
  BY JobFacts
<1>2. StepGood(p, AtRest, course, db, bak, unfinished, overlap)
  BY RestRecord, RestGood
<1>. QED
  BY <1>1, <1>2, RestRecord, JobStep DEF Publishing, BackupSteps

(* The operator's command for a database of the first product line.          *)
LEMMA StampV1Keeps ==
    ASSUME SchemaInv, UNCHANGED course, NEW p \in Users, StampV1(p)
    PROVE  SchemaInv'
<1> DEFINE r == [AtRest EXCEPT !.pc = "backup", !.job = "stamp"]
<1>1. /\ Classify(db) = "unstamped_v1" /\ starter' = [starter EXCEPT ![p] = r]
      /\ UNCHANGED <<db, bak, acked, unfinished, overlap>>
  BY DEF StampV1, Become, History
<1>2. /\ DbGood(course, db, unfinished) /\ overlap \in SUBSET {"publish", "backup"} /\ unfinished \in BOOLEAN
  BY JobFacts
<1>3. "backup" \in Pcs /\ "stamp" \in Jobs /\ Expected("stamp") = "unstamped_v1"
  BY DEF Pcs, Jobs, Expected
<1>4. r \in JobRecords /\ r.pc = "backup" /\ r.job = "stamp" /\ ~r.orphan
  <2>1. SetsJob(r, AtRest, "backup", "stamp")
    BY DEF SetsJob
  <2> HIDE DEF r
  <2>. QED
    BY <1>3, <2>1, RestRecord, JobWithName
<1>5. LegacyOf(db, "stamp")
  BY <1>1, <1>2, <1>3, DbClasses
<1>6. db.file /\ db.version # 2 /\ course = "start"
  <2>1. db.file /\ db.version # 2
    BY <1>3, <1>5, LegacyClass
  <2>. QED
    BY <1>2, <2>1 DEF DbGood, SchemaInv, SchemaTypes
<1> HIDE DEF r
<1>7. StartGood(r, course, overlap) /\ MilestoneGood(p, r, course, db, unfinished)
  BY <1>4 DEF StartGood, MilestoneGood, MigrationSteps, DowngradeSteps
<1>8. BackupGood(r, course, db, bak, overlap)
  BY <1>3, <1>4, <1>6 DEF BackupGood, BackupSteps
<1>9. StepGood(p, r, course, db, bak, unfinished, overlap)
  BY <1>4, <1>6, <1>7, <1>8 DEF StepGood
<1>. QED
  BY <1>1, <1>2, <1>4, <1>9, JobStep DEF Publishing, BackupSteps

(* The checks before the copy.                                               *)
LEMMA BackupCheckKeeps ==
    ASSUME SchemaInv, UNCHANGED course, NEW p \in Users, BackupCheck(p)
    PROVE  SchemaInv'
<1> DEFINE s == starter[p]
           r == [s EXCEPT !.pc = "copy"]
<1>1. s.pc = "backup" /\ UNCHANGED <<db, bak, acked, unfinished>>
  BY DEF BackupCheck, History
<1>2. /\ s \in JobRecords /\ unfinished \in BOOLEAN /\ overlap \in SUBSET {"publish", "backup"}
      /\ DbGood(course, db, unfinished) /\ StepGood(p, s, course, db, bak, unfinished, overlap)
      /\ "publish" \notin overlap => ~s.orphan
  BY JobFacts
<1>3. CASE Classify(db) = Expected(s.job) /\ bak[s.job] = [content |-> Nil, digest |-> Nil]
  <2>1. starter' = [starter EXCEPT ![p] = r] /\ Meets(p, BackupSteps, "backup")
    BY <1>3 DEF BackupCheck, Become
  <2>2. SetsPc(r, s, "copy") /\ "copy" \in Pcs
    BY DEF SetsPc, Pcs, BackupSteps
  <2> HIDE DEF r, s
  <2>3. r \in JobRecords /\ r.pc = "copy" /\ r.job = s.job /\ r.orphan = s.orphan
    BY <1>2, <2>2, JobAt
  <2>4. /\ overlap \subseteq overlap' /\ overlap' \in SUBSET {"publish", "backup"}
        /\ "backup" \notin overlap' => \A q \in Users \ {p} : starter[q].pc \notin BackupSteps
    BY <1>2, <2>1, MeetsRecords
  <2>5. course = "start" /\ s.job \in Jobs /\ db.file
    BY <1>1, <1>2 DEF StepGood, BackupGood, Publishing
  <2>6. LegacyOf(db, s.job)
    BY <1>2, <1>3, <2>5, DbClasses
  <2>7. StepGood(p, r, course, db, bak, unfinished, overlap')
    <3>1. StartGood(r, course, overlap') /\ MilestoneGood(p, r, course, db, unfinished)
      BY <2>3 DEF StartGood, MilestoneGood, MigrationSteps, DowngradeSteps
    <3>2. BackupGood(r, course, db, bak, overlap')
      BY <2>3, <2>5, <2>6 DEF BackupGood, BackupSteps
    <3>. QED
      BY <2>5, <3>1, <3>2 DEF StepGood
  <2>8. r.pc \notin Publishing /\ ("publish" \notin overlap' => ~r.orphan)
    BY <1>2, <2>3, <2>4 DEF Publishing
  <2>. QED
    BY <1>1, <2>1, <2>3, <2>4, <2>7, <2>8, JobStep
<1>4. CASE ~(Classify(db) = Expected(s.job) /\ bak[s.job] = [content |-> Nil, digest |-> Nil])
  <2>1. starter' = [starter EXCEPT ![p] = AtRest] /\ UNCHANGED overlap
    BY <1>4 DEF BackupCheck, Become
  <2>. QED
    BY <1>1, <2>1, RestKeeps
<1>. QED
  BY <1>3, <1>4

(* The copy is of the database as it is then.                                *)
LEMMA BackupCopyKeeps ==
    ASSUME SchemaInv, UNCHANGED course, NEW p \in Users, BackupCopy(p)
    PROVE  SchemaInv'
<1> DEFINE s == starter[p]
           r == [s EXCEPT !.pc = "publish_backup", !.copy = db]
<1>1. /\ s.pc = "copy" /\ starter' = [starter EXCEPT ![p] = r]
      /\ UNCHANGED <<db, bak, acked, unfinished, overlap>>
  BY DEF BackupCopy, Become, History
<1>2. /\ s \in JobRecords /\ unfinished \in BOOLEAN /\ overlap \in SUBSET {"publish", "backup"} /\ db \in Files
      /\ DbGood(course, db, unfinished) /\ StepGood(p, s, course, db, bak, unfinished, overlap)
      /\ "publish" \notin overlap => ~s.orphan
  BY JobFacts
<1>3. SetsCopy(r, s, "publish_backup", db) /\ "publish_backup" \in Pcs
  BY DEF SetsCopy, Pcs, BackupSteps
<1>4. \A q \in Users : "backup" \notin overlap /\ starter[q].pc \in BackupSteps => q = p
  BY <1>1 DEF SchemaInv, ApartInv, ApartGood, BackupSteps
<1> HIDE DEF r, s
<1>5. r \in JobRecords /\ r.pc = "publish_backup" /\ r.job = s.job /\ r.copy = db /\ r.orphan = s.orphan
  BY <1>2, <1>3, JobWithCopy
<1>6. course = "start" /\ s.job \in Jobs /\ db.file /\ (overlap = {} => LegacyOf(db, s.job))
  BY <1>1, <1>2 DEF StepGood, BackupGood, BackupSteps, Publishing
<1>7. SimpleFile(db)
  BY <1>2, <1>6 DEF DbGood
<1>8. StepGood(p, r, course, db, bak, unfinished, overlap)
  <2>1. StartGood(r, course, overlap) /\ MilestoneGood(p, r, course, db, unfinished)
    BY <1>5 DEF StartGood, MilestoneGood, MigrationSteps, DowngradeSteps
  <2>2. BackupGood(r, course, db, bak, overlap)
    BY <1>2, <1>5, <1>6, <1>7 DEF BackupGood, BackupSteps
  <2>. QED
    BY <1>6, <2>1, <2>2 DEF StepGood
<1>. QED
  BY <1>1, <1>2, <1>4, <1>5, <1>8, JobStep DEF Publishing

(* A restore of a backup that has its digest.                                *)
LEMMA RestoreKeeps ==
    ASSUME SchemaInv, UNCHANGED course, NEW p \in Users, NEW j \in Jobs, Restore(p, j)
    PROVE  SchemaInv'
<1> DEFINE r == [AtRest EXCEPT !.pc = "restore", !.copy = bak[j].content]
<1>1. /\ ~db.file /\ bak[j].content # Nil /\ starter' = [starter EXCEPT ![p] = r]
      /\ Meets(p, {"publish", "restore"}, "publish")
      /\ UNCHANGED <<db, bak, acked, unfinished>>
  BY DEF Restore, Become, History
<1>2. /\ unfinished \in BOOLEAN /\ overlap \in SUBSET {"publish", "backup"} /\ bak[j].content \in Files
  BY <1>1, JobFacts
<1>3. SetsCopy(r, AtRest, "restore", bak[j].content) /\ "restore" \in Pcs
  BY DEF SetsCopy, Pcs, Publishing
<1> HIDE DEF r
<1>4. r \in JobRecords /\ r.pc = "restore" /\ r.copy = bak[j].content /\ ~r.orphan
  BY <1>2, <1>3, RestRecord, JobWithCopy
<1>5. /\ overlap \subseteq overlap' /\ overlap' \in SUBSET {"publish", "backup"}
      /\ "publish" \notin overlap' => \A q \in Users \ {p} : starter[q].pc \notin Publishing
  BY <1>1, <1>2, MeetsRecords DEF Publishing
<1>6. /\ course = "start" /\ SimpleFile(bak[j].content) /\ bak[j].content.file
      /\ overlap = {} => LegacyOf(bak[j].content, j)
  BY <1>1 DEF SchemaInv, BakInv, BakGood
<1>7. overlap' = {} => bak[j].content.version # 2
  BY <1>5, <1>6, LegacyClass
<1>8. StepGood(p, r, course, db, bak, unfinished, overlap')
  <2>1. StartGood(r, course, overlap')
    BY <1>2, <1>4, <1>6, <1>7 DEF StartGood
  <2>2. MilestoneGood(p, r, course, db, unfinished)
    BY <1>4 DEF MilestoneGood, MigrationSteps, DowngradeSteps
  <2>3. BackupGood(r, course, db, bak, overlap')
    BY <1>4 DEF BackupGood, BackupSteps
  <2>. QED
    BY <1>4, <2>1, <2>2, <2>3 DEF StepGood, Publishing
<1>9. r.pc \notin BackupSteps
  BY <1>4 DEF BackupSteps
<1>. QED
  BY <1>1, <1>4, <1>5, <1>8, <1>9, JobStep

(* A process ends.                                                           *)
LEMMA StopKeeps ==
    ASSUME SchemaInv, UNCHANGED course, NEW p \in Users, Stop(p)
    PROVE  SchemaInv'
BY RestKeeps DEF Stop, Become, History

(* A migration begins on a database on which every step committed.           *)
LEMMA UpgradeKeeps ==
    ASSUME SchemaInv, UNCHANGED course, NEW p \in Users, Upgrade(p)
    PROVE  SchemaInv'
<1> DEFINE r == [AtRest EXCEPT !.pc = "upgrade", !.step = db.revision + 1]
<1>1. /\ p = Operator /\ course = "migrate" /\ Classify(db) = "current" /\ db.revision < HeadRevision
      /\ starter' = [starter EXCEPT ![p] = r] /\ UNCHANGED <<db, bak, acked, unfinished, overlap>>
  BY DEF Upgrade, Become, History
<1>2. /\ unfinished \in BOOLEAN /\ overlap \in SUBSET {"publish", "backup"} /\ db \in Files
      /\ DbGood(course, db, unfinished)
  BY JobFacts
<1>3. db.version = 2 /\ ~unfinished /\ db.file
  BY <1>1, <1>2, DbClasses
<1>4. PICK k \in 0..HeadRevision : Settled(db, k)
  BY <1>2, <1>3 DEF DbGood
<1>5. db.revision = k /\ k + 1 \in 1..HeadRevision
  BY <1>1, <1>4 DEF Settled, Stage, HeadRevision
<1>6. SetsStep(r, AtRest, "upgrade", k + 1) /\ "upgrade" \in Pcs
  BY <1>5 DEF SetsStep, Pcs, MigrationSteps
<1> HIDE DEF r
<1>7. r \in JobRecords /\ r.pc = "upgrade" /\ r.step = k + 1 /\ ~r.orphan
  BY <1>5, <1>6, RestRecord, JobWithStep DEF HeadRevision
<1>8. Settled(db, r.step - 1)
  <2>1. r.step - 1 = k
    BY <1>7
  <2>. QED
    BY <1>4, <2>1
<1>9. StepGood(p, r, course, db, bak, unfinished, overlap)
  <2>1. StartGood(r, course, overlap) /\ BackupGood(r, course, db, bak, overlap)
    BY <1>7 DEF StartGood, BackupGood, BackupSteps
  <2>2. MilestoneGood(p, r, course, db, unfinished)
    BY <1>1, <1>3, <1>5, <1>7, <1>8 DEF MilestoneGood, DowngradeSteps
  <2>. QED
    BY <1>3, <2>1, <2>2 DEF StepGood
<1>. QED
  BY <1>1, <1>2, <1>7, <1>9, JobStep DEF Publishing, BackupSteps

(* A downgrade begins at the head, after its preflight.                      *)
LEMMA DowngradeKeeps ==
    ASSUME SchemaInv, UNCHANGED course, NEW p \in Users, NEW t \in 1..12, Downgrade(p, t)
    PROVE  SchemaInv'
<1> DEFINE r == [AtRest EXCEPT !.pc = "downgrade", !.step = HeadRevision, !.target = t]
<1>1. /\ p = Operator /\ db.revision = HeadRevision /\ Preflight(t) \cap db.hist = {}
      /\ starter' = [starter EXCEPT ![p] = r] /\ UNCHANGED <<db, bak, acked, unfinished, overlap>>
  BY DEF Downgrade, Become, History
<1>2. /\ unfinished \in BOOLEAN /\ overlap \in SUBSET {"publish", "backup"} /\ db \in Files
      /\ DbGood(course, db, unfinished)
  BY JobFacts
<1>3. ~SimpleFile(db)
  BY <1>1 DEF SimpleFile, HeadRevision
<1>4. course = "migrate" /\ db.version = 2 /\ db.file
  <2>1. db.version = 2 /\ course # "start"
    BY <1>2, <1>3 DEF DbGood
  <2>2. db.file
    BY <1>2, <2>1, DbClasses
  <2>. QED
    BY <2>1, <2>2 DEF SchemaInv, SchemaTypes
<1>5. (~unfinished /\ Settled(db, HeadRevision)) \/ ~db.armed
  <2>1. CASE unfinished
    BY <1>1, <1>2, <2>1 DEF DbGood
  <2>2. CASE ~unfinished
    <3>1. PICK k \in 0..HeadRevision : Settled(db, k)
      BY <1>2, <1>4, <2>2 DEF DbGood
    <3>2. k = HeadRevision
      BY <1>1, <3>1 DEF Settled, Stage
    <3>. QED
      BY <2>2, <3>1, <3>2
  <2>. QED
    BY <2>1, <2>2
<1>6. SetsTarget(r, AtRest, "downgrade", HeadRevision, t) /\ "downgrade" \in Pcs
  BY DEF SetsTarget, Pcs, MigrationSteps
<1> HIDE DEF r
<1>7. /\ r \in JobRecords /\ r.pc = "downgrade" /\ r.step = HeadRevision /\ r.target = t /\ ~r.orphan
      /\ r.late = {}
  BY <1>6, RestRecord, JobWithTarget DEF HeadRevision
<1>8. \A k \in (t + 1)..HeadRevision : HistoryOf(k) \subseteq Preflight(t)
  <2>1. SUFFICES ASSUME NEW k \in (t + 1)..HeadRevision PROVE HistoryOf(k) \subseteq Preflight(t)
    OBVIOUS
  <2>2. k \in 2..13 /\ t < k
    BY DEF HeadRevision
  <2>3. CASE k \in 10..13
    <3>1. (k = 12 => t # 12) /\ (k = 11 => t \notin {12, 11}) /\ (k = 10 => t \notin {12, 11, 10})
      BY <2>2
    <3>2. k = 10 \/ k = 11 \/ k = 12 \/ k = 13
      BY <2>3
    <3>. QED
      BY <3>1, <3>2 DEF Preflight
  <2>4. CASE k \notin 10..13
    <3>1. HistoryOf(k) = {}
      BY <2>4 DEF HistoryOf
    <3>. QED
      BY <3>1
  <2>. QED
    BY <2>3, <2>4
<1>9. StepGood(p, r, course, db, bak, unfinished, overlap)
  <2>1. StartGood(r, course, overlap) /\ BackupGood(r, course, db, bak, overlap)
    BY <1>7 DEF StartGood, BackupGood, BackupSteps
  <2>2. r.target \in 1..12 /\ r.target < r.step /\ r.step \in 1..HeadRevision
    BY <1>7 DEF HeadRevision
  <2>3. \A k \in (r.target + 1)..r.step : HistoryOf(k) \cap db.hist \subseteq r.late
    BY <1>1, <1>7, <1>8
  <2>4. (~unfinished /\ Settled(db, r.step)) \/ ~db.armed
    BY <1>5, <1>7
  <2>5. MilestoneGood(p, r, course, db, unfinished)
    BY <1>1, <1>4, <1>7, <2>2, <2>3, <2>4 DEF MilestoneGood
  <2>. QED
    BY <1>4, <2>1, <2>5 DEF StepGood
<1>. QED
  BY <1>1, <1>2, <1>7, <1>9, JobStep DEF Publishing, BackupSteps

(* The step's own look.                                                      *)
LEMMA DowngradeCheckKeeps ==
    ASSUME SchemaInv, UNCHANGED course, NEW p \in Users, DowngradeCheck(p)
    PROVE  SchemaInv'
<1> DEFINE s == starter[p]
           r == [s EXCEPT !.pc = "checked"]
<1>1. s.pc = "downgrade" /\ UNCHANGED <<db, bak, acked, unfinished, overlap>>
  BY DEF DowngradeCheck, History
<1>2. /\ s \in JobRecords /\ unfinished \in BOOLEAN /\ overlap \in SUBSET {"publish", "backup"} /\ db \in Files
      /\ StepGood(p, s, course, db, bak, unfinished, overlap)
      /\ "publish" \notin overlap => ~s.orphan
  BY JobFacts
<1>3. CASE HistoryOf(s.step) \cap db.hist = {} /\ db.armed
  <2>1. starter' = [starter EXCEPT ![p] = r]
    BY <1>3 DEF DowngradeCheck, Become
  <2>2. SetsPc(r, s, "checked") /\ "checked" \in Pcs
    BY DEF SetsPc, Pcs, MigrationSteps
  <2> HIDE DEF r, s
  <2>3. /\ r \in JobRecords /\ r.pc = "checked" /\ r.step = s.step /\ r.target = s.target /\ r.orphan = s.orphan
        /\ r.late = s.late /\ r.raced = s.raced
    BY <1>2, <2>2, JobAt
  <2>4. MilestoneGood(p, s, course, db, unfinished) /\ db.file
    BY <1>1, <1>2 DEF StepGood, Publishing
  <2>5. /\ p = Operator /\ course = "migrate" /\ s.step \in 1..HeadRevision
        /\ ~unfinished /\ Settled(db, s.step)
        /\ s.target \in 1..12 /\ s.target < s.step
        /\ \A k \in (s.target + 1)..s.step : HistoryOf(k) \cap db.hist \subseteq s.late
    BY <1>1, <1>3, <2>4 DEF MilestoneGood, MigrationSteps, DowngradeSteps
  <2>6. MilestoneGood(p, r, course, db, unfinished)
    BY <1>3, <2>3, <2>5 DEF MilestoneGood
  <2>7. StartGood(r, course, overlap) /\ BackupGood(r, course, db, bak, overlap)
    BY <2>3 DEF StartGood, BackupGood, BackupSteps
  <2>8. StepGood(p, r, course, db, bak, unfinished, overlap)
    BY <2>4, <2>6, <2>7 DEF StepGood
  <2>. QED
    BY <1>1, <1>2, <2>1, <2>3, <2>8, JobStep DEF Publishing, BackupSteps
<1>4. CASE ~(HistoryOf(s.step) \cap db.hist = {} /\ db.armed)
  <2>1. starter' = [starter EXCEPT ![p] = AtRest]
    BY <1>4 DEF DowngradeCheck, Become
  <2>. QED
    BY <1>1, <2>1, RestKeeps
<1>. QED
  BY <1>3, <1>4

(* A process at no step of its own does not depend on the database, save     *)
(* that it is there, nor on the backups.                                     *)
LEMMA OthersGood ==
    ASSUME NEW p, NEW s, NEW c, NEW d, NEW b, NEW u, NEW o, NEW d2, NEW b2, NEW u2,
           StepGood(p, s, c, d, b, u, o), d.file => d2.file, s.pc \notin MigrationSteps, s.pc \in BackupSteps => o # {}
    PROVE  StepGood(p, s, c, d2, b2, u2, o)
<1>1. StartGood(s, c, o)
  BY DEF StepGood
<1>2. BackupGood(s, c, d2, b2, o)
  BY DEF StepGood, BackupGood
<1>3. MilestoneGood(p, s, c, d2, u2)
  BY DEF MilestoneGood, MigrationSteps, DowngradeSteps
<1>. QED
  BY <1>1, <1>2, <1>3 DEF StepGood

(* The others while one process is at a step of a backup or of a milestone.  *)
LEMMA OthersAside ==
    ASSUME SchemaInv, NEW p \in Users, NEW q \in Users, q # p, starter[p].pc \in BackupSteps \cup MigrationSteps
    PROVE  /\ starter[q].pc \notin MigrationSteps
           /\ starter[q].pc \in BackupSteps => overlap # {}
<1>1. /\ StepGood(p, starter[p], course, db, bak, unfinished, overlap)
      /\ StepGood(q, starter[q], course, db, bak, unfinished, overlap)
  BY JobFacts
<1>2. /\ starter[p].pc \in MigrationSteps => p = Operator /\ course = "migrate"
      /\ starter[q].pc \in MigrationSteps => q = Operator /\ course = "migrate"
  BY <1>1 DEF StepGood, MilestoneGood
<1>3. /\ starter[p].pc \in BackupSteps => course = "start"
      /\ starter[q].pc \in BackupSteps => course = "start"
  BY <1>1 DEF StepGood, BackupGood
<1>4. starter[p].pc \in BackupSteps /\ starter[q].pc \in BackupSteps => overlap # {}
  BY DEF SchemaInv, ApartInv, ApartGood
<1>5. "migrate" # "start"
  OBVIOUS
<1>. QED
  BY <1>2, <1>3, <1>4, <1>5

(* A step of a backup that changes what is published.                        *)
LEMMA BakStep ==
    ASSUME SchemaInv, NEW p \in Users, NEW r \in JobRecords, starter' = [starter EXCEPT ![p] = r],
           UNCHANGED <<course, db, acked, unfinished, overlap>>,
           bak' \in [Jobs -> [content : Files \cup {Nil}, digest : Files \cup {Nil}]],
           starter[p].pc \in BackupSteps, r.pc \in BackupSteps \cup {"idle"}, "publish" \notin overlap => ~r.orphan,
           BakGood(course, bak', overlap), StepGood(p, r, course, db, bak', unfinished, overlap)
    PROVE  SchemaInv'
<1>1. starter \in [Users -> JobRecords] /\ starter' \in [Users -> JobRecords]
  BY DEF SchemaInv, SchemaTypes
<1>2. starter'[p] = r /\ \A q \in Users \ {p} : starter'[q] = starter[q]
  BY <1>1
<1>3. SchemaTypes'
  BY <1>1 DEF SchemaInv, SchemaTypes
<1>4. DbInv' /\ BakInv'
  BY DEF SchemaInv, DbInv, BakInv
<1>5. \A q \in Users : StepInv(q)'
  <2>1. SUFFICES ASSUME NEW q \in Users PROVE StepGood(q, starter'[q], course, db, bak', unfinished, overlap)
    BY DEF StepInv
  <2>2. CASE q = p
    BY <1>2, <2>2
  <2>3. CASE q # p
    <3>1. StepGood(q, starter[q], course, db, bak, unfinished, overlap)
      BY JobFacts
    <3>2. StepGood(q, starter[q], course, db, bak', unfinished, overlap)
      BY <2>3, <3>1, OthersAside, OthersGood
    <3>. QED
      BY <1>2, <2>3, <3>2
  <2>. QED
    BY <2>2, <2>3
<1>6. ApartInv'
  <2>1. ApartGood(starter, db, acked, overlap)
    BY DEF SchemaInv, ApartInv
  <2>2. r.pc \notin Publishing
    BY DEF BackupSteps, Publishing
  <2>3. ApartGood(starter', db, acked, overlap)
    BY <1>2, <2>1, <2>2 DEF ApartGood
  <2>. QED
    BY <2>3 DEF ApartInv
<1>7. MigratedHasBackup'
  <2>1. SUFFICES ASSUME overlap = {} PROVE db.version # 2
    BY DEF MigratedHasBackup
  <2>2. LegacyOf(db, starter[p].job) /\ starter[p].job \in Jobs
    <3>1. StepGood(p, starter[p], course, db, bak, unfinished, overlap)
      BY JobFacts
    <3>. QED
      BY <2>1, <3>1 DEF StepGood, BackupGood
  <2>. QED
    BY <2>2, LegacyClass
<1>8. RowsSurvive' /\ HistoryKept'
  BY DEF SchemaInv, RowsSurvive, HistoryKept
<1>. QED
  BY <1>3, <1>4, <1>5, <1>6, <1>7, <1>8 DEF SchemaInv

(* The backup is published.                                                  *)
LEMMA BackupPublishKeeps ==
    ASSUME SchemaInv, UNCHANGED course, NEW p \in Users, BackupPublish(p)
    PROVE  SchemaInv'
<1> DEFINE s == starter[p]
           r == [s EXCEPT !.pc = "sidecar"]
<1>1. /\ s.pc = "publish_backup" /\ starter' = [starter EXCEPT ![p] = r]
      /\ bak' = [bak EXCEPT ![s.job].content = s.copy]
      /\ UNCHANGED <<db, acked, unfinished, overlap>>
  BY DEF BackupPublish, Become, History
<1>2. /\ s \in JobRecords /\ unfinished \in BOOLEAN /\ db \in Files
      /\ StepGood(p, s, course, db, bak, unfinished, overlap)
      /\ "publish" \notin overlap => ~s.orphan
  BY JobFacts
<1>3. SetsPc(r, s, "sidecar") /\ "sidecar" \in Pcs
  BY DEF SetsPc, Pcs, BackupSteps
<1>4. bak \in [Jobs -> [content : Files \cup {Nil}, digest : Files \cup {Nil}]] /\ BakGood(course, bak, overlap)
  BY DEF SchemaInv, SchemaTypes, BakInv
<1>5. s.pc \in BackupSteps
  BY <1>1 DEF BackupSteps
<1> HIDE DEF r, s
<1>6. r \in JobRecords /\ r.pc = "sidecar" /\ r.job = s.job /\ r.copy = s.copy /\ r.orphan = s.orphan
  BY <1>2, <1>3, JobAt
<1>7. /\ course = "start" /\ s.job \in Jobs /\ db.file /\ (overlap = {} => LegacyOf(db, s.job))
      /\ s.copy \in Files /\ SimpleFile(s.copy) /\ s.copy.file /\ (overlap = {} => LegacyOf(s.copy, s.job))
  BY <1>1, <1>2 DEF StepGood, BackupGood, BackupSteps, Publishing
<1>8. /\ bak' \in [Jobs -> [content : Files \cup {Nil}, digest : Files \cup {Nil}]]
      /\ bak'[s.job].content = s.copy
      /\ \A j \in Jobs \ {s.job} : bak'[j] = bak[j]
  <2>1. PICK old \in [content : Files \cup {Nil}, digest : Files \cup {Nil}] : old = bak[s.job]
    BY <1>4, <1>7
  <2>2. PICK new : new = [old EXCEPT !.content = s.copy]
    OBVIOUS
  <2>3. new \in [content : Files \cup {Nil}, digest : Files \cup {Nil}] /\ new.content = s.copy
    BY <1>7, <2>2
  <2>4. bak' = [bak EXCEPT ![s.job] = new]
    BY <1>1, <2>1, <2>2
  <2>. QED
    BY <1>4, <1>7, <2>3, <2>4
<1>9. BakGood(course, bak', overlap)
  BY <1>4, <1>7, <1>8 DEF BakGood
<1>10. StepGood(p, r, course, db, bak', unfinished, overlap)
  <2>1. StartGood(r, course, overlap) /\ MilestoneGood(p, r, course, db, unfinished)
    BY <1>6 DEF StartGood, MilestoneGood, MigrationSteps, DowngradeSteps
  <2>2. BackupGood(r, course, db, bak', overlap)
    BY <1>6, <1>7, <1>8 DEF BackupGood
  <2>. QED
    BY <1>7, <2>1, <2>2 DEF StepGood
<1>11. r.pc \in BackupSteps \cup {"idle"}
  BY <1>6 DEF BackupSteps
<1>12. starter[p].pc \in BackupSteps
  BY <1>5 DEF s
<1>. QED
  BY <1>1, <1>2, <1>6, <1>8, <1>9, <1>10, <1>11, <1>12, BakStep

(* Its digest.                                                               *)
LEMMA BackupSidecarKeeps ==
    ASSUME SchemaInv, UNCHANGED course, NEW p \in Users, BackupSidecar(p)
    PROVE  SchemaInv'
<1> DEFINE s == starter[p]
           kept == bak[s.job].content = s.copy
           r == IF kept THEN [s EXCEPT !.pc = "commit", !.copy = Nil] ELSE AtRest
<1>1. /\ s.pc = "sidecar" /\ starter' = [starter EXCEPT ![p] = r]
      /\ bak' = [bak EXCEPT ![s.job].digest = s.copy]
      /\ UNCHANGED <<db, acked, unfinished, overlap>>
  BY DEF BackupSidecar, Become, History
<1>2. /\ s \in JobRecords /\ unfinished \in BOOLEAN /\ db \in Files
      /\ StepGood(p, s, course, db, bak, unfinished, overlap)
      /\ "publish" \notin overlap => ~s.orphan
  BY JobFacts
<1>3. (kept => SetsCopy(r, s, "commit", Nil)) /\ (~kept => r = AtRest) /\ "commit" \in Pcs
  BY DEF SetsCopy, Pcs, BackupSteps
<1>4. bak \in [Jobs -> [content : Files \cup {Nil}, digest : Files \cup {Nil}]] /\ BakGood(course, bak, overlap)
  BY DEF SchemaInv, SchemaTypes, BakInv
<1>5. starter[p].pc \in BackupSteps
  BY <1>1 DEF BackupSteps
<1> HIDE DEF r, s
<1>7. /\ course = "start" /\ s.job \in Jobs /\ db.file /\ (overlap = {} => LegacyOf(db, s.job))
      /\ s.copy \in Files
  BY <1>1, <1>2 DEF StepGood, BackupGood, BackupSteps, Publishing
<1>8. /\ bak' \in [Jobs -> [content : Files \cup {Nil}, digest : Files \cup {Nil}]]
      /\ bak'[s.job].digest = s.copy
      /\ \A j \in Jobs : bak'[j].content = bak[j].content
  <2>1. PICK old \in [content : Files \cup {Nil}, digest : Files \cup {Nil}] : old = bak[s.job]
    BY <1>4, <1>7
  <2>2. PICK new : new = [old EXCEPT !.digest = s.copy]
    OBVIOUS
  <2>3. /\ new \in [content : Files \cup {Nil}, digest : Files \cup {Nil}] /\ new.digest = s.copy
        /\ new.content = old.content
    BY <1>7, <2>2
  <2>4. bak' = [bak EXCEPT ![s.job] = new]
    BY <1>1, <2>1, <2>2
  <2>. QED
    BY <1>4, <1>7, <2>1, <2>3, <2>4
<1>9. BakGood(course, bak', overlap)
  BY <1>4, <1>8 DEF BakGood
<1>10. CASE kept
  <2>1. r \in JobRecords /\ r.pc = "commit" /\ r.job = s.job /\ r.orphan = s.orphan
    BY <1>2, <1>3, <1>10, JobWithCopy
  <2>2. bak'[s.job].content # Nil /\ bak'[s.job].digest = bak'[s.job].content
    BY <1>7, <1>8, <1>10, FileAssumption
  <2>3. StartGood(r, course, overlap) /\ MilestoneGood(p, r, course, db, unfinished)
    BY <2>1 DEF StartGood, MilestoneGood, MigrationSteps, DowngradeSteps
  <2>4. BackupGood(r, course, db, bak', overlap)
    BY <1>7, <2>1, <2>2 DEF BackupGood
  <2>5. StepGood(p, r, course, db, bak', unfinished, overlap)
    BY <1>7, <2>3, <2>4 DEF StepGood
  <2>6. r.pc \in BackupSteps \cup {"idle"}
    BY <2>1 DEF BackupSteps
  <2>. QED
    BY <1>1, <1>2, <1>5, <1>8, <1>9, <2>1, <2>5, <2>6, BakStep
<1>11. CASE ~kept
  <2>1. r = AtRest
    BY <1>3, <1>11
  <2>2. StepGood(p, r, course, db, bak', unfinished, overlap)
    BY <2>1, RestRecord, RestGood
  <2>. QED
    BY <1>1, <1>5, <1>8, <1>9, <2>1, <2>2, RestRecord, BakStep
<1>. QED
  BY <1>10, <1>11

(* The changes of a database file, each to some of its fields.               *)
SetsTables(e, d, tables, version) ==
    e = [d EXCEPT !.tables = tables, !.version = version]
SetsBuilt(e, d, tables, armed) ==
    e = [d EXCEPT !.tables = tables, !.armed = armed]
SetsStamp(e, d, tables, armed, revision, manifests) ==
    e = [d EXCEPT !.tables = tables, !.armed = armed, !.revision = revision, !.manifests = manifests]
SetsDropped(e, d, tables, hist) ==
    e = [d EXCEPT !.tables = tables, !.hist = hist]
SetsBack(e, d, tables, hist, armed, manifests, revision) ==
    e = [d EXCEPT !.tables = tables, !.hist = hist, !.armed = armed, !.manifests = manifests, !.revision = revision]
SetsRows(e, d, kept) ==
    e = [d EXCEPT !.rows = kept]
SetsHist(e, d, hist) ==
    e = [d EXCEPT !.hist = hist]
SetsArmed(e, d, armed) ==
    e = [d EXCEPT !.armed = armed]

(* The tables and the version.                                               *)
LEMMA FileMigrated ==
    ASSUME NEW e, NEW d \in Files, NEW tables \in SUBSET SchemaTables, NEW version \in 0..2,
           SetsTables(e, d, tables, version)
    PROVE  /\ e \in Files
           /\ e.tables = tables /\ e.version = version
           /\ e.file = d.file /\ e.revision = d.revision /\ e.manifests = d.manifests /\ e.armed = d.armed /\ e.rows = d.rows /\ e.hist = d.hist
BY DEF Files, SetsTables

(* The tables and the triggers.                                              *)
LEMMA FileBuilt ==
    ASSUME NEW e, NEW d \in Files, NEW tables \in SUBSET SchemaTables, NEW armed \in BOOLEAN,
           SetsBuilt(e, d, tables, armed)
    PROVE  /\ e \in Files
           /\ e.tables = tables /\ e.armed = armed
           /\ e.file = d.file /\ e.version = d.version /\ e.revision = d.revision /\ e.manifests = d.manifests /\ e.rows = d.rows /\ e.hist = d.hist
BY DEF Files, SetsBuilt

(* What a step commits.                                                      *)
LEMMA FileStamped ==
    ASSUME NEW e, NEW d \in Files, NEW tables \in SUBSET SchemaTables, NEW armed \in BOOLEAN, NEW revision \in 0..HeadRevision, NEW manifests \in Seq(SUBSET SchemaTables),
           SetsStamp(e, d, tables, armed, revision, manifests)
    PROVE  /\ e \in Files
           /\ e.tables = tables /\ e.armed = armed /\ e.revision = revision /\ e.manifests = manifests
           /\ e.file = d.file /\ e.version = d.version /\ e.rows = d.rows /\ e.hist = d.hist
BY DEF Files, SetsStamp

(* What a downgrade drops before its data.                                   *)
LEMMA FileDropped ==
    ASSUME NEW e, NEW d \in Files, NEW tables \in SUBSET SchemaTables, NEW hist \in SUBSET Histories,
           SetsDropped(e, d, tables, hist)
    PROVE  /\ e \in Files
           /\ e.tables = tables /\ e.hist = hist
           /\ e.file = d.file /\ e.version = d.version /\ e.revision = d.revision /\ e.manifests = d.manifests /\ e.armed = d.armed /\ e.rows = d.rows
BY DEF Files, SetsDropped

(* What a downgrade commits.                                                 *)
LEMMA FileBack ==
    ASSUME NEW e, NEW d \in Files, NEW tables \in SUBSET SchemaTables, NEW hist \in SUBSET Histories, NEW armed \in BOOLEAN, NEW manifests \in Seq(SUBSET SchemaTables), NEW revision \in 0..HeadRevision,
           SetsBack(e, d, tables, hist, armed, manifests, revision)
    PROVE  /\ e \in Files
           /\ e.tables = tables /\ e.hist = hist /\ e.armed = armed /\ e.manifests = manifests /\ e.revision = revision
           /\ e.file = d.file /\ e.version = d.version /\ e.rows = d.rows
BY DEF Files, SetsBack

(* A row.                                                                    *)
LEMMA FileWritten ==
    ASSUME NEW e, NEW d \in Files, NEW kept \in SUBSET FileRows,
           SetsRows(e, d, kept)
    PROVE  /\ e \in Files
           /\ e.rows = kept
           /\ e.file = d.file /\ e.tables = d.tables /\ e.version = d.version /\ e.revision = d.revision /\ e.manifests = d.manifests /\ e.armed = d.armed /\ e.hist = d.hist
BY DEF Files, SetsRows, FileRows

(* A history.                                                                *)
LEMMA FileRecorded ==
    ASSUME NEW e, NEW d \in Files, NEW hist \in SUBSET Histories,
           SetsHist(e, d, hist)
    PROVE  /\ e \in Files
           /\ e.hist = hist
           /\ e.file = d.file /\ e.tables = d.tables /\ e.version = d.version /\ e.revision = d.revision /\ e.manifests = d.manifests /\ e.armed = d.armed /\ e.rows = d.rows
BY DEF Files, SetsHist

(* The triggers.                                                             *)
LEMMA FileDisarmed ==
    ASSUME NEW e, NEW d \in Files, NEW armed \in BOOLEAN,
           SetsArmed(e, d, armed)
    PROVE  /\ e \in Files
           /\ e.armed = armed
           /\ e.file = d.file /\ e.tables = d.tables /\ e.version = d.version /\ e.revision = d.revision /\ e.manifests = d.manifests /\ e.rows = d.rows /\ e.hist = d.hist
BY DEF Files, SetsArmed


(* A migration, up or down, that changes the database.                       *)
LEMMA MidStep ==
    ASSUME SchemaInv, NEW p \in Users, NEW r \in JobRecords, starter' = [starter EXCEPT ![p] = r],
           UNCHANGED <<course, bak, overlap>>,
           starter[p].pc \in BackupSteps \cup MigrationSteps, r.pc \notin Publishing \cup BackupSteps,
           "publish" \notin overlap => ~r.orphan,
           db.file, db' \in Files, db'.file, db'.rows = db.rows,
           unfinished' \in BOOLEAN, acked' \subseteq acked,
           "publish" \notin overlap => acked' \cap Histories \subseteq db'.hist,
           DbGood(course, db', unfinished'), StepGood(p, r, course, db', bak, unfinished', overlap),
           MigratedHasBackup'
    PROVE  SchemaInv'
<1>1. starter \in [Users -> JobRecords] /\ starter' \in [Users -> JobRecords]
  BY DEF SchemaInv, SchemaTypes
<1>2. starter'[p] = r /\ \A q \in Users \ {p} : starter'[q] = starter[q]
  BY <1>1
<1>3. SchemaTypes'
  BY <1>1 DEF SchemaInv, SchemaTypes
<1>4. DbInv' /\ BakInv'
  BY DEF SchemaInv, DbInv, BakInv
<1>5. \A q \in Users : StepInv(q)'
  <2>1. SUFFICES ASSUME NEW q \in Users PROVE StepGood(q, starter'[q], course, db', bak, unfinished', overlap)
    BY DEF StepInv
  <2>2. CASE q = p
    BY <1>2, <2>2
  <2>3. CASE q # p
    <3>1. StepGood(q, starter[q], course, db, bak, unfinished, overlap)
      BY JobFacts
    <3>2. StepGood(q, starter[q], course, db', bak, unfinished', overlap)
      BY <2>3, <3>1, OthersAside, OthersGood
    <3>. QED
      BY <1>2, <2>3, <3>2
  <2>. QED
    BY <2>2, <2>3
<1>6. ApartInv'
  <2>1. ApartGood(starter, db, acked, overlap)
    BY DEF SchemaInv, ApartInv
  <2>2. ApartGood(starter', db', acked', overlap)
    BY <1>2, <2>1 DEF ApartGood
  <2>. QED
    BY <2>2 DEF ApartInv
<1>7. RowsSurvive' /\ HistoryKept'
  BY DEF SchemaInv, RowsSurvive, HistoryKept
<1>. QED
  BY <1>3, <1>4, <1>5, <1>6, <1>7 DEF SchemaInv

(* The migration of the first product line, behind its backup.               *)
LEMMA MigrateCommitKeeps ==
    ASSUME SchemaInv, UNCHANGED course, NEW p \in Users, MigrateCommit(p)
    PROVE  SchemaInv'
<1> DEFINE s == starter[p]
<1>1. /\ s.pc = "commit" /\ UNCHANGED <<bak, acked, unfinished, overlap>>
  BY DEF MigrateCommit, History
<1>2. /\ s \in JobRecords /\ unfinished \in BOOLEAN /\ db \in Files /\ DbGood(course, db, unfinished)
      /\ StepGood(p, s, course, db, bak, unfinished, overlap)
      /\ "publish" \notin overlap => ~s.orphan
  BY JobFacts
<1>3. CASE Classify(db) # Expected(s.job)
  <2>1. starter' = [starter EXCEPT ![p] = AtRest] /\ UNCHANGED db
    BY <1>3 DEF MigrateCommit, Become
  <2>. QED
    BY <1>1, <2>1, RestKeeps
<1>4. CASE Classify(db) = Expected(s.job)
  <2> DEFINE r == IF s.job = "m005" THEN OpenStore ELSE AtRest
  <2>1. starter' = [starter EXCEPT ![p] = r] /\ SetsTables(db', db, Base, 2)
    BY <1>4 DEF MigrateCommit, Become, SetsTables
  <2>2. /\ course = "start" /\ s.job \in Jobs /\ db.file
        /\ overlap = {} => bak[s.job].content # Nil /\ bak[s.job].digest = bak[s.job].content
    BY <1>1, <1>2 DEF StepGood, BackupGood, BackupSteps, Publishing
  <2>3. SimpleFile(db) /\ db.version # 2
    <3>1. LegacyOf(db, s.job) /\ SimpleFile(db)
      BY <1>2, <1>4, <2>2, DbClasses
    <3>. QED
      BY <2>2, <3>1, LegacyClass
  <2>4. ~unfinished
    BY <1>2, <2>3 DEF DbGood
  <2>5. Base \in SUBSET SchemaTables /\ 2 \in 0..2
    BY DEF SchemaTables
  <2>6. /\ db' \in Files /\ db'.tables = Base /\ db'.version = 2 /\ db'.file = db.file /\ db'.revision = db.revision
        /\ db'.manifests = db.manifests /\ db'.armed = db.armed /\ db'.rows = db.rows /\ db'.hist = db.hist
    BY <1>2, <2>1, <2>5, FileMigrated
  <2>7. SimpleFile(db')
    BY <2>2, <2>3, <2>6 DEF SimpleFile
  <2>8. Settled(db', 0)
    BY <2>6, <2>7, SimpleSettled
  <2>9. DbGood(course, db', unfinished)
    BY <2>2, <2>4, <2>6, <2>7, <2>8 DEF DbGood, HeadRevision
  <2>10. r \in JobRecords /\ r.pc \in {"idle", "open"} /\ ~r.orphan
    <3>1. SetsPc(OpenStore, AtRest, "open") /\ "open" \in Pcs
      BY DEF OpenStore, SetsPc, Pcs
    <3>. QED
      BY <3>1, RestRecord, JobAt
  <2>11. MigratedHasBackup'
    <3>1. SUFFICES ASSUME overlap = {}
                   PROVE  \E j \in Jobs : /\ bak[j].content # Nil /\ bak[j].digest = bak[j].content
                                          /\ Classify(bak[j].content) = Expected(j)
                                          /\ "legacy" \in bak[j].content.rows
      BY <1>1 DEF MigratedHasBackup
    <3>2. LegacyOf(bak[s.job].content, s.job)
      BY <2>2, <3>1 DEF SchemaInv, BakInv, BakGood
    <3>. QED
      BY <2>2, <3>1, <3>2, LegacyClass
  <2>12. "publish" \notin overlap => acked \cap Histories \subseteq db'.hist
    BY <2>6 DEF SchemaInv, HistoryKept
  <2> HIDE DEF r
  <2>13. StepGood(p, r, course, db', bak, unfinished, overlap)
    BY <2>2, <2>6, <2>10, RestGood
  <2>14. starter[p].pc \in BackupSteps \cup MigrationSteps /\ r.pc \notin Publishing \cup BackupSteps
    BY <1>1, <2>10 DEF BackupSteps, Publishing
  <2>15. /\ DbGood(course, db', unfinished') /\ StepGood(p, r, course, db', bak, unfinished', overlap)
         /\ unfinished' \in BOOLEAN
    <3>1. unfinished' = unfinished
      BY <1>1
    <3>. QED
      BY <1>2, <2>9, <2>13, <3>1
  <2>16. acked' \subseteq acked /\ ("publish" \notin overlap => acked' \cap Histories \subseteq db'.hist)
    BY <1>1, <2>12
  <2>17. UNCHANGED <<course, bak, overlap>> /\ ("publish" \notin overlap => ~r.orphan)
    BY <1>1, <2>10
  <2>18. db'.file /\ db'.rows = db.rows
    BY <2>2, <2>6
  <2>19. starter' = [starter EXCEPT ![p] = r] /\ r \in JobRecords /\ db' \in Files /\ db.file
    BY <2>1, <2>2, <2>6, <2>10
  <2>. QED
    BY <2>11, <2>14, <2>15, <2>16, <2>17, <2>18, <2>19, MidStep
<1>. QED
  BY <1>3, <1>4

(* A step of a milestone migration.                                          *)
LEMMA MilestoneStep ==
    ASSUME SchemaInv, NEW p \in Users, NEW r \in JobRecords, starter' = [starter EXCEPT ![p] = r],
           UNCHANGED <<course, bak, overlap>>,
           starter[p].pc \in MigrationSteps, r.pc \in MigrationSteps \cup {"idle"}, r.orphan = starter[p].orphan \/ ~r.orphan,
           db.version = 2, db' \in Files, db'.file, db'.version = 2, db'.rows = db.rows,
           unfinished' \in BOOLEAN, acked' \subseteq acked,
           "publish" \notin overlap => acked' \cap Histories \subseteq db'.hist,
           ~unfinished' => \E k \in 0..HeadRevision : Settled(db', k),
           unfinished' => /\ Base \subseteq db'.tables /\ Classify(db') # "current"
                          /\ db'.revision = HeadRevision => ~db'.armed,
           MilestoneGood(p, r, course, db', unfinished')
    PROVE  SchemaInv'
<1>1. /\ StepGood(p, starter[p], course, db, bak, unfinished, overlap) /\ DbGood(course, db, unfinished)
      /\ unfinished \in BOOLEAN /\ ("publish" \notin overlap => ~starter[p].orphan)
  BY JobFacts
<1>2. course = "migrate" /\ db.file
  <2>1. MilestoneGood(p, starter[p], course, db, unfinished)
    BY <1>1 DEF StepGood
  <2>2. db.file
    BY <1>1, DbClasses
  <2>. QED
    BY <2>1, <2>2 DEF MilestoneGood
<1>3. DbGood(course, db', unfinished')
  BY <1>2 DEF DbGood
<1>4. StepGood(p, r, course, db', bak, unfinished', overlap)
  <2>1. StartGood(r, course, overlap) /\ BackupGood(r, course, db', bak, overlap)
    BY DEF StartGood, BackupGood, BackupSteps, MigrationSteps
  <2>. QED
    BY <2>1 DEF StepGood
<1>5. MigratedHasBackup'
  BY DEF SchemaInv, MigratedHasBackup
<1>6. r.pc \notin Publishing \cup BackupSteps
  BY DEF Publishing, BackupSteps, MigrationSteps
<1>7. "publish" \notin overlap => ~r.orphan
  BY <1>1
<1>. QED
  BY <1>2, <1>3, <1>4, <1>5, <1>6, <1>7, MidStep

(* The tables a step makes are tables.                                       *)
LEMMA StepTables ==
    ASSUME NEW k \in 1..HeadRevision
    PROVE  /\ Required[k] \in SUBSET SchemaTables /\ Required[k - 1] \in SUBSET SchemaTables
           /\ Migration[k].creates \in SUBSET SchemaTables /\ Migration[k].drops \in SUBSET SchemaTables
           /\ Migration[k].early \in SUBSET SchemaTables /\ StepFits(k) /\ k \in 1..13
           /\ k - 1 \in 0..HeadRevision /\ k \in 0..HeadRevision
<1>1. k \in 1..13 /\ k \in 0..13 /\ k - 1 \in 0..13
  BY DEF HeadRevision
<1>2. StepFits(k)
  BY <1>1, StepsFit
<1>3. Required[k] \in SUBSET SchemaTables /\ Required[k - 1] \in SUBSET SchemaTables
  BY <1>1, RequiredTypes
<1>4. /\ Migration[k].creates \in SUBSET SchemaTables /\ Migration[k].drops \in SUBSET SchemaTables
      /\ Migration[k].early \in SUBSET SchemaTables
  BY <1>2 DEF StepFits
<1>. QED
  BY <1>1, <1>2, <1>3, <1>4 DEF HeadRevision

(* The first schema statement.                                               *)
LEMMA UpgradeCreateKeeps ==
    ASSUME SchemaInv, UNCHANGED course, NEW p \in Users, UpgradeCreate(p)
    PROVE  SchemaInv'
<1> DEFINE s == starter[p]
           k == s.step
           t == CHOOSE x \in Migration[k].early : TRUE
           r == [s EXCEPT !.pc = "creating"]
           tables == db.tables \cup {t}
<1>1. /\ s.pc = "upgrade" /\ starter' = [starter EXCEPT ![p] = r] /\ Migration[k].early # {}
      /\ SetsBuilt(db', db, tables, FALSE) /\ unfinished' = TRUE
      /\ UNCHANGED <<bak, overlap, acked>>
  BY DEF UpgradeCreate, Become, SetsBuilt
<1>2. /\ s \in JobRecords /\ db \in Files /\ MilestoneGood(p, s, course, db, unfinished)
  BY JobFacts DEF StepGood
<1>3. SetsPc(r, s, "creating") /\ "creating" \in Pcs
  BY DEF SetsPc, Pcs, MigrationSteps
<1>4. t \in Migration[k].early
  BY <1>1
<1>5. k \in 1..HeadRevision /\ p = Operator /\ course = "migrate" /\ Settled(db, k - 1)
  BY <1>1, <1>2 DEF MilestoneGood, MigrationSteps
<1>6. starter[p].pc \in MigrationSteps
  BY <1>1 DEF MigrationSteps
<1> HIDE DEF r, t
<1>7. /\ r \in JobRecords /\ r.pc = "creating" /\ r.step = k /\ r.orphan = s.orphan
  BY <1>2, <1>3, JobAt
<1> HIDE DEF s, k, tables
<1>8. /\ db.file /\ db.version = 2 /\ db.revision = k - 1 /\ db.manifests = ManifestsAt(k - 1)
      /\ db.tables = Required[k - 1] /\ db.armed
  BY <1>5 DEF Settled, Stage
<1>9. tables \in SUBSET SchemaTables
  BY <1>2, <1>4, <1>5, <1>8, StepTables DEF tables
<1>10. /\ db' \in Files /\ db'.tables = tables /\ db'.armed = FALSE /\ db'.file = db.file /\ db'.version = db.version
       /\ db'.revision = db.revision /\ db'.manifests = db.manifests /\ db'.rows = db.rows /\ db'.hist = db.hist
  <2>1. PICK off \in BOOLEAN : off = FALSE
    OBVIOUS
  <2>2. SetsBuilt(db', db, tables, off)
    BY <1>1, <2>1
  <2>. QED
    BY <1>2, <1>9, <2>1, <2>2, FileBuilt
<1>11. Creating(db', k)
  BY <1>4, <1>8, <1>10 DEF Creating, Stage, tables
<1>12. /\ Classify(db') # "current" /\ Base \subseteq db'.tables /\ db'.revision = k - 1 /\ ~db'.armed
  BY <1>5, <1>11, CreatingPartial DEF HeadRevision
<1>13. MilestoneGood(p, r, course, db', unfinished')
  BY <1>1, <1>5, <1>7, <1>11 DEF MilestoneGood, DowngradeSteps
<1>14. r.pc \in MigrationSteps
  BY <1>7 DEF MigrationSteps
<1>15. "publish" \notin overlap => acked' \cap Histories \subseteq db'.hist
  BY <1>1, <1>10 DEF SchemaInv, HistoryKept
<1>16. acked' \subseteq acked /\ unfinished' \in BOOLEAN /\ unfinished'
  BY <1>1
<1>17. r.orphan = starter[p].orphan
  BY <1>7 DEF s
<1>. QED
  BY <1>1, <1>6, <1>7, <1>8, <1>10, <1>12, <1>13, <1>14, <1>15, <1>16, <1>17, MilestoneStep

(* The rest of them.                                                         *)
LEMMA UpgradeBuildKeeps ==
    ASSUME SchemaInv, UNCHANGED course, NEW p \in Users, UpgradeBuild(p)
    PROVE  SchemaInv'
<1> DEFINE s == starter[p]
           k == s.step
           r == [s EXCEPT !.pc = "built"]
           tables == db.tables \cup Migration[k].early
           armed == k # 4
<1>1. /\ s.pc = "creating" /\ starter' = [starter EXCEPT ![p] = r]
      /\ SetsBuilt(db', db, tables, armed) /\ UNCHANGED <<bak, overlap, acked, unfinished>>
  BY DEF UpgradeBuild, Become, SetsBuilt, History
<1>2. /\ s \in JobRecords /\ db \in Files /\ MilestoneGood(p, s, course, db, unfinished)
  BY JobFacts DEF StepGood
<1>3. SetsPc(r, s, "built") /\ "built" \in Pcs
  BY DEF SetsPc, Pcs, MigrationSteps
<1>5. k \in 1..HeadRevision /\ p = Operator /\ course = "migrate" /\ Creating(db, k) /\ unfinished
  BY <1>1, <1>2 DEF MilestoneGood, MigrationSteps
<1>6. starter[p].pc \in MigrationSteps
  BY <1>1 DEF MigrationSteps
<1> HIDE DEF r
<1>7. /\ r \in JobRecords /\ r.pc = "built" /\ r.step = k /\ r.orphan = s.orphan
  BY <1>2, <1>3, JobAt
<1> HIDE DEF s, k, tables
<1>8. PICK t \in Migration[k].early : Stage(db, k - 1, Required[k - 1] \cup {t}, FALSE)
  BY <1>5 DEF Creating
<1>9. /\ db.file /\ db.version = 2 /\ db.revision = k - 1 /\ db.manifests = ManifestsAt(k - 1)
      /\ db.tables = Required[k - 1] \cup {t}
  BY <1>8 DEF Stage
<1>10. tables \in SUBSET SchemaTables /\ tables = Required[k - 1] \cup Migration[k].early
  BY <1>5, <1>8, <1>9, StepTables DEF tables
<1>11. /\ db' \in Files /\ db'.tables = tables /\ db'.armed = armed /\ db'.file = db.file /\ db'.version = db.version
       /\ db'.revision = db.revision /\ db'.manifests = db.manifests /\ db'.rows = db.rows /\ db'.hist = db.hist
  <2>1. armed \in BOOLEAN
    OBVIOUS
  <2> HIDE DEF armed
  <2>. QED
    BY <1>1, <1>2, <1>10, <2>1, FileBuilt
<1>12. Built(db', k)
  BY <1>8, <1>9, <1>10, <1>11 DEF Built, Stage
<1>13. Classify(db') # "current" /\ Base \subseteq db'.tables /\ db'.revision = k - 1 /\ db'.revision # HeadRevision
  <2>1. Classify(db') # "current" /\ Base \subseteq db'.tables /\ db'.revision = k - 1
    BY <1>5, <1>12, BuiltPartial DEF HeadRevision
  <2>. QED
    BY <1>5, <2>1 DEF HeadRevision
<1>14. MilestoneGood(p, r, course, db', unfinished')
  BY <1>1, <1>5, <1>7, <1>12 DEF MilestoneGood, DowngradeSteps
<1>15. r.pc \in MigrationSteps
  BY <1>7 DEF MigrationSteps
<1>16. "publish" \notin overlap => acked' \cap Histories \subseteq db'.hist
  BY <1>1, <1>11 DEF SchemaInv, HistoryKept
<1>17. acked' \subseteq acked /\ unfinished' \in BOOLEAN /\ unfinished'
  <2>1. unfinished \in BOOLEAN
    BY JobFacts
  <2>. QED
    BY <1>1, <1>5, <2>1
<1>18. r.orphan = starter[p].orphan
  BY <1>7 DEF s
<1>. QED
  BY <1>1, <1>6, <1>7, <1>9, <1>11, <1>13, <1>14, <1>15, <1>16, <1>17, <1>18, MilestoneStep

(* The data, and the revision stamp.                                         *)
LEMMA UpgradeCommitKeeps ==
    ASSUME SchemaInv, UNCHANGED course, NEW p \in Users, UpgradeCommit(p)
    PROVE  SchemaInv'
<1> DEFINE s == starter[p]
           k == s.step
           tables == (db.tables \cup Migration[k].creates) \ Migration[k].drops
           manifests == IF Migration[k].seeds THEN Append(db.manifests, Seed(k, Latest(db.manifests))) ELSE db.manifests
           r == IF k = HeadRevision THEN AtRest ELSE [s EXCEPT !.pc = "upgrade", !.step = k + 1]
<1>1. /\ s.pc = IF Migration[k].early = {} THEN "upgrade" ELSE "built"
      /\ starter' = [starter EXCEPT ![p] = r]
      /\ SetsStamp(db', db, tables, TRUE, k, manifests) /\ unfinished' = FALSE
      /\ UNCHANGED <<bak, overlap, acked>>
  BY DEF UpgradeCommit, Become, SetsStamp
<1>2. /\ s \in JobRecords /\ db \in Files /\ MilestoneGood(p, s, course, db, unfinished)
  BY JobFacts DEF StepGood
<1>3. /\ k = HeadRevision => r = AtRest
      /\ k # HeadRevision => SetsStep(r, s, "upgrade", k + 1)
      /\ "upgrade" \in Pcs
  BY DEF SetsStep, Pcs, MigrationSteps
<1>4. /\ starter[p].pc \in MigrationSteps /\ k \in 1..HeadRevision /\ p = Operator /\ course = "migrate"
      /\ s.pc = "upgrade" => Settled(db, k - 1)
      /\ s.pc = "built" => Built(db, k)
  BY <1>1, <1>2 DEF MilestoneGood, MigrationSteps
<1> HIDE DEF r
<1>5. /\ r \in JobRecords /\ (r.orphan = s.orphan \/ ~r.orphan)
      /\ k = HeadRevision => r.pc = "idle"
      /\ k # HeadRevision => r.pc = "upgrade" /\ r.step = k + 1
  <2>1. CASE k = HeadRevision
    BY <1>3, <2>1, RestRecord
  <2>2. CASE k # HeadRevision
    <3>1. k + 1 \in 0..HeadRevision
      BY <1>4, <2>2 DEF HeadRevision
    <3> HIDE DEF s, k
    <3>. QED
      BY <1>2, <1>3, <2>2, <3>1, JobWithStep
  <2>. QED
    BY <2>1, <2>2
<1>6. r.orphan = starter[p].orphan \/ ~r.orphan
  BY <1>5
<1> HIDE DEF s, k, tables, manifests
<1>7. StepFits(k) /\ k - 1 \in 0..HeadRevision /\ Required[k] \in SUBSET SchemaTables
  BY <1>4, StepTables
<1>8. /\ db.file /\ db.version = 2 /\ db.revision = k - 1 /\ db.manifests = ManifestsAt(k - 1)
      /\ db.tables = Required[k - 1] \/ db.tables = Required[k - 1] \cup Migration[k].early
  <2>1. CASE s.pc = "upgrade"
    BY <1>4, <2>1 DEF Settled, Stage
  <2>2. CASE s.pc = "built"
    BY <1>4, <2>2 DEF Built, Stage
  <2>. QED
    BY <1>1, <2>1, <2>2
<1>9. tables = Required[k]
  BY <1>7, <1>8 DEF tables, StepFits
<1>10. manifests = ManifestsAt(k) /\ manifests \in Seq(SUBSET SchemaTables)
  <2>1. k \in 1..13 /\ k \in 0..13
    BY <1>4 DEF HeadRevision
  <2>2. ManifestsAt(k) \in Seq(SUBSET SchemaTables)
    BY <2>1, ManifestsTypes
  <2>3. CASE Migration[k].seeds
    BY <1>8, <2>1, <2>2, <2>3, ManifestsStep DEF manifests
  <2>4. CASE ~Migration[k].seeds
    BY <1>8, <2>1, <2>2, <2>4, ManifestsStep DEF manifests
  <2>. QED
    BY <2>3, <2>4
<1>11. k \in 0..HeadRevision
  BY <1>4 DEF HeadRevision
<1>12. /\ db' \in Files /\ db'.tables = Required[k] /\ db'.armed = TRUE /\ db'.revision = k
       /\ db'.manifests = ManifestsAt(k) /\ db'.file = db.file /\ db'.version = db.version
       /\ db'.rows = db.rows /\ db'.hist = db.hist
  <2>1. PICK on \in BOOLEAN : on = TRUE
    OBVIOUS
  <2>2. PICK made \in SUBSET SchemaTables : made = Required[k]
    BY <1>7
  <2>3. PICK seeded \in Seq(SUBSET SchemaTables) : seeded = ManifestsAt(k)
    BY <1>10
  <2>4. PICK stamp \in 0..HeadRevision : stamp = k
    BY <1>11
  <2>5. SetsStamp(db', db, made, on, stamp, seeded)
    BY <1>1, <1>9, <1>10, <2>1, <2>2, <2>3, <2>4
  <2>6. /\ db' \in Files /\ db'.tables = made /\ db'.armed = on /\ db'.revision = stamp
        /\ db'.manifests = seeded /\ db'.file = db.file /\ db'.version = db.version
        /\ db'.rows = db.rows /\ db'.hist = db.hist
    <3>1. db \in Files
      BY <1>2
    <3>. QED
      BY <2>5, <3>1, FileStamped, SMTT(30)
  <2>. QED
    BY <2>1, <2>2, <2>3, <2>4, <2>6
<1>13. Settled(db', k)
  BY <1>8, <1>12 DEF Settled, Stage
<1>14. MilestoneGood(p, r, course, db', unfinished')
  <2>1. CASE k = HeadRevision
    BY <1>5, <2>1 DEF MilestoneGood, MigrationSteps, DowngradeSteps
  <2>2. CASE k # HeadRevision
    <3>1. r.pc = "upgrade" /\ r.step = k + 1 /\ k + 1 \in 1..HeadRevision /\ (k + 1) - 1 = k
      BY <1>4, <1>5, <2>2 DEF HeadRevision
    <3>2. Settled(db', r.step - 1) /\ r.step \in 1..HeadRevision
      BY <1>13, <3>1
    <3>. QED
      BY <1>1, <1>4, <3>1, <3>2 DEF MilestoneGood, DowngradeSteps
  <2>. QED
    BY <2>1, <2>2
<1>15. r.pc \in MigrationSteps \cup {"idle"}
  BY <1>5 DEF MigrationSteps
<1>16. "publish" \notin overlap => acked' \cap Histories \subseteq db'.hist
  BY <1>1, <1>12 DEF SchemaInv, HistoryKept
<1>17. acked' \subseteq acked /\ unfinished' \in BOOLEAN /\ ~unfinished'
  BY <1>1
<1>. QED
  BY <1>1, <1>4, <1>5, <1>6, <1>8, <1>11, <1>12, <1>13, <1>14, <1>15, <1>16, <1>17, MilestoneStep

(* What a downgrade drops before its data statements.                        *)
LEMMA DowngradeUndoKeeps ==
    ASSUME SchemaInv, UNCHANGED course, NEW p \in Users, DowngradeUndo(p)
    PROVE  SchemaInv'
<1> DEFINE s == starter[p]
           k == s.step
           m == Migration[k]
           one == CHOOSE t \in m.creates : TRUE
           r == [s EXCEPT !.pc = "undone"]
<1>1. /\ s.pc = "checked" /\ starter' = [starter EXCEPT ![p] = r]
      /\ m.undo = "triggers" => SetsArmed(db', db, FALSE)
      /\ m.undo # "triggers" => \E left \in {{}, {one}} :
            SetsDropped(db', db, db.tables \ (m.creates \ left), db.hist \ HistoryOf(k))
      /\ acked' = acked \ (s.raced \ db'.hist) /\ unfinished' = TRUE /\ UNCHANGED <<bak, overlap>>
  BY DEF DowngradeUndo, Become, SetsArmed, SetsDropped
<1>2. /\ s \in JobRecords /\ db \in Files /\ MilestoneGood(p, s, course, db, unfinished)
  BY JobFacts DEF StepGood
<1>3. SetsPc(r, s, "undone") /\ "undone" \in Pcs
  BY DEF SetsPc, Pcs, MigrationSteps
<1>4. /\ k \in 1..HeadRevision /\ p = Operator /\ course = "migrate" /\ Settled(db, k)
      /\ HistoryOf(k) \cap db.hist \subseteq s.raced /\ s.target \in 1..12 /\ s.target < k
      /\ \A i \in (s.target + 1)..k : HistoryOf(i) \cap db.hist \subseteq s.late
  BY <1>1, <1>2 DEF MilestoneGood, MigrationSteps, DowngradeSteps
<1>5. starter[p].pc \in MigrationSteps
  BY <1>1 DEF MigrationSteps
<1> HIDE DEF r, one
<1>6. /\ r \in JobRecords /\ r.pc = "undone" /\ r.step = k /\ r.target = s.target /\ r.orphan = s.orphan
      /\ r.late = s.late /\ r.raced = s.raced
  BY <1>2, <1>3, JobAt
<1>7. r.orphan = starter[p].orphan
  BY <1>6
<1> HIDE DEF s, k
<1>8. StepFits(k) /\ Required[k] \in SUBSET SchemaTables /\ k > 1 /\ k \in 1..13
  BY <1>4, StepTables DEF HeadRevision
<1>9. /\ db.file /\ db.version = 2 /\ db.revision = k /\ db.manifests = ManifestsAt(k)
      /\ db.tables = Required[k] /\ db.armed
  BY <1>4 DEF Settled, Stage
<1>10. /\ db' \in Files /\ db'.file /\ db'.version = 2 /\ db'.rows = db.rows /\ Undone(db', k)
       /\ db'.hist \subseteq db.hist /\ db.hist \ HistoryOf(k) \subseteq db'.hist
  <2>1. CASE m.undo = "triggers"
    <3>1. PICK off \in BOOLEAN : off = FALSE
      OBVIOUS
    <3>2. SetsArmed(db', db, off)
      BY <1>1, <2>1, <3>1
    <3>3. /\ db' \in Files /\ db'.armed = off /\ db'.file = db.file /\ db'.tables = db.tables
          /\ db'.version = db.version /\ db'.revision = db.revision /\ db'.manifests = db.manifests
          /\ db'.rows = db.rows /\ db'.hist = db.hist
      BY <1>2, <3>2, FileDisarmed
    <3>4. Stage(db', k, Required[k], FALSE)
      BY <1>9, <3>1, <3>3 DEF Stage
    <3>. QED
      BY <1>8, <1>9, <2>1, <3>3, <3>4 DEF Undone
  <2>2. CASE m.undo # "triggers"
    <3>1. PICK left \in {{}, {one}} : SetsDropped(db', db, db.tables \ (m.creates \ left), db.hist \ HistoryOf(k))
      BY <1>1, <2>2
    <3>2. PICK tables \in SUBSET SchemaTables : tables = Required[k] \ (m.creates \ left)
      BY <1>8
    <3>3. PICK hist \in SUBSET Histories : hist = db.hist \ HistoryOf(k)
      BY <1>2 DEF Files
    <3>4. SetsDropped(db', db, tables, hist)
      BY <1>9, <3>1, <3>2, <3>3
    <3>5. /\ db' \in Files /\ db'.tables = tables /\ db'.hist = hist /\ db'.file = db.file
          /\ db'.version = db.version /\ db'.revision = db.revision /\ db'.manifests = db.manifests
          /\ db'.armed = db.armed /\ db'.rows = db.rows
      BY <1>2, <3>4, FileDropped
    <3>6. PICK dropped \in SUBSET m.creates : dropped = m.creates \ left
      OBVIOUS
    <3>7. dropped # {}
      <4>1. PICK x, y \in m.creates : x # y
        BY <1>8, <2>2 DEF StepFits
      <4>. QED
        BY <3>1, <3>6, <4>1
    <3>8. Stage(db', k, Required[k] \ dropped, TRUE)
      BY <1>9, <3>2, <3>5, <3>6 DEF Stage
    <3>9. Undone(db', k)
      BY <1>8, <2>2, <3>6, <3>7, <3>8 DEF Undone
    <3>. QED
      BY <1>9, <3>3, <3>5, <3>9
  <2>. QED
    BY <2>1, <2>2
<1>11. /\ Classify(db') # "current" /\ Base \subseteq db'.tables /\ db'.revision = k
       /\ k = HeadRevision => ~db'.armed
  BY <1>8, <1>10, UndonePartial
<1>12. MilestoneGood(p, r, course, db', unfinished')
  <2>1. HistoryOf(r.step) \cap db'.hist \subseteq r.raced
    BY <1>4, <1>6, <1>10
  <2>2. \A i \in (r.target + 1)..r.step : HistoryOf(i) \cap db'.hist \subseteq r.late
    <3>1. SUFFICES ASSUME NEW i \in (s.target + 1)..k PROVE HistoryOf(i) \cap db'.hist \subseteq s.late
      BY <1>6
    <3>. QED
      BY <1>4, <1>10
  <2>3. r.target \in 1..12 /\ r.target < r.step /\ r.step \in 1..HeadRevision /\ Undone(db', r.step)
    BY <1>4, <1>6, <1>10
  <2>. QED
    BY <1>1, <1>4, <1>6, <2>1, <2>2, <2>3 DEF MilestoneGood
<1>13. r.pc \in MigrationSteps
  BY <1>6 DEF MigrationSteps
<1>14. "publish" \notin overlap => acked' \cap Histories \subseteq db'.hist
  <2>1. "publish" \notin overlap => acked \cap Histories \subseteq db.hist
    BY DEF SchemaInv, HistoryKept
  <2>. QED
    BY <1>1, <1>4, <1>10, <2>1
<1>15. acked' \subseteq acked /\ unfinished' \in BOOLEAN /\ unfinished'
  BY <1>1
<1>16. UNCHANGED <<course, bak, overlap>> /\ starter' = [starter EXCEPT ![p] = r]
  BY <1>1
<1>17. db'.revision = HeadRevision => ~db'.armed
  BY <1>11
<1>. QED
  BY <1>5, <1>6, <1>7, <1>9, <1>10, <1>11, <1>12, <1>13, <1>14, <1>15, <1>16, <1>17, MilestoneStep

(* The rest of the step, and the stamp of the revision below.                *)
LEMMA DowngradeCommitKeeps ==
    ASSUME SchemaInv, UNCHANGED course, NEW p \in Users, DowngradeCommit(p)
    PROVE  SchemaInv'
<1> DEFINE s == starter[p]
           k == s.step
           m == Migration[k]
           less == (db.tables \ m.creates) \cup m.drops
           shorter == IF m.seeds THEN SubSeq(db.manifests, 1, Len(db.manifests) - 1) ELSE db.manifests
           r == IF k - 1 = s.target THEN AtRest ELSE [s EXCEPT !.pc = "downgrade", !.step = k - 1, !.raced = {}]
<1>1. /\ s.pc = "undone" /\ starter' = [starter EXCEPT ![p] = r]
      /\ SetsBack(db', db, less, db.hist \ HistoryOf(k), TRUE, shorter, k - 1)
      /\ acked' = acked \ (s.raced \ db'.hist) /\ unfinished' = FALSE /\ UNCHANGED <<bak, overlap>>
  BY DEF DowngradeCommit, Become, SetsBack
<1>2. /\ s \in JobRecords /\ db \in Files /\ MilestoneGood(p, s, course, db, unfinished)
  BY JobFacts DEF StepGood
<1>3. /\ k - 1 = s.target => r = AtRest
      /\ k - 1 # s.target => SetsRaced(r, s, "downgrade", k - 1)
      /\ "downgrade" \in Pcs
  BY DEF SetsRaced, Pcs, MigrationSteps
<1>4. /\ k \in 1..HeadRevision /\ p = Operator /\ course = "migrate" /\ Undone(db, k)
      /\ HistoryOf(k) \cap db.hist \subseteq s.raced /\ s.target \in 1..12 /\ s.target < k
      /\ \A i \in (s.target + 1)..k : HistoryOf(i) \cap db.hist \subseteq s.late
  BY <1>1, <1>2 DEF MilestoneGood, MigrationSteps, DowngradeSteps
<1>5. starter[p].pc \in MigrationSteps
  BY <1>1 DEF MigrationSteps
<1> HIDE DEF r, less, shorter
<1>6. /\ r \in JobRecords /\ (r.orphan = s.orphan \/ ~r.orphan)
      /\ k - 1 = s.target => r.pc = "idle"
      /\ k - 1 # s.target => r.pc = "downgrade" /\ r.step = k - 1 /\ r.target = s.target /\ r.late = s.late
  <2>1. CASE k - 1 = s.target
    BY <1>3, <2>1, RestRecord
  <2>2. CASE k - 1 # s.target
    <3>1. k - 1 \in 0..HeadRevision
      BY <1>4 DEF HeadRevision
    <3> HIDE DEF s, k
    <3>. QED
      BY <1>2, <1>3, <2>2, <3>1, JobWithRaced
  <2>. QED
    BY <2>1, <2>2
<1>7. r.orphan = starter[p].orphan \/ ~r.orphan
  BY <1>6
<1> HIDE DEF s, k
<1>8. /\ StepFits(k) /\ Required[k - 1] \in SUBSET SchemaTables /\ k > 1 /\ k \in 1..13
      /\ k - 1 \in 0..HeadRevision /\ k - 1 \in 0..13 /\ k \in 0..13
  BY <1>4, StepTables DEF HeadRevision
<1>9. db.file /\ db.version = 2 /\ db.manifests = ManifestsAt(k)
  BY <1>4, <1>8, UndonePartial
<1>10. less = Required[k - 1]
  <2>1. CASE m.undo = "triggers"
    <3>1. db.tables = Required[k]
      BY <1>4, <2>1 DEF Undone, Stage
    <3>. QED
      BY <1>8, <3>1 DEF less, StepFits
  <2>2. CASE m.undo # "triggers"
    <3>1. PICK dropped \in SUBSET m.creates : Stage(db, k, Required[k] \ dropped, TRUE)
      BY <1>4, <2>2 DEF Undone
    <3>2. db.tables = Required[k] \ dropped
      BY <3>1 DEF Stage
    <3>. QED
      BY <1>8, <3>1, <3>2 DEF less, StepFits
  <2>. QED
    BY <2>1, <2>2
<1>11. shorter = ManifestsAt(k - 1) /\ ManifestsAt(k - 1) \in Seq(SUBSET SchemaTables)
  <2>1. ManifestsAt(k - 1) \in Seq(SUBSET SchemaTables)
    BY <1>8, ManifestsTypes
  <2>2. /\ m.seeds => SubSeq(ManifestsAt(k), 1, Len(ManifestsAt(k)) - 1) = ManifestsAt(k - 1)
        /\ ~m.seeds => ManifestsAt(k) = ManifestsAt(k - 1)
    BY <1>8, ManifestsStep
  <2>3. shorter = IF m.seeds THEN SubSeq(ManifestsAt(k), 1, Len(ManifestsAt(k)) - 1) ELSE ManifestsAt(k)
    BY <1>9, Zenon DEF shorter
  <2> HIDE DEF m
  <2>4. shorter = ManifestsAt(k - 1)
    BY <2>2, <2>3, Zenon
  <2>. QED
    BY <2>1, <2>4
<1>12. /\ db' \in Files /\ db'.tables = Required[k - 1] /\ db'.armed = TRUE /\ db'.revision = k - 1
       /\ db'.manifests = ManifestsAt(k - 1) /\ db'.file = db.file /\ db'.version = db.version
       /\ db'.rows = db.rows /\ db'.hist = db.hist \ HistoryOf(k)
  <2>1. PICK on \in BOOLEAN : on = TRUE
    OBVIOUS
  <2>2. PICK left \in SUBSET SchemaTables : left = Required[k - 1]
    BY <1>8
  <2>3. PICK seeded \in Seq(SUBSET SchemaTables) : seeded = ManifestsAt(k - 1)
    BY <1>11
  <2>4. PICK stamp \in 0..HeadRevision : stamp = k - 1
    BY <1>8
  <2>5. PICK hist \in SUBSET Histories : hist = db.hist \ HistoryOf(k)
    BY <1>2 DEF Files
  <2>6. SetsBack(db', db, left, hist, on, seeded, stamp)
    BY <1>1, <1>10, <1>11, <2>1, <2>2, <2>3, <2>4, <2>5
  <2>7. /\ db' \in Files /\ db'.tables = left /\ db'.armed = on /\ db'.revision = stamp
        /\ db'.manifests = seeded /\ db'.file = db.file /\ db'.version = db.version
        /\ db'.rows = db.rows /\ db'.hist = hist
    <3>1. db \in Files
      BY <1>2
    <3>. QED
      BY <2>6, <3>1, FileBack, SMTT(30)
  <2>. QED
    BY <2>1, <2>2, <2>3, <2>4, <2>5, <2>7
<1>13. Settled(db', k - 1)
  BY <1>9, <1>12 DEF Settled, Stage
<1>14. MilestoneGood(p, r, course, db', unfinished')
  <2>1. CASE k - 1 = s.target
    BY <1>6, <2>1 DEF MilestoneGood, MigrationSteps, DowngradeSteps
  <2>2. CASE k - 1 # s.target
    <3>1. /\ r.pc = "downgrade" /\ r.step = k - 1 /\ r.target = s.target /\ r.late = s.late
      BY <1>6, <2>2
    <3>2. r.step \in 1..HeadRevision /\ r.target \in 1..12 /\ r.target < r.step
      BY <1>4, <1>8, <2>2, <3>1 DEF HeadRevision
    <3>3. \A i \in (r.target + 1)..r.step : HistoryOf(i) \cap db'.hist \subseteq r.late
      <4>1. SUFFICES ASSUME NEW i \in (s.target + 1)..(k - 1) PROVE HistoryOf(i) \cap db'.hist \subseteq s.late
        BY <3>1
      <4>2. i \in (s.target + 1)..k
        BY <1>4 DEF HeadRevision
      <4>. QED
        BY <1>4, <1>12, <4>2
    <3>4. Settled(db', r.step)
      BY <1>13, <3>1
    <3>. QED
      BY <1>1, <1>4, <3>1, <3>2, <3>3, <3>4 DEF MilestoneGood
  <2>. QED
    BY <2>1, <2>2
<1>15. r.pc \in MigrationSteps \cup {"idle"}
  BY <1>6 DEF MigrationSteps
<1>16. "publish" \notin overlap => acked' \cap Histories \subseteq db'.hist
  <2>1. "publish" \notin overlap => acked \cap Histories \subseteq db.hist
    BY DEF SchemaInv, HistoryKept
  <2>. QED
    BY <1>1, <1>4, <1>12, <2>1
<1>17. acked' \subseteq acked /\ unfinished' \in BOOLEAN /\ ~unfinished'
  BY <1>1
<1>18. UNCHANGED <<course, bak, overlap>> /\ starter' = [starter EXCEPT ![p] = r]
  BY <1>1
<1>. QED
  BY <1>5, <1>6, <1>7, <1>8, <1>9, <1>12, <1>13, <1>14, <1>15, <1>16, <1>17, <1>18, MilestoneStep

(* The file at the path is replaced: by a new database or by a backup.       *)
LEMMA ReplaceStep ==
    ASSUME SchemaInv, UNCHANGED <<course, overlap>>, NEW p \in Users, starter[p].pc \in Publishing,
           NEW d \in Files, NEW after \in JobRecords, Replace(p, d, after),
           after.pc \in {"idle", "open"}, ~after.orphan, d.file, SimpleFile(d), course = "migrate" => d.version = 2,
           acked' \subseteq FileRows \cup Histories, "publish" \notin overlap => acked' \subseteq d.rows,
           overlap = {} => "legacy" \notin d.rows \/ d.version # 2
    PROVE  SchemaInv'
<1>1. /\ starter \in [Users -> JobRecords] /\ db' = d /\ unfinished' = FALSE /\ UNCHANGED bak
      /\ starter'[p] = after
      /\ \A q \in Users \ {p} : starter'[q] =
            IF starter[q].pc = "open" THEN [starter[q] EXCEPT !.orphan = TRUE]
            ELSE IF starter[q].pc \in MigrationSteps THEN AtRest ELSE starter[q]
  BY DEF Replace, SchemaInv, SchemaTypes
<1>2. ApartGood(starter, db, acked, overlap)
  BY DEF SchemaInv, ApartInv
<1>3. \A q \in Users : StepGood(q, starter[q], course, db, bak, unfinished, overlap)
  BY JobFacts
<1>4. "publish" \notin overlap => ~db.file
  BY <1>2 DEF ApartGood
<1>5. \A q \in Users \ {p} :
         /\ starter'[q] \in JobRecords
         /\ \/ starter[q].pc = "open" /\ starter'[q].pc = "open"
            \/ starter[q].pc \in MigrationSteps /\ starter'[q] = AtRest
            \/ starter[q].pc \notin MigrationSteps \cup {"open"} /\ starter'[q] = starter[q]
  <2>1. SUFFICES ASSUME NEW q \in Users \ {p}
                 PROVE  /\ starter'[q] \in JobRecords
                        /\ \/ starter[q].pc = "open" /\ starter'[q].pc = "open"
                           \/ starter[q].pc \in MigrationSteps /\ starter'[q] = AtRest
                           \/ starter[q].pc \notin MigrationSteps \cup {"open"} /\ starter'[q] = starter[q]
    OBVIOUS
  <2>2. PICK old \in JobRecords : old = starter[q]
    BY <1>1
  <2>3. CASE old.pc = "open"
    <3>1. starter'[q] = [old EXCEPT !.orphan = TRUE]
      BY <1>1, <2>2, <2>3
    <3>2. starter'[q] \in JobRecords /\ starter'[q].pc = old.pc
      BY <3>1 DEF JobRecords
    <3>. QED
      BY <2>2, <2>3, <3>2
  <2>4. CASE old.pc # "open" /\ old.pc \in MigrationSteps
    <3>1. starter'[q] = AtRest
      BY <1>1, <2>2, <2>4, Zenon
    <3>. QED
      BY <2>2, <2>4, <3>1, RestRecord
  <2>5. CASE old.pc # "open" /\ old.pc \notin MigrationSteps
    <3>1. starter'[q] = starter[q]
      BY <1>1, <2>2, <2>5, Zenon
    <3>. QED
      BY <2>2, <2>5, <3>1
  <2>. QED
    BY <2>3, <2>4, <2>5
<1>6. starter' \in [Users -> JobRecords]
  <2>1. \A q \in Users : starter'[q] \in JobRecords
    BY <1>1, <1>5
  <2>. QED
    BY <2>1 DEF Replace
<1>7. SchemaTypes'
  BY <1>1, <1>6 DEF SchemaInv, SchemaTypes
<1>8. DbInv'
  <2>1. d.version = 2 => \E k \in 0..HeadRevision : Settled(d, k)
    BY SimpleSettled DEF HeadRevision
  <2>2. DbGood(course, d, FALSE)
    BY <2>1 DEF DbGood
  <2>. QED
    BY <1>1, <2>2 DEF DbInv
<1>9. BakInv'
  BY <1>1 DEF SchemaInv, BakInv
<1>10. \A q \in Users : StepInv(q)'
  <2>1. SUFFICES ASSUME NEW q \in Users PROVE StepGood(q, starter'[q], course, d, bak, FALSE, overlap)
    BY <1>1 DEF StepInv
  <2>2. CASE q = p
    BY <1>1, <2>2, RestGood
  <2>3. CASE q # p /\ starter'[q].pc = "open"
    BY <2>3, RestGood
  <2>4. CASE q # p /\ starter'[q] = AtRest
    BY <2>4, RestRecord, RestGood
  <2>5. CASE q # p /\ starter[q].pc \notin MigrationSteps \cup {"open"} /\ starter'[q] = starter[q]
    <3>1. starter[q].pc \in BackupSteps => overlap # {}
      <4>1. starter[q].pc \in BackupSteps => db.file
        BY <1>3 DEF StepGood, BackupSteps, Publishing
      <4>. QED
        BY <1>4, <4>1
    <3>2. StepGood(q, starter[q], course, d, bak, FALSE, overlap)
      BY <1>3, <2>5, <3>1, OthersGood
    <3>. QED
      BY <2>5, <3>2
  <2>. QED
    BY <1>5, <2>2, <2>3, <2>4, <2>5
<1>11. ApartInv'
  <2>1. ASSUME "publish" \notin overlap
        PROVE  \A q \in Users : starter'[q].pc \notin Publishing /\ ~starter'[q].orphan
    <3>1. SUFFICES ASSUME NEW q \in Users, q # p PROVE starter'[q].pc \notin Publishing /\ ~starter'[q].orphan
      BY <1>1 DEF Publishing
    <3>2. starter[q].pc # "open"
      BY <1>3, <1>4, <2>1 DEF StepGood, Publishing
    <3>3. starter[q].pc \notin Publishing /\ ~starter[q].orphan
      BY <1>2, <2>1, <3>1 DEF ApartGood
    <3>. QED
      BY <1>5, <3>1, <3>2, <3>3, RestRecord DEF Publishing
  <2>2. ASSUME "backup" \notin overlap
        PROVE  \A q1, q2 \in Users : starter'[q1].pc \in BackupSteps /\ starter'[q2].pc \in BackupSteps => q1 = q2
    <3>1. \A q \in Users : starter'[q].pc \in BackupSteps => starter[q].pc \in BackupSteps
      BY <1>1, <1>5, RestRecord DEF BackupSteps
    <3>. QED
      BY <1>2, <2>2, <3>1 DEF ApartGood
  <2>3. ApartGood(starter', d, acked', overlap)
    BY <2>1, <2>2 DEF ApartGood
  <2>. QED
    BY <1>1, <2>3 DEF ApartInv
<1>12. d.rows \cap Histories = {} /\ d.rows \subseteq FileRows
  BY FileAssumption DEF Files, FileRows, Histories
<1>13. RowsSurvive' /\ HistoryKept'
  BY <1>1, <1>12 DEF RowsSurvive, HistoryKept
<1>14. MigratedHasBackup'
  BY <1>1 DEF MigratedHasBackup
<1>. QED
  BY <1>7, <1>8, <1>9, <1>10, <1>11, <1>13, <1>14 DEF SchemaInv

(* A first start.                                                            *)
LEMMA InitializePublishKeeps ==
    ASSUME SchemaInv, UNCHANGED course, NEW p \in Users, InitializePublish(p)
    PROVE  SchemaInv'
<1>1. /\ starter[p].pc = "publish" /\ Replace(p, starter[p].copy, OpenStore) /\ UNCHANGED <<acked, overlap>>
  BY DEF InitializePublish
<1>2. StepGood(p, starter[p], course, db, bak, unfinished, overlap)
  BY JobFacts
<1>3. Replace(p, NewFile, OpenStore) /\ starter[p].pc \in Publishing
  BY <1>1, <1>2 DEF StepGood, StartGood, Publishing
<1>4. OpenStore \in JobRecords /\ OpenStore.pc = "open" /\ ~OpenStore.orphan
  <2>1. SetsPc(OpenStore, AtRest, "open") /\ "open" \in Pcs
    BY DEF OpenStore, SetsPc, Pcs
  <2>. QED
    BY <2>1, RestRecord, JobAt
<1>5. "publish" \notin overlap => acked = {}
  BY <1>3 DEF SchemaInv, ApartInv, ApartGood
<1>6. acked' \subseteq FileRows \cup Histories
  BY <1>1 DEF SchemaInv, SchemaTypes
<1>. QED
  BY <1>1, <1>3, <1>4, <1>5, <1>6, ConstantFiles, ReplaceStep

(* A restore.                                                                *)
LEMMA RestorePublishKeeps ==
    ASSUME SchemaInv, UNCHANGED course, NEW p \in Users, RestorePublish(p)
    PROVE  SchemaInv'
<1> DEFINE d == starter[p].copy
<1>1. /\ starter[p].pc = "restore" /\ Replace(p, d, AtRest) /\ acked' = acked \cup d.rows /\ UNCHANGED overlap
  BY DEF RestorePublish
<1>2. StepGood(p, starter[p], course, db, bak, unfinished, overlap)
  BY JobFacts
<1>3. /\ course = "start" /\ d \in Files /\ SimpleFile(d) /\ d.file /\ (overlap = {} => d.version # 2)
      /\ starter[p].pc \in Publishing
  BY <1>1, <1>2 DEF StepGood, StartGood, Publishing
<1>4. "publish" \notin overlap => acked = {}
  BY <1>3 DEF SchemaInv, ApartInv, ApartGood
<1>5. d.rows \subseteq FileRows
  BY <1>3 DEF Files, FileRows
<1>6. acked' \subseteq FileRows \cup Histories
  BY <1>1, <1>5 DEF SchemaInv, SchemaTypes
<1> HIDE DEF d
<1>. QED
  BY <1>1, <1>3, <1>4, <1>6, RestRecord, ReplaceStep

(* The database is moved away while nothing runs.                            *)
LEMMA MoveAwayKeeps ==
    ASSUME SchemaInv, UNCHANGED course, NEW p \in Users, MoveAway(p)
    PROVE  SchemaInv'
<1>1. /\ \A q \in Users : starter[q].pc = "idle"
      /\ db' = NoFile /\ acked' = {} /\ unfinished' = FALSE /\ UNCHANGED <<bak, starter, overlap>>
  BY DEF MoveAway
<1>2. SchemaTypes'
  BY <1>1, ConstantFiles DEF SchemaInv, SchemaTypes
<1>3. DbGood(course, NoFile, FALSE)
  BY ConstantFiles DEF DbGood
<1>4. DbInv' /\ BakInv'
  BY <1>1, <1>3 DEF SchemaInv, DbInv, BakInv
<1>5. \A q \in Users : StepInv(q)'
  <2>1. SUFFICES ASSUME NEW q \in Users PROVE StepGood(q, starter[q], course, NoFile, bak, FALSE, overlap)
    BY <1>1 DEF StepInv
  <2>. QED
    BY <1>1, RestGood
<1>6. ApartInv'
  <2>1. ApartGood(starter, db, acked, overlap)
    BY DEF SchemaInv, ApartInv
  <2>2. ApartGood(starter, NoFile, {}, overlap)
    BY <1>1, <2>1 DEF ApartGood, Publishing
  <2>. QED
    BY <1>1, <2>2 DEF ApartInv
<1>7. RowsSurvive' /\ HistoryKept' /\ MigratedHasBackup'
  BY <1>1, ConstantFiles DEF RowsSurvive, HistoryKept, MigratedHasBackup
<1>. QED
  BY <1>2, <1>4, <1>5, <1>6, <1>7 DEF SchemaInv

(* A database that gains rows, or histories at a milestone, stays as good.   *)
Enriched(c, d, e) ==
    /\ SameSchema(d, e) /\ d.file /\ d.rows \subseteq e.rows /\ d.hist \subseteq e.hist
    /\ c = "start" => e.hist = d.hist
    /\ d.version # 2 => e.hist = d.hist
(* The database stays as good.                                               *)
LEMMA EnrichedDb ==
    ASSUME NEW c, NEW d, NEW e, NEW u, Enriched(c, d, e), DbGood(c, d, u)
    PROVE  DbGood(c, e, u)
<1>1. SameSchema(d, e) /\ Classify(e) = Classify(d)
  BY SameSchemaClass DEF Enriched
<1>2. \A k : Settled(d, k) => Settled(e, k)
  BY <1>1, SameSchemaStages
<1>3. e.hist = d.hist /\ SimpleFile(d) => SimpleFile(e)
  BY <1>1 DEF Enriched, SimpleFile, SameSchema
<1>4. c = "start" => SimpleFile(e)
  BY <1>3 DEF Enriched, DbGood
<1>5. e.version # 2 => SimpleFile(e) /\ ~u
  BY <1>1, <1>3 DEF Enriched, DbGood, SameSchema
<1>6. c = "migrate" /\ e.file => e.version = 2
  BY <1>1 DEF DbGood, SameSchema
<1>7. e.version = 2 /\ ~u => \E k \in 0..HeadRevision : Settled(e, k)
  BY <1>1, <1>2 DEF DbGood, SameSchema
<1>8. u => /\ c = "migrate" /\ e.file /\ Base \subseteq e.tables /\ Classify(e) # "current"
           /\ e.revision = HeadRevision => ~e.armed
  BY <1>1 DEF DbGood, SameSchema
<1>. QED
  BY <1>4, <1>5, <1>6, <1>7, <1>8 DEF DbGood

(* A job beside it may go on, when what was written is on its list.          *)
Noted(s, r, g) ==
    /\ r.pc = s.pc /\ r.job = s.job /\ r.copy = s.copy /\ r.step = s.step /\ r.target = s.target
    /\ s.late \subseteq r.late /\ s.raced \subseteq r.raced
    /\ s.pc \in DowngradeSteps => g \subseteq r.late
    /\ s.pc \in {"checked", "undone"} => g \subseteq r.raced
(* The job stays as good.                                                    *)
LEMMA EnrichedJob ==
    ASSUME NEW p, NEW s, NEW r, NEW c, NEW d, NEW e, NEW b, NEW u, NEW o, NEW g,
           Enriched(c, d, e), e.hist = d.hist \cup g, Noted(s, r, g), StepGood(p, s, c, d, b, u, o)
    PROVE  StepGood(p, r, c, e, b, u, o)
<1>1. SameSchema(d, e) /\ d.rows \subseteq e.rows /\ e.file = d.file /\ e.armed = d.armed
  BY DEF Enriched, SameSchema
<1>2. /\ r.pc = s.pc /\ r.job = s.job /\ r.copy = s.copy /\ r.step = s.step /\ r.target = s.target
      /\ s.late \subseteq r.late /\ s.raced \subseteq r.raced
      /\ s.pc \in DowngradeSteps => g \subseteq r.late
      /\ s.pc \in {"checked", "undone"} => g \subseteq r.raced
  BY DEF Noted
<1>3. StartGood(r, c, o)
  BY <1>2 DEF StepGood, StartGood
<1>4. \A j : LegacyOf(d, j) => LegacyOf(e, j)
  BY <1>1 DEF LegacyOf, SameSchema
<1>5. BackupGood(r, c, e, b, o)
  BY <1>2, <1>4 DEF StepGood, BackupGood
<1>6. /\ \A k : Settled(d, k) => Settled(e, k)
      /\ \A k : Creating(d, k) => Creating(e, k)
      /\ \A k : Built(d, k) => Built(e, k)
      /\ \A k : Undone(d, k) => Undone(e, k)
  BY <1>1, SameSchemaStages
<1>7. MilestoneGood(p, r, c, e, u)
  <2>1. MilestoneGood(p, s, c, d, u)
    BY DEF StepGood
  <2>2. /\ r.pc \in MigrationSteps => p = Operator /\ c = "migrate" /\ r.step \in 1..HeadRevision
        /\ r.pc = "upgrade" => ~u /\ Settled(e, r.step - 1)
        /\ r.pc = "creating" => u /\ Creating(e, r.step)
        /\ r.pc = "built" => u /\ Built(e, r.step)
    BY <1>2, <1>6, <2>1 DEF MilestoneGood
  <2>3. /\ r.pc = "downgrade" => (~u /\ Settled(e, r.step)) \/ ~e.armed
        /\ r.pc = "checked" => ~u /\ Settled(e, r.step)
        /\ r.pc = "undone" => u /\ Undone(e, r.step)
    BY <1>1, <1>2, <1>6, <2>1 DEF MilestoneGood
  <2>4. r.pc \in {"checked", "undone"} => HistoryOf(r.step) \cap e.hist \subseteq r.raced
    BY <1>2, <2>1 DEF MilestoneGood
  <2>5. r.pc \in DowngradeSteps =>
          /\ r.target \in 1..12 /\ r.target < r.step
          /\ \A k \in (r.target + 1)..r.step : HistoryOf(k) \cap e.hist \subseteq r.late
    BY <1>2, <2>1 DEF MilestoneGood
  <2>. QED
    BY <2>2, <2>3, <2>4, <2>5 DEF MilestoneGood
<1>. QED
  BY <1>1, <1>2, <1>3, <1>5, <1>7 DEF StepGood

(* What an open platform writes.                                             *)
LEMMA EnrichedStep ==
    ASSUME SchemaInv, NEW g \in SUBSET Histories, UNCHANGED <<course, bak, overlap, unfinished>>,
           starter' \in [Users -> JobRecords],
           \A q \in Users : Noted(starter[q], starter'[q], g) /\ starter'[q].orphan = starter[q].orphan,
           db' \in Files, Enriched(course, db, db'), db'.hist = db.hist \cup g,
           "legacy" \in db'.rows => "legacy" \in db.rows,
           acked' \subseteq FileRows \cup Histories,
           "publish" \notin overlap => acked' \cap FileRows \subseteq db'.rows /\ acked' \cap Histories \subseteq db'.hist
    PROVE  SchemaInv'
<1>1. SchemaTypes'
  BY DEF SchemaInv, SchemaTypes
<1>2. DbInv' /\ BakInv'
  <2>1. DbGood(course, db, unfinished) /\ BakGood(course, bak, overlap)
    BY DEF SchemaInv, DbInv, BakInv
  <2>2. DbGood(course, db', unfinished)
    BY <2>1, EnrichedDb
  <2>. QED
    BY <2>1, <2>2 DEF DbInv, BakInv
<1>3. \A q \in Users : StepInv(q)'
  <2>1. SUFFICES ASSUME NEW q \in Users PROVE StepGood(q, starter'[q], course, db', bak, unfinished, overlap)
    BY DEF StepInv
  <2>2. StepGood(q, starter[q], course, db, bak, unfinished, overlap)
    BY JobFacts
  <2>. QED
    BY <2>2, EnrichedJob
<1>4. ApartInv'
  <2>1. ApartGood(starter, db, acked, overlap)
    BY DEF SchemaInv, ApartInv
  <2>2. \A q \in Users : starter'[q].pc = starter[q].pc /\ starter'[q].orphan = starter[q].orphan
    BY DEF Noted
  <2>3. db.file /\ db'.file
    BY DEF Enriched, SameSchema
  <2>4. ApartGood(starter', db', acked', overlap)
    BY <2>1, <2>2, <2>3 DEF ApartGood
  <2>. QED
    BY <2>4 DEF ApartInv
<1>5. MigratedHasBackup'
  <2>1. db'.version = db.version
    BY DEF Enriched, SameSchema
  <2>. QED
    BY <2>1 DEF SchemaInv, MigratedHasBackup
<1>6. RowsSurvive' /\ HistoryKept'
  BY DEF RowsSurvive, HistoryKept, FileRows
<1>. QED
  BY <1>1, <1>2, <1>3, <1>4, <1>5, <1>6 DEF SchemaInv

(* A row.                                                                    *)
LEMMA WriteRowKeeps ==
    ASSUME SchemaInv, UNCHANGED course, NEW p \in Users, WriteRow(p)
    PROVE  SchemaInv'
<1>1. /\ starter[p].pc = "open" /\ acked' = acked \cup {p} /\ UNCHANGED <<bak, starter, overlap, unfinished>>
      /\ starter[p].orphan => db' = db
      /\ ~starter[p].orphan => SetsRows(db', db, db.rows \cup {p})
  BY DEF WriteRow, SetsRows
<1>2. /\ db \in Files /\ StepGood(p, starter[p], course, db, bak, unfinished, overlap)
      /\ "publish" \notin overlap => ~starter[p].orphan
  BY JobFacts
<1>3. db.file
  BY <1>1, <1>2 DEF StepGood, Publishing
<1>4. p \in FileRows /\ p # "legacy" /\ p \notin Histories
  BY FileAssumption DEF FileRows
<1>5. PICK g \in SUBSET Histories : g = {}
  OBVIOUS
<1>6. /\ db' \in Files /\ SameSchema(db, db') /\ db.rows \subseteq db'.rows /\ db'.hist = db.hist
      /\ db'.rows \subseteq db.rows \cup {p} /\ (~starter[p].orphan => p \in db'.rows)
  <2>1. CASE starter[p].orphan
    BY <1>1, <1>2, <2>1 DEF SameSchema
  <2>2. CASE ~starter[p].orphan
    <3>1. PICK kept \in SUBSET FileRows : kept = db.rows \cup {p}
      BY <1>2, <1>4 DEF Files, FileRows
    <3>2. SetsRows(db', db, kept)
      BY <1>1, <2>2, <3>1
    <3>3. /\ db' \in Files /\ db'.rows = kept /\ db'.file = db.file /\ db'.tables = db.tables
          /\ db'.version = db.version /\ db'.revision = db.revision /\ db'.manifests = db.manifests
          /\ db'.armed = db.armed /\ db'.hist = db.hist
      BY <1>2, <3>2, FileWritten
    <3>. QED
      BY <3>1, <3>3 DEF SameSchema
  <2>. QED
    BY <2>1, <2>2
<1>7. Enriched(course, db, db')
  BY <1>3, <1>6 DEF Enriched
<1>8. \A q \in Users : Noted(starter[q], starter'[q], g) /\ starter'[q].orphan = starter[q].orphan
  BY <1>1, <1>5 DEF Noted
<1>9. /\ acked' \subseteq FileRows \cup Histories
      /\ "publish" \notin overlap => acked' \cap FileRows \subseteq db'.rows /\ acked' \cap Histories \subseteq db'.hist
  <2>1. acked \subseteq FileRows \cup Histories
    BY DEF SchemaInv, SchemaTypes
  <2>2. "publish" \notin overlap => acked \cap FileRows \subseteq db.rows /\ acked \cap Histories \subseteq db.hist
    BY DEF SchemaInv, RowsSurvive, HistoryKept, FileRows
  <2>. QED
    BY <1>1, <1>2, <1>4, <1>6, <2>1, <2>2
<1>10. starter' \in [Users -> JobRecords] /\ db'.hist = db.hist \cup g
  BY <1>1, <1>5, <1>6 DEF SchemaInv, SchemaTypes
<1>11. "legacy" \in db'.rows => "legacy" \in db.rows
  BY <1>4, <1>6
<1>. QED
  BY <1>1, <1>6, <1>7, <1>8, <1>9, <1>10, <1>11, EnrichedStep

(* A history.                                                                *)
LEMMA WriteHistoryKeeps ==
    ASSUME SchemaInv, UNCHANGED course, NEW p \in Users, NEW g \in Histories, WriteHistory(p, g)
    PROVE  SchemaInv'
<1>1. /\ starter[p].pc = "open" /\ SetsHist(db', db, db.hist \cup {g}) /\ acked' = acked \cup {g}
      /\ \E k \in 10..13 : k <= db.revision
      /\ UNCHANGED <<bak, overlap, unfinished>>
  BY DEF WriteHistory, SetsHist
<1>2. starter' = [q \in Users |->
        [starter[q] EXCEPT
            !.late = IF starter[q].pc \in DowngradeSteps THEN @ \cup {g} ELSE @,
            !.raced = IF starter[q].pc \in {"checked", "undone"} THEN @ \cup {g} ELSE @]]
  BY DEF WriteHistory
<1>3. /\ db \in Files /\ StepGood(p, starter[p], course, db, bak, unfinished, overlap)
      /\ DbGood(course, db, unfinished) /\ starter \in [Users -> JobRecords]
  BY JobFacts DEF SchemaInv, SchemaTypes
<1>4. db.file
  BY <1>1, <1>3 DEF StepGood, Publishing
<1>5. course # "start" /\ db.version = 2
  <2>1. db.revision # 0
    BY <1>1, <1>3 DEF Files
  <2>2. ~SimpleFile(db)
    BY <2>1 DEF SimpleFile
  <2>. QED
    BY <1>3, <2>2 DEF DbGood
<1>6. /\ db' \in Files /\ SameSchema(db, db') /\ db'.rows = db.rows /\ db'.hist = db.hist \cup {g}
  <2>1. PICK hist \in SUBSET Histories : hist = db.hist \cup {g}
    BY <1>3 DEF Files
  <2>2. SetsHist(db', db, hist)
    BY <1>1, <2>1
  <2>3. /\ db' \in Files /\ db'.hist = hist /\ db'.file = db.file /\ db'.tables = db.tables
        /\ db'.version = db.version /\ db'.revision = db.revision /\ db'.manifests = db.manifests
        /\ db'.armed = db.armed /\ db'.rows = db.rows
    BY <1>3, <2>2, FileRecorded
  <2>. QED
    BY <2>1, <2>3 DEF SameSchema
<1>7. Enriched(course, db, db')
  BY <1>4, <1>5, <1>6 DEF Enriched
<1>8. \A q \in Users : /\ starter'[q] \in JobRecords /\ Noted(starter[q], starter'[q], {g})
                       /\ starter'[q].orphan = starter[q].orphan
  <2>1. SUFFICES ASSUME NEW q \in Users
                 PROVE  /\ starter'[q] \in JobRecords /\ Noted(starter[q], starter'[q], {g})
                        /\ starter'[q].orphan = starter[q].orphan
    OBVIOUS
  <2>2. PICK s \in JobRecords : s = starter[q]
    BY <1>3
  <2>3. PICK late \in SUBSET Histories : late = IF s.pc \in DowngradeSteps THEN s.late \cup {g} ELSE s.late
    BY DEF JobRecords
  <2>4. PICK raced \in SUBSET Histories : raced = IF s.pc \in {"checked", "undone"} THEN s.raced \cup {g} ELSE s.raced
    BY DEF JobRecords
  <2>5. starter'[q] = [s EXCEPT !.late = late, !.raced = raced]
    BY <1>2, <2>2, <2>3, <2>4
  <2>6. PICK r : r = [s EXCEPT !.late = late, !.raced = raced]
    OBVIOUS
  <2>7. /\ r \in JobRecords /\ r.pc = s.pc /\ r.job = s.job /\ r.copy = s.copy /\ r.step = s.step
        /\ r.target = s.target /\ r.orphan = s.orphan /\ r.late = late /\ r.raced = raced
    BY <2>6 DEF JobRecords
  <2>8. Noted(s, r, {g})
    BY <2>3, <2>4, <2>7 DEF Noted
  <2>. QED
    BY <2>2, <2>5, <2>6, <2>7, <2>8
<1>9. g \notin FileRows
  BY FileAssumption DEF FileRows, Histories
<1>10. /\ acked' \subseteq FileRows \cup Histories
       /\ "publish" \notin overlap => acked' \cap FileRows \subseteq db'.rows /\ acked' \cap Histories \subseteq db'.hist
  <2>1. acked \subseteq FileRows \cup Histories
    BY DEF SchemaInv, SchemaTypes
  <2>2. "publish" \notin overlap => acked \cap FileRows \subseteq db.rows /\ acked \cap Histories \subseteq db.hist
    BY DEF SchemaInv, RowsSurvive, HistoryKept, FileRows
  <2>. QED
    BY <1>1, <1>6, <1>9, <2>1, <2>2
<1>11. starter' \in [Users -> JobRecords]
  BY <1>2, <1>8
<1>12. PICK new \in SUBSET Histories : new = {g}
  OBVIOUS
<1>13. /\ \A q \in Users : Noted(starter[q], starter'[q], new) /\ starter'[q].orphan = starter[q].orphan
       /\ db'.hist = db.hist \cup new
  BY <1>6, <1>8, <1>12
<1>. QED
  BY <1>1, <1>6, <1>7, <1>10, <1>11, <1>13, EnrichedStep

(* A new behaviour: no database, one of the first product line, or a new one *)
(* that only milestones change.                                              *)
LEMMA SchemaInitInv == SchemaInit => SchemaInv
<1>1. SUFFICES ASSUME SchemaInit PROVE SchemaInv
  OBVIOUS
<1>2. /\ course \in {"start", "migrate"} /\ bak = [j \in Jobs |-> [content |-> Nil, digest |-> Nil]]
      /\ starter = [p \in Users |-> AtRest] /\ acked = db.rows /\ unfinished = FALSE /\ overlap = {}
      /\ course = "start" => db \in {NoFile, LegacyFile, StampedFile}
      /\ course = "migrate" => db = NewFile
  BY <1>1 DEF SchemaInit
<1>3. /\ db \in Files /\ SimpleFile(db) /\ db.rows \subseteq FileRows /\ (db.version = 2 => db = NewFile)
      /\ (course = "migrate" => db.version = 2) /\ (~db.file => db.rows = {}) /\ ("legacy" \in db.rows => db.version # 2)
  <2>1. db = NoFile \/ db = LegacyFile \/ db = StampedFile \/ db = NewFile
    BY <1>2
  <2>2. \A d \in Files : d.rows \subseteq FileRows
    BY DEF Files, FileRows
  <2>3. LegacyFile.file /\ StampedFile.file
    BY DEF LegacyFile, StampedFile, NoFile
  <2>. QED
    BY <1>2, <2>1, <2>2, <2>3, ConstantFiles
<1>4. SchemaTypes
  <2>1. bak \in [Jobs -> [content : Files \cup {Nil}, digest : Files \cup {Nil}]]
    BY <1>2
  <2>2. starter \in [Users -> JobRecords]
    BY <1>2, RestRecord
  <2>. QED
    BY <1>2, <1>3, <2>1, <2>2 DEF SchemaTypes
<1>5. DbInv
  <2>1. db.version = 2 => \E k \in 0..HeadRevision : Settled(db, k)
    BY <1>3, SimpleSettled DEF HeadRevision
  <2>2. DbGood(course, db, FALSE)
    BY <1>2, <1>3, <2>1 DEF DbGood
  <2>. QED
    BY <1>2, <2>2 DEF DbInv
<1>6. BakInv
  BY <1>2 DEF BakInv, BakGood
<1>7. \A p \in Users : StepInv(p)
  BY <1>2, RestRecord, RestGood DEF StepInv
<1>8. ApartInv
  BY <1>2, <1>3, RestRecord DEF ApartInv, ApartGood, Publishing, BackupSteps
<1>9. RowsSurvive /\ MigratedHasBackup /\ HistoryKept
  <2>1. db.rows \cap Histories = {}
    BY <1>3, FileAssumption DEF FileRows, Histories
  <2>. QED
    BY <1>2, <1>3, <2>1 DEF RowsSurvive, MigratedHasBackup, HistoryKept
<1>. QED
  BY <1>4, <1>5, <1>6, <1>7, <1>8, <1>9 DEF SchemaInv

(* Every step keeps the invariant.                                           *)
LEMMA SchemaInvKept == SchemaInv /\ [SchemaNext]_schemaVars => SchemaInv'
<1>1. SUFFICES ASSUME SchemaInv, [SchemaNext]_schemaVars PROVE SchemaInv'
  OBVIOUS
<1>2. CASE UNCHANGED schemaVars
  BY <1>1, <1>2 DEF schemaVars, SchemaInv, SchemaTypes, DbInv, BakInv, ApartInv, StepInv, RowsSurvive,
                    MigratedHasBackup, HistoryKept
<1>3. CASE SchemaNext
  <2>1. UNCHANGED course
    BY <1>3 DEF SchemaNext
  <2>2. PICK p \in Users :
           \/ Bootstrap(p) \/ Initialize(p) \/ InitializePublish(p)
           \/ StampV1(p) \/ BackupCheck(p) \/ BackupCopy(p) \/ BackupPublish(p)
           \/ BackupSidecar(p) \/ MigrateCommit(p)
           \/ \E j \in Jobs : Restore(p, j)
           \/ RestorePublish(p) \/ MoveAway(p)
           \/ Upgrade(p) \/ UpgradeCreate(p) \/ UpgradeBuild(p) \/ UpgradeCommit(p)
           \/ \E t \in 1..12 : Downgrade(p, t)
           \/ DowngradeCheck(p) \/ DowngradeUndo(p) \/ DowngradeCommit(p)
           \/ WriteRow(p)
           \/ \E g \in Histories : WriteHistory(p, g)
           \/ Stop(p)
    BY <1>3 DEF SchemaNext
  <2>3. CASE Bootstrap(p)
    BY <1>1, <2>1, <2>3, BootstrapKeeps
  <2>4. CASE Initialize(p)
    BY <1>1, <2>1, <2>4, InitializeKeeps
  <2>5. CASE InitializePublish(p)
    BY <1>1, <2>1, <2>5, InitializePublishKeeps
  <2>6. CASE StampV1(p)
    BY <1>1, <2>1, <2>6, StampV1Keeps
  <2>7. CASE BackupCheck(p)
    BY <1>1, <2>1, <2>7, BackupCheckKeeps
  <2>8. CASE BackupCopy(p)
    BY <1>1, <2>1, <2>8, BackupCopyKeeps
  <2>9. CASE BackupPublish(p)
    BY <1>1, <2>1, <2>9, BackupPublishKeeps
  <2>10. CASE BackupSidecar(p)
    BY <1>1, <2>1, <2>10, BackupSidecarKeeps
  <2>11. CASE MigrateCommit(p)
    BY <1>1, <2>1, <2>11, MigrateCommitKeeps
  <2>12. ASSUME NEW j \in Jobs, Restore(p, j) PROVE SchemaInv'
    BY <1>1, <2>1, <2>12, RestoreKeeps
  <2>13. CASE RestorePublish(p)
    BY <1>1, <2>1, <2>13, RestorePublishKeeps
  <2>14. CASE MoveAway(p)
    BY <1>1, <2>1, <2>14, MoveAwayKeeps
  <2>15. CASE Upgrade(p)
    BY <1>1, <2>1, <2>15, UpgradeKeeps
  <2>16. CASE UpgradeCreate(p)
    BY <1>1, <2>1, <2>16, UpgradeCreateKeeps
  <2>17. CASE UpgradeBuild(p)
    BY <1>1, <2>1, <2>17, UpgradeBuildKeeps
  <2>18. CASE UpgradeCommit(p)
    BY <1>1, <2>1, <2>18, UpgradeCommitKeeps
  <2>19. ASSUME NEW t \in 1..12, Downgrade(p, t) PROVE SchemaInv'
    BY <1>1, <2>1, <2>19, DowngradeKeeps
  <2>20. CASE DowngradeCheck(p)
    BY <1>1, <2>1, <2>20, DowngradeCheckKeeps
  <2>21. CASE DowngradeUndo(p)
    BY <1>1, <2>1, <2>21, DowngradeUndoKeeps
  <2>22. CASE DowngradeCommit(p)
    BY <1>1, <2>1, <2>22, DowngradeCommitKeeps
  <2>23. CASE WriteRow(p)
    BY <1>1, <2>1, <2>23, WriteRowKeeps
  <2>24. ASSUME NEW g \in Histories, WriteHistory(p, g) PROVE SchemaInv'
    BY <1>1, <2>1, <2>24, WriteHistoryKeeps
  <2>25. CASE Stop(p)
    BY <1>1, <2>1, <2>25, StopKeeps
  <2>. QED
    BY <2>2, <2>3, <2>4, <2>5, <2>6, <2>7, <2>8, <2>9, <2>10, <2>11, <2>12, <2>13, <2>14, <2>15, <2>16, <2>17,
       <2>18, <2>19, <2>20, <2>21, <2>22, <2>23, <2>24, <2>25, Zenon
<1>. QED
  BY <1>1, <1>2, <1>3

(* It implies what the lifecycle promises.                                   *)
LEMMA SchemaInvSound == SchemaInv => SchemaSound
<1>1. SUFFICES ASSUME SchemaInv PROVE ClassifiedRight /\ PreflightCovers
  BY DEF SchemaInv, SchemaSound
<1>2. ClassifiedRight
  <2>1. DbGood(course, db, unfinished) /\ unfinished \in BOOLEAN
    BY <1>1 DEF SchemaInv, DbInv, SchemaTypes
  <2>. QED
    BY <2>1, DbClasses DEF ClassifiedRight
<1>3. PreflightCovers
  <2>1. SUFFICES ASSUME NEW p \in Users, starter[p].pc = "downgrade"
                 PROVE  \A k \in (starter[p].target + 1)..starter[p].step : HistoryOf(k) \cap db.hist \subseteq starter[p].late
    BY DEF PreflightCovers
  <2>2. StepGood(p, starter[p], course, db, bak, unfinished, overlap)
    BY <1>1, JobFacts
  <2>. QED
    BY <2>1, <2>2 DEF StepGood, MilestoneGood, DowngradeSteps
<1>. QED
  BY <1>2, <1>3

(* No start, backup, migration, restore or downgrade leaves a database that  *)
(* is opened wrongly or has lost rows, backups or histories (the life of the *)
(* platform database, database.py and the milestone migrations), for any     *)
(* number of processes that start at once and every order of their ends.     *)
THEOREM SchemaSoundHolds == SchemaSpec => []SchemaSound
<1>1. SchemaSpec => []SchemaInv
  BY SchemaInitInv, SchemaInvKept, PTL DEF SchemaSpec
<1>. QED
  BY <1>1, SchemaInvSound, PTL

=============================================================================
