-------------------------- MODULE Forwarding_proofs --------------------------
(***************************************************************************)
(* Theorems about the forwarding service, for any set of items, paths,     *)
(* records and threads.                                                    *)
(***************************************************************************)
EXTENDS Forwarding, SequenceTheorems, TLAPS

------------------------------------------------------------------------------
(* Paths *)

\* A path that covers another one is that path or above it.
LEMMA CoversCases ==
    ASSUME NEW p \in Seq(STRING), NEW q \in Seq(STRING), Covers(p, q), p # q
    PROVE  Above(p, q)
<1>1. CASE Len(p) = Len(q)
  BY <1>1, SeqEqual DEF Covers
<1>2. CASE Len(p) # Len(q)
  <2>1. Len(p) \in Nat /\ Len(q) \in Nat
    BY LenProperties
  <2>2. QED
    BY <1>2, <2>1 DEF Covers, Above
<1>3. QED
  BY <1>1, <1>2

\* What registering a path does to a table of paths (util/Trie.java:139-152).
LEMMA RegisterTable ==
    ASSUME NEW t, NEW p, NEW r, NEW u, u = trieRegister(t, p, r)
    PROVE  /\ DOMAIN u \subseteq DOMAIN t \cup {p}
           /\ \A q \in DOMAIN u : u[q] = r \/ (q \in DOMAIN t /\ u[q] = t[q])
           /\ \A q \in DOMAIN u : q # p => u[q] = t[q]
           /\ ~(\E s \in DOMAIN t : Above(s, p)) => u[p] = r
           /\ ~(\E s \in DOMAIN t : Above(s, p)) => p \in DOMAIN u
           /\ \A q \in DOMAIN t : ~Above(p, q) => q \in DOMAIN u
           /\ \A q \in DOMAIN u : q # p => ~Above(p, q) \/ \E s \in DOMAIN t : Above(s, p)
           /\ (\E s \in DOMAIN t : Above(s, p)) => u = t
<1>1. CASE \E s \in DOMAIN t : Above(s, p)
  BY <1>1 DEF trieRegister
<1>2. CASE ~\E s \in DOMAIN t : Above(s, p)
  <2> DEFINE w == Without(t, {q \in DOMAIN t : Above(p, q)})
  <2>1. /\ \A q : q \in DOMAIN w <=> q \in DOMAIN t /\ ~Above(p, q)
        /\ \A q \in DOMAIN w : w[q] = t[q]
    BY DEF Without
  <2> HIDE DEF w
  <2>2. u = Extend(w, p, r)
    BY <1>2 DEF trieRegister, w
  <2>3. /\ DOMAIN u = DOMAIN w \cup {p}
        /\ u[p] = r
        /\ \A q \in DOMAIN u : q = p => u[q] = r
        /\ \A q \in DOMAIN u : q # p => q \in DOMAIN w /\ u[q] = w[q]
    BY <2>2 DEF Extend
  <2>4. ASSUME NEW q \in DOMAIN u
        PROVE  u[q] = r \/ (q \in DOMAIN t /\ u[q] = t[q])
    <3>1. CASE q = p
      BY <2>3, <3>1
    <3>2. CASE q # p
      BY <2>1, <2>3, <3>2
    <3>3. QED
      BY <3>1, <3>2
  <2>5. QED
    BY <1>2, <2>1, <2>3, <2>4
<1>3. QED
  BY <1>1, <1>2

\* What unregistering a path does to it (util/Trie.java:154-165).
LEMMA UnregisterTable ==
    ASSUME NEW t, NEW p, NEW u, u = trieUnregister(t, p)
    PROVE  /\ \A q : q \in DOMAIN u <=> q \in DOMAIN t /\ ~Covers(p, q)
           /\ \A q \in DOMAIN u : u[q] = t[q]
BY DEF trieUnregister, Without

\* A request names its item, a stored item and a request have a record, and
\* while the service loads there are no requests.
JobType ==
    [item : Item \cup {None}, accepted : BOOLEAN, record : Record \cup {None},
     locks : SUBSET (Item \cup {RegisterUri})]

TypeInv ==
    /\ FwdTypeOK
    /\ job \in [Thread -> JobType]
    /\ \A t \in Thread : pc[t] = "idle" <=> job[t].item = None
    /\ \A t \in Thread : pc[t] # "idle" => running
    /\ running => loading = {}

\* Registering and unregistering keep the types of the service's tables.
LEMMA RegisterType ==
    ASSUME FwdTypeOK, NEW i \in Item, NEW r \in Record, register(PathOf[i], r)
    PROVE  /\ DOMAIN table' \subseteq Paths /\ \A p \in DOMAIN table' : table'[p] \in Record
           /\ DOMAIN proxyForwards' \subseteq Paths
           /\ \A p \in DOMAIN proxyForwards' : proxyForwards'[p] \in Record /\ proxyForwards'[p].code = 200
           /\ configUpdateNeeded' \in BOOLEAN
<1> DEFINE p == PathOf[i]
<1>1. p \in Paths
  BY DEF Paths
<1>2. DOMAIN table' \subseteq Paths /\ \A q \in DOMAIN table' : table'[q] \in Record
  <2>1. table' = trieRegister(table, p, r)
    BY DEF register
  <2>2. DOMAIN table' \subseteq DOMAIN table \cup {p}
    BY <2>1, RegisterTable
  <2>3. \A q \in DOMAIN table' : table'[q] = r \/ (q \in DOMAIN table /\ table'[q] = table[q])
    BY <2>1, RegisterTable
  <2>4. QED
    BY <1>1, <2>2, <2>3 DEF FwdTypeOK
<1>3. CASE r.code = 200
  <2>1. proxyForwards' = Extend(proxyForwards, p, r)
    BY <1>3 DEF register
  <2>2. DOMAIN proxyForwards' = DOMAIN proxyForwards \cup {p}
    BY <2>1 DEF Extend
  <2>3. \A q \in DOMAIN proxyForwards' : proxyForwards'[q] = IF q = p THEN r ELSE proxyForwards[q]
    BY <2>1, <2>2 DEF Extend
  <2>4. QED
    BY <1>1, <1>2, <1>3, <2>2, <2>3 DEF register, FwdTypeOK
<1>4. CASE r.code # 200
  <2>1. proxyForwards' = Without(proxyForwards, {p})
    BY <1>4 DEF register
  <2>2. QED
    BY <1>2, <2>1 DEF register, FwdTypeOK, Without
<1>5. QED
  BY <1>3, <1>4

\* unregister keeps the tables of records by path.
LEMMA UnregisterType ==
    ASSUME FwdTypeOK, NEW i \in Item, unregister(PathOf[i])
    PROVE  /\ DOMAIN table' \subseteq Paths /\ \A p \in DOMAIN table' : table'[p] \in Record
           /\ DOMAIN proxyForwards' \subseteq Paths
           /\ \A p \in DOMAIN proxyForwards' : proxyForwards'[p] \in Record /\ proxyForwards'[p].code = 200
           /\ configUpdateNeeded' \in BOOLEAN
<1>1. DOMAIN table' \subseteq Paths /\ \A q \in DOMAIN table' : table'[q] \in Record
  <2>1. table' = trieUnregister(table, PathOf[i])
    BY DEF unregister
  <2>2. DOMAIN table' \subseteq DOMAIN table /\ \A q \in DOMAIN table' : table'[q] = table[q]
    <3>1. \A q : q \in DOMAIN table' <=> q \in DOMAIN table /\ ~Covers(PathOf[i], q)
      BY <2>1, UnregisterTable
    <3>2. \A q \in DOMAIN table' : table'[q] = table[q]
      BY <2>1, UnregisterTable
    <3>3. QED
      BY <3>1, <3>2
  <2>3. QED
    BY <2>2 DEF FwdTypeOK
<1>2. QED
  BY <1>1 DEF unregister, FwdTypeOK, Without

\* An empty table.
LEMMA EmptyTable ==
    /\ DOMAIN <<>> = {}
    /\ \A g : DOMAIN g = {} => <<>> = [p \in DOMAIN g |-> g[p].target]
<1>1. DOMAIN <<>> = {}
  OBVIOUS
<1>2. QED
  BY <1>1

\* The service starts with an empty table and idle requests.
LEMMA TypeInit == FwdInit => TypeInv
<1> SUFFICES ASSUME FwdInit PROVE TypeInv
  OBVIOUS
<1>1. Idle \in JobType /\ Idle.item = None
  BY DEF Idle, JobType
<1>2. FwdTypeOK
  BY EmptyTable DEF FwdInit, FwdTypeOK, Accepted
<1>3. QED
  BY <1>1, <1>2 DEF FwdInit, TypeInv

\* Every step keeps the types.
LEMMA TypeStep == TypeInv /\ [FwdNext]_fwdVars => TypeInv'
<1> SUFFICES ASSUME TypeInv, [FwdNext]_fwdVars PROVE TypeInv'
  OBVIOUS
<1> USE ForwardingAssumption
<1>idle. Idle \in JobType /\ Idle.item = None
  BY DEF Idle, JobType
<1>1. ASSUME NEW t \in Thread, NEW i \in Item, NEW accepted \in BOOLEAN, NEW r \in Record,
             NEW locks \in Locks(i), Write(t, i, accepted, r, locks)
      PROVE  TypeInv'
  <2>1. [accepted |-> accepted, record |-> r] \in [accepted : BOOLEAN, record : Record]
    OBVIOUS
  <2>2. [item |-> i, accepted |-> accepted, record |-> r, locks |-> locks] \in JobType
    BY <1>1 DEF JobType, Locks
  <2>3. loading = {}
    BY <1>1 DEF Write, TypeInv
  <2>4. FwdTypeOK'
    BY <1>1, <2>1, <2>2, <2>3 DEF Write, TypeInv, FwdTypeOK
  <2>5. i # None
    OBVIOUS
  <2>6. QED
    BY <1>1, <2>2, <2>4, <2>5 DEF Write, TypeInv, FwdTypeOK
<1>2. ASSUME NEW i \in Item, NEW locks \in Locks(i), Delete(i, locks)
      PROVE  TypeInv'
  <2>1. stored' \in [Item -> [accepted : BOOLEAN, record : Record] \cup {None}]
    <3>1. stored[i] \in [accepted : BOOLEAN, record : Record]
      BY <1>2 DEF Delete, TypeInv, FwdTypeOK
    <3>2. stored' = [stored EXCEPT ![i] = [stored[i] EXCEPT !.accepted = FALSE]]
      BY <1>2 DEF Delete
    <3>3. [stored[i] EXCEPT !.accepted = FALSE] \in [accepted : BOOLEAN, record : Record]
      BY <3>1
    <3>4. QED
      BY <3>2, <3>3 DEF TypeInv, FwdTypeOK
  <2>2. loading' = {}
    BY <1>2 DEF Delete, TypeInv
  <2>3. FwdTypeOK'
    BY <1>2, <2>1, <2>2 DEF Delete, TypeInv, FwdTypeOK
  <2>4. QED
    BY <1>2, <2>2, <2>3 DEF Delete, TypeInv
<1>3. ASSUME NEW t \in Thread, Update(t)
      PROVE  TypeInv'
  <2>1. job[t].item \in Item /\ job[t].record \in Record
    BY <1>3 DEF Update, TypeInv, FwdTypeOK
  <2>2. /\ DOMAIN table' \subseteq Paths /\ \A p \in DOMAIN table' : table'[p] \in Record
        /\ DOMAIN proxyForwards' \subseteq Paths
        /\ \A p \in DOMAIN proxyForwards' : proxyForwards'[p] \in Record /\ proxyForwards'[p].code = 200
        /\ configUpdateNeeded' \in BOOLEAN
    BY <1>3, <2>1, RegisterType, UnregisterType DEF Update, TypeInv
  <2>3. FwdTypeOK'
    BY <1>3, <2>2 DEF Update, TypeInv, FwdTypeOK, Accepted
  <2>4. QED
    BY <1>3, <2>3 DEF Update, TypeInv, FwdTypeOK
<1>4. ASSUME NEW t \in Thread, Config(t)
      PROVE  TypeInv'
  <2>1. FwdTypeOK'
    <3>1. pc' \in [Thread -> {"idle", "update", "config"}]
      BY <1>4 DEF Config, TypeInv, FwdTypeOK
    <3>2. \A s \in Thread : pc'[s] # "idle" => job'[s].item \in Item /\ job'[s].record \in Record
      BY <1>4 DEF Config, TypeInv, FwdTypeOK
    <3>3. proxyBehind' \in {"no", "failed", "restarted"} /\ configUpdateNeeded' \in BOOLEAN
      BY <1>4 DEF Config, updateConfig, TypeInv, FwdTypeOK
    <3>4. QED
      BY <1>4, <3>1, <3>2, <3>3 DEF Config, TypeInv, FwdTypeOK, Accepted
  <2>2. QED
    BY <1>4, <1>idle, <2>1 DEF Config, TypeInv, FwdTypeOK
<1>5. ASSUME Restart
      PROVE  TypeInv'
  <2>1. FwdTypeOK'
    BY <1>5, <1>idle, EmptyTable DEF Restart, TypeInv, FwdTypeOK, Accepted, listDelegations
  <2>2. QED
    BY <1>5, <1>idle, <2>1 DEF Restart, TypeInv
<1>6. ASSUME NEW i \in Item, Load(i)
      PROVE  TypeInv'
  <2>1. stored[i].record \in Record
    BY <1>6 DEF Load, TypeInv, FwdTypeOK, Accepted
  <2>2. /\ DOMAIN table' \subseteq Paths /\ \A p \in DOMAIN table' : table'[p] \in Record
        /\ DOMAIN proxyForwards' \subseteq Paths
        /\ \A p \in DOMAIN proxyForwards' : proxyForwards'[p] \in Record /\ proxyForwards'[p].code = 200
        /\ configUpdateNeeded' \in BOOLEAN
    BY <1>6, <2>1, RegisterType DEF Load, TypeInv
  <2>3. FwdTypeOK'
    BY <1>6, <2>2 DEF Load, TypeInv, FwdTypeOK, Accepted
  <2>4. QED
    BY <1>6, <2>3 DEF Load, TypeInv
<1>7. ASSUME Loaded
      PROVE  TypeInv'
  <2>1. FwdTypeOK'
    BY <1>7 DEF Loaded, updateConfig, TypeInv, FwdTypeOK, Accepted
  <2>2. QED
    BY <1>7, <2>1 DEF Loaded, TypeInv
<1>8. CASE UNCHANGED fwdVars
  BY <1>8 DEF fwdVars, TypeInv, FwdTypeOK, Accepted
<1>9. QED
  BY <1>1, <1>2, <1>3, <1>4, <1>5, <1>6, <1>7, <1>8 DEF FwdNext

\* The service's tables, its requests and the store keep their types, and the
\* proxy's records all have code 200 (ForwardingServiceImpl.register).
THEOREM FwdTypeCorrect == FwdSpec => []FwdTypeOK
<1>1. TypeInv => FwdTypeOK
  BY DEF TypeInv
<1>2. QED
  BY <1>1, TypeInit, TypeStep, PTL DEF FwdSpec

------------------------------------------------------------------------------
(* The table of paths *)

\* Every step that changes the table registers or unregisters a path, or
\* empties the table.
LEMMA TableSteps ==
    ASSUME TypeInv, FwdNext
    PROVE  \/ UNCHANGED table
           \/ table' = <<>>
           \/ \E i \in Item, r \in Record : table' = trieRegister(table, PathOf[i], r)
           \/ \E i \in Item : table' = trieUnregister(table, PathOf[i])
<1>1. ASSUME NEW t \in Thread, Update(t)
      PROVE  \/ \E i \in Item, r \in Record : table' = trieRegister(table, PathOf[i], r)
             \/ \E i \in Item : table' = trieUnregister(table, PathOf[i])
  <2>1. job[t].item \in Item /\ job[t].record \in Record
    BY <1>1 DEF Update, TypeInv, FwdTypeOK
  <2>2. QED
    BY <1>1, <2>1 DEF Update, register, unregister
<1>2. ASSUME NEW i \in Item, Load(i)
      PROVE  \E r \in Record : table' = trieRegister(table, PathOf[i], r)
  <2>1. stored[i].record \in Record
    BY <1>2, ForwardingAssumption DEF Load, TypeInv, FwdTypeOK, Accepted
  <2>2. QED
    BY <1>2, <2>1 DEF Load, register
<1>3. QED
  BY <1>1, <1>2 DEF FwdNext, Write, Delete, Config, Restart, Loaded

\* No path of the table is ever above another one, whatever is registered and
\* unregistered in whatever order (util/Trie).
THEOREM TablePrefixFree == FwdSpec => []PrefixFree
<1>1. FwdInit => PrefixFree
  BY EmptyTable DEF FwdInit, PrefixFree
<1>2. TypeInv /\ PrefixFree /\ [FwdNext]_fwdVars => PrefixFree'
  <2> SUFFICES ASSUME TypeInv, PrefixFree, [FwdNext]_fwdVars, NEW p \in DOMAIN table', NEW q \in DOMAIN table'
               PROVE  ~Above(p, q)
    BY DEF PrefixFree
  <2>1. CASE UNCHANGED table
    BY <2>1 DEF PrefixFree
  <2>2. CASE table' = <<>>
    BY <2>2, EmptyTable
  <2>3. ASSUME NEW i \in Item, NEW r \in Record, table' = trieRegister(table, PathOf[i], r)
        PROVE  ~Above(p, q)
    <3> DEFINE a == PathOf[i]
    <3>1. ~Above(a, a)
      BY ForwardingAssumption, LenProperties DEF Above
    <3> HIDE DEF a
    <3>2. table' = trieRegister(table, a, r)
      BY <2>3 DEF a
    <3>3. CASE \E s \in DOMAIN table : Above(s, a)
      <4>1. table' = table
        BY <3>2, <3>3, RegisterTable
      <4>2. QED
        BY <4>1 DEF PrefixFree
    <3>4. CASE ~\E s \in DOMAIN table : Above(s, a)
      <4>1. \A s \in DOMAIN table' : s = a \/ (s \in DOMAIN table /\ ~Above(a, s))
        BY <3>2, <3>4, RegisterTable
      <4>2. QED
        BY <3>1, <3>4, <4>1 DEF PrefixFree
    <3>5. QED
      BY <3>3, <3>4
  <2>4. ASSUME NEW i \in Item, table' = trieUnregister(table, PathOf[i])
        PROVE  ~Above(p, q)
    <3>1. p \in DOMAIN table /\ q \in DOMAIN table
      BY <2>4, UnregisterTable
    <3>2. QED
      BY <3>1 DEF PrefixFree
  <2>5. QED
    BY <2>1, <2>2, <2>3, <2>4, TableSteps DEF fwdVars
<1>3. QED
  BY <1>1, <1>2, TypeInit, TypeStep, PTL DEF FwdSpec

------------------------------------------------------------------------------
(* The front-end proxy *)

\* The proxy runs with the records it was last given, unless an update failed
\* or was never made since a restart (ForwardingServiceImpl.updateConfig).
THEOREM ProxyFollowsTable == FwdSpec => []ProxyFollows
<1>1. FwdInit => ProxyFollows
  BY EmptyTable DEF FwdInit, ProxyFollows
<1>2. TypeInv /\ ProxyFollows /\ [FwdNext]_fwdVars => ProxyFollows'
  <2> SUFFICES ASSUME TypeInv, ProxyFollows, [FwdNext]_fwdVars PROVE ProxyFollows'
    OBVIOUS
  <2>1. CASE UNCHANGED <<proxyForwards, configUpdateNeeded, proxy, proxyBehind>>
    BY <2>1 DEF ProxyFollows
  <2>2. ASSUME NEW i \in Item, NEW r \in Record, register(PathOf[i], r), UNCHANGED <<proxy, proxyBehind>>
        PROVE  ProxyFollows'
    <3> DEFINE p == PathOf[i]
    <3>1. CASE configUpdateNeeded'
      BY <3>1 DEF ProxyFollows
    <3>2. CASE ~configUpdateNeeded'
      <4>1. ~configUpdateNeeded /\ r.code # 200 /\ p \notin DOMAIN proxyForwards
        BY <2>2, <3>2 DEF register
      <4>2. proxyForwards' = [x \in DOMAIN proxyForwards |-> proxyForwards[x]]
        BY <2>2, <4>1 DEF register, Without
      <4>3. QED
        BY <2>2, <4>1, <4>2 DEF ProxyFollows
    <3>3. QED
      BY <3>1, <3>2
  <2>3. ASSUME NEW i \in Item, unregister(PathOf[i]), UNCHANGED <<proxy, proxyBehind>>
        PROVE  ProxyFollows'
    <3> DEFINE p == PathOf[i]
    <3>1. CASE configUpdateNeeded'
      BY <3>1 DEF ProxyFollows
    <3>2. CASE ~configUpdateNeeded'
      <4>1. ~configUpdateNeeded /\ p \notin DOMAIN proxyForwards
        BY <2>3, <3>2 DEF unregister
      <4>2. proxyForwards' = [x \in DOMAIN proxyForwards |-> proxyForwards[x]]
        BY <2>3, <4>1 DEF unregister, Without
      <4>3. QED
        BY <2>3, <4>1, <4>2 DEF ProxyFollows
    <3>3. QED
      BY <3>1, <3>2
  <2>4. CASE updateConfig /\ UNCHANGED proxyForwards
    <3>1. CASE configUpdateNeeded
      BY <2>4, <3>1 DEF updateConfig, ProxyFollows
    <3>2. CASE ~configUpdateNeeded
      BY <2>4, <3>2 DEF updateConfig, ProxyFollows
    <3>3. QED
      BY <3>1, <3>2
  <2>5. CASE Restart
    BY <2>5, EmptyTable DEF Restart, ProxyFollows
  <2>6. ASSUME NEW t \in Thread, Update(t)
        PROVE  ProxyFollows'
    <3>1. job[t].item \in Item /\ job[t].record \in Record
      BY <2>6 DEF Update, TypeInv, FwdTypeOK
    <3>2. QED
      BY <2>2, <2>3, <2>6, <3>1 DEF Update
  <2>7. ASSUME NEW i \in Item, Load(i)
        PROVE  ProxyFollows'
    <3>1. stored[i].record \in Record
      BY <2>7, ForwardingAssumption DEF Load, TypeInv, FwdTypeOK, Accepted
    <3>2. QED
      BY <2>2, <2>7, <3>1 DEF Load
  <2>8. QED
    BY <2>1, <2>4, <2>5, <2>6, <2>7 DEF FwdNext, Write, Delete, Config, Loaded, fwdVars
<1>3. QED
  BY <1>1, <1>2, TypeInit, TypeStep, PTL DEF FwdSpec

------------------------------------------------------------------------------
(* The table and the store *)

\* Outside the exceptions of TableFollowsStore, a request in progress carries
\* what is stored, and an item that no request has still to register or
\* unregister has its entry, unless it is still to be loaded.
JobStored ==
    \A t \in Thread : pc[t] # "idle" /\ job[t].item \notin overlapped \cup deleted =>
        stored[job[t].item] = [accepted |-> job[t].accepted, record |-> job[t].record]

Wanted == Accepted \ loading

Follows(i) ==
    /\ PathOf[i] \in DOMAIN table <=> i \in Wanted
    /\ i \in Wanted => table[PathOf[i]] = stored[i].record

Settled(i) ==
    /\ i \notin overlapped \cup deleted
    /\ Isolated(i)
    /\ \A t \in Thread : job[t].item = i => pc[t] # "update"

FollowInv == JobStored /\ \A i \in Item : Settled(i) => Follows(i)

\* Registering or unregistering one path leaves an isolated other one alone.
LEMMA OtherPath ==
    ASSUME NEW i \in Item, NEW j \in Item, i # j, Isolated(i), NEW u,
           \/ \E r \in Record : u = trieRegister(table, PathOf[j], r)
           \/ u = trieUnregister(table, PathOf[j])
    PROVE  /\ PathOf[i] \in DOMAIN u <=> PathOf[i] \in DOMAIN table
           /\ PathOf[i] \in DOMAIN u => u[PathOf[i]] = table[PathOf[i]]
<1> DEFINE a == PathOf[i]
           b == PathOf[j]
<1>1. a # b /\ ~Above(b, a) /\ a \in Seq(STRING) /\ b \in Seq(STRING)
  BY ForwardingAssumption DEF Isolated
<1>2. ~Covers(b, a)
  BY <1>1, CoversCases
<1> HIDE DEF a, b
<1>3. ASSUME NEW r \in Record, u = trieRegister(table, b, r)
      PROVE  /\ a \in DOMAIN u <=> a \in DOMAIN table
             /\ a \in DOMAIN u => u[a] = table[a]
  <2>1. DOMAIN u \subseteq DOMAIN table \cup {b}
    BY <1>3, RegisterTable
  <2>2. \A q \in DOMAIN u : q # b => u[q] = table[q]
    BY <1>3, RegisterTable
  <2>3. \A q \in DOMAIN table : ~Above(b, q) => q \in DOMAIN u
    BY <1>3, RegisterTable
  <2>4. QED
    BY <1>1, <2>1, <2>2, <2>3
<1>4. ASSUME u = trieUnregister(table, b)
      PROVE  /\ a \in DOMAIN u <=> a \in DOMAIN table
             /\ a \in DOMAIN u => u[a] = table[a]
  <2>1. \A q : q \in DOMAIN u <=> q \in DOMAIN table /\ ~Covers(b, q)
    BY <1>4, UnregisterTable
  <2>2. \A q \in DOMAIN u : u[q] = table[q]
    BY <1>4, UnregisterTable
  <2>3. QED
    BY <1>2, <2>1, <2>2
<1>5. QED
  BY <1>3, <1>4 DEF a, b

\* Registering an isolated path gives it its entry, unregistering it takes it.
LEMMA OwnPath ==
    ASSUME TypeInv, NEW i \in Item, Isolated(i), NEW r, NEW u
    PROVE  /\ u = trieRegister(table, PathOf[i], r) => PathOf[i] \in DOMAIN u /\ u[PathOf[i]] = r
           /\ u = trieUnregister(table, PathOf[i]) => PathOf[i] \notin DOMAIN u
<1> DEFINE a == PathOf[i]
<1>1. ~\E s \in DOMAIN table : Above(s, a)
  BY DEF TypeInv, FwdTypeOK, Paths, Isolated
<1>2. Covers(a, a)
  BY ForwardingAssumption, LenProperties DEF Covers
<1> HIDE DEF a
<1>3. u = trieRegister(table, a, r) => a \in DOMAIN u /\ u[a] = r
  BY <1>1, RegisterTable
<1>4. u = trieUnregister(table, a) => a \notin DOMAIN u
  BY <1>2, UnregisterTable
<1>5. QED
  BY <1>3, <1>4 DEF a

\* At the start there is nothing to forward and nothing is.
LEMMA FollowInit == FwdInit => FollowInv
<1> SUFFICES ASSUME FwdInit PROVE FollowInv
  OBVIOUS
<1>1. JobStored
  BY DEF FwdInit, JobStored
<1>2. Wanted = {} /\ DOMAIN table = {}
  BY EmptyTable DEF FwdInit, Wanted, Accepted
<1>3. QED
  BY <1>1, <1>2 DEF FollowInv, Follows

\* Every step keeps FollowInv.
LEMMA FollowStep == TypeInv /\ FollowInv /\ [FwdNext]_fwdVars => FollowInv'
<1> SUFFICES ASSUME TypeInv, FollowInv, [FwdNext]_fwdVars PROVE FollowInv'
  OBVIOUS
<1> USE ForwardingAssumption
<1>1. ASSUME NEW t \in Thread, NEW i \in Item, NEW accepted \in BOOLEAN, NEW r \in Record,
             NEW locks \in Locks(i), Write(t, i, accepted, r, locks)
      PROVE  FollowInv'
  <2>1. /\ job'[t] = [item |-> i, accepted |-> accepted, record |-> r, locks |-> locks]
        /\ pc'[t] = "update"
        /\ \A s \in Thread \ {t} : job'[s] = job[s] /\ pc'[s] = pc[s]
        /\ stored'[i] = [accepted |-> accepted, record |-> r]
        /\ \A j \in Item \ {i} : stored'[j] = stored[j]
    BY <1>1 DEF Write, TypeInv, FwdTypeOK
  <2>2. JobStored'
    <3> SUFFICES ASSUME NEW s \in Thread, pc'[s] # "idle", job'[s].item \notin overlapped' \cup deleted'
                 PROVE  stored'[job'[s].item] = [accepted |-> job'[s].accepted, record |-> job'[s].record]
      BY DEF JobStored
    <3>1. CASE s = t
      BY <2>1, <3>1
    <3>2. CASE s # t
      <4>1. job[s].item # i
        BY <1>1, <2>1, <3>2 DEF Write, Outstanding
      <4>2. job[s].item \in Item /\ job[s].item \notin overlapped \cup deleted
        BY <1>1, <2>1, <3>2, <4>1 DEF Write, TypeInv, FwdTypeOK
      <4>3. job'[s] = job[s] /\ pc'[s] = pc[s]
        BY <2>1, <3>2
      <4>4. stored[job[s].item] = [accepted |-> job[s].accepted, record |-> job[s].record]
        BY <4>2, <4>3 DEF FollowInv, JobStored
      <4>5. stored'[job[s].item] = stored[job[s].item]
        BY <2>1, <4>1, <4>2
      <4>6. QED
        BY <4>3, <4>4, <4>5
    <3>3. QED
      BY <3>1, <3>2
  <2>3. ASSUME NEW j \in Item, Settled(j)'
        PROVE  Follows(j)'
    <3>1. j # i
      BY <2>1, <2>3 DEF Settled
    <3>2. Settled(j)
      <4>1. j \notin overlapped \cup deleted
        BY <1>1, <2>3, <3>1 DEF Settled, Write
      <4>2. \A s \in Thread : job[s].item = j => pc[s] # "update"
        BY <1>1, <2>1, <2>3 DEF Settled, Write, TypeInv, FwdTypeOK
      <4>3. QED
        BY <2>3, <4>1, <4>2 DEF Settled, Isolated
    <3>3. j \in Wanted' <=> j \in Wanted
      BY <1>1, <2>1, <3>1 DEF Wanted, Accepted, Write
    <3>4. QED
      BY <1>1, <2>1, <3>1, <3>2, <3>3 DEF FollowInv, Follows, Write
  <2>4. QED
    BY <2>2, <2>3 DEF FollowInv
<1>2. ASSUME NEW i \in Item, NEW locks \in Locks(i), Delete(i, locks)
      PROVE  FollowInv'
  <2>1. \A j \in Item \ {i} : stored'[j] = stored[j]
    BY <1>2 DEF Delete, TypeInv, FwdTypeOK
  <2>2. deleted' = deleted \cup {i} /\ UNCHANGED <<overlapped, job, pc, table, loading>>
    BY <1>2 DEF Delete
  <2>3. JobStored'
    <3> SUFFICES ASSUME NEW s \in Thread, pc[s] # "idle", job[s].item \notin overlapped \cup deleted'
                 PROVE  stored'[job[s].item] = [accepted |-> job[s].accepted, record |-> job[s].record]
      BY <2>2 DEF JobStored
    <3>1. job[s].item \in Item \ {i} /\ job[s].item \notin overlapped \cup deleted
      BY <2>2 DEF TypeInv, FwdTypeOK
    <3>2. QED
      BY <2>1, <3>1 DEF FollowInv, JobStored
  <2>4. ASSUME NEW j \in Item, Settled(j)'
        PROVE  Follows(j)'
    <3>1. j # i /\ Settled(j)
      BY <2>2, <2>4 DEF Settled, Isolated
    <3>2. j \in Wanted' <=> j \in Wanted
      BY <2>1, <2>2, <3>1 DEF Wanted, Accepted
    <3>3. QED
      BY <2>1, <2>2, <3>1, <3>2 DEF FollowInv, Follows
  <2>5. QED
    BY <2>3, <2>4 DEF FollowInv
<1>3. ASSUME NEW t \in Thread, Update(t)
      PROVE  FollowInv'
  <2> DEFINE i == job[t].item
  <2>1. i \in Item /\ job[t].record \in Record /\ loading = {}
    BY <1>3 DEF Update, TypeInv, FwdTypeOK
  <2>2. UNCHANGED <<stored, job, overlapped, deleted, loading>>
    BY <1>3 DEF Update
  <2>3. \A s \in Thread : pc'[s] = IF s = t THEN "config" ELSE pc[s]
    BY <1>3 DEF Update, TypeInv, FwdTypeOK
  <2>4. JobStored'
    BY <1>3, <2>2, <2>3 DEF FollowInv, JobStored, Update
  <2>5. Wanted' = Wanted
    BY <2>2 DEF Wanted, Accepted
  <2>6. \/ /\ job[t].accepted /\ table' = trieRegister(table, PathOf[i], job[t].record)
        \/ /\ ~job[t].accepted /\ table' = trieUnregister(table, PathOf[i])
    BY <1>3 DEF Update, register, unregister
  <2>7. ASSUME NEW j \in Item, Settled(j)'
        PROVE  Follows(j)'
    <3>1. Isolated(j) /\ j \notin overlapped \cup deleted
      BY <2>2, <2>7 DEF Settled, Isolated
    <3>2. CASE j = i
      <4>1. stored[i] = [accepted |-> job[t].accepted, record |-> job[t].record]
        BY <1>3, <3>1, <3>2 DEF FollowInv, JobStored, Update
      <4>2. i \in Wanted <=> job[t].accepted
        <5>1. stored[i].accepted = job[t].accepted
          BY <4>1
        <5>2. stored[i] # None
          <6>1. job[t] \in JobType
            BY DEF TypeInv
          <6>2. stored[i] \in [accepted : BOOLEAN, record : Record]
            BY <2>1, <4>1, <6>1 DEF JobType
          <6>3. QED
            BY <6>2
        <5>3. QED
          BY <2>1, <5>1, <5>2 DEF Wanted, Accepted
      <4>3. CASE job[t].accepted
        <5>1. PathOf[i] \in DOMAIN table' /\ table'[PathOf[i]] = job[t].record
          BY <2>1, <2>6, <3>1, <3>2, <4>3, OwnPath
        <5>2. QED
          BY <2>2, <2>5, <3>2, <4>1, <4>2, <4>3, <5>1 DEF Follows
      <4>4. CASE ~job[t].accepted
        <5>1. PathOf[i] \notin DOMAIN table'
          BY <2>1, <2>6, <3>1, <3>2, <4>4, OwnPath
        <5>2. QED
          BY <2>5, <3>2, <4>2, <4>4, <5>1 DEF Follows
      <4>5. QED
        BY <4>3, <4>4
    <3>3. CASE j # i
      <4>1. \A s \in Thread : job[s].item = j => pc[s] # "update"
        BY <2>2, <2>3, <2>7, <3>3 DEF Settled
      <4>2. Follows(j)
        BY <3>1, <4>1 DEF FollowInv, Settled
      <4>3. /\ PathOf[j] \in DOMAIN table' <=> PathOf[j] \in DOMAIN table
            /\ PathOf[j] \in DOMAIN table' => table'[PathOf[j]] = table[PathOf[j]]
        <5>1. \/ \E r \in Record : table' = trieRegister(table, PathOf[i], r)
              \/ table' = trieUnregister(table, PathOf[i])
          BY <2>1, <2>6
        <5> HIDE DEF i
        <5>2. QED
          BY <2>1, <3>1, <3>3, <5>1, OtherPath
      <4>4. QED
        BY <2>2, <2>5, <4>2, <4>3 DEF Follows
    <3>4. QED
      BY <3>2, <3>3
  <2>8. QED
    BY <2>4, <2>7 DEF FollowInv
<1>4. ASSUME NEW t \in Thread, Config(t)
      PROVE  FollowInv'
  <2>1. UNCHANGED <<stored, table, overlapped, deleted, loading>>
    BY <1>4 DEF Config
  <2>2. /\ pc[t] = "config" /\ pc'[t] = "idle"
        /\ \A s \in Thread \ {t} : job'[s] = job[s] /\ pc'[s] = pc[s]
    BY <1>4 DEF Config, TypeInv, FwdTypeOK
  <2>3. JobStored'
    BY <2>1, <2>2 DEF FollowInv, JobStored
  <2>4. ASSUME NEW j \in Item, Settled(j)'
        PROVE  Follows(j)'
    <3>1. \A s \in Thread : job[s].item = j => pc[s] # "update"
      BY <2>2, <2>4 DEF Settled
    <3>2. Settled(j)
      BY <2>1, <2>4, <3>1 DEF Settled, Isolated
    <3>3. QED
      BY <2>1, <3>2 DEF FollowInv, Follows, Wanted, Accepted
  <2>5. QED
    BY <2>3, <2>4 DEF FollowInv
<1>5. ASSUME Restart
      PROVE  FollowInv'
  <2>1. \A t \in Thread : pc'[t] = "idle"
    BY <1>5 DEF Restart
  <2>2. Wanted' = {} /\ DOMAIN table' = {}
    BY <1>5, EmptyTable DEF Restart, Wanted, Accepted, listDelegations
  <2>3. QED
    BY <2>1, <2>2 DEF FollowInv, JobStored, Follows
<1>6. ASSUME NEW i \in Item, Load(i)
      PROVE  FollowInv'
  <2>1. UNCHANGED <<stored, job, pc, overlapped, deleted>> /\ loading' = loading \ {i} /\ i \in loading
    BY <1>6 DEF Load
  <2>2. i \in Accepted /\ stored[i].record \in Record
    BY <2>1 DEF TypeInv, FwdTypeOK, Accepted
  <2>3. table' = trieRegister(table, PathOf[i], stored[i].record)
    BY <1>6 DEF Load, register
  <2>4. \A j \in Item : j \in Wanted' <=> j = i \/ j \in Wanted
    BY <2>1, <2>2 DEF Wanted, Accepted
  <2>5. JobStored'
    BY <2>1 DEF FollowInv, JobStored
  <2>6. ASSUME NEW j \in Item, Settled(j)'
        PROVE  Follows(j)'
    <3>1. Settled(j)
      BY <2>1, <2>6 DEF Settled, Isolated
    <3>2. Isolated(j)
      BY <3>1 DEF Settled
    <3>3. CASE j = i
      <4>1. PathOf[i] \in DOMAIN table' /\ table'[PathOf[i]] = stored[i].record
        BY <2>3, <3>2, <3>3, OwnPath
      <4>2. QED
        BY <2>1, <2>4, <3>3, <4>1 DEF Follows
    <3>4. CASE j # i
      <4>1. /\ PathOf[j] \in DOMAIN table' <=> PathOf[j] \in DOMAIN table
            /\ PathOf[j] \in DOMAIN table' => table'[PathOf[j]] = table[PathOf[j]]
        BY <2>2, <2>3, <3>2, <3>4, OtherPath
      <4>2. Follows(j)
        BY <3>1 DEF FollowInv
      <4>3. QED
        BY <2>1, <2>4, <3>4, <4>1, <4>2 DEF Follows
    <3>5. QED
      BY <3>3, <3>4
  <2>7. QED
    BY <2>5, <2>6 DEF FollowInv
<1>7. CASE Loaded \/ UNCHANGED fwdVars
  <2>1. UNCHANGED <<stored, table, job, pc, overlapped, deleted, loading>>
    BY <1>7 DEF Loaded, fwdVars
  <2>2. QED
    BY <2>1 DEF FollowInv, JobStored, Settled, Isolated, Follows, Wanted, Accepted
<1>8. QED
  BY <1>1, <1>2, <1>3, <1>4, <1>5, <1>6, <1>7 DEF FwdNext

\* The table follows the store for every item whose path is not inside another
\* item's, for any number of requests, threads and restarts, except where
\* TableFollowsStore says so (ForwardingServiceImpl.update, Registry.postInit).
THEOREM TableFollows == FwdSpec => []TableFollowsStore
<1>1. TypeInv /\ FollowInv => TableFollowsStore
  <2> SUFFICES ASSUME TypeInv, FollowInv, NEW i \in Item, running, Isolated(i), Outstanding(i) = {},
                      i \notin overlapped \cup deleted
               PROVE  /\ PathOf[i] \in DOMAIN table <=> i \in Accepted
                      /\ i \in Accepted => table[PathOf[i]] = stored[i].record
    BY DEF TableFollowsStore
  <2>1. Settled(i)
    BY DEF Settled, Outstanding
  <2>2. Wanted = Accepted
    BY DEF TypeInv, Wanted
  <2>3. QED
    BY <2>1, <2>2 DEF FollowInv, Follows
<1>2. QED
  BY <1>1, TypeInit, TypeStep, FollowInit, FollowStep, PTL DEF FwdSpec

------------------------------------------------------------------------------
(* The table after start-up *)

\* Until something is written after a start-up, no request is in progress, an
\* entry is that of an item loaded so far, every such item has an entry at or
\* above its path, and those with code 200 are for the proxy.
LoadedInv ==
    ~changed =>
        /\ \A t \in Thread : pc[t] = "idle"
        /\ table = [p \in DOMAIN table |-> table[p]]
        /\ \A p \in DOMAIN table : \E i \in Wanted : p = PathOf[i] /\ table[p] = stored[i].record
        /\ \A i \in Wanted : \E p \in DOMAIN table : p = PathOf[i] \/ Above(p, PathOf[i])
        /\ \A p \in Paths : p \in DOMAIN proxyForwards <=>
              \E i \in Wanted : p = PathOf[i] /\ stored[i].record.code = 200

\* A path above a path is above what is below that.
LEMMA AboveTransitive ==
    ASSUME NEW p \in Seq(STRING), NEW q \in Seq(STRING), NEW r \in Seq(STRING), Above(p, q), Above(q, r)
    PROVE  Above(p, r)
<1>1. Len(p) \in Nat /\ Len(q) \in Nat /\ Len(r) \in Nat
  BY LenProperties
<1>2. QED
  BY <1>1 DEF Above

\* The order in which start-up loads the delegations makes no difference:
\* whenever it is over, the table is the one of the accepted items that are
\* not below another one (Registry.postInit, util/Trie).
THEOREM StartUpTable == FwdSpec => []ReloadedTable
<1> USE ForwardingAssumption
<1>path. \A i \in Item : PathOf[i] \in Seq(STRING)
  OBVIOUS
<1>1. FwdInit => LoadedInv
  <2> SUFFICES ASSUME FwdInit PROVE LoadedInv
    OBVIOUS
  <2>1. Wanted = {}
    BY DEF FwdInit, Wanted, Accepted
  <2>2. QED
    BY <2>1, EmptyTable DEF FwdInit, LoadedInv
<1>2. TypeInv /\ LoadedInv /\ [FwdNext]_fwdVars => LoadedInv'
  <2> SUFFICES ASSUME TypeInv, LoadedInv, [FwdNext]_fwdVars PROVE LoadedInv'
    OBVIOUS
  <2>1. ASSUME changed' PROVE LoadedInv'
    BY <2>1 DEF LoadedInv
  <2>2. ASSUME NEW t \in Thread, Update(t) \/ Config(t) PROVE LoadedInv'
    <3>1. pc[t] # "idle" /\ UNCHANGED changed
      BY <2>2 DEF Update, Config
    <3>2. QED
      BY <2>1, <3>1 DEF LoadedInv
  <2>3. CASE Restart
    <3>1. Wanted' = {}
      BY <2>3 DEF Restart, Wanted, Accepted, listDelegations
    <3>2. QED
      BY <2>3, <3>1, EmptyTable DEF Restart, LoadedInv
  <2>4. ASSUME NEW i \in Item, Load(i) PROVE LoadedInv'
    <3> SUFFICES ASSUME ~changed PROVE LoadedInv'
      BY <2>4 DEF Load, LoadedInv
    <3> DEFINE a == PathOf[i]
               r == stored[i].record
               W == Wanted
    <3>1. UNCHANGED <<stored, pc, changed>> /\ loading' = loading \ {i} /\ i \in loading
      BY <2>4 DEF Load
    <3>2. i \in Accepted /\ r \in Record
      BY <3>1 DEF TypeInv, FwdTypeOK, Accepted
    <3>3. \A j : j \in Wanted' <=> j = i \/ j \in W
      BY <3>1, <3>2 DEF Wanted, Accepted
    <3>4. i \notin W /\ W \subseteq Item
      BY <3>1 DEF Wanted, Accepted
    <3>5. \A j \in W : PathOf[j] # a
      BY <3>4
    <3>6. table' = trieRegister(table, a, r)
      BY <2>4 DEF Load, register
    <3>7. \A p \in DOMAIN table : p \in Seq(STRING)
      BY <1>path DEF TypeInv, FwdTypeOK, Paths
    <3>8. a \in Seq(STRING) /\ \A j \in W : PathOf[j] \in Seq(STRING)
      BY <1>path, <3>4
    <3>9. /\ \A p \in DOMAIN table : \E j \in W : p = PathOf[j] /\ table[p] = stored[j].record
          /\ table = [p \in DOMAIN table |-> table[p]]
          /\ \A t \in Thread : pc[t] = "idle"
      BY DEF LoadedInv
    <3>10. \A j \in W : \E p \in DOMAIN table : p = PathOf[j] \/ Above(p, PathOf[j])
      BY DEF LoadedInv
    <3>11. \A p : p \in DOMAIN proxyForwards <=> \E j \in W : p = PathOf[j] /\ stored[j].record.code = 200
      <4>1. \A j \in W : PathOf[j] \in Paths
        BY <3>4 DEF Paths
      <4>2. QED
        BY <4>1 DEF LoadedInv, TypeInv, FwdTypeOK
    <3>12. proxyForwards' = IF r.code = 200 THEN Extend(proxyForwards, a, r) ELSE Without(proxyForwards, {a})
      BY <2>4 DEF Load, register
    <3>r. stored'[i].record = r
      BY <3>1
    <3>a. PathOf[i] = a
      OBVIOUS
    <3> HIDE DEF a, r, W
    <3>13. \A p : p \in DOMAIN proxyForwards' <=> \E j \in Wanted' : p = PathOf[j] /\ stored'[j].record.code = 200
      <4>1. CASE r.code = 200
        <5>1. DOMAIN proxyForwards' = DOMAIN proxyForwards \cup {a}
          BY <3>12, <4>1 DEF Extend
        <5>2. QED
          BY <3>1, <3>3, <3>11, <3>r, <3>a, <4>1, <5>1
      <4>2. CASE r.code # 200
        <5>1. DOMAIN proxyForwards' = DOMAIN proxyForwards \ {a}
          BY <3>12, <4>2 DEF Without
        <5>2. a \notin DOMAIN proxyForwards
          BY <3>5, <3>11
        <5>3. QED
          BY <3>1, <3>3, <3>11, <3>r, <3>a, <4>2, <5>1, <5>2
      <4>3. QED
        BY <4>1, <4>2
    <3>14. table' = [p \in DOMAIN table' |-> table'[p]]
      <4>1. table = [p \in DOMAIN table |-> table[p]]
        BY <3>9
      <4>2. CASE \E s \in DOMAIN table : Above(s, a)
        <5>1. table' = table
          BY <3>6, <4>2, RegisterTable
        <5>2. QED
          BY <4>1, <5>1
      <4>3. CASE ~\E s \in DOMAIN table : Above(s, a)
        <5> DEFINE w == Without(table, {q \in DOMAIN table : Above(a, q)})
        <5>1. table' = Extend(w, a, r)
          BY <3>6, <4>3 DEF trieRegister
        <5> HIDE DEF w
        <5>2. QED
          BY <5>1 DEF Extend
      <4>4. QED
        BY <4>2, <4>3
    <3>15. \A p \in DOMAIN table' : \E j \in Wanted' : p = PathOf[j] /\ table'[p] = stored'[j].record
      <4>1. \A p \in DOMAIN table' : p = a \/ p \in DOMAIN table
        BY <3>6, RegisterTable
      <4>2. \A p \in DOMAIN table' : table'[p] = r \/ (p \in DOMAIN table /\ table'[p] = table[p])
        BY <3>6, RegisterTable
      <4>3. \A p \in DOMAIN table' : p # a => table'[p] = table[p]
        BY <3>6, RegisterTable
      <4>4. \A p \in DOMAIN table' : p = a => table'[p] = r
        <5>1. a \notin DOMAIN table
          BY <3>5, <3>9
        <5>2. QED
          BY <4>2, <5>1
      <4>5. QED
        BY <3>1, <3>3, <3>9, <3>r, <3>a, <4>1, <4>3, <4>4
    <3>16. \A j \in Wanted' : \E p \in DOMAIN table' : p = PathOf[j] \/ Above(p, PathOf[j])
      <4>1. CASE \E s \in DOMAIN table : Above(s, a)
        <5>1. table' = table
          BY <3>6, <4>1, RegisterTable
        <5>2. QED
          BY <3>3, <3>10, <3>a, <4>1, <5>1
      <4>2. CASE ~\E s \in DOMAIN table : Above(s, a)
        <5>1. a \in DOMAIN table'
          BY <3>6, <4>2, RegisterTable
        <5>2. \A q \in DOMAIN table : ~Above(a, q) => q \in DOMAIN table'
          BY <3>6, RegisterTable
        <5>3. ASSUME NEW j \in W
              PROVE  \E p \in DOMAIN table' : p = PathOf[j] \/ Above(p, PathOf[j])
          <6>1. PICK q \in DOMAIN table : q = PathOf[j] \/ Above(q, PathOf[j])
            BY <3>10
          <6>2. CASE Above(a, q)
            <7>1. Above(a, PathOf[j])
              BY <3>7, <3>8, <6>1, <6>2, AboveTransitive
            <7>2. QED
              BY <5>1, <7>1
          <6>3. CASE ~Above(a, q)
            BY <5>2, <6>1, <6>3
          <6>4. QED
            BY <6>2, <6>3
        <5>4. QED
          BY <3>3, <3>a, <5>1, <5>3
      <4>3. QED
        BY <4>1, <4>2
    <3>17. QED
      BY <3>1, <3>9, <3>13, <3>14, <3>15, <3>16 DEF LoadedInv
  <2>5. CASE Loaded \/ UNCHANGED fwdVars
    <3>1. UNCHANGED <<stored, table, proxyForwards, pc, changed, loading>>
      BY <2>5 DEF Loaded, fwdVars
    <3>2. QED
      BY <3>1 DEF LoadedInv, Wanted, Accepted
  <2>6. QED
    BY <2>1, <2>2, <2>3, <2>4, <2>5 DEF FwdNext, Write, Delete
<1>3. TypeInv /\ PrefixFree /\ LoadedInv => ReloadedTable
  <2> SUFFICES ASSUME TypeInv, PrefixFree, LoadedInv, running, ~changed
               PROVE  ReloadedTable
    BY DEF ReloadedTable
  <2> DEFINE Top == {PathOf[i] : i \in {j \in Accepted : \A k \in Accepted : ~Above(PathOf[k], PathOf[j])}}
  <2>1. Wanted = Accepted /\ Accepted \subseteq Item
    BY DEF TypeInv, Wanted, Accepted
  <2>2. /\ \A p \in DOMAIN table : \E i \in Accepted : p = PathOf[i] /\ table[p] = stored[i].record
        /\ table = [p \in DOMAIN table |-> table[p]]
    BY <2>1 DEF LoadedInv
  <2>3. \A i \in Accepted : \E p \in DOMAIN table : p = PathOf[i] \/ Above(p, PathOf[i])
    BY <2>1 DEF LoadedInv
  <2>4. ASSUME NEW p \in DOMAIN table PROVE p \in Top
    <3>1. PICK i \in Accepted : p = PathOf[i]
      BY <2>2
    <3>2. ASSUME NEW k \in Accepted PROVE ~Above(PathOf[k], p)
      <4>1. PICK q \in DOMAIN table : q = PathOf[k] \/ Above(q, PathOf[k])
        BY <2>3
      <4>2. p \in Seq(STRING) /\ q \in Seq(STRING) /\ PathOf[k] \in Seq(STRING)
        BY <1>path, <2>1, <2>2
      <4>3. ~Above(q, p)
        BY DEF PrefixFree
      <4>4. QED
        BY <4>1, <4>2, <4>3, AboveTransitive
    <3>3. QED
      BY <3>1, <3>2
  <2>5. ASSUME NEW p \in Top PROVE p \in DOMAIN table
    <3>1. PICK i \in Accepted : p = PathOf[i] /\ \A k \in Accepted : ~Above(PathOf[k], PathOf[i])
      OBVIOUS
    <3>2. PICK q \in DOMAIN table : q = PathOf[i] \/ Above(q, PathOf[i])
      BY <2>3
    <3>3. \E k \in Accepted : q = PathOf[k]
      BY <2>2
    <3>4. QED
      BY <3>1, <3>2, <3>3
  <2>6. DOMAIN table = Top
    BY <2>4, <2>5
  <2> HIDE DEF Top
  <2>7. ASSUME NEW p \in Top PROVE table[p] = stored[CHOOSE i \in Item : PathOf[i] = p].record
    <3>1. PICK i \in Accepted : p = PathOf[i] /\ table[p] = stored[i].record
      BY <2>2, <2>6
    <3>2. (CHOOSE j \in Item : PathOf[j] = p) = i
      BY <2>1, <3>1
    <3>3. QED
      BY <3>1, <3>2
  <2>8. table = [p \in Top |-> stored[CHOOSE i \in Item : PathOf[i] = p].record]
    <3>1. table = [p \in Top |-> table[p]]
      BY <2>2, <2>6
    <3> DEFINE entry(p) == stored[CHOOSE i \in Item : PathOf[i] = p].record
    <3>2. \A p \in Top : table[p] = entry(p)
      BY <2>7
    <3> HIDE DEF entry
    <3>3. table = [p \in Top |-> entry(p)]
      BY <3>1, <3>2
    <3>4. QED
      BY <3>3 DEF entry
  <2>9. DOMAIN proxyForwards = {PathOf[i] : i \in {j \in Accepted : stored[j].record.code = 200}}
    <3>1. \A p : p \in DOMAIN proxyForwards <=> \E i \in Accepted : p = PathOf[i] /\ stored[i].record.code = 200
      <4>1. \A i \in Accepted : PathOf[i] \in Paths
        BY <2>1 DEF Paths
      <4>2. QED
        BY <2>1, <4>1 DEF LoadedInv, TypeInv, FwdTypeOK
    <3> DEFINE P == {j \in Accepted : stored[j].record.code = 200}
    <3>2. \A p : p \in DOMAIN proxyForwards <=> \E i \in P : p = PathOf[i]
      BY <3>1
    <3> HIDE DEF P
    <3>3. DOMAIN proxyForwards = {PathOf[i] : i \in P}
      <4>1. DOMAIN proxyForwards \subseteq {PathOf[i] : i \in P}
        BY <3>2
      <4>2. {PathOf[i] : i \in P} \subseteq DOMAIN proxyForwards
        BY <3>2
      <4>3. QED
        BY <4>1, <4>2
    <3>4. QED
      BY <3>3 DEF P
  <2>10. QED
    BY <2>8, <2>9 DEF ReloadedTable, Top
<1>4. QED
  BY <1>1, <1>2, <1>3, TypeInit, TypeStep, TablePrefixFree, PTL DEF FwdSpec
==============================================================================
