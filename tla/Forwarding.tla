----------------------------- MODULE Forwarding -----------------------------
(***************************************************************************)
(* The forwarding service (core/ForwardingServiceImpl) beside the store    *)
(* and the requests that change delegated items.  A request writes an item *)
(* and then calls ForwardingService.update, which registers or unregisters *)
(* its path and then writes the configuration of the front-end proxy; each *)
(* of these is synchronized, the three together are not.  A restart empties*)
(* the service and loads it from the store, in any order.                  *)
(*                                                                         *)
(* The trie is a table of paths here; ForwardingTrie runs util/Trie itself *)
(* beside it.                                                              *)
(***************************************************************************)
EXTENDS Naturals, Sequences, FiniteSets

CONSTANTS
    Item,         \* the delegated items
    PathOf,       \* their locations: non-empty sequences of segments
    Record,       \* forwarding records: [type, code, target]
    Thread,
    RegisterUri,  \* the register the items are in
    None,
    MaxRequests   \* bound: requests

ASSUME ForwardingAssumption ==
    /\ PathOf \in [Item -> Seq(STRING) \ {<<>>}]
    /\ \A i, j \in Item : PathOf[i] = PathOf[j] => i = j
    /\ Record \subseteq [type : {"FORWARD", "FEDERATE", "DELEGATE"}, code : Nat, target : STRING]
    /\ None \notin Thread \cup Item \cup [accepted : BOOLEAN, record : Record]
    /\ RegisterUri \notin Item
    /\ MaxRequests \in Nat

VARIABLES
    stored,         \* the store: an item's current status and record, or None
    table,          \* the trie: path -> record
    proxyForwards,  \* path -> record, for code 200
    configUpdateNeeded,
    proxy,          \* what the front-end proxy runs with: path -> target
    pc,             \* thread -> "idle", "update" or "config"
    job,            \* thread -> the item it changes and the locks it holds
    loading,        \* the items still to be loaded at start-up
    running,        \* start-up is over
    requests,       \* counts requests
    overlapped,     \* history: items written while another request's update
                    \* of the forwarding service was outstanding
    deleted,        \* history: items deleted and not written since
    changed,        \* history: something was written since start-up
    proxyBehind     \* history: why the proxy may run with an old configuration

fwdVars == <<stored, table, proxyForwards, configUpdateNeeded, proxy, pc, job,
             loading, running, requests, overlapped, deleted, changed, proxyBehind>>

Paths == {PathOf[i] : i \in Item}

\* p is a proper prefix of q.
Above(p, q) == Len(p) < Len(q) /\ \A k \in 1..Len(p) : p[k] = q[k]
Covers(p, q) == Len(p) <= Len(q) /\ \A k \in 1..Len(p) : p[k] = q[k]

Extend(f, k, v) == [x \in DOMAIN f \cup {k} |-> IF x = k THEN v ELSE f[x]]
Without(f, K) == [x \in DOMAIN f \ K |-> f[x]]

------------------------------------------------------------------------------
(* The table of paths: what util/Trie does *)

\* A terminal above the path swallows the registration; otherwise the path
\* becomes a terminal and what was below it is gone.
trieRegister_KeepsBelow(t, p, r) ==
    IF \E q \in DOMAIN t : Above(q, p) THEN t ELSE Extend(t, p, r)

trieRegister(t, p, r) ==
    IF \E q \in DOMAIN t : Above(q, p) THEN t
    ELSE Extend(Without(t, {q \in DOMAIN t : Above(p, q)}), p, r)

trieUnregister(t, p) == Without(t, {q \in DOMAIN t : Covers(p, q)})

------------------------------------------------------------------------------
(* ForwardingServiceImpl *)

\* register(record)
register_NotFlagged(p, r) ==
    /\ table' = trieRegister(table, p, r)
    /\ proxyForwards' = IF r.code = 200 THEN Extend(proxyForwards, p, r)
                                        ELSE Without(proxyForwards, {p})
    /\ configUpdateNeeded' = (configUpdateNeeded \/ r.code = 200)

register_AlwaysProxied(p, r) ==
    /\ table' = trieRegister(table, p, r)
    /\ proxyForwards' = Extend(proxyForwards, p, r)
    /\ configUpdateNeeded' = TRUE

register(p, r) ==
    /\ table' = trieRegister(table, p, r)
    /\ proxyForwards' = IF r.code = 200 THEN Extend(proxyForwards, p, r)
                                        ELSE Without(proxyForwards, {p})
    /\ configUpdateNeeded' = (configUpdateNeeded \/ r.code = 200 \/ p \in DOMAIN proxyForwards)

unregister(p) ==
    /\ table' = trieUnregister(table, p)
    /\ proxyForwards' = Without(proxyForwards, {p})
    /\ configUpdateNeeded' = (configUpdateNeeded \/ p \in DOMAIN proxyForwards)

\* updateConfig(): the flag is cleared when the file cannot be written or the
\* script fails, too.
updateConfig ==
    /\ configUpdateNeeded' = FALSE
    /\ IF configUpdateNeeded
       THEN \/ /\ proxy' = [p \in DOMAIN proxyForwards |-> proxyForwards[p].target]
               /\ proxyBehind' = "no"
            \/ /\ proxyBehind' = "failed"
               /\ UNCHANGED proxy
       ELSE UNCHANGED <<proxy, proxyBehind>>

------------------------------------------------------------------------------
(* Requests *)

Idle == [item |-> None, accepted |-> FALSE, record |-> None, locks |-> {}]

\* Locks are disjoint: an item request holds the item's, a registration or a
\* status update of a whole register the register's.
Free(locks) == \A t \in Thread : job[t].locks \cap locks = {}

Outstanding(i) == {t \in Thread : job[t].item = i}

\* The store write of a command, under the lock of the item or the register.
Write(t, i, accepted, r, locks) ==
    /\ running
    /\ pc[t] = "idle" /\ requests < MaxRequests
    /\ Free(locks)
    /\ stored[i] = None => locks # {i}
    /\ stored' = [stored EXCEPT ![i] = [accepted |-> accepted, record |-> r]]
    /\ job' = [job EXCEPT ![t] = [item |-> i, accepted |-> accepted, record |-> r, locks |-> locks]]
    /\ pc' = [pc EXCEPT ![t] = "update"]
    /\ requests' = requests + 1
    /\ overlapped' = IF Outstanding(i) # {} THEN overlapped \cup {i} ELSE overlapped
    /\ deleted' = deleted \ {i}
    /\ changed' = TRUE
    /\ UNCHANGED <<table, proxyForwards, configUpdateNeeded, proxy, loading, running, proxyBehind>>

\* CommandDelete.doDelete: the status becomes Invalid; nothing else is called.
Delete(i, locks) ==
    /\ running
    /\ requests < MaxRequests
    /\ Free(locks)
    /\ stored[i] # None
    /\ stored' = [stored EXCEPT ![i].accepted = FALSE]
    /\ requests' = requests + 1
    /\ deleted' = deleted \cup {i}
    /\ changed' = TRUE
    /\ UNCHANGED <<table, proxyForwards, configUpdateNeeded, proxy, pc, job, loading, running,
                   overlapped, proxyBehind>>

\* ForwardingServiceImpl.update, first half: register or unregister.
Update_Registers(t) ==
    /\ pc[t] = "update"
    /\ register(PathOf[job[t].item], job[t].record)
    /\ pc' = [pc EXCEPT ![t] = "config"]
    /\ UNCHANGED <<stored, proxy, job, loading, running, requests, overlapped, deleted, changed, proxyBehind>>

Update(t) ==
    /\ pc[t] = "update"
    /\ IF job[t].accepted THEN register(PathOf[job[t].item], job[t].record)
                          ELSE unregister(PathOf[job[t].item])
    /\ pc' = [pc EXCEPT ![t] = "config"]
    /\ UNCHANGED <<stored, proxy, job, loading, running, requests, overlapped, deleted, changed, proxyBehind>>

\* The second half; the request ends and gives its lock back.
Config(t) ==
    /\ pc[t] = "config"
    /\ updateConfig
    /\ pc' = [pc EXCEPT ![t] = "idle"]
    /\ job' = [job EXCEPT ![t] = Idle]
    /\ UNCHANGED <<stored, table, proxyForwards, loading, running, requests, overlapped, deleted, changed>>

------------------------------------------------------------------------------
(* Start-up *)

\* StoreBaseImpl.listDelegations: the accepted items.
listDelegations_AnyStatus == {i \in Item : stored[i] # None}

listDelegations == {i \in Item : stored[i] # None /\ stored[i].accepted}

\* The server stops at any point and starts again; store and proxy stay.
Restart ==
    /\ running /\ requests < MaxRequests
    /\ requests' = requests + 1
    /\ table' = <<>> /\ proxyForwards' = <<>> /\ configUpdateNeeded' = FALSE
    /\ pc' = [t \in Thread |-> "idle"] /\ job' = [t \in Thread |-> Idle]
    /\ loading' = listDelegations
    /\ running' = FALSE
    /\ overlapped' = {} /\ deleted' = {} /\ changed' = FALSE /\ proxyBehind' = "restarted"
    /\ UNCHANGED <<stored, proxy>>

\* Registry.postInit: each record is registered, in the order of the query.
Load(i) ==
    /\ i \in loading
    /\ register(PathOf[i], stored[i].record)
    /\ loading' = loading \ {i}
    /\ UNCHANGED <<stored, proxy, pc, job, running, requests, overlapped, deleted, changed, proxyBehind>>

Loaded ==
    /\ ~running /\ loading = {}
    /\ updateConfig
    /\ running' = TRUE
    /\ UNCHANGED <<stored, table, proxyForwards, pc, job, loading, requests, overlapped, deleted, changed>>

FwdInit ==
    /\ stored = [i \in Item |-> None]
    /\ table = <<>> /\ proxyForwards = <<>> /\ configUpdateNeeded = FALSE /\ proxy = <<>>
    /\ pc = [t \in Thread |-> "idle"] /\ job = [t \in Thread |-> Idle]
    /\ loading = {} /\ running = TRUE
    /\ requests = 0
    /\ overlapped = {} /\ deleted = {} /\ changed = FALSE /\ proxyBehind = "no"

\* The lock of an item or of its register.
Locks(i) == {{i}, {RegisterUri}}

FwdNext ==
    \/ \E t \in Thread, i \in Item, accepted \in BOOLEAN, r \in Record : \E locks \in Locks(i) :
          Write(t, i, accepted, r, locks)
    \/ \E i \in Item : \E locks \in Locks(i) : Delete(i, locks)
    \/ \E t \in Thread : Update(t) \/ Config(t)
    \/ Restart
    \/ \E i \in Item : Load(i)
    \/ Loaded

FwdSpec == FwdInit /\ [][FwdNext]_fwdVars

Accepted == {i \in Item : stored[i] # None /\ stored[i].accepted}

FwdTypeOK ==
    /\ stored \in [Item -> [accepted : BOOLEAN, record : Record] \cup {None}]
    /\ DOMAIN table \subseteq Paths /\ \A p \in DOMAIN table : table[p] \in Record
    /\ DOMAIN proxyForwards \subseteq Paths
    /\ \A p \in DOMAIN proxyForwards : proxyForwards[p] \in Record /\ proxyForwards[p].code = 200
    /\ configUpdateNeeded \in BOOLEAN
    /\ pc \in [Thread -> {"idle", "update", "config"}]
    /\ \A t \in Thread : pc[t] # "idle" => job[t].item \in Item /\ job[t].record \in Record
    /\ loading \subseteq Accepted
    /\ running \in BOOLEAN
    /\ proxyBehind \in {"no", "failed", "restarted"}

------------------------------------------------------------------------------
(* Properties *)

\* No path of the table is above another one, so that at most one record
\* matches a request: "Terminals can only appear on ends of paths"
\* (util/Trie.java:34).
PrefixFree ==
    \A p, q \in DOMAIN table : ~Above(p, q)

Isolated(i) ==
    \A j \in Item : ~Above(PathOf[i], PathOf[j]) /\ ~Above(PathOf[j], PathOf[i])

\* The forwarding table "reflects a change in registration or status of an
\* item" (core/ForwardingService.java:35): an item has an entry, with its
\* current record, exactly if it is accepted.  The exceptions are a request on
\* the item that has not called the service yet, two requests on the item that
\* overlapped under different locks, a delete, and paths inside one another.
TableFollowsStore ==
    \A i \in Item :
        running /\ Isolated(i) /\ Outstanding(i) = {} /\ i \notin overlapped \cup deleted =>
            /\ PathOf[i] \in DOMAIN table <=> i \in Accepted
            /\ i \in Accepted => table[PathOf[i]] = stored[i].record

\* In whatever order start-up loads the delegations (Registry.postInit), the
\* table has exactly the accepted items that are not below another accepted
\* one, and every record with code 200 is for the proxy.
ReloadedTable ==
    running /\ ~changed =>
        /\ table = [p \in {PathOf[i] : i \in {j \in Accepted :
                              \A k \in Accepted : ~Above(PathOf[k], PathOf[j])}} |->
                      stored[CHOOSE i \in Item : PathOf[i] = p].record]
        /\ DOMAIN proxyForwards =
              {PathOf[i] : i \in {j \in Accepted : stored[j].record.code = 200}}

\* When no update of the configuration is called for, the proxy runs with
\* the records of proxyForwards, unless the last update failed (updateConfig
\* forgets it) or the server was restarted and has nothing for the proxy
\* (updateConfig then leaves the old file in place).
ProxyFollows ==
    ~configUpdateNeeded /\ proxyBehind # "failed" =>
        \/ proxy = [p \in DOMAIN proxyForwards |-> proxyForwards[p].target]
        \/ proxyBehind = "restarted" /\ DOMAIN proxyForwards = {}
==============================================================================
