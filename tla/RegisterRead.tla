----------------------------- MODULE RegisterRead -----------------------------
(***************************************************************************)
(* Clients that page through a register (CommandRead.registerRead) while   *)
(* others write to it, the register's description being kept in memory     *)
(* (store/CachingStore) together with its list of members, which the       *)
(* Register object loads when it is first asked for (Register.getMembers). *)
(* A reader takes no lock: every access to the cache, to the store and to  *)
(* the field `members' is a step of its own.                               *)
(***************************************************************************)
EXTENDS Paging, SequencesExt, FiniteSets, Status

CONSTANTS
    Walker,        \* clients that page through the register once
    Reader,        \* clients that read the whole register, again and again
    NItems,        \* the items are 1..NItems, in the order of their notations
    Filters,       \* the status categories asked for
    ItemStatus,    \* the statuses that items get
    MaxWrites      \* bound

Item == 1..NItems
Client == Walker \cup Reader

\* The status of every item, as a list of members is made from it, and the
\* fields of a Register object (see NewObject).
Snapshot == [Item -> Statuses \cup {"none"}]
ObjectState == [version : Nat, members : Snapshot \cup {Null}, overlapped : BOOLEAN]

ASSUME RegisterReadAssumption ==
    /\ NItems \in Nat /\ MaxWrites \in Nat
    /\ Filters \subseteq Statuses /\ ItemStatus \subseteq Statuses
    /\ IsFiniteSet(Client) /\ Walker \cap Reader = {}
    /\ Null \notin Nat /\ Null \notin ObjectState

VARIABLES
    delegated,  \* the members are those of a remote source
    filter,     \* the category the clients ask for
    status,     \* item -> its status in the store, "none" before it is registered
    version,    \* the version of the register's description in the store
    writes,     \* writes so far
    writing,    \* the write whose flush is done: Null or the item and its status
    cache,      \* the cached Register object, or Null
    heap,       \* the Register objects
    reader      \* client -> its request and what it has got

readVars == <<delegated, filter, status, version, writes, writing, cache, heap, reader>>

------------------------------------------------------------------------------
(* Pages *)

\* ORDER BY ?notation: the k-th of the items has k of them up to it.
orderBy(items) ==
    [k \in 1..Cardinality(items) |-> CHOOSE i \in items : Cardinality({j \in items : j <= i}) = k]

\* The members of a register, and those a view is of; a remote source has no
\* statuses.
Registered(snapshot) == {i \in Item : snapshot[i] # "none"}
Valid(snapshot) == {i \in Registered(snapshot) : delegated \/ isA(snapshot[i], filter)}

listMembers(snapshot) == orderBy(Registered(snapshot))
Matching(snapshot) == orderBy(Valid(snapshot))

\* Register.constructView: what matches before the limit is skipped up to the
\* offset and then listed; the view is incomplete once the limit is reached.
constructView_CountsBoundary(snapshot, offset, length) ==
    LET valid == Matching(snapshot)
    IN  [items |-> listWindow(valid, offset, length + 1), complete |-> Len(valid) < offset + length]

constructView(snapshot, offset, length) ==
    LET valid == Matching(snapshot)
    IN  [items |-> listWindow(valid, offset, length), complete |-> Len(valid) < offset + length]

\* Register.constructDelegatedView, and the test for completeness in registerRead.
constructDelegatedView(snapshot, offset, length) ==
    LET items == listWindow(listMembers(snapshot), offset, length)
    IN  [items |-> items, complete |-> Len(items) < length]

------------------------------------------------------------------------------
(* Writers: CachingStore flushes the register and then writes to the store. *)

\* A Register object: the version it was read from, its members once they are
\* loaded and, for the properties, whether it was put into the cache, or given
\* its members, while a write was between its flush and its end or after it.
Object == 1..(Cardinality(Client) + 1)
NewObject == [version |-> version, members |-> Null, overlapped |-> FALSE]

Start == [pc |-> "get", object |-> Null, listed |-> Null, page |-> 0, got |-> <<>>, snapshots |-> <<>>]

ReadInit ==
    /\ delegated \in BOOLEAN
    /\ filter \in IF delegated THEN {"Any"} ELSE Filters
    /\ status \in [Item -> IF delegated THEN {"none", "Stable"} ELSE {"none", "Submitted", "Stable"}]
    /\ version = 0 /\ writes = 0 /\ writing = Null
    /\ cache = Null /\ heap = [o \in Object |-> Null]
    /\ reader = [c \in Client |-> Start]

\* The objects that the cache or a request still refers to.
Live(h, inCache, readers) ==
    [o \in Object |-> IF o = inCache \/ \E c \in Client : readers[c].object = o THEN h[o] ELSE Null]

\* An item is registered, or its status changes (a delete makes it Invalid).
Change(i, s) ==
    IF status[i] = "none" THEN s = "Submitted" ELSE s # status[i] /\ legalNextState(status[i], s)

flush_Skipped == UNCHANGED cache

flush == cache' = Null

Flush(i, s) ==
    /\ ~delegated /\ writing = Null /\ writes < MaxWrites /\ Change(i, s)
    /\ flush
    /\ heap' = Live(heap, cache', reader)
    /\ writing' = [item |-> i, status |-> s]
    /\ writes' = writes + 1
    /\ UNCHANGED <<delegated, filter, status, version, reader>>

\* addToRegister makes a new version of the register, an update of an item does not.
Write ==
    /\ writing # Null
    /\ version' = IF status[writing.item] = "none" THEN version + 1 ELSE version
    /\ status' = [status EXCEPT ![writing.item] = writing.status]
    /\ writing' = Null
    /\ UNCHANGED <<delegated, filter, writes, cache, heap, reader>>

\* The remote source of a delegated register changes.
RemoteChange(i) ==
    /\ delegated /\ writes < MaxWrites
    /\ status' = [status EXCEPT ![i] = IF @ = "none" THEN "Stable" ELSE "none"]
    /\ writes' = writes + 1
    /\ UNCHANGED <<delegated, filter, version, writing, cache, heap, reader>>

\* DescriptionCache: another register takes the place.
Evict ==
    /\ cache # Null
    /\ cache' = Null
    /\ heap' = Live(heap, Null, reader)
    /\ UNCHANGED <<delegated, filter, status, version, writes, writing, reader>>

------------------------------------------------------------------------------
(* A request for a page *)

Becomes(c, from, next) == reader[c].pc = from /\ reader' = [reader EXCEPT ![c] = next]
Store == <<delegated, filter, status, version, writes, writing>>

Get(c) ==
    /\ Becomes(c, "get", [reader[c] EXCEPT !.pc = IF cache = Null THEN "load" ELSE "members", !.object = cache])
    /\ UNCHANGED <<Store, cache, heap>>

Load(c) ==
    LET o == CHOOSE o \in Object : heap[o] = Null
    IN  /\ Becomes(c, "load", [reader[c] EXCEPT !.pc = "put", !.object = o])
        /\ heap' = [heap EXCEPT ![o] = NewObject]
        /\ UNCHANGED <<Store, cache>>

\* The object and the list go with a write that is under way, or are behind it.
Overlaps(v, list) == writing # Null \/ v # version \/ list \notin {Null, status}

Put(c) ==
    LET o == reader[c].object
    IN  /\ Becomes(c, "put", [reader[c] EXCEPT !.pc = "members"])
        /\ cache' = o
        /\ heap' = Live([heap EXCEPT ![o].overlapped = @ \/ Overlaps(heap[o].version, Null)], cache', reader')
        /\ UNCHANGED Store

Members(c) ==
    /\ Becomes(c, "members", [reader[c] EXCEPT !.pc = IF heap[reader[c].object].members = Null THEN "list" ELSE "view"])
    /\ UNCHANGED <<Store, cache, heap>>

List(c) ==
    /\ Becomes(c, "list", [reader[c] EXCEPT !.pc = "assign", !.listed = status])
    /\ UNCHANGED <<Store, cache, heap>>

Assign(c) ==
    LET o == reader[c].object
        list == reader[c].listed
    IN  /\ Becomes(c, "assign", [reader[c] EXCEPT !.pc = "view", !.listed = Null])
        /\ heap' = [heap EXCEPT ![o].members = list, ![o].overlapped = @ \/ Overlaps(version, list)]
        /\ UNCHANGED <<Store, cache>>

\* The page is answered; a walker follows the link to the next page.
Answer(snapshot, offset, length) ==
    IF delegated THEN constructDelegatedView(snapshot, offset, length)
                 ELSE constructView(snapshot, offset, length)

View(c) ==
    LET snapshot == heap[reader[c].object].members
        view == Answer(snapshot, reader[c].page * PageSize, PageSize)
    IN  /\ Becomes(c, "view",
             IF c \in Reader THEN Start
             ELSE [reader[c] EXCEPT !.pc = IF view.complete THEN "done" ELSE "get",
                     !.object = Null, !.page = @ + 1, !.got = @ \o view.items,
                     !.snapshots = Append(@, snapshot)])
        /\ heap' = Live(heap, cache, reader')
        /\ UNCHANGED <<Store, cache>>

ReadNext ==
    \/ \E i \in Item, s \in ItemStatus : Flush(i, s)
    \/ \E i \in Item : RemoteChange(i)
    \/ Write \/ Evict
    \/ \E c \in Client : \/ Get(c) \/ Load(c) \/ Put(c) \/ Members(c) \/ List(c) \/ Assign(c) \/ View(c)

ReadSpec == ReadInit /\ [][ReadNext]_readVars

------------------------------------------------------------------------------
(* Properties *)

OutOfDate(o) == o.version # version \/ o.members \notin {Null, status}

\* The cached register is out of date only if it was read before a write and
\* put into the cache, or given its members, after the flush of that write
\* (CachingStore.getCurrentVersion, addToRegister and update); a delegated
\* register is not flushed when its source changes.
StaleOnlyIfOverlapped ==
    cache # Null /\ ~delegated /\ OutOfDate(heap[cache]) => heap[cache].overlapped

\* An item was in what a page was made from and not in what a later page was
\* made from, or the other way round.
In(snapshot, i) == Contains(Matching(snapshot), i)
Moved(c, i, before, after) ==
    \E p, q \in 1..Len(reader[c].snapshots) :
        p < q /\ In(reader[c].snapshots[p], i) = before /\ In(reader[c].snapshots[q], i) = after

\* A client that has followed the links to the end has every item that matches
\* all along, unless one before it has gone, and none twice, unless one before
\* it has come: pages are windows on a list that is read anew, from the cache
\* or the store, for each of them (constructView, registerRead).
WalkSeesAll ==
    \A c \in Walker : reader[c].pc = "done" =>
        \A i \in Item :
            /\ (\A p \in 1..Len(reader[c].snapshots) : In(reader[c].snapshots[p], i))
                  => Contains(reader[c].got, i) \/ \E j \in 1..(i - 1) : Moved(c, j, TRUE, FALSE)
            /\ (\E p, q \in 1..Len(reader[c].got) : p < q /\ reader[c].got[p] = i /\ reader[c].got[q] = i)
                  => \E j \in 1..(i - 1) : Moved(c, j, FALSE, TRUE)
==============================================================================
