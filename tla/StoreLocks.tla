----------------------------- MODULE StoreLocks -----------------------------
(***************************************************************************)
(* The locking of store/StoreBaseImpl.java at the grain of its monitor:    *)
(* lock(uri) and unlock(uri) keep one ReentrantLock per URI in the map     *)
(* `locks'; lockStore, unlockStore and lockStoreWrite guard the triple     *)
(* store, and the flag storeWriteLocked, shared by all threads, keeps the  *)
(* store's write lock from the first write of a block lock(uri) ...        *)
(* unlock(uri) to its end.  All five are `synchronized': each runs inside  *)
(* the object's monitor, also while it waits for a lock.                   *)
(*                                                                         *)
(* A thread serves one request at a time.  A request reads the store       *)
(* outside any block, or runs a block in which it reads and writes.        *)
(***************************************************************************)
EXTENDS Integers

CONSTANTS
    Thread, NoThread,   \* request threads
    URI, NoURI,         \* resources that commands lock for update
    LockObj, NoLock,    \* the ReentrantLock objects that may exist at once
    MaxCalls,           \* store calls in one block
    MaxReads            \* read holds one thread may leave behind

ASSUME SentinelAssumption ==
    NoThread \notin Thread /\ NoURI \notin URI /\ NoLock \notin LockObj

ASSUME BoundAssumption == MaxCalls \in Nat /\ MaxReads \in Nat

VARIABLES
    monitor,            \* the thread inside a synchronized method
    locks,              \* the map from URIs to lock objects
    owner,              \* the thread that holds each lock object
    storeWriteLocked,   \* the flag of that name
    writer,             \* external store: the thread in a write transaction
    reads,              \* external store: read transactions open per thread
    pc,                 \* where each thread is
    uri,                \* the URI a thread locks or has locked
    lockVar,            \* the local variable `lock' of lock(uri)
    calls,              \* store calls made in the thread's block
    wrote,              \* the thread has called lockStoreWrite in its block
    overlapped          \* history: two requests have been served at once

storeVars == <<storeWriteLocked, writer, reads>>
lockVars  == <<locks, owner>>
vars == <<monitor, locks, owner, storeWriteLocked, writer, reads, pc, uri,
          lockVar, calls, wrote, overlapped>>

PC == {"idle", "read", "query", "locking", "block", "blockRead",
       "lockWrite", "blockWrite"}

InBlock(t) == pc[t] \in {"block", "blockRead", "lockWrite", "blockWrite"}

TypeOK ==
    /\ monitor \in Thread \cup {NoThread}
    /\ locks \in [URI -> LockObj \cup {NoLock}]
    /\ owner \in [LockObj -> Thread \cup {NoThread}]
    /\ storeWriteLocked \in BOOLEAN
    /\ writer \in Thread \cup {NoThread}
    /\ reads \in [Thread -> 0 .. MaxReads]
    /\ pc \in [Thread -> PC]
    /\ uri \in [Thread -> URI \cup {NoURI}]
    /\ lockVar \in [Thread -> LockObj \cup {NoLock}]
    /\ calls \in [Thread -> 0 .. MaxCalls]
    /\ wrote \in [Thread -> BOOLEAN]
    /\ overlapped \in BOOLEAN

Init ==
    /\ monitor = NoThread
    /\ locks = [u \in URI |-> NoLock]
    /\ owner = [l \in LockObj |-> NoThread]
    /\ storeWriteLocked = FALSE
    /\ writer = NoThread
    /\ reads = [t \in Thread |-> 0]
    /\ pc = [t \in Thread |-> "idle"]
    /\ uri = [t \in Thread |-> NoURI]
    /\ lockVar = [t \in Thread |-> NoLock]
    /\ calls = [t \in Thread |-> 0]
    /\ wrote = [t \in Thread |-> FALSE]
    /\ overlapped = FALSE

Goto(t, label) == pc' = [pc EXCEPT ![t] = label]

\* A request starts on thread t.
Starts(t) ==
    overlapped' = (overlapped \/ \E s \in Thread \ {t} : pc[s] # "idle")

\* The thread can enter a synchronized method.
MonitorFree == monitor = NoThread

\* A lock object that nothing refers to: what `new ReentrantLock()' returns.
Fresh(l) ==
    /\ owner[l] = NoThread
    /\ \A u \in URI : locks[u] # l
    /\ \A t \in Thread : lockVar[t] # l

-----------------------------------------------------------------------------
(***************************************************************************)
(* The triple store behind the class (com.epimorphics.server.core.Store,   *)
(* a TDB store in the shipped configuration): readers never wait, writers  *)
(* exclude each other.  unlock() ends a transaction of the calling thread. *)
(* Called by a thread that has none it does nothing or ends the write of   *)
(* another thread: the library decides, and both are allowed here.         *)
(***************************************************************************)
BeginRead(t) ==
    /\ reads[t] < MaxReads
    /\ reads' = [reads EXCEPT ![t] = @ + 1]
    /\ UNCHANGED writer

BeginWrite(t) ==
    /\ writer = NoThread
    /\ writer' = t
    /\ UNCHANGED reads

\* Mutant: every unlock() counts as the end of a read.
StoreUnlock_Unmatched(t) ==
    \/ /\ writer # t
       /\ reads' = [reads EXCEPT ![t] = @ - 1]
       /\ UNCHANGED writer
    \/ /\ writer = t
       /\ writer' = NoThread
       /\ UNCHANGED reads

StoreUnlock(t) ==
    \/ /\ reads[t] > 0
       /\ reads' = [reads EXCEPT ![t] = @ - 1]
       /\ UNCHANGED writer
    \/ /\ writer = t
       /\ writer' = NoThread
       /\ UNCHANGED reads
    \/ /\ reads[t] = 0 /\ writer # t
       /\ writer' \in {writer, NoThread}
       /\ UNCHANGED reads

-----------------------------------------------------------------------------
\* Mutant: every call of lock(uri) makes a lock object of its own.
LockEnter_AlwaysNew(t, u) ==
    /\ pc[t] = "idle" /\ MonitorFree
    /\ monitor' = t
    /\ uri' = [uri EXCEPT ![t] = u]
    /\ \E l \in LockObj :
         /\ Fresh(l)
         /\ locks' = [locks EXCEPT ![u] = l]
         /\ lockVar' = [lockVar EXCEPT ![t] = l]
    /\ Goto(t, "locking")
    /\ Starts(t)
    /\ UNCHANGED <<owner, storeVars, calls, wrote>>

\* lock(uri) up to lock.lock(): the monitor is kept.
LockEnter(t, u) ==
    /\ pc[t] = "idle" /\ MonitorFree
    /\ monitor' = t
    /\ uri' = [uri EXCEPT ![t] = u]
    /\ \/ /\ locks[u] # NoLock
          /\ lockVar' = [lockVar EXCEPT ![t] = locks[u]]
          /\ UNCHANGED locks
       \/ /\ locks[u] = NoLock
          /\ \E l \in LockObj :
               /\ Fresh(l)
               /\ locks' = [locks EXCEPT ![u] = l]
               /\ lockVar' = [lockVar EXCEPT ![t] = l]
    /\ Goto(t, "locking")
    /\ Starts(t)
    /\ UNCHANGED <<owner, storeVars, calls, wrote>>

\* Mutant: tryLock() in the place of lock(), its result ignored.
LockGranted_NotAwaited(t) ==
    /\ pc[t] = "locking"
    /\ owner' = [owner EXCEPT ![lockVar[t]] = t]
    /\ lockVar' = [lockVar EXCEPT ![t] = NoLock]
    /\ monitor' = NoThread
    /\ Goto(t, "block")
    /\ UNCHANGED <<locks, storeVars, uri, calls, wrote, overlapped>>

\* lock.lock() returns and the method ends.
LockGranted(t) ==
    /\ pc[t] = "locking"
    /\ owner[lockVar[t]] = NoThread
    /\ owner' = [owner EXCEPT ![lockVar[t]] = t]
    /\ lockVar' = [lockVar EXCEPT ![t] = NoLock]
    /\ monitor' = NoThread
    /\ Goto(t, "block")
    /\ UNCHANGED <<locks, storeVars, uri, calls, wrote, overlapped>>

\* Mutant: unlock(uri) forgets to remove the entry from the map.
Unlock_EntryKept(t) ==
    /\ pc[t] = "block" /\ MonitorFree
    /\ locks[uri[t]] # NoLock
    /\ owner[locks[uri[t]]] = t
    /\ owner' = [owner EXCEPT ![locks[uri[t]]] = NoThread]
    /\ \/ storeWriteLocked /\ StoreUnlock(t) /\ storeWriteLocked' = FALSE
       \/ ~ storeWriteLocked /\ UNCHANGED storeVars
    /\ uri' = [uri EXCEPT ![t] = NoURI]
    /\ calls' = [calls EXCEPT ![t] = 0]
    /\ wrote' = [wrote EXCEPT ![t] = FALSE]
    /\ Goto(t, "idle")
    /\ UNCHANGED <<monitor, locks, lockVar, overlapped>>

\* unlock(uri), called in the `finally' of the block.
Unlock(t) ==
    /\ pc[t] = "block" /\ MonitorFree
    /\ locks[uri[t]] # NoLock
    /\ owner[locks[uri[t]]] = t
    /\ locks' = [locks EXCEPT ![uri[t]] = NoLock]
    /\ owner' = [owner EXCEPT ![locks[uri[t]]] = NoThread]
    /\ \/ storeWriteLocked /\ StoreUnlock(t) /\ storeWriteLocked' = FALSE
       \/ ~ storeWriteLocked /\ UNCHANGED storeVars
    /\ uri' = [uri EXCEPT ![t] = NoURI]
    /\ calls' = [calls EXCEPT ![t] = 0]
    /\ wrote' = [wrote EXCEPT ![t] = FALSE]
    /\ Goto(t, "idle")
    /\ UNCHANGED <<monitor, lockVar, overlapped>>

-----------------------------------------------------------------------------
\* lockStore() of a read, outside a block ("idle") or inside one.
LockStore(t) ==
    /\ MonitorFree
    /\ \/ pc[t] = "idle" /\ Goto(t, "read") /\ Starts(t) /\ UNCHANGED calls
       \/ /\ pc[t] = "block" /\ calls[t] < MaxCalls
          /\ calls' = [calls EXCEPT ![t] = @ + 1]
          /\ Goto(t, "blockRead")
          /\ UNCHANGED overlapped
    /\ IF storeWriteLocked THEN UNCHANGED <<reads, writer>> ELSE BeginRead(t)
    /\ UNCHANGED <<monitor, lockVars, storeWriteLocked, uri, lockVar, wrote>>

\* unlockStore(), in the `finally' of a read or of a write.
UnlockStore(t) ==
    /\ MonitorFree
    /\ \/ pc[t] = "read" /\ Goto(t, "idle")
       \/ pc[t] \in {"blockRead", "blockWrite"} /\ Goto(t, "block")
    /\ IF storeWriteLocked THEN UNCHANGED <<reads, writer>> ELSE StoreUnlock(t)
    /\ UNCHANGED <<monitor, lockVars, storeWriteLocked, uri, lockVar, calls,
                   wrote, overlapped>>

\* lockStoreWrite() finds the flag set, by this thread or by another.
LockStoreWriteHeld(t) ==
    /\ pc[t] = "block" /\ MonitorFree /\ calls[t] < MaxCalls
    /\ storeWriteLocked
    /\ calls' = [calls EXCEPT ![t] = @ + 1]
    /\ wrote' = [wrote EXCEPT ![t] = TRUE]
    /\ Goto(t, "blockWrite")
    /\ UNCHANGED <<monitor, lockVars, storeVars, uri, lockVar, overlapped>>

\* lockStoreWrite() calls store.lockWrite(), inside the monitor ...
LockStoreWriteEnter(t) ==
    /\ pc[t] = "block" /\ MonitorFree /\ calls[t] < MaxCalls
    /\ ~ storeWriteLocked
    /\ monitor' = t
    /\ calls' = [calls EXCEPT ![t] = @ + 1]
    /\ Goto(t, "lockWrite")
    /\ UNCHANGED <<lockVars, storeVars, uri, lockVar, wrote, overlapped>>

\* ... which returns once no other write transaction is open.
LockStoreWriteGranted(t) ==
    /\ pc[t] = "lockWrite"
    /\ BeginWrite(t)
    /\ storeWriteLocked' = TRUE
    /\ monitor' = NoThread
    /\ wrote' = [wrote EXCEPT ![t] = TRUE]
    /\ Goto(t, "blockWrite")
    /\ UNCHANGED <<lockVars, uri, lockVar, calls, overlapped>>

\* query() locks and unlocks the store without the monitor and the flag.
QueryStart(t) ==
    /\ pc[t] = "idle"
    /\ BeginRead(t)
    /\ Goto(t, "query") /\ Starts(t)
    /\ UNCHANGED <<monitor, lockVars, storeWriteLocked, uri, lockVar, calls,
                   wrote>>

QueryEnd(t) ==
    /\ pc[t] = "query"
    /\ StoreUnlock(t)
    /\ Goto(t, "idle")
    /\ UNCHANGED <<monitor, lockVars, storeWriteLocked, uri, lockVar, calls,
                   wrote, overlapped>>

-----------------------------------------------------------------------------
\* The steps of a request that has started.
Progress(t) ==
    \/ LockGranted(t) \/ Unlock(t)
    \/ pc[t] # "idle" /\ LockStore(t)
    \/ UnlockStore(t)
    \/ LockStoreWriteHeld(t) \/ LockStoreWriteEnter(t)
    \/ LockStoreWriteGranted(t)
    \/ QueryEnd(t)

Next ==
    \E t \in Thread :
        \/ \E u \in URI : LockEnter(t, u)
        \/ LockGranted(t) \/ Unlock(t)
        \/ LockStore(t) \/ UnlockStore(t)
        \/ LockStoreWriteHeld(t) \/ LockStoreWriteEnter(t)
        \/ LockStoreWriteGranted(t)
        \/ QueryStart(t) \/ QueryEnd(t)

Spec == Init /\ [][Next]_vars

(***************************************************************************)
(* A started request goes on whenever it can, again and again.  The JVM    *)
(* promises less for contended monitors; what is refuted under this        *)
(* fairness is refuted under any weaker one.                               *)
(***************************************************************************)
FairSpec == Spec /\ \A t \in Thread : SF_vars(Progress(t))

-----------------------------------------------------------------------------
(***************************************************************************)
(* Two requests are never inside a block for the same URI: the lock object *)
(* in the map, the map entry's removal by unlock and the monitor together  *)
(* keep lock(uri) exclusive (StoreBaseImpl.lock, unlock).                  *)
(***************************************************************************)
MutualExclusion ==
    \A s, t \in Thread :
        (InBlock(s) /\ InBlock(t) /\ uri[s] = uri[t]) => s = t

(***************************************************************************)
(* unlock(uri) in a block's `finally' always finds the block's own lock in *)
(* the map, held by the calling thread, so neither of its error cases (no  *)
(* such lock; a lock object another thread holds) ever happens.            *)
(***************************************************************************)
UnlockFindsLock ==
    \A t \in Thread : InBlock(t) =>
        locks[uri[t]] # NoLock /\ owner[locks[uri[t]]] = t

(***************************************************************************)
(* As long as requests are served one after the other, the flag            *)
(* storeWriteLocked tells the truth about the store and nothing stays      *)
(* locked when a request has ended (lockStoreWrite, unlockStore, unlock).  *)
(***************************************************************************)
SerialDiscipline ==
    ~ overlapped =>
        /\ storeWriteLocked <=> writer # NoThread
        /\ (\A t \in Thread : pc[t] = "idle") =>
              /\ writer = NoThread
              /\ \A t \in Thread : reads[t] = 0
              /\ \A u \in URI : locks[u] = NoLock

(***************************************************************************)
(* The inductive invariant behind the three properties of the URI locks.   *)
(* A thread that waits for a lock is inside the monitor, and the lock      *)
(* object lock(uri) waits for is still the one in the map: nobody can run  *)
(* unlock meanwhile.                                                       *)
(***************************************************************************)
WaitingInv ==
    \A t \in Thread :
        /\ pc[t] \in {"locking", "lockWrite"} => monitor = t
        /\ pc[t] # "locking" => lockVar[t] = NoLock
        /\ pc[t] = "locking" =>
              /\ uri[t] \in URI
              /\ lockVar[t] \in LockObj
              /\ locks[uri[t]] = lockVar[t]

\* A block holds the lock object that the map has for its URI.
BlockInv ==
    \A t \in Thread : InBlock(t) =>
        /\ uri[t] \in URI
        /\ locks[uri[t]] \in LockObj
        /\ owner[locks[uri[t]]] = t

\* The map never has one lock object for two URIs.
MapInjective ==
    \A u, v \in URI : (locks[u] = locks[v] /\ locks[u] # NoLock) => u = v

LockInv == WaitingInv /\ BlockInv /\ MapInjective

\* The thread that holds the lock the map has for a URI.
HeldBy == [u \in URI |-> IF locks[u] = NoLock THEN NoThread
                                              ELSE owner[locks[u]]]

\* The promise of StoreAPI, with the locks of the map as its state.
Abstract == INSTANCE UriLock WITH holder <- HeldBy

(***************************************************************************)
(* StoreBaseImpl's lock and unlock implement the lock StoreAPI promises.   *)
(***************************************************************************)
ImplementsUriLock == Abstract!Spec

(***************************************************************************)
(* "Will block until any existing lock is lifted" (StoreAPI.lock): a call  *)
(* of lock(uri) returns.                                                   *)
(***************************************************************************)
LockReturns ==
    \A t \in Thread : (pc[t] = "locking") ~> (pc[t] = "block")

(***************************************************************************)
(* "Attempt to maintain store lock through a registry block operation"     *)
(* (StoreBaseImpl): from its first write to its unlock a block finds the   *)
(* store locked for writing.                                               *)
(***************************************************************************)
BlockKeepsWriteLock ==
    \A t \in Thread : wrote[t] => storeWriteLocked
=============================================================================
