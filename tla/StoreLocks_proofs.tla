------------------------- MODULE StoreLocks_proofs --------------------------
(***************************************************************************)
(* Proofs about the URI locks of StoreBaseImpl, for any set of threads,    *)
(* URIs and lock objects.                                                  *)
(***************************************************************************)
EXTENDS StoreLocks, TLAPS

USE SentinelAssumption, BoundAssumption

(***************************************************************************)
(* Whatever the store's unlock ends, the transactions keep their type.     *)
(***************************************************************************)
LEMMA StoreUnlockType ==
    ASSUME TypeOK, NEW t \in Thread, StoreUnlock(t)
    PROVE  /\ writer' \in Thread \cup {NoThread}
           /\ reads' \in [Thread -> 0 .. MaxReads]
<1>1. CASE reads[t] > 0 /\ reads' = [reads EXCEPT ![t] = @ - 1]
           /\ UNCHANGED writer
  <2>1. reads[t] - 1 \in 0 .. MaxReads
    BY <1>1 DEF TypeOK
  <2>. QED
    BY <1>1, <2>1 DEF TypeOK
<1>2. CASE UNCHANGED reads /\ writer' \in {writer, NoThread}
  BY <1>2 DEF TypeOK
<1>. QED
  BY <1>1, <1>2 DEF StoreUnlock

(***************************************************************************)
(* Every variable of the lock machinery keeps its type.                    *)
(***************************************************************************)
THEOREM TypeCorrect == Spec => []TypeOK
<1>1. Init => TypeOK
  <2>1. 0 \in 0 .. MaxReads /\ 0 \in 0 .. MaxCalls
    OBVIOUS
  <2>2. "idle" \in PC
    BY DEF PC
  <2>. QED
    BY <2>1, <2>2, Zenon DEF Init, TypeOK
<1>2. TypeOK /\ [Next]_vars => TypeOK'
  <2> SUFFICES ASSUME TypeOK, [Next]_vars PROVE TypeOK'
    OBVIOUS
  <2> USE DEF TypeOK, PC, Goto, Starts
  <2>1. ASSUME NEW t \in Thread, NEW u \in URI, LockEnter(t, u)
        PROVE  TypeOK'
    BY <2>1 DEF LockEnter, storeVars
  <2>2. ASSUME NEW t \in Thread, LockGranted(t) PROVE TypeOK'
    BY <2>2 DEF LockGranted, storeVars
  <2>3. ASSUME NEW t \in Thread, Unlock(t) PROVE TypeOK'
    <3>1. storeWriteLocked' \in BOOLEAN /\ writer' \in Thread \cup {NoThread}
          /\ reads' \in [Thread -> 0 .. MaxReads]
      <4>1. CASE StoreUnlock(t) /\ storeWriteLocked' = FALSE
        BY <4>1, StoreUnlockType
      <4>2. CASE UNCHANGED storeVars
        BY <4>2 DEF storeVars
      <4>. QED
        BY <2>3, <4>1, <4>2 DEF Unlock
    <3>2. locks' \in [URI -> LockObj \cup {NoLock}]
          /\ owner' \in [LockObj -> Thread \cup {NoThread}]
      BY <2>3 DEF Unlock
    <3>3. calls' \in [Thread -> 0 .. MaxCalls]
      BY <2>3 DEF Unlock
    <3>. QED
      BY <2>3, <3>1, <3>2, <3>3 DEF Unlock
  <2>4. ASSUME NEW t \in Thread, LockStore(t) PROVE TypeOK'
    <3>1. writer' \in Thread \cup {NoThread}
          /\ reads' \in [Thread -> 0 .. MaxReads]
      BY <2>4 DEF LockStore, BeginRead
    <3>2. calls' \in [Thread -> 0 .. MaxCalls]
      BY <2>4 DEF LockStore
    <3>4. overlapped' \in BOOLEAN
      BY <2>4, Zenon DEF LockStore
    <3>3. pc' \in [Thread -> PC]
      BY <2>4 DEF LockStore
    <3>. QED
      BY <2>4, <3>1, <3>2, <3>3, <3>4 DEF LockStore, lockVars
  <2>5. ASSUME NEW t \in Thread, UnlockStore(t) PROVE TypeOK'
    BY <2>5 DEF UnlockStore, StoreUnlock, lockVars
  <2>6. ASSUME NEW t \in Thread, LockStoreWriteHeld(t) PROVE TypeOK'
    BY <2>6 DEF LockStoreWriteHeld, lockVars, storeVars
  <2>7. ASSUME NEW t \in Thread, LockStoreWriteEnter(t) PROVE TypeOK'
    BY <2>7 DEF LockStoreWriteEnter, lockVars, storeVars
  <2>8. ASSUME NEW t \in Thread, LockStoreWriteGranted(t) PROVE TypeOK'
    BY <2>8 DEF LockStoreWriteGranted, BeginWrite, lockVars
  <2>9. ASSUME NEW t \in Thread, QueryStart(t) PROVE TypeOK'
    BY <2>9 DEF QueryStart, BeginRead, lockVars
  <2>10. ASSUME NEW t \in Thread, QueryEnd(t) PROVE TypeOK'
    BY <2>10 DEF QueryEnd, StoreUnlock, lockVars
  <2>11. CASE UNCHANGED vars
    BY <2>11 DEF vars
  <2>. QED
    BY <2>1, <2>2, <2>3, <2>4, <2>5, <2>6, <2>7, <2>8, <2>9, <2>10, <2>11
    DEF Next
<1>. QED
  BY <1>1, <1>2, PTL DEF Spec

(***************************************************************************)
(* A step that leaves the map, the owners, the URIs and the local          *)
(* variables alone, and moves one thread between points that are all       *)
(* inside or all outside its block, keeps the lock invariant.              *)
(***************************************************************************)
LEMMA OutsideTheLocks ==
    ASSUME TypeOK, LockInv,
           NEW t \in Thread, NEW label \in PC,
           pc[t] # "locking", label # "locking",
           label = "lockWrite" => monitor' = t,
           pc' = [pc EXCEPT ![t] = label],
           InBlock(t)' => InBlock(t),
           MonitorFree \/ monitor' = monitor \/ monitor = t,
           UNCHANGED <<locks, owner, uri, lockVar>>
    PROVE  LockInv'
<1>1. WaitingInv'
  BY DEF TypeOK, LockInv, WaitingInv, MonitorFree, PC
<1>2. BlockInv'
  BY DEF TypeOK, LockInv, BlockInv, InBlock
<1>3. MapInjective'
  BY DEF LockInv, MapInjective
<1>. QED
  BY <1>1, <1>2, <1>3 DEF LockInv

(***************************************************************************)
(* The lock invariant holds in every reachable state: lock.lock() waits    *)
(* inside the monitor, so the map cannot change under it.                  *)
(***************************************************************************)
THEOREM LocksInvariant == Spec => []LockInv
<1>1. Init => LockInv
  BY DEF Init, LockInv, WaitingInv, BlockInv, MapInjective, InBlock
<1>2. TypeOK /\ LockInv /\ [Next]_vars => LockInv'
  <2> SUFFICES ASSUME TypeOK, LockInv, [Next]_vars PROVE LockInv'
    OBVIOUS
  <2> USE DEF TypeOK
  <2>1. ASSUME NEW t \in Thread, NEW u \in URI, LockEnter(t, u)
        PROVE  LockInv'
    <3> USE <2>1 DEF LockEnter, Goto, PC
    <3>1. CASE locks[u] # NoLock
      <4>1. UNCHANGED locks /\ lockVar' = [lockVar EXCEPT ![t] = locks[u]]
        BY <3>1
      <4>2. WaitingInv'
        BY <4>1, <3>1 DEF LockInv, WaitingInv, MonitorFree
      <4>3. BlockInv'
        BY <4>1 DEF LockInv, BlockInv, InBlock
      <4>. QED
        BY <4>1, <4>2, <4>3 DEF LockInv, MapInjective
    <3>2. CASE locks[u] = NoLock
      <4>1. PICK l \in LockObj :
              /\ Fresh(l)
              /\ locks' = [locks EXCEPT ![u] = l]
              /\ lockVar' = [lockVar EXCEPT ![t] = l]
        BY <3>2
      <4>2. WaitingInv'
        BY <4>1 DEF LockInv, WaitingInv, MonitorFree
      <4>3. BlockInv'
        BY <4>1, <3>2 DEF LockInv, BlockInv, InBlock
      <4>4. MapInjective'
        BY <4>1 DEF LockInv, MapInjective, Fresh
      <4>. QED
        BY <4>2, <4>3, <4>4 DEF LockInv
    <3>. QED
      BY <3>1, <3>2
  <2>2. ASSUME NEW t \in Thread, LockGranted(t) PROVE LockInv'
    <3> USE <2>2 DEF LockGranted, Goto, PC
    <3>1. WaitingInv'
      BY DEF LockInv, WaitingInv
    <3>2. BlockInv'
      BY DEF LockInv, WaitingInv, BlockInv, InBlock
    <3>3. MapInjective'
      BY DEF LockInv, MapInjective
    <3>. QED
      BY <3>1, <3>2, <3>3 DEF LockInv
  <2>3. ASSUME NEW t \in Thread, Unlock(t) PROVE LockInv'
    <3> USE <2>3 DEF Unlock, Goto, PC
    <3>0. uri[t] \in URI /\ locks[uri[t]] \in LockObj
      BY DEF LockInv, BlockInv, InBlock
    <3>1. WaitingInv'
      BY <3>0 DEF LockInv, WaitingInv, MonitorFree
    <3>2. BlockInv'
      BY <3>0 DEF LockInv, BlockInv, MapInjective, InBlock
    <3>3. MapInjective'
      BY <3>0 DEF LockInv, MapInjective
    <3>. QED
      BY <3>1, <3>2, <3>3 DEF LockInv
  <2>4. ASSUME NEW t \in Thread, LockStore(t) PROVE LockInv'
    BY <2>4, OutsideTheLocks DEF LockStore, Goto, InBlock, PC, lockVars
  <2>5. ASSUME NEW t \in Thread, UnlockStore(t) PROVE LockInv'
    BY <2>5, OutsideTheLocks DEF UnlockStore, Goto, InBlock, PC, lockVars
  <2>6. ASSUME NEW t \in Thread, LockStoreWriteHeld(t) PROVE LockInv'
    BY <2>6, OutsideTheLocks
    DEF LockStoreWriteHeld, Goto, InBlock, PC, lockVars
  <2>7. ASSUME NEW t \in Thread, LockStoreWriteEnter(t) PROVE LockInv'
    BY <2>7, OutsideTheLocks
    DEF LockStoreWriteEnter, Goto, InBlock, PC, lockVars
  <2>8. ASSUME NEW t \in Thread, LockStoreWriteGranted(t) PROVE LockInv'
    <3>1. monitor = t
      BY <2>8 DEF LockStoreWriteGranted, LockInv, WaitingInv
    <3>. QED
      BY <2>8, <3>1, OutsideTheLocks
      DEF LockStoreWriteGranted, Goto, InBlock, PC, lockVars
  <2>9. ASSUME NEW t \in Thread, QueryStart(t) PROVE LockInv'
    BY <2>9, OutsideTheLocks DEF QueryStart, Goto, InBlock, PC, lockVars
  <2>10. ASSUME NEW t \in Thread, QueryEnd(t) PROVE LockInv'
    BY <2>10, OutsideTheLocks DEF QueryEnd, Goto, InBlock, PC, lockVars
  <2>11. CASE UNCHANGED vars
    BY <2>11
    DEF vars, LockInv, WaitingInv, BlockInv, MapInjective, InBlock
  <2>. QED
    BY <2>1, <2>2, <2>3, <2>4, <2>5, <2>6, <2>7, <2>8, <2>9, <2>10, <2>11
    DEF Next
<1>. QED
  BY <1>1, <1>2, TypeCorrect, PTL DEF Spec

(***************************************************************************)
(* StoreBaseImpl's locks implement StoreAPI's: a URI becomes locked when   *)
(* lock.lock() returns and free when unlock returns, and no other step     *)
(* changes who holds what.                                                 *)
(***************************************************************************)
THEOREM LocksImplement == Spec => ImplementsUriLock
<1>1. Init => Abstract!Init
  BY DEF Init, HeldBy, Abstract!Init
<1>2. TypeOK /\ LockInv /\ [Next]_vars => [Abstract!Next]_HeldBy
  <2> SUFFICES ASSUME TypeOK, LockInv, [Next]_vars
               PROVE  Abstract!Next \/ UNCHANGED HeldBy
    OBVIOUS
  <2>1. ASSUME NEW t \in Thread, NEW u \in URI, LockEnter(t, u)
        PROVE  UNCHANGED HeldBy
    <3>1. CASE UNCHANGED locks
      BY <2>1, <3>1 DEF LockEnter, HeldBy
    <3>2. CASE \E l \in LockObj : Fresh(l) /\ locks' = [locks EXCEPT ![u] = l]
                                 /\ locks[u] = NoLock
      BY <2>1, <3>2 DEF LockEnter, HeldBy, TypeOK, Fresh
    <3>. QED
      BY <2>1, <3>1, <3>2 DEF LockEnter
  <2>2. ASSUME NEW t \in Thread, LockGranted(t) PROVE Abstract!Next
    <3>1. /\ uri[t] \in URI /\ lockVar[t] \in LockObj
          /\ locks[uri[t]] = lockVar[t]
      BY <2>2 DEF LockGranted, LockInv, WaitingInv
    <3>2. HeldBy[uri[t]] = NoThread
      BY <2>2, <3>1 DEF LockGranted, HeldBy
    <3>3. HeldBy' = [HeldBy EXCEPT ![uri[t]] = t]
      BY <2>2, <3>1 DEF LockGranted, HeldBy, TypeOK, LockInv, MapInjective
    <3>. QED
      BY <3>1, <3>2, <3>3 DEF Abstract!Next, Abstract!Acquire
  <2>3. ASSUME NEW t \in Thread, Unlock(t) PROVE Abstract!Next
    <3>1. /\ uri[t] \in URI /\ locks[uri[t]] \in LockObj
          /\ owner[locks[uri[t]]] = t
      BY <2>3 DEF Unlock, LockInv, BlockInv, InBlock
    <3>2. HeldBy[uri[t]] = t
      BY <3>1 DEF HeldBy
    <3>3. HeldBy' = [HeldBy EXCEPT ![uri[t]] = NoThread]
      BY <2>3, <3>1 DEF Unlock, HeldBy, TypeOK, LockInv, MapInjective
    <3>. QED
      BY <3>1, <3>2, <3>3 DEF Abstract!Next, Abstract!Release
  <2>4. ASSUME UNCHANGED lockVars PROVE UNCHANGED HeldBy
    BY <2>4 DEF lockVars, HeldBy
  <2>5. ASSUME NEW t \in Thread,
               \/ LockStore(t) \/ UnlockStore(t)
               \/ LockStoreWriteHeld(t) \/ LockStoreWriteEnter(t)
               \/ LockStoreWriteGranted(t)
               \/ QueryStart(t) \/ QueryEnd(t)
        PROVE  UNCHANGED lockVars
    BY <2>5 DEF LockStore, UnlockStore, LockStoreWriteHeld,
       LockStoreWriteEnter, LockStoreWriteGranted, QueryStart, QueryEnd
  <2>6. CASE UNCHANGED vars
    BY <2>6, <2>4 DEF vars, lockVars
  <2>. QED
    BY <2>1, <2>2, <2>3, <2>4, <2>5, <2>6 DEF Next
<1>. QED
  BY <1>1, <1>2, TypeCorrect, LocksInvariant, PTL
  DEF Spec, ImplementsUriLock, Abstract!Spec

(***************************************************************************)
(* lock(uri) is exclusive per URI.                                         *)
(***************************************************************************)
THEOREM LocksExclusive == Spec => []MutualExclusion
<1>1. LockInv => MutualExclusion
  BY DEF LockInv, BlockInv, MutualExclusion
<1>. QED
  BY <1>1, LocksInvariant, PTL

(***************************************************************************)
(* unlock(uri) never reaches its error cases.                              *)
(***************************************************************************)
THEOREM UnlockSafe == Spec => []UnlockFindsLock
<1>1. LockInv => UnlockFindsLock
  BY DEF LockInv, BlockInv, UnlockFindsLock
<1>. QED
  BY <1>1, LocksInvariant, PTL

(***************************************************************************)
(* Requests served one after the other: at most one has started, only its  *)
(* block can have the write transaction, each read transaction is that of  *)
(* a read in progress, and the map's locks are that request's.             *)
(***************************************************************************)
OneAtATime ==
    \A s, t \in Thread : pc[s] # "idle" /\ pc[t] # "idle" => s = t

WriterInBlock ==
    /\ storeWriteLocked <=> writer # NoThread
    /\ writer # NoThread => pc[writer] \in {"block", "blockRead", "blockWrite"}
    /\ \A t \in Thread : pc[t] = "blockWrite" => storeWriteLocked

Reading(t) == pc[t] \in {"read", "query"} \/ (pc[t] = "blockRead" /\ ~ storeWriteLocked)

ReadsMatched ==
    \A t \in Thread : (Reading(t) => reads[t] = 1) /\ (~ Reading(t) => reads[t] = 0)

LocksWanted ==
    \A u \in URI : locks[u] # NoLock =>
        \E t \in Thread : (pc[t] = "locking" \/ InBlock(t)) /\ uri[t] = u

SerialInv == ~ overlapped => OneAtATime /\ WriterInBlock /\ ReadsMatched /\ LocksWanted

(***************************************************************************)
(* The flag storeWriteLocked, one for all threads, is right as long as     *)
(* requests do not overlap, and every request then gives back what it      *)
(* locked (lockStoreWrite, unlockStore, unlock, query).                    *)
(***************************************************************************)
THEOREM SerialRequests == Spec => []SerialDiscipline
<1>1. Init => SerialInv
  BY DEF Init, SerialInv, OneAtATime, WriterInBlock, Reading, ReadsMatched, LocksWanted
<1>2. TypeOK /\ LockInv /\ SerialInv /\ [Next]_vars => SerialInv'
  <2> SUFFICES ASSUME TypeOK, LockInv, SerialInv, [Next]_vars, ~ overlapped'
               PROVE  (OneAtATime /\ WriterInBlock /\ ReadsMatched /\ LocksWanted)'
    BY DEF SerialInv
  <2> DEFINE Serial == OneAtATime /\ WriterInBlock /\ ReadsMatched /\ LocksWanted
  <2>0. ~ overlapped
    BY DEF Next, vars, Starts, LockEnter, LockGranted, Unlock, LockStore, UnlockStore,
       LockStoreWriteHeld, LockStoreWriteEnter, LockStoreWriteGranted, QueryStart, QueryEnd, TypeOK
  <2>00. OneAtATime /\ WriterInBlock /\ ReadsMatched /\ LocksWanted
    BY <2>0 DEF SerialInv
  <2>a. ASSUME NEW t \in Thread, Starts(t)
        PROVE  \A s \in Thread : s # t => pc[s] = "idle"
    BY <2>a DEF Starts
  <2>b. ASSUME NEW t \in Thread, pc[t] # "idle"
        PROVE  \A s \in Thread : s # t => pc[s] = "idle"
    BY <2>b, <2>00 DEF OneAtATime
  <2>c. ASSUME NEW t \in Thread, \A s \in Thread : s # t => pc[s] = "idle", NEW label, Goto(t, label)
        PROVE  OneAtATime'
    BY <2>c DEF OneAtATime, Goto, TypeOK
  <2>d. ASSUME NEW t \in Thread, \A s \in Thread : s # t => pc[s] = "idle"
        PROVE  writer \in {t, NoThread} /\ \A s \in Thread : s # t => reads[s] = 0
    BY <2>d, <2>00 DEF WriterInBlock, ReadsMatched, Reading, TypeOK
  <2>1. ASSUME NEW t \in Thread, NEW u \in URI, LockEnter(t, u) PROVE Serial'
    <3>1. pc[t] = "idle" /\ \A s \in Thread : pc[s] = "idle"
      BY <2>1, <2>a DEF LockEnter
    <3>2. OneAtATime'
      BY <2>1, <2>c, <3>1 DEF LockEnter
    <3>3. writer = NoThread /\ ~ storeWriteLocked
      BY <2>00, <3>1 DEF WriterInBlock, TypeOK
    <3>4. WriterInBlock' /\ ReadsMatched'
      BY <2>1, <2>00, <3>1, <3>3 DEF LockEnter, Goto, storeVars, WriterInBlock, ReadsMatched, Reading, TypeOK
    <3>5. LocksWanted'
      <4>1. \A v \in URI : locks[v] = NoLock
        BY <2>00, <3>1 DEF LocksWanted, InBlock
      <4>2. \A v \in URI : v # u => locks'[v] = NoLock
        BY <2>1, <4>1 DEF LockEnter, TypeOK
      <4>3. pc'[t] = "locking" /\ uri'[t] = u
        BY <2>1 DEF LockEnter, Goto, TypeOK
      <4>. QED
        BY <4>2, <4>3 DEF LocksWanted, InBlock
    <3>. QED
      BY <3>2, <3>4, <3>5
  <2>2. ASSUME NEW t \in Thread, LockGranted(t) PROVE Serial'
    <3>1. pc[t] = "locking" /\ \A s \in Thread : s # t => pc[s] = "idle"
      BY <2>2, <2>b DEF LockGranted
    <3>2. OneAtATime'
      BY <2>2, <2>c, <3>1 DEF LockGranted
    <3>3. writer = NoThread /\ ~ storeWriteLocked
      BY <2>00, <2>d, <3>1 DEF WriterInBlock
    <3>4. WriterInBlock' /\ ReadsMatched'
      BY <2>2, <2>00, <3>1, <3>3 DEF LockGranted, Goto, storeVars, WriterInBlock, ReadsMatched, Reading, TypeOK
    <3>5. LocksWanted'
      <4>1. \A s \in Thread : pc'[s] = IF s = t THEN "block" ELSE pc[s]
        BY <2>2 DEF LockGranted, Goto, TypeOK
      <4>. QED
        BY <2>2, <2>00, <3>1, <4>1 DEF LockGranted, LocksWanted, InBlock
    <3>. QED
      BY <3>2, <3>4, <3>5
  <2>3. ASSUME NEW t \in Thread, Unlock(t) PROVE Serial'
    <3>1. pc[t] = "block" /\ \A s \in Thread : s # t => pc[s] = "idle"
      BY <2>3, <2>b DEF Unlock
    <3>2. OneAtATime'
      BY <2>3, <2>c, <3>1 DEF Unlock
    <3>3. reads[t] = 0 /\ writer \in {t, NoThread} /\ \A s \in Thread : reads[s] = 0
      BY <2>00, <2>d, <3>1 DEF ReadsMatched, Reading
    <3>4. writer' = NoThread /\ ~ storeWriteLocked' /\ reads' = reads
      <4>1. CASE storeWriteLocked
        <5>1. writer = t
          BY <2>00, <3>3, <4>1 DEF WriterInBlock
        <5>2. StoreUnlock(t) /\ storeWriteLocked' = FALSE
          BY <2>3, <4>1 DEF Unlock
        <5>. QED
          BY <3>3, <5>1, <5>2 DEF StoreUnlock
      <4>2. CASE ~ storeWriteLocked
        BY <2>3, <2>00, <4>2 DEF Unlock, storeVars, WriterInBlock
      <4>. QED
        BY <4>1, <4>2
    <3>5. \A s \in Thread : pc'[s] = "idle"
      BY <2>3, <3>1 DEF Unlock, Goto, TypeOK
    <3>6. WriterInBlock' /\ ReadsMatched'
      BY <3>3, <3>4, <3>5 DEF WriterInBlock, ReadsMatched, Reading
    <3>7. LocksWanted'
      <4>1. \A u \in URI : locks[u] # NoLock => u = uri[t]
        BY <2>00, <3>1 DEF LocksWanted, InBlock
      <4>. QED
        BY <2>3, <4>1 DEF Unlock, LocksWanted, TypeOK
    <3>. QED
      BY <3>2, <3>6, <3>7
  <2>4. ASSUME NEW t \in Thread, LockStore(t) PROVE Serial'
    <3>1. (pc[t] = "idle" \/ pc[t] = "block") /\ \A s \in Thread : s # t => pc[s] = "idle"
      BY <2>4, <2>a, <2>b DEF LockStore
    <3>2. OneAtATime'
      BY <2>4, <2>c, <3>1 DEF LockStore
    <3>3. /\ pc'[t] = IF pc[t] = "idle" THEN "read" ELSE "blockRead"
          /\ \A s \in Thread : s # t => pc'[s] = "idle"
          /\ UNCHANGED <<locks, storeWriteLocked, uri>>
      BY <2>4, <3>1 DEF LockStore, Goto, TypeOK, lockVars
    <3>4. reads[t] = 0 /\ writer \in {t, NoThread} /\ \A s \in Thread : reads[s] = 0
      BY <2>00, <2>d, <3>1 DEF ReadsMatched, Reading
    <3>5. CASE storeWriteLocked
      <4>1. UNCHANGED <<reads, writer>>
        BY <2>4, <3>5 DEF LockStore
      <4>2. writer = t /\ pc[t] = "block"
        BY <2>00, <3>1, <3>4, <3>5 DEF WriterInBlock
      <4>3. WriterInBlock' /\ ReadsMatched'
        BY <3>3, <3>4, <3>5, <4>1, <4>2 DEF WriterInBlock, ReadsMatched, Reading
      <4>4. LocksWanted'
        BY <2>00, <3>1, <3>3 DEF LocksWanted, InBlock
      <4>. QED
        BY <3>2, <4>3, <4>4
    <3>6. CASE ~ storeWriteLocked
      <4>1. reads' = [reads EXCEPT ![t] = @ + 1] /\ writer' = writer
        BY <2>4, <3>6 DEF LockStore, BeginRead
      <4>2. reads'[t] = 1 /\ \A s \in Thread : s # t => reads'[s] = 0
        BY <3>4, <4>1 DEF TypeOK
      <4>3. WriterInBlock' /\ ReadsMatched'
        BY <2>00, <3>3, <3>6, <4>1, <4>2 DEF WriterInBlock, ReadsMatched, Reading
      <4>4. LocksWanted'
        BY <2>00, <3>1, <3>3 DEF LocksWanted, InBlock
      <4>. QED
        BY <3>2, <4>3, <4>4
    <3>. QED
      BY <3>5, <3>6
  <2>5. ASSUME NEW t \in Thread, UnlockStore(t) PROVE Serial'
    <3>1. pc[t] \in {"read", "blockRead", "blockWrite"} /\ \A s \in Thread : s # t => pc[s] = "idle"
      BY <2>5, <2>b DEF UnlockStore
    <3>2. OneAtATime'
      BY <2>5, <2>c, <3>1 DEF UnlockStore
    <3>3. /\ pc'[t] = IF pc[t] = "read" THEN "idle" ELSE "block"
          /\ \A s \in Thread : s # t => pc'[s] = "idle"
          /\ UNCHANGED <<locks, storeWriteLocked, uri>>
      BY <2>5, <3>1 DEF UnlockStore, Goto, TypeOK, lockVars
    <3>4. writer \in {t, NoThread} /\ \A s \in Thread : s # t => reads[s] = 0
      BY <2>d, <3>1
    <3>5. reads'[t] = 0 /\ (\A s \in Thread : s # t => reads'[s] = 0) /\ writer' = writer
      <4>1. CASE storeWriteLocked
        <5>1. pc[t] # "read"
          BY <2>00, <3>4, <4>1 DEF WriterInBlock
        <5>. QED
          BY <2>5, <2>00, <3>1, <3>4, <4>1, <5>1 DEF UnlockStore, ReadsMatched, Reading
      <4>2. CASE ~ storeWriteLocked
        <5>1. reads[t] = 1 /\ writer = NoThread
          BY <2>00, <3>1, <4>2 DEF WriterInBlock, ReadsMatched, Reading
        <5>2. StoreUnlock(t)
          BY <2>5, <4>2 DEF UnlockStore
        <5>3. reads' = [reads EXCEPT ![t] = @ - 1] /\ writer' = writer
          BY <5>1, <5>2 DEF StoreUnlock
        <5>. QED
          BY <3>4, <5>1, <5>3 DEF TypeOK
      <4>. QED
        BY <4>1, <4>2
    <3>6. WriterInBlock'
      BY <2>00, <3>1, <3>3, <3>4, <3>5 DEF WriterInBlock
    <3>7. ReadsMatched'
      BY <3>3, <3>5 DEF ReadsMatched, Reading
    <3>8. LocksWanted'
      <4>1. CASE pc[t] = "read"
        <5>1. \A u \in URI : locks[u] = NoLock
          BY <2>00, <3>1, <4>1 DEF LocksWanted, InBlock
        <5>. QED
          BY <3>3, <5>1 DEF LocksWanted
      <4>2. CASE pc[t] # "read"
        BY <2>00, <3>1, <3>3, <4>2 DEF LocksWanted, InBlock
      <4>. QED
        BY <4>1, <4>2
    <3>. QED
      BY <3>2, <3>6, <3>7, <3>8
  <2>6. ASSUME NEW t \in Thread, LockStoreWriteHeld(t) PROVE Serial'
    <3>1. pc[t] = "block" /\ storeWriteLocked /\ \A s \in Thread : s # t => pc[s] = "idle"
      BY <2>6, <2>b DEF LockStoreWriteHeld
    <3>2. OneAtATime'
      BY <2>6, <2>c, <3>1 DEF LockStoreWriteHeld
    <3>3. /\ pc'[t] = "blockWrite" /\ \A s \in Thread : s # t => pc'[s] = "idle"
          /\ UNCHANGED <<locks, storeWriteLocked, writer, reads, uri>>
      BY <2>6, <3>1 DEF LockStoreWriteHeld, Goto, TypeOK, lockVars, storeVars
    <3>4. WriterInBlock'
      BY <2>00, <2>d, <3>1, <3>3 DEF WriterInBlock
    <3>5. ReadsMatched'
      BY <2>00, <3>1, <3>3 DEF ReadsMatched, Reading
    <3>6. LocksWanted'
      BY <2>00, <3>1, <3>3 DEF LocksWanted, InBlock
    <3>. QED
      BY <3>2, <3>4, <3>5, <3>6
  <2>7. ASSUME NEW t \in Thread, LockStoreWriteEnter(t) PROVE Serial'
    <3>1. pc[t] = "block" /\ ~ storeWriteLocked /\ \A s \in Thread : s # t => pc[s] = "idle"
      BY <2>7, <2>b DEF LockStoreWriteEnter
    <3>2. OneAtATime'
      BY <2>7, <2>c, <3>1 DEF LockStoreWriteEnter
    <3>3. /\ pc'[t] = "lockWrite" /\ \A s \in Thread : s # t => pc'[s] = "idle"
          /\ UNCHANGED <<locks, storeWriteLocked, writer, reads, uri>>
      BY <2>7, <3>1 DEF LockStoreWriteEnter, Goto, TypeOK, lockVars, storeVars
    <3>4. WriterInBlock'
      BY <2>00, <3>1, <3>3 DEF WriterInBlock
    <3>5. ReadsMatched'
      BY <2>00, <3>1, <3>3 DEF ReadsMatched, Reading
    <3>6. LocksWanted'
      BY <2>00, <3>1, <3>3 DEF LocksWanted, InBlock
    <3>. QED
      BY <3>2, <3>4, <3>5, <3>6
  <2>8. ASSUME NEW t \in Thread, LockStoreWriteGranted(t) PROVE Serial'
    <3>1. pc[t] = "lockWrite" /\ \A s \in Thread : s # t => pc[s] = "idle"
      BY <2>8, <2>b DEF LockStoreWriteGranted
    <3>2. OneAtATime'
      BY <2>8, <2>c, <3>1 DEF LockStoreWriteGranted
    <3>3. /\ pc'[t] = "blockWrite" /\ \A s \in Thread : s # t => pc'[s] = "idle"
          /\ UNCHANGED <<locks, reads, uri>>
          /\ writer' = t /\ storeWriteLocked' = TRUE
      BY <2>8, <3>1 DEF LockStoreWriteGranted, BeginWrite, Goto, TypeOK, lockVars
    <3>4. WriterInBlock'
      BY <3>3 DEF WriterInBlock
    <3>5. ReadsMatched'
      BY <2>00, <3>1, <3>3 DEF ReadsMatched, Reading
    <3>6. LocksWanted'
      BY <2>00, <3>1, <3>3 DEF LocksWanted, InBlock
    <3>. QED
      BY <3>2, <3>4, <3>5, <3>6
  <2>9. ASSUME NEW t \in Thread, QueryStart(t) PROVE Serial'
    <3>1. pc[t] = "idle" /\ \A s \in Thread : pc[s] = "idle"
      BY <2>9, <2>a DEF QueryStart
    <3>2. OneAtATime'
      BY <2>9, <2>c, <3>1 DEF QueryStart
    <3>3. /\ pc'[t] = "query" /\ \A s \in Thread : s # t => pc'[s] = "idle"
          /\ UNCHANGED <<locks, storeWriteLocked, writer, uri>>
          /\ reads' = [reads EXCEPT ![t] = @ + 1]
      BY <2>9, <3>1 DEF QueryStart, BeginRead, Goto, TypeOK, lockVars
    <3>4. WriterInBlock'
      BY <2>00, <3>1, <3>3 DEF WriterInBlock, TypeOK
    <3>5. ReadsMatched'
      <4>1. \A s \in Thread : reads[s] = 0
        BY <2>00, <3>1 DEF ReadsMatched, Reading
      <4>2. reads'[t] = 1 /\ \A s \in Thread : s # t => reads'[s] = 0
        BY <3>3, <4>1 DEF TypeOK
      <4>. QED
        BY <3>3, <4>2 DEF ReadsMatched, Reading
    <3>6. LocksWanted'
      BY <2>00, <3>1, <3>3 DEF LocksWanted, InBlock
    <3>. QED
      BY <3>2, <3>4, <3>5, <3>6
  <2>10. ASSUME NEW t \in Thread, QueryEnd(t) PROVE Serial'
    <3>1. pc[t] = "query" /\ \A s \in Thread : s # t => pc[s] = "idle"
      BY <2>10, <2>b DEF QueryEnd
    <3>2. OneAtATime'
      BY <2>10, <2>c, <3>1 DEF QueryEnd
    <3>3. /\ \A s \in Thread : pc'[s] = "idle"
          /\ UNCHANGED <<locks, storeWriteLocked, uri>>
      BY <2>10, <3>1 DEF QueryEnd, Goto, TypeOK, lockVars
    <3>4. reads[t] = 1 /\ writer = NoThread /\ ~ storeWriteLocked /\ \A s \in Thread : s # t => reads[s] = 0
      BY <2>00, <2>d, <3>1 DEF ReadsMatched, Reading, WriterInBlock
    <3>5. reads' = [reads EXCEPT ![t] = @ - 1] /\ writer' = writer
      BY <2>10, <3>4 DEF QueryEnd, StoreUnlock
    <3>6. \A s \in Thread : reads'[s] = 0
      BY <3>4, <3>5 DEF TypeOK
    <3>7. WriterInBlock' /\ ReadsMatched'
      BY <3>3, <3>4, <3>5, <3>6 DEF WriterInBlock, ReadsMatched, Reading
    <3>8. LocksWanted'
      BY <2>00, <3>1, <3>3 DEF LocksWanted, InBlock
    <3>. QED
      BY <3>2, <3>7, <3>8
  <2>11. CASE UNCHANGED vars
    BY <2>11, <2>00 DEF vars, OneAtATime, WriterInBlock, ReadsMatched, Reading, LocksWanted, InBlock
  <2>. QED
    BY <2>1, <2>2, <2>3, <2>4, <2>5, <2>6, <2>7, <2>8, <2>9, <2>10, <2>11 DEF Next
<1>3. TypeOK /\ SerialInv => SerialDiscipline
  BY DEF TypeOK, SerialInv, SerialDiscipline, WriterInBlock, ReadsMatched, Reading, LocksWanted, InBlock
<1>. QED
  BY <1>1, <1>2, <1>3, TypeCorrect, LocksInvariant, PTL DEF Spec
=============================================================================
