------------------------ MODULE CommandsLocked_proofs ------------------------
(***************************************************************************)
(* Theorems about the commands that read what they write under the lock of *)
(* the item, for any number of request threads: registrations, changes of  *)
(* one item's status and annotations.                                      *)
(***************************************************************************)
EXTENDS Commands_proofs, FiniteSetTheorems

\* CommandRegister of single items, CommandStatusUpdate of an item and
\* CommandAnnotate.
LockedOperations == {"Register", "StatusUpdate", "Annotate"}

\* The versions of item x: a chain of versions with one status each, the first
\* of which began once.
InOrder(d, x) ==
    /\ \A n \in 1 .. MaxVersion :
          /\ d.ver[x][n].ends # {} <=> n < d.cur[x]
          /\ n > d.cur[x] => d.ver[x][n] = NoVersion
          /\ n <= d.cur[x] => d.ver[x][n].begins # {}
    /\ \A n \in 1 .. d.cur[x] : \E status : d.ver[x][n].status = {status}
    /\ \E time : d.ver[x][1].begins \subseteq {time}

(***************************************************************************)
(* A request in progress.  A registration that has found no description of *)
(* the item has the register locked, and there is none until it stores it. *)
(* Any other command has the item locked, and what it read of it is still  *)
(* the current version.                                                    *)
(***************************************************************************)
InBlock(t) ==
    LET j == job[t] IN
    /\ pc[t] \in {"idle", "register", "add", "members", "annotate"}
    /\ pc[t] \in {"register", "add"} =>
          /\ j.key \in Regs /\ j.children = {}
          /\ \A x \in j.todo : Parent[x] = j.key
    /\ pc[t] = "add" => holder[j.key] = t /\ ~known(db, j.at)
    /\ pc[t] \in {"members", "annotate"} =>
          /\ j.item \in Items /\ j.key = j.item /\ holder[j.item] = t
          /\ known(db, j.item) /\ j.snap = currentVersion(db, j.item)
    /\ pc[t] = "members" =>
          j.self /\ j.todo = {} /\ j.op = "StatusUpdate" /\ mayBecome(j.snap, j.status, j.force)

LockedInv ==
    /\ \A x \in Items : InOrder(db, x)
    /\ \A t \in Thread : InBlock(t)

\* Item x of database e is item x of d with description s stored next.
Written(d, e, x, s, time) ==
    LET i == doUpdate(d, x, s, time) IN e.cur[x] = i.cur[x] /\ e.ver[x] = i.ver[x]

\* Storing a description with one status as the successor of the current
\* version keeps the versions of an item in order.
LEMMA WrittenInOrder ==
    ASSUME NEW d \in Database, NEW x \in Items, InOrder(d, x),
           NEW s \in Description, s.num = d.cur[x], s.num < MaxVersion,
           NEW status, s.status = {status}, NEW time \in Time,
           NEW e, Written(d, e, x, s, time)
    PROVE  /\ InOrder(e, x)
           /\ e.cur[x] = d.cur[x] + 1
           /\ e.ver[x][e.cur[x]].status = s.status
           /\ e.ver[x][e.cur[x]].notes = s.notes
<1> DEFINE c == d.cur[x]
           k == c + 1
<1>1. c \in Nat /\ MaxVersion \in Nat /\ k \in 1 .. MaxVersion /\ x \in Things
  BY StoreBounds, ItemsAndRegisters DEF Database, Nums
<1>2. Updated(d, doUpdate(d, x, s, time), x, s, time)
  BY <1>1, UpdateFacts
<1>3. /\ e.cur[x] = k
      /\ \A n \in 1 .. MaxVersion :
            n # k => /\ e.ver[x][n].status = d.ver[x][n].status
                     /\ e.ver[x][n].begins = d.ver[x][n].begins
      /\ e.ver[x][k].status = d.ver[x][k].status \cup s.status
      /\ e.ver[x][k].notes = d.ver[x][k].notes \cup s.notes
      /\ e.ver[x][k].begins = d.ver[x][k].begins \cup {time}
      /\ \A n \in 1 .. MaxVersion : n # c => e.ver[x][n].ends = d.ver[x][n].ends
      /\ c # 0 => e.ver[x][c].ends = d.ver[x][c].ends \cup {time}
  BY <1>2 DEF Updated, Succeeds, Written
<1>4. /\ \A n \in 1 .. MaxVersion :
            /\ d.ver[x][n].ends # {} <=> n < c
            /\ n > c => d.ver[x][n] = NoVersion
            /\ n <= c => d.ver[x][n].begins # {}
      /\ \A n \in 1 .. c : \E st : d.ver[x][n].status = {st}
      /\ \E tm : d.ver[x][1].begins \subseteq {tm}
  BY DEF InOrder
<1> HIDE DEF c
<1>5. d.ver[x][k] = NoVersion
  BY <1>1, <1>4
<1>6. /\ e.ver[x][k].status = s.status /\ e.ver[x][k].notes = s.notes
      /\ e.ver[x][k].begins = {time}
  BY <1>3, <1>5 DEF NoVersion
<1>7. ASSUME NEW n \in 1 .. MaxVersion
      PROVE  e.ver[x][n].ends # {} <=> n < k
  <2>1. CASE n = c
    <3>1. c # 0 /\ time \in e.ver[x][c].ends
      BY <1>1, <1>3, <2>1
    <3> QED
      BY <1>1, <2>1, <3>1
  <2>2. CASE n # c
    BY <1>1, <1>3, <1>4, <2>2
  <2> QED
    BY <2>1, <2>2
<1>8. ASSUME NEW n \in 1 .. MaxVersion, n > k
      PROVE  e.ver[x][n] = NoVersion
  <2>1. n # k /\ n # c /\ n > c
    BY <1>1, <1>8
  <2>2. e.ver[x][n] = d.ver[x][n]
    <3>1. doUpdate(d, x, s, time) \in Database
      BY <1>2 DEF Updated
    <3>2. e.ver[x][n] \in Version /\ d.ver[x][n] \in Version
      BY <1>1, <3>1 DEF Database, Written
    <3>3. /\ e.ver[x][n].status = d.ver[x][n].status /\ e.ver[x][n].sub = d.ver[x][n].sub
          /\ e.ver[x][n].notes = d.ver[x][n].notes /\ e.ver[x][n].begins = d.ver[x][n].begins
          /\ e.ver[x][n].ends = d.ver[x][n].ends
      BY <1>2, <2>1 DEF Updated, Succeeds, Written, c
    <3> QED
      BY <3>2, <3>3 DEF Version
  <2> QED
    BY <1>4, <2>1, <2>2
<1>9. ASSUME NEW n \in 1 .. MaxVersion, n <= k
      PROVE  e.ver[x][n].begins # {}
  <2>1. CASE n = k
    BY <1>6, <2>1
  <2>2. CASE n # k
    BY <1>1, <1>3, <1>4, <1>9, <2>2
  <2> QED
    BY <2>1, <2>2
<1>10. ASSUME NEW n \in 1 .. k
       PROVE  \E st : e.ver[x][n].status = {st}
  <2>1. CASE n = k
    BY <1>6, <2>1
  <2>2. CASE n # k
    <3>1. n \in 1 .. MaxVersion /\ n \in 1 .. c
      BY <1>1, <2>2
    <3>2. e.ver[x][n].status = d.ver[x][n].status
      BY <1>3, <2>2, <3>1
    <3> QED
      BY <1>4, <3>1, <3>2
  <2> QED
    BY <2>1, <2>2
<1>11. \E tm : e.ver[x][1].begins \subseteq {tm}
  <2>1. CASE k = 1
    BY <1>6, <2>1
  <2>2. CASE k # 1
    <3>1. e.ver[x][1].begins = d.ver[x][1].begins
      BY <1>1, <1>3, <2>2
    <3> QED
      BY <1>4, <3>1
  <2> QED
    BY <2>1, <2>2
<1>12. InOrder(e, x)
  BY <1>3, <1>7, <1>8, <1>9, <1>10, <1>11 DEF InOrder
<1> QED
  BY <1>3, <1>6, <1>12 DEF c

\* The step leaves item x as it is.
Same(x) == db'.cur[x] = db.cur[x] /\ db'.ver[x] = db.ver[x]

\* Thread t stores a successor of the current version of x that has one
\* status, which may follow the present one, and keeps the annotations.
Rewrites(t, x) ==
    \E s \in Description, time \in Time :
        /\ s.num = db.cur[x] /\ s.num < MaxVersion
        /\ \E status : s.status = {status}
        /\ Written(db, db', x, s, time)
        /\ known(db, x) =>
              /\ currentVersion(db, x).notes \subseteq s.notes
              /\ \A new \in s.status :
                    \/ \E old \in currentVersion(db, x).status : legalNextState(old, new)
                    \/ job[t].force

\* A step of thread t writes one item at most, the one that it has locked or
\* whose register it has locked, and takes no lock from another thread.
LockedMove(t) ==
    /\ \A x \in Items : Same(x) \/ Rewrites(t, x)
    /\ \A x \in Items : Same(x) \/ (pc[t] = "add" /\ x = job[t].at)
                               \/ (pc[t] \in {"members", "annotate"} /\ x = job[t].item)
    /\ \A k \in LockURI, u \in Thread : u # t /\ holder[k] = u => holder'[k] = u
    /\ \A u \in Thread : u # t => pc'[u] = pc[u] /\ job'[u] = job[u]
    /\ InBlock(t)'

\* That is what every step of a registration, a status update of an item and
\* an annotation does (CommandRegister, CommandStatusUpdate, CommandAnnotate).
LEMMA LockedMoves ==
    ASSUME Operations \subseteq LockedOperations, CommandInv, LockedInv,
           NEW t \in Thread, Request(t) \/ Step(t)
    PROVE  LockedMove(t)
<1> USE DescriptionsRead, ItemsAndRegisters
<1> DEFINE j == job[t]
<1>1. /\ StoreInv(db) /\ db \in Database
      /\ holder \in [LockURI -> Thread \cup {NoThread}] /\ NoThread \notin Thread
      /\ pc \in [Thread -> PC] /\ job \in [Thread -> Job]
      /\ j \in Job /\ Prepared(db, pc[t], j) /\ InBlock(t)
      /\ j.snap \in Description /\ j.reg \in Description
  BY CommandAssumption DEF CommandInv, TypeOK, Locks!TypeOK, StoreInv, Sound, Job, LockedInv
<1>0. \A x \in Items :
        /\ currentVersion(db, x).num = db.cur[x]
        /\ currentVersion(db, x).status = db.ver[x][db.cur[x]].status
        /\ currentVersion(db, x).notes = db.ver[x][db.cur[x]].notes
  BY DEF currentVersion
<1>a. ASSUME NEW x \in Items, known(db, x)
      PROVE  \E status : db.ver[x][db.cur[x]].status = {status}
  <2>1. db.cur[x] \in 1 .. db.cur[x]
    BY <1>1, <1>a DEF known, Database, Nums
  <2>2. \A n \in 1 .. db.cur[x] : \E status : db.ver[x][n].status = {status}
    BY DEF LockedInv, InOrder
  <2> QED
    BY <2>1, <2>2
<1>2. UNCHANGED db => \A x \in Items : Same(x)
  BY DEF Same
<1>3. ASSUME NEW p, NEW k, Start(t, p, k)
      PROVE  /\ \A u \in Thread : u # t => pc'[u] = pc[u] /\ job'[u] = job[u]
             /\ pc'[t] = p /\ job'[t] = k /\ k.op \in LockedOperations /\ pc[t] = "idle"
  BY <1>1, <1>3 DEF Start
<1>4. ASSUME Finish(t), pc[t] # "idle"
      PROVE  /\ \A u \in Thread : u # t => pc'[u] = pc[u] /\ job'[u] = job[u]
             /\ InBlock(t)'
             /\ \A k \in LockURI, u \in Thread : u # t /\ holder[k] = u => holder'[k] = u
  <2>1. /\ pc'[t] = "idle"
        /\ \A u \in Thread : u # t => pc'[u] = pc[u] /\ job'[u] = job[u]
    BY <1>1, <1>4 DEF Finish
  <2>2. InBlock(t)'
    BY <2>1 DEF InBlock
  <2>3. holder[j.key] \in {t, NoThread} /\ holder' = [holder EXCEPT ![j.key] = NoThread]
    BY <1>4 DEF Finish
  <2>4. \A k \in LockURI, u \in Thread : u # t /\ holder[k] = u => holder'[k] = u
    BY <1>1, <2>3
  <2> QED
    BY <2>1, <2>2, <2>4
<1>5. ASSUME NEW k \in LockURI, Locks!Acquire(t, k)
      PROVE  /\ \A l \in LockURI, u \in Thread : u # t /\ holder[l] = u => holder'[l] = u
             /\ holder'[k] = t
  BY <1>1, <1>5 DEF Locks!Acquire
<1>6. CASE Request(t)
  <2>1. ASSUME NEW r \in Regs, NEW xs \in SUBSET Items, NEW status \in Offered,
               ValidateRegister(t, r, xs, status)
        PROVE  LockedMove(t)
    <3> DEFINE k == [NoJob EXCEPT !.op = "Register", !.key = r, !.todo = xs,
                       !.reg = currentVersion(db, r), !.status = status]
    <3>1. Start(t, "register", k) /\ UNCHANGED <<db, holder>>
      BY <2>1 DEF ValidateRegister
    <3>2. pc'[t] = "register" /\ job'[t] = k /\ pc[t] = "idle"
          /\ \A u \in Thread : u # t => pc'[u] = pc[u] /\ job'[u] = job[u]
      BY <1>3, <3>1
    <3>3. k.key = r /\ k.children = {} /\ k.todo = xs
      BY DEF NoJob
    <3> HIDE DEF k
    <3>4. InBlock(t)'
      BY <2>1, <3>2, <3>3 DEF InBlock, ValidateRegister
    <3> QED
      BY <1>2, <3>1, <3>2, <3>4 DEF LockedMove
  <2>2. ASSUME NEW x \in Items, NEW status \in Offered, NEW force \in BOOLEAN,
               StatusUpdateItem(t, x, status, force)
        PROVE  LockedMove(t)
    <3> DEFINE k == [NoJob EXCEPT !.op = "StatusUpdate", !.key = x, !.item = x,
                       !.snap = currentVersion(db, x), !.self = TRUE,
                       !.status = status, !.force = force]
    <3>1. Start(t, "members", k) /\ UNCHANGED db /\ Locks!Acquire(t, x) /\ known(db, x)
          /\ mayBecome(currentVersion(db, x), status, force)
      BY <2>2 DEF StatusUpdateItem
    <3>2. pc'[t] = "members" /\ job'[t] = k /\ pc[t] = "idle"
          /\ \A u \in Thread : u # t => pc'[u] = pc[u] /\ job'[u] = job[u]
      BY <1>3, <3>1
    <3>3. k.key = x /\ k.item = x /\ k.todo = {} /\ k.self /\ k.status = status
          /\ k.force = force /\ k.snap = currentVersion(db, x) /\ k.op = "StatusUpdate"
      BY DEF NoJob
    <3> HIDE DEF k
    <3>4. x \in LockURI
      BY DEF LockURI
    <3>5. InBlock(t)'
      BY <1>5, <3>1, <3>2, <3>3, <3>4 DEF InBlock
    <3> QED
      BY <1>2, <1>5, <3>1, <3>2, <3>4, <3>5 DEF LockedMove
  <2>3. ASSUME NEW x \in Items, NEW note \in Notes, Annotate(t, x, note)
        PROVE  LockedMove(t)
    <3> DEFINE k == [NoJob EXCEPT !.op = "Annotate", !.key = x, !.item = x,
                       !.snap = currentVersion(db, x), !.note = note]
    <3>1. Start(t, "annotate", k) /\ UNCHANGED db /\ Locks!Acquire(t, x) /\ known(db, x)
      BY <2>3 DEF Annotate
    <3>2. pc'[t] = "annotate" /\ job'[t] = k /\ pc[t] = "idle"
          /\ \A u \in Thread : u # t => pc'[u] = pc[u] /\ job'[u] = job[u]
      BY <1>3, <3>1
    <3>3. k.key = x /\ k.item = x /\ k.snap = currentVersion(db, x)
      BY DEF NoJob
    <3> HIDE DEF k
    <3>4. x \in LockURI
      BY DEF LockURI
    <3>5. InBlock(t)'
      BY <1>5, <3>1, <3>2, <3>3, <3>4 DEF InBlock
    <3> QED
      BY <1>2, <1>5, <3>1, <3>2, <3>4, <3>5 DEF LockedMove
  <2>4. {"Batch", "RegisterGraph", "Update", "StatusUpdateAll", "Delete", "Tag"}
            \cap Operations = {}
    BY DEF LockedOperations
  <2>5. /\ \A c \in Items, xs \in SUBSET Items, status \in Offered : ~ValidateBatch(t, c, xs, status)
        /\ \A r \in Regs, note \in Notes : ~ValidateTag(t, r, note)
    BY <2>4 DEF ValidateBatch, ValidateTag, NoJob, Start
  <2>6. ASSUME NEW x \in Items
        PROVE  /\ ~ValidateGraph(t, x)
               /\ \A label \in PC, status \in Offered \cup {None}, force \in BOOLEAN :
                     ~ValidateItemUpdate(t, x, label, status, force)
               /\ \A label \in PC : ~ValidateEntityUpdate(t, x, label)
               /\ \A status \in Offered, force \in BOOLEAN : ~StatusUpdateRegister(t, x, status, force)
               /\ \A uri \in LockURI : ~Delete(t, x, uri)
    <3>1. ~ValidateGraph(t, x)
      BY <2>4 DEF ValidateGraph, NoJob, Start
    <3>2. \A label \in PC, status \in Offered \cup {None}, force \in BOOLEAN :
             ~ValidateItemUpdate(t, x, label, status, force)
      BY <2>4 DEF ValidateItemUpdate, NoJob, Start
    <3>3. \A label \in PC : ~ValidateEntityUpdate(t, x, label)
      BY <2>4 DEF ValidateEntityUpdate, NoJob, Start
    <3>4. \A status \in Offered, force \in BOOLEAN : ~StatusUpdateRegister(t, x, status, force)
      BY <2>4 DEF StatusUpdateRegister, NoJob, Start
    <3>5. \A uri \in LockURI : ~Delete(t, x, uri)
      BY <2>4 DEF Delete, NoJob, Start
    <3> QED
      BY <3>1, <3>2, <3>3, <3>4, <3>5
  <2> QED
    BY <1>6, <2>1, <2>2, <2>3, <2>5, <2>6 DEF Request
<1>7. CASE Step(t)
  <2>1. ASSUME NEW x \in Items, RegisterRefused(t, x)
        PROVE  LockedMove(t)
    BY <1>2, <1>4, <2>1 DEF RegisterRefused, LockedMove
  <2>2. ASSUME NEW x \in Items, RegisterCheck(t, x)
        PROVE  LockedMove(t)
    <3>1. pc[t] = "register" /\ UNCHANGED db /\ x \in j.todo /\ ~known(db, x) /\ j.key \in LockURI
      BY <1>1, <2>2 DEF RegisterCheck, Prepared
    <3>2. /\ \A k \in LockURI, u \in Thread : u # t /\ holder[k] = u => holder'[k] = u
          /\ holder'[j.key] = t
      BY <1>5, <2>2, <3>1 DEF RegisterCheck, Locked
    <3>3. /\ pc'[t] = "add" /\ job'[t] = [j EXCEPT !.at = x]
          /\ \A u \in Thread : u # t => pc'[u] = pc[u] /\ job'[u] = job[u]
      BY <1>1, <2>2 DEF RegisterCheck
    <3>4. job'[t].key = j.key /\ job'[t].todo = j.todo /\ job'[t].children = j.children
          /\ job'[t].at = x
      BY <1>1, <3>3 DEF Job
    <3> HIDE DEF j
    <3>5. InBlock(t)'
      BY <1>1, <3>1, <3>2, <3>3, <3>4 DEF InBlock, j
    <3> QED
      BY <1>2, <3>1, <3>2, <3>3, <3>5 DEF LockedMove
  <2>3. CASE RegisterAdd(t)
    <3> DEFINE x == j.at
               s == setStatus(Blank, j.status)
               rest == [j EXCEPT !.todo = @ \ {x}]
    <3>1. pc[t] = "add" /\ x \in Items /\ j.status \in Statuses /\ ~known(db, x)
          /\ Base(db, Parent[x], j.reg.num) /\ j.reg.num < MaxVersion
      BY <1>1, <2>3 DEF RegisterAdd, Prepared, InBlock, Job
    <3>2. s \in Description /\ s.num = 0 /\ s.status = {j.status}
      BY <3>1 DEF setStatus, Description, Blank
    <3> HIDE DEF s
    <3>3. PICK time \in Time, num \in Nums :
            /\ num < MaxVersion
            /\ num \in IF isRegister(x) THEN versionInfos(db, Entity[x], Blank) ELSE {0}
            /\ db' = addToRegister(db, j.reg, x, s, num, time)
      BY <2>3 DEF RegisterAdd, s
    <3>4. isRegister(x) => Base(db, Entity[x], num)
      <4>1. ASSUME isRegister(x)
            PROVE  Base(db, Entity[x], num)
        <5>1. Base(db, Entity[x], Blank.num) /\ Entity[x] \in Regs
          BY <3>1, <4>1 DEF Base
        <5> QED
          BY <1>1, <3>3, <4>1, <5>1, VersionInfosStored DEF StoreInv
      <4> QED
        BY <4>1
    <3>5. \A y \in Items : /\ db'.cur[y] = doUpdate(db, x, s, time).cur[y]
                           /\ db'.ver[y] = doUpdate(db, x, s, time).ver[y]
      <4>1. s.num < MaxVersion /\ Base(db, x, s.num)
        BY <3>2, StoreBounds DEF Base
      <4> QED
        BY <1>1, <3>1, <3>2, <3>3, <3>4, <4>1, AddStored
    <3>6. Updated(db, doUpdate(db, x, s, time), x, s, time)
      BY <1>1, <3>1, <3>2, StoreBounds, UpdateFacts
    <3>7. \A y \in Items : y # x => Same(y)
      <4> DEFINE e == doUpdate(db, x, s, time)
      <4>1. \A y \in Items : db'.cur[y] = e.cur[y] /\ db'.ver[y] = e.ver[y]
        BY <3>5
      <4>2. Updated(db, e, x, s, time)
        BY <3>6
      <4> HIDE DEF e
      <4>3. \A y \in Things : y # x => e.cur[y] = db.cur[y] /\ e.ver[y] = db.ver[y]
        BY <4>2 DEF Updated
      <4>4. Items \subseteq Things
        BY ItemsAndRegisters
      <4> QED
        BY <4>1, <4>3, <4>4 DEF Same
    <3>8. Rewrites(t, x)
      <4>1. s.num = db.cur[x] /\ s.num < MaxVersion
        BY <3>1, <3>2, StoreBounds DEF known
      <4>2. Written(db, db', x, s, time)
        BY <3>1, <3>5 DEF Written
      <4> QED
        BY <3>1, <3>2, <4>1, <4>2 DEF Rewrites
    <3>9. CASE rest.todo # {} /\ Continue(t, "register", rest)
      <4>1. /\ pc'[t] = "register" /\ job'[t] = rest
            /\ \A u \in Thread : u # t => pc'[u] = pc[u] /\ job'[u] = job[u]
            /\ holder' = holder
        BY <1>1, <3>9 DEF Continue
      <4>2. rest.key = j.key /\ rest.children = j.children /\ rest.todo \subseteq j.todo
        BY <1>1 DEF Job
      <4> HIDE DEF rest
      <4>3. InBlock(t)'
        BY <1>1, <3>1, <4>1, <4>2 DEF InBlock
      <4> QED
        BY <3>1, <3>7, <3>8, <4>1, <4>3 DEF LockedMove
    <3>10. CASE Finish(t)
      BY <1>4, <3>1, <3>7, <3>8, <3>10 DEF LockedMove
    <3>11. rest.children = {}
      BY <1>1, <3>1 DEF Job, InBlock
    <3> QED
      BY <2>3, <3>9, <3>10, <3>11 DEF RegisterAdd, AfterAdd
  <2>4. CASE SelfWrite(t)
    <3> DEFINE x == j.item
               s == setStatus(j.snap, j.status)
    <3>1. pc[t] = "members" /\ x \in Items /\ known(db, x) /\ j.snap = currentVersion(db, x)
          /\ j.snap.num < MaxVersion /\ j.status \in Statuses
          /\ mayBecome(j.snap, j.status, j.force)
      BY <1>1, <2>4 DEF SelfWrite, Prepared, InBlock
    <3>2. PICK time \in Time : db' = updateItem(db, x, s, time)
      BY <2>4 DEF SelfWrite
    <3>3. /\ s \in Description /\ s.num = j.snap.num /\ s.status = {j.status}
          /\ s.notes = j.snap.notes
      BY <1>1, <3>1 DEF setStatus, Description
    <3>4. j.snap.num = db.cur[x]
      BY <1>0, <3>1
    <3> HIDE DEF s
    <3>5. Updated(db, db', x, s, time)
      BY <1>1, <3>1, <3>2, <3>3, UpdateFacts DEF updateItem
    <3>6. \A y \in Items : y # x => Same(y)
      BY <3>5 DEF Updated, Same
    <3>7. getStatus(j.snap) = currentVersion(db, x).status
      <4>1. PICK status : db.ver[x][db.cur[x]].status = {status}
        BY <1>a, <3>1
      <4>2. currentVersion(db, x).status # {}
        BY <1>0, <3>1, <4>1
      <4> QED
        BY <3>1, <4>2 DEF getStatus
    <3>8. Rewrites(t, x)
      <4>1. Written(db, db', x, s, time)
        BY <3>2 DEF Written, updateItem
      <4>2. \A new \in s.status :
               \/ \E old \in currentVersion(db, x).status : legalNextState(old, new)
               \/ job[t].force
        BY <3>1, <3>3, <3>7 DEF mayBecome
      <4>3. currentVersion(db, x).notes \subseteq s.notes
        BY <3>1, <3>3
      <4>4. s.num = db.cur[x] /\ s.num < MaxVersion
        BY <3>1, <3>3, <3>4
      <4> QED
        BY <3>3, <4>1, <4>2, <4>3, <4>4 DEF Rewrites
    <3>9. Finish(t)
      BY <2>4 DEF SelfWrite
    <3> QED
      BY <1>4, <3>1, <3>6, <3>8, <3>9 DEF LockedMove
  <2>5. CASE AnnotateWrite(t)
    <3> DEFINE x == j.item
               s == [j.snap EXCEPT !.notes = @ \cup {j.note}]
    <3>1. pc[t] = "annotate" /\ x \in Items /\ known(db, x) /\ j.snap = currentVersion(db, x)
          /\ j.snap.num < MaxVersion /\ j.note \in Notes
      BY <1>1, <2>5 DEF AnnotateWrite, Prepared, InBlock
    <3>2. PICK time \in Time : db' = updateItem(db, x, s, time)
      BY <2>5 DEF AnnotateWrite
    <3>3. /\ s \in Description /\ s.num = j.snap.num /\ s.status = j.snap.status
          /\ j.snap.notes \subseteq s.notes
      BY <1>1, <3>1 DEF Description
    <3>4. j.snap.num = db.cur[x] /\ j.snap.status = db.ver[x][db.cur[x]].status
      BY <1>0, <3>1
    <3> HIDE DEF s
    <3>5. Updated(db, db', x, s, time)
      BY <1>1, <3>1, <3>2, <3>3, UpdateFacts DEF updateItem
    <3>6. \A y \in Items : y # x => Same(y)
      BY <3>5 DEF Updated, Same
    <3>7. \E status : s.status = {status}
      <4>1. PICK status : db.ver[x][db.cur[x]].status = {status}
        BY <1>a, <3>1
      <4>2. s.status = {status}
        BY <3>3, <3>4, <4>1
      <4> QED
        BY <4>2
    <3>8. Rewrites(t, x)
      <4>1. Written(db, db', x, s, time)
        BY <3>2 DEF Written, updateItem
      <4>2. \A new \in s.status :
               \E old \in currentVersion(db, x).status : legalNextState(old, new)
        BY <3>1, <3>3 DEF legalNextState
      <4>3. currentVersion(db, x).notes \subseteq s.notes
        BY <3>1, <3>3
      <4>4. s.num = db.cur[x] /\ s.num < MaxVersion
        BY <3>1, <3>3, <3>4
      <4> QED
        BY <3>3, <3>7, <4>1, <4>2, <4>3, <4>4 DEF Rewrites
    <3>9. Finish(t)
      BY <2>5 DEF AnnotateWrite
    <3> QED
      BY <1>4, <3>1, <3>6, <3>8, <3>9 DEF LockedMove
  <2>6. \A x \in Items : ~MemberRefused(t, x) /\ ~MemberRead(t, x)
    BY <1>1 DEF MemberRefused, MemberRead, InBlock
  <2>7. ~(BatchReread(t) \/ GraphRead(t) \/ GraphUpdate(t) \/ ExecUpdate(t) \/ MemberWrite(t)
          \/ MembersDone(t) \/ ExecTag(t))
    BY <1>1 DEF BatchReread, GraphRead, GraphUpdate, ExecUpdate, MemberWrite, MembersDone,
                ExecTag, InBlock
  <2> QED
    BY <1>7, <2>1, <2>2, <2>3, <2>4, <2>5, <2>6, <2>7 DEF Step
<1> QED
  BY <1>6, <1>7

\* Every step keeps the versions of every item in order, and what a request
\* in progress relies on stays true whatever the other threads do.
LEMMA LockedStep ==
    ASSUME Operations \subseteq LockedOperations, CommandInv, LockedInv, [Next]_vars
    PROVE  LockedInv'
<1> USE ItemsAndRegisters
<1>1. CASE UNCHANGED vars
  <2>1. db' = db /\ pc' = pc /\ job' = job /\ holder' = holder
    BY <1>1 DEF vars
  <2>2. ASSUME NEW x \in Items
        PROVE  InOrder(db, x)'
    <3>1. InOrder(db, x)
      BY DEF LockedInv
    <3> QED
      BY <2>1, <3>1 DEF InOrder
  <2>3. \A t \in Thread : InBlock(t)'
    BY <2>1 DEF LockedInv, InBlock
  <2> QED
    BY <2>2, <2>3 DEF LockedInv
<1>2. ASSUME NEW t \in Thread, Request(t) \/ Step(t)
      PROVE  LockedInv'
  <2>1. LockedMove(t)
    BY <1>2, LockedMoves
  <2>2. db \in Database /\ holder \in [LockURI -> Thread \cup {NoThread}]
    BY DEF CommandInv, TypeOK, Locks!TypeOK
  <2>3. ASSUME NEW x \in Items
        PROVE  InOrder(db, x)'
    <3>1. InOrder(db, x)
      BY DEF LockedInv
    <3>2. CASE Same(x)
      BY <3>1, <3>2 DEF Same, InOrder
    <3>3. CASE Rewrites(t, x)
      <4>1. PICK s \in Description, time \in Time :
              /\ s.num = db.cur[x] /\ s.num < MaxVersion
              /\ \E status : s.status = {status}
              /\ Written(db, db', x, s, time)
        BY <3>3 DEF Rewrites
      <4>2. PICK status : s.status = {status}
        BY <4>1
      <4>3. InOrder(db', x)
        BY <2>2, <3>1, <4>1, <4>2, WrittenInOrder
      <4> QED
        BY <4>3 DEF InOrder
    <3> QED
      BY <2>1, <3>2, <3>3 DEF LockedMove
  <2>4. ASSUME NEW u \in Thread
        PROVE  InBlock(u)'
    <3>1. CASE u = t
      BY <2>1, <3>1 DEF LockedMove
    <3>2. CASE u # t
      <4>1. /\ pc'[u] = pc[u] /\ job'[u] = job[u] /\ InBlock(u) /\ InBlock(t)
            /\ Prepared(db, pc[u], job[u]) /\ Prepared(db, pc[t], job[t])
            /\ \A k \in LockURI : holder[k] = u => holder'[k] = u
        BY <2>1, <3>2 DEF LockedMove, LockedInv, CommandInv
      <4>0. \A v \in Thread : job[v].todo \subseteq Items
        BY DEF CommandInv, TypeOK, Job
      <4>2. ASSUME pc[u] = "add"
            PROVE  holder'[job[u].key] = u /\ ~known(db', job[u].at)
        <5>1. /\ job[u].key \in LockURI /\ job[u].at \in Items /\ holder[job[u].key] = u
              /\ Parent[job[u].at] = job[u].key /\ ~known(db, job[u].at)
          <6>1. /\ job[u].key \in Regs /\ holder[job[u].key] = u /\ ~known(db, job[u].at)
                /\ \A x \in job[u].todo : Parent[x] = job[u].key
            BY <4>1, <4>2 DEF InBlock
          <6>2. job[u].at \in job[u].todo
            BY <4>1, <4>2 DEF Prepared
          <6> QED
            BY <4>0, <6>1, <6>2 DEF LockURI
        <5>2. Same(job[u].at)
          <6>1. ASSUME pc[t] = "add", job[u].at = job[t].at
                PROVE  FALSE
            <7>1. /\ holder[job[t].key] = t /\ Parent[job[t].at] = job[t].key
              <8>1. /\ holder[job[t].key] = t /\ \A x \in job[t].todo : Parent[x] = job[t].key
                BY <4>1, <6>1 DEF InBlock
              <8>2. job[t].at \in job[t].todo
                BY <4>1, <6>1 DEF Prepared
              <8> QED
                BY <8>1, <8>2
            <7> QED
              BY <3>2, <5>1, <6>1, <7>1
          <6>2. ASSUME pc[t] \in {"members", "annotate"}, job[u].at = job[t].item
                PROVE  FALSE
            BY <4>1, <5>1, <6>2 DEF InBlock
          <6> QED
            BY <2>1, <5>1, <6>1, <6>2 DEF LockedMove
        <5> QED
          BY <4>1, <5>1, <5>2 DEF Same, known
      <4>3. ASSUME pc[u] \in {"members", "annotate"}
            PROVE  /\ holder'[job[u].item] = u /\ known(db', job[u].item)
                   /\ job[u].snap = currentVersion(db', job[u].item)
        <5>1. /\ job[u].item \in Items /\ holder[job[u].item] = u /\ known(db, job[u].item)
              /\ job[u].snap = currentVersion(db, job[u].item) /\ job[u].item \in LockURI
          BY <4>1, <4>3 DEF InBlock, LockURI
        <5>2. Same(job[u].item)
          <6>1. ASSUME pc[t] = "add", job[u].item = job[t].at
                PROVE  FALSE
            BY <4>1, <5>1, <6>1 DEF InBlock
          <6>2. ASSUME pc[t] \in {"members", "annotate"}, job[u].item = job[t].item
                PROVE  FALSE
            BY <3>2, <4>1, <5>1, <6>2 DEF InBlock
          <6> QED
            BY <2>1, <5>1, <6>1, <6>2 DEF LockedMove
        <5>3. currentVersion(db', job[u].item) = currentVersion(db, job[u].item)
          BY <5>2 DEF Same, currentVersion
        <5> QED
          BY <4>1, <5>1, <5>2, <5>3 DEF Same, known
      <4> QED
        BY <4>1, <4>2, <4>3 DEF InBlock
    <3> QED
      BY <3>1, <3>2
  <2> QED
    BY <2>3, <2>4 DEF LockedInv
<1> QED
  BY <1>1, <1>2 DEF Next

\* In a registry that serves these commands only, a request still has in hand
\* what it read under its lock when it comes to write it.
THEOREM LockedInvariant ==
    ASSUME Operations \subseteq LockedOperations
    PROVE  Spec => []LockedInv
<1>1. Init => LockedInv
  <2> SUFFICES ASSUME Init
               PROVE  LockedInv
    OBVIOUS
  <2> USE ItemsAndRegisters
  <2>1. ASSUME NEW x \in Items
        PROVE  InOrder(db, x)
    <3>1. /\ db.cur[x] = 0 /\ \A n \in 1 .. MaxVersion : db.ver[x][n] = NoVersion
      BY DEF Init, bootstrap
    <3>2. 1 \in 1 .. MaxVersion
      BY StoreBounds
    <3> QED
      BY <3>1, <3>2 DEF InOrder, NoVersion
  <2>2. \A t \in Thread : InBlock(t)
    BY DEF Init, InBlock
  <2> QED
    BY <2>1, <2>2 DEF LockedInv
<1>2. CommandInv /\ LockedInv /\ [Next]_vars => LockedInv'
  BY LockedStep
<1> QED
  BY <1>1, <1>2, CommandsInvariant, PTL DEF Spec

\* The versions of every item are then a chain without gaps, of which all but
\* the current one have ended, whatever requests run side by side
\* (VersionUtil.nextVersion).
THEOREM ItemVersionsChained ==
    ASSUME Operations \subseteq LockedOperations
    PROVE  Spec => []ItemVersionChain
<1>1. CommandInv /\ LockedInv => ItemVersionChain
  <2> SUFFICES ASSUME CommandInv, LockedInv, NEW x \in Items, NEW n \in 1 .. MaxVersion
               PROVE  /\ db.ver[x][n].ends # {} <=> n < db.cur[x]
                      /\ n > db.cur[x] => db.ver[x][n] = NoVersion
                      /\ ~(n > db.cur[x]) => db.ver[x][n].begins # {}
    BY DEF ItemVersionChain, Chained
  <2>1. db.cur[x] \in Nat /\ MaxVersion \in Nat
    BY StoreBounds, ItemsAndRegisters DEF CommandInv, TypeOK, Database, Nums
  <2>2. ~(n > db.cur[x]) => n <= db.cur[x]
    BY <2>1
  <2> QED
    BY <2>2 DEF LockedInv, InOrder
<1> QED
  BY <1>1, LockedInvariant, CommandsInvariant, PTL

\* Every version of an item then has exactly one status, so that
\* RegisterItem.getStatus has no choice.
THEOREM OneStatusEach ==
    ASSUME Operations \subseteq LockedOperations
    PROVE  Spec => []OneStatusPerVersion
<1>1. LockedInv => OneStatusPerVersion
  <2> SUFFICES ASSUME LockedInv, NEW x \in Items, NEW n \in 1 .. db.cur[x]
               PROVE  Cardinality(db.ver[x][n].status) = 1
    BY DEF OneStatusPerVersion
  <2>1. PICK status : db.ver[x][n].status = {status}
    BY DEF LockedInv, InOrder
  <2> QED
    BY <2>1, FS_Singleton
<1> QED
  BY <1>1, LockedInvariant, PTL

\* Of any number of requests that race to register an item one is successful
\* (CommandRegister.register looks for the item under the register's lock).
THEOREM ItemsRegisteredOnce ==
    ASSUME Operations \subseteq LockedOperations
    PROVE  Spec => []RegisteredOnce
<1>1. LockedInv => RegisteredOnce
  <2> SUFFICES ASSUME LockedInv, NEW x \in Items
               PROVE  Cardinality(db.ver[x][1].begins) <= 1
    BY DEF RegisteredOnce
  <2>1. PICK time : db.ver[x][1].begins \subseteq {time}
    BY DEF LockedInv, InOrder
  <2>2. db.ver[x][1].begins = {} \/ db.ver[x][1].begins = {time}
    BY <2>1
  <2>3. Cardinality({}) = 0 /\ Cardinality({time}) = 1
    BY FS_EmptySet, FS_Singleton
  <2>4. Cardinality(db.ver[x][1].begins) = 0 \/ Cardinality(db.ver[x][1].begins) = 1
    BY <2>2, <2>3
  <2> QED
    BY <2>4
<1> QED
  BY <1>1, LockedInvariant, PTL

\* The version that is current after a step has the annotations of the one
\* before, and a status that may follow or is forced.
LEMMA LockedSuccessor ==
    ASSUME Operations \subseteq LockedOperations, CommandInv, LockedInv, [Next]_vars,
           NEW x \in Items, known(db, x)
    PROVE  /\ currentVersion(db, x).notes \subseteq currentVersion(db', x).notes
           /\ \A new \in currentVersion(db', x).status :
                 \/ \E old \in currentVersion(db, x).status : legalNextState(old, new)
                 \/ \E t \in Thread : job[t].force
<1> USE ItemsAndRegisters
<1>1. ASSUME Same(x)
      PROVE  currentVersion(db', x) = currentVersion(db, x)
  BY <1>1 DEF Same, currentVersion
<1>2. CASE UNCHANGED vars
  <2>1. currentVersion(db', x) = currentVersion(db, x)
    BY <1>2 DEF vars
  <2> QED
    BY <2>1 DEF legalNextState
<1>3. ASSUME NEW t \in Thread, Request(t) \/ Step(t), Same(x) \/ Rewrites(t, x)
      PROVE  /\ currentVersion(db, x).notes \subseteq currentVersion(db', x).notes
             /\ \A new \in currentVersion(db', x).status :
                   \/ \E old \in currentVersion(db, x).status : legalNextState(old, new)
                   \/ job[t].force
  <2>1. CASE Same(x)
    BY <1>1, <2>1 DEF legalNextState
  <2>2. CASE Rewrites(t, x)
    <3>1. PICK s \in Description, time \in Time :
            /\ s.num = db.cur[x] /\ s.num < MaxVersion
            /\ \E status : s.status = {status}
            /\ Written(db, db', x, s, time)
            /\ currentVersion(db, x).notes \subseteq s.notes
            /\ \A new \in s.status :
                  \/ \E old \in currentVersion(db, x).status : legalNextState(old, new)
                  \/ job[t].force
      BY <2>2 DEF Rewrites
    <3>2. PICK status : s.status = {status}
      BY <3>1
    <3>3. db \in Database /\ InOrder(db, x)
      BY DEF CommandInv, TypeOK, LockedInv
    <3>4. db'.ver[x][db'.cur[x]].status = s.status /\ db'.ver[x][db'.cur[x]].notes = s.notes
      BY <3>1, <3>2, <3>3, WrittenInOrder
    <3>5. currentVersion(db', x).status = s.status /\ currentVersion(db', x).notes = s.notes
      BY <3>4 DEF currentVersion
    <3> QED
      BY <3>1, <3>5
  <2> QED
    BY <1>3, <2>1, <2>2
<1>4. ASSUME NEW t \in Thread, Request(t) \/ Step(t)
      PROVE  Same(x) \/ Rewrites(t, x)
  BY <1>4, LockedMoves DEF LockedMove
<1> QED
  BY <1>2, <1>3, <1>4 DEF Next

\* The status of an item only moves along the life cycle then, unless a request
\* forces it (RegisterItem.setStatus): no request applies a check made on a
\* status that another one has changed since.
THEOREM LifecycleFollowed ==
    ASSUME Operations \subseteq LockedOperations
    PROVE  Spec => LegalLifecycle
<1>1. CommandInv /\ LockedInv /\ [Next]_vars =>
        [\A x \in Items :
          known(db, x) =>
             \A new \in currentVersion(db', x).status :
                \/ \E old \in currentVersion(db, x).status :
                      legalNextState(old, new)
                \/ \E t \in Thread : job[t].force]_vars
  BY LockedSuccessor
<1> QED
  BY <1>1, LockedInvariant, CommandsInvariant, PTL DEF Spec, LegalLifecycle

\* And no request takes away an annotation that another one has added since it
\* read the item (CommandAnnotate, CommandStatusUpdate).
THEOREM AnnotationsKept ==
    ASSUME Operations \subseteq LockedOperations
    PROVE  Spec => NotesKept
<1>1. CommandInv /\ LockedInv /\ [Next]_vars =>
        [\A x \in Items :
          known(db, x) =>
             \/ currentVersion(db, x).notes \subseteq
                   currentVersion(db', x).notes
             \/ \E t \in Thread : pc[t] = "put" /\ pc'[t] # "put"]_vars
  BY LockedSuccessor
<1> QED
  BY <1>1, LockedInvariant, CommandsInvariant, PTL DEF Spec, NotesKept
==============================================================================
