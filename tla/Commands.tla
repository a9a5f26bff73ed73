------------------------------ MODULE Commands ------------------------------
(***************************************************************************)
(* The update commands of the registry (commands/Command*.java), each run  *)
(* by a request thread: validate, which may read the store, and doExecute, *)
(* a block lock(uri) ... unlock(uri) of store calls.  One action is one    *)
(* store call, with the code between it and the next one.  The first call  *)
(* of a block takes the lock and the last one gives it back.  A request    *)
(* that is refused before it has written is not modelled: nothing changes. *)
(***************************************************************************)
EXTENDS VersionedStore

CONSTANTS
    Thread, NoThread,   \* request threads
    Operations,         \* the operations that clients use (StatusUpdateAll:
                        \* a StatusUpdate whose target is a register)
    Delegated,          \* items whose entity is of a delegated class
    Offered,            \* the statuses that clients ask for
    None,               \* no item, no register, no lock, no status
    MaxRequests         \* requests served

ASSUME CommandAssumption ==
    /\ NoThread \notin Thread
    /\ Delegated \subseteq Items
    /\ Offered \subseteq Statuses
    /\ None \notin Items \cup Regs \cup Statuses \cup Thread
    /\ \A x \in Items : Entity[x] # None
    /\ MaxRequests \in Nat

LockURI == Items \cup Regs \cup {Entity[x] : x \in Items}

VARIABLES
    db,         \* the default graph
    now,        \* Calendar.getInstance()
    holder,     \* the locks of StoreAPI.lock
    forwards,   \* delegated items with an entry in the forwarding table
    event,      \* the last message sent to the messaging service
    pc,         \* where each thread is
    job,        \* the fields and local variables of each thread's command
    requests    \* requests that have passed validation

vars == <<db, now, holder, forwards, event, pc, job, requests>>

Locks == INSTANCE UriLock WITH URI <- LockURI

(***************************************************************************)
(* The locals of a command: the operation, the URI it locks, its item and  *)
(* the description it read of it, the register description that validate   *)
(* read, the items still to be processed, the one at hand and the          *)
(* description read of it, the children of a batch, the status asked for,  *)
(* whether lifecycle checks are bypassed, whether the command's own item   *)
(* is to be written too, and the payload's annotation or tag.              *)
(***************************************************************************)
Job ==
    [op : Operations \cup {None}, key : LockURI \cup {None},
     item : Items \cup {None}, snap : Description, reg : Description,
     todo : SUBSET Items, at : Items \cup {None}, seen : Description,
     children : SUBSET Items,
     status : Statuses \cup {None}, force : BOOLEAN, self : BOOLEAN,
     note : Notes \cup {None}]

NoJob ==
    [op |-> None, key |-> None, item |-> None, snap |-> Blank, reg |-> Blank,
     todo |-> {}, at |-> None, seen |-> Blank, children |-> {},
     status |-> None, force |-> FALSE, self |-> FALSE, note |-> None]

PC == {"idle", "register", "add", "reread", "graph", "graphUpdate", "put",
       "patch", "putEntity", "patchEntity", "members", "member", "annotate",
       "tag"}

\* A message: the operation, its target and the statuses in its body.  A
\* StatusUpdateAll is announced as a StatusUpdate.
Event == [op : Operations \cup {"StatusUpdate", None},
          target : Things \cup {None}, body : SUBSET Statuses]

TypeOK ==
    /\ db \in Database
    /\ now \in Time
    /\ Locks!TypeOK
    /\ forwards \subseteq Delegated
    /\ event \in Event
    /\ pc \in [Thread -> PC]
    /\ job \in [Thread -> Job]
    /\ requests \in 0 .. MaxRequests

Init ==
    /\ db = bootstrap
    /\ now = 0
    /\ Locks!Init
    /\ forwards = {}
    /\ event = [op |-> None, target |-> None, body |-> {}]
    /\ pc = [t \in Thread |-> "idle"]
    /\ job = [t \in Thread |-> NoJob]
    /\ requests = 0

-----------------------------------------------------------------------------
\* Steps that the commands share.

\* A write reads the clock, which may have advanced since the last write.
Clock(time) == time \in {now, now + 1} /\ time <= MaxTime /\ now' = time

\* Thread t has uri locked, or locks it now.
Locked(t, uri) ==
    \/ holder[uri] = t /\ UNCHANGED holder
    \/ Locks!Acquire(t, uri)

Start(t, label, fields) ==
    /\ pc[t] = "idle"
    /\ fields.op \in Operations
    /\ requests < MaxRequests /\ requests' = requests + 1
    /\ pc' = [pc EXCEPT ![t] = label]
    /\ job' = [job EXCEPT ![t] = fields]

Continue(t, label, fields) ==
    /\ pc' = [pc EXCEPT ![t] = label]
    /\ job' = [job EXCEPT ![t] = fields]
    /\ UNCHANGED holder

\* The block ends with unlock(uri) in its `finally'.  A block of one store
\* call locks and unlocks in this step.
Finish(t) ==
    LET uri == job[t].key IN
    /\ holder[uri] \in {t, NoThread}
    /\ holder' = [holder EXCEPT ![uri] = NoThread]
    /\ pc' = [pc EXCEPT ![t] = "idle"]
    /\ job' = [job EXCEPT ![t] = NoJob]

Notify(op, target, body) ==
    event' = [op |-> op, target |-> target, body |-> body]

\* Mutant: the class of the item is not looked at.
checkDelegation_AnyClass(x, status) ==
    forwards' = IF isAccepted(status) THEN forwards \cup {x}
                ELSE forwards \ {x}

(***************************************************************************)
(* checkDelegation with ForwardingServiceImpl.update: an accepted item is  *)
(* entered in the forwarding table, any other is taken out.                *)
(***************************************************************************)
checkDelegation(x, status) ==
    forwards' = IF x \notin Delegated THEN forwards
                ELSE IF isAccepted(status) THEN forwards \cup {x}
                ELSE forwards \ {x}

\* RegisterItem.getStatus: one of the values, NotAccepted if there is none.
getStatus(s) == IF s.status = {} THEN {"NotAccepted"} ELSE s.status

\* Mutant: the life cycle is not checked.
mayBecome_Any(s, status, force) == TRUE

\* RegisterItem.setStatus and forceStatus find the new status acceptable.
mayBecome(s, status, force) ==
    force \/ \E old \in getStatus(s) : legalNextState(old, status)

\* Mutant: the old status is not removed.
setStatus_Added(s, status) == [s EXCEPT !.status = @ \cup {status}]

\* The description s with its status replaced.
setStatus(s, status) == [s EXCEPT !.status = {status}]

-----------------------------------------------------------------------------
\* CommandRegister

\* validate() of a request to add the items xs to register r.
ValidateRegister(t, r, xs, status) ==
    /\ holder[r] = NoThread
    /\ known(db, r)
    /\ xs # {} /\ \A x \in xs : Parent[x] = r /\ ~ known(db, x)
    /\ Start(t, "register",
             [NoJob EXCEPT !.op = "Register", !.key = r, !.todo = xs,
                           !.reg = currentVersion(db, r), !.status = status])
    /\ UNCHANGED <<db, now, holder, forwards, event>>

\* validate() of a batch: the collection c with its members xs.
ValidateBatch(t, c, xs, status) ==
    LET r == Parent[c] IN
    /\ holder[r] = NoThread
    /\ known(db, r)
    /\ isRegister(c)
    /\ xs # {} /\ \A x \in xs : Parent[x] = Entity[c]
    /\ Start(t, "register",
             [NoJob EXCEPT !.op = "Batch", !.key = r, !.todo = {c},
                           !.reg = currentVersion(db, r), !.status = status,
                           !.children = xs])
    /\ UNCHANGED <<db, now, holder, forwards, event>>

\* register() finds that x is registered already: 403, with the items
\* before x kept.
RegisterRefused(t, x) ==
    /\ pc[t] = "register" /\ x \in job[t].todo
    /\ known(db, x)
    /\ Finish(t)
    /\ UNCHANGED <<db, now, forwards, event>>

\* Mutant: register() does not look for a description of x.
RegisterCheck_Unchecked(t, x) ==
    /\ pc[t] = "register" /\ x \in job[t].todo
    /\ Locked(t, job[t].key)
    /\ pc' = [pc EXCEPT ![t] = "add"]
    /\ job' = [job EXCEPT ![t].at = x]
    /\ UNCHANGED <<db, now, forwards, event>>

\* register() finds no description of x.
RegisterCheck(t, x) ==
    /\ pc[t] = "register" /\ x \in job[t].todo
    /\ ~ known(db, x)
    /\ Locked(t, job[t].key)
    /\ pc' = [pc EXCEPT ![t] = "add"]
    /\ job' = [job EXCEPT ![t].at = x]
    /\ UNCHANGED <<db, now, forwards, event>>

\* What is left for a thread after register() has stored its item.
AfterAdd(t) ==
    LET rest == [job[t] EXCEPT !.todo = @ \ {job[t].at}] IN
    \/ rest.todo # {} /\ Continue(t, "register", rest)
    \/ rest.todo = {} /\ rest.children # {} /\ Continue(t, "reread", rest)
    \/ rest.todo = {} /\ rest.children = {} /\ Finish(t)

\* register() stores the item, with the register as validate() read it.
RegisterAdd(t) ==
    /\ pc[t] = "add"
    /\ LET x == job[t].at
           s == setStatus(Blank, job[t].status)
       IN  /\ job[t].reg.num < MaxVersion
           /\ \E time \in Time, num \in Nums :
                /\ Clock(time)
                /\ num < MaxVersion
                /\ num \in IF isRegister(x)
                           THEN versionInfos(db, Entity[x], Blank) ELSE {0}
                /\ db' = addToRegister(db, job[t].reg, x, s, num, time)
           /\ checkDelegation(x, job[t].status)
           /\ Notify(job[t].op, x, s.status)
    /\ AfterAdd(t)

\* batchRegister() reads the register of the new collection.
BatchReread(t) ==
    /\ pc[t] = "reread"
    /\ LET r == Entity[job[t].at] IN
       Continue(t, "register",
                [job[t] EXCEPT !.reg = currentVersion(db, r),
                               !.todo = job[t].children, !.children = {}])
    /\ UNCHANGED <<db, now, forwards, event>>

-----------------------------------------------------------------------------
\* CommandGraphRegister

\* validate() reads the parent register, without its lock.
ValidateGraph(t, x) ==
    LET r == Parent[x] IN
    /\ known(db, r)
    /\ ~ isRegister(x)
    /\ Start(t, "graph",
             [NoJob EXCEPT !.op = "RegisterGraph", !.key = r, !.item = x,
                           !.reg = currentVersion(db, r),
                           !.status = "Submitted"])
    /\ UNCHANGED <<db, now, holder, forwards, event>>

\* doExecute() looks for the item: this is an update or a registration.
GraphRead(t) ==
    /\ pc[t] = "graph"
    /\ Locks!Acquire(t, job[t].key)
    /\ LET x == job[t].item IN
       \/ /\ known(db, x)
          /\ pc' = [pc EXCEPT ![t] = "graphUpdate"]
          /\ job' = [job EXCEPT ![t].snap = currentVersion(db, x)]
       \/ /\ ~ known(db, x)
          /\ pc' = [pc EXCEPT ![t] = "register"]
          /\ job' = [job EXCEPT ![t].todo = {x}]
    /\ UNCHANGED <<db, now, forwards, event>>

GraphUpdate(t) ==
    /\ pc[t] = "graphUpdate"
    /\ job[t].snap.num < MaxVersion
    /\ \E time \in Time :
         /\ Clock(time)
         /\ db' = updateItemAndEntity(db, job[t].item, job[t].snap, Blank, 0,
                                      time)
    /\ Finish(t)
    /\ UNCHANGED <<forwards, event>>

-----------------------------------------------------------------------------
\* CommandUpdate

(***************************************************************************)
(* validate() of a PUT or PATCH of the item itself reads it, without a     *)
(* lock, and asks for the Force permission if the payload has a status     *)
(* that may not follow the present one.                                    *)
(***************************************************************************)
ValidateItemUpdate(t, x, label, status, force) ==
    /\ label \in {"put", "patch"}
    /\ known(db, x)
    /\ status # None => mayBecome(currentVersion(db, x), status, force)
    /\ Start(t, label,
             [NoJob EXCEPT !.op = "Update", !.key = x, !.item = x,
                           !.snap = currentVersion(db, x),
                           !.status = status, !.force = force])
    /\ UNCHANGED <<db, now, holder, forwards, event>>

\* validate() of a PUT or PATCH of the item's entity reads both.
ValidateEntityUpdate(t, x, label) ==
    /\ label \in {"putEntity", "patchEntity"}
    /\ known(db, x)
    /\ Start(t, label,
             [NoJob EXCEPT !.op = "Update", !.key = x, !.item = x,
                           !.snap = currentVersion(db, x),
                           !.reg = IF isRegister(x)
                                   THEN currentVersion(db, Entity[x])
                                   ELSE Blank])
    /\ UNCHANGED <<db, now, holder, forwards, event>>

\* Mutant: a PATCH of the item replaces all of it too.
UpdatedItems_Replaced(t) ==
    LET s == IF job[t].status = None THEN job[t].snap
             ELSE setStatus(job[t].snap, job[t].status)
    IN  {[s EXCEPT !.notes = {}]}

\* The item as doExecute() stores it.  A PUT of the item drops the
\* annotations its payload does not repeat.
UpdatedItems(t) ==
    LET s == IF job[t].status = None THEN job[t].snap
             ELSE setStatus(job[t].snap, job[t].status)
    IN  IF pc[t] = "put" THEN {s, [s EXCEPT !.notes = {}]} ELSE {s}

\* The register description stored with it.  A PUT takes the payload's,
\* which has no versionInfo.
UpdatedEntities(t) ==
    IF pc[t] = "patchEntity" THEN {job[t].reg}
    ELSE {[Blank EXCEPT !.notes = job[t].reg.notes], Blank}

\* checkDelegation() after a PUT of an entity sees the payload's classes
\* only, and the class that marks a delegated item may be missing.
UpdateDelegation(t, s) ==
    \/ \E status \in getStatus(s) : checkDelegation(job[t].item, status)
    \/ pc[t] \in {"put", "putEntity"} /\ UNCHANGED forwards

\* doExecute() stores what validate() read, changed by the payload, and
\* sends the payload.
ExecUpdate(t) ==
    /\ pc[t] \in {"put", "patch", "putEntity", "patchEntity"}
    /\ job[t].snap.num < MaxVersion
    /\ LET x == job[t].item IN
       \E s \in UpdatedItems(t), time \in Time :
         /\ Clock(time)
         /\ \/ /\ pc[t] = "patch" \/ ~ isRegister(x)
               /\ db' = updateItem(db, x, s, time)
            \/ /\ pc[t] # "patch" /\ isRegister(x)
               /\ \E e \in UpdatedEntities(t) :
                  \E num \in versionInfos(db, Entity[x], e) :
                    /\ num < MaxVersion
                    /\ db' = updateItemAndEntity(db, x, s, e, num, time)
         /\ UpdateDelegation(t, s)
         /\ Notify("Update", x, {job[t].status} \ {None})
    /\ Finish(t)

-----------------------------------------------------------------------------
\* CommandStatusUpdate and CommandDelete

\* Mutant: the entity is locked and not the item.
StatusUpdateItem_EntityLocked(t, x, status, force) ==
    /\ known(db, x)
    /\ mayBecome(currentVersion(db, x), status, force)
    /\ Locks!Acquire(t, Entity[x])
    /\ Start(t, "members",
             [NoJob EXCEPT !.op = "StatusUpdate", !.key = Entity[x],
                           !.item = x, !.snap = currentVersion(db, x),
                           !.self = TRUE, !.status = status, !.force = force])
    /\ UNCHANGED <<db, now, forwards, event>>

\* The status of one item is to change; getItem() reads it.
StatusUpdateItem(t, x, status, force) ==
    /\ known(db, x)
    /\ mayBecome(currentVersion(db, x), status, force)
    /\ Locks!Acquire(t, x)
    /\ Start(t, "members",
             [NoJob EXCEPT !.op = "StatusUpdate", !.key = x, !.item = x,
                           !.snap = currentVersion(db, x), !.self = TRUE,
                           !.status = status, !.force = force])
    /\ UNCHANGED <<db, now, forwards, event>>

\* The status of every member of a register is to change.
StatusUpdateRegister(t, x, status, force) ==
    /\ known(db, x) /\ isRegister(x)
    /\ Locks!Acquire(t, Entity[x])
    /\ Start(t, "members",
             [NoJob EXCEPT !.op = "StatusUpdateAll", !.key = Entity[x],
                           !.item = x, !.todo = listMembers(db, Entity[x]),
                           !.status = status, !.force = force])
    /\ UNCHANGED <<db, now, forwards, event>>

\* An item, or its entity, is to be deleted, with the members it may have.
Delete(t, x, uri) ==
    /\ uri \in {x, Entity[x]}
    /\ known(db, x)
    /\ Locks!Acquire(t, uri)
    /\ Start(t, "members",
             [NoJob EXCEPT !.op = "Delete", !.key = uri, !.item = x,
                           !.snap = currentVersion(db, x), !.self = TRUE,
                           !.todo = IF isRegister(x)
                                    THEN listMembers(db, Entity[x]) ELSE {},
                           !.status = "Invalid"])
    /\ UNCHANGED <<db, now, forwards, event>>

\* getItem() of the next member, whose status may not change: 403, with
\* the members before it changed.
MemberRefused(t, x) ==
    /\ pc[t] = "members" /\ x \in job[t].todo
    /\ \E old \in getStatus(currentVersion(db, x)) :
         ~ legalNextState(old, job[t].status)
    /\ ~ job[t].force
    /\ Finish(t)
    /\ UNCHANGED <<db, now, forwards, event>>

\* getItem() of the next member.
MemberRead(t, x) ==
    /\ pc[t] = "members" /\ x \in job[t].todo
    /\ mayBecome(currentVersion(db, x), job[t].status, job[t].force)
    /\ Continue(t, "member",
                [job[t] EXCEPT !.at = x, !.seen = currentVersion(db, x),
                               !.todo = @ \ {x}])
    /\ UNCHANGED <<db, now, forwards, event>>

\* update() of that member.  A delete does not check its delegation.
MemberWrite(t) ==
    /\ pc[t] = "member"
    /\ job[t].seen.num < MaxVersion
    /\ \E time \in Time :
         /\ Clock(time)
         /\ db' = updateItem(db, job[t].at,
                             setStatus(job[t].seen, job[t].status), time)
    /\ IF job[t].op = "Delete" THEN UNCHANGED forwards
       ELSE checkDelegation(job[t].at, job[t].status)
    /\ Continue(t, "members", [job[t] EXCEPT !.at = None, !.seen = Blank])
    /\ UNCHANGED event

\* update() of the item itself, as it was read before its members.
SelfWrite(t) ==
    /\ pc[t] = "members" /\ job[t].todo = {} /\ job[t].self
    /\ job[t].snap.num < MaxVersion
    /\ \E time \in Time :
         /\ Clock(time)
         /\ db' = updateItem(db, job[t].item,
                             setStatus(job[t].snap, job[t].status), time)
    /\ IF job[t].op = "Delete" THEN UNCHANGED <<forwards, event>>
       ELSE /\ checkDelegation(job[t].item, job[t].status)
            /\ Notify("StatusUpdate", job[t].item, {job[t].status})
    /\ Finish(t)

\* Every member of the register has its new status.
MembersDone(t) ==
    /\ pc[t] = "members" /\ job[t].todo = {} /\ ~ job[t].self
    /\ Notify("StatusUpdate", job[t].key, {job[t].status})
    /\ Finish(t)
    /\ UNCHANGED <<db, now, forwards>>

-----------------------------------------------------------------------------
\* CommandAnnotate: getItem(), then update() with the link to the graph.
Annotate(t, x, note) ==
    /\ known(db, x)
    /\ Locks!Acquire(t, x)
    /\ Start(t, "annotate",
             [NoJob EXCEPT !.op = "Annotate", !.key = x, !.item = x,
                           !.snap = currentVersion(db, x), !.note = note])
    /\ UNCHANGED <<db, now, forwards, event>>

AnnotateWrite(t) ==
    /\ pc[t] = "annotate"
    /\ job[t].snap.num < MaxVersion
    /\ \E time \in Time :
         /\ Clock(time)
         /\ db' = updateItem(db, job[t].item,
                             [job[t].snap EXCEPT !.notes = @ \cup {job[t].note}],
                             time)
    /\ Notify("Annotate", job[t].item, {})
    /\ Finish(t)
    /\ UNCHANGED forwards

\* CommandTag: validate() reads the register, without its lock ...
ValidateTag(t, r, note) ==
    /\ known(db, r)
    /\ Start(t, "tag",
             [NoJob EXCEPT !.op = "Tag", !.key = r,
                           !.reg = currentVersion(db, r), !.note = note])
    /\ UNCHANGED <<db, now, holder, forwards, event>>

\* ... and doExecute() stores it with the link to the tagged collection.
ExecTag(t) ==
    /\ pc[t] = "tag"
    /\ LET r == job[t].key
           s == [job[t].reg EXCEPT !.notes = @ \cup {job[t].note}]
       IN  \E time \in Time, num \in versionInfos(db, r, s) :
             /\ Clock(time)
             /\ num < MaxVersion
             /\ db' = doUpdateRegister(db, r, s, num, time)
    /\ Finish(t)
    /\ UNCHANGED <<forwards, event>>

-----------------------------------------------------------------------------
\* Requests that a client can make of thread t.
Request(t) ==
    \/ \E status \in Offered :
         \/ \E r \in Regs, xs \in SUBSET Items :
              ValidateRegister(t, r, xs, status)
         \/ \E c \in Items, xs \in SUBSET Items :
              ValidateBatch(t, c, xs, status)
    \/ \E x \in Items :
         \/ ValidateGraph(t, x)
         \/ \E label \in PC, status \in Offered \cup {None}, force \in BOOLEAN :
              ValidateItemUpdate(t, x, label, status, force)
         \/ \E label \in PC : ValidateEntityUpdate(t, x, label)
         \/ \E status \in Offered, force \in BOOLEAN :
              \/ StatusUpdateItem(t, x, status, force)
              \/ StatusUpdateRegister(t, x, status, force)
         \/ \E uri \in LockURI : Delete(t, x, uri)
         \/ \E note \in Notes : Annotate(t, x, note)
    \/ \E r \in Regs, note \in Notes : ValidateTag(t, r, note)

\* Steps of a command that has been started.
Step(t) ==
    /\ UNCHANGED requests
    /\ \/ \E x \in Items :
            \/ RegisterRefused(t, x) \/ RegisterCheck(t, x)
            \/ MemberRefused(t, x) \/ MemberRead(t, x)
       \/ RegisterAdd(t) \/ BatchReread(t)
       \/ GraphRead(t) \/ GraphUpdate(t)
       \/ ExecUpdate(t)
       \/ MemberWrite(t) \/ SelfWrite(t) \/ MembersDone(t)
       \/ AnnotateWrite(t)
       \/ ExecTag(t)

Next == \E t \in Thread : Request(t) \/ Step(t)

Spec == Init /\ [][Next]_vars

-----------------------------------------------------------------------------
(***************************************************************************)
(* The versions of an item or register are numbered without gaps up to the *)
(* current one, each has begun once it is stored, each but the current one *)
(* has ended, and nothing is stored beyond the current one                 *)
(* (VersionUtil.nextVersion, StoreBaseImpl.doUpdate).  The root register's *)
(* first version comes from a file and has no beginning.                   *)
(***************************************************************************)
Chained(x) ==
    \A n \in 1 .. MaxVersion :
        LET v == db.ver[x][n] IN
        /\ v.ends # {} <=> n < db.cur[x]
        /\ IF n > db.cur[x] THEN v = NoVersion
           ELSE v.begins # {} \/ (x = Root /\ n = 1)

VersionChain == \A x \in Things : Chained(x)

\* The same of register items only.
ItemVersionChain == \A x \in Items : Chained(x)

(***************************************************************************)
(* StoreAPI.getVersionAt finds one version at most, whatever time it is    *)
(* asked for, and for the present time it finds the current version,       *)
(* whatever writes fell into one tick of the clock.                        *)
(***************************************************************************)
VersionAtEveryTime ==
    \A x \in Things :
        /\ \A time \in 0 .. now : Cardinality(versionsAt(db, x, time)) <= 1
        /\ known(db, x) /\ db.ver[x][db.cur[x]].begins # {} =>
              versionsAt(db, x, now) = {db.cur[x]}

(***************************************************************************)
(* The past is stable: what getVersionAt answers for a time that is over   *)
(* never changes, nor do the status and the annotations of that version.   *)
(***************************************************************************)
HistoryStable ==
    [][\A x \in Things, time \in Time :
          time < now' =>
             /\ versionsAt(db', x, time) = versionsAt(db, x, time)
             /\ \A n \in versionsAt(db, x, time) :
                   /\ db'.ver[x][n].status = db.ver[x][n].status
                   /\ db'.ver[x][n].notes = db.ver[x][n].notes]_vars

(***************************************************************************)
(* Every stored version of an item has exactly one status: RegisterItem    *)
(* .getStatus, which takes any of the values, is well defined.             *)
(***************************************************************************)
OneStatusPerVersion ==
    \A x \in Items : \A n \in 1 .. db.cur[x] :
        Cardinality(db.ver[x][n].status) = 1

(***************************************************************************)
(* The current version of a register links to the registers among its      *)
(* members, and to no others: no update of the register's metadata, no tag *)
(* and no registration of several items loses one of them                  *)
(* (doUpdateRegister, addToRegister).                                      *)
(***************************************************************************)
SubregistersListed ==
    \A r \in Regs : known(db, r) =>
        currentVersion(db, r).sub =
            {Entity[x] : x \in {y \in db.member : Parent[y] = r
                                                 /\ isRegister(y)}}

(***************************************************************************)
(* An item's current status only moves along the life cycle of             *)
(* Status.legalNextState, unless a running request has the Force           *)
(* permission.                                                             *)
(***************************************************************************)
LegalLifecycle ==
    [][\A x \in Items :
          known(db, x) =>
             \A new \in currentVersion(db', x).status :
                \/ \E old \in currentVersion(db, x).status :
                      legalNextState(old, new)
                \/ \E t \in Thread : job[t].force]_vars

(***************************************************************************)
(* Only a PUT drops an annotation of an item from its current version: the *)
(* commands that store what they read keep what others added.              *)
(***************************************************************************)
NotesKept ==
    [][\A x \in Items :
          known(db, x) =>
             \/ currentVersion(db, x).notes \subseteq
                   currentVersion(db', x).notes
             \/ \E t \in Thread : pc[t] = "put" /\ pc'[t] # "put"]_vars

(***************************************************************************)
(* Each version begins when the one before it ends, however the requests   *)
(* interleave (VersionUtil.nextVersion).                                   *)
(***************************************************************************)
IntervalsMeet ==
    \A x \in Things, n \in 1 .. MaxVersion :
        n < MaxVersion => db.ver[x][n].ends = db.ver[x][n + 1].begins

(***************************************************************************)
(* However the requests interleave, the stored versions of an item or      *)
(* register have no gap and the current one is among them: following       *)
(* version:currentVersion and dct:replaces never leads to a version that   *)
(* is not there.                                                           *)
(***************************************************************************)
NoGaps ==
    \A x \in Things :
        LET stored == {n \in 1 .. MaxVersion :
                         db.ver[x][n].begins # {} \/ (x = Root /\ n = 1)}
        IN  /\ \A n \in stored : n = 1 \/ n - 1 \in stored
            /\ known(db, x) => db.cur[x] \in stored

(***************************************************************************)
(* An item is registered once: requests that race for one location get one *)
(* 201 and a 403 (CommandRegister.register).                               *)
(***************************************************************************)
RegisteredOnce ==
    \A x \in Items : Cardinality(db.ver[x][1].begins) <= 1

(***************************************************************************)
(* "If the resource already has an owl:versionInfo marker then the next    *)
(* version number in sequence will be used" (VersionUtil.nextVersion): a   *)
(* write never makes an older version current again.                       *)
(***************************************************************************)
VersionAdvances ==
    [][\A x \in Things : db'.cur[x] >= db.cur[x]]_vars

(***************************************************************************)
(* "For an update ... the payload will be the post-update description of   *)
(* the resource (i.e. after any patch processing)" (Message): the message  *)
(* of an update has the status that the updated item has.                  *)
(***************************************************************************)
UpdateMessageIsPostUpdate ==
    [][(event' # event /\ event'.op = "Update") =>
          event'.body = currentVersion(db', event'.target).status]_vars
=============================================================================
