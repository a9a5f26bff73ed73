--------------------------- MODULE VersionedStore ---------------------------
(***************************************************************************)
(* The versioned descriptions of register items and registers in the       *)
(* default graph, and the calls of store/StoreBaseImpl.java that read and  *)
(* write them, as operators on a database d:                               *)
(*   d.cur[x]      the number of x's current version, 0 if x is unknown    *)
(*   d.ver[x][n]   what the graph says about version x:n                   *)
(*   d.member      the items with a reg:register link to their register    *)
(*                                                                         *)
(* The graph is a set of triples: writing a version that is already there  *)
(* adds to it.  So every property of a version is a set of values, and so  *)
(* are the beginnings and the ends of its interval.                        *)
(***************************************************************************)
EXTENDS Naturals, FiniteSets, Status

CONSTANTS
    Items,          \* register items
    Regs,           \* registers
    Root,           \* the register that root-register.ttl loads
    Parent,         \* the register an item belongs to
    Entity,         \* the entity an item describes, possibly a register
    Notes,          \* annotations of items and tags of registers
    MaxVersion,     \* versions of one item or register
    MaxTime         \* readings of the clock

ASSUME ShapeAssumption ==
    /\ Items \cap Regs = {}
    /\ Root \in Regs
    /\ Parent \in [Items -> Regs]
    /\ DOMAIN Entity = Items
    /\ \A x \in Items : Entity[x] \notin Items \cup {Root}
    /\ \A x, y \in Items : Entity[x] = Entity[y] => x = y

ASSUME StoreBounds == MaxVersion \in Nat \ {0} /\ MaxTime \in Nat

Things == Items \cup Regs
Nums   == 0 .. MaxVersion
Time   == 0 .. MaxTime

isRegister(x) == Entity[x] \in Regs

\* A description as the store hands it out: properties and owl:versionInfo.
Description ==
    [num : Nums, status : SUBSET Statuses, sub : SUBSET Regs,
     notes : SUBSET Notes]

Version ==
    [status : SUBSET Statuses, sub : SUBSET Regs, notes : SUBSET Notes,
     begins : SUBSET Time, ends : SUBSET Time]

Database ==
    [cur : [Things -> Nums], ver : [Things -> [1 .. MaxVersion -> Version]],
     member : SUBSET Items]

NoVersion ==
    [status |-> {}, sub |-> {}, notes |-> {}, begins |-> {}, ends |-> {}]

Blank == [num |-> 0, status |-> {}, sub |-> {}, notes |-> {}]

(***************************************************************************)
(* The store after root-register.ttl: the root register has versionInfo 1  *)
(* and no interval.                                                        *)
(***************************************************************************)
bootstrap ==
    [cur    |-> [x \in Things |-> IF x = Root THEN 1 ELSE 0],
     ver    |-> [x \in Things |-> [n \in 1 .. MaxVersion |-> NoVersion]],
     member |-> {}]

-----------------------------------------------------------------------------
\* Reads.

\* getDescription(uri) # null, getItem(uri) # null
known(d, x) == d.cur[x] # 0

\* doGetCurrentVersion: the current version flattened onto its root.
currentVersion(d, x) ==
    LET v == d.ver[x][d.cur[x]]
    IN  [num |-> d.cur[x], status |-> v.status, sub |-> v.sub,
         notes |-> v.notes]

\* REGISTER_LIST_QUERY
listMembers(d, r) ==
    {x \in d.member : Parent[x] = r /\ currentVersion(d, x).status # {}}

\* Mutant: a version still counts at the moment it ends.
versionsAt_EndIncluded(d, x, time) ==
    {n \in 1 .. MaxVersion :
        /\ \E start \in d.ver[x][n].begins : start <= time
        /\ ~ \E end \in d.ver[x][n].ends : end < time}

\* The solutions of VERSION_AT_QUERY; getVersionAt takes the first.
versionsAt(d, x, time) ==
    {n \in 1 .. MaxVersion :
        /\ \E start \in d.ver[x][n].begins : start <= time
        /\ ~ \E end \in d.ver[x][n].ends : end <= time}

-----------------------------------------------------------------------------
\* Writes.

\* Mutant: the version that is replaced is not closed.
doUpdate_NotClosed(d, x, s, time) ==
    [d EXCEPT
        !.cur[x] = s.num + 1,
        !.ver[x][s.num + 1] =
            [@ EXCEPT !.status = @ \cup s.status, !.sub = @ \cup s.sub,
                      !.notes = @ \cup s.notes, !.begins = @ \cup {time}]]

\* Mutant: the number is raised after the version's URI has been made.
doUpdate_LateIncrement(d, x, s, time) ==
    [d EXCEPT
        !.cur[x] = s.num + 1,
        !.ver[x][IF s.num = 0 THEN 1 ELSE s.num] =
            [@ EXCEPT !.status = @ \cup s.status, !.sub = @ \cup s.sub,
                      !.notes = @ \cup s.notes, !.begins = @ \cup {time}]]

(***************************************************************************)
(* doUpdate with VersionUtil.nextVersion: description s of x becomes       *)
(* version s.num + 1, which starts at `time' and is made current; version  *)
(* s.num ends then.                                                        *)
(***************************************************************************)
doUpdate(d, x, s, time) ==
    LET next == [d EXCEPT
            !.cur[x] = s.num + 1,
            !.ver[x][s.num + 1] =
                [status |-> @.status \cup s.status,
                 sub    |-> @.sub \cup s.sub,
                 notes  |-> @.notes \cup s.notes,
                 begins |-> @.begins \cup {time},
                 ends   |-> @.ends]]
    IN  IF s.num = 0 THEN next
        ELSE [next EXCEPT !.ver[x][s.num].ends = @ \cup {time}]

(***************************************************************************)
(* The versionInfo values doUpdateRegister leaves on the description:      *)
(* copyProperty adds the store's to the one it already had, and            *)
(* nextVersion reads either.                                               *)
(***************************************************************************)
versionInfos(d, r, s) ==
    IF known(d, r) THEN {s.num, d.cur[r]} \ {0} ELSE {s.num}

\* Mutant: the links to subregisters are not restored.
doUpdateRegister_NoSubregisters(d, r, s, num, time) ==
    doUpdate(d, r, [s EXCEPT !.num = num, !.sub = {}], time)

\* doUpdateRegister, num being the versionInfo that nextVersion reads.
doUpdateRegister(d, r, s, num, time) ==
    LET sub == IF known(d, r) THEN currentVersion(d, r).sub ELSE {}
    IN  doUpdate(d, r, [s EXCEPT !.num = num, !.sub = sub], time)

\* doUpdateItem without its entity: update(item, false).
updateItem(d, x, s, time) == doUpdate(d, x, s, time)

(***************************************************************************)
(* doUpdateItem with its entity: update(item, true).  The entity of a      *)
(* register item is versioned itself; e is its description.                *)
(***************************************************************************)
updateItemAndEntity(d, x, s, e, num, time) ==
    LET item == doUpdate(d, x, s, time)
    IN  IF isRegister(x)
        THEN doUpdateRegister(item, Entity[x], e, num, time)
        ELSE item

(***************************************************************************)
(* addToRegister(register, item): the item, its entity, a new version of   *)
(* the register from the caller's description reg of it, and the links.    *)
(***************************************************************************)
addToRegister(d, reg, x, s, num, time) ==
    LET r       == Parent[x]
        stored  == updateItemAndEntity(d, x, s, Blank, num, time)
        updated == doUpdate(stored, r, reg, time)
        linked  == [updated EXCEPT !.member = @ \cup {x}]
    IN  IF isRegister(x)
        THEN [linked EXCEPT !.ver[r][linked.cur[r]].sub = @ \cup {Entity[x]}]
        ELSE linked
=============================================================================
