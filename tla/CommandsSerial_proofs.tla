------------------------ MODULE CommandsSerial_proofs ------------------------
(***************************************************************************)
(* Theorems about every update command of a registry that serves one       *)
(* request after the other.  What they say of the versions of an item or   *)
(* register holds for any items, registers and bounds and for any set of   *)
(* operations.                                                             *)
(***************************************************************************)
EXTENDS Commands_proofs, FiniteSetTheorems

\* Requests are served one after the other.
OneThread == \A t, u \in Thread : t = u

------------------------------------------------------------------------------
(* The history of an item or register *)

(***************************************************************************)
(* The versions of x: a chain in which all but the current version have    *)
(* ended, nothing is beyond the current version, a version begins no       *)
(* earlier than those before it and none begins after the clock.           *)
(***************************************************************************)
Chronicle(d, x, clock) ==
    /\ \A n \in 1 .. MaxVersion :
          /\ d.ver[x][n].ends # {} <=> n < d.cur[x]
          /\ n > d.cur[x] => d.ver[x][n] = NoVersion
          /\ n <= d.cur[x] => d.ver[x][n].begins # {} \/ (x = Root /\ n = 1)
          /\ \A time \in d.ver[x][n].begins : time <= clock
    /\ \A m, n \in 1 .. MaxVersion :
          m < n => \A s \in d.ver[x][m].begins, u \in d.ver[x][n].begins : s <= u

\* Every version of an item has one status.
OneStatus(d) ==
    \A x \in Items : \A n \in 1 .. d.cur[x] :
        \E status \in Statuses : d.ver[x][n].status = {status}

\* The registers among the members of r.
Subregisters(d, r) ==
    {Entity[x] : x \in {y \in d.member : Parent[y] = r /\ isRegister(y)}}

(***************************************************************************)
(* The store between two calls: every history is a chronicle, every        *)
(* version of an item has one status, a register comes into the store with *)
(* its item and is not its own register, the register of a member is       *)
(* there, and the current version of a register links to its subregisters. *)
(***************************************************************************)
Orderly(d, clock) ==
    /\ \A x \in Things : Chronicle(d, x, clock)
    /\ OneStatus(d)
    /\ \A x \in Items : isRegister(x) /\ known(d, Entity[x]) => known(d, x)
    /\ \A x \in Items : known(d, x) => Parent[x] # Entity[x]
    /\ \A x \in d.member : known(d, Parent[x])
    /\ \A r \in Regs : known(d, r) => d.ver[r][d.cur[r]].sub = Subregisters(d, r)

\* The description s of register r is its current version, or the one before
\* it which the current one repeats, apart from links to subregisters: what a
\* registration of several items has in hand (CommandRegister.parent).
Held(d, r, s) ==
    LET v == currentVersion(d, r) IN
    /\ known(d, r)
    /\ \/ s = v
       \/ /\ s.num + 1 = v.num /\ s.status = v.status /\ s.notes = v.notes
          /\ s.sub \subseteq v.sub

(***************************************************************************)
(* What a request in progress has in hand is what is stored, place by      *)
(* place, and it has found the status it will set to be acceptable.        *)
(***************************************************************************)
InHand(d, p, j) ==
    /\ p \in {"register", "add"} =>
          \A x \in j.todo : /\ Held(d, Parent[x], j.reg)
                            /\ \A y \in j.todo : Parent[y] = Parent[x]
    /\ p = "add" => ~known(d, j.at)
    /\ p = "graph" =>
          known(d, Parent[j.item]) /\ j.reg = currentVersion(d, Parent[j.item])
    /\ p \in {"graphUpdate", "put", "patch", "putEntity", "patchEntity", "annotate"} =>
          j.snap = currentVersion(d, j.item)
    /\ p \in {"put", "patch", "putEntity", "patchEntity"} /\ j.status # None =>
          mayBecome(j.snap, j.status, j.force)
    /\ p = "patchEntity" /\ isRegister(j.item) => j.reg = currentVersion(d, Entity[j.item])
    /\ p \in {"members", "member"} /\ j.self =>
          /\ j.snap = currentVersion(d, j.item) /\ j.item \notin j.todo
          /\ mayBecome(j.snap, j.status, j.force)
    /\ p = "member" =>
          /\ j.seen = currentVersion(d, j.at) /\ mayBecome(j.seen, j.status, j.force)
          /\ j.self => j.at # j.item
    /\ p = "tag" => known(d, j.key) /\ j.reg = currentVersion(d, j.key)

SerialInv == Orderly(db, now) /\ \A t \in Thread : InHand(db, pc[t], job[t])

------------------------------------------------------------------------------
(* What a store call does to a history *)

\* Description s is the current version of x, or the one before it which the
\* current version repeats.
Follows(d, x, s) ==
    \/ s.num = d.cur[x]
    \/ /\ s.num + 1 = d.cur[x]
       /\ s.status = d.ver[x][d.cur[x]].status /\ s.notes = d.ver[x][d.cur[x]].notes

\* No earlier version becomes current, what getVersionAt answers for a time
\* before `time' is the same, and so are the status and the annotations of that
\* version.
PastKept(d, e, x, time) ==
    /\ d.cur[x] <= e.cur[x]
    /\ \A past \in Time : past < time =>
          /\ versionsAt(e, x, past) = versionsAt(d, x, past)
          /\ \A n \in versionsAt(d, x, past) :
                /\ e.ver[x][n].status = d.ver[x][n].status
                /\ e.ver[x][n].notes = d.ver[x][n].notes

\* Storing such a description continues the history (VersionUtil.nextVersion):
\* either there is a new version, or the current one begins once more.
LEMMA ChronicleContinued ==
    ASSUME NEW d \in Database, NEW e \in Database, NEW x \in Things,
           NEW clock \in Time, NEW time \in Time, clock <= time,
           Chronicle(d, x, clock), NEW s \in Description, s.num < MaxVersion,
           Follows(d, x, s), Succeeds(d, e, x, s, time)
    PROVE  Chronicle(e, x, time)
<1> DEFINE c == d.cur[x]
           k == s.num + 1
<1>1. /\ MaxVersion \in Nat /\ c \in Nat /\ s.num \in Nat /\ k \in 1 .. MaxVersion
      /\ s.num <= c /\ c <= k
      /\ Time \subseteq Nat /\ time \in Nat
  BY StoreBounds DEF Database, Description, Nums, Follows, Time
<1>2. \A n \in 1 .. MaxVersion :
        /\ d.ver[x][n] \in Version /\ d.ver[x][n].begins \subseteq Time
        /\ e.ver[x][n] \in Version /\ e.ver[x][n].begins \subseteq Time
  <2>1. \A n \in 1 .. MaxVersion : d.ver[x][n] \in Version /\ e.ver[x][n] \in Version
    BY DEF Database
  <2> QED
    BY <2>1 DEF Version
<1>3. /\ e.cur[x] = k
      /\ \A n \in 1 .. MaxVersion :
            n # k => /\ e.ver[x][n].status = d.ver[x][n].status
                     /\ e.ver[x][n].sub = d.ver[x][n].sub
                     /\ e.ver[x][n].notes = d.ver[x][n].notes
                     /\ e.ver[x][n].begins = d.ver[x][n].begins
      /\ e.ver[x][k].begins = d.ver[x][k].begins \cup {time}
      /\ \A n \in 1 .. MaxVersion : n # s.num => e.ver[x][n].ends = d.ver[x][n].ends
      /\ s.num # 0 => e.ver[x][s.num].ends = d.ver[x][s.num].ends \cup {time}
  BY DEF Succeeds
<1>4. /\ \A n \in 1 .. MaxVersion :
            /\ d.ver[x][n].ends # {} <=> n < c
            /\ n > c => d.ver[x][n] = NoVersion
            /\ n <= c => d.ver[x][n].begins # {} \/ (x = Root /\ n = 1)
            /\ \A u \in d.ver[x][n].begins : u <= clock
      /\ \A m, n \in 1 .. MaxVersion :
            m < n => \A u \in d.ver[x][m].begins, v \in d.ver[x][n].begins : u <= v
  BY DEF Chronicle
<1> HIDE DEF c
<1>5. ASSUME NEW n \in 1 .. MaxVersion
      PROVE  e.ver[x][n].ends # {} <=> n < k
  <2>1. CASE n = s.num
    BY <1>1, <1>3, <2>1
  <2>2. CASE n # s.num
    <3>1. n < k <=> n < c
      BY <1>1, <2>2 DEF Follows, c
    <3> QED
      BY <1>3, <1>4, <2>2, <3>1
  <2> QED
    BY <2>1, <2>2
<1>6. ASSUME NEW n \in 1 .. MaxVersion, n > k
      PROVE  e.ver[x][n] = NoVersion
  <2>1. n # k /\ n # s.num /\ n > c
    BY <1>1, <1>6
  <2>2. /\ e.ver[x][n].status = {} /\ e.ver[x][n].sub = {} /\ e.ver[x][n].notes = {}
        /\ e.ver[x][n].begins = {} /\ e.ver[x][n].ends = {}
    BY <1>3, <1>4, <2>1 DEF NoVersion
  <2> QED
    BY <1>2, <2>2 DEF Version, NoVersion
<1>7. ASSUME NEW n \in 1 .. MaxVersion, n <= k
      PROVE  e.ver[x][n].begins # {} \/ (x = Root /\ n = 1)
  <2>1. CASE n = k
    BY <1>3, <2>1
  <2>2. CASE n # k
    <3>1. n <= c
      BY <1>1, <1>7, <2>2
    <3> QED
      BY <1>3, <1>4, <2>2, <3>1
  <2> QED
    BY <2>1, <2>2
<1>8. ASSUME NEW n \in 1 .. MaxVersion, NEW u \in e.ver[x][n].begins
      PROVE  u <= time
  <2>1. CASE u \in d.ver[x][n].begins
    <3>1. u <= clock /\ u \in Time
      BY <1>2, <1>4, <2>1
    <3> QED
      BY <1>1, <3>1
  <2>2. CASE u \notin d.ver[x][n].begins
    <3>1. u = time
      BY <1>3, <1>8, <2>2
    <3> QED
      BY <1>1, <3>1
  <2> QED
    BY <2>1, <2>2
<1>9. ASSUME NEW m \in 1 .. MaxVersion, NEW n \in 1 .. MaxVersion, m < n,
             NEW u \in e.ver[x][m].begins, NEW v \in e.ver[x][n].begins
      PROVE  u <= v
  <2>1. CASE v \in d.ver[x][n].begins
    <3>1. ~(n > c)
      BY <1>4, <2>1 DEF NoVersion
    <3>2. m # k
      BY <1>1, <1>9, <3>1
    <3> QED
      BY <1>3, <1>4, <1>9, <2>1, <3>2
  <2>2. CASE v \notin d.ver[x][n].begins
    <3>1. v = time
      BY <1>3, <1>9, <2>2
    <3> QED
      BY <1>8, <1>9, <3>1
  <2> QED
    BY <2>1, <2>2
<1> QED
  BY <1>3, <1>5, <1>6, <1>7, <1>8, <1>9 DEF Chronicle

\* It does not change the past.
LEMMA PastUnchanged ==
    ASSUME NEW d \in Database, NEW e \in Database, NEW x \in Things,
           NEW clock \in Time, NEW time \in Time,
           Chronicle(d, x, clock), NEW s \in Description, s.num < MaxVersion,
           Follows(d, x, s), Succeeds(d, e, x, s, time)
    PROVE  PastKept(d, e, x, time)
<1> DEFINE k == s.num + 1
<1>1. s.num \in Nat /\ k \in 1 .. MaxVersion /\ d.cur[x] \in Nat /\ Time \subseteq Nat
  BY StoreBounds DEF Database, Description, Nums, Time
<1>2. /\ \A n \in 1 .. MaxVersion :
            n # k => /\ e.ver[x][n].status = d.ver[x][n].status
                     /\ e.ver[x][n].notes = d.ver[x][n].notes
                     /\ e.ver[x][n].begins = d.ver[x][n].begins
      /\ e.ver[x][k].status = d.ver[x][k].status \cup s.status
      /\ e.ver[x][k].notes = d.ver[x][k].notes \cup s.notes
      /\ e.ver[x][k].begins = d.ver[x][k].begins \cup {time}
      /\ \A n \in 1 .. MaxVersion : n # s.num => e.ver[x][n].ends = d.ver[x][n].ends
      /\ s.num # 0 => e.ver[x][s.num].ends = d.ver[x][s.num].ends \cup {time}
  BY DEF Succeeds
<1>0. d.cur[x] <= e.cur[x]
  <2>1. e.cur[x] = s.num + 1
    BY DEF Succeeds
  <2>2. s.num = d.cur[x] \/ s.num + 1 = d.cur[x]
    BY DEF Follows
  <2> QED
    BY <1>1, <2>1, <2>2
<1> SUFFICES ASSUME NEW past \in Time, past < time
             PROVE  /\ versionsAt(e, x, past) = versionsAt(d, x, past)
                    /\ \A n \in versionsAt(d, x, past) :
                          /\ e.ver[x][n].status = d.ver[x][n].status
                          /\ e.ver[x][n].notes = d.ver[x][n].notes
  BY <1>0 DEF PastKept
<1>3. ~(time <= past)
  BY <1>1
<1>4. ASSUME NEW n \in 1 .. MaxVersion
      PROVE  /\ (\E start \in e.ver[x][n].begins : start <= past)
                   <=> (\E start \in d.ver[x][n].begins : start <= past)
             /\ (\E end \in e.ver[x][n].ends : end <= past)
                   <=> (\E end \in d.ver[x][n].ends : end <= past)
  <2>1. e.ver[x][n].begins \in {d.ver[x][n].begins, d.ver[x][n].begins \cup {time}}
    BY <1>2
  <2>2. e.ver[x][n].ends \in {d.ver[x][n].ends, d.ver[x][n].ends \cup {time}}
    BY <1>1, <1>2
  <2> QED
    BY <1>3, <2>1, <2>2
<1>5. versionsAt(e, x, past) = versionsAt(d, x, past)
  BY <1>4 DEF versionsAt
<1>6. ASSUME NEW n \in versionsAt(d, x, past)
      PROVE  /\ e.ver[x][n].status = d.ver[x][n].status
             /\ e.ver[x][n].notes = d.ver[x][n].notes
  <2>1. n \in 1 .. MaxVersion /\ d.ver[x][n].begins # {}
    BY <1>6 DEF versionsAt
  <2>2. CASE n # k
    BY <1>2, <2>1, <2>2
  <2>3. CASE n = k
    <3>1. k # d.cur[x] + 1
      BY <1>1, <2>1, <2>3 DEF Chronicle, NoVersion
    <3>2. k = d.cur[x] /\ s.status = d.ver[x][k].status /\ s.notes = d.ver[x][k].notes
      BY <1>1, <3>1 DEF Follows
    <3> QED
      BY <1>2, <2>3, <3>2
  <2> QED
    BY <2>2, <2>3
<1> QED
  BY <1>5, <1>6

\* In e, description s is stored as the next version of x, whose history it
\* continues.
Writes(d, e, x, s, time) ==
    /\ s \in Description /\ s.num < MaxVersion
    /\ Follows(d, x, s)
    /\ Succeeds(d, e, x, s, time)

\* The current version of x in e is description s; if the current version of d
\* began once more, it may have more links.
Says(d, e, x, s) ==
    /\ e.cur[x] = s.num + 1
    /\ e.ver[x][e.cur[x]].status = s.status
    /\ e.ver[x][e.cur[x]].notes = s.notes
    /\ e.ver[x][e.cur[x]].sub =
          IF s.num = d.cur[x] THEN s.sub ELSE d.ver[x][d.cur[x]].sub \cup s.sub

\* What the new current version of x says.
LEMMA CurrentAfter ==
    ASSUME NEW d \in Database, NEW e, NEW x \in Things, NEW clock, NEW time,
           Chronicle(d, x, clock), NEW s, Writes(d, e, x, s, time)
    PROVE  Says(d, e, x, s)
<1> DEFINE k == s.num + 1
<1>1. s.num \in Nat /\ k \in 1 .. MaxVersion /\ d.cur[x] \in Nat
  BY StoreBounds DEF Database, Description, Nums, Writes
<1>2. /\ e.cur[x] = k
      /\ e.ver[x][k].status = d.ver[x][k].status \cup s.status
      /\ e.ver[x][k].sub = d.ver[x][k].sub \cup s.sub
      /\ e.ver[x][k].notes = d.ver[x][k].notes \cup s.notes
  BY DEF Succeeds, Writes
<1>3. CASE s.num = d.cur[x]
  <2>1. d.ver[x][k] = NoVersion
    BY <1>1, <1>3 DEF Chronicle
  <2> QED
    BY <1>2, <1>3, <2>1 DEF NoVersion, Says
<1>4. CASE s.num # d.cur[x]
  <2>1. k = d.cur[x] /\ s.status = d.ver[x][k].status /\ s.notes = d.ver[x][k].notes
    BY <1>4 DEF Follows, Writes
  <2> QED
    BY <1>2, <1>4, <2>1 DEF Says
<1> QED
  BY <1>3, <1>4

\* The thing x is the same in both databases.
SameAt(d, e, x) == e.cur[x] = d.cur[x] /\ e.ver[x] = d.ver[x]

\* A store call writes what continues a history, and of an item a new version
\* with one status.
Evolves(d, e, time) ==
    /\ e \in Database
    /\ \A x \in Items :
          \/ SameAt(d, e, x)
          \/ \E s : /\ Writes(d, e, x, s, time) /\ s.num = d.cur[x]
                    /\ \E status \in Statuses : s.status = {status}
    /\ \A r \in Regs : SameAt(d, e, r) \/ \E s : Writes(d, e, r, s, time)

\* Such a call leaves chronicles and the past, and items have one status.
LEMMA Evolution ==
    ASSUME NEW d \in Database, NEW e, NEW clock \in Time, NEW time \in Time, clock <= time,
           Orderly(d, clock), Evolves(d, e, time)
    PROVE  /\ \A x \in Things : Chronicle(e, x, time) /\ PastKept(d, e, x, time)
           /\ OneStatus(e)
<1>1. ASSUME NEW x \in Things
      PROVE  Chronicle(e, x, time) /\ PastKept(d, e, x, time)
  <2>1. Chronicle(d, x, clock)
    BY DEF Orderly
  <2>2. CASE SameAt(d, e, x)
    <3>1. \A n \in 1 .. MaxVersion : \A u \in e.ver[x][n].begins : u <= time
      <4>1. Time \subseteq Nat
        BY StoreBounds DEF Time
      <4>2. \A n \in 1 .. MaxVersion : d.ver[x][n] \in Version
        BY DEF Database
      <4>3. \A n \in 1 .. MaxVersion : \A u \in d.ver[x][n].begins : u \in Nat /\ u <= clock
        BY <2>1, <4>1, <4>2 DEF Chronicle, Version
      <4> QED
        BY <2>2, <4>1, <4>3 DEF SameAt
    <3>2. d.cur[x] <= d.cur[x]
      BY DEF Database, Nums
    <3> QED
      BY <2>1, <2>2, <3>1, <3>2 DEF SameAt, Chronicle, PastKept, versionsAt
  <2>3. CASE \E s : Writes(d, e, x, s, time)
    <3>1. PICK s : Writes(d, e, x, s, time)
      BY <2>3
    <3> QED
      BY <2>1, <3>1, ChronicleContinued, PastUnchanged DEF Writes, Evolves
  <2> QED
    BY <2>2, <2>3 DEF Evolves, Things
<1>2. ASSUME NEW x \in Items, NEW n \in 1 .. e.cur[x]
      PROVE  \E status \in Statuses : e.ver[x][n].status = {status}
  <2>0. \A m \in 1 .. d.cur[x] : \E status \in Statuses : d.ver[x][m].status = {status}
    BY DEF Orderly, OneStatus
  <2>1. CASE SameAt(d, e, x)
    BY <2>0, <2>1 DEF SameAt
  <2>2. ASSUME NEW s, Writes(d, e, x, s, time), s.num = d.cur[x],
               NEW status \in Statuses, s.status = {status}
        PROVE  \E st \in Statuses : e.ver[x][n].status = {st}
    <3>1. /\ d.cur[x] \in Nat /\ MaxVersion \in Nat /\ s.num < MaxVersion
          /\ e.cur[x] = d.cur[x] + 1 /\ x \in Things /\ Chronicle(d, x, clock)
      BY <2>2, StoreBounds, ItemsAndRegisters DEF Writes, Succeeds, Database, Nums, Orderly
    <3>2. CASE n = e.cur[x]
      <4>1. Says(d, e, x, s)
        BY <2>2, <3>1, CurrentAfter
      <4> QED
        BY <2>2, <3>2, <4>1 DEF Says
    <3>3. CASE n # e.cur[x]
      <4>1. n \in 1 .. d.cur[x] /\ n \in 1 .. MaxVersion /\ n # s.num + 1
        BY <2>2, <3>1, <3>3
      <4>2. e.ver[x][n].status = d.ver[x][n].status
        BY <2>2, <4>1 DEF Writes, Succeeds
      <4> QED
        BY <2>0, <4>1, <4>2
    <3> QED
      BY <3>2, <3>3
  <2> QED
    BY <2>1, <2>2 DEF Evolves
<1> QED
  BY <1>1, <1>2 DEF OneStatus

\* A call that stores nothing for the first time leaves the store orderly if
\* the registers keep their links.
LEMMA UpdateOrderly ==
    ASSUME NEW d \in Database, NEW e, NEW clock \in Time, NEW time \in Time, clock <= time,
           Orderly(d, clock), Evolves(d, e, time), e.member = d.member,
           \A x \in Things : known(e, x) <=> known(d, x),
           \A r \in Regs : known(d, r) => e.ver[r][e.cur[r]].sub = d.ver[r][d.cur[r]].sub
    PROVE  Orderly(e, time)
<1>1. /\ \A x \in Things : Chronicle(e, x, time) /\ PastKept(d, e, x, time)
      /\ OneStatus(e)
  BY Evolution
<1>2. \A x \in Items : isRegister(x) /\ known(e, Entity[x]) => known(e, x)
  BY ItemsAndRegisters DEF Orderly
<1>3. \A x \in Items : known(e, x) => Parent[x] # Entity[x]
  BY ItemsAndRegisters DEF Orderly
<1>4. \A x \in e.member : known(e, Parent[x])
  BY ItemsAndRegisters DEF Orderly, Database
<1>5. \A r \in Regs : known(e, r) => e.ver[r][e.cur[r]].sub = Subregisters(e, r)
  <2>1. \A r : Subregisters(e, r) = Subregisters(d, r)
    BY DEF Subregisters
  <2> QED
    BY <2>1, ItemsAndRegisters DEF Orderly
<1> QED
  BY <1>1, <1>2, <1>3, <1>4, <1>5 DEF Orderly

\* A description that follows the current version may be stored, in databases
\* that are the same at x.
LEMMA SucceedsBetween ==
    ASSUME NEW a, NEW d, NEW e, NEW f, NEW x, NEW s, NEW time,
           SameAt(a, d, x), Succeeds(d, e, x, s, time), SameAt(e, f, x)
    PROVE  Succeeds(a, f, x, s, time)
  BY DEF SameAt, Succeeds

\* doUpdateItem without the entity, of the current version of item x.
LEMMA ItemCall ==
    ASSUME NEW d \in Database, NEW clock \in Time, NEW time \in Time, clock <= time,
           Orderly(d, clock), NEW x \in Items, known(d, x),
           NEW s \in Description, s.num = d.cur[x], s.num < MaxVersion,
           NEW status \in Statuses, s.status = {status},
           NEW e, e = updateItem(d, x, s, time)
    PROVE  /\ Orderly(e, time)
           /\ \A y \in Things : PastKept(d, e, y, time) /\ (y # x => SameAt(d, e, y))
           /\ e.ver[x][e.cur[x]].status = s.status
           /\ e.ver[x][e.cur[x]].notes = s.notes
<1> USE ItemsAndRegisters
<1>1. Updated(d, e, x, s, time)
  BY UpdateFacts DEF updateItem
<1>2. /\ Writes(d, e, x, s, time) /\ e \in Database /\ e.member = d.member
      /\ \A y \in Things : y # x => SameAt(d, e, y)
  BY <1>1 DEF Updated, Writes, Follows, SameAt
<1>3. Evolves(d, e, time)
  BY <1>2 DEF Evolves
<1>4. \A y \in Things : known(e, y) <=> known(d, y)
  <2>1. e.cur[x] = s.num + 1
    BY <1>1 DEF Updated, Succeeds
  <2>2. s.num \in Nat
    BY DEF Description, Nums
  <2>3. known(e, x)
    BY <2>1, <2>2 DEF known
  <2>4. \A y \in Things : y # x => (known(e, y) <=> known(d, y))
    BY <1>2 DEF SameAt, known
  <2> QED
    BY <2>3, <2>4
<1>5. \A r \in Regs : known(d, r) => e.ver[r][e.cur[r]].sub = d.ver[r][d.cur[r]].sub
  BY <1>2 DEF SameAt
<1>6. Orderly(e, time)
  BY <1>2, <1>3, <1>4, <1>5, UpdateOrderly
<1>7. \A y \in Things : PastKept(d, e, y, time)
  BY <1>3, Evolution
<1>8. Says(d, e, x, s)
  BY <1>2, CurrentAfter DEF Orderly
<1> QED
  BY <1>2, <1>6, <1>7, <1>8 DEF Says

\* doUpdateRegister of a register that is in the store, with its current
\* versionInfo.
LEMMA RegisterCall ==
    ASSUME NEW d \in Database, Sound(d), NEW clock \in Time, NEW time \in Time,
           clock <= time, Orderly(d, clock), NEW r \in Regs, known(d, r),
           NEW s \in Description, d.cur[r] < MaxVersion,
           NEW e, e = doUpdateRegister(d, r, s, d.cur[r], time)
    PROVE  /\ Orderly(e, time)
           /\ \A y \in Things : PastKept(d, e, y, time) /\ (y # r => SameAt(d, e, y))
           /\ Writes(d, e, r, Restored(d, r, s, d.cur[r]), time)
           /\ e.ver[r][e.cur[r]].sub = d.ver[r][d.cur[r]].sub
           /\ e \in Database /\ e.member = d.member /\ known(e, r)
<1> USE ItemsAndRegisters
<1> DEFINE u == Restored(d, r, s, d.cur[r])
<1>1. d.cur[r] \in Nums /\ Base(d, r, d.cur[r]) /\ Chronicle(d, r, clock)
  BY DEF Sound, Gapless, Base, Database, Orderly
<1>2. /\ e \in Database /\ e.member = d.member /\ known(e, r)
      /\ \A y \in Things : y # r => SameAt(d, e, y)
      /\ u \in Description /\ Succeeds(d, e, r, u, time)
  BY <1>1, UpdateRegisterSound DEF Sound, SameAt
<1>3. u.num = d.cur[r] /\ u.sub = d.ver[r][d.cur[r]].sub
  <2>1. u = [s EXCEPT !.num = d.cur[r], !.sub = d.ver[r][d.cur[r]].sub]
    BY DEF Restored, currentVersion
  <2> HIDE DEF u
  <2> QED
    BY <2>1 DEF Description
<1> HIDE DEF u
<1>4. Writes(d, e, r, u, time)
  BY <1>2, <1>3 DEF Writes, Follows
<1>5. Evolves(d, e, time)
  BY <1>2, <1>4 DEF Evolves
<1>6. e.ver[r][e.cur[r]].sub = d.ver[r][d.cur[r]].sub
  <2>1. Says(d, e, r, u)
    BY <1>1, <1>4, CurrentAfter
  <2> QED
    BY <1>3, <2>1 DEF Says
<1>7. \A y \in Things : known(e, y) <=> known(d, y)
  BY <1>2 DEF SameAt, known
<1>8. \A q \in Regs : known(d, q) => e.ver[q][e.cur[q]].sub = d.ver[q][d.cur[q]].sub
  BY <1>2, <1>6 DEF SameAt
<1>9. Orderly(e, time)
  <2>1. e.member = d.member
    BY <1>2
  <2> QED
    BY <1>5, <1>7, <1>8, <2>1, UpdateOrderly, SMTT(30)
<1>10. \A y \in Things : PastKept(d, e, y, time)
  BY <1>5, Evolution
<1> QED
  BY <1>2, <1>4, <1>6, <1>9, <1>10 DEF u

\* Of the items only x is another in e, and it has the status and the
\* annotations of s.
Replaces(d, e, x, s) ==
    /\ \A y \in Items : y # x => SameAt(d, e, y)
    /\ e.ver[x][e.cur[x]].status = s.status
    /\ e.ver[x][e.cur[x]].notes = s.notes

\* Two calls that keep the past keep it together.
LEMMA PastKeptTwice ==
    ASSUME NEW d \in Database, NEW e \in Database, NEW f \in Database, NEW x \in Things,
           NEW time, PastKept(d, e, x, time), PastKept(e, f, x, time)
    PROVE  PastKept(d, f, x, time)
<1>1. d.cur[x] <= f.cur[x]
  BY DEF PastKept, Database, Nums
<1> QED
  BY <1>1 DEF PastKept

\* doUpdateItem with the entity, of an item whose entity is a register.
LEMMA ItemAndEntityCall ==
    ASSUME NEW d \in Database, StoreInv(d), NEW clock \in Time, NEW time \in Time,
           clock <= time, Orderly(d, clock), NEW x \in Items, known(d, x), isRegister(x),
           NEW s \in Description, s.num = d.cur[x], s.num < MaxVersion,
           NEW status \in Statuses, s.status = {status},
           NEW en \in Description, d.cur[Entity[x]] < MaxVersion,
           NEW e, e = updateItemAndEntity(d, x, s, en, d.cur[Entity[x]], time)
    PROVE  /\ Orderly(e, time)
           /\ \A y \in Things : PastKept(d, e, y, time)
           /\ Replaces(d, e, x, s)
<1> USE ItemsAndRegisters
<1> DEFINE i == updateItem(d, x, s, time)
           r == Entity[x]
<1>1. r \in Regs /\ known(d, r) /\ r # x /\ \A y \in Items : y # r
  BY DEF StoreInv
<1>2. Base(d, x, s.num)
  BY DEF StoreInv, Sound, Gapless, Base
<1>3. Sound(i) /\ i \in Database
  BY <1>2, ItemStored DEF StoreInv, Sound
<1>4. e = doUpdateRegister(i, r, en, d.cur[r], time)
  BY DEF updateItemAndEntity, updateItem
<1> HIDE DEF i, r
<1>5. /\ Orderly(i, time)
      /\ \A y \in Things : PastKept(d, i, y, time) /\ (y # x => SameAt(d, i, y))
      /\ i.ver[x][i.cur[x]].status = s.status
      /\ i.ver[x][i.cur[x]].notes = s.notes
  BY ItemCall DEF i
<1>6. known(i, r) /\ i.cur[r] = d.cur[r] /\ i.cur[r] < MaxVersion
  BY <1>1, <1>5 DEF SameAt, known, r
<1>7. time <= time
  BY StoreBounds DEF Time
<1>8. /\ Orderly(e, time) /\ e \in Database
      /\ \A y \in Things : PastKept(i, e, y, time) /\ (y # r => SameAt(i, e, y))
  BY <1>1, <1>3, <1>4, <1>5, <1>6, <1>7, RegisterCall
<1>9. \A y \in Things : PastKept(d, e, y, time)
  BY <1>3, <1>5, <1>8, PastKeptTwice
<1>10. \A y \in Items : y # x => SameAt(d, e, y)
  BY <1>1, <1>5, <1>8 DEF SameAt
<1>11. SameAt(i, e, x)
  BY <1>1, <1>8
<1> QED
  BY <1>5, <1>8, <1>9, <1>10, <1>11 DEF SameAt, Replaces

\* addToRegister of an item that is not in the store, thing by thing: the item,
\* its entity if that is a register, and the item's register with the new link.
LEMMA AddSucceeds ==
    ASSUME NEW d \in Database, NEW x \in Items, NEW s \in Description, s.num < MaxVersion,
           NEW reg \in Description, reg.num < MaxVersion,
           isRegister(x) => ~known(d, Entity[x]) /\ Entity[x] # Parent[x],
           NEW time \in Time, NEW e, e = addToRegister(d, reg, x, s, 0, time)
    PROVE  /\ e \in Database /\ e.member = d.member \cup {x}
           /\ Succeeds(d, e, x, s, time)
           /\ isRegister(x) => Succeeds(d, e, Entity[x], Blank, time)
           /\ Succeeds(d, e, Parent[x], [reg EXCEPT !.sub = @ \cup NewLinks(x)], time)
           /\ \A y \in Things : y \notin {x, Parent[x]} /\ (isRegister(x) => y # Entity[x])
                 => SameAt(d, e, y)
<1> USE ItemsAndRegisters
<1> DEFINE i == doUpdate(d, x, s, time)
           r == Parent[x]
           n == Entity[x]
           a == updateItemAndEntity(d, x, s, Blank, 0, time)
           b == doUpdate(a, r, reg, time)
           l == [b EXCEPT !.member = @ \cup {x}]
           link == [reg EXCEPT !.sub = @ \cup NewLinks(x)]
<1>1. /\ r \in Regs /\ r \in Things /\ x \in Things /\ x # r /\ x # n
      /\ isRegister(x) => n \in Regs /\ n \in Things /\ n # r
  OBVIOUS
<1>2. Blank \in Description /\ Blank.num = 0 /\ 0 < MaxVersion
  BY StoreBounds, DescriptionsRead
<1>3. Updated(d, i, x, s, time)
  BY <1>1, UpdateFacts
<1>4. ASSUME isRegister(x)
      PROVE  Updated(i, a, n, Blank, time)
  <2>1. ~known(i, n)
    BY <1>1, <1>3, <1>4 DEF Updated, known
  <2>2. a = doUpdate(i, n, [Blank EXCEPT !.num = 0, !.sub = {}], time)
    BY <1>4, <2>1 DEF updateItemAndEntity, doUpdateRegister
  <2>3. [Blank EXCEPT !.num = 0, !.sub = {}] = Blank
    <3>1. Blank.num = 0 /\ Blank.sub = {}
      BY DEF Blank
    <3> QED
      BY <1>2, <3>1 DEF Description
  <2> HIDE DEF a, i, n
  <2>4. i \in Database
    BY <1>3 DEF Updated
  <2> QED
    BY <1>1, <1>2, <1>4, <2>2, <2>3, <2>4, UpdateFacts
<1>5. ~isRegister(x) => a = i
  BY DEF updateItemAndEntity
<1> HIDE DEF i, n, a
<1>6. /\ a \in Database /\ a.member = d.member
      /\ SameAt(i, a, x) /\ SameAt(d, a, r)
      /\ \A y \in Things : y # x /\ (isRegister(x) => y # n) => SameAt(d, a, y)
  <2>1. i \in Database /\ i.member = d.member /\ \A y \in Things : y # x => SameAt(d, i, y)
    BY <1>3 DEF Updated, SameAt
  <2>2. CASE isRegister(x)
    <3>1. a \in Database /\ a.member = i.member /\ \A y \in Things : y # n => SameAt(i, a, y)
      BY <1>4, <2>2 DEF Updated, SameAt
    <3> QED
      BY <1>1, <2>1, <2>2, <3>1 DEF SameAt
  <2>3. CASE ~isRegister(x)
    BY <1>1, <1>5, <2>1, <2>3 DEF SameAt
  <2> QED
    BY <2>2, <2>3
<1>7. Updated(a, b, r, reg, time)
  BY <1>1, <1>6, UpdateFacts
<1>8. /\ b \in Database /\ b.member = d.member /\ known(b, r) /\ b.cur[r] = reg.num + 1
      /\ \A y \in Things : y # r => SameAt(a, b, y)
  <2>1. reg.num \in Nat
    BY DEF Description, Nums
  <2>2. /\ b \in Database /\ b.member = a.member
        /\ \A y \in Things : y # r => SameAt(a, b, y)
    BY <1>7 DEF Updated, SameAt
  <2>3. b.cur[r] = reg.num + 1
    BY <1>7 DEF Updated, Succeeds
  <2>4. known(b, r)
    BY <2>1, <2>3 DEF known
  <2> QED
    BY <1>6, <2>2, <2>3, <2>4
<1> HIDE DEF b
<1>9. Linked(b, e, x, r)
  <2>1. \/ ~isRegister(x) /\ e = l
        \/ isRegister(x) /\ e = [l EXCEPT !.ver[r][l.cur[r]].sub = @ \cup {Entity[x]}]
    BY DEF addToRegister, a, b
  <2>2. l = [b EXCEPT !.member = @ \cup {x}]
    OBVIOUS
  <2> HIDE DEF l, r
  <2> QED
    BY <1>1, <1>8, <2>1, <2>2, LinksKeep
<1>10. /\ e \in Database /\ e.member = d.member \cup {x}
       /\ \A y \in Things : y # r => SameAt(b, e, y)
  BY <1>8, <1>9 DEF Linked, SameAt
<1>11. Succeeds(d, e, x, s, time)
  <2>1. SameAt(i, e, x) /\ SameAt(d, d, x)
    BY <1>1, <1>6, <1>8, <1>10 DEF SameAt
  <2> QED
    BY <1>3, <2>1, SucceedsBetween DEF Updated
<1>12. isRegister(x) => Succeeds(d, e, n, Blank, time)
  <2>1. isRegister(x) => SameAt(d, i, n) /\ SameAt(a, e, n)
    BY <1>1, <1>3, <1>8, <1>10 DEF SameAt, Updated
  <2> QED
    BY <1>4, <2>1, SucceedsBetween DEF Updated
<1>13. Succeeds(d, e, r, link, time)
  <2> DEFINE k == reg.num + 1
  <2>1. Succeeds(d, b, r, reg, time)
    <3>1. SameAt(b, b, r)
      BY DEF SameAt
    <3> QED
      BY <1>6, <1>7, <3>1, SucceedsBetween DEF Updated
  <2>2. link.num = reg.num /\ link.status = reg.status /\ link.notes = reg.notes
        /\ link.sub = reg.sub \cup NewLinks(x)
    BY DEF Description
  <2> HIDE DEF link
  <2>3. /\ e.cur[r] = k /\ k \in 1 .. MaxVersion
        /\ \A m \in 1 .. MaxVersion :
              /\ e.ver[r][m].begins = b.ver[r][m].begins
              /\ e.ver[r][m].ends = b.ver[r][m].ends
              /\ e.ver[r][m].status = b.ver[r][m].status
              /\ e.ver[r][m].notes = b.ver[r][m].notes
              /\ m # k => e.ver[r][m].sub = b.ver[r][m].sub
        /\ e.ver[r][k].sub = b.ver[r][k].sub \cup NewLinks(x)
    <3>1. k \in 1 .. MaxVersion
      BY StoreBounds DEF Description, Nums
    <3> QED
      BY <1>8, <1>9, <3>1 DEF Linked
  <2>4. reg.num # 0 => reg.num \in 1 .. MaxVersion
    BY StoreBounds DEF Description, Nums
  <2> HIDE DEF r
  <2> QED
    BY <2>1, <2>2, <2>3, <2>4 DEF Succeeds
<1>14. \A y \in Things : y \notin {x, r} /\ (isRegister(x) => y # n) => SameAt(d, e, y)
  BY <1>6, <1>8, <1>10 DEF SameAt
<1> QED
  BY <1>10, <1>11, <1>12, <1>13, <1>14 DEF n

\* addToRegister of an item that is not in the store, with what a registration
\* has in hand of its register.
LEMMA AddCall ==
    ASSUME NEW d \in Database, NEW clock \in Time, NEW time \in Time, clock <= time,
           Orderly(d, clock), NEW x \in Items, ~known(d, x),
           NEW s \in Description, s.num = 0, NEW status \in Statuses, s.status = {status},
           NEW reg \in Description, reg.num < MaxVersion, Held(d, Parent[x], reg),
           NEW e, e = addToRegister(d, reg, x, s, 0, time)
    PROVE  /\ Orderly(e, time)
           /\ \A y \in Things : PastKept(d, e, y, time)
           /\ \A y \in Items : y # x => SameAt(d, e, y)
           /\ Held(e, Parent[x], reg)
<1> USE ItemsAndRegisters
<1> DEFINE r == Parent[x]
           n == Entity[x]
           link == [reg EXCEPT !.sub = @ \cup NewLinks(x)]
<1>1. /\ r \in Regs /\ r \in Things /\ x \in Things /\ x # r /\ known(d, r)
      /\ isRegister(x) => n \in Regs /\ n \in Things /\ ~known(d, n) /\ n # r
      /\ \A y \in Items : y # n /\ y # r
      /\ d.cur[x] = 0 /\ (isRegister(x) => d.cur[n] = 0)
  BY DEF Held, Orderly, known
<1>2. Blank \in Description /\ Blank.num = 0 /\ Blank.sub = {} /\ 0 < MaxVersion
  BY StoreBounds, DescriptionsRead DEF Blank
<1>3. /\ e \in Database /\ e.member = d.member \cup {x}
      /\ Succeeds(d, e, x, s, time)
      /\ isRegister(x) => Succeeds(d, e, n, Blank, time)
      /\ Succeeds(d, e, r, link, time)
      /\ \A y \in Things : y \notin {x, r} /\ (isRegister(x) => y # n) => SameAt(d, e, y)
  BY <1>1, <1>2, AddSucceeds
<1>4. /\ link \in Description
      /\ link.num = reg.num /\ link.status = reg.status /\ link.notes = reg.notes
      /\ link.sub = reg.sub \cup NewLinks(x)
  <2>1. NewLinks(x) \subseteq Regs
    BY DEF NewLinks
  <2> QED
    BY <2>1 DEF Description
<1> HIDE DEF link
<1>5. /\ reg.num \in Nat /\ d.cur[r] \in Nat
      /\ \/ reg.num = d.cur[r] /\ reg.sub = d.ver[r][d.cur[r]].sub
         \/ /\ reg.num + 1 = d.cur[r] /\ reg.sub \subseteq d.ver[r][d.cur[r]].sub
            /\ reg.status = d.ver[r][d.cur[r]].status /\ reg.notes = d.ver[r][d.cur[r]].notes
  <2>1. reg.num \in Nat /\ d.cur[r] \in Nat
    BY <1>1 DEF Description, Database, Nums
  <2>2. Held(d, r, reg)
    OBVIOUS
  <2> HIDE DEF r
  <2>3. /\ currentVersion(d, r).num = d.cur[r]
        /\ currentVersion(d, r).status = d.ver[r][d.cur[r]].status
        /\ currentVersion(d, r).notes = d.ver[r][d.cur[r]].notes
        /\ currentVersion(d, r).sub = d.ver[r][d.cur[r]].sub
    BY DEF currentVersion
  <2> QED
    BY <2>1, <2>2, <2>3 DEF Held
<1>6. /\ Writes(d, e, x, s, time) /\ s.num = d.cur[x]
      /\ isRegister(x) => Writes(d, e, n, Blank, time)
      /\ Writes(d, e, r, link, time)
  BY <1>1, <1>2, <1>3, <1>4, <1>5 DEF Writes, Follows
<1> HIDE DEF r, n
<1>7. Evolves(d, e, time)
  <2>1. ASSUME NEW y \in Items
        PROVE  \/ SameAt(d, e, y)
               \/ \E u : /\ Writes(d, e, y, u, time) /\ u.num = d.cur[y]
                         /\ \E st \in Statuses : u.status = {st}
    <3>1. CASE y = x
      BY <1>6, <3>1
    <3>2. CASE y # x
      BY <1>1, <1>3, <3>2
    <3> QED
      BY <3>1, <3>2
  <2>2. ASSUME NEW q \in Regs
        PROVE  SameAt(d, e, q) \/ \E u : Writes(d, e, q, u, time)
    BY <1>3, <1>6
  <2> QED
    BY <1>3, <2>1, <2>2 DEF Evolves
<1>8. /\ \A y \in Things : Chronicle(e, y, time) /\ PastKept(d, e, y, time)
      /\ OneStatus(e)
  BY <1>7, Evolution
<1>9. /\ known(e, x) /\ known(e, r) /\ (isRegister(x) => known(e, n))
      /\ \A y \in Things : known(d, y) => known(e, y)
      /\ \A y \in Things : known(e, y) => known(d, y) \/ y \in {x, r} \/ (isRegister(x) /\ y = n)
  <2>1. e.cur[x] = s.num + 1 /\ e.cur[r] = reg.num + 1 /\ (isRegister(x) => e.cur[n] = Blank.num + 1)
    BY <1>3, <1>4 DEF Succeeds
  <2> QED
    BY <1>2, <1>3, <1>5, <2>1 DEF known, SameAt
<1>10. \A y \in Items : isRegister(y) /\ known(e, Entity[y]) => known(e, y)
  <2> SUFFICES ASSUME NEW y \in Items, isRegister(y), known(e, Entity[y])
               PROVE  known(e, y)
    OBVIOUS
  <2>1. CASE isRegister(x) /\ Entity[y] = n
    <3>1. y = x
      BY <2>1, ShapeAssumption DEF n
    <3> QED
      BY <1>9, <3>1
  <2>2. CASE ~(isRegister(x) /\ Entity[y] = n)
    <3>1. known(d, Entity[y])
      BY <1>1, <1>9, <2>2
    <3> QED
      BY <1>9, <3>1 DEF Orderly
  <2> QED
    BY <2>1, <2>2
<1>11. \A y \in Items : known(e, y) => Parent[y] # Entity[y]
  <2> SUFFICES ASSUME NEW y \in Items, known(e, y)
               PROVE  Parent[y] # Entity[y]
    OBVIOUS
  <2>1. CASE y = x
    BY <1>1, <2>1 DEF r, n, isRegister
  <2>2. CASE y # x
    <3>1. known(d, y)
      BY <1>1, <1>9, <2>2
    <3> QED
      BY <3>1 DEF Orderly
  <2> QED
    BY <2>1, <2>2
<1>12. d.member \subseteq Items /\ \A y \in d.member : known(d, Parent[y])
  BY DEF Orderly, Database
<1>13. \A y \in e.member : known(e, Parent[y])
  BY <1>3, <1>9, <1>12 DEF r
<1>14. /\ reg.num = d.cur[r] => e.ver[r][e.cur[r]].sub = link.sub
       /\ reg.num # d.cur[r] => e.ver[r][e.cur[r]].sub = d.ver[r][d.cur[r]].sub \cup link.sub
       /\ e.cur[r] = reg.num + 1
       /\ e.ver[r][e.cur[r]].status = reg.status /\ e.ver[r][e.cur[r]].notes = reg.notes
  <2>1. Chronicle(d, r, clock)
    BY <1>1 DEF Orderly
  <2>2. Says(d, e, r, link)
    BY <1>1, <1>6, <2>1, CurrentAfter
  <2> QED
    BY <1>4, <2>2 DEF Says
<1>15. e.ver[r][e.cur[r]].sub = d.ver[r][d.cur[r]].sub \cup NewLinks(x)
  <2>1. CASE reg.num = d.cur[r]
    <3>1. reg.sub = d.ver[r][d.cur[r]].sub
      BY <1>5, <2>1
    <3>2. e.ver[r][e.cur[r]].sub = reg.sub \cup NewLinks(x)
      BY <1>4, <1>14, <2>1
    <3> QED
      BY <3>1, <3>2
  <2>2. CASE reg.num # d.cur[r]
    <3>1. e.ver[r][e.cur[r]].sub = d.ver[r][d.cur[r]].sub \cup (reg.sub \cup NewLinks(x))
          /\ reg.sub \subseteq d.ver[r][d.cur[r]].sub
      BY <1>4, <1>5, <1>14, <2>2
    <3> QED
      BY <3>1
  <2> QED
    BY <2>1, <2>2
<1>16. ASSUME NEW q \in Regs, known(e, q)
       PROVE  e.ver[q][e.cur[q]].sub = Subregisters(e, q)
  <2>1. CASE isRegister(x) /\ q = n
    <3>1. e.ver[n][e.cur[n]].sub = {}
      <4>1. Chronicle(d, n, clock) /\ Blank.num = d.cur[n] /\ Writes(d, e, n, Blank, time)
            /\ n \in Things
        BY <1>1, <1>2, <1>6, <2>1 DEF Orderly
      <4>2. Says(d, e, n, Blank)
        BY <4>1, CurrentAfter
      <4> QED
        BY <1>2, <4>1, <4>2 DEF Says
    <3>2. \A y \in e.member : Parent[y] # n
      BY <1>1, <1>3, <1>12, <2>1 DEF r
    <3> QED
      BY <2>1, <3>1, <3>2 DEF Subregisters
  <2>2. CASE q = r
    <3>1. d.ver[r][d.cur[r]].sub = Subregisters(d, r)
      BY <1>1 DEF Orderly
    <3>2. Subregisters(e, r) = Subregisters(d, r) \cup NewLinks(x)
      BY <1>3 DEF Subregisters, NewLinks, r
    <3> QED
      BY <1>15, <2>2, <3>1, <3>2
  <2>3. CASE q # r /\ ~(isRegister(x) /\ q = n)
    <3>1. SameAt(d, e, q) /\ known(d, q)
      BY <1>1, <1>3, <1>9, <1>16, <2>3
    <3>2. Subregisters(e, q) = Subregisters(d, q)
      BY <1>3, <2>3 DEF Subregisters, r
    <3> QED
      BY <3>1, <3>2 DEF Orderly, SameAt
  <2> QED
    BY <2>1, <2>2, <2>3
<1>17. Orderly(e, time)
  BY <1>8, <1>10, <1>11, <1>13, <1>16 DEF Orderly
<1>18. \A y \in Items : y # x => SameAt(d, e, y)
  BY <1>1, <1>3
<1>19. Held(e, r, reg)
  <2>1. reg.sub \subseteq e.ver[r][e.cur[r]].sub
    BY <1>5, <1>15
  <2> QED
    BY <1>9, <1>14, <2>1 DEF Held, currentVersion
<1> QED
  BY <1>8, <1>17, <1>18, <1>19 DEF r

------------------------------------------------------------------------------
(* The commands *)

\* What a call leaves of item x that was there before it: a status that may
\* follow the one it had, unless it is forced, and its annotations, unless a PUT
\* ends.  The thread goes from p to q.
ItemKept(d, e, x, p, q, force) ==
    known(d, x) =>
        /\ \A new \in currentVersion(e, x).status :
              \/ \E old \in currentVersion(d, x).status : legalNextState(old, new)
              \/ force
        /\ \/ currentVersion(d, x).notes \subseteq currentVersion(e, x).notes
           \/ p = "put" /\ q # "put"

\* An item that is left alone is kept.
LEMMA SameKept ==
    ASSUME NEW d, NEW e, NEW x, SameAt(d, e, x), NEW p, NEW q, NEW force
    PROVE  ItemKept(d, e, x, p, q, force)
<1>1. currentVersion(e, x) = currentVersion(d, x)
  BY DEF SameAt, currentVersion
<1>2. \A status : legalNextState(status, status)
  BY DEF legalNextState
<1> HIDE DEF currentVersion, legalNextState
<1> QED
  BY <1>1, <1>2 DEF ItemKept

\* The current version of an item has one status, and getStatus finds it.
LEMMA StatusRead ==
    ASSUME NEW d \in Database, OneStatus(d), NEW x \in Items, known(d, x)
    PROVE  /\ \E status \in Statuses : currentVersion(d, x).status = {status}
           /\ getStatus(currentVersion(d, x)) = currentVersion(d, x).status
<1>1. d.cur[x] \in 1 .. d.cur[x]
  BY ItemsAndRegisters DEF known, Database, Nums
<1>2. \E status \in Statuses : d.ver[x][d.cur[x]].status = {status}
  BY <1>1 DEF OneStatus
<1>3. currentVersion(d, x).status = d.ver[x][d.cur[x]].status
  BY DEF currentVersion
<1> QED
  BY <1>2, <1>3 DEF getStatus

\* The status of description s may follow that of item x, and it has the
\* annotations of x unless a PUT ends.
Acceptable(d, x, s, p, q, force) ==
    /\ \E status \in Statuses :
          /\ s.status = {status}
          /\ \/ currentVersion(d, x).status = {status}
             \/ mayBecome(currentVersion(d, x), status, force)
    /\ currentVersion(d, x).notes \subseteq s.notes \/ (p = "put" /\ q # "put")

\* Every item is kept.
AllKept(d, e, p, q, force) == \A x \in Items : ItemKept(d, e, x, p, q, force)

\* A write of one item keeps them all if it is acceptable.
LEMMA WrittenKept ==
    ASSUME NEW d \in Database, OneStatus(d), NEW e, NEW x \in Items, known(d, x),
           NEW s, Replaces(d, e, x, s), NEW p, NEW q, NEW force \in BOOLEAN,
           Acceptable(d, x, s, p, q, force)
    PROVE  AllKept(d, e, p, q, force)
<1>0. PICK status \in Statuses :
        /\ s.status = {status}
        /\ \/ currentVersion(d, x).status = {status}
           \/ mayBecome(currentVersion(d, x), status, force)
  BY DEF Acceptable
<1>1. ASSUME NEW y \in Items, y # x
      PROVE  ItemKept(d, e, y, p, q, force)
  BY <1>1, SameKept DEF Replaces
<1>2. currentVersion(e, x).status = {status} /\ currentVersion(e, x).notes = s.notes
  BY <1>0 DEF currentVersion, Replaces
<1>3. getStatus(currentVersion(d, x)) = currentVersion(d, x).status
  BY StatusRead
<1>4. legalNextState(status, status)
  BY DEF legalNextState
<1> HIDE DEF currentVersion, legalNextState
<1>5. (\E old \in currentVersion(d, x).status : legalNextState(old, status)) \/ force
  BY <1>0, <1>3, <1>4 DEF mayBecome
<1>6. ItemKept(d, e, x, p, q, force)
  BY <1>2, <1>5 DEF ItemKept, Acceptable
<1> QED
  BY <1>1, <1>6 DEF AllKept

\* What a step of thread t does: the clock does not go back, the store stays
\* orderly, the past and the items are kept, and what t has in hand is stored.
SerialMove(t) ==
    /\ now <= now'
    /\ Orderly(db', now')
    /\ \A x \in Things : PastKept(db, db', x, now')
    /\ AllKept(db, db', pc[t], pc'[t], job[t].force)
    /\ InHand(db', pc'[t], job'[t])

\* A step that writes nothing is such a step if what t has read is stored.
LEMMA ReadMove ==
    ASSUME now \in Time, db \in Database, NEW t \in Thread, Orderly(db, now),
           db' = db, now' = now,
           InHand(db, pc'[t], job'[t])
    PROVE  SerialMove(t)
<1>1. now <= now'
  BY StoreBounds DEF Time
<1>2. \A x \in Things : PastKept(db, db', x, now')
  BY DEF PastKept, Database, Nums
<1>3. AllKept(db, db', pc[t], pc'[t], job[t].force)
  BY SameKept DEF SameAt, AllKept
<1> QED
  BY <1>1, <1>2, <1>3 DEF SerialMove

\* A request starts with what it reads: the descriptions it has in hand are
\* current versions, and it checks that its status may follow.
LEMMA RequestMoves ==
    ASSUME CommandInv, SerialInv, NEW t \in Thread, Request(t)
    PROVE  SerialMove(t)
<1> USE ItemsAndRegisters
<1>1. /\ StoreInv(db) /\ db \in Database /\ now \in Time /\ Orderly(db, now)
      /\ pc \in [Thread -> PC] /\ job \in [Thread -> Job]
  BY DEF CommandInv, TypeOK, SerialInv
<1> DEFINE Started(p, j) ==
             /\ Start(t, p, j)
             /\ InHand(db, p, j)
             /\ UNCHANGED <<db, now>>
<1>2. ASSUME NEW p, NEW j, Started(p, j)
      PROVE  SerialMove(t)
  <2>1. pc'[t] = p /\ job'[t] = j
    BY <1>1, <1>2 DEF Start
  <2> QED
    BY <1>1, <1>2, <2>1, ReadMove
<1> HIDE DEF Started
<1>3. ASSUME NEW r \in Regs, NEW xs \in SUBSET Items, NEW status \in Offered,
             ValidateRegister(t, r, xs, status)
      PROVE  SerialMove(t)
  <2> DEFINE j == [NoJob EXCEPT !.op = "Register", !.key = r, !.todo = xs,
                      !.reg = currentVersion(db, r), !.status = status]
  <2>1. Held(db, r, currentVersion(db, r)) /\ \A x \in xs : Parent[x] = r
    BY <1>3 DEF ValidateRegister, Held
  <2>2. j.todo = xs /\ j.reg = currentVersion(db, r)
    BY DEF NoJob
  <2>3. InHand(db, "register", j)
    BY <2>1, <2>2 DEF InHand
  <2> QED
    BY <1>2, <1>3, <2>3 DEF Started, ValidateRegister
<1>4. ASSUME NEW c \in Items, NEW xs \in SUBSET Items, NEW status \in Offered,
             ValidateBatch(t, c, xs, status)
      PROVE  SerialMove(t)
  <2> DEFINE r == Parent[c]
             j == [NoJob EXCEPT !.op = "Batch", !.key = r, !.todo = {c},
                      !.reg = currentVersion(db, r), !.status = status,
                      !.children = xs]
  <2>1. Held(db, r, currentVersion(db, r))
    BY <1>4 DEF ValidateBatch, Held
  <2>2. j.todo = {c} /\ j.reg = currentVersion(db, r)
    BY DEF NoJob
  <2>3. InHand(db, "register", j)
    BY <2>1, <2>2 DEF InHand
  <2> QED
    BY <1>2, <1>4, <2>3 DEF Started, ValidateBatch
<1>5. ASSUME NEW x \in Items, ValidateGraph(t, x)
      PROVE  SerialMove(t)
  <2> DEFINE r == Parent[x]
             j == [NoJob EXCEPT !.op = "RegisterGraph", !.key = r, !.item = x,
                      !.reg = currentVersion(db, r), !.status = "Submitted"]
  <2>1. known(db, r)
    BY <1>5 DEF ValidateGraph
  <2>2. j.item = x /\ j.reg = currentVersion(db, r)
    BY DEF NoJob
  <2>3. InHand(db, "graph", j)
    BY <2>1, <2>2 DEF InHand
  <2> QED
    BY <1>2, <1>5, <2>3 DEF Started, ValidateGraph
<1>6. ASSUME NEW x \in Items, NEW label \in PC, NEW status \in Offered \cup {None},
             NEW force \in BOOLEAN, ValidateItemUpdate(t, x, label, status, force)
      PROVE  SerialMove(t)
  <2> DEFINE j == [NoJob EXCEPT !.op = "Update", !.key = x, !.item = x,
                      !.snap = currentVersion(db, x),
                      !.status = status, !.force = force]
  <2>1. label \in {"put", "patch"}
        /\ (status # None => mayBecome(currentVersion(db, x), status, force))
    BY <1>6 DEF ValidateItemUpdate
  <2>2. j.item = x /\ j.snap = currentVersion(db, x) /\ j.status = status /\ j.force = force
    BY DEF NoJob
  <2>3. InHand(db, label, j)
    BY <2>1, <2>2 DEF InHand
  <2> QED
    BY <1>2, <1>6, <2>3 DEF Started, ValidateItemUpdate
<1>7. ASSUME NEW x \in Items, NEW label \in PC, ValidateEntityUpdate(t, x, label)
      PROVE  SerialMove(t)
  <2> DEFINE g == IF isRegister(x) THEN currentVersion(db, Entity[x]) ELSE Blank
             j == [NoJob EXCEPT !.op = "Update", !.key = x, !.item = x,
                      !.snap = currentVersion(db, x), !.reg = g]
  <2>1. label \in {"putEntity", "patchEntity"}
    BY <1>7 DEF ValidateEntityUpdate
  <2>2. j.item = x /\ j.snap = currentVersion(db, x) /\ j.status = None /\ j.reg = g
    BY DEF NoJob
  <2>3. isRegister(x) => g = currentVersion(db, Entity[x])
    OBVIOUS
  <2>4. Started(label, j)
    <3>1. InHand(db, label, j)
      <4> HIDE DEF j, g
      <4> QED
        BY <2>1, <2>2, <2>3 DEF InHand
    <3> QED
      BY <1>7, <3>1 DEF Started, ValidateEntityUpdate
  <2> QED
    BY <1>2, <2>4
<1>8. ASSUME NEW x \in Items, NEW status \in Offered, NEW force \in BOOLEAN,
             StatusUpdateItem(t, x, status, force)
      PROVE  SerialMove(t)
  <2> DEFINE j == [NoJob EXCEPT !.op = "StatusUpdate", !.key = x, !.item = x,
                      !.snap = currentVersion(db, x), !.self = TRUE,
                      !.status = status, !.force = force]
  <2>1. mayBecome(currentVersion(db, x), status, force)
    BY <1>8 DEF StatusUpdateItem
  <2>2. j.item = x /\ j.snap = currentVersion(db, x) /\ j.status = status /\ j.force = force
        /\ j.todo = {}
    BY DEF NoJob
  <2>3. InHand(db, "members", j)
    <3> HIDE DEF j
    <3> QED
      BY <2>1, <2>2 DEF InHand
  <2> QED
    BY <1>2, <1>8, <2>3 DEF Started, StatusUpdateItem
<1>9. ASSUME NEW x \in Items, NEW status \in Offered, NEW force \in BOOLEAN,
             StatusUpdateRegister(t, x, status, force)
      PROVE  SerialMove(t)
  <2> DEFINE j == [NoJob EXCEPT !.op = "StatusUpdateAll", !.key = Entity[x],
                      !.item = x, !.todo = listMembers(db, Entity[x]),
                      !.status = status, !.force = force]
  <2>1. j.self = FALSE
    BY DEF NoJob
  <2>2. InHand(db, "members", j)
    <3> HIDE DEF j
    <3> QED
      BY <2>1 DEF InHand
  <2> QED
    BY <1>2, <1>9, <2>2 DEF Started, StatusUpdateRegister
<1>10. ASSUME NEW x \in Items, NEW uri \in LockURI, Delete(t, x, uri)
       PROVE  SerialMove(t)
  <2> DEFINE xs == IF isRegister(x) THEN listMembers(db, Entity[x]) ELSE {}
             j == [NoJob EXCEPT !.op = "Delete", !.key = uri, !.item = x,
                      !.snap = currentVersion(db, x), !.self = TRUE,
                      !.todo = xs, !.status = "Invalid"]
  <2>1. known(db, x) /\ Parent[x] # Entity[x]
    BY <1>1, <1>10 DEF Delete, Orderly
  <2>2. x \notin xs
    BY <2>1 DEF listMembers
  <2>3. mayBecome(currentVersion(db, x), "Invalid", FALSE)
    <3>1. getStatus(currentVersion(db, x)) # {}
      BY DEF getStatus
    <3> QED
      BY <3>1 DEF mayBecome, legalNextState
  <2>4. j.item = x /\ j.snap = currentVersion(db, x) /\ j.status = "Invalid" /\ j.force = FALSE
        /\ j.todo = xs
    BY DEF NoJob
  <2>5. Started("members", j)
    <3>1. InHand(db, "members", j)
      <4> HIDE DEF j, xs
      <4> QED
        BY <2>2, <2>3, <2>4 DEF InHand
    <3> QED
      BY <1>10, <3>1 DEF Started, Delete
  <2> QED
    BY <1>2, <2>5
<1>11. ASSUME NEW x \in Items, NEW note \in Notes, Annotate(t, x, note)
       PROVE  SerialMove(t)
  <2> DEFINE j == [NoJob EXCEPT !.op = "Annotate", !.key = x, !.item = x,
                      !.snap = currentVersion(db, x), !.note = note]
  <2>1. j.item = x /\ j.snap = currentVersion(db, x)
    BY DEF NoJob
  <2>2. InHand(db, "annotate", j)
    BY <2>1 DEF InHand
  <2> QED
    BY <1>2, <1>11, <2>2 DEF Started, Annotate
<1>12. ASSUME NEW r \in Regs, NEW note \in Notes, ValidateTag(t, r, note)
       PROVE  SerialMove(t)
  <2> DEFINE j == [NoJob EXCEPT !.op = "Tag", !.key = r,
                      !.reg = currentVersion(db, r), !.note = note]
  <2>1. j.key = r /\ j.reg = currentVersion(db, r)
    BY DEF NoJob
  <2>2. InHand(db, "tag", j)
    BY <1>12, <2>1 DEF InHand, ValidateTag
  <2> QED
    BY <1>2, <1>12, <2>2 DEF Started, ValidateTag
<1> QED
  BY <1>3, <1>4, <1>5, <1>6, <1>7, <1>8, <1>9, <1>10, <1>11, <1>12 DEF Request

\* A step that only reads, or ends the request, leaves in hand what is stored.
LEMMA ReadingStepMoves ==
    ASSUME CommandInv, SerialInv, NEW t \in Thread,
           \/ \E x \in Items : \/ RegisterRefused(t, x) \/ RegisterCheck(t, x)
                               \/ MemberRefused(t, x) \/ MemberRead(t, x)
           \/ BatchReread(t) \/ GraphRead(t) \/ MembersDone(t)
    PROVE  SerialMove(t)
<1> USE ItemsAndRegisters
<1> DEFINE j == job[t]
<1>1. /\ StoreInv(db) /\ db \in Database /\ now \in Time /\ Orderly(db, now)
      /\ pc \in [Thread -> PC] /\ job \in [Thread -> Job] /\ j \in Job
      /\ Prepared(db, pc[t], j) /\ InHand(db, pc[t], j)
  BY DEF CommandInv, TypeOK, SerialInv
<1>2. db' = db /\ now' = now
  BY DEF RegisterRefused, RegisterCheck, MemberRefused, MemberRead, BatchReread, GraphRead,
         MembersDone
<1>3. ASSUME NEW p, NEW k, pc' = [pc EXCEPT ![t] = p], job' = [job EXCEPT ![t] = k],
             InHand(db, p, k)
      PROVE  SerialMove(t)
  BY <1>1, <1>2, <1>3, ReadMove
<1>4. ASSUME Finish(t)
      PROVE  SerialMove(t)
  <2>1. InHand(db, "idle", NoJob)
    BY DEF InHand
  <2> QED
    BY <1>3, <1>4, <2>1 DEF Finish
<1> HIDE DEF j
<1>5. ASSUME NEW x \in Items, RegisterCheck(t, x)
      PROVE  SerialMove(t)
  <2> DEFINE k == [j EXCEPT !.at = x]
  <2>1. /\ pc[t] = "register" /\ ~known(db, x)
        /\ job' = [job EXCEPT ![t] = k] /\ pc' = [pc EXCEPT ![t] = "add"]
    BY <1>5 DEF RegisterCheck, j
  <2>2. k.at = x /\ k.todo = j.todo /\ k.reg = j.reg
    BY <1>1 DEF Job
  <2>3. InHand(db, "add", k)
    <3> HIDE DEF k
    <3> QED
      BY <1>1, <2>1, <2>2 DEF InHand
  <2> QED
    BY <1>3, <2>1, <2>3
<1>6. ASSUME NEW x \in Items, MemberRead(t, x)
      PROVE  SerialMove(t)
  <2> DEFINE k == [j EXCEPT !.at = x, !.seen = currentVersion(db, x), !.todo = @ \ {x}]
  <2>1. /\ pc[t] = "members" /\ x \in j.todo
        /\ mayBecome(currentVersion(db, x), j.status, j.force)
        /\ job' = [job EXCEPT ![t] = k] /\ pc' = [pc EXCEPT ![t] = "member"]
    BY <1>6 DEF MemberRead, Continue, j
  <2>2. /\ k.at = x /\ k.seen = currentVersion(db, x) /\ k.todo = j.todo \ {x}
        /\ k.self = j.self /\ k.snap = j.snap /\ k.item = j.item
        /\ k.status = j.status /\ k.force = j.force
    BY <1>1 DEF Job
  <2>3. InHand(db, "member", k)
    <3> HIDE DEF k
    <3> QED
      BY <1>1, <2>1, <2>2 DEF InHand
  <2> QED
    BY <1>3, <2>1, <2>3
<1>7. CASE BatchReread(t)
  <2> DEFINE r == Entity[j.at]
             k == [j EXCEPT !.reg = currentVersion(db, r), !.todo = j.children, !.children = {}]
  <2>1. /\ pc[t] = "reread"
        /\ job' = [job EXCEPT ![t] = k] /\ pc' = [pc EXCEPT ![t] = "register"]
    BY <1>7 DEF BatchReread, Continue, j
  <2>2. known(db, r) /\ \A y \in j.children : Parent[y] = r
    BY <1>1, <2>1 DEF Prepared
  <2>3. k.reg = currentVersion(db, r) /\ k.todo = j.children
    BY <1>1 DEF Job
  <2>4. InHand(db, "register", k)
    <3> HIDE DEF k
    <3> QED
      BY <2>2, <2>3 DEF InHand, Held
  <2> QED
    BY <1>3, <2>1, <2>4
<1>8. CASE GraphRead(t)
  <2> DEFINE x == j.item
             u == [j EXCEPT !.snap = currentVersion(db, x)]
             g == [j EXCEPT !.todo = {x}]
  <2>1. pc[t] = "graph" /\ known(db, Parent[x]) /\ j.reg = currentVersion(db, Parent[x])
    BY <1>1, <1>8 DEF GraphRead, InHand
  <2>2. CASE pc' = [pc EXCEPT ![t] = "graphUpdate"] /\ job' = [job EXCEPT ![t] = u]
    <3>1. u.item = x /\ u.snap = currentVersion(db, x)
      BY <1>1 DEF Job
    <3>2. InHand(db, "graphUpdate", u)
      <4> HIDE DEF u
      <4> QED
        BY <3>1 DEF InHand
    <3> QED
      BY <1>3, <2>2, <3>2
  <2>3. CASE pc' = [pc EXCEPT ![t] = "register"] /\ job' = [job EXCEPT ![t] = g]
    <3>1. g.todo = {x} /\ g.reg = j.reg
      BY <1>1 DEF Job
    <3>2. InHand(db, "register", g)
      <4> HIDE DEF g
      <4> QED
        BY <2>1, <3>1 DEF InHand, Held
    <3> QED
      BY <1>3, <2>3, <3>2
  <2> QED
    BY <1>8, <2>2, <2>3 DEF GraphRead, j
<1> QED
  BY <1>4, <1>5, <1>6, <1>7, <1>8 DEF RegisterRefused, MemberRefused, MembersDone

\* A step that writes stores what the request has in hand, with a status that
\* may follow, as the next version.
LEMMA WritingStepMoves ==
    ASSUME CommandInv, SerialInv, NEW t \in Thread,
           \/ RegisterAdd(t) \/ GraphUpdate(t) \/ ExecUpdate(t) \/ MemberWrite(t)
           \/ SelfWrite(t) \/ AnnotateWrite(t) \/ ExecTag(t)
    PROVE  SerialMove(t)
<1> USE ItemsAndRegisters
<1> DEFINE j == job[t]
           p == pc[t]
           q == pc'[t]
<1>1. /\ StoreInv(db) /\ Sound(db) /\ db \in Database /\ now \in Time /\ Orderly(db, now) /\ OneStatus(db)
      /\ pc \in [Thread -> PC] /\ job \in [Thread -> Job] /\ j \in Job
      /\ Prepared(db, p, j) /\ InHand(db, p, j)
      /\ j.snap \in Description /\ j.reg \in Description /\ j.seen \in Description
      /\ j.todo \subseteq Items /\ j.force \in BOOLEAN
  BY DEF CommandInv, TypeOK, SerialInv, StoreInv, Sound, Orderly, Job
<1>2. \A time \in Time : Clock(time) => now' = time /\ now <= time
  BY <1>1, StoreBounds DEF Clock, Time
<1>3. Finish(t) => q = "idle" /\ InHand(db', q, job'[t])
  BY <1>1 DEF Finish, InHand
<1>4. ASSUME NEW time \in Time, Clock(time), Orderly(db', time),
             \A x \in Things : PastKept(db, db', x, time),
             AllKept(db, db', p, q, j.force),
             InHand(db', q, job'[t])
      PROVE  SerialMove(t)
  BY <1>2, <1>4 DEF SerialMove
<1>5. ASSUME NEW x \in Items, known(db, x)
      PROVE  /\ currentVersion(db, x) \in Description
             /\ currentVersion(db, x).num = db.cur[x]
             /\ \E status \in Statuses : currentVersion(db, x).status = {status}
  <2>1. currentVersion(db, x).num = db.cur[x]
    BY DEF currentVersion
  <2> QED
    BY <1>1, <1>5, <2>1, DescriptionsRead, StatusRead
<1> HIDE DEF j, p, q
\* A write of one item, without its entity.
<1>6. ASSUME NEW x \in Items, known(db, x), NEW time \in Time, Clock(time),
             NEW s \in Description, s.num = db.cur[x], s.num < MaxVersion,
             db' = updateItem(db, x, s, time), Acceptable(db, x, s, p, q, j.force)
      PROVE  /\ Orderly(db', time)
             /\ \A y \in Things : PastKept(db, db', y, time)
             /\ AllKept(db, db', p, q, j.force)
             /\ \A y \in Things : y # x => SameAt(db, db', y)
  <2>1. now <= time
    BY <1>2, <1>6
  <2>2. /\ Orderly(db', time)
        /\ \A y \in Things : PastKept(db, db', y, time) /\ (y # x => SameAt(db, db', y))
        /\ db'.ver[x][db'.cur[x]].status = s.status
        /\ db'.ver[x][db'.cur[x]].notes = s.notes
    <3>1. PICK status \in Statuses : s.status = {status}
      BY <1>6 DEF Acceptable
    <3> QED
      BY <1>1, <1>6, <2>1, <3>1, ItemCall
  <2>3. Replaces(db, db', x, s)
    BY <2>2 DEF Replaces
  <2>4. AllKept(db, db', p, q, j.force)
    BY <1>1, <1>6, <2>3, WrittenKept
  <2> QED
    BY <2>2, <2>4
<1>7. CASE RegisterAdd(t)
  <2> DEFINE x == j.at
             s == setStatus(Blank, j.status)
             rest == [j EXCEPT !.todo = @ \ {x}]
  <2>1. /\ p = "add" /\ x \in j.todo /\ x \in Items /\ j.status \in Statuses /\ ~known(db, x)
        /\ Held(db, Parent[x], j.reg) /\ j.reg.num < MaxVersion
        /\ \A y \in j.todo : Parent[y] = Parent[x]
    BY <1>1, <1>7 DEF RegisterAdd, Prepared, InHand, j, p
  <2>2. s \in Description /\ s.num = 0 /\ s.status = {j.status}
    BY <2>1, DescriptionsRead DEF setStatus, Blank
  <2> HIDE DEF s
  <2>3. PICK time \in Time, num \in Nums :
          /\ Clock(time)
          /\ num \in IF isRegister(x) THEN versionInfos(db, Entity[x], Blank) ELSE {0}
          /\ db' = addToRegister(db, j.reg, x, s, num, time)
    BY <1>7 DEF RegisterAdd, s, j
  <2>4. num = 0
    <3>1. isRegister(x) => ~known(db, Entity[x])
      BY <1>1, <2>1 DEF Orderly
    <3> QED
      BY <2>3, <3>1, DescriptionsRead DEF versionInfos
  <2>5. now <= time
    BY <1>2, <2>3
  <2>6. /\ Orderly(db', time)
        /\ \A y \in Things : PastKept(db, db', y, time)
        /\ \A y \in Items : y # x => SameAt(db, db', y)
        /\ Held(db', Parent[x], j.reg)
    BY <1>1, <2>1, <2>2, <2>3, <2>4, <2>5, AddCall
  <2>7. AllKept(db, db', p, q, j.force)
    <3> SUFFICES ASSUME NEW y \in Items
                 PROVE  ItemKept(db, db', y, p, q, j.force)
      BY DEF AllKept
    <3>1. CASE y = x
      BY <2>1, <3>1 DEF ItemKept
    <3>2. CASE y # x
      BY <2>6, <3>2, SameKept
    <3> QED
      BY <3>1, <3>2
  <2>8. rest.todo = j.todo \ {x} /\ rest.reg = j.reg
    BY <1>1 DEF Job
  <2>9. CASE Continue(t, "register", rest) \/ Continue(t, "reread", rest)
    <3>1. q \in {"register", "reread"} /\ job'[t] = rest
      BY <1>1, <2>9 DEF Continue, q
    <3>2. InHand(db', q, rest)
      <4> HIDE DEF rest
      <4> QED
        BY <2>1, <2>6, <2>8, <3>1 DEF InHand
    <3> QED
      BY <1>4, <2>3, <2>6, <2>7, <3>1, <3>2
  <2>10. CASE Finish(t)
    BY <1>3, <1>4, <2>3, <2>6, <2>7, <2>10
  <2> QED
    BY <1>7, <2>9, <2>10 DEF RegisterAdd, AfterAdd, j
<1>8. CASE GraphUpdate(t)
  <2> DEFINE x == j.item
  <2>1. /\ p = "graphUpdate" /\ x \in Items /\ known(db, x) /\ ~isRegister(x)
        /\ j.snap = currentVersion(db, x) /\ j.snap.num < MaxVersion
    BY <1>1, <1>8 DEF GraphUpdate, Prepared, InHand, j, p
  <2>2. PICK time \in Time :
          Clock(time) /\ db' = updateItemAndEntity(db, x, j.snap, Blank, 0, time)
    BY <1>8 DEF GraphUpdate, j
  <2>3. db' = updateItem(db, x, j.snap, time)
    BY <2>1, <2>2 DEF updateItemAndEntity, updateItem
  <2>4. PICK status \in Statuses : j.snap.status = {status}
    BY <1>5, <2>1
  <2>5. j.snap \in Description /\ j.snap.num = db.cur[x]
    BY <1>5, <2>1
  <2>6. Acceptable(db, x, j.snap, p, q, j.force)
    BY <2>1, <2>4 DEF Acceptable
  <2> HIDE DEF x
  <2>7. /\ Orderly(db', time)
        /\ \A y \in Things : PastKept(db, db', y, time)
        /\ AllKept(db, db', p, q, j.force)
    BY <1>6, <2>1, <2>2, <2>3, <2>5, <2>6
  <2> QED
    BY <1>3, <1>4, <1>8, <2>2, <2>7 DEF GraphUpdate
<1>9. CASE MemberWrite(t)
  <2> DEFINE x == j.at
             s == setStatus(j.seen, j.status)
             k == [j EXCEPT !.at = None, !.seen = Blank]
  <2>1. /\ p = "member" /\ x \in Items /\ known(db, x) /\ j.seen = currentVersion(db, x)
        /\ j.seen.num < MaxVersion /\ j.status \in Statuses
        /\ mayBecome(j.seen, j.status, j.force)
    BY <1>1, <1>9 DEF MemberWrite, Prepared, InHand, j, p
  <2>2. PICK time \in Time : Clock(time) /\ db' = updateItem(db, x, s, time)
    BY <1>9 DEF MemberWrite, j
  <2>3. s \in Description /\ s.num = j.seen.num /\ s.status = {j.status} /\ s.notes = j.seen.notes
    BY <1>1, <2>1 DEF setStatus, Description
  <2>4. s.num = db.cur[x]
    BY <1>5, <2>1, <2>3
  <2>5. Acceptable(db, x, s, p, q, j.force)
    BY <2>1, <2>3 DEF Acceptable
  <2>6. Continue(t, "members", k)
    BY <1>9 DEF MemberWrite, j
  <2> HIDE DEF x, s
  <2>7. /\ Orderly(db', time)
        /\ \A y \in Things : PastKept(db, db', y, time)
        /\ AllKept(db, db', p, q, j.force)
        /\ \A y \in Things : y # x => SameAt(db, db', y)
    BY <1>6, <2>1, <2>2, <2>3, <2>4, <2>5
  <2>8. q = "members" /\ job'[t] = k
    BY <1>1, <2>6 DEF Continue, q
  <2>9. /\ k.self = j.self /\ k.snap = j.snap /\ k.item = j.item /\ k.todo = j.todo
        /\ k.status = j.status /\ k.force = j.force
    BY <1>1 DEF Job
  <2>10. j.self => /\ j.snap = currentVersion(db, j.item) /\ j.item \notin j.todo
                   /\ mayBecome(j.snap, j.status, j.force) /\ x # j.item /\ j.item \in Items
    BY <1>1, <2>1 DEF InHand, Prepared, x
  <2>11. j.self => currentVersion(db', j.item) = currentVersion(db, j.item)
    BY <2>7, <2>10 DEF SameAt, currentVersion
  <2>12. InHand(db', "members", k)
    <3> HIDE DEF k
    <3> QED
      BY <2>9, <2>10, <2>11 DEF InHand
  <2> QED
    BY <1>4, <2>2, <2>7, <2>8, <2>12
<1>10. CASE SelfWrite(t)
  <2> DEFINE x == j.item
             s == setStatus(j.snap, j.status)
  <2>1. /\ p = "members" /\ x \in Items /\ known(db, x) /\ j.snap = currentVersion(db, x)
        /\ j.snap.num < MaxVersion /\ j.status \in Statuses
        /\ mayBecome(j.snap, j.status, j.force)
    BY <1>1, <1>10 DEF SelfWrite, Prepared, InHand, j, p
  <2>2. PICK time \in Time : Clock(time) /\ db' = updateItem(db, x, s, time)
    BY <1>10 DEF SelfWrite, j
  <2>3. s \in Description /\ s.num = j.snap.num /\ s.status = {j.status} /\ s.notes = j.snap.notes
    BY <1>1, <2>1 DEF setStatus, Description
  <2>4. s.num = db.cur[x]
    BY <1>5, <2>1, <2>3
  <2>5. Acceptable(db, x, s, p, q, j.force)
    BY <2>1, <2>3 DEF Acceptable
  <2> HIDE DEF x, s
  <2>6. /\ Orderly(db', time)
        /\ \A y \in Things : PastKept(db, db', y, time)
        /\ AllKept(db, db', p, q, j.force)
    BY <1>6, <2>1, <2>2, <2>3, <2>4, <2>5
  <2> QED
    BY <1>3, <1>4, <1>10, <2>2, <2>6 DEF SelfWrite
<1>11. CASE AnnotateWrite(t)
  <2> DEFINE x == j.item
             s == [j.snap EXCEPT !.notes = @ \cup {j.note}]
  <2>1. /\ p = "annotate" /\ x \in Items /\ known(db, x) /\ j.snap = currentVersion(db, x)
        /\ j.snap.num < MaxVersion /\ j.note \in Notes
    BY <1>1, <1>11 DEF AnnotateWrite, Prepared, InHand, j, p
  <2>2. PICK time \in Time : Clock(time) /\ db' = updateItem(db, x, s, time)
    BY <1>11 DEF AnnotateWrite, j
  <2>3. s \in Description /\ s.num = j.snap.num /\ s.status = j.snap.status
        /\ s.notes = j.snap.notes \cup {j.note}
    BY <1>1, <2>1 DEF Description
  <2>4. s.num = db.cur[x]
    BY <1>5, <2>1, <2>3
  <2>5. PICK status \in Statuses : j.snap.status = {status}
    BY <1>5, <2>1
  <2>6. Acceptable(db, x, s, p, q, j.force)
    BY <2>1, <2>3, <2>5 DEF Acceptable
  <2> HIDE DEF x, s
  <2>7. /\ Orderly(db', time)
        /\ \A y \in Things : PastKept(db, db', y, time)
        /\ AllKept(db, db', p, q, j.force)
    BY <1>6, <2>1, <2>2, <2>3, <2>4, <2>6
  <2> QED
    BY <1>3, <1>4, <1>11, <2>2, <2>7 DEF AnnotateWrite
<1>12. CASE ExecTag(t)
  <2> DEFINE r == j.key
             s == [j.reg EXCEPT !.notes = @ \cup {j.note}]
  <2>1. p = "tag" /\ r \in Regs /\ known(db, r) /\ j.reg = currentVersion(db, r) /\ j.note \in Notes
    BY <1>1, <1>12 DEF ExecTag, Prepared, InHand, j, p
  <2>2. s \in Description /\ s.num = j.reg.num
    BY <1>1, <2>1 DEF Description
  <2>3. s.num = db.cur[r]
    <3>1. currentVersion(db, r).num = db.cur[r]
      BY DEF currentVersion
    <3> QED
      BY <2>1, <2>2, <3>1
  <2> HIDE DEF s
  <2>4. PICK time \in Time, num \in versionInfos(db, r, s) :
          /\ Clock(time)
          /\ num < MaxVersion
          /\ db' = doUpdateRegister(db, r, s, num, time)
    BY <1>12 DEF ExecTag, s, j
  <2>5. num = db.cur[r]
    BY <2>3, <2>4 DEF versionInfos
  <2>6. now <= time
    BY <1>2, <2>4
  <2> HIDE DEF r
  <2>7. /\ Orderly(db', time)
        /\ \A y \in Things : PastKept(db, db', y, time) /\ (y # r => SameAt(db, db', y))
    BY <1>1, <2>1, <2>2, <2>4, <2>5, <2>6, RegisterCall
  <2>8. AllKept(db, db', p, q, j.force)
    BY <2>1, <2>7, SameKept DEF AllKept
  <2> QED
    BY <1>3, <1>4, <1>12, <2>4, <2>7, <2>8 DEF ExecTag
<1>13. CASE ExecUpdate(t)
  <2> DEFINE x == j.item
             u == IF j.status = None THEN j.snap ELSE setStatus(j.snap, j.status)
  <2>1. /\ p \in {"put", "patch", "putEntity", "patchEntity"}
        /\ x \in Items /\ known(db, x) /\ j.snap = currentVersion(db, x)
        /\ j.snap.num < MaxVersion
        /\ j.status # None => mayBecome(j.snap, j.status, j.force)
        /\ p = "patchEntity" /\ isRegister(x) => j.reg = currentVersion(db, Entity[x])
    BY <1>1, <1>13 DEF ExecUpdate, Prepared, InHand, j, p
  <2>2. PICK s \in UpdatedItems(t), time \in Time :
          /\ Clock(time)
          /\ \/ db' = updateItem(db, x, s, time)
             \/ /\ p # "patch" /\ isRegister(x)
                /\ \E e \in UpdatedEntities(t) :
                   \E num \in versionInfos(db, Entity[x], e) :
                     /\ num < MaxVersion
                     /\ db' = updateItemAndEntity(db, x, s, e, num, time)
    BY <1>13 DEF ExecUpdate, j, p
  <2>3. PICK old \in Statuses : j.snap.status = {old}
    BY <1>5, <2>1
  <2>4. /\ u \in Description /\ u.num = db.cur[x] /\ u.notes = j.snap.notes
        /\ u.status = {IF j.status = None THEN old ELSE j.status}
        /\ (IF j.status = None THEN old ELSE j.status) \in Statuses
    <3>1. j.snap \in Description /\ j.snap.num = db.cur[x]
      BY <1>5, <2>1
    <3>2. CASE j.status = None
      BY <2>3, <3>1, <3>2
    <3>3. CASE j.status # None
      <4>1. j.status \in Statuses
        BY <1>1, <3>3 DEF Job
      <4> QED
        BY <3>1, <3>3, <4>1 DEF setStatus, Description
    <3> QED
      BY <3>2, <3>3
  <2> DEFINE status == IF j.status = None THEN old ELSE j.status
  <2>5. /\ status \in Statuses
        /\ \/ currentVersion(db, x).status = {status}
           \/ mayBecome(currentVersion(db, x), status, j.force)
    BY <2>1, <2>3, <2>4
  <2>6. /\ s \in Description /\ s.num = db.cur[x] /\ s.status = {status} /\ s.num < MaxVersion
        /\ currentVersion(db, x).notes \subseteq s.notes \/ p = "put"
    <3>1. s \in {u, [u EXCEPT !.notes = {}]} /\ (p # "put" => s = u)
      BY <2>2 DEF UpdatedItems, u, j, p
    <3>2. j.snap.num = u.num
      BY <1>5, <2>1, <2>4
    <3> HIDE DEF u
    <3>3. CASE s = u
      BY <2>1, <2>4, <3>2, <3>3
    <3>4. CASE s = [u EXCEPT !.notes = {}] /\ p = "put"
      BY <2>1, <2>4, <3>2, <3>4 DEF Description
    <3> QED
      BY <3>1, <3>3, <3>4
  <2>7. q = "idle" /\ InHand(db', q, job'[t])
    BY <1>3, <1>13 DEF ExecUpdate
  <2> HIDE DEF x, u, status
  <2>8. Acceptable(db, x, s, p, q, j.force)
    BY <2>5, <2>6, <2>7 DEF Acceptable
  <2>9. CASE db' = updateItem(db, x, s, time)
    <3>1. /\ Orderly(db', time)
          /\ \A y \in Things : PastKept(db, db', y, time)
          /\ AllKept(db, db', p, q, j.force)
      BY <1>6, <2>1, <2>2, <2>6, <2>8, <2>9
    <3> QED
      BY <1>4, <2>2, <2>7, <3>1
  <2>10. ASSUME p # "patch", isRegister(x), NEW e \in UpdatedEntities(t),
                NEW num \in versionInfos(db, Entity[x], e), num < MaxVersion,
                db' = updateItemAndEntity(db, x, s, e, num, time)
         PROVE  SerialMove(t)
    <3>1. Entity[x] \in Regs /\ known(db, Entity[x]) /\ db.cur[Entity[x]] # 0
      BY <1>1, <2>1, <2>10 DEF StoreInv, known
    <3>2. e \in Description /\ e.num \in {0, db.cur[Entity[x]]}
      <4>1. CASE p = "patchEntity"
        <5>1. e = currentVersion(db, Entity[x]) /\ e = j.reg
          BY <2>1, <2>10, <4>1 DEF UpdatedEntities, j, p
        <5> QED
          BY <1>1, <5>1 DEF currentVersion
      <4>2. CASE p # "patchEntity"
        <5>1. e \in {[Blank EXCEPT !.notes = j.reg.notes], Blank}
          BY <2>10, <4>2 DEF UpdatedEntities, j, p
        <5>2. Blank \in Description /\ Blank.num = 0
          BY DescriptionsRead
        <5> HIDE DEF Blank
        <5> QED
          BY <1>1, <5>1, <5>2 DEF Description
      <4> QED
        BY <4>1, <4>2
    <3>3. num = db.cur[Entity[x]]
      BY <2>10, <3>1, <3>2 DEF versionInfos
    <3>4. now <= time
      BY <1>2, <2>2
    <3>5. /\ Orderly(db', time)
          /\ \A y \in Things : PastKept(db, db', y, time)
          /\ Replaces(db, db', x, s)
      <4>1. db' = updateItemAndEntity(db, x, s, e, db.cur[Entity[x]], time)
            /\ db.cur[Entity[x]] < MaxVersion
        BY <2>10, <3>3
      <4> QED
        BY <1>1, <2>1, <2>5, <2>6, <2>10, <3>2, <3>4, <4>1, ItemAndEntityCall
    <3>6. AllKept(db, db', p, q, j.force)
      BY <1>1, <2>1, <2>8, <3>5, WrittenKept
    <3> QED
      BY <1>4, <2>2, <2>7, <3>5, <3>6
  <2> QED
    BY <2>2, <2>9, <2>10
<1> QED
  BY <1>7, <1>8, <1>9, <1>10, <1>11, <1>12, <1>13

\* Every step of a request is such a step.
LEMMA SerialMoves ==
    ASSUME CommandInv, SerialInv, NEW t \in Thread, Request(t) \/ Step(t)
    PROVE  SerialMove(t)
<1>1. CASE Request(t)
  BY <1>1, RequestMoves
<1>2. CASE Step(t)
  <2>1. \/ \/ \E x \in Items : \/ RegisterRefused(t, x) \/ RegisterCheck(t, x)
                               \/ MemberRefused(t, x) \/ MemberRead(t, x)
           \/ BatchReread(t) \/ GraphRead(t) \/ MembersDone(t)
        \/ \/ RegisterAdd(t) \/ GraphUpdate(t) \/ ExecUpdate(t) \/ MemberWrite(t)
           \/ SelfWrite(t) \/ AnnotateWrite(t) \/ ExecTag(t)
    BY <1>2 DEF Step
  <2> QED
    BY <2>1, ReadingStepMoves, WritingStepMoves
<1> QED
  BY <1>1, <1>2

------------------------------------------------------------------------------
(* Theorems *)

\* When requests are served one after the other, the store is orderly after
\* every call, and what a request has in hand is what is stored: between its
\* read and its write no one else writes.
THEOREM SerialInvariant ==
    ASSUME OneThread
    PROVE  Spec => []SerialInv
<1>1. Init => SerialInv
  <2> SUFFICES ASSUME Init
               PROVE  SerialInv
    OBVIOUS
  <2>1. /\ \A x \in Things : db.cur[x] = IF x = Root THEN 1 ELSE 0
        /\ \A x \in Things, n \in 1 .. MaxVersion : db.ver[x][n] = NoVersion
        /\ db.member = {}
    BY DEF Init, bootstrap
  <2>2. 1 \in 1 .. MaxVersion /\ MaxVersion \in Nat
    BY StoreBounds
  <2>3. /\ NoVersion.begins = {} /\ NoVersion.ends = {} /\ NoVersion.sub = {}
    BY DEF NoVersion
  <2> HIDE DEF NoVersion
  <2>4. \A x \in Things : Chronicle(db, x, now)
    BY <2>1, <2>2, <2>3 DEF Chronicle
  <2>5. \A x \in Items : ~known(db, x) /\ db.cur[x] = 0 /\ (isRegister(x) => ~known(db, Entity[x]))
    BY <2>1, ItemsAndRegisters, ShapeAssumption DEF known
  <2>6. OneStatus(db)
    BY <2>5 DEF OneStatus
  <2>7. \A r \in Regs : known(db, r) => db.ver[r][db.cur[r]].sub = Subregisters(db, r)
    BY <2>1, <2>2, <2>3, ItemsAndRegisters DEF known, Subregisters
  <2>8. Orderly(db, now)
    BY <2>1, <2>4, <2>5, <2>6, <2>7 DEF Orderly
  <2>9. \A t \in Thread : InHand(db, pc[t], job[t])
    BY DEF Init, InHand
  <2> QED
    BY <2>8, <2>9 DEF SerialInv
<1>2. CommandInv /\ SerialInv /\ [Next]_vars => SerialInv'
  <2> SUFFICES ASSUME CommandInv, SerialInv, [Next]_vars
               PROVE  SerialInv'
    OBVIOUS
  <2>1. CASE UNCHANGED vars
    BY <2>1 DEF SerialInv, vars
  <2>2. CASE Next
    <3>1. PICK t \in Thread : Request(t) \/ Step(t)
      BY <2>2 DEF Next
    <3>2. SerialMove(t)
      BY <3>1, SerialMoves
    <3> QED
      BY <3>2 DEF SerialMove, SerialInv, OneThread
  <2> QED
    BY <2>1, <2>2
<1> QED
  BY <1>1, <1>2, CommandsInvariant, PTL DEF Spec

\* The versions of every item and register are numbered without gaps, all but
\* the current one have ended, and nothing is stored beyond it
\* (VersionUtil.nextVersion, StoreBaseImpl.doUpdate), whatever commands follow
\* each other.
THEOREM SerialVersionChain ==
    ASSUME OneThread
    PROVE  Spec => []VersionChain
<1>1. CommandInv /\ SerialInv => VersionChain
  <2> SUFFICES ASSUME CommandInv, SerialInv, NEW x \in Things, NEW n \in 1 .. MaxVersion
               PROVE  LET v == db.ver[x][n] IN
                      /\ v.ends # {} <=> n < db.cur[x]
                      /\ IF n > db.cur[x] THEN v = NoVersion
                         ELSE v.begins # {} \/ (x = Root /\ n = 1)
    BY DEF VersionChain, Chained
  <2>1. Chronicle(db, x, now) /\ db.cur[x] \in Nat /\ n \in Nat
    BY DEF SerialInv, Orderly, CommandInv, TypeOK, Database, Nums
  <2> QED
    BY <2>1 DEF Chronicle
<1> QED
  BY <1>1, CommandsInvariant, SerialInvariant, PTL

\* getVersionAt finds one version at most for any time, and for the present the
\* current version, even when several writes fall into one tick of the clock.
THEOREM SerialVersionAt ==
    ASSUME OneThread
    PROVE  Spec => []VersionAtEveryTime
<1>1. CommandInv /\ SerialInv => VersionAtEveryTime
  <2> SUFFICES ASSUME CommandInv, SerialInv, NEW x \in Things
               PROVE  /\ \A time \in 0 .. now : Cardinality(versionsAt(db, x, time)) <= 1
                      /\ known(db, x) /\ db.ver[x][db.cur[x]].begins # {} =>
                            versionsAt(db, x, now) = {db.cur[x]}
    BY DEF VersionAtEveryTime
  <2> DEFINE c == db.cur[x]
             v == db.ver[x]
  <2>1. /\ MaxVersion \in Nat /\ c \in 0 .. MaxVersion /\ now \in Nat /\ Time \subseteq Nat
        /\ \A n \in 1 .. MaxVersion : v[n] \in Version
    BY StoreBounds DEF CommandInv, TypeOK, Database, Nums, Time
  <2>2. \A n \in 1 .. MaxVersion : v[n].begins \subseteq Nat /\ v[n].ends \subseteq Nat
    BY <2>1 DEF Version
  <2>3. /\ \A n \in 1 .. MaxVersion :
              /\ v[n].ends # {} <=> n < c
              /\ n > c => v[n] = NoVersion
              /\ \A u \in v[n].begins : u <= now
        /\ \A m, n \in 1 .. MaxVersion :
              m < n => \A s \in v[m].begins, u \in v[n].begins : s <= u
    BY DEF SerialInv, Orderly, Chronicle
  <2>4. \A n \in 1 .. MaxVersion : n < MaxVersion => v[n].ends = v[n + 1].begins
    BY DEF CommandInv, StoreInv, Sound, Meets
  <2> HIDE DEF c, v
  \* Of two versions the earlier one has ended when the later one begins.
  <2>5. ASSUME NEW time \in Nat, NEW m \in 1 .. MaxVersion, NEW n \in 1 .. MaxVersion, m < n,
               NEW start \in v[n].begins, start <= time
        PROVE  \E end \in v[m].ends : end <= time
    <3>1. n <= c
      BY <2>1, <2>3, <2>5 DEF NoVersion
    <3>2. m + 1 \in 1 .. MaxVersion /\ m < MaxVersion /\ m < c
      BY <2>1, <2>5, <3>1
    <3>3. PICK end \in v[m].ends : TRUE
      BY <2>3, <3>2
    <3>4. end \in v[m + 1].begins
      BY <2>4, <3>2, <3>3
    <3>5. CASE m + 1 = n
      <4>1. start \in v[m].ends
        BY <2>4, <2>5, <3>2, <3>5
      <4> QED
        BY <2>5, <4>1
    <3>6. CASE m + 1 # n
      <4>1. m + 1 < n
        BY <2>5, <3>6
      <4>2. end <= start
        BY <2>3, <2>5, <3>2, <3>4, <4>1
      <4>3. end \in Nat /\ start \in Nat
        BY <2>2, <2>5, <3>3
      <4> QED
        BY <2>5, <3>3, <4>2, <4>3
    <3> QED
      BY <3>5, <3>6
  <2>6. ASSUME NEW time \in Nat, NEW m \in versionsAt(db, x, time), NEW n \in versionsAt(db, x, time)
        PROVE  m = n
    <3>1. /\ m \in 1 .. MaxVersion /\ n \in 1 .. MaxVersion
          /\ \E start \in v[m].begins : start <= time
          /\ \E start \in v[n].begins : start <= time
          /\ ~ \E end \in v[m].ends : end <= time
          /\ ~ \E end \in v[n].ends : end <= time
      BY DEF versionsAt, v
    <3>2. ~(m < n) /\ ~(n < m)
      BY <2>5, <3>1
    <3> QED
      BY <3>1, <3>2
  <2>7. ASSUME NEW time \in 0 .. now
        PROVE  Cardinality(versionsAt(db, x, time)) <= 1
    <3> DEFINE S == versionsAt(db, x, time)
    <3>1. time \in Nat
      BY <2>1
    <3>2. CASE S = {}
      BY <3>2, FS_EmptySet
    <3>3. CASE S # {}
      <4>1. PICK n : S = {n}
        BY <2>6, <3>1, <3>3
      <4>2. Cardinality(S) = 1
        BY <4>1, FS_Singleton
      <4> QED
        BY <4>2
    <3> QED
      BY <3>2, <3>3
  <2>8. ASSUME known(db, x), db.ver[x][db.cur[x]].begins # {}
        PROVE  versionsAt(db, x, now) = {db.cur[x]}
    <3>1. c \in 1 .. MaxVersion /\ v[c].begins # {}
      BY <2>1, <2>8 DEF known, c, v
    <3>2. \E start \in v[c].begins : start <= now
      BY <2>3, <3>1
    <3>3. v[c].ends = {}
      BY <2>1, <2>3, <3>1
    <3>4. c \in versionsAt(db, x, now)
      BY <3>1, <3>2, <3>3 DEF versionsAt, v
    <3> QED
      BY <2>1, <2>6, <3>4 DEF c
  <2> QED
    BY <2>7, <2>8
<1> QED
  BY <1>1, CommandsInvariant, SerialInvariant, PTL

\* What getVersionAt answers for a time that is over never changes, nor do the
\* status and the annotations of that version, whatever commands follow.
THEOREM SerialHistory ==
    ASSUME OneThread
    PROVE  Spec => HistoryStable
<1>1. CommandInv /\ SerialInv /\ [Next]_vars =>
        [\A x \in Things, time \in Time :
          time < now' =>
             /\ versionsAt(db', x, time) = versionsAt(db, x, time)
             /\ \A n \in versionsAt(db, x, time) :
                   /\ db'.ver[x][n].status = db.ver[x][n].status
                   /\ db'.ver[x][n].notes = db.ver[x][n].notes]_vars
  <2> SUFFICES ASSUME CommandInv, SerialInv, Next
               PROVE  \A x \in Things, time \in Time :
                        time < now' =>
                           /\ versionsAt(db', x, time) = versionsAt(db, x, time)
                           /\ \A n \in versionsAt(db, x, time) :
                                 /\ db'.ver[x][n].status = db.ver[x][n].status
                                 /\ db'.ver[x][n].notes = db.ver[x][n].notes
    OBVIOUS
  <2>1. PICK t \in Thread : Request(t) \/ Step(t)
    BY DEF Next
  <2>2. SerialMove(t)
    BY <2>1, SerialMoves
  <2> QED
    BY <2>2 DEF SerialMove, PastKept
<1> QED
  BY <1>1, CommandsInvariant, SerialInvariant, PTL DEF Spec, HistoryStable

\* "If the resource already has an owl:versionInfo marker then the next version
\* number in sequence will be used" (VersionUtil.nextVersion): of requests that
\* follow each other, none makes an older version current again.
THEOREM SerialVersionAdvances ==
    ASSUME OneThread
    PROVE  Spec => VersionAdvances
<1>1. CommandInv /\ SerialInv /\ [Next]_vars => [\A x \in Things : db'.cur[x] >= db.cur[x]]_vars
  <2> SUFFICES ASSUME CommandInv, SerialInv, Next
               PROVE  \A x \in Things : db'.cur[x] >= db.cur[x]
    OBVIOUS
  <2>1. PICK t \in Thread : Request(t) \/ Step(t)
    BY DEF Next
  <2>2. SerialMove(t)
    BY <2>1, SerialMoves
  <2> QED
    BY <2>2 DEF SerialMove, PastKept
<1> QED
  BY <1>1, CommandsInvariant, SerialInvariant, PTL DEF Spec, VersionAdvances

\* The current version of a register links to the registers among its members
\* and to no others (doUpdateRegister, addToRegister).
THEOREM SerialSubregisters ==
    ASSUME OneThread
    PROVE  Spec => []SubregistersListed
<1>1. SerialInv => SubregistersListed
  BY DEF SerialInv, Orderly, Subregisters, SubregistersListed, currentVersion
<1> QED
  BY <1>1, SerialInvariant, PTL

\* Every stored version of an item has exactly one status, so that getStatus,
\* which takes any of the values, is well defined.
THEOREM SerialOneStatus ==
    ASSUME OneThread
    PROVE  Spec => []OneStatusPerVersion
<1>1. SerialInv => OneStatusPerVersion
  <2> SUFFICES ASSUME SerialInv, NEW x \in Items, NEW n \in 1 .. db.cur[x]
               PROVE  Cardinality(db.ver[x][n].status) = 1
    BY DEF OneStatusPerVersion
  <2>1. PICK status \in Statuses : db.ver[x][n].status = {status}
    BY DEF SerialInv, Orderly, OneStatus
  <2> QED
    BY <2>1, FS_Singleton
<1> QED
  BY <1>1, SerialInvariant, PTL

\* An item's current status moves along Status.legalNextState only, unless the
\* request has the Force permission.
THEOREM SerialLifecycle ==
    ASSUME OneThread
    PROVE  Spec => LegalLifecycle
<1>1. CommandInv /\ SerialInv /\ [Next]_vars =>
        [\A x \in Items :
          known(db, x) =>
             \A new \in currentVersion(db', x).status :
                \/ \E old \in currentVersion(db, x).status :
                      legalNextState(old, new)
                \/ \E t \in Thread : job[t].force]_vars
  <2> SUFFICES ASSUME CommandInv, SerialInv, Next
               PROVE  \A x \in Items :
                        known(db, x) =>
                           \A new \in currentVersion(db', x).status :
                              \/ \E old \in currentVersion(db, x).status :
                                    legalNextState(old, new)
                              \/ \E t \in Thread : job[t].force
    OBVIOUS
  <2>1. PICK t \in Thread : Request(t) \/ Step(t)
    BY DEF Next
  <2>2. SerialMove(t)
    BY <2>1, SerialMoves
  <2> QED
    BY <2>2 DEF SerialMove, AllKept, ItemKept
<1> QED
  BY <1>1, CommandsInvariant, SerialInvariant, PTL DEF Spec, LegalLifecycle

\* Only a PUT drops an annotation of an item from its current version.
THEOREM SerialAnnotations ==
    ASSUME OneThread
    PROVE  Spec => NotesKept
<1>1. CommandInv /\ SerialInv /\ [Next]_vars =>
        [\A x \in Items :
          known(db, x) =>
             \/ currentVersion(db, x).notes \subseteq
                   currentVersion(db', x).notes
             \/ \E t \in Thread : pc[t] = "put" /\ pc'[t] # "put"]_vars
  <2> SUFFICES ASSUME CommandInv, SerialInv, Next
               PROVE  \A x \in Items :
                        known(db, x) =>
                           \/ currentVersion(db, x).notes \subseteq
                                 currentVersion(db', x).notes
                           \/ \E t \in Thread : pc[t] = "put" /\ pc'[t] # "put"
    OBVIOUS
  <2>1. PICK t \in Thread : Request(t) \/ Step(t)
    BY DEF Next
  <2>2. SerialMove(t)
    BY <2>1, SerialMoves
  <2> QED
    BY <2>2 DEF SerialMove, AllKept, ItemKept
<1> QED
  BY <1>1, CommandsInvariant, SerialInvariant, PTL DEF Spec, NotesKept
==============================================================================
