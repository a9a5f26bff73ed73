--------------------------- MODULE Commands_proofs ---------------------------
(***************************************************************************)
(* Theorems about the update commands and the versioned store, for any     *)
(* items, registers, request threads, operations and bounds.               *)
(***************************************************************************)
EXTENDS Commands, TLAPS

------------------------------------------------------------------------------
(* The store *)

\* Version n of x is stored.
Has(d, x, n) ==
    n \in 1 .. MaxVersion /\ (d.ver[x][n].begins # {} \/ (x = Root /\ n = 1))

\* A description with versionInfo n can become the next version of x.
Base(d, x, n) == n = 0 \/ Has(d, x, n)

\* In database e, description s of x is stored as the next version: what is
\* there afterwards that was in d, version by version.
Succeeds(d, e, x, s, time) ==
    LET k == s.num + 1 IN
    /\ e.cur[x] = k
    /\ \A n \in 1 .. MaxVersion :
          n # k => /\ e.ver[x][n].status = d.ver[x][n].status
                   /\ e.ver[x][n].sub = d.ver[x][n].sub
                   /\ e.ver[x][n].notes = d.ver[x][n].notes
                   /\ e.ver[x][n].begins = d.ver[x][n].begins
    /\ e.ver[x][k].status = d.ver[x][k].status \cup s.status
    /\ e.ver[x][k].sub = d.ver[x][k].sub \cup s.sub
    /\ e.ver[x][k].notes = d.ver[x][k].notes \cup s.notes
    /\ e.ver[x][k].begins = d.ver[x][k].begins \cup {time}
    /\ \A n \in 1 .. MaxVersion : n # s.num => e.ver[x][n].ends = d.ver[x][n].ends
    /\ s.num # 0 => e.ver[x][s.num].ends = d.ver[x][s.num].ends \cup {time}

\* Database e is d with that one change.
Updated(d, e, x, s, time) ==
    /\ e \in Database
    /\ e.member = d.member
    /\ \A y \in Things : y # x => e.cur[y] = d.cur[y] /\ e.ver[y] = d.ver[y]
    /\ Succeeds(d, e, x, s, time)

\* That is what doUpdate does with VersionUtil.nextVersion
\* (store/StoreBaseImpl.java).
LEMMA UpdateFacts ==
    ASSUME NEW d \in Database, NEW x \in Things, NEW s \in Description,
           s.num < MaxVersion, NEW time \in Time
    PROVE  Updated(d, doUpdate(d, x, s, time), x, s, time)
<1> DEFINE k == s.num + 1
           v == d.ver[x][k]
           w == [status |-> v.status \cup s.status, sub |-> v.sub \cup s.sub,
                 notes |-> v.notes \cup s.notes, begins |-> v.begins \cup {time},
                 ends |-> v.ends]
           f == [d.ver[x] EXCEPT ![k] = w]
           g == [f EXCEPT ![s.num].ends = @ \cup {time}]
           h == IF s.num = 0 THEN f ELSE g
           next == [d EXCEPT
               !.cur[x] = s.num + 1,
               !.ver[x][s.num + 1] =
                   [status |-> @.status \cup s.status,
                    sub    |-> @.sub \cup s.sub,
                    notes  |-> @.notes \cup s.notes,
                    begins |-> @.begins \cup {time},
                    ends   |-> @.ends]]
           e == doUpdate(d, x, s, time)
<1>1. /\ k \in 1 .. MaxVersion
      /\ s.num \in 0 .. MaxVersion
      /\ d.cur \in [Things -> Nums]
      /\ d.ver \in [Things -> [1 .. MaxVersion -> Version]]
      /\ d.ver[x] \in [1 .. MaxVersion -> Version]
      /\ d.member \in SUBSET Items
  BY StoreBounds DEF Description, Nums, Database
<1>2. v \in Version /\ w \in Version
  BY <1>1 DEF Version, Description
<1>3. /\ next.cur = [d.cur EXCEPT ![x] = k]
      /\ next.ver = [d.ver EXCEPT ![x] = f]
      /\ next.member = d.member
      /\ next \in Database
  <2>1. next.cur = [d.cur EXCEPT ![x] = k] /\ next.ver = [d.ver EXCEPT ![x] = f]
        /\ next.member = d.member
    BY DEF Database
  <2>2. f \in [1 .. MaxVersion -> Version]
    BY <1>1, <1>2
  <2>3. next.cur \in [Things -> Nums] /\ next.ver \in [Things -> [1 .. MaxVersion -> Version]]
    <3> HIDE DEF next, f
    <3> QED BY <1>1, <2>1, <2>2 DEF Nums
  <2> HIDE DEF f, w
  <2>4. next \in Database
    BY <2>1, <2>3 DEF Database
  <2> QED
    BY <2>1, <2>4
<1> HIDE DEF w
<1>4. f \in [1 .. MaxVersion -> Version]
  BY <1>1, <1>2
<1>5. \A n \in 1 .. MaxVersion : f[n] = IF n = k THEN w ELSE d.ver[x][n]
  BY <1>1
<1> HIDE DEF f
<1>6. s.num # 0 =>
        /\ g \in [1 .. MaxVersion -> Version]
        /\ \A n \in 1 .. MaxVersion : n # s.num => g[n] = f[n]
        /\ g[s.num] = [f[s.num] EXCEPT !.ends = @ \cup {time}]
  <2> SUFFICES ASSUME s.num # 0
               PROVE  /\ g \in [1 .. MaxVersion -> Version]
                      /\ \A n \in 1 .. MaxVersion : n # s.num => g[n] = f[n]
                      /\ g[s.num] = [f[s.num] EXCEPT !.ends = @ \cup {time}]
    OBVIOUS
  <2>1. s.num \in 1 .. MaxVersion
    BY <1>1
  <2>2. [f[s.num] EXCEPT !.ends = @ \cup {time}] \in Version
    BY <2>1, <1>4 DEF Version
  <2>3. g = [f EXCEPT ![s.num] = [f[s.num] EXCEPT !.ends = @ \cup {time}]]
    OBVIOUS
  <2> QED
    BY <1>4, <2>1, <2>2, <2>3
<1> HIDE DEF g
<1>7. h \in [1 .. MaxVersion -> Version]
  BY <1>4, <1>6
<1>8. ASSUME NEW n \in 1 .. MaxVersion
      PROVE  /\ h[n].status = f[n].status /\ h[n].sub = f[n].sub
             /\ h[n].notes = f[n].notes /\ h[n].begins = f[n].begins
             /\ n # s.num => h[n].ends = f[n].ends
             /\ n = s.num => h[n].ends = f[n].ends \cup {time}
  <2>1. f[n] \in Version
    BY <1>4
  <2>2. CASE n = s.num
    <3>1. h[n] = [f[n] EXCEPT !.ends = @ \cup {time}]
      BY <1>6, <2>2
    <3> QED
      BY <2>1, <2>2, <3>1 DEF Version
  <2>3. CASE n # s.num
    <3>1. h[n] = f[n]
      BY <1>6, <2>3
    <3> QED
      BY <2>3, <3>1
  <2> QED
    BY <2>2, <2>3
<1> HIDE DEF h
<1>9. /\ e.cur = [d.cur EXCEPT ![x] = k]
      /\ e.ver = [d.ver EXCEPT ![x] = h]
      /\ e.member = d.member
      /\ e \in Database
  <2> HIDE DEF next
  <2>1. CASE s.num = 0
    <3>1. e = next
      BY <2>1 DEF doUpdate, next
    <3> QED
      BY <1>3, <2>1, <3>1 DEF h
  <2>2. CASE s.num # 0
    <3>1. e = [next EXCEPT !.ver[x][s.num].ends = @ \cup {time}]
      BY <2>2 DEF doUpdate, next
    <3>2. next.ver[x] = f
      BY <1>1, <1>3
    <3>3. e.cur = next.cur /\ e.member = next.member
          /\ e.ver = [next.ver EXCEPT ![x][s.num].ends = @ \cup {time}]
      BY <3>1, <1>3 DEF Database
    <3>4. e.ver = [d.ver EXCEPT ![x] = h]
      BY <3>2, <3>3, <1>1, <1>3, <2>2 DEF g, h
    <3>5. e \in Database
      <4>1. e = [next EXCEPT !.ver = [d.ver EXCEPT ![x] = h]]
        BY <3>1, <3>3, <3>4, <1>3 DEF Database
      <4>2. [d.ver EXCEPT ![x] = h] \in [Things -> [1 .. MaxVersion -> Version]]
        BY <1>1, <1>7
      <4> QED
        BY <4>1, <4>2, <1>3 DEF Database
    <3> QED
      BY <1>3, <3>3, <3>4, <3>5
  <2> QED
    BY <2>1, <2>2
<1> HIDE DEF e
<1>10. e.ver[x] = h /\ e.cur[x] = k /\ e.member = d.member
  BY <1>1, <1>9
<1>11. \A y \in Things : y # x => e.cur[y] = d.cur[y] /\ e.ver[y] = d.ver[y]
  BY <1>1, <1>9
<1>12. ASSUME NEW n \in 1 .. MaxVersion, n # k
       PROVE  f[n] = d.ver[x][n]
  BY <1>5, <1>12
<1>13. f[k] = w /\ k # s.num
  BY <1>1, <1>5
<1>14. /\ w.status = v.status \cup s.status /\ w.sub = v.sub \cup s.sub
       /\ w.notes = v.notes \cup s.notes /\ w.begins = v.begins \cup {time}
       /\ w.ends = v.ends
  BY DEF w
<1>15. \A n \in 1 .. MaxVersion : f[n].ends = d.ver[x][n].ends
  BY <1>12, <1>13, <1>14
<1> HIDE DEF v
<1>16. /\ \A n \in 1 .. MaxVersion : n # s.num => h[n].ends = d.ver[x][n].ends
       /\ s.num # 0 => h[s.num].ends = d.ver[x][s.num].ends \cup {time}
  BY <1>1, <1>8, <1>15
<1>17. /\ h[k].status = d.ver[x][k].status \cup s.status
       /\ h[k].sub = d.ver[x][k].sub \cup s.sub
       /\ h[k].notes = d.ver[x][k].notes \cup s.notes
       /\ h[k].begins = d.ver[x][k].begins \cup {time}
  <2> HIDE DEF k
  <2> QED
    BY <1>1, <1>8, <1>13, <1>14 DEF v
<1>18. \A n \in 1 .. MaxVersion :
         n # k =>
            /\ h[n].status = d.ver[x][n].status
            /\ h[n].sub = d.ver[x][n].sub
            /\ h[n].notes = d.ver[x][n].notes
            /\ h[n].begins = d.ver[x][n].begins
  BY <1>8, <1>12
<1> QED
  <2>1. /\ \A n \in 1 .. MaxVersion : n # s.num => e.ver[x][n].ends = d.ver[x][n].ends
        /\ s.num # 0 => e.ver[x][s.num].ends = d.ver[x][s.num].ends \cup {time}
    BY <1>10, <1>16
  <2>2. /\ e.ver[x][k].status = d.ver[x][k].status \cup s.status
        /\ e.ver[x][k].sub = d.ver[x][k].sub \cup s.sub
        /\ e.ver[x][k].notes = d.ver[x][k].notes \cup s.notes
        /\ e.ver[x][k].begins = d.ver[x][k].begins \cup {time}
    BY <1>10, <1>17
  <2>3. \A n \in 1 .. MaxVersion :
          n # k =>
            /\ e.ver[x][n].status = d.ver[x][n].status
            /\ e.ver[x][n].sub = d.ver[x][n].sub
            /\ e.ver[x][n].notes = d.ver[x][n].notes
            /\ e.ver[x][n].begins = d.ver[x][n].begins
    BY <1>10, <1>18
  <2> QED
    BY <1>9, <1>10, <1>11, <2>1, <2>2, <2>3 DEF e, Updated, Succeeds

\* Each version begins when the one before it ends, in any database.
Meets(d) ==
    \A x \in Things, n \in 1 .. MaxVersion :
        n < MaxVersion => d.ver[x][n].ends = d.ver[x][n + 1].begins

\* The stored versions have no gap, and the current one is stored.
Gapless(d) ==
    \A x \in Things :
        /\ \A n \in 1 .. MaxVersion : Has(d, x, n) => n = 1 \/ Has(d, x, n - 1)
        /\ known(d, x) => Has(d, x, d.cur[x])

\* What a write has to keep.
Sound(d) == d \in Database /\ Meets(d) /\ Gapless(d)

\* Nothing that is stored is lost.
Grows(d, e) ==
    \A x \in Things :
        /\ known(d, x) => known(e, x)
        /\ \A n \in 1 .. MaxVersion : Has(d, x, n) => Has(e, x, n)

\* Writes that follow each other lose nothing.
LEMMA GrowsTransitive ==
    ASSUME NEW d, NEW e, NEW f, Grows(d, e), Grows(e, f)
    PROVE  Grows(d, f)
  BY DEF Grows

\* A write of a description that was read from the store keeps the intervals
\* together and leaves no gap, however old the description is.
LEMMA UpdateSound ==
    ASSUME NEW d, Sound(d), NEW x \in Things, NEW s \in Description,
           s.num < MaxVersion, Base(d, x, s.num), NEW time \in Time
    PROVE  LET e == doUpdate(d, x, s, time) IN
           Sound(e) /\ Grows(d, e) /\ known(e, x)
<1> DEFINE e == doUpdate(d, x, s, time)
           k == s.num + 1
<1>1. d \in Database /\ s.num \in Nat /\ MaxVersion \in Nat /\ k \in 1 .. MaxVersion
  BY StoreBounds DEF Sound, Description, Nums
<1>2. /\ e \in Database
      /\ e.cur[x] = k
      /\ \A y \in Things : y # x => e.cur[y] = d.cur[y] /\ e.ver[y] = d.ver[y]
      /\ \A n \in 1 .. MaxVersion : n # k => e.ver[x][n].begins = d.ver[x][n].begins
      /\ e.ver[x][k].begins = d.ver[x][k].begins \cup {time}
      /\ \A n \in 1 .. MaxVersion : n # s.num => e.ver[x][n].ends = d.ver[x][n].ends
      /\ s.num # 0 => e.ver[x][s.num].ends = d.ver[x][s.num].ends \cup {time}
  <2>1. Updated(d, e, x, s, time)
    BY <1>1, UpdateFacts
  <2> HIDE DEF e
  <2> QED
    BY <2>1 DEF Updated, Succeeds
<1> HIDE DEF e
<1>3. Meets(e)
  <2> SUFFICES ASSUME NEW y \in Things, NEW n \in 1 .. MaxVersion, n < MaxVersion
               PROVE  e.ver[y][n].ends = e.ver[y][n + 1].begins
    BY DEF Meets
  <2>1. d.ver[y][n].ends = d.ver[y][n + 1].begins
    BY DEF Sound, Meets
  <2>2. CASE y # x
    BY <1>2, <2>1, <2>2
  <2>3. CASE y = x /\ n = s.num
    <3>1. s.num # 0 /\ n + 1 = k
      BY <2>3
    <3> HIDE DEF k
    <3> QED
      BY <1>2, <2>1, <2>3, <3>1
  <2>4. CASE y = x /\ n # s.num
    <3>1. n + 1 \in 1 .. MaxVersion /\ n + 1 # k
      BY <1>1, <2>4
    <3> QED
      BY <1>2, <2>1, <2>4, <3>1
  <2> QED
    BY <2>2, <2>3, <2>4
<1>4. \A y \in Things, n \in 1 .. MaxVersion : Has(d, y, n) => Has(e, y, n)
  <2> SUFFICES ASSUME NEW y \in Things, NEW n \in 1 .. MaxVersion, Has(d, y, n)
               PROVE  Has(e, y, n)
    OBVIOUS
  <2>1. CASE y # x
    BY <1>2, <2>1 DEF Has
  <2>2. CASE y = x
    BY <1>1, <1>2, <2>2 DEF Has
  <2> QED
    BY <2>1, <2>2
<1>5. Has(e, x, k)
  <2> HIDE DEF k
  <2> QED
    BY <1>1, <1>2 DEF Has
<1>6. \A y \in Things, n \in 1 .. MaxVersion :
         Has(e, y, n) => Has(d, y, n) \/ (y = x /\ n = k)
  <2> SUFFICES ASSUME NEW y \in Things, NEW n \in 1 .. MaxVersion, Has(e, y, n),
                      ~(y = x /\ n = k)
               PROVE  Has(d, y, n)
    OBVIOUS
  <2>1. CASE y # x
    BY <1>2, <2>1 DEF Has
  <2>2. CASE y = x /\ n # k
    BY <1>2, <2>2 DEF Has
  <2> QED
    BY <2>1, <2>2
<1>7. known(e, x)
  BY <1>1, <1>2 DEF known
<1>8. Grows(d, e)
  <2>1. \A y \in Things : known(d, y) => known(e, y)
    BY <1>2, <1>7 DEF known
  <2> QED
    BY <1>4, <2>1 DEF Grows
<1>9. Gapless(e)
  <2> SUFFICES ASSUME NEW y \in Things
               PROVE  /\ \A n \in 1 .. MaxVersion : Has(e, y, n) => n = 1 \/ Has(e, y, n - 1)
                      /\ known(e, y) => Has(e, y, e.cur[y])
    BY DEF Gapless
  <2>1. ASSUME NEW n \in 1 .. MaxVersion, Has(e, y, n), n # 1
        PROVE  Has(e, y, n - 1)
    <3>1. n - 1 \in 1 .. MaxVersion
      BY <2>1, <1>1
    <3>2. CASE Has(d, y, n)
      <4>1. Has(d, y, n - 1)
        BY <2>1, <3>2 DEF Sound, Gapless
      <4> QED
        BY <4>1, <3>1, <1>4
    <3>3. CASE y = x /\ n = k
      <4>1. n - 1 = s.num /\ s.num # 0
        BY <1>1, <2>1, <3>3
      <4>2. Has(d, x, s.num)
        BY <4>1 DEF Base
      <4> QED
        BY <4>1, <4>2, <3>1, <3>3, <1>4
    <3> QED
      BY <2>1, <3>2, <3>3, <1>6
  <2>2. ASSUME known(e, y)
        PROVE  Has(e, y, e.cur[y])
    <3>1. CASE y = x
      BY <3>1, <1>2, <1>5
    <3>2. CASE y # x
      <4>1. known(d, y) /\ e.cur[y] = d.cur[y]
        BY <2>2, <3>2, <1>2 DEF known
      <4>2. Has(d, y, d.cur[y])
        BY <4>1 DEF Sound, Gapless
      <4>3. d.cur[y] \in 1 .. MaxVersion
        BY <4>2 DEF Has
      <4> QED
        BY <4>1, <4>2, <4>3, <1>4
    <3> QED
      BY <3>1, <3>2
  <2> QED
    BY <2>1, <2>2
<1> QED
  BY <1>2, <1>3, <1>7, <1>8, <1>9 DEF Sound, e

\* The description that doUpdateRegister stores: the links to subregisters are
\* restored, and num is the versionInfo it is left with.
Restored(d, r, s, num) ==
    [s EXCEPT !.num = num, !.sub = IF known(d, r) THEN currentVersion(d, r).sub ELSE {}]

\* The same of a write of a register (StoreBaseImpl.doUpdateRegister).
LEMMA UpdateRegisterSound ==
    ASSUME NEW d, Sound(d), NEW r \in Regs, NEW s \in Description,
           NEW num \in Nums, num < MaxVersion, Base(d, r, num), NEW time \in Time
    PROVE  LET e == doUpdateRegister(d, r, s, num, time) IN
           /\ Sound(e) /\ Grows(d, e) /\ known(e, r)
           /\ e.member = d.member
           /\ e.cur[r] = num + 1
           /\ \A y \in Things : y # r => e.cur[y] = d.cur[y] /\ e.ver[y] = d.ver[y]
           /\ Restored(d, r, s, num) \in Description
           /\ Succeeds(d, e, r, Restored(d, r, s, num), time)
<1> DEFINE sub == IF known(d, r) THEN currentVersion(d, r).sub ELSE {}
           u == Restored(d, r, s, num)
<1>1. d \in Database /\ r \in Things
  BY DEF Sound, Things
<1>2. sub \in SUBSET Regs
  <2>1. ASSUME known(d, r)
        PROVE  d.ver[r][d.cur[r]].sub \in SUBSET Regs
    <3>1. d.cur[r] \in 1 .. MaxVersion
      BY <1>1, <2>1, StoreBounds DEF known, Database, Nums
    <3>2. d.ver[r][d.cur[r]] \in Version
      BY <1>1, <3>1 DEF Database
    <3> QED
      BY <3>2 DEF Version
  <2> QED
    BY <2>1 DEF currentVersion
<1>3. u \in Description /\ u.num = num
  <2>1. u = [s EXCEPT !.num = num, !.sub = sub]
    BY DEF Restored
  <2> HIDE DEF sub, u
  <2> QED
    BY <1>2, <2>1 DEF Description
<1> HIDE DEF u
<1>4. doUpdateRegister(d, r, s, num, time) = doUpdate(d, r, u, time)
  BY DEF doUpdateRegister, Restored, u
<1>5. Updated(d, doUpdate(d, r, u, time), r, u, time)
  BY <1>1, <1>3, UpdateFacts
<1>6. LET e == doUpdate(d, r, u, time) IN Sound(e) /\ Grows(d, e) /\ known(e, r)
  BY <1>1, <1>3, UpdateSound
<1> QED
  BY <1>3, <1>4, <1>5, <1>6 DEF Updated, Succeeds, u

\* The versionInfo that nextVersion finds on the description of a register
\* names a stored version of it, if there is one (copyProperty).
LEMMA VersionInfosStored ==
    ASSUME NEW d, Sound(d), NEW r \in Regs, NEW s \in Description,
           Base(d, r, s.num), NEW num \in versionInfos(d, r, s)
    PROVE  num \in Nums /\ Base(d, r, num)
<1>1. d \in Database /\ r \in Things
  BY DEF Sound, Things
<1>2. s.num \in Nums /\ d.cur[r] \in Nums
  BY <1>1 DEF Description, Database
<1>3. CASE num = s.num
  BY <1>2, <1>3
<1>4. CASE num # s.num
  <2>1. num = d.cur[r] /\ known(d, r)
    BY <1>4 DEF versionInfos
  <2> QED
    BY <1>1, <1>2, <2>1 DEF Sound, Gapless, Base
<1> QED
  BY <1>3, <1>4

\* What is in the store: it is sound, a register's item is there only with the
\* register's own description, and so is a member of a register.
StoreInv(d) ==
    /\ Sound(d)
    /\ \A x \in Items : known(d, x) /\ isRegister(x) => known(d, Entity[x])
    /\ \A x \in d.member : known(d, x)

\* Items and registers are told apart, and an entity is no item.
LEMMA ItemsAndRegisters ==
    /\ Items \subseteq Things /\ Regs \subseteq Things /\ Root \in Regs
    /\ \A x \in Items : x \notin Regs /\ Parent[x] \in Regs
    /\ \A x \in Items : isRegister(x) => Entity[x] \in Regs
    /\ \A x, y \in Items : Entity[x] # y
  BY ShapeAssumption DEF Things, isRegister

\* doUpdateItem without the entity, of an item that is in the store.
LEMMA ItemStored ==
    ASSUME NEW d, StoreInv(d), NEW x \in Items, known(d, x), NEW s \in Description,
           s.num < MaxVersion, Base(d, x, s.num), NEW time \in Time
    PROVE  LET e == updateItem(d, x, s, time) IN
           StoreInv(e) /\ Grows(d, e) /\ known(e, x)
<1> DEFINE e == updateItem(d, x, s, time)
<1>1. x \in Things /\ d \in Database
  BY ItemsAndRegisters DEF StoreInv, Sound
<1>2. Sound(e) /\ Grows(d, e) /\ known(e, x)
  BY <1>1, UpdateSound DEF StoreInv, updateItem
<1>3. Updated(d, e, x, s, time)
  BY <1>1, UpdateFacts DEF updateItem
<1> HIDE DEF e
<1>4. \A y \in Items : known(e, y) => known(d, y)
  BY <1>1, <1>3, ItemsAndRegisters DEF Updated, Succeeds, known
<1>5. \A y \in Items : known(e, y) /\ isRegister(y) => known(e, Entity[y])
  BY <1>2, <1>4, ItemsAndRegisters DEF StoreInv, Grows
<1>6. \A y \in e.member : known(e, y)
  <2>1. e.member = d.member /\ d.member \subseteq Things
    BY <1>1, <1>3, ItemsAndRegisters DEF Updated, Database
  <2> QED
    BY <1>2, <2>1 DEF StoreInv, Grows
<1> QED
  BY <1>2, <1>5, <1>6 DEF StoreInv, e

\* doUpdateItem with the entity: the item need not be in the store.
LEMMA ItemAndEntityStored ==
    ASSUME NEW d, StoreInv(d), NEW x \in Items, NEW s \in Description,
           s.num < MaxVersion, Base(d, x, s.num), NEW en \in Description,
           NEW num \in Nums, num < MaxVersion,
           isRegister(x) => Base(d, Entity[x], num), NEW time \in Time
    PROVE  LET e == updateItemAndEntity(d, x, s, en, num, time)
               i == doUpdate(d, x, s, time)
           IN  /\ StoreInv(e) /\ Grows(d, e) /\ known(e, x)
               /\ isRegister(x) => known(e, Entity[x])
               /\ e.member = d.member
               /\ \A y \in Items : e.cur[y] = i.cur[y] /\ e.ver[y] = i.ver[y]
               /\ \A r \in Regs : (isRegister(x) => r # Entity[x]) =>
                     e.cur[r] = d.cur[r] /\ e.ver[r] = d.ver[r]
<1> DEFINE i == doUpdate(d, x, s, time)
           e == updateItemAndEntity(d, x, s, en, num, time)
<1>1. x \in Things /\ d \in Database
  BY ItemsAndRegisters DEF StoreInv, Sound
<1>2. Sound(i) /\ Grows(d, i) /\ known(i, x)
  BY <1>1, UpdateSound DEF StoreInv
<1>3. Updated(d, i, x, s, time)
  BY <1>1, UpdateFacts
<1> HIDE DEF i
<1>4. /\ Sound(e) /\ Grows(i, e)
      /\ isRegister(x) => known(e, Entity[x])
      /\ e.member = i.member
      /\ \A y \in Things : (isRegister(x) => y # Entity[x]) =>
            e.cur[y] = i.cur[y] /\ e.ver[y] = i.ver[y]
  <2>1. CASE ~isRegister(x)
    <3>1. e = i
      BY <2>1 DEF updateItemAndEntity, i
    <3>2. Grows(i, i)
      BY DEF Grows
    <3> HIDE DEF e
    <3> QED
      BY <2>1, <3>1, <3>2, <1>2
  <2>2. CASE isRegister(x)
    <3>1. e = doUpdateRegister(i, Entity[x], en, num, time) /\ Entity[x] \in Regs
      BY <2>2, ItemsAndRegisters DEF updateItemAndEntity, i
    <3> HIDE DEF e
    <3>2. Base(i, Entity[x], num)
      BY <2>2, <1>2, <3>1, ItemsAndRegisters DEF Base, Grows, Has
    <3> QED
      BY <2>2, <3>1, <3>2, <1>2, UpdateRegisterSound
  <2> QED
    BY <2>1, <2>2
<1> HIDE DEF e
<1>5. Grows(d, e) /\ known(e, x)
  BY <1>1, <1>2, <1>4, GrowsTransitive DEF Grows
<1>6. \A y \in Items : e.cur[y] = i.cur[y] /\ e.ver[y] = i.ver[y]
  BY <1>4, ItemsAndRegisters
<1>7. \A r \in Regs : i.cur[r] = d.cur[r] /\ i.ver[r] = d.ver[r]
  BY <1>3, ItemsAndRegisters DEF Updated
<1>8. \A y \in Items : known(e, y) => y = x \/ known(d, y)
  BY <1>3, <1>6, ItemsAndRegisters DEF Updated, Succeeds, known
<1>9. \A y \in Items : known(e, y) /\ isRegister(y) => known(e, Entity[y])
  BY <1>4, <1>5, <1>8, ItemsAndRegisters DEF StoreInv, Grows
<1>10. e.member = d.member
  BY <1>3, <1>4 DEF Updated
<1>11. \A y \in e.member : known(e, y)
  <2>1. d.member \subseteq Things
    BY <1>1, ItemsAndRegisters DEF Database
  <2> QED
    BY <1>5, <1>10, <2>1 DEF StoreInv, Grows
<1>12. \A r \in Regs : (isRegister(x) => r # Entity[x]) =>
          e.cur[r] = d.cur[r] /\ e.ver[r] = d.ver[r]
  BY <1>4, <1>7, ItemsAndRegisters
<1> QED
  BY <1>4, <1>5, <1>6, <1>9, <1>10, <1>11, <1>12 DEF StoreInv, e, i

\* The link to the entity of x that its register gets, if it is a register.
NewLinks(x) == IF isRegister(x) THEN {Entity[x]} ELSE {}

\* Database e is d with x linked to its register r: the versions and their
\* intervals are the same, and the current version of r has the new link.
Linked(d, e, x, r) ==
    /\ e \in Database
    /\ e.cur = d.cur
    /\ e.member = d.member \cup {x}
    /\ \A y \in Things : y # r => e.ver[y] = d.ver[y]
    /\ \A n \in 1 .. MaxVersion :
          /\ e.ver[r][n].begins = d.ver[r][n].begins
          /\ e.ver[r][n].ends = d.ver[r][n].ends
          /\ e.ver[r][n].status = d.ver[r][n].status
          /\ e.ver[r][n].notes = d.ver[r][n].notes
          /\ n # d.cur[r] => e.ver[r][n].sub = d.ver[r][n].sub
    /\ e.ver[r][d.cur[r]].sub = d.ver[r][d.cur[r]].sub \cup NewLinks(x)

\* That is what the links are that addToRegister adds.
LEMMA LinksKeep ==
    ASSUME NEW d \in Database, NEW x \in Items, NEW r \in Regs, known(d, r),
           NEW l, l = [d EXCEPT !.member = @ \cup {x}],
           NEW e, \/ ~isRegister(x) /\ e = l
                  \/ /\ isRegister(x)
                     /\ e = [l EXCEPT !.ver[r][l.cur[r]].sub = @ \cup {Entity[x]}]
    PROVE  Linked(d, e, x, r)
<1> DEFINE c == d.cur[r]
           v == [d.ver[r][c] EXCEPT !.sub = @ \cup {Entity[x]}]
           f == [d.ver[r] EXCEPT ![c] = v]
<1>1. l \in Database /\ l.cur = d.cur /\ l.ver = d.ver /\ l.member = d.member \cup {x}
  BY DEF Database
<1>2. r \in Things /\ d.ver \in [Things -> [1 .. MaxVersion -> Version]]
  BY ItemsAndRegisters DEF Database
<1>3. CASE ~isRegister(x) /\ e = l
  BY <1>1, <1>3 DEF Linked, NewLinks
<1>4. CASE isRegister(x) /\ e = [l EXCEPT !.ver[r][l.cur[r]].sub = @ \cup {Entity[x]}]
  <2>1. c \in 1 .. MaxVersion
    BY <1>2, StoreBounds DEF known, Database, Nums
  <2>2. d.ver[r][c] \in Version /\ Entity[x] \in Regs
    <3>1. Entity[x] \in Regs
      BY <1>4, ItemsAndRegisters
    <3> HIDE DEF c
    <3> QED
      BY <1>2, <2>1, <3>1
  <2>3. v \in Version /\ v.begins = d.ver[r][c].begins /\ v.ends = d.ver[r][c].ends
        /\ v.status = d.ver[r][c].status /\ v.notes = d.ver[r][c].notes
        /\ v.sub = d.ver[r][c].sub \cup {Entity[x]}
    BY <2>2 DEF Version
  <2>4. e.cur = l.cur /\ e.member = l.member /\ e.ver = [d.ver EXCEPT ![r] = f]
    BY <1>1, <1>4 DEF Database
  <2> HIDE DEF v
  <2>5. f \in [1 .. MaxVersion -> Version]
    BY <1>2, <2>1, <2>3
  <2>6. \A n \in 1 .. MaxVersion : f[n] = IF n = c THEN v ELSE d.ver[r][n]
    BY <1>2, <2>1
  <2> HIDE DEF f
  <2>7. [d.ver EXCEPT ![r] = f] \in [Things -> [1 .. MaxVersion -> Version]]
    BY <1>2, <2>5
  <2>8. e = [l EXCEPT !.ver = [d.ver EXCEPT ![r] = f]]
    <3>1. e = [l EXCEPT !.ver = [l.ver EXCEPT ![r][l.cur[r]].sub = @ \cup {Entity[x]}]]
      BY <1>4
    <3>2. e.ver = [l.ver EXCEPT ![r][l.cur[r]].sub = @ \cup {Entity[x]}]
      BY <1>1, <3>1 DEF Database
    <3> QED
      BY <2>4, <3>1, <3>2
  <2>9. e \in Database
    BY <1>1, <2>7, <2>8 DEF Database
  <2>10. e.ver[r] = f /\ \A y \in Things : y # r => e.ver[y] = d.ver[y]
    BY <1>2, <2>4
  <2>11. ASSUME NEW n \in 1 .. MaxVersion
         PROVE  /\ e.ver[r][n].begins = d.ver[r][n].begins
                /\ e.ver[r][n].ends = d.ver[r][n].ends
                /\ e.ver[r][n].status = d.ver[r][n].status
                /\ e.ver[r][n].notes = d.ver[r][n].notes
                /\ n # c => e.ver[r][n].sub = d.ver[r][n].sub
    <3>1. CASE n = c
      BY <2>3, <2>6, <2>10, <3>1
    <3>2. CASE n # c
      BY <2>6, <2>10, <3>2
    <3> QED
      BY <3>1, <3>2
  <2>12. e.ver[r][c].sub = d.ver[r][c].sub \cup NewLinks(x)
    BY <1>4, <2>1, <2>3, <2>6, <2>10 DEF NewLinks
  <2> QED
    BY <1>1, <2>4, <2>9, <2>10, <2>11, <2>12 DEF Linked
<1> QED
  BY <1>3, <1>4

\* addToRegister: the item, its entity, the register and the links.
LEMMA AddStored ==
    ASSUME NEW d, StoreInv(d), NEW x \in Items, NEW s \in Description,
           s.num < MaxVersion, Base(d, x, s.num), NEW reg \in Description,
           reg.num < MaxVersion, Base(d, Parent[x], reg.num),
           NEW num \in Nums, num < MaxVersion,
           isRegister(x) => Base(d, Entity[x], num), NEW time \in Time
    PROVE  LET e == addToRegister(d, reg, x, s, num, time)
               i == doUpdate(d, x, s, time)
           IN  /\ StoreInv(e) /\ Grows(d, e) /\ known(e, x)
               /\ isRegister(x) => known(e, Entity[x])
               /\ e.member = d.member \cup {x}
               /\ \A y \in Items : e.cur[y] = i.cur[y] /\ e.ver[y] = i.ver[y]
<1> DEFINE i == doUpdate(d, x, s, time)
           r == Parent[x]
           a == updateItemAndEntity(d, x, s, Blank, num, time)
           b == doUpdate(a, r, reg, time)
           l == [b EXCEPT !.member = @ \cup {x}]
           e == addToRegister(d, reg, x, s, num, time)
<1>1. r \in Regs /\ r \in Things /\ x \in Things
  BY ItemsAndRegisters
<1>2. Blank \in Description
  BY StoreBounds DEF Blank, Description, Nums
<1>3. /\ StoreInv(a) /\ Grows(d, a) /\ known(a, x)
      /\ isRegister(x) => known(a, Entity[x])
      /\ a.member = d.member
      /\ \A y \in Items : a.cur[y] = i.cur[y] /\ a.ver[y] = i.ver[y]
  BY <1>2, ItemAndEntityStored
<1>4. \/ ~isRegister(x) /\ e = l
      \/ isRegister(x) /\ e = [l EXCEPT !.ver[r][l.cur[r]].sub = @ \cup {Entity[x]}]
  BY DEF addToRegister
<1> HIDE DEF i, a, e
<1>5. Base(a, r, reg.num)
  BY <1>1, <1>3 DEF Base, Grows, Has
<1>6. Sound(b) /\ Grows(a, b) /\ known(b, r)
  BY <1>1, <1>3, <1>5, UpdateSound DEF StoreInv
<1>7. Updated(a, b, r, reg, time)
  BY <1>1, <1>3, UpdateFacts DEF StoreInv, Sound
<1> HIDE DEF b
<1>8. /\ e \in Database
      /\ e.cur = b.cur
      /\ e.member = b.member \cup {x}
      /\ \A y \in Things : y # r => e.ver[y] = b.ver[y]
      /\ \A n \in 1 .. MaxVersion :
            /\ e.ver[r][n].begins = b.ver[r][n].begins
            /\ e.ver[r][n].ends = b.ver[r][n].ends
  <2>1. b \in Database
    BY <1>6 DEF Sound
  <2>2. l = [b EXCEPT !.member = @ \cup {x}]
    OBVIOUS
  <2> HIDE DEF l, r
  <2>3. Linked(b, e, x, r)
    BY <1>1, <1>4, <1>6, <2>1, <2>2, LinksKeep
  <2> QED
    BY <2>3 DEF Linked
<1> HIDE DEF r
<1>9. /\ \A y \in Things, n \in 1 .. MaxVersion : Has(e, y, n) <=> Has(b, y, n)
      /\ \A y \in Things, n \in 1 .. MaxVersion :
            e.ver[y][n].begins = b.ver[y][n].begins /\ e.ver[y][n].ends = b.ver[y][n].ends
      /\ \A y \in Things : known(e, y) <=> known(b, y)
  <2>1. \A y \in Things, n \in 1 .. MaxVersion :
            e.ver[y][n].begins = b.ver[y][n].begins /\ e.ver[y][n].ends = b.ver[y][n].ends
    BY <1>8
  <2>2. \A y \in Things : known(e, y) <=> known(b, y)
    BY <1>8 DEF known
  <2>3. \A y \in Things, n \in 1 .. MaxVersion : Has(e, y, n) <=> Has(b, y, n)
    BY <2>1 DEF Has
  <2> QED
    BY <2>1, <2>2, <2>3
<1>10. Sound(e)
  <2>1. Meets(e)
    <3> SUFFICES ASSUME NEW y \in Things, NEW n \in 1 .. MaxVersion, n < MaxVersion
                 PROVE  e.ver[y][n].ends = e.ver[y][n + 1].begins
      BY DEF Meets
    <3>1. n + 1 \in 1 .. MaxVersion
      BY StoreBounds
    <3> QED
      BY <1>6, <1>9, <3>1 DEF Sound, Meets
  <2>2. Gapless(e)
    <3> SUFFICES ASSUME NEW y \in Things
                 PROVE  /\ \A n \in 1 .. MaxVersion :
                              Has(e, y, n) => n = 1 \/ Has(e, y, n - 1)
                        /\ known(e, y) => Has(e, y, e.cur[y])
      BY DEF Gapless
    <3>1. /\ \A n \in 1 .. MaxVersion : Has(b, y, n) => n = 1 \/ Has(b, y, n - 1)
          /\ known(b, y) => Has(b, y, b.cur[y])
      BY <1>6 DEF Sound, Gapless
    <3>2. \A n : Has(b, y, n) => Has(e, y, n)
      BY <1>9 DEF Has
    <3> QED
      BY <1>8, <1>9, <3>1, <3>2
  <2> QED
    BY <1>8, <2>1, <2>2 DEF Sound
<1>11. Grows(b, e)
  BY <1>9 DEF Grows
<1>12. Grows(d, e) /\ Grows(a, e)
  BY <1>3, <1>6, <1>11, GrowsTransitive
<1>13. e.member = d.member \cup {x}
  BY <1>3, <1>7, <1>8 DEF Updated
<1>14. \A y \in Items : e.cur[y] = i.cur[y] /\ e.ver[y] = i.ver[y]
  <2>1. \A y \in Items : y \in Things /\ y # r
    BY <1>1, ItemsAndRegisters
  <2>2. \A y \in Items : b.cur[y] = a.cur[y] /\ b.ver[y] = a.ver[y]
    BY <1>7, <2>1 DEF Updated
  <2> QED
    BY <1>3, <1>8, <2>1, <2>2
<1>15. known(e, x) /\ (isRegister(x) => known(e, Entity[x]))
  BY <1>1, <1>3, <1>12, ItemsAndRegisters DEF Grows
<1>16. \A y \in Items : known(e, y) /\ isRegister(y) => known(e, Entity[y])
  <2>1. \A y \in Items : known(e, y) <=> known(a, y)
    <3>1. \A y \in Items : e.cur[y] = a.cur[y]
      BY <1>3, <1>14
    <3> QED
      BY <3>1 DEF known
  <2> QED
    BY <1>3, <1>12, <2>1, ItemsAndRegisters DEF Grows, StoreInv
<1>17. \A y \in e.member : known(e, y)
  <2>1. d.member \subseteq Things
    BY ItemsAndRegisters DEF StoreInv, Sound, Database
  <2> QED
    BY <1>12, <1>13, <1>15, <2>1 DEF StoreInv, Grows
<1> QED
  BY <1>10, <1>12, <1>13, <1>14, <1>15, <1>16, <1>17 DEF StoreInv, e, i

------------------------------------------------------------------------------
(* The commands *)

(***************************************************************************)
(* What a request in progress knows, place by place: the item or register  *)
(* it will write is in the store, and the description it holds of it was   *)
(* read there at some time.                                                *)
(***************************************************************************)
Prepared(d, p, j) ==
    /\ p # "idle" => j.key \in LockURI /\ j.op \in Operations
    /\ p \in {"register", "add"} =>
          /\ j.status \in Statuses
          /\ \A x \in j.todo :
                /\ Base(d, Parent[x], j.reg.num)
                /\ j.children # {} => isRegister(x)
                /\ \A y \in j.children : Parent[y] = Entity[x]
    /\ p = "add" => j.at \in j.todo
    /\ p = "reread" =>
          /\ j.status \in Statuses
          /\ j.at \in Items /\ isRegister(j.at) /\ known(d, Entity[j.at])
          /\ \A y \in j.children : Parent[y] = Entity[j.at]
    /\ p = "graph" =>
          /\ j.status \in Statuses
          /\ j.item \in Items /\ ~isRegister(j.item)
          /\ Base(d, Parent[j.item], j.reg.num)
          /\ j.children = {}
    /\ p \in {"graphUpdate", "put", "patch", "putEntity", "patchEntity", "annotate"} =>
          j.item \in Items /\ known(d, j.item) /\ Base(d, j.item, j.snap.num)
    /\ p = "graphUpdate" => ~isRegister(j.item)
    /\ p \in {"put", "patch", "putEntity", "patchEntity"} =>
          /\ j.op = "Update"
          /\ isRegister(j.item) => Base(d, Entity[j.item], j.reg.num)
    /\ p = "annotate" => j.op = "Annotate" /\ j.note \in Notes
    /\ p \in {"members", "member"} =>
          /\ j.status \in Statuses
          /\ \A x \in j.todo : known(d, x)
          /\ j.self => j.item \in Items /\ known(d, j.item) /\ Base(d, j.item, j.snap.num)
          /\ ~j.self => j.key \in Regs
    /\ p = "member" => j.at \in Items /\ known(d, j.at) /\ Base(d, j.at, j.seen.num)
    /\ p = "tag" => j.key \in Regs /\ Base(d, j.key, j.reg.num) /\ j.note \in Notes

\* The inductive invariant.
CommandInv ==
    /\ TypeOK
    /\ StoreInv(db)
    /\ \A t \in Thread : Prepared(db, pc[t], job[t])

\* What a command reads (doGetCurrentVersion) and the blank descriptions it
\* starts from can become the next version.
LEMMA DescriptionsRead ==
    /\ Blank \in Description /\ Blank.num = 0
    /\ NoJob \in Job
    /\ \A d : StoreInv(d) => \A x \in Things : known(d, x) =>
          /\ currentVersion(d, x) \in Description
          /\ Base(d, x, currentVersion(d, x).num)
    /\ \A s \in Description, status \in Statuses :
          setStatus(s, status) \in Description /\ setStatus(s, status).num = s.num
<1>1. Blank \in Description /\ Blank.num = 0
  BY StoreBounds DEF Blank, Description, Nums
<1>2. NoJob \in Job
  BY <1>1 DEF NoJob, Job
<1>3. ASSUME NEW d, StoreInv(d), NEW x \in Things, known(d, x)
      PROVE  /\ currentVersion(d, x) \in Description
             /\ Base(d, x, currentVersion(d, x).num)
  <2>1. d \in Database /\ Has(d, x, d.cur[x])
    BY <1>3 DEF StoreInv, Sound, Gapless
  <2>2. d.cur[x] \in 1 .. MaxVersion /\ d.cur[x] \in Nums
    BY <2>1, StoreBounds DEF Has, Nums
  <2>3. d.ver[x][d.cur[x]] \in Version
    BY <2>1, <2>2 DEF Database
  <2> QED
    BY <2>1, <2>2, <2>3 DEF currentVersion, Description, Version, Base
<1>4. ASSUME NEW s \in Description, NEW status \in Statuses
      PROVE  setStatus(s, status) \in Description /\ setStatus(s, status).num = s.num
  BY DEF setStatus, Description
<1> QED
  BY <1>1, <1>2, <1>3, <1>4

\* A step of thread t keeps the invariant if it leaves the store in order,
\* loses nothing from it, and t knows what it has to know at its next place:
\* the other threads know what they knew.
LEMMA StepKeeps ==
    ASSUME CommandInv, NEW t \in Thread, NEW p \in PC, NEW j \in Job,
           pc' = [pc EXCEPT ![t] = p], job' = [job EXCEPT ![t] = j],
           StoreInv(db'), Grows(db, db'), Prepared(db', p, j),
           now' \in Time, Locks!TypeOK', forwards' \subseteq Delegated,
           event' \in Event, requests' \in 0 .. MaxRequests
    PROVE  CommandInv'
<1>1. pc \in [Thread -> PC] /\ job \in [Thread -> Job]
  BY DEF CommandInv, TypeOK
<1>2. TypeOK'
  BY <1>1 DEF TypeOK, StoreInv, Sound
<1>3. ASSUME NEW u \in Thread
      PROVE  Prepared(db', pc'[u], job'[u])
  <2>1. CASE u = t
    BY <1>1, <2>1
  <2>2. CASE u # t
    <3> DEFINE q == pc[u]
               k == job[u]
    <3>1. pc'[u] = q /\ job'[u] = k /\ k \in Job /\ Prepared(db, q, k)
      BY <1>1, <2>2 DEF CommandInv
    <3> HIDE DEF q, k
    <3>2. \A x \in Things, n \in Nums : Base(db, x, n) => Base(db', x, n)
      BY DEF Grows, Base, Has
    <3>3. \A x \in Things : known(db, x) => known(db', x)
      BY DEF Grows
    <3>4. k.reg.num \in Nums /\ k.snap.num \in Nums /\ k.seen.num \in Nums
      BY <3>1 DEF Job, Description
    <3>5. k.todo \subseteq Items
      BY <3>1 DEF Job
    <3>6. Prepared(db', q, k)
      BY <3>1, <3>2, <3>3, <3>4, <3>5, ItemsAndRegisters DEF Prepared
    <3> QED
      BY <3>1, <3>6
  <2> QED
    BY <2>1, <2>2
<1> QED
  BY <1>2, <1>3 DEF CommandInv

\* Every action keeps the invariant.
LEMMA CommandStep == CommandInv /\ [Next]_vars => CommandInv'
<1> SUFFICES ASSUME CommandInv, [Next]_vars
             PROVE  CommandInv'
  OBVIOUS
<1> USE DescriptionsRead, ItemsAndRegisters
<1>1. /\ TypeOK /\ StoreInv(db)
      /\ now \in Time /\ holder \in [LockURI -> Thread \cup {NoThread}]
      /\ forwards \subseteq Delegated /\ event \in Event
      /\ pc \in [Thread -> PC] /\ job \in [Thread -> Job]
      /\ requests \in 0 .. MaxRequests
      /\ Grows(db, db)
  BY DEF CommandInv, TypeOK, Locks!TypeOK, Grows
<1>2. CASE UNCHANGED vars
  BY <1>2 DEF CommandInv, TypeOK, vars, Locks!TypeOK
<1>3. ASSUME NEW t \in Thread, Request(t)
      PROVE  CommandInv'
  <2> DEFINE Started(p, j) ==
               /\ Start(t, p, j)
               /\ p \in PC /\ j \in Job
               /\ Prepared(db, p, j)
               /\ Locks!TypeOK'
               /\ UNCHANGED <<db, now, forwards, event>>
  <2>1. ASSUME NEW p, NEW j, Started(p, j)
        PROVE  CommandInv'
    <3>1. requests' \in 0 .. MaxRequests
      BY <1>1, <2>1, CommandAssumption DEF Start
    <3>2. j.op \in Operations /\ pc' = [pc EXCEPT ![t] = p] /\ job' = [job EXCEPT ![t] = j]
      BY <2>1 DEF Start
    <3> QED
      BY <1>1, <2>1, <3>1, <3>2, StepKeeps
  <2> HIDE DEF Started
  <2>2. ASSUME NEW r \in Regs, NEW xs \in SUBSET Items, NEW status \in Offered,
               ValidateRegister(t, r, xs, status)
        PROVE  CommandInv'
    <3> DEFINE j == [NoJob EXCEPT !.op = "Register", !.key = r, !.todo = xs,
                        !.reg = currentVersion(db, r), !.status = status]
    <3>0. "Register" \in Operations
      BY <2>2 DEF ValidateRegister, Start, NoJob
    <3>1. known(db, r) /\ r \in Things /\ r \in LockURI /\ status \in Statuses
      BY <2>2, CommandAssumption DEF ValidateRegister, LockURI
    <3>2. currentVersion(db, r) \in Description /\ Base(db, r, currentVersion(db, r).num)
      BY <1>1, <3>1
    <3>3. j \in Job
      BY <3>1, <3>2, <3>0 DEF NoJob, Job
    <3>4. Prepared(db, "register", j)
      BY <2>2, <3>1, <3>2, <3>0 DEF NoJob, Prepared, ValidateRegister
    <3> QED
      BY <1>1, <2>1, <2>2, <3>3, <3>4 DEF Started, ValidateRegister, PC, Locks!TypeOK
  <2>3. ASSUME NEW c \in Items, NEW xs \in SUBSET Items, NEW status \in Offered,
               ValidateBatch(t, c, xs, status)
        PROVE  CommandInv'
    <3> DEFINE r == Parent[c]
               j == [NoJob EXCEPT !.op = "Batch", !.key = r, !.todo = {c},
                        !.reg = currentVersion(db, r), !.status = status,
                        !.children = xs]
    <3>0. "Batch" \in Operations
      BY <2>3 DEF ValidateBatch, Start, NoJob
    <3>1. known(db, r) /\ r \in Things /\ r \in LockURI /\ status \in Statuses
      BY <2>3, CommandAssumption DEF ValidateBatch, LockURI
    <3>2. currentVersion(db, r) \in Description /\ Base(db, r, currentVersion(db, r).num)
      BY <1>1, <3>1
    <3>3. j \in Job
      BY <3>1, <3>2, <3>0 DEF NoJob, Job
    <3>4. Prepared(db, "register", j)
      BY <2>3, <3>1, <3>2, <3>0 DEF NoJob, Prepared, ValidateBatch
    <3> QED
      BY <1>1, <2>1, <2>3, <3>3, <3>4 DEF Started, ValidateBatch, PC, Locks!TypeOK
  <2>4. ASSUME NEW x \in Items, ValidateGraph(t, x)
        PROVE  CommandInv'
    <3> DEFINE r == Parent[x]
               j == [NoJob EXCEPT !.op = "RegisterGraph", !.key = r, !.item = x,
                        !.reg = currentVersion(db, r), !.status = "Submitted"]
    <3>0. "RegisterGraph" \in Operations
      BY <2>4 DEF ValidateGraph, Start, NoJob
    <3>1. known(db, r) /\ r \in Things /\ r \in LockURI /\ "Submitted" \in Statuses
      BY <2>4 DEF ValidateGraph, LockURI, Statuses
    <3>2. currentVersion(db, r) \in Description /\ Base(db, r, currentVersion(db, r).num)
      BY <1>1, <3>1
    <3>3. j \in Job
      BY <3>1, <3>2, <3>0 DEF NoJob, Job
    <3>4. Prepared(db, "graph", j)
      BY <2>4, <3>1, <3>2, <3>0 DEF NoJob, Prepared, ValidateGraph
    <3> QED
      BY <1>1, <2>1, <2>4, <3>3, <3>4 DEF Started, ValidateGraph, PC, Locks!TypeOK
  <2>5. ASSUME NEW x \in Items, NEW label \in PC, NEW status \in Offered \cup {None},
               NEW force \in BOOLEAN, ValidateItemUpdate(t, x, label, status, force)
        PROVE  CommandInv'
    <3> DEFINE j == [NoJob EXCEPT !.op = "Update", !.key = x, !.item = x,
                        !.snap = currentVersion(db, x),
                        !.status = status, !.force = force]
    <3>0. "Update" \in Operations
      BY <2>5 DEF ValidateItemUpdate, Start, NoJob
    <3>1. known(db, x) /\ x \in Things /\ x \in LockURI /\ status \in Statuses \cup {None}
      BY <2>5, CommandAssumption DEF ValidateItemUpdate, LockURI
    <3>2. currentVersion(db, x) \in Description /\ Base(db, x, currentVersion(db, x).num)
      BY <1>1, <3>1
    <3>3. j \in Job
      BY <3>1, <3>2, <3>0 DEF NoJob, Job
    <3>4. Prepared(db, label, j)
      BY <2>5, <3>1, <3>2, <3>0 DEF NoJob, Blank, Base, Prepared, ValidateItemUpdate
    <3> QED
      BY <1>1, <2>1, <2>5, <3>3, <3>4 DEF Started, ValidateItemUpdate, Locks!TypeOK
  <2>6. ASSUME NEW x \in Items, NEW label \in PC, ValidateEntityUpdate(t, x, label)
        PROVE  CommandInv'
    <3> DEFINE g == IF isRegister(x) THEN currentVersion(db, Entity[x]) ELSE Blank
               j == [NoJob EXCEPT !.op = "Update", !.key = x, !.item = x,
                        !.snap = currentVersion(db, x), !.reg = g]
    <3>0. "Update" \in Operations
      BY <2>6 DEF ValidateEntityUpdate, Start, NoJob
    <3>1. known(db, x) /\ x \in Things /\ x \in LockURI
      BY <2>6 DEF ValidateEntityUpdate, LockURI
    <3>2. currentVersion(db, x) \in Description /\ Base(db, x, currentVersion(db, x).num)
      BY <1>1, <3>1
    <3>3. g \in Description /\ (isRegister(x) => Base(db, Entity[x], g.num))
      <4>1. CASE isRegister(x)
        <5>1. Entity[x] \in Things /\ known(db, Entity[x])
          BY <1>1, <3>1, <4>1 DEF StoreInv
        <5> QED
          BY <1>1, <4>1, <5>1
      <4> QED
        BY <4>1
    <3> HIDE DEF g
    <3>4. j \in Job
      BY <3>1, <3>2, <3>3, <3>0 DEF NoJob, Job
    <3>5. Prepared(db, label, j)
      BY <2>6, <3>1, <3>2, <3>3, <3>0 DEF NoJob, Prepared, ValidateEntityUpdate
    <3> QED
      BY <1>1, <2>1, <2>6, <3>4, <3>5 DEF g, Started, ValidateEntityUpdate, Locks!TypeOK
  <2>7. ASSUME NEW x \in Items, NEW status \in Offered, NEW force \in BOOLEAN,
               StatusUpdateItem(t, x, status, force)
        PROVE  CommandInv'
    <3> DEFINE j == [NoJob EXCEPT !.op = "StatusUpdate", !.key = x, !.item = x,
                        !.snap = currentVersion(db, x), !.self = TRUE,
                        !.status = status, !.force = force]
    <3>0. "StatusUpdate" \in Operations
      BY <2>7 DEF StatusUpdateItem, Start, NoJob
    <3>1. known(db, x) /\ x \in Things /\ x \in LockURI /\ status \in Statuses
      BY <2>7, CommandAssumption DEF StatusUpdateItem, LockURI
    <3>2. currentVersion(db, x) \in Description /\ Base(db, x, currentVersion(db, x).num)
      BY <1>1, <3>1
    <3>3. j \in Job
      BY <3>0, <3>1, <3>2 DEF NoJob, Job
    <3>4. Prepared(db, "members", j)
      BY <2>7, <3>0, <3>1, <3>2 DEF NoJob, Prepared
    <3>5. Locks!TypeOK'
      BY <1>1, <2>7, <3>1 DEF StatusUpdateItem, Locks!Acquire, Locks!TypeOK
    <3> QED
      BY <2>1, <2>7, <3>3, <3>4, <3>5 DEF Started, StatusUpdateItem, PC
  <2>8. ASSUME NEW x \in Items, NEW status \in Offered, NEW force \in BOOLEAN,
               StatusUpdateRegister(t, x, status, force)
        PROVE  CommandInv'
    <3> DEFINE xs == listMembers(db, Entity[x])
               j == [NoJob EXCEPT !.op = "StatusUpdateAll", !.key = Entity[x],
                        !.item = x, !.todo = xs, !.status = status, !.force = force]
    <3>0. "StatusUpdateAll" \in Operations
      BY <2>8 DEF StatusUpdateRegister, Start, NoJob
    <3>1. Entity[x] \in Regs /\ Entity[x] \in LockURI /\ status \in Statuses
      BY <2>8, CommandAssumption DEF StatusUpdateRegister, LockURI
    <3>2. xs \in SUBSET Items /\ \A y \in xs : known(db, y)
      BY <1>1 DEF listMembers, StoreInv, Sound, Database
    <3> HIDE DEF xs
    <3>3. j \in Job
      BY <3>0, <3>1, <3>2 DEF NoJob, Job
    <3>4. Prepared(db, "members", j)
      BY <2>8, <3>0, <3>1, <3>2 DEF NoJob, Prepared
    <3>5. Locks!TypeOK'
      BY <1>1, <2>8, <3>1 DEF StatusUpdateRegister, Locks!Acquire, Locks!TypeOK
    <3> QED
      BY <2>1, <2>8, <3>3, <3>4, <3>5 DEF xs, Started, StatusUpdateRegister, PC
  <2>9. ASSUME NEW x \in Items, NEW uri \in LockURI, Delete(t, x, uri)
        PROVE  CommandInv'
    <3> DEFINE xs == IF isRegister(x) THEN listMembers(db, Entity[x]) ELSE {}
               j == [NoJob EXCEPT !.op = "Delete", !.key = uri, !.item = x,
                        !.snap = currentVersion(db, x), !.self = TRUE,
                        !.todo = xs, !.status = "Invalid"]
    <3>0. "Delete" \in Operations
      BY <2>9 DEF Delete, Start, NoJob
    <3>1. known(db, x) /\ x \in Things /\ "Invalid" \in Statuses
      BY <2>9 DEF Delete, Statuses
    <3>2. currentVersion(db, x) \in Description /\ Base(db, x, currentVersion(db, x).num)
      BY <1>1, <3>1
    <3>3. xs \in SUBSET Items /\ \A y \in xs : known(db, y)
      BY <1>1 DEF listMembers, StoreInv, Sound, Database
    <3> HIDE DEF xs
    <3>4. j \in Job
      BY <3>0, <3>1, <3>2, <3>3 DEF NoJob, Job
    <3>5. Prepared(db, "members", j)
      BY <3>0, <3>1, <3>2, <3>3 DEF NoJob, Prepared
    <3>6. Locks!TypeOK'
      BY <1>1, <2>9 DEF Delete, Locks!Acquire, Locks!TypeOK
    <3> QED
      BY <2>1, <2>9, <3>4, <3>5, <3>6 DEF xs, Started, Delete, PC
  <2>10. ASSUME NEW x \in Items, NEW note \in Notes, Annotate(t, x, note)
         PROVE  CommandInv'
    <3> DEFINE j == [NoJob EXCEPT !.op = "Annotate", !.key = x, !.item = x,
                        !.snap = currentVersion(db, x), !.note = note]
    <3>0. "Annotate" \in Operations
      BY <2>10 DEF Annotate, Start, NoJob
    <3>1. known(db, x) /\ x \in Things /\ x \in LockURI
      BY <2>10 DEF Annotate, LockURI
    <3>2. currentVersion(db, x) \in Description /\ Base(db, x, currentVersion(db, x).num)
      BY <1>1, <3>1
    <3>3. j \in Job
      BY <3>0, <3>1, <3>2 DEF NoJob, Job
    <3>4. Prepared(db, "annotate", j)
      BY <3>0, <3>1, <3>2 DEF NoJob, Prepared
    <3>5. Locks!TypeOK'
      BY <1>1, <2>10, <3>1 DEF Annotate, Locks!Acquire, Locks!TypeOK
    <3> QED
      BY <2>1, <2>10, <3>3, <3>4, <3>5 DEF Started, Annotate, PC
  <2>11. ASSUME NEW r \in Regs, NEW note \in Notes, ValidateTag(t, r, note)
         PROVE  CommandInv'
    <3> DEFINE j == [NoJob EXCEPT !.op = "Tag", !.key = r,
                        !.reg = currentVersion(db, r), !.note = note]
    <3>0. "Tag" \in Operations
      BY <2>11 DEF ValidateTag, Start, NoJob
    <3>1. known(db, r) /\ r \in Things /\ r \in LockURI
      BY <2>11 DEF ValidateTag, LockURI
    <3>2. currentVersion(db, r) \in Description /\ Base(db, r, currentVersion(db, r).num)
      BY <1>1, <3>1
    <3>3. j \in Job
      BY <3>0, <3>1, <3>2 DEF NoJob, Job
    <3>4. Prepared(db, "tag", j)
      BY <3>0, <3>1, <3>2 DEF NoJob, Prepared
    <3> QED
      BY <1>1, <2>1, <2>11, <3>3, <3>4 DEF Started, ValidateTag, PC, Locks!TypeOK
  <2> QED
    BY <1>3, <2>2, <2>3, <2>4, <2>5, <2>6, <2>7, <2>8, <2>9, <2>10, <2>11 DEF Request
<1>4. ASSUME NEW t \in Thread, Step(t)
      PROVE  CommandInv'
  <2> DEFINE j == job[t]
  <2>1. /\ j \in Job /\ pc[t] \in PC /\ Prepared(db, pc[t], j)
        /\ j.snap \in Description /\ j.reg \in Description /\ j.seen \in Description
        /\ j.todo \subseteq Items /\ j.children \subseteq Items
        /\ requests' \in 0 .. MaxRequests
    BY <1>1, <1>4 DEF CommandInv, Job, Step
  \* The request goes on, or ends, with the store in order.
  <2> DEFINE StoreKept ==
               StoreInv(db') /\ Grows(db, db') /\ now' \in Time
               /\ forwards' \subseteq Delegated /\ event' \in Event
  <2>2. ASSUME NEW p \in PC, NEW k \in Job, Continue(t, p, k), StoreKept,
               Prepared(db', p, k)
        PROVE  CommandInv'
    <3>1. pc' = [pc EXCEPT ![t] = p] /\ job' = [job EXCEPT ![t] = k] /\ Locks!TypeOK'
      BY <1>1, <2>2 DEF Continue, Locks!TypeOK
    <3> QED
      BY <2>1, <2>2, <3>1, StepKeeps
  <2>3. ASSUME Finish(t), StoreKept, pc[t] # "idle"
        PROVE  CommandInv'
    <3>1. pc' = [pc EXCEPT ![t] = "idle"] /\ job' = [job EXCEPT ![t] = NoJob]
          /\ holder' = [holder EXCEPT ![j.key] = NoThread]
      BY <2>3 DEF Finish
    <3>2. j.key \in LockURI
      BY <2>1, <2>3 DEF Prepared
    <3>3. Locks!TypeOK'
      BY <1>1, <3>1, <3>2 DEF Locks!TypeOK
    <3>4. Prepared(db', "idle", NoJob)
      BY DEF Prepared
    <3>5. "idle" \in PC
      BY DEF PC
    <3> QED
      BY <2>1, <2>3, <3>1, <3>3, <3>4, <3>5, StepKeeps
  <2>4. UNCHANGED <<db, now, forwards, event>> => StoreKept
    BY <1>1
  <2>5. \A time \in Time : Clock(time) => now' \in Time
    BY DEF Clock
  <2>6. \A x \in Items : \A status : checkDelegation(x, status) => forwards' \subseteq Delegated
    BY <1>1 DEF checkDelegation
  <2>7. \A op \in Operations \cup {"StatusUpdate"}, x \in Things, body \in SUBSET Statuses :
          Notify(op, x, body) => event' \in Event
    BY DEF Notify, Event
  <2> HIDE DEF StoreKept, j
  <2>8. ASSUME NEW x \in Items, RegisterRefused(t, x) \/ MemberRefused(t, x)
        PROVE  CommandInv'
    BY <2>3, <2>4, <2>8 DEF RegisterRefused, MemberRefused
  <2>9. ASSUME NEW x \in Items, RegisterCheck(t, x)
        PROVE  CommandInv'
    <3> DEFINE k == [j EXCEPT !.at = x]
    <3>1. job' = [job EXCEPT ![t] = k] /\ pc' = [pc EXCEPT ![t] = "add"]
      BY <2>9 DEF RegisterCheck, j
    <3>2. k \in Job
      BY <2>1 DEF Job
    <3>3. Prepared(db', "add", k)
      BY <2>1, <2>9 DEF RegisterCheck, Prepared, Job, j
    <3>4. Locks!TypeOK'
      <4>1. j.key \in LockURI
        BY <2>1, <2>9 DEF RegisterCheck, Prepared
      <4> QED
        BY <1>1, <2>9, <4>1 DEF RegisterCheck, Locked, Locks!Acquire, Locks!TypeOK, j
    <3>5. StoreKept /\ "add" \in PC
      BY <2>4, <2>9 DEF RegisterCheck, PC
    <3> HIDE DEF k
    <3> QED
      BY <2>1, <3>1, <3>2, <3>3, <3>4, <3>5, StepKeeps DEF StoreKept
  <2>10. ASSUME NEW x \in Items, MemberRead(t, x)
         PROVE  CommandInv'
    <3> DEFINE k == [j EXCEPT !.at = x, !.seen = currentVersion(db, x), !.todo = @ \ {x}]
    <3>1. pc[t] = "members" /\ x \in j.todo /\ Continue(t, "member", k) /\ StoreKept /\ db' = db
      BY <2>4, <2>10 DEF MemberRead, j
    <3>2. x \in Things /\ known(db, x)
      BY <2>1, <3>1 DEF Prepared
    <3>3. currentVersion(db, x) \in Description /\ Base(db, x, currentVersion(db, x).num)
      BY <1>1, <3>2
    <3>4. k \in Job
      BY <2>1, <3>3 DEF Job
    <3>5. Prepared(db', "member", k)
      BY <2>1, <3>1, <3>2, <3>3 DEF Prepared, Job
    <3> HIDE DEF k
    <3> QED
      BY <2>2, <3>1, <3>4, <3>5 DEF PC
  <2>11. CASE BatchReread(t)
    <3> DEFINE r == Entity[j.at]
               k == [j EXCEPT !.reg = currentVersion(db, r), !.todo = j.children, !.children = {}]
    <3>1. pc[t] = "reread" /\ Continue(t, "register", k) /\ StoreKept /\ db' = db
      BY <2>4, <2>11 DEF BatchReread, j
    <3>2. r \in Things /\ known(db, r)
      BY <2>1, <3>1 DEF Prepared
    <3>3. currentVersion(db, r) \in Description /\ Base(db, r, currentVersion(db, r).num)
      BY <1>1, <3>2
    <3>4. k \in Job
      BY <2>1, <3>3 DEF Job
    <3>5. Prepared(db', "register", k)
      BY <2>1, <3>1, <3>2, <3>3 DEF Prepared, Job
    <3> HIDE DEF k
    <3> QED
      BY <2>2, <3>1, <3>4, <3>5 DEF PC
  <2>12. CASE GraphRead(t)
    <3> DEFINE x == j.item
               u == [j EXCEPT !.snap = currentVersion(db, x)]
               g == [j EXCEPT !.todo = {x}]
    <3>1. pc[t] = "graph" /\ StoreKept /\ db' = db
      BY <2>4, <2>12 DEF GraphRead, j
    <3>2. x \in Items /\ x \in Things /\ j.key \in LockURI
      BY <2>1, <3>1 DEF Prepared
    <3>3. Locks!TypeOK'
      BY <1>1, <2>12, <3>2 DEF GraphRead, Locks!Acquire, Locks!TypeOK, j
    <3>4. CASE /\ known(db, x)
               /\ pc' = [pc EXCEPT ![t] = "graphUpdate"]
               /\ job' = [job EXCEPT ![t] = u]
      <4>1. currentVersion(db, x) \in Description /\ Base(db, x, currentVersion(db, x).num)
        BY <1>1, <3>2, <3>4
      <4>2. u \in Job
        BY <2>1, <4>1 DEF Job
      <4>3. Prepared(db', "graphUpdate", u)
        BY <2>1, <3>1, <3>2, <3>4, <4>1 DEF Prepared, Job
      <4> HIDE DEF u
      <4> QED
        BY <2>1, <3>1, <3>3, <3>4, <4>2, <4>3, StepKeeps DEF StoreKept, PC
    <3>5. CASE /\ pc' = [pc EXCEPT ![t] = "register"]
               /\ job' = [job EXCEPT ![t] = g]
      <4>1. g \in Job
        BY <2>1, <3>2 DEF Job
      <4>2. Prepared(db', "register", g)
        BY <2>1, <3>1, <3>2 DEF Prepared, Job
      <4> HIDE DEF g
      <4> QED
        BY <2>1, <3>1, <3>3, <3>5, <4>1, <4>2, StepKeeps DEF StoreKept, PC
    <3> QED
      BY <2>12, <3>4, <3>5 DEF GraphRead, j
  <2>13. CASE RegisterAdd(t)
    <3> DEFINE x == j.at
               s == setStatus(Blank, j.status)
               rest == [j EXCEPT !.todo = @ \ {x}]
    <3>1. pc[t] = "add" /\ x \in j.todo /\ x \in Items /\ j.status \in Statuses
          /\ j.op \in Operations /\ Base(db, Parent[x], j.reg.num)
      BY <2>1, <2>13 DEF RegisterAdd, Prepared, j
    <3>2. s \in Description /\ s.num = 0 /\ s.status \in SUBSET Statuses
      BY <3>1 DEF Description
    <3> HIDE DEF s
    <3>3. PICK time \in Time, num \in Nums :
            /\ Clock(time)
            /\ num < MaxVersion
            /\ num \in IF isRegister(x) THEN versionInfos(db, Entity[x], Blank) ELSE {0}
            /\ db' = addToRegister(db, j.reg, x, s, num, time)
      BY <2>13 DEF RegisterAdd, s, j
    <3>4. isRegister(x) => Base(db, Entity[x], num)
      <4>1. ASSUME isRegister(x)
            PROVE  Base(db, Entity[x], num)
        <5>1. Base(db, Entity[x], Blank.num) /\ Entity[x] \in Regs
          BY <3>1, <4>1 DEF Base
        <5> QED
          BY <1>1, <3>3, <4>1, <5>1, VersionInfosStored DEF StoreInv
      <4> QED
        BY <4>1
    <3>5. /\ StoreInv(db') /\ Grows(db, db') /\ known(db', x)
          /\ isRegister(x) => known(db', Entity[x])
      <4>1. s.num < MaxVersion /\ Base(db, x, s.num) /\ j.reg.num < MaxVersion
        BY <2>13, <3>2, StoreBounds DEF RegisterAdd, Base, j
      <4> QED
        BY <1>1, <2>1, <3>1, <3>2, <3>3, <3>4, <4>1, AddStored
    <3>6. StoreKept
      <4>1. checkDelegation(x, j.status) /\ Notify(j.op, x, s.status)
        BY <2>13 DEF RegisterAdd, s, j
      <4> QED
        BY <2>5, <2>6, <2>7, <3>1, <3>2, <3>3, <3>5, <4>1 DEF StoreKept
    <3>7. rest \in Job
      BY <2>1 DEF Job
    <3>8. \A y \in Things, n \in Nums : Base(db, y, n) => Base(db', y, n)
      BY <3>5 DEF Grows, Base, Has
    <3>9. j.reg.num \in Nums
      BY <2>1 DEF Description
    <3>10. CASE rest.todo # {} /\ Continue(t, "register", rest)
      <4>1. Prepared(db', "register", rest)
        BY <2>1, <3>1, <3>8, <3>9 DEF Prepared, Job
      <4> HIDE DEF rest
      <4> QED
        BY <2>2, <3>6, <3>7, <3>10, <4>1 DEF PC
    <3>11. CASE rest.todo = {} /\ rest.children # {} /\ Continue(t, "reread", rest)
      <4>1. Prepared(db', "reread", rest)
        BY <2>1, <3>1, <3>5, <3>11 DEF Prepared, Job
      <4> HIDE DEF rest
      <4> QED
        BY <2>2, <3>6, <3>7, <3>11, <4>1 DEF PC
    <3>12. CASE Finish(t)
      BY <2>3, <3>1, <3>6, <3>12
    <3> QED
      BY <2>13, <3>10, <3>11, <3>12 DEF RegisterAdd, AfterAdd, j
  <2>14. CASE GraphUpdate(t)
    <3> DEFINE x == j.item
    <3>1. pc[t] = "graphUpdate" /\ x \in Items /\ ~isRegister(x) /\ Base(db, x, j.snap.num)
          /\ j.snap.num < MaxVersion
      BY <2>1, <2>14 DEF GraphUpdate, Prepared, j
    <3>2. PICK time \in Time :
            Clock(time) /\ db' = updateItemAndEntity(db, x, j.snap, Blank, 0, time)
      BY <2>14 DEF GraphUpdate, j
    <3>3. 0 \in Nums /\ 0 < MaxVersion
      BY StoreBounds DEF Nums
    <3>4. StoreInv(db') /\ Grows(db, db')
      BY <1>1, <2>1, <3>1, <3>2, <3>3, ItemAndEntityStored
    <3>5. StoreKept
      BY <1>1, <2>5, <2>14, <3>2, <3>4 DEF GraphUpdate, StoreKept
    <3> QED
      BY <2>3, <2>14, <3>1, <3>5 DEF GraphUpdate
  <2>15. CASE MemberWrite(t)
    <3> DEFINE x == j.at
               s == setStatus(j.seen, j.status)
               k == [j EXCEPT !.at = None, !.seen = Blank]
    <3>1. pc[t] = "member" /\ x \in Items /\ known(db, x) /\ Base(db, x, j.seen.num)
          /\ j.seen.num < MaxVersion /\ j.status \in Statuses
      BY <2>1, <2>15 DEF MemberWrite, Prepared, j
    <3>2. PICK time \in Time : Clock(time) /\ db' = updateItem(db, x, s, time)
      BY <2>15 DEF MemberWrite, j
    <3>3. s \in Description /\ s.num = j.seen.num
      BY <2>1, <3>1
    <3> HIDE DEF s
    <3>4. StoreInv(db') /\ Grows(db, db')
      BY <1>1, <2>1, <3>1, <3>2, <3>3, ItemStored
    <3>5. StoreKept
      BY <1>1, <2>5, <2>6, <2>15, <3>1, <3>2, <3>4 DEF MemberWrite, StoreKept, j
    <3>6. k \in Job
      BY <2>1 DEF Job
    <3>7. Prepared(db', "members", k)
      <4>1. \A y \in Things, n \in Nums : Base(db, y, n) => Base(db', y, n)
        BY <3>4 DEF Grows, Base, Has
      <4>2. \A y \in Things : known(db, y) => known(db', y)
        BY <3>4 DEF Grows
      <4>3. j.snap.num \in Nums
        BY <2>1 DEF Description
      <4> QED
        BY <2>1, <3>1, <4>1, <4>2, <4>3 DEF Prepared, Job
    <3> HIDE DEF k
    <3> QED
      BY <2>2, <2>15, <3>5, <3>6, <3>7 DEF MemberWrite, PC, k, j
  <2>16. CASE SelfWrite(t)
    <3> DEFINE x == j.item
               s == setStatus(j.snap, j.status)
    <3>1. pc[t] = "members" /\ x \in Items /\ known(db, x) /\ Base(db, x, j.snap.num)
          /\ j.snap.num < MaxVersion /\ j.status \in Statuses
      BY <2>1, <2>16 DEF SelfWrite, Prepared, j
    <3>2. PICK time \in Time : Clock(time) /\ db' = updateItem(db, x, s, time)
      BY <2>16 DEF SelfWrite, j
    <3>3. s \in Description /\ s.num = j.snap.num
      BY <2>1, <3>1
    <3> HIDE DEF s
    <3>4. StoreInv(db') /\ Grows(db, db')
      BY <1>1, <2>1, <3>1, <3>2, <3>3, ItemStored
    <3>5. forwards' \subseteq Delegated /\ event' \in Event
      <4>1. {j.status} \in SUBSET Statuses /\ x \in Things
        BY <3>1
      <4> QED
        BY <1>1, <2>6, <2>7, <2>16, <3>1, <4>1 DEF SelfWrite, j
    <3>6. StoreKept
      BY <2>5, <3>2, <3>4, <3>5 DEF StoreKept
    <3> QED
      BY <2>3, <2>16, <3>1, <3>6 DEF SelfWrite
  <2>17. CASE MembersDone(t)
    <3>1. pc[t] = "members" /\ j.key \in Things /\ {j.status} \in SUBSET Statuses
      BY <2>1, <2>17 DEF MembersDone, Prepared, j
    <3>2. event' \in Event
      BY <2>7, <2>17, <3>1 DEF MembersDone, j
    <3>3. StoreKept
      BY <1>1, <2>17, <3>2 DEF MembersDone, StoreKept
    <3> QED
      BY <2>3, <2>17, <3>1, <3>3 DEF MembersDone
  <2>18. CASE AnnotateWrite(t)
    <3> DEFINE x == j.item
               s == [j.snap EXCEPT !.notes = @ \cup {j.note}]
    <3>1. pc[t] = "annotate" /\ x \in Items /\ known(db, x) /\ Base(db, x, j.snap.num)
          /\ j.snap.num < MaxVersion /\ j.note \in Notes /\ "Annotate" \in Operations
      BY <2>1, <2>18 DEF AnnotateWrite, Prepared, j
    <3>2. PICK time \in Time : Clock(time) /\ db' = updateItem(db, x, s, time)
      BY <2>18 DEF AnnotateWrite, j
    <3>3. s \in Description /\ s.num = j.snap.num
      BY <2>1, <3>1 DEF Description
    <3> HIDE DEF s
    <3>4. StoreInv(db') /\ Grows(db, db')
      BY <1>1, <2>1, <3>1, <3>2, <3>3, ItemStored
    <3>5. event' \in Event
      <4>1. {} \in SUBSET Statuses /\ x \in Things
        BY <3>1
      <4> QED
        BY <2>7, <2>18, <3>1, <4>1 DEF AnnotateWrite, j
    <3>6. StoreKept
      BY <1>1, <2>5, <2>18, <3>2, <3>4, <3>5 DEF AnnotateWrite, StoreKept
    <3> QED
      BY <2>3, <2>18, <3>1, <3>6 DEF AnnotateWrite
  <2>19. CASE ExecTag(t)
    <3> DEFINE r == j.key
               s == [j.reg EXCEPT !.notes = @ \cup {j.note}]
    <3>1. pc[t] = "tag" /\ r \in Regs /\ Base(db, r, j.reg.num) /\ j.note \in Notes
      BY <2>1, <2>19 DEF ExecTag, Prepared, j
    <3>2. s \in Description /\ s.num = j.reg.num
      BY <2>1, <3>1 DEF Description
    <3> HIDE DEF s
    <3>3. PICK time \in Time, num \in versionInfos(db, r, s) :
            /\ Clock(time)
            /\ num < MaxVersion
            /\ db' = doUpdateRegister(db, r, s, num, time)
      BY <2>19 DEF ExecTag, s, j
    <3>4. num \in Nums /\ Base(db, r, num)
      BY <1>1, <3>1, <3>2, <3>3, VersionInfosStored DEF StoreInv
    <3>5. /\ Sound(db') /\ Grows(db, db') /\ db'.member = db.member
          /\ \A y \in Things : y # r => db'.cur[y] = db.cur[y]
      BY <1>1, <3>1, <3>2, <3>3, <3>4, UpdateRegisterSound DEF StoreInv
    <3>6. StoreInv(db')
      <4>1. \A y \in Items : known(db', y) <=> known(db, y)
        BY <3>1, <3>5 DEF known
      <4>2. db.member \subseteq Items
        BY <1>1 DEF StoreInv, Sound, Database
      <4> QED
        BY <1>1, <3>5, <4>1, <4>2 DEF StoreInv, Grows
    <3>7. StoreKept
      BY <1>1, <2>5, <2>19, <3>3, <3>5, <3>6 DEF ExecTag, StoreKept
    <3> QED
      BY <2>3, <2>19, <3>1, <3>7 DEF ExecTag
  <2>20. CASE ExecUpdate(t)
    <3> DEFINE x == j.item
    <3>1. /\ pc[t] # "idle" /\ x \in Items /\ known(db, x) /\ Base(db, x, j.snap.num)
          /\ j.snap.num < MaxVersion /\ "Update" \in Operations
          /\ isRegister(x) => Base(db, Entity[x], j.reg.num)
      BY <2>1, <2>20 DEF ExecUpdate, Prepared, j
    <3>2. PICK s \in UpdatedItems(t), time \in Time :
            /\ Clock(time)
            /\ \/ db' = updateItem(db, x, s, time)
               \/ /\ isRegister(x)
                  /\ \E e \in UpdatedEntities(t) :
                     \E num \in versionInfos(db, Entity[x], e) :
                       /\ num < MaxVersion
                       /\ db' = updateItemAndEntity(db, x, s, e, num, time)
            /\ UpdateDelegation(t, s)
            /\ Notify("Update", x, {j.status} \ {None})
      BY <2>20 DEF ExecUpdate, j
    <3>3. s \in Description /\ s.num = j.snap.num
      <4> DEFINE u == IF j.status = None THEN j.snap ELSE setStatus(j.snap, j.status)
      <4>1. u \in Description /\ u.num = j.snap.num
        BY <2>1 DEF Job
      <4> HIDE DEF u
      <4>2. s \in {u, [u EXCEPT !.notes = {}]}
        BY <3>2 DEF UpdatedItems, u, j
      <4> QED
        BY <4>1, <4>2 DEF Description
    <3>4. db' = updateItem(db, x, s, time) => StoreInv(db') /\ Grows(db, db')
      BY <1>1, <3>1, <3>3, ItemStored
    <3>5. ASSUME isRegister(x), NEW e \in UpdatedEntities(t),
                 NEW num \in versionInfos(db, Entity[x], e), num < MaxVersion,
                 db' = updateItemAndEntity(db, x, s, e, num, time)
          PROVE  StoreInv(db') /\ Grows(db, db')
      <4>1. e \in Description /\ e.num \in {0, j.reg.num}
        BY <2>1, <3>5 DEF UpdatedEntities, Blank, Description, j
      <4>2. Entity[x] \in Regs /\ Base(db, Entity[x], e.num)
        BY <3>1, <3>5, <4>1 DEF Base
      <4>3. num \in Nums /\ Base(db, Entity[x], num)
        BY <1>1, <3>5, <4>1, <4>2, VersionInfosStored DEF StoreInv
      <4> QED
        BY <1>1, <3>1, <3>3, <3>5, <4>1, <4>3, ItemAndEntityStored
    <3>6. StoreInv(db') /\ Grows(db, db')
      BY <3>2, <3>4, <3>5
    <3>7. forwards' \subseteq Delegated
      BY <1>1, <2>6, <3>1, <3>2 DEF UpdateDelegation, j
    <3>8. event' \in Event
      <4>1. {j.status} \ {None} \in SUBSET Statuses /\ x \in Things
        BY <2>1, <3>1 DEF Job
      <4> QED
        BY <2>7, <3>1, <3>2, <4>1
    <3>9. StoreKept
      BY <2>5, <3>2, <3>6, <3>7, <3>8 DEF StoreKept
    <3> QED
      BY <2>3, <2>20, <3>1, <3>9 DEF ExecUpdate
  <2> QED
    BY <1>4, <2>8, <2>9, <2>10, <2>11, <2>12, <2>13, <2>14, <2>15, <2>16, <2>17, <2>18,
       <2>19, <2>20 DEF Step
<1> QED
  BY <1>2, <1>3, <1>4 DEF Next

------------------------------------------------------------------------------
(* Theorems *)

\* Whatever the requests and their interleaving: the store is in order, and
\* every request in progress holds descriptions that were read from it.
THEOREM CommandsInvariant == Spec => []CommandInv
<1> USE DescriptionsRead, ItemsAndRegisters
<1>1. Init => CommandInv
  <2> SUFFICES ASSUME Init
               PROVE  CommandInv
    OBVIOUS
  <2>1. /\ db \in Database /\ \A x \in Things : db.cur[x] = IF x = Root THEN 1 ELSE 0
        /\ \A x \in Things, n \in 1 .. MaxVersion : db.ver[x][n] = NoVersion
        /\ db.member = {}
    <3>1. NoVersion \in Version
      BY DEF NoVersion, Version
    <3>2. [x \in Things |-> [n \in 1 .. MaxVersion |-> NoVersion]]
             \in [Things -> [1 .. MaxVersion -> Version]]
      BY <3>1
    <3>3. [x \in Things |-> IF x = Root THEN 1 ELSE 0] \in [Things -> Nums]
      BY StoreBounds DEF Nums
    <3>4. db \in Database
      BY <3>2, <3>3 DEF Init, bootstrap, Database
    <3>5. db.cur = [x \in Things |-> IF x = Root THEN 1 ELSE 0] /\ db.member = {}
          /\ db.ver = [x \in Things |-> [n \in 1 .. MaxVersion |-> NoVersion]]
      BY DEF Init, bootstrap
    <3> HIDE DEF NoVersion
    <3> QED
      BY <3>4, <3>5
  <2>2. Meets(db)
    <3> SUFFICES ASSUME NEW x \in Things, NEW n \in 1 .. MaxVersion, n < MaxVersion
                 PROVE  db.ver[x][n].ends = db.ver[x][n + 1].begins
      BY DEF Meets
    <3>1. n + 1 \in 1 .. MaxVersion
      BY StoreBounds
    <3>2. db.ver[x][n] = NoVersion /\ db.ver[x][n + 1] = NoVersion
      BY <2>1, <3>1
    <3> QED
      BY <3>2 DEF NoVersion
  <2>3. Gapless(db)
    BY <2>1, StoreBounds DEF Gapless, Has, known, NoVersion
  <2>4. StoreInv(db)
    BY <2>1, <2>2, <2>3 DEF StoreInv, Sound, known
  <2>5. TypeOK
    BY <2>1, StoreBounds, CommandAssumption DEF TypeOK, Init, Locks!TypeOK, Locks!Init, Time, Event, PC
  <2>6. \A t \in Thread : Prepared(db, pc[t], job[t])
    BY DEF Init, Prepared
  <2> QED
    BY <2>4, <2>5, <2>6 DEF CommandInv
<1> QED
  BY <1>1, CommandStep, PTL DEF Spec

\* Every variable keeps its type: no command stores beyond the versions and
\* the statuses there are, and every message names a thing of the registry.
THEOREM CommandsTypeCorrect == Spec => []TypeOK
<1>1. CommandInv => TypeOK
  BY DEF CommandInv
<1> QED
  BY <1>1, CommandsInvariant, PTL

\* A version begins when the one before it ends, of every item and register,
\* however the requests interleave (VersionUtil.nextVersion).
THEOREM VersionIntervalsMeet == Spec => []IntervalsMeet
<1>1. CommandInv => IntervalsMeet
  BY DEF CommandInv, StoreInv, Sound, Meets, IntervalsMeet
<1> QED
  BY <1>1, CommandsInvariant, PTL

\* Following version:currentVersion and dct:replaces never leads to a version
\* that is not stored, however the requests interleave.
THEOREM VersionsWithoutGaps == Spec => []NoGaps
<1>1. CommandInv => NoGaps
  <2> SUFFICES ASSUME CommandInv, NEW x \in Things
               PROVE  LET stored == {n \in 1 .. MaxVersion :
                                       db.ver[x][n].begins # {} \/ (x = Root /\ n = 1)}
                      IN  /\ \A n \in stored : n = 1 \/ n - 1 \in stored
                          /\ known(db, x) => db.cur[x] \in stored
    BY DEF NoGaps
  <2>1. /\ \A n \in 1 .. MaxVersion : Has(db, x, n) => n = 1 \/ Has(db, x, n - 1)
        /\ known(db, x) => Has(db, x, db.cur[x])
    BY DEF CommandInv, StoreInv, Sound, Gapless
  <2> DEFINE stored == {n \in 1 .. MaxVersion :
                          db.ver[x][n].begins # {} \/ (x = Root /\ n = 1)}
  <2>2. \A n : n \in stored <=> Has(db, x, n)
    BY DEF Has
  <2> HIDE DEF stored
  <2>3. /\ \A n \in stored : n = 1 \/ n - 1 \in stored
        /\ known(db, x) => db.cur[x] \in stored
    BY <2>1, <2>2 DEF Has
  <2> QED
    BY <2>3 DEF stored
<1> QED
  BY <1>1, CommandsInvariant, PTL
==============================================================================
