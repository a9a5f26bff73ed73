----------------------------- MODULE Reads_proofs -----------------------------
(***************************************************************************)
(* Theorems about reading a register while it is written to, for any       *)
(* number of clients, items and writes.                                    *)
(***************************************************************************)
EXTENDS Reads, FiniteSetTheorems, SequenceTheorems, TLAPS

------------------------------------------------------------------------------
(* The inductive invariant *)

\* A request holds a Register object from the cache or the store to its answer.
IsRequest(r) ==
    /\ r \in [pc : {r.pc}, object : {r.object}, listed : {r.listed}, page : {r.page},
              got : {r.got}, snapshots : {r.snapshots}]
    /\ \/ r.pc \in {"get", "load", "done"} /\ r.object = Null
       \/ r.pc \in {"put", "members", "list", "assign", "view"} /\ r.object \in Object
    /\ r.pc = "assign" => r.listed \in Snapshot

ReadTypeOK ==
    /\ status \in Snapshot /\ version \in Nat
    /\ writing \in [item : Item, status : Statuses] \cup {Null}
    /\ cache \in Object \cup {Null}
    /\ heap \in [Object -> ObjectState \cup {Null}]
    /\ reader = [c \in Client |-> reader[c]]
    /\ \A c \in Client : IsRequest(reader[c])

\* An object exists as long as the cache or a request refers to it.
Refers(o) == cache = o \/ \E c \in Client : reader[c].object = o

HeapInv == \A o \in Object : heap[o] = Null <=> ~Refers(o)

\* Nobody else has an object that was read and is not yet in the cache.
FreshInv ==
    \A c \in Client : reader[c].pc = "put" =>
        /\ heap[reader[c].object].members = Null
        /\ cache # reader[c].object
        /\ \A d \in Client \ {c} : reader[d].object # reader[c].object

\* A cached object that no write has overlapped is what the store has, and no
\* write is between its flush and its end.
CacheInv ==
    cache # Null /\ ~delegated /\ ~heap[cache].overlapped =>
        /\ writing = Null
        /\ heap[cache].version = version
        /\ heap[cache].members \in {Null, status}

ReadInv == ReadTypeOK /\ HeapInv /\ FreshInv /\ CacheInv

\* A client about to load the register finds an object that is free: there is
\* one more than there are clients (Object).
LEMMA FreeObject ==
    ASSUME ReadTypeOK, HeapInv, NEW c \in Client, reader[c].object = Null
    PROVE  \E o \in Object : heap[o] = Null
<1> SUFFICES ASSUME \A o \in Object : heap[o] # Null PROVE FALSE
  OBVIOUS
<1> DEFINE n == Cardinality(Client)
           f == [d \in Client |-> IF d = c THEN IF cache \in Object THEN cache ELSE 1
                                  ELSE IF reader[d].object \in Object THEN reader[d].object ELSE 1]
<1>1. n \in Nat /\ Object = 1..(n + 1)
  BY RegisterReadAssumption, FS_CardinalityType DEF Object
<1>2. 1 \in Object /\ Null \notin Object
  BY <1>1, RegisterReadAssumption
<1>3. Cardinality(Object) = n + 1
  BY <1>1, FS_Interval
<1>4. f \in [Client -> Object]
  BY <1>2
<1>5. ASSUME NEW o \in Object PROVE \E d \in Client : f[d] = o
  <2>1. CASE cache = o
    BY <2>1
  <2>2. CASE \E d \in Client : reader[d].object = o
    BY <1>2, <2>2
  <2>3. QED
    BY <2>1, <2>2 DEF HeapInv, Refers
<1>6. f \in Surjection(Client, Object)
  BY <1>4, <1>5 DEF Surjection
<1> HIDE DEF f
<1>7. Cardinality(Object) <= n
  BY <1>6, FS_Surjection, RegisterReadAssumption
<1>8. QED
  BY <1>1, <1>3, <1>7

\* Requests, objects and the cache stay consistent whatever readers, writers
\* and evictions do between each other's steps.
THEOREM ReadsInvariant == ReadsSpec => []ReadInv
<1> USE RegisterReadAssumption
<1>null. Null \notin Object /\ Null \notin ObjectState
  <2>1. Cardinality(Client) \in Nat
    BY FS_CardinalityType
  <2>2. Object \subseteq Nat
    BY <2>1 DEF Object
  <2>3. QED
    BY <2>2
<1>1. ReadsInit => ReadInv
  <2> SUFFICES ASSUME ReadInit PROVE ReadInv
    BY DEF ReadsInit
  <2>1. IsRequest(Start) /\ Start.object = Null /\ Start.pc = "get"
    BY DEF IsRequest, Start
  <2>2. reader = [c \in Client |-> reader[c]] /\ \A c \in Client : reader[c] = Start
    BY DEF ReadInit
  <2>3. status \in Snapshot
    BY DEF ReadInit, Snapshot, Statuses
  <2>4. ReadTypeOK
    BY <2>1, <2>2, <2>3 DEF ReadInit, ReadTypeOK
  <2>5. HeapInv
    BY <1>null, <2>1, <2>2 DEF ReadInit, HeapInv, Refers
  <2>6. FreshInv /\ CacheInv
    BY <2>1, <2>2 DEF ReadInit, FreshInv, CacheInv
  <2>7. QED
    BY <2>4, <2>5, <2>6 DEF ReadInv
<1>2. ReadInv /\ [ReadsNext]_readsVars => ReadInv'
  <2> SUFFICES ASSUME ReadInv, ReadNext \/ UNCHANGED readVars PROVE ReadInv'
    BY DEF ReadsNext, readsVars
  <2> USE DEF ReadInv
  <2>1. ASSUME NEW i \in Item, NEW s \in ItemStatus, Flush(i, s)
        PROVE  ReadInv'
    <3>1. cache' = Null /\ heap' = Live(heap, Null, reader) /\ UNCHANGED <<status, version, reader>>
      BY <2>1 DEF Flush, flush
    <3>2. writing' \in [item : Item, status : Statuses] \cup {Null}
      BY <2>1 DEF Flush
    <3>3. \A o \in Object : heap'[o] = IF \E c \in Client : reader[c].object = o THEN heap[o] ELSE Null
      BY <1>null, <3>1 DEF Live
    <3>4. heap' \in [Object -> ObjectState \cup {Null}]
      BY <3>1 DEF Live, ReadTypeOK
    <3>5. ReadTypeOK'
      BY <3>1, <3>2, <3>4 DEF ReadTypeOK
    <3>6. HeapInv'
      BY <1>null, <3>1, <3>3 DEF HeapInv, Refers
    <3>7. FreshInv'
      BY <1>null, <3>1, <3>3 DEF FreshInv, ReadTypeOK, IsRequest
    <3>8. QED
      BY <3>1, <3>5, <3>6, <3>7 DEF CacheInv
  <2>2. ASSUME NEW i \in Item, RemoteChange(i)
        PROVE  ReadInv'
    <3>1. status' \in Snapshot
      BY <2>2 DEF RemoteChange, ReadTypeOK, Snapshot, Statuses
    <3>2. delegated /\ UNCHANGED <<delegated, version, writing, cache, heap, reader>>
      BY <2>2 DEF RemoteChange
    <3>3. QED
      BY <3>1, <3>2 DEF ReadTypeOK, HeapInv, Refers, FreshInv, CacheInv
  <2>3. ASSUME Write
        PROVE  ReadInv'
    <3>1. writing # Null /\ writing' = Null /\ UNCHANGED <<delegated, cache, heap, reader>>
      BY <2>3 DEF Write
    <3>2. status' \in Snapshot /\ version' \in Nat
      BY <2>3 DEF Write, ReadTypeOK, Snapshot
    <3>3. ReadTypeOK' /\ HeapInv' /\ FreshInv'
      BY <3>1, <3>2 DEF ReadTypeOK, HeapInv, Refers, FreshInv
    <3>4. CacheInv'
      BY <3>1 DEF CacheInv
    <3>5. QED
      BY <3>3, <3>4
  <2>4. ASSUME Evict
        PROVE  ReadInv'
    <3>1. cache' = Null /\ heap' = Live(heap, Null, reader) /\ UNCHANGED <<status, version, writing, reader>>
      BY <2>4 DEF Evict
    <3>3. \A o \in Object : heap'[o] = IF \E c \in Client : reader[c].object = o THEN heap[o] ELSE Null
      BY <1>null, <3>1 DEF Live
    <3>4. heap' \in [Object -> ObjectState \cup {Null}]
      BY <3>1 DEF Live, ReadTypeOK
    <3>5. ReadTypeOK'
      BY <3>1, <3>4 DEF ReadTypeOK
    <3>6. HeapInv'
      BY <1>null, <3>1, <3>3 DEF HeapInv, Refers
    <3>7. FreshInv'
      BY <1>null, <3>1, <3>3 DEF FreshInv, ReadTypeOK, IsRequest
    <3>8. QED
      BY <3>1, <3>5, <3>6, <3>7 DEF CacheInv
  <2>5. ASSUME NEW c \in Client, NEW from, NEW next, Becomes(c, from, next)
        PROVE  /\ reader[c].pc = from /\ IsRequest(reader[c])
               /\ reader' = [d \in Client |-> reader'[d]]
               /\ reader'[c] = next
               /\ \A d \in Client \ {c} : reader'[d] = reader[d]
    BY <2>5 DEF Becomes, ReadTypeOK
  <2>6. ASSUME NEW c \in Client, Get(c)
        PROVE  ReadInv'
    <3> DEFINE next == [reader[c] EXCEPT !.pc = IF cache = Null THEN "load" ELSE "members", !.object = cache]
    <3>1. Becomes(c, "get", next)
      BY <2>6 DEF Get
    <3>2. UNCHANGED <<delegated, status, version, writing, cache, heap>>
      BY <2>6 DEF Get, Store
    <3>3. IsRequest(reader[c]) /\ reader[c].pc = "get"
      BY <2>5, <3>1
    <3>4. next.object = cache /\ next.pc = (IF cache = Null THEN "load" ELSE "members") /\ IsRequest(next)
      <4>1. next \in [pc : {next.pc}, object : {next.object}, listed : {next.listed}, page : {next.page},
                        got : {next.got}, snapshots : {next.snapshots}]
        BY <3>3 DEF IsRequest
      <4>2. next.pc = (IF cache = Null THEN "load" ELSE "members") /\ next.object = cache
        BY <3>3 DEF IsRequest
      <4> HIDE DEF next
      <4>3. QED
        BY <3>3, <4>1, <4>2 DEF IsRequest, ReadTypeOK
    <3> HIDE DEF next
    <3>5. reader' = [d \in Client |-> reader'[d]] /\ reader'[c] = next /\ \A d \in Client \ {c} : reader'[d] = reader[d]
      BY <2>5, <3>1
    <3>6. ReadTypeOK'
      BY <3>2, <3>4, <3>5 DEF ReadTypeOK
    <3>7. HeapInv'
      BY <1>null, <3>2, <3>3, <3>4, <3>5 DEF HeapInv, Refers, IsRequest
    <3>8. FreshInv'
      BY <3>2, <3>4, <3>5 DEF FreshInv
    <3>9. QED
      BY <3>2, <3>6, <3>7, <3>8 DEF CacheInv
  <2>7. ASSUME NEW c \in Client, Load(c)
        PROVE  ReadInv'
    <3> DEFINE o == CHOOSE x \in Object : heap[x] = Null
               next == [reader[c] EXCEPT !.pc = "put", !.object = o]
    <3>1. Becomes(c, "load", next)
      BY <2>7 DEF Load
    <3>2. heap' = [heap EXCEPT ![o] = NewObject] /\ UNCHANGED <<delegated, status, version, writing, cache>>
      BY <2>7 DEF Load, Store
    <3>3. IsRequest(reader[c]) /\ reader[c].pc = "load"
      BY <2>5, <3>1
    <3>4. o \in Object /\ heap[o] = Null
      <4>1. reader[c].object = Null
        BY <3>3 DEF IsRequest
      <4>2. \E x \in Object : heap[x] = Null
        BY <4>1, FreeObject
      <4>3. QED
        BY <4>2
    <3> HIDE DEF o
    <3>5. next.object = o /\ next.pc = "put" /\ IsRequest(next)
      <4>1. next \in [pc : {next.pc}, object : {next.object}, listed : {next.listed}, page : {next.page},
                        got : {next.got}, snapshots : {next.snapshots}]
        BY <3>3 DEF IsRequest
      <4>2. next.pc = "put" /\ next.object = o
        BY <3>3 DEF IsRequest
      <4> HIDE DEF next
      <4>3. QED
        BY <3>3, <3>4, <4>1, <4>2 DEF IsRequest
    <3> HIDE DEF next
    <3>6. reader' = [d \in Client |-> reader'[d]] /\ reader'[c] = next /\ \A d \in Client \ {c} : reader'[d] = reader[d]
      BY <2>5, <3>1
    <3>7. NewObject \in ObjectState /\ NewObject.members = Null
      BY DEF NewObject, ObjectState, ReadTypeOK
    <3>8. heap'[o] = NewObject /\ \A x \in Object \ {o} : heap'[x] = heap[x]
      BY <3>2, <3>4 DEF ReadTypeOK
    <3>9. ReadTypeOK'
      BY <3>2, <3>4, <3>5, <3>6, <3>7 DEF ReadTypeOK
    <3>10. ~Refers(o)
      BY <3>4 DEF HeapInv
    <3>11. HeapInv'
      BY <1>null, <3>2, <3>3, <3>4, <3>5, <3>6, <3>7, <3>8, <3>10 DEF HeapInv, Refers, IsRequest
    <3>12. FreshInv'
      <4> SUFFICES ASSUME NEW e \in Client, reader'[e].pc = "put"
                   PROVE  /\ heap'[reader'[e].object].members = Null
                          /\ cache' # reader'[e].object
                          /\ \A d \in Client \ {e} : reader'[d].object # reader'[e].object
        BY DEF FreshInv
      <4>1. CASE e = c
        BY <3>2, <3>4, <3>5, <3>6, <3>7, <3>8, <3>10, <4>1 DEF Refers
      <4>2. CASE e # c
        <5>1. reader'[e] = reader[e] /\ reader[e].object # o /\ reader[e].object \in Object
          BY <3>6, <3>10, <4>2 DEF Refers, ReadTypeOK, IsRequest
        <5>2. QED
          BY <3>2, <3>5, <3>6, <3>8, <4>2, <5>1 DEF FreshInv
      <4>3. QED
        BY <4>1, <4>2
    <3>13. CacheInv'
      BY <3>2, <3>8, <3>10 DEF CacheInv, Refers, ReadTypeOK
    <3>14. QED
      BY <3>9, <3>11, <3>12, <3>13
  <2>8. ASSUME NEW c \in Client, Put(c)
        PROVE  ReadInv'
    <3> DEFINE o == reader[c].object
               next == [reader[c] EXCEPT !.pc = "members"]
               marked == [heap EXCEPT ![o].overlapped = @ \/ Overlaps(heap[o].version, Null)]
    <3>1. Becomes(c, "put", next)
      BY <2>8 DEF Put
    <3>2. cache' = o /\ heap' = Live(marked, o, reader') /\ UNCHANGED <<delegated, status, version, writing>>
      BY <2>8 DEF Put, Store
    <3>3. IsRequest(reader[c]) /\ reader[c].pc = "put"
      BY <2>5, <3>1
    <3>4. o \in Object /\ heap[o] \in ObjectState /\ heap[o].members = Null
      <4>1. o \in Object /\ heap[o] # Null
        BY <3>3 DEF IsRequest, HeapInv, Refers
      <4>2. QED
        BY <3>3, <4>1 DEF ReadTypeOK, FreshInv
    <3>5. next.object = o /\ next.pc = "members" /\ IsRequest(next)
      BY <3>3 DEF IsRequest
    <3> HIDE DEF next
    <3>6. reader' = [d \in Client |-> reader'[d]] /\ reader'[c] = next /\ \A d \in Client \ {c} : reader'[d] = reader[d]
      BY <2>5, <3>1
    <3>7. \A d \in Client : reader'[d].object = reader[d].object
      BY <3>5, <3>6
    <3> HIDE DEF o
    <3>8. /\ marked \in [Object -> ObjectState \cup {Null}]
          /\ marked[o] \in ObjectState
          /\ marked[o].version = heap[o].version
          /\ marked[o].members = Null
          /\ marked[o].overlapped = (heap[o].overlapped \/ Overlaps(heap[o].version, Null))
          /\ \A x \in Object \ {o} : marked[x] = heap[x]
      <4>1. Overlaps(heap[o].version, Null) \in BOOLEAN
        BY DEF Overlaps
      <4>2. QED
        BY <3>4, <4>1 DEF ReadTypeOK, ObjectState
    <3> HIDE DEF marked
    <3>9. \A x \in Object : heap'[x] = IF x = o \/ \E d \in Client : reader[d].object = x THEN marked[x] ELSE Null
      BY <3>2, <3>7 DEF Live
    <3>10. heap' \in [Object -> ObjectState \cup {Null}]
      BY <3>2, <3>8 DEF Live
    <3>11. ReadTypeOK'
      BY <3>2, <3>4, <3>5, <3>6, <3>10 DEF ReadTypeOK
    <3>12. HeapInv'
      BY <1>null, <3>2, <3>7, <3>8, <3>9 DEF HeapInv, Refers
    <3>13. FreshInv'
      <4> SUFFICES ASSUME NEW e \in Client, reader'[e].pc = "put"
                   PROVE  /\ heap'[reader[e].object].members = Null
                          /\ cache' # reader[e].object
                          /\ \A d \in Client \ {e} : reader[d].object # reader[e].object
        BY <3>7 DEF FreshInv
      <4>1. e # c /\ reader[e].pc = "put"
        BY <3>5, <3>6
      <4>2. reader[e].object \in Object /\ reader[e].object # o
        BY <3>3, <4>1 DEF ReadTypeOK, IsRequest, FreshInv, o
      <4>3. heap'[reader[e].object] = heap[reader[e].object]
        BY <3>8, <3>9, <4>2
      <4>4. QED
        BY <3>2, <4>1, <4>2, <4>3 DEF FreshInv
    <3>14. CacheInv'
      <4>1. heap'[o] = marked[o]
        BY <3>4, <3>9
      <4>2. ~marked[o].overlapped => ~Overlaps(heap[o].version, Null)
        BY <3>8
      <4>3. QED
        BY <3>2, <3>8, <4>1, <4>2 DEF CacheInv, Overlaps
    <3>15. QED
      BY <3>11, <3>12, <3>13, <3>14
  <2>9. ASSUME NEW c \in Client, Members(c) \/ List(c)
        PROVE  ReadInv'
    <3> DEFINE toMembers == [reader[c] EXCEPT !.pc = IF heap[reader[c].object].members = Null THEN "list" ELSE "view"]
               toList == [reader[c] EXCEPT !.pc = "assign", !.listed = status]
    <3>1. UNCHANGED <<delegated, status, version, writing, cache, heap>>
      BY <2>9 DEF Members, List, Store
    <3>2. PICK next : /\ next.object = reader[c].object /\ next.pc # "put" /\ IsRequest(next)
                      /\ reader' = [d \in Client |-> reader'[d]]
                      /\ reader'[c] = next /\ \A d \in Client \ {c} : reader'[d] = reader[d]
      <4>1. CASE Members(c)
        <5>1. Becomes(c, "members", toMembers)
          BY <4>1 DEF Members
        <5>2. IsRequest(reader[c]) /\ reader[c].pc = "members"
          BY <2>5, <5>1
        <5>3. toMembers.object = reader[c].object /\ toMembers.pc # "put" /\ IsRequest(toMembers)
          BY <5>2 DEF IsRequest
        <5> HIDE DEF toMembers
        <5>4. QED
          BY <2>5, <5>1, <5>3
      <4>2. CASE List(c)
        <5>1. Becomes(c, "list", toList)
          BY <4>2 DEF List
        <5>2. IsRequest(reader[c]) /\ reader[c].pc = "list"
          BY <2>5, <5>1
        <5>3. toList.object = reader[c].object /\ toList.pc # "put" /\ IsRequest(toList)
          <6>1. toList \in [pc : {toList.pc}, object : {toList.object}, listed : {toList.listed}, page : {toList.page},
                              got : {toList.got}, snapshots : {toList.snapshots}]
            BY <5>2 DEF IsRequest
          <6>2. toList.pc = "assign" /\ toList.object = reader[c].object /\ toList.listed = status
            BY <5>2 DEF IsRequest
          <6> HIDE DEF toList
          <6>3. QED
            BY <5>2, <6>1, <6>2 DEF IsRequest, ReadTypeOK
        <5> HIDE DEF toList
        <5>4. QED
          BY <2>5, <5>1, <5>3
      <4>3. QED
        BY <2>9, <4>1, <4>2
    <3>3. \A d \in Client : reader'[d].object = reader[d].object
      BY <3>2
    <3>4. ReadTypeOK'
      BY <3>1, <3>2 DEF ReadTypeOK
    <3>5. HeapInv' /\ CacheInv'
      BY <3>1, <3>3 DEF HeapInv, Refers, CacheInv
    <3>6. FreshInv'
      BY <3>1, <3>2, <3>3 DEF FreshInv
    <3>7. QED
      BY <3>4, <3>5, <3>6
  <2>10. ASSUME NEW c \in Client, Assign(c)
         PROVE  ReadInv'
    <3> DEFINE o == reader[c].object
               list == reader[c].listed
               next == [reader[c] EXCEPT !.pc = "view", !.listed = Null]
    <3>1. Becomes(c, "assign", next)
      BY <2>10 DEF Assign
    <3>2. /\ heap' = [heap EXCEPT ![o].members = list, ![o].overlapped = @ \/ Overlaps(version, list)]
          /\ UNCHANGED <<delegated, status, version, writing, cache>>
      BY <2>10 DEF Assign, Store
    <3>3. IsRequest(reader[c]) /\ reader[c].pc = "assign"
      BY <2>5, <3>1
    <3>4. o \in Object /\ heap[o] \in ObjectState /\ list \in Snapshot
      <4>1. o \in Object /\ heap[o] # Null /\ list \in Snapshot
        BY <3>3 DEF IsRequest, HeapInv, Refers
      <4>2. QED
        BY <4>1 DEF ReadTypeOK
    <3>5. next.object = o /\ next.pc = "view" /\ IsRequest(next)
      <4>1. next \in [pc : {next.pc}, object : {next.object}, listed : {next.listed}, page : {next.page},
                        got : {next.got}, snapshots : {next.snapshots}]
        BY <3>3 DEF IsRequest
      <4>2. next.pc = "view" /\ next.object = reader[c].object
        BY <3>3 DEF IsRequest
      <4> HIDE DEF next
      <4>3. QED
        BY <3>3, <4>1, <4>2 DEF IsRequest
    <3> HIDE DEF next
    <3>6. reader' = [d \in Client |-> reader'[d]] /\ reader'[c] = next /\ \A d \in Client \ {c} : reader'[d] = reader[d]
      BY <2>5, <3>1
    <3>7. \A d \in Client : reader'[d].object = reader[d].object
      BY <3>5, <3>6
    <3>put. \A e \in Client : reader'[e].pc = "put" => reader[e].pc = "put" /\ reader[e].object # o /\ reader[e].object \in Object
      BY <3>5, <3>6 DEF ReadTypeOK, IsRequest, FreshInv
    <3> HIDE DEF o, list
    <3>8. /\ heap' \in [Object -> ObjectState \cup {Null}]
          /\ heap'[o] \in ObjectState
          /\ heap'[o].version = heap[o].version
          /\ heap'[o].members = list
          /\ heap'[o].overlapped = (heap[o].overlapped \/ Overlaps(version, list))
          /\ \A x \in Object \ {o} : heap'[x] = heap[x]
      <4>1. Overlaps(version, list) \in BOOLEAN
        BY DEF Overlaps
      <4>2. QED
        BY <3>2, <3>4, <4>1 DEF ReadTypeOK, ObjectState
    <3>9. ReadTypeOK'
      BY <3>2, <3>5, <3>6, <3>8 DEF ReadTypeOK
    <3>10. HeapInv'
      <4>1. \A x \in Object : Refers(x)' <=> Refers(x)
        BY <3>2, <3>7 DEF Refers
      <4>2. heap[o] # Null /\ heap'[o] # Null
        BY <1>null, <3>4, <3>8
      <4>3. \A x \in Object : heap'[x] = Null <=> heap[x] = Null
        BY <3>8, <4>2
      <4>4. QED
        BY <4>1, <4>3 DEF HeapInv
    <3>11. FreshInv'
      BY <3>2, <3>7, <3>8, <3>put DEF FreshInv
    <3>12. CacheInv'
      <4>1. CASE cache = o
        <5>1. ~heap'[o].overlapped => ~heap[o].overlapped /\ ~Overlaps(version, list)
          BY <3>8
        <5>2. QED
          BY <3>2, <3>8, <4>1, <5>1 DEF CacheInv, Overlaps
      <4>2. CASE cache # o
        BY <3>2, <3>8, <4>2 DEF CacheInv, ReadTypeOK
      <4>3. QED
        BY <4>1, <4>2
    <3>13. QED
      BY <3>9, <3>10, <3>11, <3>12
  <2>11. ASSUME NEW c \in Client, View(c)
         PROVE  ReadInv'
    <3>1. PICK next : /\ Becomes(c, "view", next)
                      /\ IsRequest(next) /\ next.object = Null /\ next.pc # "put"
      <4> DEFINE snapshot == heap[reader[c].object].members
                 view == Answer(snapshot, reader[c].page * PageSize, PageSize)
                 turn == [reader[c] EXCEPT !.pc = IF view.complete THEN "done" ELSE "get",
                            !.object = Null, !.page = @ + 1, !.got = @ \o view.items,
                            !.snapshots = Append(@, snapshot)]
      <4> HIDE DEF snapshot, view
      <4>1. Becomes(c, "view", IF c \in Reader THEN Start ELSE turn)
        BY <2>11 DEF View, view, snapshot
      <4>2. IsRequest(reader[c])
        BY <4>1, <2>5
      <4>3. IsRequest(turn) /\ turn.object = Null /\ turn.pc # "put"
        <5>1. turn \in [pc : {turn.pc}, object : {turn.object}, listed : {turn.listed}, page : {turn.page},
                          got : {turn.got}, snapshots : {turn.snapshots}]
          BY <4>2 DEF IsRequest
        <5>2. turn.pc \in {"done", "get"} /\ turn.object = Null
          BY <4>2 DEF IsRequest
        <5> HIDE DEF turn
        <5>3. QED
          BY <5>1, <5>2 DEF IsRequest
      <4>4. IsRequest(Start) /\ Start.object = Null /\ Start.pc # "put"
        BY DEF IsRequest, Start
      <4> HIDE DEF turn
      <4>5. QED
        BY <4>1, <4>3, <4>4
    <3>2. heap' = Live(heap, cache, reader') /\ UNCHANGED <<delegated, status, version, writing, cache>>
      BY <2>11 DEF View, Store
    <3>3. reader' = [d \in Client |-> reader'[d]] /\ reader'[c] = next /\ \A d \in Client \ {c} : reader'[d] = reader[d]
      BY <2>5, <3>1
    <3>4. \A o \in Object : heap'[o] = IF o = cache \/ \E d \in Client : reader'[d].object = o THEN heap[o] ELSE Null
      BY <3>2 DEF Live
    <3>5. heap' \in [Object -> ObjectState \cup {Null}]
      BY <3>2 DEF Live, ReadTypeOK
    <3>6. ReadTypeOK'
      BY <3>1, <3>2, <3>3, <3>5 DEF ReadTypeOK
    <3>7. \A o \in Object : (\E d \in Client : reader'[d].object = o) => \E d \in Client : reader[d].object = o
      BY <1>null, <3>1, <3>3
    <3>8. HeapInv'
      BY <3>2, <3>4, <3>7 DEF HeapInv, Refers
    <3>9. FreshInv'
      <4> SUFFICES ASSUME NEW e \in Client, reader'[e].pc = "put"
                   PROVE  /\ heap'[reader'[e].object].members = Null
                          /\ cache' # reader'[e].object
                          /\ \A d \in Client \ {e} : reader'[d].object # reader'[e].object
        BY DEF FreshInv
      <4>1. e # c /\ reader'[e] = reader[e] /\ reader[e].object \in Object
        BY <3>1, <3>3 DEF ReadTypeOK, IsRequest
      <4>2. heap'[reader[e].object] = heap[reader[e].object]
        BY <3>4, <4>1
      <4>3. QED
        BY <1>null, <3>1, <3>2, <3>3, <4>1, <4>2 DEF FreshInv
    <3>10. CacheInv'
      BY <3>2, <3>4 DEF CacheInv, ReadTypeOK
    <3>11. QED
      BY <3>6, <3>8, <3>9, <3>10
  <2>12. CASE UNCHANGED readVars
    BY <2>12 DEF readVars, ReadTypeOK, HeapInv, Refers, FreshInv, CacheInv
  <2>13. QED
    BY <2>1, <2>2, <2>3, <2>4, <2>6, <2>7, <2>8, <2>9, <2>10, <2>11, <2>12 DEF ReadNext
<1>3. QED
  BY <1>1, <1>2, PTL DEF ReadsSpec

\* For any number of clients and of writes, a cached register that is behind
\* the store was put into the cache, or given its members, across the flush of
\* a write (CachingStore.getCurrentVersion, Register.getMembers).
THEOREM StaleCache == ReadsSpec => []StaleOnlyIfOverlapped
<1>1. ReadInv => StaleOnlyIfOverlapped
  BY DEF ReadInv, CacheInv, StaleOnlyIfOverlapped, OutOfDate
<1>2. QED
  BY <1>1, ReadsInvariant, PTL

------------------------------------------------------------------------------
(* The pages of a register *)

\* The place of an item in a set of them, by notation; a list of the set in
\* this order.
Rank(S, i) == Cardinality({j \in S : j <= i})

InOrder(S, list) ==
    /\ list \in Seq(Item) /\ Len(list) = Cardinality(S)
    /\ \A k \in 1..Len(list) : list[k] \in S /\ Rank(S, list[k]) = k
    /\ \A i \in S : Rank(S, i) \in 1..Len(list) /\ list[Rank(S, i)] = i

\* Any set of items can be counted.
LEMMA ItemsFinite ==
    ASSUME NEW S \in SUBSET Item
    PROVE  IsFiniteSet(S) /\ Cardinality(S) \in Nat
<1>1. IsFiniteSet(Item)
  BY RegisterReadAssumption, FS_Interval DEF Item
<1>2. IsFiniteSet(S)
  BY <1>1, FS_Subset
<1> QED
  BY <1>2, FS_CardinalityType

\* An item is no earlier in a set that has all that is before it in another.
LEMMA RankGrows ==
    ASSUME NEW S \in SUBSET Item, NEW T \in SUBSET Item, NEW i,
           \A j \in S : j <= i => j \in T
    PROVE  Rank(S, i) \in Nat /\ Rank(T, i) \in Nat /\ Rank(S, i) <= Rank(T, i)
<1> DEFINE s == {j \in S : j <= i}
           t == {j \in T : j <= i}
<1>1. s \in SUBSET t /\ t \in SUBSET Item /\ s \in SUBSET Item
  OBVIOUS
<1> HIDE DEF s, t
<1>2. IsFiniteSet(t) /\ Cardinality(t) \in Nat /\ Cardinality(s) \in Nat
  BY <1>1, ItemsFinite
<1>3. Cardinality(s) <= Cardinality(t)
  BY <1>1, <1>2, FS_Subset
<1> QED
  BY <1>2, <1>3 DEF Rank, s, t

\* Ranks of different items differ, and lie within the set's size.
LEMMA Ranks ==
    ASSUME NEW S \in SUBSET Item
    PROVE  /\ \A i \in S : Rank(S, i) \in 1..Cardinality(S)
           /\ \A i, j \in S : Rank(S, i) = Rank(S, j) => i = j
<1>1. Item \subseteq Nat
  BY RegisterReadAssumption DEF Item
<1>2. ASSUME NEW i \in S PROVE Rank(S, i) \in 1..Cardinality(S)
  <2> DEFINE s == {j \in S : j <= i}
  <2>1. s \in SUBSET S /\ s \in SUBSET Item /\ i \in s
    <3>1. i <= i
      BY <1>1
    <3> QED
      BY <3>1, Zenon
  <2> HIDE DEF s
  <2>2. IsFiniteSet(S) /\ IsFiniteSet(s) /\ Cardinality(s) \in Nat /\ Cardinality(S) \in Nat
    BY <2>1, ItemsFinite
  <2>3. Cardinality(s) <= Cardinality(S)
    BY <2>1, <2>2, FS_Subset
  <2>4. Cardinality(s) # 0
    BY <2>1, <2>2, FS_EmptySet
  <2> QED
    BY <2>2, <2>3, <2>4 DEF Rank, s
<1>3. ASSUME NEW i \in S, NEW j \in S, i < j PROVE Rank(S, i) # Rank(S, j)
  <2> DEFINE s == {k \in S : k <= i}
             t == {k \in S : k <= j}
  <2>1. s \in SUBSET t /\ t \in SUBSET Item /\ j \in t /\ j \notin s
    <3>1. j <= j /\ ~(j <= i) /\ \A k \in S : k <= i => k <= j
      BY <1>1, <1>3
    <3> QED
      BY <3>1, Zenon
  <2> HIDE DEF s, t
  <2>2. IsFiniteSet(t)
    BY <2>1, ItemsFinite
  <2>3. Cardinality(t) = Cardinality(s) => t = s
    BY <2>1, <2>2, FS_Subset
  <2> QED
    BY <2>1, <2>3 DEF Rank, s, t
<1>4. \A i, j \in S : i = j \/ i < j \/ j < i
  BY <1>1
<1> QED
  BY <1>2, <1>3, <1>4

\* orderBy lists a set by rank: as many ranks as items, so each is taken.
LEMMA OrderByRank ==
    ASSUME NEW S \in SUBSET Item
    PROVE  InOrder(S, orderBy(S))
<1> DEFINE n == Cardinality(S)
           f == [i \in S |-> Rank(S, i)]
           list == orderBy(S)
<1>1. n \in Nat /\ IsFiniteSet(S)
  BY ItemsFinite
<1>2. f \in Injection(S, 1..n)
  <2>1. f \in [S -> 1..n]
    BY Ranks
  <2>2. \A i, j \in S : f[i] = f[j] => i = j
    BY Ranks
  <2> HIDE DEF f
  <2> QED
    BY <2>1, <2>2 DEF Injection, IsInjective
<1>3. IsFiniteSet(1..n) /\ Cardinality(1..n) = n
  BY <1>1, FS_Interval
<1> HIDE DEF f
<1>4. f \in Surjection(S, 1..n)
  BY <1>2, <1>3, FS_Injection
<1>5. \A k \in 1..n : \E i \in S : Rank(S, i) = k
  BY <1>4 DEF Surjection, f
<1>6. list = [k \in 1..n |-> CHOOSE i \in S : Rank(S, i) = k]
  BY DEF orderBy, Rank
<1> HIDE DEF list, n
<1>7. ASSUME NEW k \in 1..n PROVE list[k] \in S /\ Rank(S, list[k]) = k
  BY <1>5, <1>6
<1>8. list \in Seq(Item) /\ Len(list) = n
  <2>1. list \in [1..n -> Item]
    BY <1>6, <1>7
  <2> QED
    BY <1>1, <1>6, <2>1
<1>9. ASSUME NEW i \in S PROVE Rank(S, i) \in 1..n /\ list[Rank(S, i)] = i
  <2>1. Rank(S, i) \in 1..n
    BY Ranks DEF n
  <2> QED
    BY <1>7, <2>1, Ranks
<1> QED
  BY <1>7, <1>8, <1>9 DEF InOrder, n, list

\* Util.listWindow, and a page of the items S from the offset on.
Window(list, offset, length, w) ==
    /\ w \in Seq(Item)
    /\ \A k \in 1..Len(w) : offset + k \in 1..Len(list) /\ k <= length /\ w[k] = list[offset + k]
    /\ \A k \in 1..Len(list) : offset < k /\ k <= offset + length => Contains(w, list[k])
    /\ Len(w) < length => Len(list) < offset + length

PageOf(S, offset, view) ==
    /\ view.items \in Seq(Item)
    /\ \A k \in 1..Len(view.items) :
          /\ view.items[k] \in S /\ Rank(S, view.items[k]) = offset + k
          /\ k <= PageSize
    /\ \A i \in S : offset < Rank(S, i) /\ Rank(S, i) <= offset + PageSize => Contains(view.items, i)
    /\ view.complete => Cardinality(S) < offset + PageSize

\* listWindow is the part of a list it should be, at the end of the list too.
LEMMA WindowOf ==
    ASSUME NEW list \in Seq(Item), NEW offset \in Nat, NEW length \in Nat
    PROVE  Window(list, offset, length, listWindow(list, offset, length))
<1> DEFINE last == IF offset + length < Len(list) THEN offset + length ELSE Len(list)
           w == listWindow(list, offset, length)
<1>1. Len(list) \in Nat /\ \A k \in 1..Len(list) : list[k] \in Item
  BY LenProperties, ElementOfSeq
<1>2. last \in Nat /\ last <= Len(list) /\ last <= offset + length /\ (last = Len(list) \/ last = offset + length)
  BY <1>1
<1>3. w = SubSeq(list, offset + 1, last)
  BY DEF listWindow
<1> HIDE DEF last, w
<1>4. offset + 1 \in Int /\ last \in Int /\ \A k \in (offset + 1)..last : list[k] \in Item
  BY <1>1, <1>2
<1>5. /\ w \in Seq(Item)
      /\ Len(w) = IF offset + 1 <= last THEN last - (offset + 1) + 1 ELSE 0
      /\ \A k \in 1..(last - (offset + 1) + 1) : w[k] = list[offset + 1 + k - 1]
  BY <1>3, <1>4, SubSeqProperties
<1>6. Len(w) = IF offset < last THEN last - offset ELSE 0
  BY <1>2, <1>5
<1>7. ASSUME NEW k \in 1..Len(w)
      PROVE  offset + k \in 1..Len(list) /\ k <= length /\ w[k] = list[offset + k]
  <2>1. /\ k \in 1..(last - (offset + 1) + 1) /\ offset + 1 + k - 1 = offset + k
        /\ offset + k \in 1..Len(list) /\ k <= length
    BY <1>1, <1>2, <1>6
  <2> QED
    BY <1>5, <2>1
<1>8. ASSUME NEW k \in 1..Len(list), offset < k, k <= offset + length
      PROVE  Contains(w, list[k])
  <2>1. k <= last
    BY <1>1, <1>2, <1>8
  <2>2. k - offset \in 1..Len(w) /\ offset + (k - offset) = k
    BY <1>1, <1>2, <1>6, <1>8, <2>1
  <2>3. w[k - offset] = list[k]
    BY <1>7, <2>2
  <2> QED
    BY <2>2, <2>3 DEF Contains
<1>9. Len(w) < length => Len(list) < offset + length
  BY <1>1, <1>2, <1>6
<1> QED
  BY <1>5, <1>7, <1>8, <1>9 DEF Window, w

\* Both lists are of items, and the same one in a delegated register.
LEMMA ValidItems ==
    ASSUME NEW s
    PROVE  /\ Valid(s) \in SUBSET Item /\ Registered(s) \in SUBSET Item
           /\ delegated => Registered(s) = Valid(s)
BY DEF Valid, Registered

\* A page is what its offset and length say, and complete only if no page follows
\* (constructView, constructDelegatedView).
LEMMA PageAnswered ==
    ASSUME NEW s, NEW offset \in Nat
    PROVE  PageOf(Valid(s), offset, Answer(s, offset, PageSize))
<1> DEFINE S == Valid(s)
           list == Matching(s)
           w == listWindow(list, offset, PageSize)
           view == Answer(s, offset, PageSize)
<1>1. S \in SUBSET Item /\ Cardinality(S) \in Nat /\ PageSize \in Nat
  BY ValidItems, ItemsFinite, PagingAssumption
<1>2. InOrder(S, list)
  BY <1>1, OrderByRank DEF Matching
<1>3. Window(list, offset, PageSize, w)
  BY <1>1, <1>2, WindowOf DEF InOrder
<1>4. view.items = w /\ (view.complete => Len(list) < offset + PageSize)
  <2>1. CASE delegated
    <3>1. listMembers(s) = list
      BY <2>1, ValidItems DEF listMembers, Matching
    <3>2. view = [items |-> w, complete |-> Len(w) < PageSize]
      BY <2>1, <3>1 DEF Answer, constructDelegatedView
    <3> HIDE DEF view, w, list
    <3> QED
      BY <1>3, <3>2 DEF Window
  <2>2. CASE ~delegated
    <3>1. view = [items |-> w, complete |-> Len(list) < offset + PageSize]
      BY <2>2 DEF Answer, constructView
    <3> HIDE DEF view, w, list
    <3> QED
      BY <3>1
  <2> QED
    BY <2>1, <2>2
<1> HIDE DEF S, list, w, view
<1>5. ASSUME NEW k \in 1..Len(w)
      PROVE  w[k] \in S /\ Rank(S, w[k]) = offset + k /\ k <= PageSize
  BY <1>2, <1>3 DEF InOrder, Window
<1>6. ASSUME NEW i \in S, offset < Rank(S, i), Rank(S, i) <= offset + PageSize
      PROVE  Contains(w, i)
  BY <1>2, <1>3, <1>6 DEF InOrder, Window
<1>7. view.complete => Cardinality(S) < offset + PageSize
  BY <1>2, <1>4 DEF InOrder
<1> QED
  BY <1>3, <1>4, <1>5, <1>6, <1>7 DEF PageOf, Window, S, view

------------------------------------------------------------------------------
(* A walk through the pages *)

\* What the pages got so far were made from, a set of items for each; an item
\* that has gone from one to a later one, or come.
Left(sets, i) == \E p, q \in 1..Len(sets) : p < q /\ i \in sets[p] /\ i \notin sets[q]
Came(sets, i) == \E p, q \in 1..Len(sets) : p < q /\ i \notin sets[p] /\ i \in sets[q]

\* An item that was there all along is in a page got or after the last one.
Ahead(sets, got) ==
    \A i \in Item : (\A p \in 1..Len(sets) : i \in sets[p]) /\ (\A j \in 1..(i - 1) : ~Left(sets, j)) =>
        \/ Contains(got, i)
        \/ sets = <<>>
        \/ Rank(sets[Len(sets)], i) > Len(sets) * PageSize

\* An item got was not after the last page when it was got.
Behind(sets, got) ==
    \A k \in 1..Len(got) : \E p \in 1..Len(sets) :
        got[k] \in sets[p] /\ Rank(sets[p], got[k]) <= Len(sets) * PageSize

\* An item is got twice only if one before it has come.
NoneTwice(sets, got) ==
    \A k, l \in 1..Len(got) : k < l /\ got[k] = got[l] => \E j \in 1..(got[k] - 1) : Came(sets, j)

Walked(sets, got) ==
    /\ sets \in Seq(SUBSET Item) /\ got \in Seq(Item)
    /\ Ahead(sets, got) /\ Behind(sets, got) /\ NoneTwice(sets, got)

\* One more page, made from whatever set S the register then has.
LEMMA NextPage ==
    ASSUME NEW sets, NEW got, NEW S \in SUBSET Item, NEW view,
           Walked(sets, got), PageOf(S, Len(sets) * PageSize, view)
    PROVE  Walked(Append(sets, S), got \o view.items)
<1> DEFINE n == Len(sets)
           offset == n * PageSize
           next == offset + PageSize
           more == Append(sets, S)
           items == view.items
           all == got \o items
<1>1. /\ sets \in Seq(SUBSET Item) /\ got \in Seq(Item) /\ items \in Seq(Item)
      /\ n \in Nat /\ Len(got) \in Nat /\ Len(items) \in Nat /\ PageSize \in Nat \ {0}
  BY LenProperties, PagingAssumption DEF Walked, PageOf
<1>2. offset \in Nat /\ next \in Nat /\ offset < next /\ (n + 1) * PageSize = next
  BY <1>1
<1>3. /\ more \in Seq(SUBSET Item) /\ Len(more) = n + 1 /\ more # <<>>
      /\ (\A p \in 1..n : more[p] = sets[p]) /\ more[n + 1] = S
  BY <1>1, AppendProperties
<1>4. /\ all \in Seq(Item) /\ Len(all) = Len(got) + Len(items)
      /\ \A k \in 1..Len(got) : all[k] = got[k]
      /\ \A k \in 1..Len(items) : all[Len(got) + k] = items[k]
  <2>1. /\ all \in Seq(Item) /\ Len(all) = Len(got) + Len(items)
        /\ \A k \in 1..(Len(got) + Len(items)) :
              all[k] = IF k <= Len(got) THEN got[k] ELSE items[k - Len(got)]
    BY <1>1, ConcatProperties
  <2> HIDE DEF all, items
  <2>2. ASSUME NEW k \in 1..Len(got) PROVE all[k] = got[k]
    BY <1>1, <2>1
  <2>3. ASSUME NEW k \in 1..Len(items) PROVE all[Len(got) + k] = items[k]
    <3>1. /\ Len(got) + k \in 1..(Len(got) + Len(items)) /\ ~(Len(got) + k <= Len(got))
          /\ Len(got) + k - Len(got) = k
      BY <1>1
    <3> QED
      BY <2>1, <3>1
  <2> QED
    BY <2>1, <2>2, <2>3
<1>5. /\ \A k \in 1..Len(items) : items[k] \in S /\ Rank(S, items[k]) = offset + k /\ k <= PageSize
      /\ \A i \in S : offset < Rank(S, i) /\ Rank(S, i) <= next => Contains(items, i)
  BY DEF PageOf
<1>6. Ahead(sets, got) /\ Behind(sets, got) /\ NoneTwice(sets, got)
  BY DEF Walked
<1>7. \A i : (Left(sets, i) => Left(more, i)) /\ (Came(sets, i) => Came(more, i))
  <2> HIDE DEF n, more
  <2>1. \A p \in 1..n : p \in 1..(n + 1)
    BY <1>1
  <2> QED
    BY <1>3, <2>1, Zenon DEF Left, Came, n
<1> HIDE DEF n, offset, next, more, items, all
<1>8. \A k \in 1..Len(all) : \/ k \in 1..Len(got) /\ all[k] = got[k]
                             \/ /\ k - Len(got) \in 1..Len(items) /\ k > Len(got)
                                /\ all[k] = items[k - Len(got)]
  <2> SUFFICES ASSUME NEW k \in 1..Len(all), k > Len(got)
               PROVE  k - Len(got) \in 1..Len(items) /\ all[k] = items[k - Len(got)]
    BY <1>1, <1>4
  <2>1. k - Len(got) \in 1..Len(items) /\ Len(got) + (k - Len(got)) = k
    BY <1>1, <1>4
  <2> QED
    BY <1>4, <2>1
<1>9. Ahead(more, all)
  <2> SUFFICES ASSUME NEW i \in Item, \A p \in 1..(n + 1) : i \in more[p],
                      \A j \in 1..(i - 1) : ~Left(more, j), ~Contains(all, i)
               PROVE  Rank(S, i) > next
    BY <1>2, <1>3 DEF Ahead, n
  <2>1. i \in S /\ \A p \in 1..n : i \in sets[p]
    BY <1>1, <1>3
  <2>2. ~Contains(got, i)
    <3>1. \A k \in 1..Len(got) : k \in 1..Len(all)
      BY <1>1, <1>4
    <3> QED
      BY <1>4, <3>1 DEF Contains
  <2>3. ~Contains(items, i)
    <3>1. \A k \in 1..Len(items) : Len(got) + k \in 1..Len(all)
      BY <1>1, <1>4
    <3> QED
      BY <1>4, <3>1 DEF Contains
  <2>4. Rank(S, i) \in Nat /\ Rank(S, i) > offset
    <3>1. CASE sets = <<>>
      <4>1. offset = 0
        BY <1>1, <3>1 DEF n, offset
      <4>2. Rank(S, i) \in 1..Cardinality(S) /\ Cardinality(S) \in Nat
        BY <2>1, Ranks, ItemsFinite
      <4> QED
        BY <4>1, <4>2
    <3>2. CASE sets # <<>>
      <4>1. n \in 1..n
        <5>1. n # 0
          BY <1>1, <3>2, EmptySeq DEF n
        <5> QED
          BY <1>1, <5>1
      <4>2. Rank(sets[n], i) > offset
        <5>1. \A j \in 1..(i - 1) : ~Left(sets, j)
          BY <1>7
        <5> QED
          BY <1>6, <2>1, <2>2, <3>2, <5>1 DEF Ahead, n, offset
      <4>3. sets[n] \in SUBSET Item
        BY <1>1, <4>1, ElementOfSeq DEF n
      <4>4. \A j \in sets[n] : j <= i => j \in S
        <5> SUFFICES ASSUME NEW j \in sets[n], j <= i, j \notin S PROVE FALSE
          OBVIOUS
        <5>1. j \in Nat /\ i \in Nat /\ j >= 1
          BY <4>3, RegisterReadAssumption DEF Item
        <5>2. j \in 1..(i - 1)
          BY <2>1, <5>1
        <5>3. n \in 1..Len(more) /\ n + 1 \in 1..Len(more) /\ n < n + 1
          BY <1>1, <1>3, <4>1
        <5>4. j \in more[n] /\ j \notin more[n + 1]
          BY <1>3, <4>1
        <5>5. Left(more, j)
          BY <5>3, <5>4 DEF Left
        <5> QED
          BY <5>2, <5>5
      <4>5. Rank(sets[n], i) \in Nat /\ Rank(S, i) \in Nat /\ Rank(sets[n], i) <= Rank(S, i)
        BY <4>3, <4>4, RankGrows
      <4> QED
        BY <1>2, <4>2, <4>5
    <3> QED
      BY <3>1, <3>2
  <2> QED
    BY <1>2, <1>5, <2>1, <2>3, <2>4
<1>10. Behind(more, all)
  <2> SUFFICES ASSUME NEW k \in 1..Len(all)
               PROVE  \E p \in 1..(n + 1) : all[k] \in more[p] /\ Rank(more[p], all[k]) <= next
    BY <1>2, <1>3 DEF Behind, n
  <2>1. CASE k \in 1..Len(got) /\ all[k] = got[k]
    <3>1. PICK p \in 1..n : got[k] \in sets[p] /\ Rank(sets[p], got[k]) <= offset
      BY <1>6, <2>1 DEF Behind, n, offset
    <3>2. sets[p] \in SUBSET Item /\ p \in 1..(n + 1) /\ more[p] = sets[p]
      BY <1>1, <1>3, ElementOfSeq DEF n
    <3>3. Rank(sets[p], got[k]) \in Nat
      BY <3>2, RankGrows
    <3>4. Rank(sets[p], got[k]) <= next
      BY <1>2, <3>1, <3>3
    <3> QED
      BY <2>1, <3>1, <3>2, <3>4
  <2>2. CASE k - Len(got) \in 1..Len(items) /\ all[k] = items[k - Len(got)]
    <3>1. /\ items[k - Len(got)] \in S /\ Rank(S, items[k - Len(got)]) = offset + (k - Len(got))
          /\ k - Len(got) <= PageSize
      BY <1>5, <2>2
    <3>2. n + 1 \in 1..(n + 1) /\ offset + (k - Len(got)) <= next
      BY <1>1, <1>2, <3>1 DEF next
    <3> QED
      BY <1>3, <2>2, <3>1, <3>2
  <2> QED
    BY <1>8, <2>1, <2>2
<1>11. NoneTwice(more, all)
  <2> SUFFICES ASSUME NEW k \in 1..Len(all), NEW l \in 1..Len(all), k < l, all[k] = all[l]
               PROVE  \E j \in 1..(all[k] - 1) : Came(more, j)
    BY DEF NoneTwice
  <2>1. CASE l \in 1..Len(got) /\ all[l] = got[l]
    <3>1. k \in 1..Len(got) /\ all[k] = got[k]
      BY <1>1, <1>4, <2>1
    <3> QED
      BY <1>6, <1>7, <2>1, <3>1 DEF NoneTwice
  <2>2. CASE l - Len(got) \in 1..Len(items) /\ all[l] = items[l - Len(got)]
    <3>1. all[l] \in S /\ Rank(S, all[l]) = offset + (l - Len(got))
      BY <1>5, <2>2
    <3>2. CASE k \in 1..Len(got) /\ all[k] = got[k]
      <4> DEFINE i == got[k]
      <4>1. PICK p \in 1..n : i \in sets[p] /\ Rank(sets[p], i) <= offset
        BY <1>6, <3>2 DEF Behind, n, offset
      <4>2. sets[p] \in SUBSET Item /\ p \in 1..(n + 1) /\ more[p] = sets[p]
        BY <1>1, <1>3, ElementOfSeq DEF n
      <4>3. i \in S /\ Rank(S, i) > offset /\ i = all[k]
        BY <1>1, <1>2, <2>2, <3>1, <3>2
      <4> HIDE DEF i
      <4>4. ASSUME \A j \in S : j <= i => j \in sets[p] PROVE FALSE
        <5>1. Rank(S, i) \in Nat /\ Rank(sets[p], i) \in Nat /\ Rank(S, i) <= Rank(sets[p], i)
          BY <4>2, <4>4, RankGrows
        <5> QED
          BY <1>2, <4>1, <4>3, <5>1
      <4>5. PICK j \in S : j <= i /\ j \notin sets[p]
        BY <4>4
      <4>6. j \in 1..(i - 1)
        <5>1. j \in Nat /\ i \in Nat /\ j >= 1
          BY <4>3, RegisterReadAssumption DEF Item
        <5> QED
          BY <4>1, <4>5, <5>1
      <4>7. Came(more, j)
        <5>1. p \in 1..Len(more) /\ n + 1 \in 1..Len(more) /\ p < n + 1
          BY <1>1, <1>3
        <5>2. j \notin more[p] /\ j \in more[n + 1]
          BY <1>3, <4>2, <4>5
        <5> QED
          BY <5>1, <5>2 DEF Came
      <4> QED
        BY <4>3, <4>6, <4>7
    <3>3. CASE k - Len(got) \in 1..Len(items) /\ all[k] = items[k - Len(got)]
      <4>1. Rank(S, all[k]) = offset + (k - Len(got))
        BY <1>5, <3>3
      <4> QED
        BY <1>1, <1>2, <3>1, <4>1
    <3> QED
      BY <1>8, <3>2, <3>3
  <2> QED
    BY <1>8, <2>1, <2>2
<1> QED
  BY <1>3, <1>4, <1>9, <1>10, <1>11 DEF Walked, more, all, items

\* The sets that a client's pages were made from.
ValidOf(d, f, s) == {i \in Registered(s) : d \/ isA(s[i], f)}
PagesOf(d, f, snapshots) == [p \in 1..Len(snapshots) |-> ValidOf(d, f, snapshots[p])]

\* A client's walk; once it is done the last page had room for more.
WalkOf(d, f, r) ==
    /\ r.snapshots \in Seq(Snapshot \cup {Null}) /\ r.page = Len(r.snapshots)
    /\ Walked(PagesOf(d, f, r.snapshots), r.got)
    /\ r.pc = "done" =>
          /\ r.page > 0
          /\ Cardinality(ValidOf(d, f, r.snapshots[r.page])) < r.page * PageSize

WalkInv == \A c \in Walker : WalkOf(delegated, filter, reader[c])

\* One more snapshot is one more set.
LEMMA PagesAppend ==
    ASSUME NEW d, NEW f, NEW snapshots \in Seq(Snapshot \cup {Null}), NEW s \in Snapshot \cup {Null}
    PROVE  /\ Append(snapshots, s) \in Seq(Snapshot \cup {Null})
           /\ Len(Append(snapshots, s)) = Len(snapshots) + 1
           /\ Append(snapshots, s)[Len(snapshots) + 1] = s
           /\ Len(PagesOf(d, f, snapshots)) = Len(snapshots)
           /\ PagesOf(d, f, Append(snapshots, s)) = Append(PagesOf(d, f, snapshots), ValidOf(d, f, s))
<1> DEFINE n == Len(snapshots)
           more == Append(snapshots, s)
           sets == PagesOf(d, f, snapshots)
           S == ValidOf(d, f, s)
<1>1. /\ n \in Nat /\ more \in Seq(Snapshot \cup {Null}) /\ Len(more) = n + 1
      /\ (\A p \in 1..n : more[p] = snapshots[p]) /\ more[n + 1] = s
  BY LenProperties, AppendProperties
<1>2. \A x : ValidOf(d, f, x) \in SUBSET Item
  BY DEF ValidOf, Registered
<1>3. sets \in Seq(SUBSET Item) /\ Len(sets) = n /\ \A p \in 1..n : sets[p] = ValidOf(d, f, snapshots[p])
  <2>1. sets = [p \in 1..n |-> ValidOf(d, f, snapshots[p])]
    BY DEF PagesOf
  <2>2. sets \in [1..n -> SUBSET Item]
    BY <1>2, <2>1
  <2> HIDE DEF sets, n
  <2> QED
    BY <1>1, <2>1, <2>2
<1> HIDE DEF sets, more
<1>4. /\ Append(sets, S) \in Seq(SUBSET Item) /\ Len(Append(sets, S)) = n + 1
      /\ (\A p \in 1..n : Append(sets, S)[p] = sets[p]) /\ Append(sets, S)[n + 1] = S
  BY <1>2, <1>3, AppendProperties
<1>5. PagesOf(d, f, more) = Append(sets, S)
  <2> DEFINE a == Append(sets, S)
  <2> HIDE DEF a, S, n
  <2>1. PagesOf(d, f, more) = [p \in 1..(n + 1) |-> ValidOf(d, f, more[p])]
    BY <1>1 DEF PagesOf
  <2>2. a \in [1..(n + 1) -> SUBSET Item]
    BY <1>4, LenProperties DEF a
  <2>3. ASSUME NEW p \in 1..(n + 1) PROVE ValidOf(d, f, more[p]) = a[p]
    <3>1. CASE p = n + 1
      BY <1>1, <1>4, <3>1 DEF S, a
    <3>2. CASE p # n + 1
      <4>1. p \in 1..n
        BY <1>1, <3>2
      <4> QED
        BY <1>1, <1>3, <1>4, <4>1 DEF a
    <3> QED
      BY <3>1, <3>2
  <2> QED
    BY <2>1, <2>2, <2>3 DEF a
<1> QED
  BY <1>1, <1>3, <1>5 DEF more, sets

\* A client that has read nothing.
LEMMA WalkStarts ==
    ASSUME NEW d, NEW f
    PROVE  WalkOf(d, f, Start)
<1>1. Start.snapshots = <<>> /\ Start.got = <<>> /\ Start.page = 0 /\ Start.pc = "get"
  BY DEF Start
<1>2. Len(<<>>) = 0 /\ 1..0 = {} /\ \A S : <<>> \in Seq(S)
  OBVIOUS
<1>3. PagesOf(d, f, <<>>) = <<>>
  BY <1>2 DEF PagesOf
<1>4. Walked(<<>>, <<>>)
  BY <1>2 DEF Walked, Ahead, Behind, NoneTwice
<1> QED
  BY <1>1, <1>2, <1>3, <1>4 DEF WalkOf

\* A step that neither answers the client's page nor ends its walk.
SameWalk(r, q) ==
    q.snapshots = r.snapshots /\ q.page = r.page /\ q.got = r.got /\ (q.pc = "done" => r.pc = "done")

\* Such a step keeps the walk.
LEMMA WalkStays ==
    ASSUME NEW d, NEW f, NEW r, NEW q, WalkOf(d, f, r), SameWalk(r, q)
    PROVE  WalkOf(d, f, q)
BY DEF WalkOf, SameWalk

\* The answer to a page takes the walk on.
LEMMA WalkAdvances ==
    ASSUME NEW d, NEW f, NEW r, NEW q, NEW s \in Snapshot \cup {Null}, NEW view,
           WalkOf(d, f, r), PageOf(ValidOf(d, f, s), r.page * PageSize, view),
           q.snapshots = Append(r.snapshots, s), q.page = r.page + 1, q.got = r.got \o view.items,
           q.pc = "done" => view.complete
    PROVE  WalkOf(d, f, q)
<1> DEFINE n == Len(r.snapshots)
           S == ValidOf(d, f, s)
           sets == PagesOf(d, f, r.snapshots)
<1>1. /\ r.snapshots \in Seq(Snapshot \cup {Null}) /\ r.page = n /\ Walked(sets, r.got)
      /\ n \in Nat /\ PageSize \in Nat
  BY LenProperties, PagingAssumption DEF WalkOf
<1>2. /\ q.snapshots \in Seq(Snapshot \cup {Null}) /\ Len(q.snapshots) = n + 1
      /\ q.snapshots[n + 1] = s /\ Len(sets) = n
      /\ PagesOf(d, f, q.snapshots) = Append(sets, S)
  BY <1>1, PagesAppend
<1>3. S \in SUBSET Item
  BY DEF ValidOf, Registered
<1> HIDE DEF S, sets, n
<1>4. PageOf(S, Len(sets) * PageSize, view)
  BY <1>1, <1>2 DEF S
<1>5. Walked(Append(sets, S), q.got)
  BY <1>1, <1>3, <1>4, NextPage
<1>6. q.pc = "done" => Cardinality(S) < q.page * PageSize
  <2>1. view.complete => Cardinality(S) < n * PageSize + PageSize
    BY <1>2, <1>4 DEF PageOf
  <2>2. q.page * PageSize = n * PageSize + PageSize
    BY <1>1
  <2> QED
    BY <2>1, <2>2
<1>7. q.page = n + 1 /\ q.page > 0
  BY <1>1
<1> QED
  BY <1>2, <1>5, <1>6, <1>7 DEF WalkOf, S

\* What clients have got from the register follows from what their pages were
\* made from, whatever is written between two pages.
THEOREM WalksInvariant == ReadsSpec => []WalkInv
<1>1. ReadsInit => WalkInv
  BY WalkStarts, RegisterReadAssumption DEF ReadsInit, ReadInit, WalkInv, Client
<1>2. ReadInv /\ WalkInv /\ [ReadsNext]_readsVars => WalkInv'
  <2> SUFFICES ASSUME ReadInv, WalkInv, ReadNext \/ UNCHANGED readVars PROVE WalkInv'
    BY DEF ReadsNext, readsVars
  <2>1. UNCHANGED <<delegated, filter>>
    BY DEF ReadNext, readVars, Flush, RemoteChange, Write, Evict, Get, Load, Put, Members, List, Assign, View, Store
  <2>2. ASSUME \A c \in Walker : SameWalk(reader[c], reader'[c]) PROVE WalkInv'
    BY <2>1, <2>2, WalkStays DEF WalkInv
  <2>3. ASSUME UNCHANGED reader PROVE WalkInv'
    BY <2>2, <2>3 DEF SameWalk
  <2>4. ASSUME NEW c \in Client, NEW from, NEW next, Becomes(c, from, next)
        PROVE  /\ reader[c].pc = from /\ IsRequest(reader[c]) /\ reader'[c] = next
               /\ \A d \in Client \ {c} : reader'[d] = reader[d]
    BY <2>4 DEF Becomes, ReadInv, ReadTypeOK
  <2>5. ASSUME NEW c \in Client, NEW from, NEW next, Becomes(c, from, next), SameWalk(reader[c], next)
        PROVE  WalkInv'
    <3>1. \A d \in Client : SameWalk(reader[d], reader'[d])
      BY <2>4, <2>5 DEF SameWalk
    <3> QED
      BY <2>2, <3>1 DEF Client
  <2>6. CASE Write \/ Evict \/ (\E i \in Item : RemoteChange(i)) \/ (\E i \in Item, s \in ItemStatus : Flush(i, s))
    BY <2>3, <2>6 DEF Write, Evict, RemoteChange, Flush
  <2>7. ASSUME NEW c \in Client, Get(c) PROVE WalkInv'
    <3> DEFINE next == [reader[c] EXCEPT !.pc = IF cache = Null THEN "load" ELSE "members", !.object = cache]
    <3>1. Becomes(c, "get", next)
      BY <2>7 DEF Get
    <3>2. IsRequest(reader[c])
      BY <2>4, <3>1
    <3>3. SameWalk(reader[c], next)
      BY <3>2 DEF IsRequest, SameWalk
    <3> HIDE DEF next
    <3> QED
      BY <2>5, <3>1, <3>3
  <2>8. ASSUME NEW c \in Client, Load(c) PROVE WalkInv'
    <3> DEFINE next == [reader[c] EXCEPT !.pc = "put", !.object = CHOOSE o \in Object : heap[o] = Null]
    <3>1. Becomes(c, "load", next)
      BY <2>8 DEF Load
    <3>2. IsRequest(reader[c])
      BY <2>4, <3>1
    <3>3. SameWalk(reader[c], next)
      BY <3>2 DEF IsRequest, SameWalk
    <3> HIDE DEF next
    <3> QED
      BY <2>5, <3>1, <3>3
  <2>9. ASSUME NEW c \in Client, Put(c) PROVE WalkInv'
    <3> DEFINE next == [reader[c] EXCEPT !.pc = "members"]
    <3>1. Becomes(c, "put", next)
      BY <2>9 DEF Put
    <3>2. IsRequest(reader[c])
      BY <2>4, <3>1
    <3>3. SameWalk(reader[c], next)
      BY <3>2 DEF IsRequest, SameWalk
    <3> HIDE DEF next
    <3> QED
      BY <2>5, <3>1, <3>3
  <2>10. ASSUME NEW c \in Client, Members(c) PROVE WalkInv'
    <3> DEFINE next == [reader[c] EXCEPT !.pc = IF heap[reader[c].object].members = Null THEN "list" ELSE "view"]
    <3>1. Becomes(c, "members", next)
      BY <2>10 DEF Members
    <3>2. IsRequest(reader[c])
      BY <2>4, <3>1
    <3>3. SameWalk(reader[c], next)
      BY <3>2 DEF IsRequest, SameWalk
    <3> HIDE DEF next
    <3> QED
      BY <2>5, <3>1, <3>3
  <2>11. ASSUME NEW c \in Client, List(c) PROVE WalkInv'
    <3> DEFINE next == [reader[c] EXCEPT !.pc = "assign", !.listed = status]
    <3>1. Becomes(c, "list", next)
      BY <2>11 DEF List
    <3>2. IsRequest(reader[c])
      BY <2>4, <3>1
    <3>3. SameWalk(reader[c], next)
      BY <3>2 DEF IsRequest, SameWalk
    <3> HIDE DEF next
    <3> QED
      BY <2>5, <3>1, <3>3
  <2>12. ASSUME NEW c \in Client, Assign(c) PROVE WalkInv'
    <3> DEFINE next == [reader[c] EXCEPT !.pc = "view", !.listed = Null]
    <3>1. Becomes(c, "assign", next)
      BY <2>12 DEF Assign
    <3>2. IsRequest(reader[c])
      BY <2>4, <3>1
    <3>3. SameWalk(reader[c], next)
      BY <3>2 DEF IsRequest, SameWalk
    <3> HIDE DEF next
    <3> QED
      BY <2>5, <3>1, <3>3
  <2>13. ASSUME NEW c \in Client, View(c) PROVE WalkInv'
    <3> DEFINE snapshot == heap[reader[c].object].members
               view == Answer(snapshot, reader[c].page * PageSize, PageSize)
               turn == [reader[c] EXCEPT !.pc = IF view.complete THEN "done" ELSE "get",
                          !.object = Null, !.page = @ + 1, !.got = @ \o view.items,
                          !.snapshots = Append(@, snapshot)]
    <3> HIDE DEF snapshot, view
    <3>1. Becomes(c, "view", IF c \in Reader THEN Start ELSE turn)
      BY <2>13 DEF View, view, snapshot
    <3>2. reader[c].pc = "view" /\ IsRequest(reader[c]) /\ \A d \in Client \ {c} : reader'[d] = reader[d]
      BY <2>4, <3>1
    <3>3. reader'[c] = IF c \in Reader THEN Start ELSE turn
      BY <2>4, <3>1
    <3>4. ASSUME NEW d \in Walker, d # c PROVE WalkOf(delegated', filter', reader'[d])
      BY <2>1, <3>2, <3>4 DEF WalkInv, Client
    <3>5. ASSUME c \in Walker PROVE WalkOf(delegated', filter', reader'[c])
      <4>1. reader'[c] = turn
        BY <3>3, <3>5, RegisterReadAssumption
      <4>2. /\ turn.snapshots = Append(reader[c].snapshots, snapshot) /\ turn.page = reader[c].page + 1
            /\ turn.got = reader[c].got \o view.items /\ (turn.pc = "done" => view.complete)
        BY <3>2 DEF IsRequest
      <4> HIDE DEF turn
      <4>3. snapshot \in Snapshot \cup {Null}
        <5>1. reader[c].object \in Object /\ heap[reader[c].object] # Null
          BY <3>2 DEF IsRequest, ReadInv, HeapInv, Refers
        <5>2. heap[reader[c].object] \in ObjectState
          BY <5>1 DEF ReadInv, ReadTypeOK
        <5> QED
          BY <5>2 DEF ObjectState, snapshot
      <4>4. WalkOf(delegated, filter, reader[c])
        BY <3>5 DEF WalkInv
      <4>5. PageOf(ValidOf(delegated, filter, snapshot), reader[c].page * PageSize, view)
        <5>1. reader[c].page * PageSize \in Nat
          <6>1. reader[c].page \in Nat /\ PageSize \in Nat
            BY <4>4, LenProperties, PagingAssumption DEF WalkOf
          <6> QED
            BY <6>1
        <5>2. Valid(snapshot) = ValidOf(delegated, filter, snapshot)
          BY DEF Valid, ValidOf
        <5> QED
          BY <5>1, <5>2, PageAnswered DEF view
      <4> QED
        BY <2>1, <4>1, <4>2, <4>3, <4>4, <4>5, WalkAdvances
    <3> QED
      BY <3>4, <3>5 DEF WalkInv
  <2>14. CASE UNCHANGED readVars
    BY <2>3, <2>14 DEF readVars
  <2> QED
    BY <2>6, <2>7, <2>8, <2>9, <2>10, <2>11, <2>12, <2>13, <2>14 DEF ReadNext
<1> QED
  BY <1>1, <1>2, ReadsInvariant, PTL DEF ReadsSpec

\* An item is listed if it is valid, and has left or come if its sets say so.
LEMMA InValid ==
    ASSUME NEW s, NEW i
    PROVE  In(s, i) <=> i \in ValidOf(delegated, filter, s)
<1> DEFINE S == Valid(s)
           list == Matching(s)
<1>1. S = ValidOf(delegated, filter, s)
  BY DEF Valid, ValidOf
<1>2. InOrder(S, list)
  BY ValidItems, OrderByRank DEF Matching
<1> HIDE DEF S, list
<1>3. Contains(list, i) <=> i \in S
  BY <1>2 DEF InOrder, Contains
<1> QED
  BY <1>1, <1>3 DEF In, list

\* What the sets say has gone or come, the snapshots say too.
LEMMA MovedIfSetsSay ==
    ASSUME NEW c, NEW j, reader[c].snapshots \in Seq(Snapshot \cup {Null})
    PROVE  LET sets == PagesOf(delegated, filter, reader[c].snapshots)
           IN  /\ Left(sets, j) => Moved(c, j, TRUE, FALSE)
               /\ Came(sets, j) => Moved(c, j, FALSE, TRUE)
<1> DEFINE snapshots == reader[c].snapshots
           n == Len(snapshots)
           sets == PagesOf(delegated, filter, snapshots)
<1>1. n \in Nat
  BY LenProperties
<1>2. Len(sets) = n /\ \A p \in 1..n : sets[p] = ValidOf(delegated, filter, snapshots[p])
  BY <1>1 DEF PagesOf
<1> HIDE DEF sets
<1>3. \A p \in 1..n : In(snapshots[p], j) <=> j \in sets[p]
  BY <1>2, InValid
<1>4. \A p \in 1..n : (In(snapshots[p], j) = TRUE <=> j \in sets[p]) /\ (In(snapshots[p], j) = FALSE <=> j \notin sets[p])
  <2>1. \A p \in 1..n : In(snapshots[p], j) \in BOOLEAN
    BY DEF In, Contains
  <2> QED
    BY <1>3, <2>1
<1> QED
  BY <1>2, <1>4 DEF Left, Came, Moved, sets

\* A client that has followed the links to the end has every item that matched
\* all along, unless one before it has gone, and none twice, unless one before
\* it has come, for any number of items, clients, writes and any page size
\* (Register.constructView, CommandRead.registerRead).
THEOREM WalksSeeAll == ReadsSpec => []WalkSeesAll
<1>1. ReadInv /\ WalkInv => WalkSeesAll
  <2> SUFFICES ASSUME WalkInv, NEW c \in Walker, reader[c].pc = "done", NEW i \in Item
               PROVE  /\ (\A p \in 1..Len(reader[c].snapshots) : In(reader[c].snapshots[p], i))
                            => Contains(reader[c].got, i) \/ \E j \in 1..(i - 1) : Moved(c, j, TRUE, FALSE)
                      /\ (\E p, q \in 1..Len(reader[c].got) :
                             p < q /\ reader[c].got[p] = i /\ reader[c].got[q] = i)
                            => \E j \in 1..(i - 1) : Moved(c, j, FALSE, TRUE)
    BY DEF WalkSeesAll
  <2> DEFINE snapshots == reader[c].snapshots
             n == Len(snapshots)
             got == reader[c].got
             sets == PagesOf(delegated, filter, snapshots)
             S == ValidOf(delegated, filter, snapshots[n])
  <2>1. /\ snapshots \in Seq(Snapshot \cup {Null}) /\ Walked(sets, got) /\ n > 0
        /\ Cardinality(S) < n * PageSize
    BY DEF WalkInv, WalkOf
  <2>2. n \in Nat /\ n \in 1..n /\ PageSize \in Nat
    BY <2>1, LenProperties, PagingAssumption
  <2>3. Len(sets) = n /\ \A p \in 1..n : sets[p] = ValidOf(delegated, filter, snapshots[p])
    BY <2>2 DEF PagesOf
  <2>4. \A j : (Left(sets, j) => Moved(c, j, TRUE, FALSE)) /\ (Came(sets, j) => Moved(c, j, FALSE, TRUE))
    BY <2>1, MovedIfSetsSay
  <2>5. S \in SUBSET Item /\ sets[n] = S
    BY <2>2, <2>3 DEF ValidOf, Registered
  <2>6. ASSUME \A p \in 1..n : In(snapshots[p], i), \A j \in 1..(i - 1) : ~Moved(c, j, TRUE, FALSE)
        PROVE  Contains(got, i)
    <3>1. \A p \in 1..n : i \in sets[p]
      BY <2>3, <2>6, InValid
    <3>2. \A j \in 1..(i - 1) : ~Left(sets, j)
      BY <2>4, <2>6
    <3>3. sets # <<>>
      BY <2>1, <2>2, <2>3
    <3> HIDE DEF sets, S, n, got
    <3>4. Contains(got, i) \/ Rank(S, i) > n * PageSize
      BY <2>1, <2>3, <2>5, <3>1, <3>2, <3>3 DEF Walked, Ahead
    <3>5. Rank(S, i) \in 1..Cardinality(S) /\ Cardinality(S) \in Nat
      BY <2>2, <2>5, <3>1, Ranks, ItemsFinite
    <3>6. n * PageSize \in Nat
      BY <2>2
    <3> QED
      BY <2>1, <3>4, <3>5, <3>6
  <2>7. ASSUME NEW p \in 1..Len(got), NEW q \in 1..Len(got), p < q, got[p] = i, got[q] = i
        PROVE  \E j \in 1..(i - 1) : Moved(c, j, FALSE, TRUE)
    <3> HIDE DEF sets, got
    <3>1. \E j \in 1..(i - 1) : Came(sets, j)
      BY <2>1, <2>7 DEF Walked, NoneTwice
    <3> QED
      BY <2>4, <3>1
  <2> QED
    BY <2>6, <2>7
<1> QED
  BY <1>1, ReadsInvariant, WalksInvariant, PTL
==============================================================================
