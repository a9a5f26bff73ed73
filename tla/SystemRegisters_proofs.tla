------------------------ MODULE SystemRegisters_proofs ------------------------
(***************************************************************************)
(* Theorems about what is kept in memory of the system registers, for any  *)
(* number of reading threads and any number of writes.                     *)
(***************************************************************************)
EXTENDS SystemRegisters, TLAPS

Versions == 0..MaxWrites
Fields == {"prefixes", "jsonldContext", "rawTemplates"}

\* The places of a thread between the test of a field and its use.
Loading == {"test", "listen", "flag", "read", "assign", "return", "put"}
TemplatesLoading == {"templatesRead", "templatesPut"}
Places == TemplatePlaces \cup Loading \cup {"idle", "failed", "contextTest", "publish", "contextReturn"}

ReaderState == [pc : Places, context : BOOLEAN, local : Versions \cup {Null},
                resetSeen : BOOLEAN, resetSinceRead : BOOLEAN]

SysTypeOK ==
    /\ processors \in Seq(Register)
    /\ queue \in Seq([target : Register, processor : Register])
    /\ version \in [Register -> Versions] /\ unannounced \in [Register -> Versions]
    /\ toNotify \subseteq Register
    /\ prefixes \in Versions \cup {Null}
    /\ jsonldContext \in (SUBSET Versions) \cup {Null}
    /\ rawTemplates \in (SUBSET Versions) \cup {Null}
    /\ listening \subseteq Register
    /\ resetting \in BOOLEAN
    /\ reader \in [Thread -> ReaderState]
    /\ raced \subseteq Fields

Registered == \E i \in DOMAIN processors : processors[i] = "prefixes"

\* A reset of the register's caches is to begin.  While Prefixes.resetCache is
\* between its two assignments, the first task of the queue has begun.
Coming(r) ==
    \/ r \in toNotify
    \/ \E i \in DOMAIN queue : /\ queue[i].target = r /\ queue[i].processor = r
                               /\ ~(resetting /\ r = "prefixes" /\ i = 1)

\* Version v of register r is that of the store, or is about to be dropped, or
\* was overtaken by a write that nobody was told of.
Excused(r, v) == v < version[r] => Coming(r) \/ v < unannounced[r]

\* The same of a version that a reset in progress drops too.
Told(r, v) == v < version[r] => Announced(r) \/ v < unannounced[r]

\* What thread t relies on.
ReaderInv(t) ==
    LET place == reader[t].pc IN
    /\ place = "failed" => reader[t].resetSeen
    /\ place \in {"contextTest", "publish"} => reader[t].context
    /\ place = "return" /\ prefixes = Null => reader[t].resetSeen
    /\ place = "contextReturn" /\ jsonldContext = Null => reader[t].resetSeen
    /\ place \in Loading /\ (reader[t].context \/ place = "put") /\ jsonldContext = Null => reader[t].resetSeen
    /\ place \in TemplatePlaces \ {"templatesTest", "templatesPublish"} /\ rawTemplates = Null
          => reader[t].resetSeen
    /\ place \in {"flag", "read", "assign", "put"} => Registered
    /\ place \in {"assign", "put"} =>
          reader[t].local \in Versions /\ (~reader[t].resetSinceRead => Excused("prefixes", reader[t].local))
    /\ place = "templatesPut" =>
          reader[t].local \in Versions /\ (~reader[t].resetSinceRead => Excused("templates", reader[t].local))

\* What the fields hold.
FieldInv ==
    /\ resetting => queue # <<>> /\ queue[1].target = "prefixes" /\ queue[1].processor = "prefixes"
    /\ "prefixes" \in listening \/ prefixes # Null \/ jsonldContext \notin {Null, {}} => Registered
    /\ prefixes # Null /\ "prefixes" \notin raced => Excused("prefixes", prefixes)
    /\ jsonldContext # Null /\ "jsonldContext" \notin raced => \A v \in jsonldContext : Told("prefixes", v)
    /\ rawTemplates # Null /\ "rawTemplates" \notin raced => \A v \in rawTemplates : Told("templates", v)

\* An empty map is being filled, by a thread that will not fail.
EmptyInv ==
    /\ rawTemplates = {} => \E t \in Thread : reader[t].pc \in TemplatesLoading
    /\ jsonldContext = {} /\ ~resetting =>
          \E t \in Thread : /\ reader[t].context /\ reader[t].pc \in Loading
                            /\ reader[t].pc = "return" => prefixes # Null

SysInv == SysTypeOK /\ (\A t \in Thread : ReaderInv(t)) /\ FieldInv /\ EmptyInv

\* A step that takes nothing away from the threads and the fields: no field
\* becomes null, and what was about to be dropped still is.
Calm ==
    /\ \A r \in Register, v \in Versions : r = "templates" \/ Registered =>
          /\ Excused(r, v) => Excused(r, v)'
          /\ Told(r, v) => Told(r, v)'
    /\ Registered => Registered'
    /\ prefixes' = Null => prefixes = Null
    /\ jsonldContext' = Null => jsonldContext = Null
    /\ rawTemplates' = Null => rawTemplates = Null

\* Such a step leaves the threads that do not move what they rely on.
LEMMA CalmThreads ==
    ASSUME SysInv, Calm, NEW u \in Thread, reader'[u] = reader[u]
    PROVE  ReaderInv(u)'
<1>1. /\ ReaderInv(u) /\ reader[u].local \in Versions \cup {Null}
      /\ "prefixes" \in Register /\ "templates" \in Register
  BY SystemAssumption DEF SysInv, SysTypeOK, ReaderState
<1>2. ASSUME reader[u].pc \in {"assign", "put"}, ~reader[u].resetSinceRead
      PROVE  Registered /\ reader[u].local \in Versions /\ Excused("prefixes", reader[u].local)
  BY <1>1, <1>2 DEF ReaderInv
<1>3. ASSUME reader[u].pc = "templatesPut", ~reader[u].resetSinceRead
      PROVE  reader[u].local \in Versions /\ Excused("templates", reader[u].local)
  BY <1>1, <1>3 DEF ReaderInv
<1>4. ASSUME reader[u].pc \in {"assign", "put"}, ~reader[u].resetSinceRead
      PROVE  reader[u].local < version'["prefixes"] =>
                Coming("prefixes")' \/ reader[u].local < unannounced'["prefixes"]
  BY <1>1, <1>2, <1>4 DEF Calm, Excused
<1>5. ASSUME reader[u].pc = "templatesPut", ~reader[u].resetSinceRead
      PROVE  reader[u].local < version'["templates"] =>
                Coming("templates")' \/ reader[u].local < unannounced'["templates"]
  BY <1>1, <1>3, <1>5 DEF Calm, Excused
<1>6. /\ reader[u].pc \in {"assign", "put", "templatesPut"} => reader[u].local \in Versions
      /\ reader[u].pc \in {"flag", "read", "assign", "put"} => Registered'
  BY <1>1 DEF ReaderInv, Calm
<1> QED
  BY <1>1, <1>4, <1>5, <1>6 DEF Calm, ReaderInv, Excused

\* It leaves the fields in order that it does not change.
LEMMA CalmFields ==
    ASSUME SysInv, Calm, UNCHANGED <<prefixes, jsonldContext, rawTemplates, raced, resetting>>,
           "prefixes" \in listening' => "prefixes" \in listening \/ Registered',
           resetting => queue' # <<>> /\ queue'[1] = queue[1]
    PROVE  FieldInv'
<1>1. /\ FieldInv /\ SysTypeOK
      /\ "prefixes" \in Register /\ "templates" \in Register
  BY SystemAssumption DEF SysInv
<1>2. resetting' => /\ queue' # <<>>
                    /\ queue'[1].target = "prefixes" /\ queue'[1].processor = "prefixes"
  BY <1>1 DEF FieldInv
<1>3. "prefixes" \in listening' \/ prefixes' # Null \/ jsonldContext' \notin {Null, {}} => Registered'
  BY <1>1 DEF FieldInv, Calm
<1>4. ASSUME prefixes # Null, "prefixes" \notin raced
      PROVE  prefixes < version'["prefixes"] =>
                Coming("prefixes")' \/ prefixes < unannounced'["prefixes"]
  <2>1. Registered /\ Excused("prefixes", prefixes) /\ prefixes \in Versions
    BY <1>1, <1>4 DEF FieldInv, SysTypeOK
  <2> QED
    BY <1>1, <2>1 DEF Calm, Excused
<1>5. ASSUME jsonldContext # Null, "jsonldContext" \notin raced, NEW v \in jsonldContext
      PROVE  Told("prefixes", v)'
  <2>1. v \in Versions /\ jsonldContext # {}
    BY <1>1, <1>5 DEF SysTypeOK
  <2>2. Registered /\ Told("prefixes", v)
    BY <1>1, <1>5, <2>1 DEF FieldInv
  <2> QED
    BY <1>1, <2>1, <2>2 DEF Calm
<1>6. ASSUME rawTemplates # Null, "rawTemplates" \notin raced, NEW v \in rawTemplates
      PROVE  Told("templates", v)'
  <2>1. v \in Versions
    BY <1>1, <1>6 DEF SysTypeOK
  <2>2. Told("templates", v)
    BY <1>1, <1>6 DEF FieldInv
  <2> QED
    BY <1>1, <2>1, <2>2 DEF Calm
<1> QED
  BY <1>2, <1>3, <1>4, <1>5, <1>6 DEF FieldInv, Excused, Told

\* A step of a thread that changes none of the fields keeps everything, if
\* the thread knows what it has to know at its next place and does not leave
\* an empty map behind.
LEMMA ThreadMoves ==
    ASSUME SysInv, NEW t \in Thread, NEW n \in ReaderState,
           reader' = [reader EXCEPT ![t] = n],
           UNCHANGED <<version, toNotify, unannounced, resetting, queue>>,
           UNCHANGED <<prefixes, jsonldContext, rawTemplates, raced>>,
           processors' \in Seq(Register), Registered => Registered',
           listening' \subseteq Register,
           "prefixes" \in listening' => "prefixes" \in listening \/ Registered',
           ReaderInv(t)',
           reader[t].pc \in TemplatesLoading => n.pc \in TemplatesLoading,
           /\ reader[t].context /\ reader[t].pc \in Loading
           /\ reader[t].pc = "return" => prefixes # Null
           => /\ n.context /\ n.pc \in Loading
              /\ n.pc = "return" => prefixes # Null
    PROVE  SysInv'
<1>1. SysTypeOK /\ FieldInv /\ EmptyInv
  BY DEF SysInv
<1>2. /\ reader' \in [Thread -> ReaderState] /\ reader'[t] = n
      /\ \A u \in Thread : u # t => reader'[u] = reader[u]
  BY <1>1 DEF SysTypeOK
<1>3. SysTypeOK'
  BY <1>1, <1>2 DEF SysTypeOK
<1>4. Calm
  BY DEF Calm, Excused, Told, Coming, Announced
<1>5. FieldInv'
  BY <1>1, <1>4, CalmFields DEF FieldInv
<1>6. \A u \in Thread : ReaderInv(u)'
  BY <1>2, <1>4, CalmThreads
<1>7. rawTemplates' = {} => \E u \in Thread : reader'[u].pc \in TemplatesLoading
  BY <1>1, <1>2 DEF EmptyInv
<1>8. jsonldContext' = {} /\ ~resetting' =>
        \E u \in Thread : /\ reader'[u].context /\ reader'[u].pc \in Loading
                          /\ reader'[u].pc = "return" => prefixes' # Null
  BY <1>1, <1>2 DEF EmptyInv
<1>9. EmptyInv'
  BY <1>7, <1>8 DEF EmptyInv
<1> QED
  BY <1>3, <1>5, <1>6, <1>9 DEF SysInv

\* The step of a thread changes no shared variable.
Still ==
    /\ UNCHANGED <<version, toNotify, unannounced, resetting, queue>>
    /\ UNCHANGED <<prefixes, jsonldContext, rawTemplates, raced>>
    /\ listening' = listening /\ listening' \subseteq Register
    /\ processors' \in Seq(Register) /\ (Registered <=> Registered')
    /\ \A r \in Register : Coming(r) <=> Coming(r)'

\* It changes nothing but fields.
Kept ==
    /\ UNCHANGED <<version, toNotify, unannounced, resetting, queue, processors>>
    /\ Registered <=> Registered'
    /\ \A r \in Register : (Coming(r) <=> Coming(r)') /\ (Announced(r) <=> Announced(r)')

\* Every step of a thread keeps the invariant (Prefixes, TypedTemplateIndex).
LEMMA ReaderStep ==
    ASSUME SysInv, NEW t \in Thread,
           Reader(t) \/ \E place \in {"test", "contextTest", "templatesTest"} : Begin(t, place)
    PROVE  SysInv'
<1> USE SystemAssumption DEF Places, Loading, TemplatesLoading, TemplatePlaces
<1>1. /\ SysInv /\ SysTypeOK /\ FieldInv /\ EmptyInv /\ ReaderInv(t)
      /\ reader \in [Thread -> ReaderState] /\ reader[t] \in ReaderState
      /\ processors \in Seq(Register) /\ listening \subseteq Register /\ Null \notin Versions
  BY DEF SysInv, SysTypeOK, Versions
<1>2. ASSUME NEW place \in {"test", "contextTest", "templatesTest"}, Begin(t, place)
      PROVE  SysInv'
  <2> DEFINE n == [Idle EXCEPT !.pc = place, !.context = (place = "contextTest")]
  <2>1. /\ n \in ReaderState /\ n.pc = place /\ (n.context <=> place = "contextTest")
        /\ reader[t].pc \in {"idle", "failed"}
    BY <1>2 DEF Begin, Idle, ReaderState
  <2>2. reader' = [reader EXCEPT ![t] = n] /\ UNCHANGED <<messagingVars, Others, fields, raced>>
    BY <1>2 DEF Begin
  <2> HIDE DEF n
  <2>3. ReaderInv(t)'
    BY <1>1, <2>1, <2>2 DEF ReaderInv
  <2>4. Still
    BY <1>1, <2>2 DEF Still, Others, storeVars, fields, messagingVars, Registered, Coming
  <2> QED
    BY <1>1, <2>1, <2>2, <2>3, <2>4, ThreadMoves DEF Still
<1>3. CASE ContextTest(t)
  <2> DEFINE n == [reader[t] EXCEPT !.pc = IF jsonldContext = Null THEN "publish" ELSE "contextReturn"]
  <2>1. /\ n \in ReaderState /\ reader[t].pc = "contextTest"
        /\ jsonldContext = Null => n.pc = "publish"
        /\ jsonldContext # Null => n.pc = "contextReturn"
        /\ n.context = reader[t].context /\ n.resetSeen = reader[t].resetSeen
    BY <1>1, <1>3 DEF ContextTest, Goto, Becomes, ReaderState, Idle, Failed, SysTypeOK
  <2>2. reader' = [reader EXCEPT ![t] = n] /\ UNCHANGED <<messagingVars, Others, fields, raced>>
    BY <1>3 DEF ContextTest, Goto, Becomes
  <2> HIDE DEF n
  <2>3. Still
    BY <1>1, <2>2 DEF Still, Others, storeVars, fields, messagingVars, Registered, Coming
  <2>4. ReaderInv(t)'
    BY <1>1, <2>1, <2>2, <2>3 DEF ReaderInv, Still
  <2> QED
    BY <1>1, <2>1, <2>2, <2>3, <2>4, ThreadMoves DEF Still
<1>4. CASE Test(t)
  <2> DEFINE n == [reader[t] EXCEPT !.pc = IF prefixes = Null THEN "listen" ELSE "return"]
  <2>1. /\ n \in ReaderState /\ reader[t].pc = "test"
        /\ prefixes = Null => n.pc = "listen"
        /\ prefixes # Null => n.pc = "return"
        /\ n.context = reader[t].context /\ n.resetSeen = reader[t].resetSeen
    BY <1>1, <1>4 DEF Test, Goto, Becomes, ReaderState, Idle, Failed, SysTypeOK
  <2>2. reader' = [reader EXCEPT ![t] = n] /\ UNCHANGED <<messagingVars, Others, fields, raced>>
    BY <1>4 DEF Test, Goto, Becomes
  <2> HIDE DEF n
  <2>3. Still
    BY <1>1, <2>2 DEF Still, Others, storeVars, fields, messagingVars, Registered, Coming
  <2>4. ReaderInv(t)'
    BY <1>1, <2>1, <2>2, <2>3 DEF ReaderInv, Still
  <2> QED
    BY <1>1, <2>1, <2>2, <2>3, <2>4, ThreadMoves DEF Still
<1>5. CASE TemplatesTest(t)
  <2> DEFINE n == [reader[t] EXCEPT !.pc = IF rawTemplates = Null THEN "templatesPublish" ELSE "templatesReturn"]
  <2>1. /\ n \in ReaderState /\ reader[t].pc = "templatesTest"
        /\ rawTemplates = Null => n.pc = "templatesPublish"
        /\ rawTemplates # Null => n.pc = "templatesReturn"
        /\ n.context = reader[t].context /\ n.resetSeen = reader[t].resetSeen
    BY <1>1, <1>5 DEF TemplatesTest, Goto, Becomes, ReaderState, Idle, Failed, SysTypeOK
  <2>2. reader' = [reader EXCEPT ![t] = n] /\ UNCHANGED <<messagingVars, Others, fields, raced>>
    BY <1>5 DEF TemplatesTest, Goto, Becomes
  <2> HIDE DEF n
  <2>3. Still
    BY <1>1, <2>2 DEF Still, Others, storeVars, fields, messagingVars, Registered, Coming
  <2>4. ReaderInv(t)'
    BY <1>1, <2>1, <2>2, <2>3 DEF ReaderInv, Still
  <2> QED
    BY <1>1, <2>1, <2>2, <2>3, <2>4, ThreadMoves DEF Still
<1>6. CASE Read(t)
  <2> DEFINE n == [reader[t] EXCEPT !.pc = "assign", !.local = version["prefixes"], !.resetSinceRead = FALSE]
  <2>1. /\ n \in ReaderState /\ reader[t].pc = "read"
        /\ n.pc = "assign" /\ n.local = version["prefixes"] /\ n.local \in Versions
        /\ n.context = reader[t].context /\ n.resetSeen = reader[t].resetSeen
    BY <1>1, <1>6 DEF Read, Becomes, ReaderState, Idle, Failed, SysTypeOK
  <2>2. reader' = [reader EXCEPT ![t] = n] /\ UNCHANGED <<messagingVars, Others, fields, raced>>
    BY <1>6 DEF Read, Becomes
  <2> HIDE DEF n
  <2>3. Still
    BY <1>1, <2>2 DEF Still, Others, storeVars, fields, messagingVars, Registered, Coming
  <2>4. ReaderInv(t)'
    <3>1. ~(n.local < n.local)
      BY <2>1 DEF Versions
    <3> QED
      BY <1>1, <2>1, <2>2, <2>3, <3>1 DEF ReaderInv, Still, Excused
  <2> QED
    BY <1>1, <2>1, <2>2, <2>3, <2>4, ThreadMoves DEF Still
<1>7. CASE TemplatesRead(t)
  <2> DEFINE n == [reader[t] EXCEPT !.pc = "templatesPut", !.local = version["templates"], !.resetSinceRead = FALSE]
  <2>1. /\ n \in ReaderState /\ reader[t].pc = "templatesRead"
        /\ n.pc = "templatesPut" /\ n.local = version["templates"] /\ n.local \in Versions
        /\ n.context = reader[t].context /\ n.resetSeen = reader[t].resetSeen
    BY <1>1, <1>7 DEF TemplatesRead, Becomes, ReaderState, Idle, Failed, SysTypeOK
  <2>2. reader' = [reader EXCEPT ![t] = n] /\ UNCHANGED <<messagingVars, Others, fields, raced>>
    BY <1>7 DEF TemplatesRead, Becomes
  <2> HIDE DEF n
  <2>3. Still
    BY <1>1, <2>2 DEF Still, Others, storeVars, fields, messagingVars, Registered, Coming
  <2>4. ReaderInv(t)'
    <3>1. ~(n.local < n.local)
      BY <2>1 DEF Versions
    <3> QED
      BY <1>1, <2>1, <2>2, <2>3, <3>1 DEF ReaderInv, Still, Excused
  <2> QED
    BY <1>1, <2>1, <2>2, <2>3, <2>4, ThreadMoves DEF Still
<1>8. CASE ContextReturn(t)
  <2> DEFINE n == IF jsonldContext = Null THEN Failed(t) ELSE Idle
  <2>1. /\ n \in ReaderState /\ reader[t].pc = "contextReturn"
        /\ jsonldContext = Null => n.pc = "failed" /\ n.resetSeen = reader[t].resetSeen
        /\ jsonldContext # Null => n.pc = "idle"
    BY <1>1, <1>8 DEF ContextReturn, Becomes, ReaderState, Idle, Failed, SysTypeOK
  <2>2. reader' = [reader EXCEPT ![t] = n] /\ UNCHANGED <<messagingVars, Others, fields, raced>>
    BY <1>8 DEF ContextReturn, Becomes
  <2> HIDE DEF n
  <2>3. Still
    BY <1>1, <2>2 DEF Still, Others, storeVars, fields, messagingVars, Registered, Coming
  <2>4. ReaderInv(t)'
    BY <1>1, <2>1, <2>2, <2>3 DEF ReaderInv, Still
  <2> QED
    BY <1>1, <2>1, <2>2, <2>3, <2>4, ThreadMoves DEF Still
<1>9. CASE TemplatesReturn(t)
  <2> DEFINE n == IF rawTemplates = Null THEN Failed(t) ELSE Idle
  <2>1. /\ n \in ReaderState /\ reader[t].pc = "templatesReturn"
        /\ rawTemplates = Null => n.pc = "failed" /\ n.resetSeen = reader[t].resetSeen
        /\ rawTemplates # Null => n.pc = "idle"
    BY <1>1, <1>9 DEF TemplatesReturn, Becomes, ReaderState, Idle, Failed, SysTypeOK
  <2>2. reader' = [reader EXCEPT ![t] = n] /\ UNCHANGED <<messagingVars, Others, fields, raced>>
    BY <1>9 DEF TemplatesReturn, Becomes
  <2> HIDE DEF n
  <2>3. Still
    BY <1>1, <2>2 DEF Still, Others, storeVars, fields, messagingVars, Registered, Coming
  <2>4. ReaderInv(t)'
    BY <1>1, <2>1, <2>2, <2>3 DEF ReaderInv, Still
  <2> QED
    BY <1>1, <2>1, <2>2, <2>3, <2>4, ThreadMoves DEF Still
<1>10. CASE Return(t)
  <2> DEFINE n == IF prefixes = Null THEN Failed(t)
              ELSE IF reader[t].context
                   THEN [reader[t] EXCEPT !.pc = "put", !.local = prefixes, !.resetSinceRead = "prefixes" \in raced]
                   ELSE Idle
  <2>1. /\ n \in ReaderState /\ reader[t].pc = "return"
        /\ prefixes = Null => n.pc = "failed" /\ n.resetSeen = reader[t].resetSeen
        /\ prefixes # Null /\ ~reader[t].context => n.pc = "idle"
        /\ prefixes # Null /\ reader[t].context =>
              /\ n.pc = "put" /\ n.local = prefixes /\ n.local \in Versions /\ n.resetSeen = reader[t].resetSeen
              /\ n.context /\ (n.resetSinceRead <=> "prefixes" \in raced)
    <3>0. reader[t].pc = "return"
      BY <1>10 DEF Return, Becomes
    <3>1. CASE prefixes = Null
      BY <1>1, <3>0, <3>1 DEF ReaderState, Idle, Failed
    <3>2. CASE prefixes # Null /\ ~reader[t].context
      BY <1>1, <3>0, <3>2 DEF ReaderState, Idle
    <3>3. CASE prefixes # Null /\ reader[t].context
      <4>1. prefixes \in Versions /\ ("prefixes" \in raced) \in BOOLEAN
        BY <1>1, <3>3 DEF SysTypeOK
      <4>2. n = [reader[t] EXCEPT !.pc = "put", !.local = prefixes, !.resetSinceRead = "prefixes" \in raced]
        BY <3>3
      <4> QED
        BY <1>1, <3>0, <3>3, <4>1, <4>2 DEF ReaderState
    <3> QED
      BY <3>1, <3>2, <3>3
  <2>2. reader' = [reader EXCEPT ![t] = n] /\ UNCHANGED <<messagingVars, Others, fields, raced>>
    BY <1>10 DEF Return, Becomes
  <2> HIDE DEF n
  <2>3. Still
    BY <1>1, <2>2 DEF Still, Others, storeVars, fields, messagingVars, Registered, Coming
  <2>4. ReaderInv(t)'
    <3>1. prefixes # Null /\ reader[t].context => Registered
      BY <1>1 DEF FieldInv
    <3>2. prefixes # Null /\ "prefixes" \notin raced => Excused("prefixes", prefixes)
      BY <1>1 DEF FieldInv
    <3> QED
      BY <1>1, <2>1, <2>2, <2>3, <3>1, <3>2 DEF ReaderInv, Still, Excused
  <2> QED
    BY <1>1, <2>1, <2>2, <2>3, <2>4, ThreadMoves DEF Still
<1>11. CASE Listen(t)
  <2> DEFINE n == [reader[t] EXCEPT !.pc = IF "prefixes" \in listening THEN "read" ELSE "flag"]
  <2>1. /\ n \in ReaderState /\ reader[t].pc = "listen"
        /\ "prefixes" \in listening => n.pc = "read"
        /\ "prefixes" \notin listening => n.pc = "flag"
        /\ n.context = reader[t].context /\ n.resetSeen = reader[t].resetSeen
    BY <1>1, <1>11 DEF Listen, Goto, Becomes, ReaderState
  <2>2. reader' = [reader EXCEPT ![t] = n] /\ UNCHANGED <<Others, fields, raced, queue>>
    BY <1>11 DEF Listen, Goto, Becomes, processMessages, messagingVars
  <2>3. /\ processors' \in Seq(Register) /\ (Registered => Registered')
        /\ "prefixes" \notin listening => \E i \in DOMAIN processors' : processors'[i] = "prefixes"
    <3>1. CASE "prefixes" \in listening
      BY <1>1, <1>11, <3>1 DEF Listen, messagingVars, Registered
    <3>2. CASE "prefixes" \notin listening
      <4>1. processors' = Append(processors, "prefixes")
        BY <1>11, <3>2 DEF Listen, processMessages
      <4>2. /\ processors' \in Seq(Register) /\ DOMAIN processors \subseteq DOMAIN processors'
            /\ \A i \in DOMAIN processors : processors'[i] = processors[i]
            /\ Len(processors) + 1 \in DOMAIN processors'
            /\ processors'[Len(processors) + 1] = "prefixes"
        BY <1>1, <4>1
      <4> QED
        BY <4>2, <3>2 DEF Registered
    <3> QED
      BY <3>1, <3>2
  <2> HIDE DEF n
  <2>4. ReaderInv(t)'
    BY <1>1, <2>1, <2>2, <2>3 DEF ReaderInv, fields, Registered, FieldInv
  <2> QED
    BY <1>1, <2>1, <2>2, <2>3, <2>4, ThreadMoves DEF Others, storeVars, fields, SysTypeOK
<1>12. CASE TemplatesListen(t)
  <2> DEFINE n == [reader[t] EXCEPT !.pc = IF "templates" \in listening THEN "templatesReturn" ELSE "templatesFlag"]
  <2>1. /\ n \in ReaderState /\ reader[t].pc = "templatesListen"
        /\ "templates" \in listening => n.pc = "templatesReturn"
        /\ "templates" \notin listening => n.pc = "templatesFlag"
        /\ n.context = reader[t].context /\ n.resetSeen = reader[t].resetSeen
    BY <1>1, <1>12 DEF TemplatesListen, Goto, Becomes, ReaderState
  <2>2. reader' = [reader EXCEPT ![t] = n] /\ UNCHANGED <<Others, fields, raced, queue>>
    BY <1>12 DEF TemplatesListen, Goto, Becomes, processMessages, messagingVars
  <2>3. /\ processors' \in Seq(Register) /\ (Registered => Registered')
        /\ "templates" \notin listening => \E i \in DOMAIN processors' : processors'[i] = "templates"
    <3>1. CASE "templates" \in listening
      BY <1>1, <1>12, <3>1 DEF TemplatesListen, messagingVars, Registered
    <3>2. CASE "templates" \notin listening
      <4>1. processors' = Append(processors, "templates")
        BY <1>12, <3>2 DEF TemplatesListen, processMessages
      <4>2. /\ processors' \in Seq(Register) /\ DOMAIN processors \subseteq DOMAIN processors'
            /\ \A i \in DOMAIN processors : processors'[i] = processors[i]
            /\ Len(processors) + 1 \in DOMAIN processors'
            /\ processors'[Len(processors) + 1] = "templates"
        BY <1>1, <4>1
      <4> QED
        BY <4>2, <3>2 DEF Registered
    <3> QED
      BY <3>1, <3>2
  <2> HIDE DEF n
  <2>4. ReaderInv(t)'
    BY <1>1, <2>1, <2>2, <2>3 DEF ReaderInv, fields, Registered, FieldInv
  <2> QED
    BY <1>1, <2>1, <2>2, <2>3, <2>4, ThreadMoves DEF Others, storeVars, fields, SysTypeOK
<1>13. CASE Flag(t)
  <2> DEFINE n == [reader[t] EXCEPT !.pc = "read"]
  <2>1. /\ n \in ReaderState /\ reader[t].pc = "flag" /\ n.pc = "read"
        /\ n.context = reader[t].context /\ n.resetSeen = reader[t].resetSeen
    BY <1>1, <1>13 DEF Flag, Goto, Becomes, ReaderState
  <2>2. /\ reader' = [reader EXCEPT ![t] = n] /\ listening' = listening \cup {"prefixes"}
        /\ UNCHANGED <<messagingVars, Others, prefixes, jsonldContext, rawTemplates, raced>>
    BY <1>13 DEF Flag, Goto, Becomes
  <2> HIDE DEF n
  <2>3. listening' \subseteq Register /\ (Registered <=> Registered')
    BY <1>1, <2>2 DEF SysTypeOK, messagingVars, Registered
  <2>4. ReaderInv(t)'
    BY <1>1, <2>1, <2>2, <2>3 DEF ReaderInv
  <2>5. "prefixes" \in listening' => "prefixes" \in listening \/ Registered'
    BY <1>1, <2>1, <2>2, <2>3 DEF ReaderInv
  <2> QED
    BY <1>1, <2>1, <2>2, <2>3, <2>4, <2>5, ThreadMoves DEF Others, storeVars, messagingVars
<1>14. CASE TemplatesFlag(t)
  <2> DEFINE n == [reader[t] EXCEPT !.pc = "templatesReturn"]
  <2>1. /\ n \in ReaderState /\ reader[t].pc = "templatesFlag" /\ n.pc = "templatesReturn"
        /\ n.context = reader[t].context /\ n.resetSeen = reader[t].resetSeen
    BY <1>1, <1>14 DEF TemplatesFlag, Goto, Becomes, ReaderState
  <2>2. /\ reader' = [reader EXCEPT ![t] = n] /\ listening' = listening \cup {"templates"}
        /\ UNCHANGED <<messagingVars, Others, prefixes, jsonldContext, rawTemplates, raced>>
    BY <1>14 DEF TemplatesFlag, Goto, Becomes
  <2> HIDE DEF n
  <2>3. listening' \subseteq Register /\ (Registered <=> Registered')
    BY <1>1, <2>2 DEF SysTypeOK, messagingVars, Registered
  <2>4. ReaderInv(t)'
    BY <1>1, <2>1, <2>2, <2>3 DEF ReaderInv
  <2>5. "prefixes" \in listening' => "prefixes" \in listening \/ Registered'
    BY <1>1, <2>1, <2>2, <2>3 DEF ReaderInv
  <2> QED
    BY <1>1, <2>1, <2>2, <2>3, <2>4, <2>5, ThreadMoves DEF Others, storeVars, messagingVars
<1>15. ASSUME NEW n \in ReaderState, reader' = [reader EXCEPT ![t] = n],
              UNCHANGED <<messagingVars, Others, listening>>,
              prefixes' \in Versions \cup {Null} /\ (prefixes' = Null => prefixes = Null),
              jsonldContext' \in (SUBSET Versions) \cup {Null}, jsonldContext' = Null => jsonldContext = Null,
              rawTemplates' \in (SUBSET Versions) \cup {Null}, rawTemplates' = Null => rawTemplates = Null,
              raced' \subseteq Fields, ReaderInv(t)', FieldInv', EmptyInv'
      PROVE  SysInv'
  <2>1. UNCHANGED <<version, toNotify, unannounced, resetting, queue, processors, listening>>
    BY <1>15 DEF Others, storeVars, messagingVars
  <2>2. /\ reader' \in [Thread -> ReaderState]
        /\ \A u \in Thread : u # t => reader'[u] = reader[u]
    BY <1>1, <1>15
  <2>3. SysTypeOK'
    BY <1>1, <1>15, <2>1, <2>2 DEF SysTypeOK
  <2>4. Calm
    BY <1>15, <2>1 DEF Calm, Excused, Told, Coming, Announced, Registered
  <2>5. \A u \in Thread : ReaderInv(u)'
    BY <1>1, <1>15, <2>2, <2>4, CalmThreads
  <2> QED
    BY <1>15, <2>3, <2>5 DEF SysInv
<1>16. CASE Publish(t)
  <2> DEFINE n == [reader[t] EXCEPT !.pc = "test"]
  <2>1. /\ n \in ReaderState /\ reader[t].pc = "publish" /\ n.pc = "test"
        /\ n.context = reader[t].context /\ n.resetSeen = reader[t].resetSeen /\ reader[t].context
    BY <1>1, <1>16 DEF Publish, Goto, Becomes, ReaderState, ReaderInv
  <2>2. /\ reader' = [reader EXCEPT ![t] = n] /\ jsonldContext' = {} /\ raced' = raced \ {"jsonldContext"}
        /\ UNCHANGED <<messagingVars, Others, prefixes, rawTemplates, listening>>
    BY <1>16 DEF Publish, Goto, Becomes
  <2> HIDE DEF n
  <2>3. Kept
    BY <1>1, <2>2 DEF Kept, Others, storeVars, messagingVars, Registered, Coming, Announced
  <2>4. {} # Null /\ reader'[t] = n /\ \A u \in Thread : u # t => reader'[u] = reader[u]
    BY <1>1, <2>2
  <2>5. ReaderInv(t)'
    BY <2>1, <2>2, <2>4 DEF ReaderInv
  <2>6. FieldInv'
    BY <1>1, <2>2, <2>3 DEF FieldInv, Kept, Excused, Told
  <2>7. EmptyInv'
    BY <1>1, <2>1, <2>2, <2>4 DEF EmptyInv
  <2> QED
    BY <1>1, <1>15, <2>1, <2>2, <2>4, <2>5, <2>6, <2>7 DEF SysTypeOK
<1>17. CASE Assign(t)
  <2> DEFINE n == [reader[t] EXCEPT !.pc = "return", !.local = Null]
             v == reader[t].local
  <2>1. /\ n \in ReaderState /\ reader[t].pc = "assign" /\ n.pc = "return"
        /\ n.context = reader[t].context /\ n.resetSeen = reader[t].resetSeen
        /\ v \in Versions /\ Registered
    BY <1>1, <1>17 DEF Assign, Becomes, ReaderState, ReaderInv
  <2>2. /\ reader' = [reader EXCEPT ![t] = n] /\ prefixes' = v
        /\ reader[t].resetSinceRead => raced' = raced \cup {"prefixes"}
        /\ ~reader[t].resetSinceRead => raced' = raced \ {"prefixes"}
        /\ UNCHANGED <<messagingVars, Others, jsonldContext, rawTemplates, listening>>
    BY <1>17 DEF Assign, Becomes
  <2> HIDE DEF n, v
  <2>3. Kept
    BY <1>1, <2>2 DEF Kept, Others, storeVars, messagingVars, Registered, Coming, Announced
  <2>4. v # Null /\ reader'[t] = n /\ \A u \in Thread : u # t => reader'[u] = reader[u]
    BY <1>1, <2>1, <2>2
  <2>5. ReaderInv(t)'
    BY <1>1, <2>1, <2>2, <2>4 DEF ReaderInv
  <2>6. FieldInv'
    <3>1. ~reader[t].resetSinceRead => Excused("prefixes", v)
      BY <1>1, <2>1 DEF ReaderInv, v
    <3>2. /\ "jsonldContext" \in raced' <=> "jsonldContext" \in raced
          /\ "rawTemplates" \in raced' <=> "rawTemplates" \in raced
          /\ "prefixes" \notin raced' => ~reader[t].resetSinceRead
      BY <2>2
    <3> QED
      BY <1>1, <2>1, <2>2, <2>3, <3>1, <3>2 DEF FieldInv, Kept, Excused, Told
  <2>7. EmptyInv'
    BY <1>1, <2>1, <2>2, <2>3, <2>4 DEF EmptyInv, Kept
  <2>8. raced' \subseteq Fields
    BY <1>1, <2>2 DEF SysTypeOK, Fields
  <2> QED
    BY <1>1, <1>15, <2>1, <2>2, <2>4, <2>5, <2>6, <2>7, <2>8 DEF SysTypeOK
<1>18. CASE Put(t) /\ jsonldContext = Null
  <2> DEFINE n == Failed(t)
  <2>1. /\ n \in ReaderState /\ reader[t].pc = "put" /\ n.pc = "failed"
        /\ n.resetSeen /\ n.resetSeen = reader[t].resetSeen
    BY <1>1, <1>18 DEF Put, Becomes, ReaderState, ReaderInv, Failed, Idle
  <2>2. /\ reader' = [reader EXCEPT ![t] = n]
        /\ UNCHANGED <<messagingVars, Others, fields, raced>>
    BY <1>18 DEF Put, Becomes, fields
  <2> HIDE DEF n
  <2>3. Kept
    BY <1>1, <2>2 DEF Kept, Others, storeVars, messagingVars, Registered, Coming, Announced
  <2>4. {} # Null /\ reader'[t] = n /\ \A u \in Thread : u # t => reader'[u] = reader[u]
    BY <1>1, <2>1, <2>2
  <2>5. ReaderInv(t)'
    BY <1>1, <2>1, <2>2, <2>4 DEF ReaderInv
  <2>6. FieldInv'
    BY <1>1, <2>2, <2>3 DEF FieldInv, Kept, Excused, Told, fields
  <2>7. EmptyInv'
    BY <1>1, <1>18, <2>1, <2>2, <2>4 DEF EmptyInv, fields
  <2> QED
    BY <1>1, <1>15, <2>1, <2>2, <2>4, <2>5, <2>6, <2>7 DEF SysTypeOK, fields
<1>19. CASE Put(t) /\ jsonldContext # Null
  <2> DEFINE n == [reader[t] EXCEPT !.pc = "contextReturn"]
             v == reader[t].local
  <2>1. /\ n \in ReaderState /\ reader[t].pc = "put" /\ n.pc = "contextReturn"
        /\ n.resetSeen = reader[t].resetSeen /\ v \in Versions /\ Registered
    BY <1>1, <1>19 DEF Put, Becomes, ReaderState, ReaderInv
  <2>2. /\ reader' = [reader EXCEPT ![t] = n] /\ jsonldContext' = jsonldContext \cup {v}
        /\ reader[t].resetSinceRead => raced' = raced \cup {"jsonldContext"}
        /\ ~reader[t].resetSinceRead => raced' = raced
        /\ UNCHANGED <<messagingVars, Others, prefixes, rawTemplates, listening>>
    BY <1>19 DEF Put, Becomes
  <2> HIDE DEF n, v
  <2>3. Kept
    BY <1>1, <2>2 DEF Kept, Others, storeVars, messagingVars, Registered, Coming, Announced
  <2>4. reader'[t] = n /\ \A u \in Thread : u # t => reader'[u] = reader[u]
    BY <1>1, <2>1, <2>2
  <2>0. jsonldContext \in SUBSET Versions
    BY <1>1, <1>19 DEF SysTypeOK
  <2>9. jsonldContext' \in SUBSET Versions /\ jsonldContext' # Null /\ jsonldContext' # {}
    BY <2>0, <2>1, <2>2 DEF Versions
  <2>5. ReaderInv(t)'
    BY <1>1, <2>1, <2>2, <2>4, <2>9 DEF ReaderInv
  <2>6. FieldInv'
    <3>1. ~reader[t].resetSinceRead => Excused("prefixes", v)
      BY <1>1, <2>1 DEF ReaderInv, v
    <3>2. Coming("prefixes") => Announced("prefixes")
      BY DEF Coming, Announced
    <3>3. /\ "prefixes" \in raced' <=> "prefixes" \in raced
          /\ "rawTemplates" \in raced' <=> "rawTemplates" \in raced
          /\ "jsonldContext" \notin raced' => ~reader[t].resetSinceRead /\ "jsonldContext" \notin raced
      BY <2>2
    <3>4. ASSUME "jsonldContext" \notin raced', NEW x \in jsonldContext'
          PROVE  Told("prefixes", x)'
      <4>1. x \in jsonldContext \/ x = v
        BY <2>2
      <4>2. Told("prefixes", x)
        BY <1>1, <1>19, <3>1, <3>2, <3>3, <3>4, <4>1 DEF FieldInv, Told, Excused
      <4> QED
        BY <2>3, <4>2 DEF Told, Kept
    <3> QED
      BY <1>1, <2>1, <2>2, <2>3, <3>3, <3>4 DEF FieldInv, Kept, Excused, Told
  <2>7. EmptyInv'
    BY <1>1, <2>1, <2>2, <2>4, <2>9 DEF EmptyInv
  <2>8. raced' \subseteq Fields
    BY <1>1, <2>2 DEF SysTypeOK, Fields
  <2> QED
    BY <1>1, <1>15, <2>1, <2>2, <2>4, <2>5, <2>6, <2>7, <2>8, <2>9 DEF SysTypeOK
<1>20. CASE TemplatesPublish(t)
  <2> DEFINE n == [reader[t] EXCEPT !.pc = "templatesRead"]
  <2>1. /\ n \in ReaderState /\ reader[t].pc = "templatesPublish" /\ n.pc = "templatesRead"
        /\ n.context = reader[t].context /\ n.resetSeen = reader[t].resetSeen
    BY <1>1, <1>20 DEF TemplatesPublish, Goto, Becomes, ReaderState
  <2>2. /\ reader' = [reader EXCEPT ![t] = n] /\ rawTemplates' = {} /\ raced' = raced \ {"rawTemplates"}
        /\ UNCHANGED <<messagingVars, Others, prefixes, jsonldContext, listening>>
    BY <1>20 DEF TemplatesPublish, Goto, Becomes
  <2> HIDE DEF n
  <2>3. Kept
    BY <1>1, <2>2 DEF Kept, Others, storeVars, messagingVars, Registered, Coming, Announced
  <2>4. {} # Null /\ reader'[t] = n /\ \A u \in Thread : u # t => reader'[u] = reader[u]
    BY <1>1, <2>2
  <2>5. ReaderInv(t)'
    BY <2>1, <2>2, <2>4 DEF ReaderInv
  <2>6. FieldInv'
    BY <1>1, <2>2, <2>3 DEF FieldInv, Kept, Excused, Told
  <2>7. EmptyInv'
    BY <1>1, <2>1, <2>2, <2>3, <2>4 DEF EmptyInv, Kept
  <2> QED
    BY <1>1, <1>15, <2>1, <2>2, <2>4, <2>5, <2>6, <2>7 DEF SysTypeOK
<1>21. CASE TemplatesPut(t) /\ rawTemplates = Null
  <2> DEFINE n == Failed(t)
  <2>1. /\ n \in ReaderState /\ reader[t].pc = "templatesPut" /\ n.pc = "failed"
        /\ n.resetSeen /\ n.resetSeen = reader[t].resetSeen
    BY <1>1, <1>21 DEF TemplatesPut, Becomes, ReaderState, ReaderInv, Failed, Idle
  <2>2. /\ reader' = [reader EXCEPT ![t] = n]
        /\ UNCHANGED <<messagingVars, Others, fields, raced>>
    BY <1>21 DEF TemplatesPut, Becomes, fields
  <2> HIDE DEF n
  <2>3. Kept
    BY <1>1, <2>2 DEF Kept, Others, storeVars, messagingVars, Registered, Coming, Announced
  <2>4. {} # Null /\ reader'[t] = n /\ \A u \in Thread : u # t => reader'[u] = reader[u]
    BY <1>1, <2>1, <2>2
  <2>5. ReaderInv(t)'
    BY <1>1, <2>1, <2>2, <2>4 DEF ReaderInv
  <2>6. FieldInv'
    BY <1>1, <2>2, <2>3 DEF FieldInv, Kept, Excused, Told, fields
  <2>7. EmptyInv'
    BY <1>1, <1>21, <2>1, <2>2, <2>3, <2>4 DEF EmptyInv, fields, Kept
  <2> QED
    BY <1>1, <1>15, <2>1, <2>2, <2>4, <2>5, <2>6, <2>7 DEF SysTypeOK, fields
<1>22. CASE TemplatesPut(t) /\ rawTemplates # Null
  <2> DEFINE n == [reader[t] EXCEPT !.pc = "templatesListen", !.local = Null]
             v == reader[t].local
  <2>1. /\ n \in ReaderState /\ reader[t].pc = "templatesPut" /\ n.pc = "templatesListen"
        /\ n.resetSeen = reader[t].resetSeen /\ v \in Versions
    BY <1>1, <1>22 DEF TemplatesPut, Becomes, ReaderState, ReaderInv
  <2>2. /\ reader' = [reader EXCEPT ![t] = n] /\ rawTemplates' = rawTemplates \cup {v}
        /\ reader[t].resetSinceRead => raced' = raced \cup {"rawTemplates"}
        /\ ~reader[t].resetSinceRead => raced' = raced
        /\ UNCHANGED <<messagingVars, Others, prefixes, jsonldContext, listening>>
    BY <1>22 DEF TemplatesPut, Becomes
  <2> HIDE DEF n, v
  <2>3. Kept
    BY <1>1, <2>2 DEF Kept, Others, storeVars, messagingVars, Registered, Coming, Announced
  <2>4. reader'[t] = n /\ \A u \in Thread : u # t => reader'[u] = reader[u]
    BY <1>1, <2>1, <2>2
  <2>0. rawTemplates \in SUBSET Versions
    BY <1>1, <1>22 DEF SysTypeOK
  <2>9. rawTemplates' \in SUBSET Versions /\ rawTemplates' # Null /\ rawTemplates' # {}
    BY <2>0, <2>1, <2>2 DEF Versions
  <2>5. ReaderInv(t)'
    BY <1>1, <2>1, <2>2, <2>4, <2>9 DEF ReaderInv
  <2>6. FieldInv'
    <3>1. ~reader[t].resetSinceRead => Excused("templates", v)
      BY <1>1, <2>1 DEF ReaderInv, v
    <3>2. Coming("templates") => Announced("templates")
      BY DEF Coming, Announced
    <3>3. /\ "prefixes" \in raced' <=> "prefixes" \in raced
          /\ "jsonldContext" \in raced' <=> "jsonldContext" \in raced
          /\ "rawTemplates" \notin raced' => ~reader[t].resetSinceRead /\ "rawTemplates" \notin raced
      BY <2>2
    <3>4. ASSUME "rawTemplates" \notin raced', NEW x \in rawTemplates'
          PROVE  Told("templates", x)'
      <4>1. x \in rawTemplates \/ x = v
        BY <2>2
      <4>2. Told("templates", x)
        BY <1>1, <1>22, <3>1, <3>2, <3>3, <3>4, <4>1 DEF FieldInv, Told, Excused
      <4> QED
        BY <2>3, <4>2 DEF Told, Kept
    <3> QED
      BY <1>1, <2>1, <2>2, <2>3, <3>3, <3>4 DEF FieldInv, Kept, Excused, Told
  <2>7. EmptyInv'
    BY <1>1, <2>1, <2>2, <2>3, <2>4, <2>9 DEF EmptyInv, Kept
  <2>8. raced' \subseteq Fields
    BY <1>1, <2>2 DEF SysTypeOK, Fields
  <2> QED
    BY <1>1, <1>15, <2>1, <2>2, <2>4, <2>5, <2>6, <2>7, <2>8, <2>9 DEF SysTypeOK
<1> QED
  BY <1>2, <1>3, <1>4, <1>5, <1>6, <1>7, <1>8, <1>9, <1>10, <1>11, <1>12, <1>13, <1>14, <1>16, <1>17, <1>18, <1>19, <1>20, <1>21, <1>22 DEF Reader

\* What MeetReset of the register does to the threads: the ones that read the register
\* learn of the reset, the others and every other field stay as they are.
LEMMA ResetMet ==
    ASSUME reader \in [Thread -> ReaderState], NEW r \in Register, MeetReset(r)
    PROVE  /\ reader' \in [Thread -> ReaderState]
           /\ \A t \in Thread :
                /\ reader'[t].pc = reader[t].pc /\ reader'[t].context = reader[t].context
                /\ reader'[t].local = reader[t].local
                /\ reader[t].resetSeen => reader'[t].resetSeen
                /\ Reads(t, r) => reader'[t].resetSeen /\ reader'[t].resetSinceRead
                /\ ~Reads(t, r) => reader'[t] = reader[t]
<1> DEFINE told(t) == [reader[t] EXCEPT !.resetSeen = TRUE, !.resetSinceRead = TRUE]
<1>1. ASSUME NEW t \in Thread
      PROVE  /\ told(t) \in ReaderState
             /\ told(t).pc = reader[t].pc /\ told(t).context = reader[t].context
             /\ told(t).local = reader[t].local
             /\ told(t).resetSeen /\ told(t).resetSinceRead
  <2>1. reader[t] \in ReaderState
    OBVIOUS
  <2> QED
    BY <2>1 DEF ReaderState
<1>2. reader' = [t \in Thread |-> IF Reads(t, r) THEN told(t) ELSE reader[t]]
  BY DEF MeetReset
<1> HIDE DEF told
<1>3. reader' \in [Thread -> ReaderState]
  BY <1>1, <1>2
<1>4. ASSUME NEW t \in Thread
      PROVE  reader'[t] = IF Reads(t, r) THEN told(t) ELSE reader[t]
  BY <1>2
<1> QED
  BY <1>1, <1>3, <1>4

\* So does a write, its message and a task of the executor (LocalMessagingService).
LEMMA ServerStep ==
    ASSUME SysInv, (\E r \in Register : Write(r) \/ Notify(r)) \/ Execute
    PROVE  SysInv'
<1> USE SystemAssumption
<1>1. /\ SysTypeOK /\ FieldInv /\ EmptyInv /\ \A t \in Thread : ReaderInv(t)
      /\ reader \in [Thread -> ReaderState] /\ Null \notin Versions
      /\ "prefixes" \in Register /\ "templates" \in Register
      /\ version \in [Register -> Versions] /\ unannounced \in [Register -> Versions]
      /\ processors \in Seq(Register) /\ queue \in Seq([target : Register, processor : Register])
      /\ toNotify \subseteq Register /\ MaxWrites \in Nat
  BY DEF SysInv, SysTypeOK, Versions
<1>2. ASSUME NEW r \in Register, Write(r)
      PROVE  SysInv'
  <2>1. /\ UNCHANGED <<processors, queue, prefixes, jsonldContext, rawTemplates, listening>>
        /\ UNCHANGED <<resetting, reader, raced>>
        /\ version' = [version EXCEPT ![r] = version[r] + 1]
        /\ \/ toNotify' = toNotify \cup {r} /\ UNCHANGED unannounced
           \/ unannounced' = [unannounced EXCEPT ![r] = version'[r]] /\ UNCHANGED toNotify
    BY <1>2 DEF Write, messagingVars, fields
  <2>2. version[r] + 1 \in Versions
    <3>1. version["prefixes"] \in Nat /\ version["templates"] \in Nat /\ r \in {"prefixes", "templates"}
          /\ version["prefixes"] + version["templates"] < MaxWrites
      BY <1>1, <1>2 DEF Write, Versions
    <3> QED
      BY <3>1 DEF Versions
  <2>3. /\ version' \in [Register -> Versions] /\ unannounced' \in [Register -> Versions]
        /\ toNotify \subseteq toNotify' /\ toNotify' \subseteq Register
        /\ version'[r] = version[r] + 1
        /\ \A s \in Register : s # r => version'[s] = version[s] /\ unannounced'[s] = unannounced[s]
        /\ r \in toNotify' \/ unannounced'[r] = version'[r]
    BY <1>1, <2>1, <2>2
  <2>4. \A s \in Register : (Coming(s) => Coming(s)') /\ (Announced(s) => Announced(s)')
                            /\ (s \in toNotify' => Coming(s)' /\ Announced(s)')
    BY <2>1, <2>3 DEF Coming, Announced
  <2>5. Calm
    <3>1. Registered <=> Registered'
      BY <2>1 DEF Registered
    <3>2. ASSUME NEW s \in Register, NEW v \in Versions
          PROVE  (Excused(s, v) => Excused(s, v)') /\ (Told(s, v) => Told(s, v)')
      BY <2>3, <2>4 DEF Excused, Told
    <3> QED
      BY <2>1, <3>1, <3>2 DEF Calm
  <2>6. SysTypeOK'
    BY <1>1, <2>1, <2>3 DEF SysTypeOK
  <2>7. FieldInv'
    BY <1>1, <2>1, <2>5, CalmFields DEF FieldInv
  <2>8. \A t \in Thread : ReaderInv(t)'
    BY <2>1, <2>5, CalmThreads
  <2>9. EmptyInv'
    BY <1>1, <2>1 DEF EmptyInv
  <2> QED
    BY <2>6, <2>7, <2>8, <2>9 DEF SysInv
<1>3. ASSUME NEW r \in Register, Notify(r)
      PROVE  SysInv'
  <2> DEFINE new == [i \in 1..Len(processors) |-> [target |-> r, processor |-> processors[i]]]
  <2>1. /\ UNCHANGED <<processors, version, prefixes, jsonldContext, rawTemplates, listening>>
        /\ UNCHANGED <<resetting, reader, raced>>
        /\ toNotify' = toNotify \ {r} /\ queue' = queue \o new
        /\ \/ unannounced' = unannounced
           \/ r = "templates" /\ unannounced' = [unannounced EXCEPT ![r] = version[r]]
        /\ \/ \E i \in DOMAIN processors : processors[i] = r
           \/ r = "templates" /\ unannounced' = [unannounced EXCEPT ![r] = version[r]]
           \/ r = "prefixes" /\ ~Registered
    BY <1>3 DEF Notify, sendMessage, fields, Registered
  <2>2. new \in Seq([target : Register, processor : Register]) /\ Len(new) = Len(processors)
    BY <1>1
  <2>3. /\ queue' \in Seq([target : Register, processor : Register])
        /\ DOMAIN queue \subseteq DOMAIN queue'
        /\ \A i \in DOMAIN queue : queue'[i] = queue[i]
        /\ \A i \in DOMAIN processors : /\ Len(queue) + i \in DOMAIN queue'
                                        /\ Len(queue) + i # 1 \/ queue = <<>>
                                        /\ queue'[Len(queue) + i] = new[i]
    <3> HIDE DEF new
    <3> QED BY <1>1, <2>1, <2>2
  <2>4. \A i \in DOMAIN processors : new[i].target = r /\ new[i].processor = processors[i]
    BY <1>1
  <2> HIDE DEF new
  <2>5. resetting => queue # <<>>
    BY <1>1 DEF FieldInv
  <2>6. ASSUME NEW i \in DOMAIN processors, processors[i] = r
        PROVE  Coming(r)' /\ Announced(r)'
    <3>1. /\ Len(queue) + i \in DOMAIN queue'
          /\ queue'[Len(queue) + i].target = r /\ queue'[Len(queue) + i].processor = r
          /\ ~(resetting' /\ Len(queue) + i = 1)
      BY <2>1, <2>3, <2>4, <2>5, <2>6
    <3> QED
      BY <3>1 DEF Coming, Announced
  <2>7. \A s \in Register : s # r => (Coming(s) => Coming(s)') /\ (Announced(s) => Announced(s)')
    BY <2>1, <2>3 DEF Coming, Announced
  <2>8. /\ unannounced' \in [Register -> Versions]
        /\ \A s \in Register : s # r => unannounced'[s] = unannounced[s]
        /\ r = "templates" /\ unannounced' = [unannounced EXCEPT ![r] = version[r]]
              => unannounced'[r] = version[r]
    BY <1>1, <2>1
  <2>9. Calm
    <3>1. Registered <=> Registered'
      BY <2>1 DEF Registered
    <3>2. ASSUME NEW s \in Register, NEW v \in Versions, s = "templates" \/ Registered
          PROVE  (Excused(s, v) => Excused(s, v)') /\ (Told(s, v) => Told(s, v)')
      <4>1. CASE s # r
        BY <2>1, <2>7, <2>8, <4>1 DEF Excused, Told
      <4>2. CASE s = r /\ \E i \in DOMAIN processors : processors[i] = r
        BY <2>6, <4>2 DEF Excused, Told
      <4>3. CASE s = r /\ r = "templates" /\ unannounced' = [unannounced EXCEPT ![r] = version[r]]
        BY <2>1, <2>8, <4>3 DEF Excused, Told
      <4> QED
        BY <2>1, <3>2, <4>1, <4>2, <4>3
    <3> QED
      BY <2>1, <3>1, <3>2 DEF Calm
  <2>10. SysTypeOK'
    BY <1>1, <2>1, <2>3, <2>8 DEF SysTypeOK
  <2>11. resetting => queue' # <<>> /\ queue'[1] = queue[1]
    <3>1. queue # <<>> => 1 \in DOMAIN queue
      BY <1>1
    <3> QED
      BY <2>3, <2>5, <3>1
  <2>12. FieldInv'
    BY <1>1, <2>1, <2>9, <2>11, CalmFields
  <2>13. \A t \in Thread : ReaderInv(t)'
    BY <2>1, <2>9, CalmThreads
  <2>14. EmptyInv'
    BY <1>1, <2>1 DEF EmptyInv
  <2> QED
    BY <2>10, <2>12, <2>13, <2>14 DEF SysInv
<1>4. CASE Execute
  <2> DEFINE task == Head(queue)
  <2>1. /\ queue # <<>> /\ UNCHANGED <<version, toNotify, unannounced>>
        /\ \/ task.processor = "prefixes" /\ Concerns(task) /\ ~resetting /\ resetPrefixes
           \/ task.processor = "prefixes" /\ Concerns(task) /\ resetting /\ resetContext
           \/ task.processor = "templates" /\ Concerns(task) /\ resetTemplates
           \/ ~Concerns(task) /\ TaskDone /\ UNCHANGED <<fields, resetting, reader, raced>>
    BY <1>4 DEF Execute, storeVars
  <2>2. task = queue[1] /\ 1 \in DOMAIN queue
    BY <1>1, <2>1
  <2> HIDE DEF task
  <2>3. ASSUME TaskDone
        PROVE  /\ queue' \in Seq([target : Register, processor : Register])
               /\ processors' = processors
               /\ \A i \in DOMAIN queue : i # 1 => i - 1 \in DOMAIN queue' /\ queue'[i - 1] = queue[i]
    BY <1>1, <2>1, <2>3 DEF TaskDone
  <2>4. ASSUME NEW t \in Thread
        PROVE  /\ reader[t].pc \in {"assign", "put", "return", "flag", "read", "test", "listen",
                                     "contextReturn", "contextTest", "publish"} => Reads(t, "prefixes")
               /\ reader[t].pc \in TemplatePlaces => Reads(t, "templates")
               /\ reader[t].pc = "failed" => ~Reads(t, "prefixes") /\ ~Reads(t, "templates")
    BY DEF Reads, TemplatePlaces
  <2>5. CASE task.processor = "prefixes" /\ Concerns(task) /\ ~resetting /\ resetPrefixes
    <3>1. /\ UNCHANGED <<queue, processors, jsonldContext, rawTemplates, listening>>
          /\ prefixes' = Null /\ resetting' = TRUE /\ raced' = raced \ {"prefixes"}
          /\ MeetReset("prefixes")
      BY <2>5 DEF resetPrefixes, messagingVars
    <3>2. /\ reader' \in [Thread -> ReaderState]
          /\ \A t \in Thread :
               /\ reader'[t].pc = reader[t].pc /\ reader'[t].context = reader[t].context
               /\ reader'[t].local = reader[t].local
               /\ reader[t].resetSeen => reader'[t].resetSeen
               /\ Reads(t, "prefixes") => reader'[t].resetSeen /\ reader'[t].resetSinceRead
               /\ ~Reads(t, "prefixes") => reader'[t] = reader[t]
      BY <1>1, <3>1, ResetMet
    <3>3. /\ \A r \in Register : (Announced(r) <=> Announced(r)')
          /\ Coming("templates") <=> Coming("templates")'
          /\ Registered <=> Registered'
      BY <2>1, <3>1 DEF Announced, Coming, Registered
    <3>4. SysTypeOK'
      BY <1>1, <2>1, <3>1, <3>2 DEF SysTypeOK
    <3>5. ASSUME NEW t \in Thread
          PROVE  ReaderInv(t)'
      <4>1. ReaderInv(t) /\ (reader[t].pc \in TemplatePlaces => ~Reads(t, "prefixes"))
        BY <1>1 DEF Reads
      <4> QED
        BY <2>1, <2>4, <3>1, <3>2, <3>3, <4>1 DEF ReaderInv, Excused, Loading, TemplatePlaces
    <3>6. FieldInv'
      BY <1>1, <2>1, <2>2, <2>5, <3>1, <3>3 DEF FieldInv, Told, Excused, Concerns
    <3>7. EmptyInv'
      BY <1>1, <3>1, <3>2 DEF EmptyInv
    <3> QED
      BY <3>4, <3>5, <3>6, <3>7 DEF SysInv
  <2>6. CASE task.processor = "prefixes" /\ Concerns(task) /\ resetting /\ resetContext
    <3>1. /\ UNCHANGED <<prefixes, rawTemplates, listening>>
          /\ jsonldContext' = Null /\ resetting' = FALSE /\ raced' = raced \ {"jsonldContext"}
          /\ reader' = [t \in Thread |-> [reader[t] EXCEPT !.resetSeen = @ \/ Reads(t, "prefixes")]]
          /\ TaskDone
      BY <2>6 DEF resetContext
    <3>2. /\ reader' \in [Thread -> ReaderState]
          /\ \A t \in Thread :
               /\ reader'[t].pc = reader[t].pc /\ reader'[t].context = reader[t].context
               /\ reader'[t].local = reader[t].local
               /\ reader'[t].resetSinceRead = reader[t].resetSinceRead
               /\ reader[t].resetSeen => reader'[t].resetSeen
               /\ Reads(t, "prefixes") => reader'[t].resetSeen
      <4>1. \A t \in Thread : Reads(t, "prefixes") \in BOOLEAN /\ reader[t] \in ReaderState
        BY <1>1 DEF Reads
      <4> QED
        BY <3>1, <4>1 DEF ReaderState
    <3>3. /\ \A r \in Register : Coming(r) => Coming(r)'
          /\ Announced("templates") => Announced("templates")'
          /\ Registered <=> Registered'
      <4>1. queue[1].target = "prefixes"
        BY <2>2, <2>6 DEF Concerns
      <4>2. ASSUME NEW r \in Register, NEW i \in DOMAIN queue,
                   queue[i].target = r, queue[i].processor = r, i # 1
            PROVE  Coming(r)' /\ Announced(r)'
        BY <2>3, <3>1, <4>2 DEF Coming, Announced
      <4>3. ASSUME NEW r \in Register, Coming(r)
            PROVE  Coming(r)'
        BY <2>1, <2>6, <4>1, <4>2, <4>3 DEF Coming
      <4>4. Announced("templates") => Announced("templates")'
        BY <1>1, <2>1, <4>1, <4>2 DEF Announced
      <4> QED
        BY <2>3, <3>1, <4>3, <4>4 DEF Registered
    <3>4. SysTypeOK'
      BY <1>1, <2>1, <2>3, <3>1, <3>2 DEF SysTypeOK
    <3>5. ASSUME NEW t \in Thread
          PROVE  ReaderInv(t)'
      <4>1. ReaderInv(t)
        BY <1>1
      <4> QED
        BY <1>1, <2>1, <2>4, <3>1, <3>2, <3>3, <4>1 DEF ReaderInv, Excused, Loading
    <3>6. FieldInv'
      BY <1>1, <2>1, <3>1, <3>3 DEF FieldInv, Told, Excused
    <3>7. EmptyInv'
      <4>1. {} # Null
        OBVIOUS
      <4> QED
        BY <1>1, <3>1, <3>2, <4>1 DEF EmptyInv
    <3> QED
      BY <3>4, <3>5, <3>6, <3>7 DEF SysInv
  <2>7. CASE task.processor = "templates" /\ Concerns(task) /\ resetTemplates
    <3>1. /\ UNCHANGED <<prefixes, jsonldContext, listening, resetting>>
          /\ rawTemplates' = Null /\ raced' = raced \ {"rawTemplates"}
          /\ MeetReset("templates") /\ TaskDone /\ ~resetting
      BY <1>1, <2>2, <2>7 DEF resetTemplates, FieldInv
    <3>2. /\ reader' \in [Thread -> ReaderState]
          /\ \A t \in Thread :
               /\ reader'[t].pc = reader[t].pc /\ reader'[t].context = reader[t].context
               /\ reader'[t].local = reader[t].local
               /\ reader[t].resetSeen => reader'[t].resetSeen
               /\ Reads(t, "templates") => reader'[t].resetSeen /\ reader'[t].resetSinceRead
               /\ ~Reads(t, "templates") => reader'[t] = reader[t]
      BY <1>1, <3>1, ResetMet
    <3>3. /\ Announced("prefixes") => Announced("prefixes")'
          /\ Coming("prefixes") => Coming("prefixes")'
          /\ Registered <=> Registered'
      <4>1. queue[1].target = "templates"
        BY <2>2, <2>7 DEF Concerns
      <4>2. ASSUME NEW i \in DOMAIN queue, queue[i].target = "prefixes", queue[i].processor = "prefixes"
            PROVE  Coming("prefixes")' /\ Announced("prefixes")'
        BY <2>3, <3>1, <4>1, <4>2 DEF Coming, Announced
      <4> QED
        BY <2>1, <2>3, <3>1, <4>2 DEF Coming, Announced, Registered
    <3>4. SysTypeOK'
      BY <1>1, <2>1, <2>3, <3>1, <3>2 DEF SysTypeOK
    <3>5. ASSUME NEW t \in Thread
          PROVE  ReaderInv(t)'
      <4>1. ReaderInv(t) /\ (reader[t].pc \in {"assign", "put"} => ~Reads(t, "templates"))
        BY <1>1 DEF Reads, TemplatePlaces
      <4> QED
        BY <2>1, <2>4, <3>1, <3>2, <3>3, <4>1 DEF ReaderInv, Excused, TemplatePlaces
    <3>6. FieldInv'
      BY <1>1, <2>1, <3>1, <3>3 DEF FieldInv, Told, Excused
    <3>7. EmptyInv'
      <4>1. {} # Null
        OBVIOUS
      <4> QED
        BY <1>1, <3>1, <3>2, <4>1 DEF EmptyInv
    <3> QED
      BY <3>4, <3>5, <3>6, <3>7 DEF SysInv
  <2>8. CASE ~Concerns(task) /\ TaskDone /\ UNCHANGED <<fields, resetting, reader, raced>>
    <3>1. /\ UNCHANGED <<prefixes, jsonldContext, rawTemplates, listening, resetting, reader, raced>>
          /\ TaskDone /\ ~resetting /\ queue[1].target # queue[1].processor
      BY <1>1, <2>2, <2>8 DEF fields, Concerns, FieldInv
    <3>2. \A r \in Register : (Coming(r) => Coming(r)') /\ (Announced(r) => Announced(r)')
      <4>1. ASSUME NEW r \in Register, NEW i \in DOMAIN queue, queue[i].target = r, queue[i].processor = r
            PROVE  Coming(r)' /\ Announced(r)'
        BY <2>3, <3>1, <4>1 DEF Coming, Announced
      <4> QED
        BY <2>1, <4>1 DEF Coming, Announced
    <3>3. Calm
      <4>1. Registered <=> Registered'
        BY <2>3, <3>1 DEF Registered
      <4>2. ASSUME NEW s \in Register, NEW v \in Versions
            PROVE  (Excused(s, v) => Excused(s, v)') /\ (Told(s, v) => Told(s, v)')
        BY <2>1, <3>2 DEF Excused, Told
      <4> QED
        BY <3>1, <4>1, <4>2 DEF Calm
    <3>4. SysTypeOK'
      BY <1>1, <2>1, <2>3, <3>1 DEF SysTypeOK
    <3>5. FieldInv'
      BY <3>1, <3>3, CalmFields
    <3>6. \A t \in Thread : ReaderInv(t)'
      BY <3>1, <3>3, CalmThreads
    <3>7. EmptyInv'
      BY <1>1, <3>1 DEF EmptyInv
    <3> QED
      BY <3>4, <3>5, <3>6, <3>7 DEF SysInv
  <2> QED
    BY <2>1, <2>5, <2>6, <2>7, <2>8
<1> QED
  BY <1>2, <1>3, <1>4

\* The invariant of what is in memory.
THEOREM SystemInvariant == SysSpec => []SysInv
<1>1. SysInit => SysInv
  <2> SUFFICES ASSUME SysInit
               PROVE  SysInv
    OBVIOUS
  <2>1. Null \notin Versions /\ 0 \in Versions /\ {} # Null /\ Idle \in ReaderState
    BY SystemAssumption DEF Versions, Idle, ReaderState, Places
  <2>2. SysTypeOK
    <3>1. /\ version \in [Register -> Versions] /\ unannounced \in [Register -> Versions]
          /\ reader \in [Thread -> ReaderState]
      BY <2>1 DEF SysInit
    <3>2. /\ processors \in Seq(Register) /\ queue \in Seq([target : Register, processor : Register])
      BY DEF SysInit, MessagingInit
    <3>3. /\ toNotify \subseteq Register /\ listening \subseteq Register /\ raced \subseteq Fields
          /\ prefixes \in Versions \cup {Null} /\ resetting \in BOOLEAN
          /\ jsonldContext \in (SUBSET Versions) \cup {Null}
          /\ rawTemplates \in (SUBSET Versions) \cup {Null}
      BY DEF SysInit
    <3> QED
      BY <3>1, <3>2, <3>3 DEF SysTypeOK
  <2>3. \A t \in Thread : ReaderInv(t)
    BY DEF SysInit, Idle, ReaderInv, Loading, TemplatePlaces
  <2>4. FieldInv /\ EmptyInv
    BY <2>1 DEF SysInit, FieldInv, EmptyInv
  <2> QED
    BY <2>2, <2>3, <2>4 DEF SysInv
<1>2. SysInv /\ [SysNext]_sysVars => SysInv'
  <2> SUFFICES ASSUME SysInv, [SysNext]_sysVars
               PROVE  SysInv'
    OBVIOUS
  <2>1. CASE UNCHANGED sysVars
    <3>1. /\ UNCHANGED <<processors, queue, version, toNotify, unannounced>>
          /\ UNCHANGED <<prefixes, jsonldContext, rawTemplates, listening, resetting, reader, raced>>
      BY <2>1 DEF sysVars, messagingVars, storeVars, fields
    <3>2. /\ \A r \in Register : (Coming(r) <=> Coming(r)') /\ (Announced(r) <=> Announced(r)')
          /\ Registered <=> Registered'
      BY <3>1 DEF Coming, Announced, Registered
    <3>3. Calm
      BY <3>1, <3>2 DEF Calm, Excused, Told
    <3>4. FieldInv' /\ \A t \in Thread : ReaderInv(t)'
      BY <3>1, <3>3, CalmFields, CalmThreads DEF SysInv, FieldInv
    <3>5. SysTypeOK' /\ EmptyInv'
      BY <3>1 DEF SysInv, SysTypeOK, EmptyInv
    <3> QED
      BY <3>4, <3>5 DEF SysInv
  <2> QED
    <3>1. ASSUME NEW t \in Thread,
                 Reader(t) \/ \E place \in {"test", "contextTest", "templatesTest"} : Begin(t, place)
          PROVE  SysInv'
      BY <3>1, ReaderStep
    <3>2. ASSUME (\E r \in Register : Write(r) \/ Notify(r)) \/ Execute
          PROVE  SysInv'
      BY <3>2, ServerStep
    <3> QED
      BY <2>1, <3>1, <3>2 DEF SysNext
<1> QED
  BY <1>1, <1>2, PTL DEF SysSpec

\* For any number of threads and writes, what is in memory of the prefixes, the
\* JSON-LD context and the templates is what the store has, with the exceptions
\* that OutOfDateOnlyIfRaced names.
THEOREM MemoryOutOfDateOnlyIfRaced == SysSpec => []OutOfDateOnlyIfRaced
<1>1. SysInv => OutOfDateOnlyIfRaced
  <2> SUFFICES ASSUME SysInv, NEW f \in Fields, OutOfDate(f), f \notin raced
               PROVE  Announced(Source(f)) \/ Unannounced(f)
    BY DEF OutOfDateOnlyIfRaced, Fields
  <2>1. FieldInv
    BY DEF SysInv
  <2>2. PICK v \in Held(f) : v < version[Source(f)]
    BY DEF OutOfDate
  <2>3. CASE f = "prefixes"
    <3>1. prefixes # Null /\ v = prefixes /\ Source(f) = "prefixes"
      BY <2>2, <2>3 DEF Held, Source
    <3>2. Coming("prefixes") => Announced("prefixes")
      BY DEF Coming, Announced
    <3> QED
      BY <2>1, <2>2, <2>3, <3>1, <3>2 DEF FieldInv, Excused, Unannounced
  <2>4. CASE f = "jsonldContext"
    <3>1. jsonldContext # Null /\ v \in jsonldContext /\ Source(f) = "prefixes"
      BY <2>2, <2>4 DEF Held, Source
    <3> QED
      BY <2>1, <2>2, <2>4, <3>1 DEF FieldInv, Told, Unannounced
  <2>5. CASE f = "rawTemplates"
    <3>1. rawTemplates # Null /\ v \in rawTemplates /\ Source(f) = "templates"
      BY <2>2, <2>5 DEF Held, Source
    <3> QED
      BY <2>1, <2>2, <2>5, <3>1 DEF FieldInv, Told, Unannounced
  <2> QED
    BY <2>3, <2>4, <2>5 DEF Fields
<1> QED
  BY <1>1, SystemInvariant, PTL

\* An empty map in memory is being filled or dropped, whatever resets meet the
\* loads (Prefixes.getJsonldContext, TypedTemplateIndex.loadTemplates).
THEOREM MapsEmptyOnlyWhileLoading == SysSpec => []EmptyOnlyWhileLoading
<1>1. SysInv => EmptyOnlyWhileLoading
  BY DEF SysInv, EmptyInv, EmptyOnlyWhileLoading, Loading, TemplatesLoading
<1> QED
  BY <1>1, SystemInvariant, PTL

\* A request fails on a null field only if a reset was handled while it ran.
THEOREM RequestsFailOnlyOnReset == SysSpec => []FailsOnlyOnReset
<1>1. SysInv => FailsOnlyOnReset
  BY DEF SysInv, ReaderInv, FailsOnlyOnReset
<1> QED
  BY <1>1, SystemInvariant, PTL
==============================================================================
