--------------------------- MODULE SystemRegisters ---------------------------
(***************************************************************************)
(* What is kept in memory of the registers /system/prefixes (util/Prefixes)*)
(* and /system/typed-templates (util/TypedTemplateIndex): loaded when it   *)
(* is first needed, dropped when a message says the register has changed.  *)
(* No lock protects it.  A register's content is its version number; a     *)
(* HashMap that loads put their entries in is the set of the versions they *)
(* read.  Every read or write of a shared field is a step of its own.      *)
(***************************************************************************)
EXTENDS Messaging

CONSTANTS
    Thread,     \* request threads that read
    Null,
    MaxWrites   \* bound: writes of the two registers

ASSUME SystemAssumption ==
    /\ Register = {"prefixes", "templates"}
    /\ MaxWrites \in Nat
    /\ Null \notin Nat /\ \A S \in SUBSET (0..MaxWrites) : Null # S

VARIABLES
    version,       \* register -> its content in the store
    toNotify,      \* the registers whose writer has still to notify
    prefixes,      \* Prefixes.prefixes: Null or a version
    jsonldContext, \* Prefixes.jsonldContext: Null or a set of versions
    rawTemplates,  \* TypedTemplateIndex.rawTemplates: Null or a set of versions
    listening,     \* the flags listeningForChanges
    resetting,     \* the executor is between the two assignments of resetCache
    reader,        \* thread -> where it is and what it has read
    unannounced,   \* history: register -> version of its last write nobody was told of
    raced          \* history: what holds an old version because a reset came
                   \* between read and use

fields == <<prefixes, jsonldContext, rawTemplates, listening>>
storeVars == <<version, toNotify, unannounced>>
sysVars == <<messagingVars, storeVars, fields, resetting, reader, raced>>

\* A thread: its place, whether it wants the context, the version it read
\* and, for the properties, whether a reset of its register was handled since
\* it began and since it read.
Idle == [pc |-> "idle", context |-> FALSE, local |-> Null,
         resetSeen |-> FALSE, resetSinceRead |-> FALSE]

SysInit ==
    /\ MessagingInit
    /\ version = [r \in Register |-> 0] /\ toNotify = {}
    /\ unannounced = [r \in Register |-> 0]
    /\ prefixes = Null /\ jsonldContext = Null /\ rawTemplates = Null /\ listening = {}
    /\ resetting = FALSE
    /\ reader = [t \in Thread |-> Idle]
    /\ raced = {}

------------------------------------------------------------------------------
(* Writers and the executor *)

\* A command changes the register; a delete, a tag or a graph update sends no
\* message.
Write(r) ==
    /\ r \notin toNotify /\ version["prefixes"] + version["templates"] < MaxWrites
    /\ version' = [version EXCEPT ![r] = @ + 1]
    /\ \/ toNotify' = toNotify \cup {r} /\ UNCHANGED unannounced
       \/ unannounced' = [unannounced EXCEPT ![r] = version'[r]] /\ UNCHANGED toNotify
    /\ UNCHANGED <<messagingVars, fields, resetting, reader, raced>>

\* Until the templates are first loaded nobody listens for their changes.
Notify(r) ==
    /\ r \in toNotify
    /\ toNotify' = toNotify \ {r}
    /\ sendMessage(r)
    /\ unannounced' = IF r = "templates" /\ ~\E i \in DOMAIN processors : processors[i] = r
                      THEN [unannounced EXCEPT ![r] = version[r]] ELSE unannounced
    /\ UNCHANGED <<version, fields, resetting, reader, raced>>

TemplatePlaces == {"templatesTest", "templatesPublish", "templatesRead", "templatesPut",
                   "templatesListen", "templatesFlag", "templatesReturn"}
Reads(t, r) ==
    /\ reader[t].pc \notin {"idle", "failed"}
    /\ reader[t].pc \in TemplatePlaces <=> r = "templates"

\* The threads that read the register meet a reset.
MeetReset(r) ==
    reader' = [t \in Thread |->
                 IF Reads(t, r) THEN [reader[t] EXCEPT !.resetSeen = TRUE, !.resetSinceRead = TRUE]
                                ELSE reader[t]]

\* The executor's thread: resetCache of Prefixes is two assignments.
resetPrefixes ==
    /\ prefixes' = Null
    /\ resetting' = TRUE
    /\ raced' = raced \ {"prefixes"}
    /\ MeetReset("prefixes")
    /\ UNCHANGED <<messagingVars, jsonldContext, rawTemplates, listening>>

resetContext_Kept ==
    /\ resetting' = FALSE
    /\ TaskDone
    /\ UNCHANGED <<fields, reader, raced>>

resetContext ==
    /\ jsonldContext' = Null
    /\ resetting' = FALSE
    /\ raced' = raced \ {"jsonldContext"}
    /\ reader' = [t \in Thread |-> [reader[t] EXCEPT !.resetSeen = @ \/ Reads(t, "prefixes")]]
    /\ TaskDone
    /\ UNCHANGED <<prefixes, rawTemplates, listening>>

resetTemplates ==
    /\ rawTemplates' = Null
    /\ raced' = raced \ {"rawTemplates"}
    /\ MeetReset("templates")
    /\ TaskDone
    /\ UNCHANGED <<prefixes, jsonldContext, listening, resetting>>

Execute ==
    /\ queue # <<>>
    /\ LET task == Head(queue)
       IN  \/ task.processor = "prefixes" /\ Concerns(task) /\ ~resetting /\ resetPrefixes
           \/ task.processor = "prefixes" /\ Concerns(task) /\ resetting /\ resetContext
           \/ task.processor = "templates" /\ Concerns(task) /\ resetTemplates
           \/ ~Concerns(task) /\ TaskDone /\ UNCHANGED <<fields, resetting, reader, raced>>
    /\ UNCHANGED storeVars

------------------------------------------------------------------------------
(* Readers *)

Others == <<storeVars, resetting>>

\* Thread t goes on from one place to another, or ends its call: with a
\* NullPointerException when the field it dereferences is null.
Becomes(t, from, next) == reader[t].pc = from /\ reader' = [reader EXCEPT ![t] = next]
Goto(t, from, to) == Becomes(t, from, [reader[t] EXCEPT !.pc = to])
Failed(t) == [Idle EXCEPT !.pc = "failed", !.resetSeen = reader[t].resetSeen]

Begin(t, place) ==
    /\ reader[t].pc \in {"idle", "failed"}
    /\ reader' = [reader EXCEPT ![t] = [Idle EXCEPT !.pc = place, !.context = (place = "contextTest")]]
    /\ UNCHANGED <<messagingVars, Others, fields, raced>>

\* Prefixes.getJsonldContext: an empty map is published first.
ContextTest(t) ==
    /\ Goto(t, "contextTest", IF jsonldContext = Null THEN "publish" ELSE "contextReturn")
    /\ UNCHANGED <<messagingVars, Others, fields, raced>>

Publish(t) ==
    /\ Goto(t, "publish", "test")
    /\ jsonldContext' = {}
    /\ raced' = raced \ {"jsonldContext"}
    /\ UNCHANGED <<messagingVars, Others, prefixes, rawTemplates, listening>>

\* Prefixes.get
Test(t) ==
    /\ Goto(t, "test", IF prefixes = Null THEN "listen" ELSE "return")
    /\ UNCHANGED <<messagingVars, Others, fields, raced>>

\* Prefixes.loadPrefixes: the processor is registered, the flag is set and the
\* members are read.
Listen(t) ==
    /\ Goto(t, "listen", IF "prefixes" \in listening THEN "read" ELSE "flag")
    /\ IF "prefixes" \in listening THEN UNCHANGED messagingVars ELSE processMessages("prefixes")
    /\ UNCHANGED <<Others, fields, raced>>

Flag(t) ==
    /\ Goto(t, "flag", "read")
    /\ listening' = listening \cup {"prefixes"}
    /\ UNCHANGED <<messagingVars, Others, prefixes, jsonldContext, rawTemplates, raced>>

Read(t) ==
    /\ Becomes(t, "read", [reader[t] EXCEPT !.pc = "assign",
                              !.local = version["prefixes"], !.resetSinceRead = FALSE])
    /\ UNCHANGED <<messagingVars, Others, fields, raced>>

Assign_Dropped(t) ==
    /\ Becomes(t, "assign", [reader[t] EXCEPT !.pc = "return", !.local = Null])
    /\ UNCHANGED <<messagingVars, Others, fields, raced>>

Assign(t) ==
    /\ Becomes(t, "assign", [reader[t] EXCEPT !.pc = "return", !.local = Null])
    /\ prefixes' = reader[t].local
    /\ raced' = IF reader[t].resetSinceRead THEN raced \cup {"prefixes"} ELSE raced \ {"prefixes"}
    /\ UNCHANGED <<messagingVars, Others, jsonldContext, rawTemplates, listening>>

\* The field is read again; get() may return null, which getJsonldContext and
\* the callers dereference.
Return(t) ==
    /\ Becomes(t, "return",
         IF prefixes = Null THEN Failed(t)
         ELSE IF reader[t].context
              THEN [reader[t] EXCEPT !.pc = "put", !.local = prefixes, !.resetSinceRead = "prefixes" \in raced]
              ELSE Idle)
    /\ UNCHANGED <<messagingVars, Others, fields, raced>>

Put(t) ==
    /\ Becomes(t, "put", IF jsonldContext = Null THEN Failed(t) ELSE [reader[t] EXCEPT !.pc = "contextReturn"])
    /\ IF jsonldContext = Null THEN UNCHANGED <<jsonldContext, raced>>
       ELSE /\ jsonldContext' = jsonldContext \cup {reader[t].local}
            /\ raced' = IF reader[t].resetSinceRead THEN raced \cup {"jsonldContext"} ELSE raced
    /\ UNCHANGED <<messagingVars, Others, prefixes, rawTemplates, listening>>

ContextReturn(t) ==
    /\ Becomes(t, "contextReturn", IF jsonldContext = Null THEN Failed(t) ELSE Idle)
    /\ UNCHANGED <<messagingVars, Others, fields, raced>>

\* TypedTemplateIndex.getTemplates, loadTemplates: an empty map is published,
\* the entities are read and put into the field's map, and only then is the
\* processor registered.
TemplatesTest(t) ==
    /\ Goto(t, "templatesTest", IF rawTemplates = Null THEN "templatesPublish" ELSE "templatesReturn")
    /\ UNCHANGED <<messagingVars, Others, fields, raced>>

TemplatesPublish(t) ==
    /\ Goto(t, "templatesPublish", "templatesRead")
    /\ rawTemplates' = {}
    /\ raced' = raced \ {"rawTemplates"}
    /\ UNCHANGED <<messagingVars, Others, prefixes, jsonldContext, listening>>

TemplatesRead(t) ==
    /\ Becomes(t, "templatesRead", [reader[t] EXCEPT !.pc = "templatesPut",
                                       !.local = version["templates"], !.resetSinceRead = FALSE])
    /\ UNCHANGED <<messagingVars, Others, fields, raced>>

TemplatesPut(t) ==
    /\ Becomes(t, "templatesPut", IF rawTemplates = Null THEN Failed(t)
                                  ELSE [reader[t] EXCEPT !.pc = "templatesListen", !.local = Null])
    /\ IF rawTemplates = Null THEN UNCHANGED <<rawTemplates, raced>>
       ELSE /\ rawTemplates' = rawTemplates \cup {reader[t].local}
            /\ raced' = IF reader[t].resetSinceRead THEN raced \cup {"rawTemplates"} ELSE raced
    /\ UNCHANGED <<messagingVars, Others, prefixes, jsonldContext, listening>>

TemplatesListen(t) ==
    /\ Goto(t, "templatesListen", IF "templates" \in listening THEN "templatesReturn" ELSE "templatesFlag")
    /\ IF "templates" \in listening THEN UNCHANGED messagingVars ELSE processMessages("templates")
    /\ UNCHANGED <<Others, fields, raced>>

TemplatesFlag(t) ==
    /\ Goto(t, "templatesFlag", "templatesReturn")
    /\ listening' = listening \cup {"templates"}
    /\ UNCHANGED <<messagingVars, Others, prefixes, jsonldContext, rawTemplates, raced>>

TemplatesReturn(t) ==
    /\ Becomes(t, "templatesReturn", IF rawTemplates = Null THEN Failed(t) ELSE Idle)
    /\ UNCHANGED <<messagingVars, Others, fields, raced>>

Reader(t) ==
    \/ ContextTest(t) \/ Publish(t) \/ Test(t) \/ Listen(t) \/ Flag(t) \/ Read(t) \/ Assign(t)
    \/ Return(t) \/ Put(t) \/ ContextReturn(t)
    \/ TemplatesTest(t) \/ TemplatesPublish(t) \/ TemplatesRead(t) \/ TemplatesPut(t)
    \/ TemplatesListen(t) \/ TemplatesFlag(t) \/ TemplatesReturn(t)

SysNext ==
    \/ \E r \in Register : Write(r) \/ Notify(r)
    \/ Execute
    \/ \E t \in Thread : Reader(t) \/ \E place \in {"test", "contextTest", "templatesTest"} : Begin(t, place)

\* A request that has written goes on to notify, and the executor's thread
\* takes one task after the other.
SysFairness == (\A r \in Register : WF_sysVars(Notify(r))) /\ WF_sysVars(Execute)

SysSpec == SysInit /\ [][SysNext]_sysVars /\ SysFairness

------------------------------------------------------------------------------
(* Properties *)

\* A reset of the register's caches is on its way.
Announced(r) ==
    r \in toNotify \/ \E i \in DOMAIN queue : queue[i].target = r /\ queue[i].processor = r

\* The versions a field holds entries of, and the register they come from.
Held(f) == CASE f = "prefixes" -> IF prefixes = Null THEN {} ELSE {prefixes}
             [] f = "jsonldContext" -> IF jsonldContext = Null THEN {} ELSE jsonldContext
             [] OTHER -> IF rawTemplates = Null THEN {} ELSE rawTemplates
Source(f) == IF f = "rawTemplates" THEN "templates" ELSE "prefixes"

OutOfDate(f) == \E v \in Held(f) : v < version[Source(f)]
Unannounced(f) == \E v \in Held(f) : v < unannounced[Source(f)]

\* The prefixes, the JSON-LD context and the templates in memory are those of
\* the store, except until the reset that is on its way, after a write that
\* sends no message (a delete) or, for the templates, sent it before the first
\* load registered its processor, and after a reset came between a load's read
\* and its use (Prefixes.get, loadTemplates).
OutOfDateOnlyIfRaced ==
    \A f \in {"prefixes", "jsonldContext", "rawTemplates"} :
        OutOfDate(f) => Announced(Source(f)) \/ Unannounced(f) \/ f \in raced

\* The empty maps that getJsonldContext and loadTemplates publish do not stay:
\* whoever sees one, sees a load or a reset in progress, although a load that
\* meets a reset ends in an exception.
EmptyOnlyWhileLoading ==
    /\ rawTemplates = {} => \E t \in Thread : reader[t].pc \in {"templatesRead", "templatesPut"}
    /\ jsonldContext = {} =>
          \/ resetting
          \/ \E t \in Thread : reader[t].context /\ reader[t].pc \in {"test", "listen", "flag", "read", "assign", "return", "put"}

\* A request fails on a null field only if a reset was handled while it ran
\* (Prefixes.get and getTemplates test the field and read it again).
FailsOnlyOnReset ==
    \A t \in Thread : reader[t].pc = "failed" => reader[t].resetSeen

\* What is out of date is dropped or replaced in the end, with the same
\* exceptions: every message is handled.
CatchesUp ==
    \A f \in {"prefixes", "jsonldContext", "rawTemplates"} :
        OutOfDate(f) ~> (~OutOfDate(f) \/ Unannounced(f) \/ f \in raced)
==============================================================================
