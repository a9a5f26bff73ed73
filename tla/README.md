# A TLA+ model of the UKGovLD registry

The registry is a web application that keeps *registers* of *items* in an RDF
triple store. Every change of an item or register makes a new version of it;
items have a life cycle; registers can be nested, delegated to other servers,
tagged and searched. The server is in
`src/src/main/java/com/epimorphics/registry/` (about 12 000 lines of Java); file
names below are relative to that directory. The user interface is three scripts
in `src/src/main/webapp/ui/js/` (`ds-explore.js`, `qonsole.js`, `ui.js`, about
800 lines); the other scripts there, some 26 600 lines that are not minified,
are copies of jQuery, jsPlumb, CodeMirror, Bootstrap and other libraries.

## The system

| Part | State it keeps | Operations | Where it is hard |
|---|---|---|---|
| Locks (`store/StoreBaseImpl`, lines 108-174) | a map of lock objects per URI; the flag `storeWriteLocked`; the store's transactions | `lock`, `unlock`, `lockStore`, `unlockStore`, `lockStoreWrite`, `query` | waiting inside a monitor; one flag for all requests |
| Versioned store (`StoreBaseImpl`, `util/VersionUtil`) | versions, intervals, membership, subregister links, entity graphs | `addToRegister`, `update`, `getCurrentVersion`, `getVersionAt`, `listMembers` | version numbers come from the caller's description; nothing aborts |
| Update commands (`commands/*`, `core/Command`) | fields set by `validate`, used by `doExecute` | Register (also batch), RegisterGraph, Update (PUT, PATCH, of item or entity), StatusUpdate (item or whole register), Delete, Annotate, Tag | state read before the lock and used after it; different URIs locked for one item; several items in one request |
| Life cycle (`core/Status`, `core/RegisterItem`) | the status of each version | `legalNextState`, `setStatus`, `forceStatus` | long sequences of changes |
| Register cache (`store/CachingStore`, `util/DescriptionCache`) | an LRU map of registers | flush before write, fill after read | a stale fill after a flush |
| Forwarding (`core/ForwardingServiceImpl`, `util/Trie`) | a trie of paths, the proxy's configuration | `update`, `register`, `unregister`, `match`, `listDelegations`, `updateConfig` | not told of deletes; order of registrations; a script that fails; restarts |
| Messaging (`message/*`, `util/Prefixes`, `util/TypedTemplateIndex`) | a queue and caches reset by messages | `sendMessage`, `processMessages`, `resetCache`, `get`, `getJsonldContext`, `templateFor` | asynchronous delivery; unsynchronized fields; reset during load |
| Reading, search, paging (`commands/CommandRead`, `CommandSearch`, `core/Register`, `store/SearchFilter`) | none | views, windows, filters | offsets and limits |
| Dataset explorer (`ds-explore.js`) | nodes, links and what is drawn of them; requests in flight | add, close, relayout, answers | answers late, twice, empty or after the node was closed |
| Query console (`qonsole.js`) | the example selected, prefix boxes, the text, the format, queries in flight | select, click a prefix, run, answers | an answer shown under another example or format |
| Edit table (`ui.js`, `edit-form.vm`) | rows with ids and handlers; saves in flight | add, remove, save | ids that meet; two saves at once |
| Security (`security/*`) | users, permissions, cached authorizations | `implies`, `register`, `unregister`, ... | permissions left behind |
| Start-up (`core/Registry`) | - | bootstrap, reload of the forwarding table | restart |

A request thread runs one command: `RequestProcessor` builds it, `Command.execute`
calls `validate`, checks the permission and calls `doExecute`. A `doExecute`
that writes is a block `store.lock(uri); try { ... } finally { store.unlock(uri); }`
of store calls. After a write it may call `checkDelegation` (the forwarding
table) and `notify` (the messaging service). Threads share the store, the locks,
the cache and the forwarding table.

What makes the parts correct: locks are exclusive and are granted; versions form
one chain of intervals that meet, and the past does not change; an item has one
status, which follows the life cycle; no registration, link or annotation is
lost; what the forwarding table, the caches and the messages say agrees with the
store. The list "hazards" in `PROJECT.json` names the lines where each of these
can go wrong.

## Modules

| Module | Models | State and actions |
|---|---|---|
| `Status` | `core/Status.java` | operators: the enum, `isAccepted`, `legalNextState` |
| `UriLock` | the promise of `StoreAPI.lock` / `unlock` | `holder`; `Acquire`, `Release` |
| `StoreLocks` | the locks of `StoreBaseImpl` | `monitor`, `locks`, `owner` (lock objects), `storeWriteLocked`, the store's transactions (`writer`, `reads`), and per thread `pc`, `uri`, `lockVar`, `calls`, `wrote`. One action per method; a method that can wait has an action for entering the monitor and one for being granted the lock |
| `StoreLocks_proofs` | - | TLAPS proofs about `StoreLocks` |
| `VersionedStore` | the writes and reads of `StoreBaseImpl` with `VersionUtil` | operators on a database `d` (`cur`, `ver`, `member`) |
| `Commands` | the update commands on that database | `db`, the clock `now`, `holder` (the locks, by `INSTANCE UriLock`), `forwards`, `event`, and per thread `pc` and `job` (the command's fields and locals) |
| `MCCommands` | - | constants for model checking |
| `Commands_proofs`, `CommandsLocked_proofs`, `CommandsSerial_proofs` | - | TLAPS proofs about `Commands`: of any mixture of commands, of those that read and write an item under its lock, and of every command when requests are served one after the other |
| `Trie` | `util/Trie.java` | recursive operators on a tree of segments |
| `Forwarding` | `core/ForwardingServiceImpl`, the requests that call it, start-up | `stored` (status and record of each delegated item), `table`, `proxyForwards`, `configUpdateNeeded`, `proxy`, and per thread `pc` and `job`. `Write`, `Update`, `Config` are the three steps of a request, `Delete` the one that skips the service; `Restart`, `Load`, `Loaded` |
| `ForwardingTrie`, `MCForwarding` | the service with the real trie | `trie` beside `table`, changed by the same calls |
| `Forwarding_proofs` | - | TLAPS proofs about `Forwarding` |
| `Messaging` | `message/LocalMessagingService`, `ProcessIfChanges` | `processors`, `queue` |
| `SystemRegisters` | `util/Prefixes`, `util/TypedTemplateIndex` | the static and instance fields; one action per access to one of them |
| `SystemRegisters_proofs` | - | TLAPS proofs about `SystemRegisters` |
| `Paging` | `util/Util.listWindow` | operator |
| `RegisterRead` | `store/CachingStore`, `core/Register`, `CommandRead.registerRead` | the register in the store (`status`, `version`), `cache`, `heap` (Register objects) and per client `reader`; `Flush` and `Write` of a writer, `Get` ... `View` of a reader, `Evict` |
| `Search` | `store/SearchFilter`, `CommandSearch` | `hits`, `answers`; `SearchPage` |
| `Reads` | - | the two kinds of requests that only read |
| `Reads_proofs` | - | TLAPS proofs about the register cache and the pages of a register in `Reads` |
| `DatasetExplorer`, `Qonsole`, `EditForm` | `ds-explore.js`, `qonsole.js`, `ui.js` | the scripts' variables and the page; one action per event handler or callback |
| `Browser`, `MCBrowser` | a tab: one page at a time | `page` |
| `Browser_proofs` | - | TLAPS proofs about the three scripts in `Browser` |

`StoreLocks` shows that the real locks implement `UriLock`; `Commands` uses
`UriLock`. So what `Commands` shows does not depend on how the locks are made.
`ForwardingTrie` runs the trie beside the table of paths that `Forwarding` takes
it for (`TrieIsTable` says that they give the same answers), which keeps the
recursion out of the module that is proved about. `SystemRegisters` extends
`Messaging`; `Reads` and `Browser` put modules side by side that share no
variable; each behaviour runs one of them.

### How the models abstract

* **Triples are sets.** Writing a version that is already in the graph adds to
  it. Status, annotations, subregister links, beginnings and ends are therefore
  sets of values, and code that takes "the" value takes any of them.
* **One action is one store call** with the code up to the next one. A store
  call is taken as atomic: it runs in one transaction of the store. (The run
  `locks_block` shows that the flag does not always give it one. `Commands`
  shows what can still happen when that is repaired.) The first call of a block
  also takes the block's lock and the last one gives it back, which is sound
  because nothing but the lock changes in between. The update of the forwarding
  table and the message belong to the step of the write they follow, and so does
  the reading of the clock that gives the write its timestamp.
* **A request refused before it has written** changes nothing and has no action.
* **The two versionInfo values.** `doUpdateRegister` copies the store's
  `owl:versionInfo` onto a description that may have one already;
  `VersionUtil.nextVersion` then reads either (`versionInfos`).
* **The root register** is loaded from `root-register.ttl` with versionInfo 1
  and no interval. Its own item, which the file makes without a version, is left
  out.
* **PUT and PATCH.** `put` and `patch` are requests for the item (`.../_x`),
  `putEntity` and `patchEntity` for its entity. A PUT of the item may or may not
  repeat the annotations. A PUT always stores the entity; of a register it takes
  the payload's description, without versionInfo, and a PATCH the one
  `validate` read. A PUT whose payload does not repeat the class
  `reg:Delegated` does not reach the forwarding table.
* **Left out of `Commands`**: the entity's own triples and graphs, labels and
  classes, the text index, the collection that a tag records, permissions other
  than Force, payloads that carry an `owl:versionInfo` for an entity.
* **`Forwarding`** keeps of an item what the service looks at: whether its status
  is accepted, and its record (type, code, target). Locks are sets of URIs: a
  request holds the item's or the register's, which do not exclude each other.
  A restart may come at any point and keeps the store and the proxy.
* **`SystemRegisters`** keeps of a register its version number. A map that is
  filled entry by entry by several loads is the set of the versions it has
  entries of. `MeetReset` and `raced` are history: they tell a value that is old
  because of a race from one that is old for no reason.
* **`RegisterRead`** has one register. A member is a number, and members are
  ordered by it (`orderBy`, which says that the k-th of some items is the one
  with k of them up to it). What a page was made from is kept (`snapshots`), so that the
  properties can say what a walk over the pages must have seen. Reads at a time
  in the past (`_versionAt`) are left out.
* **`Search`** takes the index's answer as any sequence of items up to
  `MaxHits` hits, and the searcher as a client that follows `ldbp:nextPage`.
* **The browser.** Script code runs to its end before the next event. Layout,
  colours and wording are left out. What the scripts use of jQuery, jsPlumb and
  springy is modelled as they use it: `$("#id")` finds the first element,
  `append` runs the element's script, an answer may come at any time or never.
* In `StoreLocks` the triple store is external: readers never wait, writers
  exclude each other, and an `unlock()` by a thread that has nothing open either
  does nothing or ends another thread's write.

## Runs

| Run | Instance | Checks | Result |
|---|---|---|---|
| `locks` | 2 threads, 2 URIs, 3 lock objects, 2 store calls per block, 2 read holds per thread | `MutualExclusion`, `UnlockFindsLock`, `ImplementsUriLock`, `SerialDiscipline`, `TypeOK` | hold |
| `locks_grant` | the same, with fairness | `LockReturns` | violated: `lock(uri)` waits for the lock inside the monitor that its holder needs to unlock |
| `locks_block` | the same | `BlockKeepsWriteLock` | violated: the end of one block clears the flag of another |
| `commands_serial` | 1 thread, 3 requests, items `a`, `c` in the root register, `b` in the register of `c` | `VersionChain`, `VersionAtEveryTime`, `HistoryStable`, `OneStatusPerVersion`, `SubregistersListed`, `LegalLifecycle`, `NotesKept` | hold |
| `commands_locked` | 2 threads, 4 requests, Register, StatusUpdate of an item, Annotate | `ItemVersionChain`, `OneStatusPerVersion`, `RegisteredOnce`, `LegalLifecycle`, `NotesKept` | hold |
| `commands_concurrent` | 2 threads, 4 requests, all commands | `IntervalsMeet`, `NoGaps`, `TypeOK` | hold |
| `commands_stale` | 2 threads, 3 requests, Register and Tag | `VersionAdvances` | violated: a register's current version number goes back |
| `commands_message` | 1 thread, Register and Update | `UpdateMessageIsPostUpdate` | violated: the message has the request's item |
| `forwarding` | 3 items at `a`, `a/b`, `c/b`, records with code 200 and 307, 2 threads, 4 requests or restarts | `PrefixFree`, `TableFollowsStore`, `ReloadedTable`, `ProxyFollows`, `TrieIsTable`, `FwdTypeOK` | hold |
| `system_registers` | 2 readers, 1 write of either register | `OutOfDateOnlyIfRaced`, `EmptyOnlyWhileLoading`, `FailsOnlyOnReset`, `CatchesUp` | hold |
| `reads` | 3 items, pages of 2, a client that walks and one that reads again and again, 2 writes; searches of up to 7 hits of 3 items | `StaleOnlyIfOverlapped`, `WalkSeesAll`, `SearchedInOrder` | hold |
| `browser` | 3 datasets with 4 links, 2 requests in flight; 3 examples, 2 prefixes, 2 formats, 2 queries in flight; tables of 11 and 12 rows, 2 edits, 2 saves | `LinksMatchCanvas`, `HiddenEndOnlyIfClosedEarly`, `OneElementUnlessAskedTwice`, `PrefixesFollowBoxes`, `ResultBelongsUnlessOvertaken`, `ButtonsActOnTheirRow`, `LastSaveStored` | hold |

*Bounds.* Two threads are enough for every race listed: each needs one reader or
writer between two steps of another. Two URIs tell "the same" from "another"; a
third lock object allows a new one while two are in use. `MaxVersion` is large
enough that no request is stopped by it; `MaxRequests` is what bounds the runs:
three requests give register, change and change again, four give two changes in
a race after two registrations. `MaxTime` allows writes within one tick of the
clock and across ticks. Deadlock is not checked, because the requests are
bounded in `Commands` and because `StoreLocks` really can stop, which
`locks_grant` shows. Threads are symmetric in `commands_locked`,
`commands_concurrent` and `forwarding`.

In `forwarding`, two nested paths and one beside them give every relation of
paths (the same, above, below, apart); four requests are two writes, a delete
and a restart. In `system_registers` one write is enough: every exception is one
reset between two steps of a reader; a second reader is needed for maps that are
filled twice. There deadlock is checked: readers can always start again. In
`reads`, three items and pages of two make a full and a partial page and a page
that ends exactly at the limit; two writes move an item in and out. Seven hits
fill three pages and leave a rest. In `browser`, eleven rows is the largest table
whose ids cannot meet, which the property says, and twelve the smallest where
they do. `MaxEdits` must stay below 12, because the twelfth added row can meet
an older one also in a small table.

*Fairness.* `locks_grant` assumes that every started request goes on if it can
do so again and again. The JVM promises less for contended monitors, so a
violation under this fairness is one under any weaker kind; it is a true
standstill, where no step of the two threads is possible. `system_registers`
(`CatchesUp`) assumes weak fairness of `Notify`, since the request that has
written goes straight on to `notify`, which waits for nothing but a short
monitor, and of `Execute`, since the executor's only thread takes task after
task and a task that throws does not end it. Nothing is assumed of readers.

*Mutants.* Operators named `X_Something` before `X` are the mutants that
`PROJECT.json` lists: each is a plausible mistake in the code `X` models, and
the property it is listed for fails with it.

*What the serial and the concurrent runs say together.* One after the other, the
commands keep every history property. In a race, commands that read an item
under the lock they write it under (`commands_locked`) keep them for items.
Commands that store what `validate` read (Register for the register, Update,
Tag), or that lock a URI other than the item's (Delete by entity, a status
update of a register, RegisterGraph, the children of a batch), do not: version
numbers go back (`commands_stale`). Even then intervals meet and the current
version exists (`commands_concurrent`).

*What the conditional properties say.* Several properties have the form "this
goes wrong only if". They bound what the code does wrong: `TableFollowsStore`
names every way in which the forwarding table can differ from the store (an
update still to come, overlapping requests on one item under different locks, a
delete, nested paths), and any other difference is a violation. History
variables (`overlapped`, `deleted`, `raced`, `closedEarly`, `askedTwice`,
`overtaken`) record the exceptions; they are never read by a guard.

*What search does.* From the second page on, `SearchFilter` counts the results
it skips as results: it keeps one result of each batch and drops the others, and
it fills its array with nulls at the end, on which `CommandSearch` fails.
`SearchedInOrder` states what is left: the first page is right, later pages have
some of the results in order, and a walk past a full first page always ends in
a failure.

*What paging does.* A page that ends exactly at the limit links to a next page,
which is empty; no item is lost or shown twice unless one before it came or went
between two pages, or a stale register was in the cache for one of them.

Facts met on the way that are not violations of anything written. Several
items in one request share one new version of the register, which then has
several beginnings and whose subregister links grow after its first beginning
(this is why `HistoryStable` is about status and annotations). A PUT of a
register drops the links to its tags. `CachingStore.update(item, withEntity,
timestamp)` (`store/CachingStore.java:152`) calls itself; nothing calls it. With
two search fields `CommandSearch.extractSearchSpec` (line 113) lets the pairs
overwrite each other. `splice(_config, 1)` in `qonsole.js:86` removes the first
entry, which in the shipped `qonfig.json` is the default one it means. The
velocity renderer keeps the prefixes of start-up (`core/Registry.java:169`), and
a cached delegated register keeps its first list of remote members
(`core/Register.java:198`). The map of `DescriptionCache` and the trie in
`ForwardingServiceImpl.listDelegations` (line 203) are read without
synchronization; the models take one access to them as one step.

## Proofs

`StoreLocks_proofs` proves, for any sets of threads, URIs and lock objects:

* `TypeCorrect`: `Spec => []TypeOK`.
* `LocksInvariant`: `Spec => []LockInv`, the inductive invariant. Exclusion of
  blocks is not inductive by itself: one must know that a block's lock object is
  still the map's entry for its URI (`BlockInv`), that the map gives no object
  to two URIs (`MapInjective`), and that a thread waiting for a lock is inside
  the monitor, so that no `unlock` removes the entry it waits for
  (`WaitingInv`). That is also why the code deadlocks: the argument for safety
  is the cause of the standstill.
* `LocksExclusive` (`MutualExclusion`) and `UnlockSafe` (`UnlockFindsLock`)
  follow from it.
* `LocksImplement`: `Spec => ImplementsUriLock`. `HeldBy` is the refinement
  mapping; `LockGranted` is `Acquire`, `Unlock` is `Release`, and every other
  step changes nothing of it.
* `SerialRequests`: `Spec => []SerialDiscipline`. `SerialInv` adds, for as long
  as requests have not overlapped, that one request at most has started, that
  the write transaction is that of its block, that a thread has one read
  transaction exactly while it reads without the flag being set, and that an
  entry of the map is there for a thread that waits for the lock or has it.

They assume that the markers for "none" are not members of the sets they stand
beside and that the two bounds are natural numbers.

`Forwarding_proofs` proves, for any items, paths, records and threads:

* `FwdTypeCorrect`: `FwdSpec => []FwdTypeOK`, by `TypeInv`, which adds the types
  of the jobs, that a thread has an item exactly while it is not idle, that
  requests run only when the server does, and that nothing is then left to load.
* `TablePrefixFree`: `FwdSpec => []PrefixFree`. `RegisterTable` and
  `UnregisterTable` say what a registration does to a table of paths;
  `PrefixFree` is inductive with the types.
* `ProxyFollowsTable`: `FwdSpec => []ProxyFollows`. Every change of
  `proxyForwards` sets `configUpdateNeeded`, and only `updateConfig` clears it.
* `TableFollows`: `FwdSpec => []TableFollowsStore`. The property is not
  inductive: between a request's write and its update the table is behind, and a
  later write must not be overtaken. `FollowInv` says that a job whose item is
  neither overlapped nor deleted carries what the store has (`JobStored`), and
  that an item that is settled (its path isolated, no thread about to call the
  service for it, not overlapped, not deleted) has the entry the store calls
  for, as far as it is loaded (`Follows`). `OwnPath` and
  `OtherPath` say that a call for one item leaves the entry of an isolated other
  item alone.
* `StartUpTable`: `FwdSpec => []ReloadedTable`. That the table is the one of the
  topmost accepted items would take an induction over paths; `LoadedInv` avoids
  it by saying of the items loaded so far that every entry belongs to one of
  them and that each has an entry at or above its path. With `PrefixFree` this
  determines the table, whatever the order of loading was.

They rest on `ForwardingAssumption`: paths are non-empty and different, and
"none" is no item, thread or record.

`Commands_proofs` proves, for any items, registers, threads, bounds and set of
operations, all of them racing included:

* `CommandsInvariant`: `Spec => []CommandInv`. `CommandInv` is `TypeOK`, what the
  store always satisfies (`StoreInv`: versions meet and have no gap, and a
  register's item and a member are stored with what they refer to), and, for each place in a
  command, what the command needs of the store there (`Prepared`): the version
  it read, which may no longer be the current one, is stored. The last
  part is what makes a stale write harmless for the next two theorems.
* `CommandsTypeCorrect` (`TypeOK`), `VersionIntervalsMeet` (`IntervalsMeet`) and
  `VersionsWithoutGaps` (`NoGaps`) follow from it.

`CommandsLocked_proofs` proves, under the hypothesis `Operations \subseteq
LockedOperations` (registrations of single items, status updates of an item and
annotations, the commands of the run `commands_locked`), for any number of
threads:

* `LockedInvariant`: `Spec => []LockedInv`: the versions of an item are in order
  and have one status each (`InOrder`), and a command inside its block holds the
  lock of what it read, which is still what is stored (`InBlock`).
* `ItemVersionsChained`, `OneStatusEach`, `ItemsRegisteredOnce`, and the action
  properties `LifecycleFollowed` and `AnnotationsKept`. Other commands
  read what they write before they have its lock; of a mixture with those only
  the theorems of `Commands_proofs` hold.

`CommandsSerial_proofs` proves, under the hypothesis `OneThread` (requests are
served one after the other, as in the run `commands_serial`), for any items,
registers, bounds and set of operations, all of them included:

* `SerialInvariant`: `Spec => []SerialInv`. None of the properties is inductive:
  a command writes what it read some calls ago, so each rests on what the
  command has in hand. `InHand` says, place by place, that this is what the
  store has, or, for a registration of several items, the description of the
  register that its last version repeats (`Held`), and that a status to be set
  was found to be acceptable for it. `Orderly` says of the store that every
  history is a `Chronicle` (a chain in which no version begins before an earlier
  one or after the clock), that items have one status, and that registers, their
  items and their links belong together. That a write keeps a chronicle and the
  past (`PastKept`) is proved once per store call, and used for each command.
* `SerialVersionChain`, `SerialVersionAt` (`VersionAtEveryTime`),
  `SerialSubregisters`, `SerialOneStatus` and the action properties
  `SerialHistory` (`HistoryStable`), `SerialLifecycle` and `SerialAnnotations`
  (`NotesKept`).
* `SerialVersionAdvances`: `VersionAdvances`, which the run `commands_stale`
  finds violated with two threads, holds of one. The disagreement between the
  comment in `VersionUtil` and the code is one of concurrency alone.

`SystemRegisters_proofs` proves, for any number of readers and writes:

* `SystemInvariant`: `SysSpec => []SysInv`. The properties speak of a message
  that is announced; the invariant has to tell a reset that is still to begin
  (`Coming`) from one that has dropped the first of two fields, since a reader
  may load the dropped one again between the two assignments of
  `Prefixes.resetCache` and be right. `ReaderInv` says what each place of a reader relies on,
  `FieldInv` what the fields hold, `EmptyInv` who fills an empty map.
* `MemoryOutOfDateOnlyIfRaced`, `MapsEmptyOnlyWhileLoading` and
  `RequestsFailOnlyOnReset` follow from it.

`Reads_proofs` proves, for any number of clients, items and writes:

* `ReadsInvariant`: `ReadsSpec => []ReadInv`. An object exists exactly as long as
  the cache or a request refers to it (`HeapInv`), one that is on its way into
  the cache is known to its reader only and has no members yet (`FreshInv`), and
  a cached one that no write has overlapped is what the store has (`CacheInv`).
  `FreeObject` counts: the bound on the objects is never reached.
* `StaleCache` (`StaleOnlyIfOverlapped`) follows from it.
* `WalksInvariant`: `ReadsSpec => []WalkInv`, for any page size too. An item is
  placed by its rank among the items a page is made from. `Ahead`: an item that
  matched all along, with nothing before it gone, has been got or has a rank
  after the last page. `Behind`: an item that was got had, in one of the sets,
  a rank that was not. `NoneTwice` follows from the two when the next page is
  added (`NextPage`), since a set that has all that is before an item in another
  gives it no smaller rank (`RankGrows`). That a page has the items of its ranks
  needs no induction over the list: the ranks of a set are as many as its items,
  so each is taken (`OrderByRank`).
* `WalksSeeAll` (`WalkSeesAll`): at the end of a walk the last page had room for
  more, so no item has a rank after it.

`Browser_proofs` proves, for any data sets, links, configuration and bounds:

* `BrowserInvariant`: `BrowserSpec => []BrowserInv`, one invariant per script.
  Of the explorer: a data set is registered exactly if it has an element
  (`ElementsInv`), a request in flight goes along a known link between data sets
  that are shown or were closed meanwhile (`GetsInv`), and one that was not
  asked for twice has one element or one request (`AskedInv`). Of the console:
  the text is declarations without repetition followed by the query (`Tidy`),
  and a query in flight that nothing overtook is that of the example selected.
  Of the edit form: without overlap or failure, the save in flight is the last;
  and in a table of up to 11 rows no two rows have one id (`TableInv`). For that
  it says where an id comes from: it is one of the page's, a single digit or
  `10`, or was made with a smaller count than the next one, and ends with that
  count's digits (`Named`). So a new id differs from all of them
  (`NewNameIsFresh`), as long as the count is at most 11: a row added with
  the count 12 after row 1 has the id of one added with 2 after row 11.
* `LinksDrawn`, `HiddenEnds`, `OneElement`, `PrefixesDeclared`, `ResultBelongs`,
  `LastSave` and `ButtonsAct` (`ButtonsActOnTheirRow`) follow from it.

They rest on the assumptions of the modules: the markers for "none" are no
values of the fields they stand in, and `PrefixesAssumption`, which says of the
console's configuration that no entry declares a prefix twice (`qonfig.json`
does not). TLC evaluates every one of them in the runs, and checked each
inductive invariant on the bounds of the corresponding run, or on smaller ones,
before it was proved.

Only model checked: `TrieIsTable`, which is about recursive operators on a tree
of any depth, and `SearchedInOrder`, which is about what a loop over a sequence
of hits computes: both take an induction over data, and that is out of the
prover's reach; and the liveness properties `LockReturns` and `CatchesUp`.

## Not modelled

* *Security.* Permissions other than Force, and the user stores: they keep a
  database of their own which no other part reads or writes. The hazard at
  `security/DBUserStore.java:223` is listed without a property.
* *HTTP dispatch and rendering, JSON-LD, forms, log replay, generated
  vocabularies, `CommandValidate`*: conversions and single reads without state.
* *Failures inside a store call.* What a failed transaction leaves is decided by
  the triple store and the text indexer, which are not in the repository.
* *The triples of entities, annotation graphs, the content of the text index,
  search fields, reads at a time in the past.*
* *Third-party scripts* under `webapp/ui/js`. They are most of the JavaScript in
  the repository by lines, but none of it is the registry's own, and the
  registry's correctness does not turn on how they work inside.

## What could come next

Every safety property that a passing run checks is proved, but the two named
above. What is left would need more of the code: failures inside a store call,
when the triple store's behaviour is known; the user stores; reads at a time in
the past, for which `VersionAtEveryTime` and `HistoryStable` say what the store
promises.
