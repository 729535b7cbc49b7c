# OpenYard: a verification project

TLA+ specifications of OpenYard, checked with TLC and proved with TLAPS. Paths below are
relative to the repository's `openyard-service/pkg/` unless they start with another top-level
directory.

- [1 The system](#1-the-system)
- [2 The modules and how they correspond to the code](#2-the-modules-and-how-they-correspond-to-the-code)
- [3 The runs and what they show](#3-the-runs-and-what-they-show)
- [4 Bounds](#4-bounds)
- [5 Fairness](#5-fairness)
- [6 The proofs](#6-the-proofs)
- [7 Where the code does not do what it says](#7-where-the-code-does-not-do-what-it-says)
- [8 What is not modelled](#8-what-is-not-modelled)
- [9 The plan](#9-the-plan)

`PROJECT.json` lists the runs, the lines of code behind every definition, the gravest hazards with the
properties that cover them, and for every property a slip in the code that would break it.

## 1 The system

OpenYard is a Go service between legacy DMS clients and CMIS clients on one side and an
OpenCloud/Reva storage on the other. It speaks two HTTP APIs (`/api/...` and `/cmis`) and talks to
the storage over one gRPC connection to the CS3 gateway, plus HTTP for file contents. Every HTTP
request is a goroutine. What the service keeps itself is little: the migration map and its file,
the connection to the gateway, the sessions, the work cache of paged listings, and the AppConfig
files. Everything else (files, folders, metadata, locks, shares) is in the storage, and most
handlers are a series of calls to it with no transaction around them. Next to the service there is
a command line tool that lays out a folder plan (`aktenplan-setup/`).

| Component | Code | State | Operations | Hard behaviour | What makes it correct |
|---|---|---|---|---|---|
| Migration map | `migration/migration.go`; handlers in `http/handlers/system.go`, `import_doc.go` | map of legacy ids to OpenYard ids, dirty flag and counter, one RWMutex, a JSON file | `Init`, `MapID`, `Persist`, `LookupOpenYardID`, `FilterMissing` | concurrent puts and saves, the save decided under the lock and done after it, failing writes, death during a write | a put is found, a clean map is on disk, the loss of a crash is bounded, the file holds the map of one instant |
| Gateway client | `cs3client/client.go`; callers in `http/handlers/documents.go`, `upload/reva.go` | connection, stub, RWMutex, one watcher goroutine | `New`, `GetGateway`, `CheckError`, `reconnect`, `watchConnection`, `Close` | reconnects of many callers and of the watcher over each other | no connection leaks, the stub is current, a retry goes over another connection, calls end |
| Paged listings | `http/handlers/folders.go` (`GetFolder`, `GetFolderByWorkID`, `paginateSubElements`, work cache) | objects under random WorkIDs with a time to live; a `FolderInfo` map shared by the pages of a listing | first page, next page | two requests with one WorkID, lost answers, expiry, restart | pages follow each other without gap or repetition, and end |
| CMIS check-out | `http/cmis/versioning.go` | none of its own: lock and metadata in the storage | `CheckOut`, `CancelCheckOut`, `CheckIn` | requests interleave between storage calls; calls fail before or after their effect; clients go away | check-outs are exclusive, releases hold, lock and metadata agree |
| Aktenplan apply | `aktenplan-setup/pkg/apply/apply.go`, `schema/schema.go` | none between runs: spaces, containers, metadata in the storage | `Run`: `ensureSpace`, then for each node `ensureContainer`, `setMetadata` | runs are repeated, overlap, fail and die half way | a clean run leaves the whole plan, errors are reported, runs converge |
| Auth sessions | `auth/session.go`, `http/handlers/auth.go`, `middleware.go`, `http/cmis/service.go` | cache of sessions, each with login and CS3 token, absolute time to live | `Login` (two modes), `Logout`, `Authenticate`, `GetSessionBySessionID`, both middlewares | a session that ends while it is used, a token that is stale, an error taken for an invalid token | an ended session is not honoured, a token is used for its own login, a name needs its password |
| Upload and import | `upload/reva.go`, `upload/webdav.go`, `http/handlers/import_doc.go` | none of its own | resolve the target, initiate (one retry), simple PUT, then TUS; then metadata and the migration entry | an effect without an answer, a fallback that looks elsewhere, results that are dropped | a mapped id stands for a document that was stored, in the folder that was asked for |
| CMIS objects, content, ACL | `http/cmis/object.go`, `content.go`, `acl.go`, `navigation.go` | none of its own | create, rename, move, delete, properties, shares | several calls per request, the second by a name the first has changed | the request's effect is on the object it names |
| Bulk object operations | `http/handlers/common.go`, `documents.go`, `folders.go`, `extended_docs.go` | none of its own | move, copy, recover, delete, rename, create by path | one of several fails, statuses that are not looked at | success is answered for what was done |
| AppConfig store | `http/handlers/appconfig.go` | one file per configuration, RWMutex | get, set, delete | file names that collide, files cut short | configurations are apart from each other, a reader sees a whole one |
| Object ids | `http/handlers/mapping.go`, `http/cmis/mapping.go`, `upload/reva.go` | none | encode, three decoders, resolution through the migration map | separators inside ids, cycles in the map | decoders agree, encode and decode are inverse, resolution ends |
| Metadata keys | `metadata/config.go` | configured prefixes | `ToStorageKey`, `ToClientKey` | overlapping prefixes, letter case | keys come back as they were stored, users do not see each other's |
| CMIS-QL | `http/cmis/query.go` | none | parse, match, list, page | LIKE, nested folders, result windows | the result is what the predicates select |
| Plan files and crawl | `aktenplan-setup/pkg/schema/tree.go`, `extract/api.go` | none | read, check, classify, crawl | depth and page limits, characters in a Kennung | a plan that is accepted can be applied |
| Configuration, commands, routing; stubs and renderings; web extension and proxy | `config/`, `command/`, `http/service.go`, `handlers/idp.go`, `permalinks.go`, `cmis/typedefs.go`, `folderviews/`, `proxy-setup/` | none worth a model | start, stop, fixed answers, user interface | the order of a shutdown | |

How they interact: handlers take the stub from the gateway client for each call and hand errors back
to it (`CheckError`); both middlewares turn a session or a header into a CS3 token in the request's
context; uploads and imports write the migration map, and the decoders of ids read it; paged
listings hand a WorkID from one request to a later one through the client; check-in uses the
uploader; aktenplan-apply shares nothing with the service but the storage.

## 2 The modules and how they correspond to the code

| Component | Modules |
|---|---|
| Migration map | `LegacyKeys` (keys and lookups), `Migration` (the machine), `DurableMap` (what it promises), `MigrationProofs`, `MCMigration` |
| Gateway client | `CS3Client`, `CS3ClientProofs`, `MCCS3Client` |
| Paged listings | `WorkPages`, `WorkPagesProofs`, `MCWorkPages` |
| CMIS check-out | `Checkout`, `CheckoutProofs`, `MCCheckout` |
| Aktenplan apply | `PlanWalk` (the order of `Walk`), `Aktenplan`, `AktenplanProofs`, `MCAktenplan` |
| DMS and CMIS handlers on objects, upload and import | `TreeStore` (the storage, external), `Requests` (requests in flight and their calls), `DmsObjects`, `ObjectReads`, `CmisObjects`, `Import`, `Objects` (their composition and its properties), `ObjectsProofs`, `MCObjects` |
| Auth sessions | `Sessions`, `ServicesProofs` |
| AppConfig store | `AppConfigs`, `ServicesProofs` |
| Shares and ACL | `Shares`, `ServicesProofs`; `ObjectsAndShares` (a scene beside `Objects`), `MCObjectsAndShares` |
| Recursive listings (CMIS descendants and folder tree, IN_TREE, the crawl) | `TreeWalks`, `ServicesProofs` |
| Object ids | `ObjectIds`, `ServicesProofs` |
| Metadata keys | `MetadataKeys`, `ServicesProofs` |
| CMIS-QL | `QueryText` (the statements and what they mean), `Queries` (parser and execution), `QueriesProofs` |
| Sessions, configurations, listings, ids, keys and queries together | `Services`, `ServicesProofs`, `MCServices` |

Conventions. A goroutine or a process is a member of a constant set, and `pc` says between which
two lock sections or storage calls it is; everything the code does under one lock section or in one
storage call is one action. A call that may fail has an action of its own for the failure, which
leaves both what the call found and, where a remote call can fail after its effect, what it did. A
variable marked *history* is there for the properties, which need it to speak of the past; an action
reads it at most to choose an id or a connection that nobody has seen yet, or, in `WorkPages`, to
know which WorkIDs have reached a client. Where the code could easily have been written differently (a guard, a reset, a
status that is looked at), that part is an operator of its own, and the operator before it is the
slip: no behaviour of the specifications uses it.

### Migration

`idMap`, `dirty`, `dirtyCount` are the package variables of `migration.go`; `mu` is the holder of
its lock across steps; `data` is the slice `Persist` marshalled; `fileState` and `fileMap` are the
file. `MapID` is one lock section (`migration.go:97-115`) that leaves the goroutine at "persist"
when the counter has reached the limit, because the code calls `Persist` after the unlock.
`PersistClean`, `PersistBegin`, `WriteOpen`, `WriteDone` and `WriteFail` are `Persist`: the write
lock is held from the marshalling to the reset of the counters, and the file is written in place
(`os.WriteFile` truncates first). `Crash` loses the memory and leaves the file as it stands: the
orderly shutdown in `command/root.go` does not call `Persist`, so it is the same. `Start` and
`StartBlind` are `Init`, with a file that is read, is missing or cannot be parsed, or that cannot be read.

Letter case is modelled by what the code does with it: a key is a GUID together with the case it is
written in, `ToLower`/`ToUpper` change the case, and `Find` is the lookup's second attempt in the
other case (`LegacyKeys`). An entry without an OpenYard id (a preloaded object that was never
migrated) is different from no entry.

`DurableMap` is the promise: a map in memory and a durable one, which only changes by a save of the
whole map or by the loss of everything. The refinement maps the map a dead process stands for to
what its successor will load, and the durable map during a write to the one before it.

### CS3Client

`conn` and `stub` are the fields behind the RWMutex, `mu` the goroutine inside `reconnect`, which
holds the write lock while it closes, sleeps and dials. `state` is what gRPC keeps per connection.
A caller is a handler with the retry of `GetFile`, `SetFile` or `Reva.Upload`: take the stub
(`CallStart`), come back broken (`CallBroken`, which is `CheckError` deciding to reconnect),
reconnect, take the stub again (`Retry`), end. The watcher's loop is five steps, since it reads the
connection under the lock but its state without it. gRPC's own retry policy is inside a call.
A connection that is shut and that nobody refers to may stand for the next one dialed; so a finite
set of them serves endless runs.

### WorkPages

A listing's elements are their positions, folders before documents; a Go slice is a pair of bounds,
so that `Page` and `Rest` cut what `paginateSubElements` cuts. `cache` is the go-cache of work
objects, without the clock: an object may expire at any time. `GetFolderByWorkID` is four steps:
find the object (`WorkFound`), delete it (`WorkDelete`, a separate call in the code, so that two
requests can both find it), page and store the rest (`Paginate`), write `SubElementsLoaded` into the shared
map and encode (`SetLoaded`, `Answer`). An answer may be lost; the process may restart, of itself or because
two requests wrote one Go map at the same moment. Random WorkIDs are ids never used before.

### Checkout

`lock` and `mark` are the document's lock and its `oy.lockId` metadata in the storage; the three
metadata keys are written and removed together, so one value stands for them. Each storage call of
`CheckOut`, `CancelCheckOut`, `CheckIn` and `unlockDocument` is a step. With `Faults`, each may fail, before or after
its effect, and a request may be abandoned between two of them (the request's context is cancelled when the client goes
away). `SetLock` refusing a locked document, and `Unlock` refusing a lock that is not set, are the storage's part.

### Aktenplan

`spaces`, `tree` and `marked` are the spaces of the plan's name, their containers and the
containers whose metadata is set; `at` is how far a run has come in `Order`, the order in which
`Walk` calls its function. `PlanWalk!Walk` is that recursion; the model takes its result as a
constant, and `MCAktenplan` has TLC evaluate that the constant is what `Walk` gives, and that on every forest of five nodes
`Walk` visits each node once and a parent before its children (which the proofs assume of `Order`).
`ensureSpace` is list, then create: a failed listing goes on to create. `ensureContainer` is Stat, then `CreateContainer`,
which accepts a container that exists by now. An error is reported and the walk goes on. A node
whose Kennung contains "/" is `Slashed`: its path has one segment more than the plan has levels, so
the storage finds no parent for it.

### The handlers on objects: TreeStore, Requests, DmsObjects, ObjectReads, CmisObjects, Import, Objects

`TreeStore` is the storage as the handlers rely on it: one tree of spaces, folders and files with a
bin; references by id, by path and by an id with a path below it; the calls `Stat`,
`CreateContainer`, `Move`, `Delete`, `RestoreRecycleItem`, the two halves of an upload and so on,
each of which gives a status, what it tells and the tree it leaves. It has a set of ids to give out, and is full
when it has none left. It is external and marked so.

A request (`Requests`) is a goroutine: what it was asked, the step it is at, what it has learnt
from its calls (`seen`), what is left of its list, and its answer. A step of a handler is one
storage call with all the handler makes of its answer (`Call`). The call ends as the storage
has it, or with another status, or with a transport error, its effect there or not. `log`, a history
variable, holds what the storage did, which is not always what it answered. A bulk operation's list may be
empty; it is answered with success like any other.

Names are what these handlers get wrong most easily. A name is a sequence of the pieces between
the slashes in it: used as it is in a path it is as many segments (`Split`), escaped as
`escapeFolderName` does it is one (`Escaped`). A path that one call told and the next one uses
(`MoveObjects`, `CreateFolderByParentFolderID`, `RenameDocument`) is carried from step to step,
while others move the folder it leads through.

`DmsObjects` and `CmisObjects` are the handlers that change something, `ObjectReads` those that only
read, with what they take for "absent". `Import` is `ImportDocumentDynamic` with
`Reva.Upload`: the target, the initiation with its one retry, the simple upload, the TUS upload
after it, the id from the answer's header or from the look in the personal space, the index and the
mapping of the old id; and `VerifyMigration`. `Objects` puts them on one tree.

### Sessions

`cache` is the session cache, whose entries expire at any time; `Login` is the two modes with the gateway's answer as
one step and `Create` as the next; `SessionMiddleware`, `Authenticate` and the three ways of
`AuthMiddleware` take what they find and go on to use it in a later step. Tokens are the gateway's and can
end between any two steps. A password is right or not.

### AppConfigs, Shares

The handlers of `appconfig.go` hold one lock from their first file operation to the last, so each is
one step; a write that fails or is cut short leaves the old file, an empty or a torn one.
`FileOf` is `sanitizeFilename`: two ids can have one file. `Shares` is `ApplyACL`, `GetACL` and the
grant of a space: a Stat, then for each principal to remove a listing and a removal, then an addition
each, then a Stat for the owner and the listing of the shares, both of which are answered. Permissions are sets of what the
storage allows. The object may have shares from the start that other clients of the gateway made, and these go on making,
changing and removing some (`ForeignChange`), with sets of permissions that no role of the service has (`Foreign`). A removal
goes by the id of a share that was listed before: `gone` are those listed shares that are there no more, and
one made for the same grantee meanwhile stays. A call that fails has had its effect or not.

### TreeWalks, ObjectIds, MetadataKeys, QueryText, Queries

`TreeWalks` keeps the recursion as a stack of the folders being listed: the listing of each is one
call, between two of them others move folders. One walk stands for four pieces of code that
recurse alike and differ in depth, in what they keep and in how they name a folder (the crawl by its path).
`Over(p, n)` are the folders above a node and `Path(p, n)` is its path: which of them is in which. A folder the crawl asks
for where it no longer is has no children for it, and is no failure. The storage is a tree at the start
(`WalkBeginsWithTree`), and no folder is moved into itself, so it stays one.
`ObjectIds` takes an id as the characters it decodes to, `$`, `!` and another one; `Resolved` is the recursion of
`decodeObjectID` through the migration map. In `MetadataKeys` a key is a sequence of words, each in
one of three spellings; that Go tries the namespaces in no order makes the client key a set of
candidates. `Queries` has the parser as functions on tokens with the positions the code's index takes,
the listing, the predicates, the sort (any order with nothing behind what it comes before, since folders list in any order and
`sort.SliceStable` keeps that of equals) and the window with Go's wrapping integers; and the client, who takes page
after page. Any listings of a page may fail, and what lies below those folders is left out of it; any requests for metadata may fail, and
their objects are taken to have none. A resource `has` what the conditions look at and `shows` what the sort looks at, which is the object
made of it and lacks some of these properties. The folder of a statement may be no id, and is then refused. `QueryText` has the statements as clients write them: a form is a statement in its parts (columns, type, alias,
joins, the alternatives of WHERE with their conditions, the sort keys), `Text` writes it out in tokens and `MeaningOf` says what it means,
neither of them by way of the parser; `Fragments` are texts that break off before a type is named, and a condition
that lacks its sign makes a broken statement. The parser's loops over its index are recursive functions on the positions of a text
(`PastJoins`, `ParseWhere`, `ValuesFrom`, `ParseOrder`).

## 3 The runs and what they show

Run a model with `tlc -workers 2 -config <cfg> <module>` and a proof with `tlapm <module>.tla`.

| Run | Model | Result |
|---|---|---|
| `migration` | 3 goroutines, 2 GUIDs in 3 spellings, files keyed in lowercase; failing writes, crashes | holds, 54 thousand states |
| `migration_put_found` | the same with a file keyed in uppercase | `PutIsFound` is violated |
| `migration_crash` | 2 goroutines, 1 GUID | `CrashKeepsSaved` is violated |
| `cs3client` | 1 caller, the watcher, 5 connections, a gateway that comes and goes, `Close` | holds, 17 thousand states |
| `cs3_watcher_follows` | 1 caller, the watcher, 4 connections | `WatcherFollows` is violated |
| `workpages` | 2 requests at once, 1 listing of up to 3 elements, 5 WorkIDs, any page sizes, expiry, restart | holds, 243 thousand states |
| `checkout` | 2 requests at once, 5 lock ids, any call may fail | holds, 357 thousand states |
| `checkout_released` | the same with 4 lock ids | `SuccessMeansReleased` is violated |
| `aktenplan` | 2 runs at once, a plan of 4 nodes on 3 levels with a Vorgang, 2 spaces; any call may fail, any run may die | holds, 271 thousand states |
| `objects` | 2 requests: one of all operations, one that writes; a tree of 2 spaces, 2 folders, 3 documents and a deleted one; 2 calls fail. And 2 requests on the shares of one object, a user and a group, 1 failing call, 1 change by another client | holds, 1,514,966 states |
| `import_index` | the same tree, 1 failing call | `IndexOnUpload` is violated |
| `services` | six components in a scene of their own each | holds, 1,507,023 states |

### What the passing runs check

**migration.** `CleanMeansSaved`: when the map counts as clean, a restart brings back
exactly what is in memory. The exception is part of the statement: a process that could not read its file
has an empty map that counts as clean. `LossBound`: as long as writes succeed, the unsaved mappings stay below the batch
size plus one for each goroutine on its way to save; the code decides under the lock and saves after
it, so the plain bound "below the batch size" would be wrong. `PutIsFound`: with a file keyed in
lowercase (what the service itself writes), a put is found at once under the spelling it was made with. `SavesAreWhole`:
`Migration` implements `DurableMap`; a lock that covered the marshalling only would lose the mappings put
during the write, silently. `LimitLeadsToSave`: the limit leads to a save unless a write
fails or the process dies first.

**cs3client.** `OneOpen`: whoever reconnects over whom, no connection but the current one is open. `RetryIsElsewhere`: a retry never uses the
connection its first attempt broke on, although others may have reconnected in between.
`CallsEnd`: no caller is stuck behind the lock, the dial or its own retry.

**workpages.** `SuccessorContinues`: the answer to a WorkID begins where the answer that carried
it ends, for any sequence of page sizes, and also when two requests use the same WorkID.
`NoElementTwice`: unless two
requests found the same WorkID, no element is answered twice or still kept once answered.
`LoadedIsOfPage`: the count in an answer is that of its
own page although pages share the map it is written to. This holds because a page's WorkID reaches
the client after its encoding, so the pages of one listing are written one after the other unless
two requests find the same WorkID. `ListingEnds`: who follows the WorkIDs comes to the last page.

**checkout.** `ExclusiveCheckOut`: two check-outs are never both granted without a release in
between; the test of `GetLock` alone would not do, the status of `SetLock` decides. A
release that works with a lock read a call earlier does not release a later check-out's lock.
`AloneIsExact`: whatever failures and overlaps left behind, a request that runs alone without a failed call
leaves lock and metadata in agreement. `ReleasedUnlessFailed`: a cancel or check-in that
reports success without a failed call has not left the lock it began with.

**aktenplan.** `CleanRunIsComplete`: a run of which no call failed ends with the whole plan and all
metadata in its space, also when another run is half way through the same nodes and earlier ones
died between a container and its metadata. `SilenceMeansThere`: with failing calls too, what a run did not report is
there. `OneSpace`: there are two spaces of one name only if runs overlapped or a listing failed;
a run that dies after creating the space, or a creation whose answer is lost, does not cause one.
`RunsConverge`: once nothing fails any more, repeated runs reach the complete plan and it stays complete.

**objects.** Two requests step in between each other's calls. `OkMeansDone`: a success is answered
only if the call the operation is for was done by the storage. For an import that is the storing of
the document, in whichever of the upload's attempts. The handlers this holds for are listed (`Decisive`); `MoveObjects`,
`DeleteFolders`, `BinDocuments` and `RecoverObjects` are not among them, and for these
`BulkTriesEvery` says what they do promise: every item is tried, whatever came of the ones before.
`LandsWhereAsked`: what is created below an id, renamed, moved or imported is in that folder under the whole name
asked for, slashes included, although others move the folder meanwhile; this is what the
id-based references and `escapeFolderName` are for. `OnlyNamedChange`: an existing
object changes only by a request that names it or a folder above it, though paths from earlier calls may
by then lead elsewhere; what a request names is read off the request and off what the storage told it. `AbsentIsTrue`: the handlers that tell absence from
failure say "absent" only if the storage said so. `EachStepAdvances`: a handler comes nearer to its
answer with every step, so none goes round for ever; together with the check for deadlocks it takes the place of a
liveness property. *Shares,* a scene of their own (`ObjectsAndShares`): two requests step in between each other's calls, and another client changes shares between them.
`OnlyNamedShares`: the service changes a share only by a request that names its grantee, a group and a user of one name
apart, also when calls fail in the middle. `AclIsTrue`: an answer without failed calls has every share that was there
throughout, under its grantee and with the role its permissions are told by (`AclShowsShares`). It is not wider than the shares where these are
the service's own: who is shown a role, and is not the owner, may do all of it (`AclShowsNoMore`). Of a share another client made only this is promised:
it allows what the role is told by, upload, deletion and granting for `cmis:all`, upload or creation for `cmis:write`, and
nothing in particular for `cmis:read`. That it allows the rest of the role is not so (see 7). The owner is shown `cmis:all` without a share.

**services.** *Sessions:* `LogoutIsFinal`: a session that a `Logout`, or an `Authenticate` that refused, has
ended lets no request in that begins later. `TokensAreOwn`: a session's token was issued to the
session's user. `NamesAreProved`: a name with a password is only let in with the right one,
whatever token or session id is sent along. *AppConfigs:* `SavedIsRead`: a saved
configuration is read and listed until something is done to its id, whatever other files are torn. *Walks:* `StayersFoundOnce`: what stayed where it was, below
folders that stayed and could be listed, is found exactly once, at every depth down to the limit, whatever else was moved and in whatever order folders were listed. `StaysWithinDepth`: no walk
goes deeper than asked; one without a limit meets a folder inside itself no more often than folders
were moved, so it ends. *Ids:* `ResolvesToTheEnd`: a legacy id stands for the end of its chain of mappings; a
circle has none (the code's recursion does not end). `SameResource`: which ids each of the three
decoders gives back (`DecodesBack`), and that they agree on every id with at most one `!` (`DecodersAgree`). *Metadata:* `LastWriteIsShown`: what was written last is
what every login is shown, as long as those who write a field spell it alike and use one namespace, and nobody writes
a fixed field under two keys (its own and its storage key, say).
*Queries:* `ParsedAsWritten`: a statement without OR is understood as it was meant, with any joins and aliases; of one with OR
everything else is, and all the conditions of one alternative are read; what is broken or breaks off is refused.
`AnswersAreRight`: nothing is answered that was not asked for, unless its metadata could not be
read (`AnsweredIsAsked`; whatever listings failed, and for OR too, because the code takes OR for AND). The pages of a statement whose ORDER BY
decides between all objects, none of whose listings and metadata failed, repeat nothing and are in order, however the folders list
(`PagesAddUp`); if the statement has no OR, nothing is missing from them. Of a statement with OR that is not
promised, and not so (see 7). After a failed listing or Stat the pages may skip and repeat: the next page is cut from another result.

Each `TypeOK` also says what a label of `pc` implies for the locals (a request past a lookup has an
object; a run that walks has a space and a node). The runs check the type invariants of the modules that have no
proof. Those of the others are theorems, like a few more properties that the runs leave to the proofs: `SnapshotIsCurrent`
and `CaseInsensitiveLookup` of `Migration`, `StubIsCurrent` of `CS3Client`, `PagesAreFull`, `NextIsThere` (a WorkID that reached its client is
good until it is used, expires or the process dies) and `AnsweredIsGone` (it is good once) of `WorkPages`.

## 4 Bounds

| Bound | Where | Why it is enough |
|---|---|---|
| `PersistAt` = 2 (100 in the code) | `Migration` | one put below the limit, one at it, and with `MaxCount` puts beyond it while saves fail or wait |
| `MaxCount` = 5 | `Migration`, guard of `MapID` | `PersistAt` plus one for each of three goroutines: the whole of what `LossBound` allows, so the bound cannot hide a violation that is one step away |
| 2 GUIDs, 2 ids, 3 spellings | `LegacyKeys` | mappings of different GUIDs do not influence each other; two of them tell a whole map from a part |
| `Conns` | `CS3Client` | each goroutine can refer to one or two, one is current and one is free to be dialed; an unreferenced one is used again, so runs are endless |
| `WorkIds`, `IdsLeft` | `WorkPages`, guard of `GetFolder` and `WorkFound` | a listing of three elements in pages of one uses two ids; five leave room for the forks two requests with one WorkID make |
| `MaxItems` = 3 | `WorkPages` | folders and documents on both sides of a page boundary, a boundary between them, empty parts, pages of 1 to 3 and "everything" |
| `LockIds` | `Checkout` | one per request, one set, one marked, one free; an unreferenced one is used again |
| 2 requests | `WorkPages`, `Checkout` | the overlaps that matter are of two requests; the proofs cover any number |
| `Roots` = 2, guard of `ListFailed` | `Aktenplan` | enough for a second space; a listing fails only while every run that may create a space can |
| 2 requests, 2 failing calls | `MCObjects` | the first request is of every operation, the second writes; a failure before and one after a call's effect; a third request adds no new pair |
| 2 free ids | `MCObjects` | each request creates at most one object |
| `MCTree` | `MCObjects` | a document of one name in two spaces, a folder to move into and one to move, a deleted document whose folder can go |
| 2 requests, 2 users, 2 session ids, 2 tokens | `Sessions` | a session that ends and one that stays, of two users; proved for any number |
| 3 ids, 2 files | `AppConfigs` | two ids that share a file and one that does not |
| 2 callers, a user and a group of one name, `MaxFailures` = 1, `MaxForeign` = 1, `Foreign` = the three signs of `cmis:all` alone, and no permission | `Shares` | the principals that are most easily confused; shares of another client from the start, and one that it makes or removes in between; a share removed and made again between a listing and a removal; the least that is taken for everything. Proved for any number of failures and changes and any permissions |
| a chain of 3 folders, one beside it, a file; 2 moves, 1 failure; depth 3 for 10, 4 for 20 | `TreeWalks` | a folder moved below itself's place twice, a limit inside the chain, none, and the default |
| ids of up to 3 characters, 3 legacy ids | `ObjectIds` | two separators in every order and a third sign; circles of one, two and three |
| 3 writes, 4 logins, 6 keys, 3 namespaces | `MetadataKeys` | a fixed key and its storage key used as a key, two logins of one namespace and of two, both letter-case settings, a login whose namespace is gone |
| 3 objects, one of them in a folder below the folder searched, the statements of `MCForms` and `MCFragments`, `MaxInt` = 7; no bound on failed listings and Stats | `QueryText`, `Queries` | every clause and form of condition, with every order; pages of one, two and of a size that overflows; a listing cut short below the top; an order by a property that only folders show; proved for all statements |
| 4 nodes | `Aktenplan` | a parent, a child after a refused sibling, a refused node and its child |

The safety properties of `migration`, `cs3client`, `workpages`, `checkout`, `aktenplan`, `objects` and
`services` are also proved for every value of the constants, so
there the bounds matter for liveness only.

Symmetry is used over requests and lock ids in the `checkout` runs and over the requests, session ids and
tokens of `services`; never in a run with a liveness property.

## 5 Fairness

- `Migration!FairSpec`: strong fairness for a goroutine that waits for the lock, because Go's
  `sync.RWMutex` does not let later readers and writers overtake a waiting writer forever; weak fairness for the
  file write, which returns. Nothing forces a put, a save by hand, a crash or a restart.
- `CS3Client!FairSpec`: the same for the lock; weak fairness for the dial (`grpc.NewClient` does not
  wait for the network, it fails only for an address it cannot parse) and strong for the steps of a
  call and of the watcher, which need the lock or an event. Nothing forces the gateway to fail or to come back.
- `WorkPages!FairSpec`: weak fairness for a request that was begun, and for a client that asks for
  the next page it was promised; the property excuses lost answers, expiry and restarts.
- `Aktenplan!FairSpec`: weak fairness for the steps of a run and for beginning it again: somebody
  repeats the command. The property is about the behaviours in which disturbances end.
- `Checkout`, `Objects`, `Shares` and the components of `MCServices` state no fairness: their requests are finite
  series of calls. For `Objects` that is itself a property (`EachStepAdvances`).

## 6 The proofs

The eight `*Proofs` modules prove, for every value of the constants that the named assumptions allow, what the
runs show on a small instance. TLC agreed first: with the properties on every run, and with the inductive invariants that are
hard to see through (those of the modules with an `IInv`, of objects, pages and walks) on the runs' instances. Most modules are laid
out in the same way: the inductive invariant (`IInv`), that `Init` implies it, type correctness of every step, one lemma per
action, its invariance, and then one theorem per property. `ObjectsProofs` and `ServicesProofs` have one
per concern.

What the proofs assume of the constants:

| Assumption | Says |
|---|---|
| `MigrationAssumption`, `KeyAssumption`, `CS3Assumption`, `WorkAssumption`, `CheckoutAssumption`, `SessionConstants` | names that stand for "none" are no members; limits are numbers; the threads of `Migration` are finite |
| `PlanAssumption`, `WalkAssumption` | the plan is a finite forest, and `Order` visits a parent first |
| `FaultBound`, `FailureBound` | the bounds on failing calls and on other clients' changes are numbers |
| `StoreIds`, `ImportIds` | the storage's root, "no id" and the zero id are no ids of objects; the personal space is one |
| `StartsWithTree` | the storage begins with well-formed nodes |
| `AskedById` | an id in a request stands for one object; it has no path below it |
| `ConfigConstants`, `NoSuchConfigs` | each id has a file; a torn and a missing file are no configurations |
| `WantedRequests` | a request on shares is two finite lists of principals and entries, and a grant adds somebody |
| `IdConstants` | clients give finitely many ids, the legacy ones among them; the signs of a decoded id include the separators |
| `QueryConstants` | values are ranked, "no value" first; there are finitely many objects, no more than an `int` counts; page sizes are such numbers too |
| `FormsOK` | the parts of a statement: at least one column, no FROM among them; an alias is at most one word and none the parser knows; what a JOIN is ON has no word that begins a clause; a property is no connective and no scope; the values of a list are no comma and no bracket (quoted ones are not, in the code); each operator has the values it takes; a search names one place, whichever alternative holds |
| `FragmentsOK` | a fragment does not begin with SELECT, or names no type |
| `KeyConstants` | a key has a piece at least; there is a default namespace; "no value" is no value |
| `WalkConstants`, `WalkBeginsWithTree` | finitely many nodes, depths are numbers, every node is in a folder, the root or outside, and no folder is below itself |

| Module | Proved | The argument |
|---|---|---|
| `MigrationProofs` | `Typing`, `CurrentSnapshot`, `CleanMapIsSaved`, `BoundedLoss`, `Refinement`, `CaseInsensitive`, `PutFound` | That the file equals the map when a write ends needs a current snapshot, which needs the writer to be alone, which needs lock and labels to agree (`LockInv`, `DirtyInv`, `SavedInv`). For the bound, a goroutine that takes the counter to the limit is on its way to save, and only the one that resets it leaves. The last two are theorems under the assumption that the deployed file is keyed in lowercase; without it `PutIsFound` is false. |
| `WorkPagesProofs` | `Typing`, `NextBatch`, `FullPages`, `NextIsKept`, `AnsweredOnce`, `AnsweredApart`, `MapOfThePage` | Every object in the cache or just taken from it is an unanswered end of its listing (`PieceInv`); paging cuts such a piece in two without a gap (`PageSplit`). Whatever comes from a WorkID begins where the page that announced it ends (`Linked`), since an id is generated once. For the last two: as long as no WorkID was found by two requests, everything answered of a listing lies before its one unanswered piece, which one holder has (the cache or a request); that holder is the only one to write the listing's shared map. |
| `CheckoutProofs` | `Typing`, `Exclusive`, `ReleasesHold`, `AloneExact` | A lock id on its way to `SetLock` belongs to nobody else, so a lock that is gone does not come back (`FreshInv`). A check-out between `SetLock` and its answer is the lock or was released (`GrantInv`); a release past its `GetLock` does not find the old lock again (`GoneInv`); a request that is alone can rely on what it read (`AloneInv`). |
| `AktenplanProofs` | `Typing`, `CleanRuns`, `Silence`, `SingleSpace` | What a run leaves behind is there or reported (`BehindOK`); in a clean run it has its metadata or is out of reach for good (`CleanOK`), because a node out of reach is slashed or below another one behind the run, and other runs cannot make it either. Uses that `Walk` visits parents first. |
| `CS3ClientProofs` | `Typing`, `NoConnectionLeaks`, `StubsAreCurrent`, `RetriesGoElsewhere` | While somebody dials everything is closed (`DialInv`), because the dialer holds the lock and closed the current connection, the only one open (`LockInv`). A broken connection is not the current one until its caller has retried (`BrokenInv`): a dialed connection is one that nobody refers to. |
| `ObjectsProofs` | `ObjectsTyping`, `SuccessIsDone`, `LandsByTheId`, `AbsenceWasTold`, `EveryItemTried`, `HandlersAdvance`, `NamedChange` | Everything is said of one request (`JobOK`), because a step of one leaves the others alone: what its step and list can be (`Base`), that its list is the rest of what it was asked and the items before it are in its history (`BulkOK`), that past its decisive call the history has that call, at the place and under the name asked (`DoneOK`), that "absent" was told (`ToldOK`), and what it remembers of earlier calls (`Recalls`). Each handler keeps its own request's part. For `NamedChange` a second invariant (`MemInv`) says that every id a request goes on with was told to it by the storage and is in its history; then each call of the storage is shown to change only what its reference resolves to, what it creates, and what is below. |
| `ServicesProofs` | `SessionsTyping`, `LogoutFinal`, `OwnTokens`, `ProvedNames`, `ConfigsTyping`, `SavedConfigs`, `SharesTyping`, `TrueAcl`, `NamedSharesOnly`, `IdsTyping`, `OneResource`, `ResolvesFully`, `KeysTyping`, `LastWriteShown`, `WalksTyping`, `DepthIsKept`, `StayersFound`, `Composition`, `ServicesTyping` | One invariant per component; see below. |
| `QueriesProofs` | `QueriesTyping`, `ParsedRight`, `RightAnswers` | The parser on every statement, then the pages; see below. |

The components of `ServicesProofs` and `QueriesProofs`:

- *Sessions:* a session id that ended was issued and is not in the cache, and `Create` takes one that was not
  issued (`CacheOK`), so it never comes back; a request that began later cannot have found it (`NotLate`). A
  request's session, wherever it came from, has a token owned by its user (`RequestOK`); one that gave a name
  has got past the password (`Proved`).
- *Configurations:* a saved one is in its file until its id is written to (`KeptIsStored`).
- *Shares:* what a request knows to have been there since it began is still there, because every change of a share takes it from what the
  requests know (`KnownShared`); so it is in the listing, and what is answered without failed calls has it as it is (`TrueAnswer`).
  Which permissions a role can be told by is a question of two tables (`Honest`, `ToldIsHonest`), and what the service itself grants covers the role it is told by.
- *Ids:* resolving is bounded by the number of ids, since the first steps of a chain that ends are different
  (`ChainIsLeast`, `EndsWithin`); encoding puts the separators where each decoder looks for them.
- *Metadata:* the storage has under each of its keys the last value written there (`KeysInv`). Of two prefixes
  of one key one begins with the other (`PrefixesNest`), so with namespaces apart a stored key is taken back
  to what was put behind the prefix, whichever namespace is tried first (`OthersShow`); what shows a field was
  therefore written through that field (`ShowsTheField`), and if everybody used one key and one namespace it
  is one storage key.
- *Queries, the parser:* `StatementParsed` says of every statement of the grammar that it is understood as meant. The text is
  laid out in pieces, one for SELECT, FROM, each JOIN, each condition and each key, and where a piece begins is told by its first word
  (`TextLaid`, `HeadsAre`). The loops are functions of a position whose value is made from that of a later one; that there
  are such functions (`FromTheEnd`) gives the equation of each (`PastJoinsAre`, `ParseWhereAre`, `ValuesFromAre`, `ParseOrderAre`). Then, from the
  end of a clause to its beginning: a JOIN, a condition, a list of values, a key is read from its first token to
  the first of the next (`JoinRead`, `ConditionRead`, `ValuesRead`, `OrderKeyRead`), and so is the clause (`JoinsRead`, `WhereRead`,
  `OrderRead`). Nothing the code skips or takes for an alias is a condition: that is what `isKeyword` and the order of its tests are for, and where
  the parts of a statement must differ from words the parser knows, `FormsOK` says so.
- *Queries, the answers:* with a total order two sorted lists of the same objects are the same, because where they first
  differ each would have an object the other has further back (`SortedAlike`). Without failures every page is therefore cut from one answer, in
  whatever order folders list, and what the client has is its beginning (`InOrder`); a page begins
  where the last one ended, unless its end overflows (`WindowIs`). With failures a page has some of what matches and, of
  objects whose metadata was not had, what would not.
- *Walks:* `DepthIsKept` remembers for each open folder how many moves there had been when it was listed;
  between two listings with no move in between, the folders are nested in the tree, so a folder can come twice
  only with a move in between (`Listed`, `NoCircle`). `StayersFound` follows one node nobody touched
  (`StayInv`): of the folders on the way to it and itself at most one is still to be visited (`Single`);
  visiting it puts the next one in its place, because the listing has all that is in it, or is the node itself
  and counts it (`Once`); a move touches everything below what is moved, so the way to what is not touched
  stays.
- *All together:* `Services` lets any of them but the shares act and leave the others' state alone. `Composition` says that a
  behaviour of `Services` is one of each component's specification, so every theorem about a component alone
  holds of it there, and with it what the run of `MCServices` checks; `ServicesTyping` is the first such consequence.

Three techniques recur. The prover cannot use the library's induction theorems, so inductions on numbers are made by
looking at the least counterexample (`LeastNat`), and those on a tree by a set of nodes none of which has what the one above it has
(`FromAbove`). A request, a frame or a page is taken apart into its fields once, by a lemma, and put together
again by one (`Parts`, `Shape`, `WalkShape`). Where many handlers share a way of going on, the lemma is about that way.

Only model-checked: the liveness properties (`LimitLeadsToSave`, `CallsEnd`, `ListingEnds`,
`RunsConverge`), since TLAPS does not reason about fairness and ENABLED, and that `Walk` visits parents
first for every forest, which is an induction over trees and is evaluated on those of five nodes.

## 7 Where the code does not do what it says

Each of these is a run that TLC ends with a counterexample, listed under "findings" with the lines it contradicts.

1. `migration_put_found`: a preloaded entry with an uppercase key survives a put of the same GUID, and
   the uppercase id goes on finding the old entry. Preload the file in lowercase.
2. `migration_crash`: `Persist` says "atomic via temp file" and writes in place. A crash in the
   write loses the whole file, earlier saves included.
3. `cs3_watcher_follows`: the watcher can end up waiting on a closed connection and then
   watches no later one. Callers still reconnect for themselves.
4. `checkout_released`: a failed `GetLock` is taken for "no lock", and a cancel or check-in is
   answered with success while the document stays locked.
5. `import_index`: an upload answered without an id is followed by a look for its name in the personal
   space, whatever its target was; the index is written to, and the old id mapped to, what is found there.

Others were met while modelling. The models have them, and where a property would not hold because of one
it says so or leaves the operation out:

- A retry after a reconnect can be made on a connection that the next reconnect closes, which closes whatever is
  current; there is no further attempt. The page size of a listing's first request does not carry over to the
  next pages, which have their own or all the rest. A release's clear can remove the metadata of a check-out granted meanwhile
  (repaired by the next request that runs alone, `AloneIsExact`).
- A Vorgang or Band of a plan, whose Kennung contains "/", cannot be created and takes its children with it
  (`CanExist`; the run reports them). Two overlapping runs, or one whose listing fails, create a
  second space of the same name (`OneSpace`).
- `MoveObjects`, `BinDocuments`, `DeleteFolders` and `RecoverObjects` answer ok whatever status the
  storage gave (`BulkTriesEvery` is what is left). `MoveObjects`, `CreateFolderByParentFolderID` and `RenameDocument` use a path an
  earlier `Stat` told and do not escape slashes, where `RenameFolder` and CMIS `move` go by id.
- CMIS `createFolder` for a parent given by path drops the path (`object.go:113`). `updateProperties` by path with a new name goes on with the
  old path, and answers an error or changes what is there now (`object.go:175`). `createDocument` onto
  a name that exists overwrites it, and without content answers 201 with nothing created (`object.go:90`).
- `ExistObjectId`, `IsFolder`, `IsDocument` and others say "no" in an outage. `VerifyMigration` reports no issue for an id that does not
  decode, such as the zero GUID a failed look-up leaves in the map.
- A circle of mappings, which `MapMigrationID` accepts, ends the process (`ResolvesToTheEnd` speaks of it). The three decoders differ on ids with
  two `!`, although `reva.go:332` says "Same format as handlers.decodeObjectID".
- `Authenticate` ends a session when the gateway cannot be reached. A login without a password is one of the service account.
  `Logout`, `ImportDocumentDynamic` and the upload slice ids for their log lines and panic on short ones.
- `ApplyACL` drops its failures, and `GetACL` says an ACL is exact when shares could not be listed. It rounds other clients' shares up: for `cmis:all` it asks for upload, deletion and granting, so that a share of these without `CreateContainer`, `Move` and the
  rest is shown as `cmis:all`, although `acl.go:163` says "all write+delete+share permissions"; a share that may upload but create nothing, or create but not upload, is shown as `cmis:write`, one without any permission as `cmis:read` (`acl.go:157`). Configuration files are written in place, and
  ids that differ in characters a file name may not have share one (`SavedIsRead` is about the others), so that the later save wins, although
  `appconfig.go:15` says each is stored in its own.
- CMIS-QL takes the AS of `FROM t AS d` for the alias and then ignores every clause (`query.go:212`); a property with an alias in front of it (`d.cmis:name`) is
  looked for under that whole name, which no object has (`query.go:506`): `PastAlias` and `getPropertyValue`.
- CMIS-QL reads OR as AND and ignores NOT, although `query.go:33` and `:135` speak of OR: a statement of two alternatives is answered with what both hold of. A listing that fails is an
  empty answer, and that of a subfolder of IN_TREE a shorter one, both with 200 (`query.go:64`, `:446`): the page is cut from what is left, so the next one
  repeats or skips if the folder lists again. Folders more than ten levels down are never listed (`query.go:63`). Unreadable metadata makes IS NULL match; `maxItems` of 0 announces more for ever, a huge one panics.
  ORDER BY looks at the answered object, where conditions look at the resource (`query.go:604`, `:484`): a condition on the `cmis:path` of a document holds or not, but
  documents have none to be ordered by.
- Two namespaces, or two spellings kept apart, under one client key show one of their values, any one
  (`mapping.go:109`), and so does a fixed field next to its storage key, "oy.subject", used as a key where a namespace shows keys as stored
  (`metadata/defaults.go:9`); overlapping prefixes make the key itself depend on the order of a Go map.
- Most handlers read the stub without the lock it is written under (`folders.go:55`); a `Close` followed by the watcher's reconnect opens a
  connection nobody closes (`client.go:77`). `checkIn` and `cancelCheckOut` do not ask whether the caller holds the lock (`versioning.go:145`).
  A WorkID is deleted before its answer is sent, so a lost answer loses the rest of a listing.
- A crawl that asks for depth 0 gets 20 levels although `api.go:22` says "0 = unlimited"; a subtree it
  cannot list is written out without children.

## 8 What is not modelled

- The storage itself: what `Stat`, `SetLock`, `CreateContainer` and the rest do is modelled as far
  as the code relies on it and marked external. That a container needs its parent and that a locked
  document refuses a second lock are assumptions about it.
- In `Migration` to `Aktenplan`: progress figures, logging, output; gRPC's retry policy inside one
  call; the time to live of work objects as a clock (an object may expire at any moment); dry runs
  and authentication failures of aktenplan-apply (they change nothing).
- In `Objects`: the refinement of an upload's error into 403, 409 and
  503 (all are 500 here); `VerifyMigration` with more than one id; an upload session creates the file with
  its bytes, not before; the WebDAV uploader (`upload/webdav.go`), which a configuration can take instead of
  `Reva`; handlers that answer with constants.
- In `Queries`: the tokenizer, which takes quoted values, signs and words apart (statements are sequences of tokens), and the character work of
  LIKE (which pairs match is a constant); a `NOT` in front of a condition, which the code skips; words in both spellings, which it takes for one; the columns and joins, which
  it never uses. A statement with both IN_FOLDER and IN_TREE is read, and what lies in both is up to `Resources`.
- Plan files (`schema/tree.go`, the readers of `extract/`): pure functions of text, checked by unit tests.
- `system.go:135` reads two counters of the migration map in two lock sections; the difference is
  only displayed.
- Configuration, routing, start-up, fixed answers, type definitions, the web extension and the
  deployment files: no state, or not a program.

## 9 The plan

The components with state of their own and the handlers with more than one storage call are modelled. What would add most, in order:

1. An abstract specification of `Objects` in which a request is one step, and the refinement for the
   handlers that make a single storage call.
2. The WebDAV uploader as a second way through `Import`.
