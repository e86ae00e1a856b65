# Verification of notevault

TLA+ models of notevault's core, TLC runs that check them on small instances, and
TLAPS proofs of their main properties for every instance. `PROJECT.json` lists the
components, the runs, the mutants each property catches, the source lines of every
definition, the findings, the hazards and the theorems.

## 1. The system

notevault is an HTTP service (gin) that keeps users' files in an S3 bucket, an index of
them and the share links in a database (gorm), and cached share records in a key-value
store. Every request runs in a goroutine of its own; nothing in the services locks
anything, and all coordination is left to the database and the stores.

| component | state | operations | correct when |
|---|---|---|---|
| share service (`service/shares.go`) | `shares` table, key-value entries `shares:v1:*` | create, delete, list, detail, access, download, permissions, update, add and remove user | only owners change a share; an expired share is never served; the cache shows the table, or is behind it for a bounded time |
| file operations (`service/files_operations.go`, `files_folder.go`, `file_helper.go`, `files_upload.go`) | objects of the bucket | upload, delete, copy, move, create / rename / delete folder, update metadata, download | nothing is lost but by deletion or overwriting; users reach their own objects only; every request ends |
| file versions (`service/files_versions.go`) | object versions | list, create, delete, restore | a restore brings back the version asked for |
| metadata index (`service/files.go`) | `files` table | synchronise from the bucket, search | the index converges to the bucket |
| key-value stores (`storage/kv`) | entries with a TTL | get, set, delete, exists, keys | an expired value is never got; a get shows the last set, but for groupcache, whose copies outlive one |
| generic cache (`pkg/cache`) | entries of a store, stop channel | get, set, get-or-set, clear, cleanup, close | no fresh value is dropped; the cleanup goroutine ends |
| response cache (`middleware/cache.go`) | entries by request | lookup, asynchronous store | a response is served to requests it answers, in order |
| rate limiter, circuit breaker (`middleware`) | limiters by client; breaker counts | admit, reset, trip | no client exceeds its rate; an open breaker lets nothing through |
| message queues (`storage/mq`, `pkg/queue`) | subscriptions, closed flag | publish, subscribe, close | a subscriber gets the messages of its topic until it closes |
| storage manager, application (`storage/storage.go`, `pkg/app`) | clients, servers, signal goroutine | start, run, shut down | shutdown reaches every part; a failed start is reported |
| configuration (`pkg/configs`) | the global configuration | load, hot reload | readers see a whole, valid configuration |

Handlers call the services directly; the services call the database, the key-value store
and the bucket through clients the storage middleware puts in the request's context. What
is modelled falls into six families that share little: shares (database and key-value
store), file operations (bucket), versions, downloads and index (bucket with versions,
database, the cache of the search), the caches (key-value stores), the message queue, and the
process itself with its configuration. Shares only read the bucket; the search treats its
cache as entries that come and go, which is all it relies on of the stores; and the
process treats the services as requests that hold a storage manager open.

What is hard, and what the hazards in `PROJECT.json` list line by line:

- *interleavings*: read-modify-write of permissions, a cache fill that races a write, two
  moves that cross, a list that is out of date when it is worked through;
- *partial failure*: dropped cache errors, a copy without its removal, a database write
  whose reply is lost, a process that dies between two calls;
- *time*: TTLs computed at one moment and started at another, and 0 meaning both
  "expired" and "for ever";
- *shared Go values without a lock*: the list of vary headers that each request sorts, the
  subscription field and the connection behind it, the global configuration;
- *stale copies*: the group cache of groupcache, the default store, which no write clears;
- *what a process can do once*: register a group and the collectors of its metrics, which
  each restart of the app does again;
- *lifetimes of goroutines*: cleanup, subscribers, servers, signal handling.

## 2. The modules

| module | models | state |
|---|---|---|
| `ShareRecords` | requests, records, rows, key-value entries, and the helpers that only compute (TTL, hash, grants) | none |
| `ShareRegistry` | what the share service promises: one table, changed at most once per request, in one step, by owners | `rows`, `stage`, `call`, `since`, `clock` |
| `ShareService` | `service/shares.go`, one action per call to the database, the cache or the clock | `clock`, `db`, `kvType`, `kv`, `hot`, and per request `pc`, `call`, `since`, `rec`, `ttl`; auxiliary `disturbed` |
| `MCShareService` | constants for TLC | |
| `ShareServiceProofs`, `ShareRegistryProofs` | theorems about `ShareService` and about its refinement of `ShareRegistry` | |
| `ObjectStore` | keys and the bucket, as the code uses it (external) | none |
| `FileCalls` | what clients ask of the file service, and the checks and paths computed from it | none |
| `FileCustody` | what the file service promises: an object is removed only under a licence for its key | `bucket`, `call`, `asking`, `licence` |
| `FileService` | uploads, batches and folder operations, one action per call to the bucket | `bucket`, and per request `pc`, `call`, `todo`, `moving`; auxiliary `uploaded`, `spent`, `raced` |
| `MCFileService` | constants for TLC | |
| `FileServiceProofs`, `FileCustodyProofs` | theorems about `FileService` and about its refinement of `FileCustody` | |
| `VersionedBucket` | a bucket with versions and delete markers, and the calendar (external) | `hist`, `last`, `today`; auxiliary `made` |
| `FileVersions` | versions, metadata updates and downloads, one action per call | adds `job`, `work` |
| `FileIndex` | synchronisation and search, composed with `FileVersions` | adds `rows`, `cache`; auxiliary `told` |
| `MCFileIndex`, `FileIndexProofs` | constants for TLC; theorems | |
| `ExpiringMap` | what the cache promises over each store: one map whose entries live for a time | `now`, `copying`, `map`, `copy`, `task`, `swept` |
| `TTLStore` | the four key-value stores: what one call does | `kind`, `data`, `hot`, `now`, `shut` |
| `GenericCache` | the cache over a store, and its cleanup goroutine | adds `op`, `work`, `cleaner` |
| `ResponseCache` | the middleware, composed with other users of the cache | adds `req`, `vary`; auxiliary `overlap` |
| `MCResponseCache`, `ResponseCacheProofs` | constants for TLC; theorems, also of the refinement of `ExpiringMap` | |
| `RedisSubscriber` | the Redis client of the message queue, and the broker (external) | `metrics`, `sent`, `conn`, `count`, `goro`, `chan`, `relayed`, `cancelled`, `closer`, `closeCh`; auxiliary `got`, `late` |
| `MCRedisSubscriber`, `RedisSubscriberProofs` | constants for TLC; theorems | |
| `AppSupervisor` | what the process promises of its apps: one storage open at a time, closed only when nothing uses it | `ended`, `asked`, `gen`, `open`, `on`, `late` |
| `AppLifecycle` | main goroutine, watcher of the configuration, servers, signal goroutines | `file`, `event`, `watcher`, `config`, `restart`, `main`, `apps`, `app`, `registered`, `req`; auxiliary `signals`, `accepted`, `late`, `built` |
| `MCAppLifecycle`, `AppLifecycleProofs` | constants for TLC; theorems, also of the refinement of `AppSupervisor` | |

### ShareService

A request slot is a handler goroutine. `StartCreate`, `StartDelete` and `StartCached` are
the entries of the handlers; the other actions are named for the call they stand for:
`InsertRow`/`CacheNew` (CreateShare), `FindRow`/`DeleteRow`/`Invalidate` (DeleteShare),
`KvGet`/`CheckHit`/`Drop`/`DbGet`/`CheckRow`/`Fill` (getShareCached, which all others go
through), `Use` (the checks after it), `UpdateRow`/`Refresh` (permission changes).
`ListShares` changes nothing and is an operator. Choices worth knowing:

- *Stores.* `kvType` is groupcache, the default, or another. The operators of `TTLStore` are
  not used here because the entries are another's, but the two agree: a groupcache look-up is
  shown `hot`, the copy the group keeps, before `kv` (`Shown`), and leaves a copy
  (`KeepCopy`); `kvSet` and `kvDel` change `kv` only. `Evict` drops a copy or an entry.
- *Failures.* The cache's errors are dropped: every call to another store than groupcache, which
  is in the process, may do nothing. A database error ends the request, and the write may
  have been made.
- *Restart* drops all requests and copies; the entries are lost (memory) or kept (a server).
- *Identifiers.* `newShareID` draws from an unlocked entropy source, so two creates in
  flight may draw the same one; one that is stored does not come back.
- *Data.* The whitelist is a set; `hashPassword` is injective on passwords that are not
  blank; of `object_keys` only none, one or several is kept. Times are naturals and 0 is
  "no time", as the nil expiry and the missing TTL wrapper are in the code.
- *`disturbed`* marks the shares on which requests overlapped with a writer or a write
  was lost. `CacheCoherent` promises nothing of them, because the code does not, and nothing
  of groupcache, with which one request after the other is shown what was there before
  (`share_deleted_cached`). `CacheFaithful`, `ExpiredNeverServed` and `ChangedEntriesExpire`
  hold for all shares and over every store, of the copies as of the entries.

### FileService

A key is a sequence of segments, the user first; the marker of a folder ends in an empty
segment, as `user/docs/` does. `Start` takes a call; a batch then works on its items and
a folder operation first looks its marker up (`FindFolder`) and lists what it works on
(`ListFolder`). `DenyItem` is the prefix check, `PutItem`, `RemoveItem`, `CopyItem` and
`RemoveSource` the calls to the bucket, `Finish` the response. Choices worth knowing:

- *Order.* Items are a set worked on in any order: batches come in the client's order,
  listings in that of spellings the model does not have. Duplicates in a batch make no
  difference to the bucket. A listing is taken at one moment; listings of more than 1000
  keys are read in pages by the client library and are not modelled as such.
- *Failures.* Any call may fail. A client that goes away cancels its context, which makes
  the remaining calls fail. `MaxLength` bounds a key the way S3 does, so that a copy can
  fail for a reason of its own.
- *Contents.* Every upload has a content of its own, so that a lost one can be told; a
  marker has the empty content. `UpdateFilesMetadata` copies an object onto itself and
  changes no content; it is in `FileVersions`, which has metadata. Presigned uploads are
  made by the client with the same effect as `PutItem` and are left out.
- *`spent`* holds the contents a request deleted or wrote over; *`raced`* the requests
  whose item another one changed between copy and removal. Such a move may remove the
  last copy: the code has nothing against it, and `NothingLost` says so.
- *`FileCustody`* forgets batches, failures, the order of items and the steps between them. It
  keeps for each request the keys it may remove, its licences: those the client named
  (`Accept`), those the one listing of the folder showed (`Survey`), or the source of the
  copy just made (`Duplicate`). `Discard` uses a licence up, `Waive` gives some up, and
  `Crash` ends them all. In `FileService` the licences are the sources of the
  permitted items still to do, or the item in `moving`. A licence is for a key and
  not for what is there when it is used, which is as much as the code can promise.

### VersionedBucket, FileVersions and FileIndex

`hist[k][n]` is version `n` of key `k`: an object, a delete marker or nothing; version
numbers are drawn from one counter. A slot is a handler goroutine. Requests that make one
call (upload, delete, `UpdateMetadata`, the three operations on versions) are one action,
`BucketWrite`; those that make several occupy a slot: `ListVersions`/`StatVersion`/
`VersionsDone`, `Download`/`Open`/`ReadBody`, `StartSync`/`SyncOne`/`SyncEnds`, and
`StartSearch`/`CacheHit` or `Query`/`FillCache`. Choices worth knowing:

- *Versions* are taken to be on in the bucket; without them the service's version operations
  answer errors. A listing is one snapshot, as in `FileService`.
- *`UpdateMetadata`* replaces all metadata, so a content type that is not given is lost.
- *Dates.* A key has the year and month of its upload, an object the day; `HasPrefix` and
  `OfDay` are the prefix and the filter the synchronisation computes, `Meant` is what
  the comment on it says each combination of year, month and day stands for. A month
  without a year lists everything in both; a day without a year or a month is refused.
- *The table.* `Upserted` is the upsert with its columns; on SQLite. (On PostgreSQL
  the statement names a reserved word and two tables' columns alike; that is not looked at.)
  No operation removes a row, so rows of deleted objects stay, and an overwritten file keeps
  the annotations of the one before. Who writes annotations is not in the repository:
  `Annotate` is what the comment on the upsert says of it.
- *Search.* Paging, sorting and the separate count are left out; the cache may drop anything.
- *History.* `made` is what each version was when it was written; `told` the last annotation
  of each row; a job carries what it should bring (`meant`), whether another ran
  beside it (`alone`).
- *Downloads* are modelled, and no property is stated of the headers and bytes of one: `Open`
  (StatObject) and `ReadBody` (the first read) are two steps, between which any write may come,
  so that they may be of two versions. Nothing in the code or a document forbids it.
- *Versions in the table.* `modified` stands for the time of an object's last change, by which rows of one
  key are told apart; the column for the version's identifier stays empty, as the listing the
  synchronisation uses does not ask for versions.
- *`CreateVersion`* with a content type or user metadata replaces all metadata: what is not given
  is lost.

### TTLStore, GenericCache and ResponseCache

`kind` chooses the store; `data[k]` is an entry with when it was stored and how long it lives,
`hot` the group cache in front of groupcache's map. Operations of the cache are in `op[p]`:
a read is `Load`, `Check`, and `Drop` if what it found had expired, so that the key may
hold something else by the time it is removed. Requests of the middleware first build their
key (`Sort`, `ReadFirstName`, `ReadSecondName`), then read the cache, and on a miss run the
handler (`Write`) and store from a goroutine (`ProcessAndStore`). Choices worth knowing:

- *Time.* `Second` ticks make a second: the wrapper of `ttl.go` keeps whole seconds, Redis and
  the cache's own deadline do not.
- *Sorting* is a data race on a slice of strings. A read or write of a name is one step;
  torn string headers are not modelled. `overlap` says that two requests met while
  the list was out of order; before and after that the order is fixed.
- *Keys* are records: the hash is taken to be injective and the query is constant.
- *Capture* counts bytes. The capturing writer has a `Write` of its own and inherits
  `WriteString`, so that what a handler passes to the latter reaches its client and not the
  body that is stored (`direct`). `ServedWhole` is of handlers that use `Write` alone.
- *Peers* of groupcache may be configured, but no handler of theirs is installed: a fetch from one
  fails and the group loads the value itself, which is what the model has.
- *Cleanup.* Listing with the pattern `*` finds something in Redis only: the other stores
  compare the pattern with each key as it stands (`AllKeys`). The goroutine may wait for
  ever on the channel `Close` set to nil, so nothing is claimed of its end.
- The router does not install the middleware; it is modelled as its own comments show its use.
- *`ExpiringMap`* forgets the kinds of stores, the wrappers, the failures and the goroutines of
  requests. Its `map` is `data` and its `copy` is `hot`, which only groupcache fills (`copying`);
  a client's `task` is what is left of the operation in its slot: a read, the entry it has, a
  removal of what had lapsed, a write, or keys to remove. `swept` is the key the cleanup is
  about to drop. A read takes one step, from the entry or its copy; what lies between an expiry
  seen and the removal it leads to is kept as two, as no store has them in one.

### RedisSubscriber

`conn[i]` is the connection the `i`-th `Subscribe` made; the field of the subscriber holds the
last. A goroutine is `Selecting`, `Receiving(j)` or `Sending(m)`, and reads the field again for
each message, so `Readable(i)` is every connection since its own: one that read the
field early may use it late. Choices worth knowing:

- *Subscribing.* `Subscribe` writes its request and waits for no answer: the broker takes the
  subscription in a later step (`Establish`), and what is published before is handed to nobody.
  So it is after an error that made the connection drop (`Lose`).
- *A shared reader.* Two goroutines in one `ReceiveMessage` share its parser and its reply, with
  nothing to guard them. A connection on which that ever happened is `shared`: from then on a
  receive may return any message it ever carried and consume any number of those waiting
  (`Receivable`, `Consumed`), fail, or not return yet. What is parsed out of two halves and
  looks like another message, or makes the library panic, is left out.
- *Metrics*, on by default, wrap the subscriber: a relay per call moves messages to a channel
  without a buffer, and `Close` waits for all relays. The message in a relay's hand is
  counted to the channel (`Room`); `Relay` is its end, `CloseReturns` the end of the wait.
  A relay that holds a message nobody reads never ends, and then `Close` does not either:
  `EveryChannelCloses` names such relays, and `CloseEnds` supposes readers that go on reading. The decorator is
  watermill's, whose source is not here: it is part of what is taken as external.
- *`Close`* is two steps, since the publisher closes the client both use. A `Subscribe` after the
  second returns a nil channel and no error; with metrics its relay ranges over that for ever
  and holds `Close` up (`SubscribeClosed`, "stuck"). A cancelled context does not interrupt a
  receive that is waiting.

### AppLifecycle

`apps` counts the apps built; `app[g]` has the state of each, since an old one may still be
shutting down, or its listener be open, as the next comes up. `Load` and `Validate` are the
two halves of a reload, `InitStorage` and `FinishApp` those of `NewApp`, which each read the
configuration; `built` keeps what both read. `Shut` is `app.shutdown` in stages, run by the main
goroutine for a restart, by the goroutine that got the signal, or by both. Choices worth
knowing:

- *Outside*: `net/http`, `os/signal` and `viper` behave as the module's head says.
- *What is registered once.* `NewGroup` and `MustRegister` panic the second time, and nothing takes a
  group or a collector back. `Registers[n]` is what an app built from edit `n` registers: with
  the defaults a group, for every `n`, so that the first restart ends the process
  (`NewAppPanics`, run `app_rebuild`). What the other properties say of later apps is
  about configurations that register nothing again: another store, without metrics.
- *Failures.* A server may fail to bind, a client may not be made, a shutdown may time out with
  requests left (`late`); a file service without its client ends the process.
- *Not forbidden, because nothing says otherwise*: a signal that comes during a restart may be
  lost; if the main server fails, `Run` waits until a signal or a restart. Both are why
  `StopsOnSignal` speaks of a signal that reached a waiter, with no restart after it.
- *`AppSupervisor`* forgets the goroutines, the servers, the signals and the stages of a shutdown.
  Its `open` is the set of apps whose storage is open, `gen` is `apps`, `asked` is `accepted`. A
  drain is `GiveUp` and a close `TakeDown` if they come first; those of a shutdown that
  another overtook are stutters.

## 3. The runs

| run | question | result |
|---|---|---|
| `share_cache` | Is what is cached or read the share's, is it the table's where nothing raced and no copies are kept, and does the service implement the registry? | holds |
| `share_expiry` | Is an expired share ever served; do changed whitelists leave the cache in time? | never; they do |
| `share_lost_add` | Is a user that was added on the list? | no: of two concurrent adds one may be lost |
| `share_deleted_cached` | Is a deleted share out of the cache? | no: groupcache's copy of it stays, with no race and no failure |
| `files` | Are keys well-formed, is nothing lost, does a user reach only his own objects, is nothing removed without a licence? | holds |
| `files_end` | Is every request answered, and does each of its steps bring it nearer to that? | yes, under fairness; they do |
| `files_rename` | Does a rename move only what is in the folder? | no: it moves what is under the parent |
| `index` | Are listings of versions, synchronisations and searches right while the bucket changes? | holds |
| `responses` | Is anything served late, cut though written by `Write` alone, or to another variant; is anything alive dropped; does the cache implement the expiring map? | no, but for the race of the two-step expiry; it does |
| `mq` | What may a channel bring and in which order, does a lone call lose anything once subscribed, does every goroutine wind down and close its channel, does Close return? | holds, but for relays with nobody to read |
| `app` | Are clients open while used, is the configuration in use the one that runs, do reloads and signals take effect, is an app down when it is done, and does the process implement the supervisor? | holds, where nothing is registered twice |
| `app_rebuild` | Does a restart get its new app? | no: with the default store the second `NewApp` panics |

Bounds. Two slots are enough for every race the services have: each of their steps
reads or writes one row, one entry or one object, so a violation needs the request that
is harmed and one that interferes, and slots are reused for the requests before and after.
The passing runs explore their state spaces completely, up to the symmetry of slots, and of
users or contents where nothing but their names tells them apart.

- `share_*`: one share, because requests on different shares touch different rows and entries.
  `share_cache` has two users (owner and stranger), both kinds of store and no passing of time;
  `share_expiry` has one user, groupcache, whose copies are the harder case, and a clock that
  runs over a day of two units, past the expiry of a share and the deadlines of its entries.
- `files`, `files_end`: two users, a folder, a file beside it and one in it, and two
  contents, so that one can overwrite the other; `files_end` has one content, since the
  property does not tell contents apart and fairness is costly. `MaxLength` is four
  segments: enough for a file in a folder, and too short for what a rename may make of it.
- `index`: two users; three keys, of which one begins with another and the third is the other
  user's in another month; two days over the turn of the month; scopes with no date, a
  month without a year, a month and a day; one content; two writes (`MaxWrites`), which is what
  a race with one listing or synchronisation takes; and `MaxWork` 3, one reader of two
  units beside one job of the index, or up to three of the latter.
- `responses`: all four stores, two requests for a route that differ in one header, a key other
  code uses; a second of two ticks, entries that live for one second, or for ever, and a clock
  that runs from the first second by halves up to `MaxTime` 5, so that an entry may be stored in
  the middle of a second, expire by the whole-second deadline of the wrapper or by the cache's own
  (`LocallyExpired`, `Drop` and `CleanupDrop` all happen), and be stored again; bodies of up to
  two bytes (`MaxLength`) in writes of one or two against a limit of one, which reaches a body
  exactly at the limit, one cut in a write, one cut between two, and any of them with a
  part by `WriteString`.
  `MaxWork` 6 is two requests (of three units), a request and a call (of two), or three calls.
  Races of a request with two calls on its own key are those of three calls, to which the
  request adds only how it came by its key and its value.
- `mq`: two topics, two calls (the second draws the first's goroutine to it), `MaxInputs` 4 for the
  calls, messages and cancels together, and channels with room for one, so that a channel
  fills, both goroutines meet and a relay is left with its message. The first call asks for
  `stored` (`FirstAsksForStored`): the topics are interchangeable, and the liveness
  properties keep TLC from using a symmetry set. Two goroutines and a reader are what every clause needs;
  the theorems have any number.
- `app`: three apps, two edits, one signal and one request, so that a restart overtakes another
  and a signal meets a restart. The first configuration registers a group and the edits do not
  (`GroupAtFirst`), so that a reload takes effect, and an edit that cannot be read, after which
  the first configuration is in use again, panics. There is one server; a second, for metrics, has the same
  steps, and the theorems cover it.

The violation runs take the bounds of their passing neighbours, or fewer operations.

Fairness. `ShareService`, `FileIndex` and `ResponseCache` have none: their properties are
safety. Elsewhere it is weak fairness of steps that the code's goroutines take by themselves,
and none is assumed of what comes from outside or of a call's success.

- `FileService` (`FairSpec`): `Serve(r)` for each request. The calls a goroutine makes return,
  with an error if need be, since the client library bounds the wait for a response, and the
  Go scheduler runs every goroutine that can. None of `Start` or `Restart`.
- `RedisSubscriber`: each goroutine and each relay, when it can move, `CloseSubscriber`, which follows
  `ClosePublisher` in one function, and `CloseReturns`. A receive from an empty open connection waits on
  the network and an error may end it, as it may at any time; after the client was closed it
  must. None of readers (`CloseEnds` supposes them, in its statement), of the broker, publishers or the
  call of `Close`.
- `AppLifecycle`: `Load` and `Validate` (the watcher), `MainStep`, and the servers and the signal
  goroutine of each app. A shutdown has a timeout, so it goes on although requests need
  not end. None of edits, signals, requests or their ends.

Each property has a mutant: a change of one definition, of the kind a bug would make, under
which its run fails. The mutants stand beside the definitions they change.

## 4. The proofs

Every invariant and action property of the passing runs is proved, for every value of the
constants: any number of users, keys, contents, slots, messages, apps and ticks. The proofs
assume what the modules state as named assumptions: that `""` is no user, name, content or
password; the shape of the forms and calls clients make, of which each names finitely many items
(`FormAssumptions`, `CallAssumptions`, `RequestAssumptions`) and of dates and scopes (`BucketAssumptions`,
`IndexAssumptions`); `DefaultTTL <= MaxTTL < DayLength`; that a second has at least one
tick (`StoreAssumptions`); that every key a request may build is a key of the store
(`KeyAssumption`) and no entry is `NoEntry` (`EntryAssumption`); that an app has its main server
and at most one more, for metrics (`AppAssumptions`); and that the bounds are naturals
(`MQAssumptions`, `AppAssumptions`).

- **ShareService, `TypeCorrect`**: `TypeInv` adds to `TypeOK` which steps each operation goes
  through (`Flow`).
- **`CacheIsFaithful`** needs in addition that a row's `info` never changes once stored
  (`RowsAreKept`): whatever was read earlier is then still true.
- **`ExpiredIsNeverServed`**: `ExpiryInv` says that a request past its check had a live
  share at some time since it arrived; a share that is not expired later was not before.
- **`ChangedEntriesDoExpire`**, for entries and for the copies made of them: `TTLInv` bounds the TTL a request holds from
  `ttlFromExpire` and ties a TTL of 0 to an expired share, at any later time.
- **`CacheIsCoherent`**, for stores without copies: while a share is not disturbed a writer of it is alone
  (`WriterAlone`), so records being carried about are those of the row (`LocalCurrent`)
  and so are the entries (`EntryCurrent`). None of the three is inductive by itself.
- **`ServiceImplementsRegistry`**: each step maps to a step of `ShareRegistry` or a stutter,
  under `TypeInv`, `CacheFaithful`, `ExpiryInv` and `AuthInv` (a request about to write
  has been authorised by a row that keeps its owner).
- **`TableIsTheOwners`** follows from the refinement alone: the registry writes a row only for a
  request of its owner, so the table changes in no other way, whatever the service's own steps.
- **FileService, `TypeCorrect`, `NothingIsLost`, `OnlyOwnObjects`** share one invariant: the
  items a request works on come from its call or from a folder of its user (`Assigned`),
  what the bucket holds was uploaded (`BucketOK`), and a move that is not `raced` has its
  content at the destination (`Copied`). `NothingLost` is not inductive without `Copied`,
  which is what lets `RemoveSource` remove the source.
- **`ServiceImplementsCustody`**: each step maps to a step of `FileCustody` or a stutter. It needs
  `PlanInv` beside the invariant: what a delete works on are single keys, so that taking one
  off the items takes exactly its key off the licences (`SourcesLess`); what a rename works
  on are keys of its old path with their places in the new one (`CopiesSubjects`).
- **`RequestsDoShrink`** is the safety half of `EveryRequestEnds`. That the items of a request
  are finitely many, so that one fewer is nearer to the end, needs `Finite`: an upload puts one
  object or those of one batch, so the bucket and every listing of it stay finite.
- **FileIndex** has one invariant, `Index`: what the bucket holds was `made`, and no version
  is newer than the last write (`VersionsMade`), rows and cached answers hold versions that were made, of their owner
  (`RowsGood`, `CacheGood`), and a job is as far as its `pc` says (`JobGood`, a part for
  each kind). For **`ListingsAreWhole`** that is: a version listed and not yet looked up is
  still to do, and one made later has a higher number. For **`SyncsAreComplete`**: of a
  synchronisation that is alone, what was meant is either still to do or in the table; that
  what was listed is what was meant, for every combination of dates, is the lemma
  `MeantIsListed`. **`MarksStay`** needs `MarkInv`: a row that is not there was told nothing.
- **ResponseCache** has `Cached`: every entry, in the store and in the group cache, ends when its
  store computed it from the time it was stored (`DeadlineGood`), which with the arithmetic of
  whole seconds gives **`ReadsAreFresh`**; a body captured without being cut is as long as what was
  written by `Write` alone, and so is one that is stored (`RequestGood`, `PayloadGood`), hence
  **`ServedIsWhole`**; and who is about to remove what it saw saw it expired (`ReadGood`,
  `CleanerGood`), hence **`FreshEntriesStay`**. **`VariantsAreTold`** adds `SortInv`: without overlap
  only one request builds its key while the list is out of order, and it leaves the list
  in order, so that every key has the sorted names (`PayloadGood`, `ReadGood`).
- **`CacheImplementsMap`**: each step maps to a step of `ExpiringMap` or a stutter, one lemma for
  each kind of task. It needs `Cached`, for the deadlines of what is read, and `WriteInv`: the
  deadline a Set computed for itself lies within the time to live it then gives the store.
- **RedisSubscriber**: `Behind` says that a goroutine is on a connection between its own and the
  last (`Drawn`), and that what is queued was logged, so **`NothingFromEarlier`** (`Sourced`);
  `LoneInv`, that with one call what was taken, is in the channel, in the goroutine's hand and
  in the queue is in this order the log, gives **`LoneCallIsServed`**: the log begins when the broker
  took the subscription, and with one goroutine the connection is never `shared`; `LateInv`, that a
  goroutine leaves at its next select after its end, gives **`FewLate`**. **`TopicsComeInOrder`**
  needs `OrderInv`: a queue is in order (`QueuesRise`), and what waits in the queue of a topic's
  only connection, on which no two goroutines ever met, is later than all of the topic that any
  channel brought (`QueuesAhead`), so that whoever receives the next message has it after those
  (`ChannelsRise`). Two connections of one topic each bring every message, and a goroutine drawn
  from one to the other may bring one twice: hence the condition `Sole`; of a shared reader
  nothing is promised: hence `Unshared`. **`GoroutinesWindDown`** is the safety half of
  `EveryChannelCloses` and needs `Emptied`: after a close no connection has anything to hand out,
  so that a goroutine that waits on one can only be told of its error.
- **AppLifecycle**: `Sane` is the type, that the main goroutine waits only with an app
  (`MainHasApp`), and that a server which was shut down does not serve (`DownIsDown`).
  **`RestartsAreAskedFor`** counts the restart still in the channel (`RestartInv`).
  **`SettledAppIsCurrent`** needs `BuildInv`: while what was built differs from what is in
  use, a change is to be validated, a restart is asked for, or the configuration is not valid.
  **`ClientsStayOpen`** needs `OpenInv`: whoever is past a stage of a shutdown, the main goroutine
  or the waiter, left the servers stopped and then the requests ended or given up.
  **`ProcessImplementsSupervisor`** adds `OldClosed`, that a storage open is the last app's and
  none is when the next is built, and `LateBusy`, that who was given up has not ended: what the
  drain of one shutdown gives up is then all that is busy, and a second drain or close of the
  same app, or of one before it, changes nothing (`StageMaps`). That invariant by itself is
  **`OneStorageAtATime`**. **`WhoIsDoneIsDown`** is the safety
  half of `StopsOnSignal`: by its last stage a shutdown has come to every server, begun or
  not (`EndInv`), and with `OpenInv` who is done has closed the storage.

Only model-checked: the liveness properties `EveryRequestEnds`, `EveryChannelCloses`, `CloseEnds`,
`ReloadTakesEffect` and `StopsOnSignal`, as liveness under fairness is out of the prover's
reach, and the four properties that fail. Of `EveryRequestEnds`, `EveryChannelCloses` and `StopsOnSignal` the part that is safety
is proved, as told above: a measure that only shrinks, or what the end means. What is left to
TLC is that a step is possible wherever one is needed (`ENABLED`) and that fairness takes it. Nothing here is defined by recursion.

## 5. Not modelled

- *Rate limiter and circuit breaker*: each is a library (`x/time/rate`, `gobreaker`) behind a few
  lines. The admission and the states are the libraries', whose source is not here;
  what the repository adds, the reset of the map of limiters and the comparison of one
  error, is listed as a hazard with no property.
- *The message queue over NATS*: hands each call to watermill, whose source is not here. The topics
  and payloads of `pkg/queue` are used by nothing.
- *Presigned links*, for uploads and downloads: signed here, carried out by clients.
- *Reads that change nothing and that no other part relies on*: the listing of files by month, an
  object's metadata, paging and order of a search, health checks, configuration dumps.
- *Settings*: their defaults, formats and validation rules; `Kinds` is all the lifecycle needs.
- *Opening a client*: drivers and migrations; `InitStorage` has only which clients were made.
- *A race on the global configuration* while it is unmarshalled is taken between the two
  readings of `NewApp`, not within one.
- Logging, tracing, routing, the other commands and the generated documentation decide nothing
  about the state above; of the metrics only what is registered once (`AppLifecycle`) and the
  decorator of the message queue (`RedisSubscriber`) do.
- *Clients that read the configuration later*: the S3 client reads it live for some settings
  (`storage/s3/s3.go:81-83`), so `built`, what the halves of an app were made from, does not cover them.

Three disagreements with comments and documents are plain from the definitions and have no
run of their own. `KeyOf` has the route's template where the comment on
`buildDefaultKey` says path, so that two resources of one route would share a response.
`Load` takes a configuration over before `Validate` looks at it, so that an invalid one is
what the next app reads, and one that displaces a valid edit not built from yet takes its place,
where `docs/hot-reload.md:161` says that the old one is kept; `SettledIsCurrent` and
`ReloadTakesEffect` excuse both. And `CreateShare` caches a share for its whole life, or for
ever, where the comment on the cap (`shares.go:378`) says that no entry lives longer than it;
`ChangedEntriesExpire` is of the entries whose whitelist was changed, which keep to the cap.

Two hazards of the file operations are modelled and excused rather than forbidden. A rename that
overwrites a file it has still to move: `NothingLost` counts what it overwrites as `spent`. And
the delete of an "empty" folder that is not: the code means to refuse it
(`file_helper.go:335-340`), as `types/files_folder.go:40` and `test/files/folder_delete.http:42`
say, but counts entries and cannot tell a lone file from the marker when the marker is gone;
`CustodySpec` holds the delete to what its listing showed. What two responses, two values
of one getter or two synchronisations write over each other is in the models too, and no property
orders it, because the code and the documents do not.
