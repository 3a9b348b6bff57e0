# CloudBin: models and proofs

TLA+ modules for CloudBin's object store, auth service and gateway, the TLC
configurations that check them on small instances, and TLAPS proofs of the
properties that should hold for every instance. All source paths are relative
to the repository root; `PROJECT.json` gives the lines behind every definition.

Run one instance with `tlc -config MCObjectStore_concurrent.cfg MCObjectStore`,
check one set of proofs with `tlapm ObjectStoreProofs.tla`.

## The system

CloudBin keeps objects (files) of users. Four services talk HTTP, two of them
to Postgres and Redis.

| component | state | operations | where |
|---|---|---|---|
| api-gateway | none | checks the JWT, sets headers, forwards by path | `api-gateway/internal/server` |
| object-api, objects | rows `objects` + `object_placements`; bytes on the nodes | upload, download, delete | `service.go`, `repository/postgres.go`, `handler/http.go` |
| object-api, placement | the hash ring, fixed at start-up | `GetNodes` | `service.go:46-105` |
| object-api, access | visibility and permission in the row, events, share links in Redis or in a map | hide, set permission, public and shared downloads | `service.go:242-438` |
| object-api, listing | none of its own | a page and a total of an owner's rows | `service.go:257-282` |
| object-api, rate limiter | windows in a map or counters in Redis | `allowByUserAndIP` | `handler/http.go:59-137` |
| storage-node | a directory tree | PUT, GET, DELETE of a path | `storage-node/internal` |
| auth-service, accounts | `users`; one-time passwords in Redis | register, verify, forgot, reset | `auth/service`, `auth/otp` |
| auth-service, tokens | `user_tokens`; revoked ids in Redis | login, create, list, delete, check | `auth/service`, `auth/handler` |
| migrations and seed job | schema; seed users | run at start-up | `migrations` |

How they interact: a client's request passes the gateway, then object-api or
auth-service. An upload sends one PUT per target node from a goroutine each,
waits for all, and either upserts the row or deletes what it wrote. A download
reads the row and asks the primary, then the replica. A delete reads the row,
deletes at primary and replica and then in Postgres. The services share no lock
and keep no journal. Every call has a timeout at the caller that the callee
never hears of.

What is hard there, and where it is looked at:

* **Interleaving.** Requests for one key run at the same time on the API, on
  both nodes and in the database, in three independent orders (ObjectStore);
  on a node, handlers share inodes without a lock (StorageNode); a
  verification is Get, write, Delete without a transaction (Accounts); a check
  of visibility is followed by a stream (ObjectAccess).
* **Partial failure.** One PUT of two fails; the row is written and its answer
  lost; a node dies under a stream; Postgres says yes and Redis says nothing
  (ObjectStore, ObjectAccess, Tokens).
* **Late calls.** A PUT or DELETE whose caller has given up is still carried out.
* **Crashes.** object-api restarts in the middle of anything; nodes stall or
  crash and come back (ObjectStore); the map of share links is lost
  (ObjectAccess).
* **Time.** Lifetimes are computed at one moment and start at another; checks
  of an expiry and uses of what was checked lie apart (Tokens, Accounts,
  ObjectAccess).
* **Boundaries.** The ring wraps around, hashes collide, nodes are listed twice
  (HashRing); windows of time meet, the map of windows is cleaned when it is full
  (RateLimiter); limits of pages are zero or too large (Listing).
* **Agreement.** Three tables of paths say what needs a token (ApiGateway); two
  queries make one answer (Listing); two stores hold links and counters, and a
  restart may change which one is used (ObjectAccess, RateLimiter).

`PROJECT.json` lists the hazards one by one at the line where they bite.

## The modules

```
FileOps ──────── FileRegister ──────┐
   │                   ▲ implemented by, at every path
   │             StorageNode ───────┴─ StorageNodeProofs
   └──────────── ObjectStore ───────── ObjectStoreProofs
                      └─────────────── ObjectStoreClaims
HashRing ─────── HashRingProofs
ObjectAccess ─── ObjectAccessProofs        Tokens ──┬── TokensAndListingProofs
RateLimiter ──── RateLimiterProofs         Listing ─┘
Accounts ─────── AccountsProofs            ApiGateway ─ ApiGatewayProofs
```

Two modules hold the proofs of two specifications. In StorageNodeProofs,
`Contract` is FileRegister with variables of its own; its assumption follows from
StorageNode's (`Names`). Tokens and Listing share nothing but a module of proofs;
Listing has names of its own there and in its run (`ListSpec`, `ListTypeOK`).

### The file of a node: FileOps, FileRegister, StorageNode

`StorageNode` has the tree (`entry`), the inodes (`data`) and one record per
handler. `Stat`, `Mkdir`, `Create` (truncating), `Write` at the handler's own
offset, `Delete` (unlink, and rmdir of an empty directory), `OpenGet` and `Read`
are one action each: they are what the kernel makes atomic. `os.MkdirAll` is a
sequence of such calls: `Stat` goes up from the nearest ancestor to the first
that is there, `Mkdir` comes down through those that were missing (`todo`), and
what it made stays when it fails half way. `pathFor` is the constant `Paths`
with `Above`, and requests name the paths in `Asked`; bodies are numbered blocks,
and a hole is a block of its own.

`FileRegister` is what all this promises for one file: a PUT makes it `Torn`
until the last PUT that had it open is done; then it holds a body only if that
PUT had it alone and copied all of it. The refinement mapping (`FileAt`,
`PhaseAt`, `ReadAt`) and the property `ImplementsRegister` say that every path
of a node behaves so; a step is one of one register, or of none (`Stat`,
`Mkdir`), so each of them steps or stutters.

### Uploads, downloads, deletes: ObjectStore

One record per request is its goroutine's program counter: `up` (puts,
rollback, commit), `rm` (primary, replica, row), `dl` (primary, replica,
stream). `put`, `reply` and `del` are the calls in flight, as the node and as
the API see them, which may differ: `PutGivenUp` changes only `reply`. `file` is
one FileRegister per node and path (the same operators, from FileOps; a body's
name is its ETag). `row` is the join of `objects` and `object_placements`, which
`UpsertObject` writes in one statement.

Faults are actions: `NodeStops`, `ApiCrash`, `Cancel`, `FindFails`, and the
failing halves of calls. Each one costs one of `MaxFaults`, unless an earlier
fault explains it (`Excused`): a call to a node that is down fails for free.
`last` and `calm` are auxiliary; they say that nothing else has been going on
for a path, so that a property can say what a request promises when it is left
alone without saying that it is left alone all the time.

`Targets` is any placement of distinct nodes, which `HashRing` gives.

### Placement: HashRing

The initial states are all rings of the configurations in `Configs` under all
hash functions into `HashSpace` values: what `NewHashRing` builds. Then one
lookup: `Search` (sort.Search and the wrap-around), `Visit` per key, `Return`.
`Nearest` is an independent definition: nodes by their clockwise distance.

### Access: ObjectAccess

One key of one owner; that the nodes hold bytes for it is one flag here, because
copies are ObjectStore's subject. The ETag of an upload is the hash of its body
(`Bodies`), so uploads of the same bytes have the same; `by` is auxiliary, the
upload that wrote the row last, whatever it brought. `HideUpdate` and `HideEvent` are the two statements of
`HideByOwnerAndKey`. `MakeLink`/`StoreLink` separate the moment a lifetime is
computed from the moment it starts. `redis` says which of the two stores of
links is used: the process pings Redis once, when it starts, and goes by a map
of its own if there is no answer (`object-api/internal/server/server.go:52-64`).
So every `Restart` chooses anew. The map compares clocks at lookup and is lost
with the process; Redis expires by itself, can fail, and still has its links
when a later process finds it again. A SET whose answer is lost is sent again
(`StoreLinkAgain`).

### Listing

`Page` and `Count` are the two queries of one GET of a list, `Begin` and
`TakeEffect` the two ends of a statement that changes a row: its `updated_at` is
the time it began. The client is any that pages through the list by the limit
and total it is told. `kept` and `calm` are auxiliary: what was listed all the
time, and whether anything left the list, moved back in it or was tied.

### Rate limiter: RateLimiter

One action of one limit, `Arrive`, then a count under the user and one under the
address. `Allow` is one action, because of the mutex, but by a clock up to `Lag`
old: `time.Now()` comes before `Lock()`. `Incr` and `Expire` are apart, as are
their failures (`allowRedis` fails open). go-redis sends a call whose answer is
lost again (three times by default, and `internal/server/server.go:54` leaves it
there): `IncrAgain` counts the request once more, and if the first call made the
counter, the answer is 2 and nobody sends EXPIRE; `ExpireAgain` starts the
window again. A counter of Redis is `counter` and `ends`. Auxiliary are
`orphaned`, the keys whose EXPIRE was lost or never sent, `repeats`, how many of
a count were sent again, and `passed`, when, and in which store, a request was
counted within the limit.

### The gateway: ApiGateway

One request at a time: the gateway and the two middlewares keep no state. The
tables are sets of paths, a path a sequence of segments. The gateway's tables
are definitions of the gateway, `AuthGuarded`, `AuthOpen`, `ObjectGuarded`,
`ObjectShares`, `ObjectOpen` those of the two `RegisterRoutes`. A request may
also go past the gateway, whose backends publish their ports: auth-service checks its
token again, object-api believes its `X-User-ID` (`http.go:936`), and
`SamePrincipal` names that as its exception (`Believed`) and says whom such a
request is handled for. That handlers were called is all that is said of them.

### Tokens and Accounts

`Tokens` has one record per request. A token is named by the request that issued
it, `exp`, `db` and `black` are its expiry, its row in Postgres and its key in
Redis. `authMiddleware` is two actions (`Show`: signature and expiry; `Ask`:
Redis). A clock ticks at any moment.

`Accounts` is one email address: who writes its row, with which one-time
password. `Begin`/`Save`, `Get`/`Write`/`Spend` and `SeedLooks`/`SeedInserts`
are the separate calls of the code, in its order. The seed job looks for the
address as it is configured and inserts it in lower case: one of `Capitals` does
not find the user that is there (`SeedFinds`), and only the unique index stops it.

## What is checked

| run | instance | what it shows |
|---|---|---|
| `node` | 3 PUTs (2, 1 and 1 blocks) and 1 GET of 2 paths, one above the other with a directory between them, DELETEs of all 3 | refinement of FileRegister, whole bodies, a sound tree, whatever comes between the calls of os.MkdirAll |
| `store_concurrent` | 2 uploads, 1 delete, 1 download of 1 key, 1 fault | rows name stored uploads, undisturbed rows have their bytes twice, acknowledgements are recorded, downloads match their ETag |
| `store_faults` | 1 upload, 1 delete, 1 download, 1 key, 3 faults, fairness | what rollback and delete remove, what failover masks, every request ends |
| `ring` | 3 nodes, 6 hash values, 4 configurations incl. repeated nodes, factor 0, 2, 3 and 5 | distinct and nearest nodes; a lost node moves only its own copies |
| `access` | 2 uploads of 2 bodies, 1 delete, 1 hide, 1 permission, 1 link, 1 reader, 4 moments, a SET up to 2 ticks late, 1 fault or restart, Redis found or not at each start | hides are recorded and obeyed, links expire, rows evolve as they may |
| `tokens` | 3 tokens of 2 users, 1 revocation, 5 moments, 1 fault | Redis agrees with Postgres, and what it knows is refused |
| `accounts` | 2 registrations, 1 reset, 2 verifications, 2 seed jobs, one of them configured with capital letters, 4 moments, 1 fault | one creation, acknowledged passwords in force, codes used in time and once |
| `limiter` | 3 requests of 1 user from 1 address, limits 1 and 2, 6 moments, 1 call that fails or is sent again, or restart | at most twice the limit within a window, no refusal without a reason, counters end |
| `listing` | 3 objects, 2 statements, 2 filters, limits 0 (default) and 3 (over the maximum) | what is not written is not skipped, page and total fit |
| `gateway` | every path of every table and one below each prefix, 3 methods, 3 tokens or none, foreign headers, 3 moments | handlers act for the bearer, or for whom a direct request to object-api names; the three tables agree |

Two runs end in a counterexample, each a sentence of the documentation that
the code does not keep (`findings` in `PROJECT.json`):

* `claim_overwrite`: `Readme.md:41` says a failed upload is rolled back. The
  rollback of a failed *overwrite* deletes the files the old row still names:
  the previous object is gone, its row is not.
* `claim_copies`: two uploads of one key, both acknowledged, without any fault,
  may leave one body on the primary and the other on the replica
  (`Readme.md:3`, `:42`).

More to know about the code, seen while modelling it; it needs no run to be seen:

* `object-api/README.md:8` says "deterministic placement using hash-and-modulo".
  The code walks a ring (`service.go:60-105`), as `Readme.md:35` and `:40` say.
  The two are not the same placement: by hash and modulo, a node that leaves
  moves objects it did not hold. `OnlyTheLostMoves` excludes that, so it holds
  of the code against this sentence; its mutant `Search_Modulo`, which takes the
  place on the ring by hash and modulo, breaks it.
* `Readme.md:96` documents "Hide/unhide". The handler
  (`handler/http.go:254`) never reads the visibility it is sent: every such
  request hides, so `HideUpdate` is its only action.
* `Readme.md:33` has the gateway apply "per-user and per-IP rate limits". It
  applies none: the limiter is in object-api and counts by `RemoteAddr`, which
  behind the gateway is the gateway's, so all users share the per-address
  counters. Only the routes that call `allowByUserAndIP` are limited at all.
* A revoked token is refused by auth-service only. The gateway and object-api
  check signature and expiry.
* An object that an admin has hidden shows again when its owner uploads it
  again, even the same bytes with the same ETag: the upsert sets the visibility
  whatever it finds (`repository/postgres.go:37`). `RowEvolves` and
  `HideIsRecorded` therefore speak of the upload, not of the content.
* An INCR that the Redis client repeats counts a request twice, and one that made
  the counter leaves it without an end: the key is locked out although no call
  has failed (`handler/http.go:128-137`). A failed EXPIRE does the same.

What the properties leave room for is deliberate, and worth reading: `NoBurst`
allows twice the limit, because fixed windows meet; `RefusedWhenFull` excepts
`orphaned` keys, which never end after a lost EXPIRE or a repeated INCR, and
counts a repeated INCR like a request; `NothingSkipped` holds for
calm lists only; `OpenStaysOpen` has one exception, a share link asked for by
query at `/api/v1/shares`, which the gateway wants a token for.

**Why these bounds.** Two requests are what a race needs, and two copies are
what the code supports (`object-api/README.md:19`); the third (a delete, a
download) is there to see the outcome or to disturb it. One fault per run
reaches every failing branch; three in `store_faults` are the fewest that
combine a lost PUT, a failed clean-up and a node that is away during the
download. Three PUTs of a file give two that overlap on the file after one that
was unlinked. On the node, a body of two blocks among ones of one gives both a
hole after a truncation and a short body over the start of a longer one. Six
hash values for at most six virtual nodes allow all orders and all collisions.
Three requests against a limit of one or two fill a window and are refused, and
`MaxEntries` is one, so that the map is cleaned once both keys have a window;
`MaxTime` is five, more than two windows of two. Two directories for `os.MkdirAll` to make are what it
takes for the upper one to go before the lower one is made. Three objects and a page of one or two make two or three pages.
The tables of the gateway are finite and complete. `TTL`, `Window` and `Minute`
are one or two ticks, `Deadline` is one (in `access` two, so that a SET comes
after the moment its lifetime was computed in and the link outlives what was
told), and the clock runs on after a lifetime that began at once is over. All bounds are constants:
`MaxFaults`, `MaxTime`, `HashSpace`, `Lag`, and the sets of requests. Each request
happens at most once; that a client repeats one is two requests. What the runs do
not reach for want of a bound - keys that share a path, several users,
more requests of every kind - the theorems cover, whose constants are free.

**Symmetry** is used between requests of one kind that differ in nothing, and
only in runs without liveness.

**Fairness** (`FairSpec`, used by `store_faults`). Weak fairness of each
request's handler: goroutines are scheduled, the HTTP client gives up a call
after 30 s (`service.go:137`) and each handler has a context deadline
(`PutGivenUp`, `Expire`). Weak fairness of a node while it is up. None
for `NodeResumes`: nodes may stay away. None for the arrival of requests.

**Deadlock** is checked everywhere. When all requests are done the models
stutter by an explicit action (`AllDone`, `Answered`, `Quiet`, `Used`, `Done`);
in `Tokens`, `Accounts` and `RateLimiter` it is `Stop`, when the clock has
reached its bound.

## What is proved

For all values of the constants that satisfy the modules' assumptions (request
sets are disjoint and named apart from sentinels; a placement has distinct
nodes; times are natural numbers). None of the sets has to be finite, except
what a configuration of the ring makes so and the objects of a list, which are
counted. The gateway's paths are any sequences of strings (`PathsForm`), and a
header without a role is given `"user"`, which has to be a role (`HeadersForm`).

| theorem | says | by |
|---|---|---|
| `StorageNodeProofs!PromiseKept`, `BodyKept` | `[]ReadKeepsPromise`, `BodyStays`: what the contract of a file gives its users; `NodeImplementsRegister` says that a node keeps the contract | `RegisterInv`: also, while any PUT has the file open its content is `Torn`. Without it a second PUT's end could give a body to a reader's file. |
| `StorageNodeProofs!TypeCorrect`, `TreeStaysSound`, `GetsStayIntact` | `[]TypeOK`, `[]TreeSound`, `[]GetIntact` | `NodeInv`, see below |
| `StorageNodeProofs!NodeImplementsRegister` | `ImplementsRegister`: at every path the node starts as FileRegister does, and every step of it is a step of FileRegister there, or nothing | `NodeInv`, one lemma per step |
| `StorageNodeProofs!PromiseKeptAtPaths`, `BodyKeptAtPaths` | what the contract promises, at every path of the node: a GET that was promised a body has it in front of it, and a body at a path goes only by a PUT that opens the path's file or a DELETE of it | `NodeInv` and the lemma that every step is one of the contract (`StepRefines`); while a PUT has the file of a path open, no body is settled there (`OpenAtPath`) |
| `ObjectStoreProofs!TypeCorrect` | `[]TypeOK` | `StoreInv` |
| `ObjectStoreProofs!RowsNameStoredUploads` | `[]RowNamesStoredUpload` | `StoreInv`: an upload past placement has two targets; the API's "ok" is the node's "stored"; no DELETE of an upload leaves before its rollback; one that reached the upsert has every "ok"; a row is of such an upload. |
| `ObjectStoreProofs!BytesAreStored`, `AcknowledgedUploads`, `RollbackIsComplete`, `DeleteIsComplete`, `DownloadsMatch`, `OneNodeIsMasked` | `[]RowHasBytes`, `[]AcknowledgedIsRecorded`, `[]RollbackRemoves`, `[]DeleteRemoves`, `[]DownloadMatchesETag`, `[]FailoverMasksOneNode` | `BytesInv`, see below |
| `HashRingProofs!PlacementIsDistinct` | `[]PlacementDistinct` | `RingInv`: what the walk has visited is selected, once. At the end either enough are selected or a full round is visited, and a full round from any start reaches every place (`OneRound`). |
| `HashRingProofs!TypeCorrect`, `PlacesTheNearest`, `OthersStay` | `[]TypeOK`, `[]PlacesNearest`, `[]OnlyTheLostMoves` | `PlacedInv`, see below |
| `TokensAndListingProofs!TypeCorrect`, `BlacklistIsRight`, `RevokedStaysOut`, `CreatedHasRow` | `[]TypeOK`, `[]BlacklistAgrees`, `[]RevokedIsRefused`, `[]CreatedIsListed` | `TokensInv`: a token with a row or a bearer is not signed again, so its expiry stands; a DELETE about to set the key holds a lifetime that reaches the expiry; Redis never forgets *that* it had a token. |
| `AccountsProofs!TypeCorrect`, `CreatedOnceHolds`, `PasswordStands`, `OTPWasLive` | `[]TypeOK`, `[]CreatedOnce`, `[]AcknowledgedPassword`, `[]WrittenByLiveOTP` | `AccountsInv`: who wrote the row last has its password there, and who created it is one (`OneCreator`: two verifications, two seed jobs, or one of each are the same); a stored code was sent, one past the check is of the right purpose and has its time to write, and one that was used and deleted does not come back. |
| `ObjectAccessProofs!TypeCorrect`, `HideStands`, `HiddenStaysUnserved`, `LinkEndsInTime`, `RowOnlyEvolves` | `[]TypeOK`, `[]HideIsRecorded`, `[]HiddenIsNotServed`, `[]LinkExpires`, `RowEvolves` | `AccessInv`: the upload that wrote a row is over and writes no other, whatever bytes the next one brings; a hide between its statements found an object that is hidden until another upload writes the row; a reader that came to a hidden object and has not been let go meets a hidden object; a stored link, in either store, was made and ends in time. |
| `RateLimiterProofs!TypeCorrect`, `CountersEnd` | `[]TypeOK` (a window never counts beyond the limit), `[]CounterHasEnd` | `RateInv`, the conjunction of the two: the witness for a counter without an end is the request that was told 1, and only that request's own steps, or a restart, take it away; a repeated INCR that made it has none, which `orphaned` says. |
| `RateLimiterProofs!WindowsBound`, `RefusalsAreJust` | `[]NoBurst`, `RefusedWhenFull` | `BurstInv`, see below |
| `TokensAndListingProofs!ListTypeCorrect`, `PagesSkipNothing`, `TotalsFit` | `[]ListTypeOK`, `[]NothingSkipped`, `[]TotalFits`, for finitely many objects, any statements, any limits and any default not above the maximum | `ListInv`, see below |
| `ApiGatewayProofs!TypeCorrect`, `ActsForTheSubject`, `TablesDoAgree` | `[]TypeOK`, `[]SamePrincipal`, `[]TablesAgree`, for any set of paths, methods, headers and tokens | `GatewayInv`, see below |

`NodeInv` follows inodes home. An inode is named by the PUT that made it, so its
home is that PUT's path: every name it has, and every handler that has it open,
is at home there (`Named`, `Handlers`, `Readers`), and the inode `Create` makes
is one nothing has seen. That is why a step at one path is nothing at the others.
The group of an open inode holds its open handlers and ends with the last of them
(`Groups`); while it is open, its blocks are holes or the group's, each at its
own place, and a PUT that is the whole group has written exactly what it copied
(`Contents`). From this comes what a last close leaves (`LeftBehind`): that PUT's
body, if it came to the end; else the body of one of the group - the first block
tells whose - or of nobody. A GET that was promised a body has a file nobody has
open (`Copies`); the next `Create` on it withdraws the promise before a block is
written.

`BytesInv` extends `StoreInv` by an account of the calls in flight. Its key is
that a request which started while its path was quiet has the files of that path
to itself: nobody else is left who could write or unlink them (`AloneOnPath`,
`OnlyTheOwner`). What it does to a file therefore stays done: stored bytes stay
(`BytesThere`), removed files stay away (`RolledBackIsGone`, `DeletedIsGone`).
What remains is to show that it did so on every node: every target was asked
(`EveryTargetAsked`), a rollback and a delete come to each of their nodes
(`RollbackAsks`, `DeleteAsks`), and a node's answer means that the call is over
there (`ReplyIsOver`). An undisturbed download meets an upload of this kind
(`CalmAsks`), and no PUT is left that could write into its stream
(`CalmStreams`). Why the properties speak of an undisturbed path at all is what
`claim_overwrite` and `claim_copies` show: the code promises nothing more.

`PlacedInv` extends `RingInv`: the hashes are sorted and are those of the nodes on
the list, the owner of a hash is the last node that has it, and the walk, which
began at the first hash not below the key's, has met them by distance, so that
what it selected is nearest first (`NearestFirst`). `Nearest` is defined by
distances alone. For `OnlyTheLostMoves` the theorem compares with a ring that was
never built: without collisions the other nodes own the same hashes on both
(`RestForm`), their distances stay, and a node's place is the number of nodes
at least as near, which loses the lost node and no other (`RestPlace`).

`BurstInv` cannot be written with the counters alone, because they forget: what
passed under a counter that ended is nowhere in the state of the limiter. It
reads the requests' own records instead. The passes of a key fall into epochs;
the last began at some T, and what passed before it within a window is of one
epoch only, so at most twice the limit passed in any window (`Epochs`). A pass
in a started epoch keeps this while the epoch is not full (`EpochsAdd`); a new
epoch begins only when the last is over (`EpochsOver`). What remains is that the
counter in Redis and its end, or the window in the map, tell how many the last
epoch has and how old it is (`RedisForm`, `MapForm`): an end is set at most a
deadline after INCR made the counter, a window starts at most the lag before its
first pass. What the counter tells is the passes of the epoch and the INCRs that
were sent again (`CountForm`). The same facts tell why a request was refused.

`ListInv` counts. Pages are cut by OFFSET, so what a client has been given is no
set that the next query remembers, only a number. An object that stood still and
has not been given out has at least that many objects before it
(`UnseenAreAhead`): a page without it ends before it (`OrderRanks`: in a list
without ties the place of an object is the number of those before it), and a
statement in a calm list puts rows before it or leaves them there, never takes
one away. At the end the total is not above the offset, and nothing can have so
many before it. That a page and its total fit needs that the page was full when
it was read (`PageIsFull`), that the limit the query uses is the one the client
is told (`UsedIsTold`: two normalisations in two files), and that a later page
starts a whole limit further (`LaterPage`).

`GatewayInv` says what the gateway did to a request behind it: it is public, or
its token was good when it came and its headers are the token's (`Checked`), and
it is at the service its path names (`Routed`). The rest are lemmas about the
tables, for every path there can be and not only for the run's: what needs no
token at the gateway is guarded nowhere (`PublicIsUnguarded`), what a service
leaves open the gateway does too, but for a share link asked for by query
(`AuthOpenIsPublic`, `ObjectOpenIsPublic`), and every pattern a service
registers is matched by the gateway's table for that service and not by the one
it asks first (`AuthIsReached`, `ObjectsAreReached`). A path is under a pattern
when the segments agree (`UnderForm`); strings are compared and never taken apart.

`RowNamesStoredUpload` is what makes reading by row sensible: it needs no bound
on faults. `PlacementDistinct` is what ObjectStore assumes of `Targets`, and what
the table's CHECK on primary and replica needs.

**Only model-checked:** liveness (`RequestsEnd`), which is out of the prover's
reach; and that the claims of documents and comments fail (`claim_overwrite`,
`claim_copies`), which needs one counterexample each. Every invariant and every
action property of a passing run is the statement of a theorem.

## What is abstracted or left out

* Bodies, passwords and codes are names of the requests that brought them, and
  in ObjectStore an ETag is, too: there it asks whose bytes are where. In
  ObjectAccess, where two uploads of the same bytes matter, an ETag is a body's. SHA-256, bcrypt and FNV-1a are taken as injective, correct and arbitrary,
  in this order.
* A token always carries a role, as `issueToken` writes it.
* A statement that its caller has given up takes effect by then or never. A
  Postgres that carries out the upsert or the DELETE of a row later
  (`service.go:191`, `:232`), when the client has its error or the process is
  gone, is left out, though late calls to nodes are not: `RowHasBytes`,
  `AcknowledgedIsRecorded` and `DeleteRemoves` suppose it does not happen. The
  same holds of the statements of the other modules.
* Where repeated calls of the Redis client do no more than a call that came late
  (the SET and DEL of auth-service, whose lifetimes are in the command and whose
  handlers have a deadline), they are one call.
* go-redis bounds a call on its way by its own timeouts, not by the context
  (`ContextTimeoutEnabled` is off): `Deadline` is what both together allow.
* Where a prefix in a table of the gateway ends without a slash (`objects`,
  `shares`), the code takes any name that begins so; the model takes the name
  itself and one longer one (`GoesOn`). Everything else in the tables is compared
  segment by segment, so the theorems about them hold for paths of any segments.
* `storagePath` and `pathFor` are constants that may map keys together (`Path`)
  or one below another (`Above`). How a key with special characters travels in a
  URL is left out.
* A replication factor above two: the ring takes any; ObjectStore takes any
  `Targets`, but rows name two nodes, and the instances have two.
* ObjectAccess treats the copies as one, which is there or not, and a read of it
  as one step.

## Not modelled

* `FileExists` looks up one row and changes nothing. HEAD of an object calls
  `svc.Download`, so it opens a node's stream, and closes it unread
  (`handler/http.go:343-357`): what it does is a download of ObjectStore that
  breaks off. `ListByOwner` and `MarkAccessAudit` are called by nothing.
* Email is output only: nothing waits for it, a failure is logged. The wiring
  reads the environment and starts the servers; what matters of it, Redis found
  or not, is in `Restart`. The migrations run a library once, from one process.
* Of the seed job, `ensureUser` is modelled; which accounts the environment asks
  for is not.
* The gateway's logging middleware, and the bodies of responses.

## Plan

Done: the node and its contract; uploads, downloads, deletes; ring; access;
tokens; accounts; limiter; listing; gateway; proofs of every safety property and
of the refinement.

Next: ObjectAccess over copies instead of one register.
