# A TLA+ model of rgw-rs

rgw-rs is an S3 gateway with an admin API: `rgwd` serves S3 and admin requests
over one SQLite database, and `radosgw-admin` runs the admin operations from the
command line. This directory models its core in TLA+, model-checks it with TLC
on small instances, and proves the main results with TLAPS for every instance.

## Inventory

| Component | State | Operations | Hard behaviour |
|---|---|---|---|
| Storage driver (`rgw-sal`, `rgw-sal-sqlite`) | four tables: `users` (a JSON record per user), `access_keys` (index), `buckets`, `objects` | the `Driver` trait: load, store, remove, list users; create, load, list, remove, stat buckets; put, get, head, delete, list objects | keys are kept twice; checks against one table before writes to another; name and instance id of a bucket; two processes on one file, either of which may die |
| Byte ranges (`rgw-rest-s3/range.rs`, `resolve_range` and `get_object` of the driver) | none | parse a header, resolve it (twice: S3 layer and driver), cut the bytes | boundaries; two implementations that must agree |
| Authentication (`rgw-auth`) | none of its own; reads `users`, `access_keys` | SigV4 verification, payload hash, aws-chunked decoding, capability check | the identity is a copy that may go stale; what is signed and what is acted on are decoded by different code; clocks; bodies that arrive damaged |
| S3 operations (`rgw-rest-s3`) | per request: identity, loaded bucket, lists under way | ListBuckets, Create/Delete/Head bucket, location, versioning, ListObjects, Put/Get/Head/Delete object, multi-object delete | several driver calls per request, other requests in between; clients that hang up |
| Object listings (`rgw-rest-s3/list.rs`, `list_page`) | a client's marker | ListObjects V1 and V2, pages, prefixes, delimiters | pages over changing keys; a page that ends inside a common prefix |
| Admin operations (`rgw-admin-ops`) | per operation: a copy of a user record, a listing under way | user create/info/modify/remove/list, key and caps add/remove, bucket info/list/remove | read-modify-write of whole records; purges of many steps |
| Admin REST and CLI (`rgw-rest-admin`, `radosgw-admin`) | none | routing, capabilities, parameters | |
| `rgwd` | the set of running tasks | authenticate, dispatch | interleaving of everything above |
| User listing (`user_list`, `list_all_users`) | the command line's marker | pages of users | pages over changing users; text forms of uids as markers |
| Documents (`xml.rs`, `dump.rs`, `rgw-rest`, `args.rs`), types (`rgw-types`), `validate_bucket_name` | none | formatting, parsing, error codes | event-driven parsing with shared buffers; documents that break off; text that must read back as what was written |

How they interact: axum runs one task per request. The authentication
middleware makes one driver call and hands the handler an identity. A handler
awaits driver calls one after the other. A driver call runs under the one
connection's mutex from beginning to end, and a writing call is one SQLite
transaction, so calls are atomic among the tasks of `rgwd` and everything
interleaves between calls. A client that disconnects makes axum drop the handler
between two calls. A command line process makes the same calls over a connection
of its own, and only SQLite's snapshots and its one write lock order them.

What makes each part correct: the tables satisfy their constraints without
SQLite having to refuse a write, and the key index equals the records and what
two processes do amounts to one call after the other (driver); HEAD and GET
agree on every range and read the right bytes (ranges); a request touches only
what its user has access to at that moment, batches account for every key,
quotas hold, loops end (S3); listings show each key once, in order, and none
that stays is missed (listings); operations change what they were asked to and
nothing else, removals leave nothing dangling (admin); a request is handled as
what its signer meant or not at all, a payload that is accepted is the one that
was sent, and what clients may legitimately write is understood
(authentication, documents, types).

## Modules

| Module | Models | State |
|---|---|---|
| `ByteRanges` | `parse_range`, both `resolve_range`s, the `substr` arguments | none: operators |
| `Driver` | the `Driver` trait as `SqliteDriver` implements it, one step per call; `DriverSpec` is the store on its own, under any sequence of calls | `users`, `access_keys`, `buckets`, `objects` as sets of rows |
| `SqliteTx` | the same calls opened into their SQL statements, for several processes on one file; implements `DriverSpec` | `Driver`'s tables are the last commit; `at[c]` is the statement connection `c` comes to next, `view[c]` the tables its transaction sees, `writer` the holder of the lock, `stale` who has an old snapshot |
| `Auth` | `verify`, `check_cap`, `verify_bucket_access` | none: operators on `Driver`'s state |
| `SigV4` | `verify` from the header to the user; canonical requests; `Args` and the router's path | `intent` (what the client meant), `wire` (how it is written), the server's clock, the account |
| `Payload` | `read_body`, `verify_payload`, `decode_aws_chunked`, `verify_trailer_checksum` | the request, the body on its way, the decoder's position and signature chain |
| `S3Ops` | the S3 handlers | `s3[r]`: what the task serving request `r` has in hand and which driver call comes next; `minted`: the UUIDs handed out |
| `AdminOps` | `rgw-admin-ops` with its REST and command line callers | `adm[a]`, likewise |
| `Gateway` | both together on one store; the properties that relate them | all of the above |
| `Listing` | `list_page`, ListObjects V1 and V2, a client that follows markers | `names`, `lister` |
| `UserListing` | `list_users`, `user_list`, `list_all_users`, the text form of uids | the stored uids, the command line's loop |
| `DeleteXml` | `parse_delete_request`, event by event | the document, its events, the parser |
| `BucketNames` | `validate_bucket_name` | the name, grown byte by byte |
| `UserCaps` | `CapPerm`, `UserCaps`, `caps_add`, `caps_remove` | the stored record and the pairs `AdminOps` has |
| `MCSqliteTx`, `MCInputs`, `MCListing`, `MCGateway` | instances for TLC | |
| `InputProofs` | theorems about ranges, names, delayed and repeated requests, bodies | |
| `SigningProofs` | theorems about what a signature says: requests handled as signed, spellings accepted | |
| `DocumentProofs` | theorems about capabilities and delete lists | |
| `ListingProofs` | theorems about the listings of objects and users | |
| `DriverProofs`, `SqliteProofs` | theorems about the store and the processes on it | |
| `GatewayProofs`, `RequestProofs` | theorems about the gateway: store and access; batches, listings, quotas and administrators | |

`Auth` and `SqliteTx` extend `Driver`, which extends `ByteRanges`; `S3Ops` and
`AdminOps` extend `Auth`; `Gateway` extends both. The modules about strings stand
alone: `Listing`, `UserListing`, and those that `MCInputs` puts side by side.

The layers fit together by refinement: `SqliteTx` implements `Driver`, and
`Gateway`, whose every step is at most one call of `Driver`, implements it too.
What `Gateway` takes for granted, that a call is atomic, is what `SqliteTx` shows.
`UserCaps` does the same for data: `AdminOps` treats capabilities as a set of
pairs, and `CapsReadBackAsPairs` says that the strings behave like that set.

A driver call `f` that can fail is a pair of operators: its outcome
(`StoreUserResult`, `RemoveBucketResult`, ...) and its effect (`store_user`,
`remove_bucket`, ...). An action of `S3Ops` or `AdminOps` is one driver call
together with the code up to the next one. `pc` names the driver call that comes
next: `load_bucket` is `load_bucket_for`, `count` is a page of
`list_owned_buckets`, `whose` the second load in `create_bucket`, `size` the
`head_object` after an `InvalidRange`; for `AdminOps`, `email` is
`ensure_email_free`, `key` is `ensure_key_free` or `unused_access_key`,
`owns_any` the one-bucket listing of `user_remove`.

`MCInputs` and `MCListing` hold several small state machines that share no
state. Each behaviour is about one of them, named by `part`, and the others stay
as they start: the state space is the sum of theirs, never the product.

### What is abstracted

- A bucket name stands for `(tenant, name)` in the empty tenant, the only one the
  S3 side uses. User and object names are numbers in the order of the strings.
- A payload is its size in `Driver` and above. A key has no secret and is always
  active; in `Auth` the signature is taken to match (`SigV4` is about when it
  does). Requests that fail before any driver call with no effect (bad bucket
  names, half a key pair, `x-amz-copy-source`, unsupported subresources) are left
  out of `S3Ops`.
- In `S3Ops` every failed check of a payload (length, Content-MD5, malformed XML)
  is one outcome, `BadDigest`, at the place in the handler where those checks run.
- Any driver call of a request or admin operation may also answer InternalError
  and change nothing (`CallFails`, `AdminCallFails`): a lock that was not had in
  time, as `SqliteTx.Busy` shows it, or a disk that fails. The handlers pass it on,
  but for two: a multi-object delete makes an `<Error>` entry of it and goes on,
  and `create_bucket` takes a bucket it cannot load for somebody else's.
- `get_versioning`, and a listing with `max-keys=0`, make the driver calls
  `get_location` makes, and stand with it.
- In `Gateway` a crash is every task being cancelled: the store is a database
  file, and a driver call is one transaction. What happens inside a call when a
  process dies is `SqliteTx`.
- In `SqliteTx` SELECTs that follow each other in one transaction are one step,
  because they read one snapshot; the `DELETE` and `INSERT`s that rebuild a
  user's keys are one step, because they run under the write lock. A wait for the
  lock is the step not being taken; the end of the busy timeout is `Busy`.
- Hashes and HMACs are constructors: two are equal exactly when what went in is
  equal. A signature is a term over the key, the whole scope (day, region, service,
  terminator), the time and the canonical request. Characters are the few that the
  code tells apart (`+`, `%xx`, `&`, `=`, `/`, blanks, a letter), an escaped
  character is a unit. Names of bytes in `BucketNames` are kinds (letter, digit,
  `-`, `.`, other). Days have three ticks.
- In `Payload` a body is a sequence of units: a size, a signature, a byte, a line
  end. A fault loses, repeats, swaps or changes a unit. When a lost line end runs
  headers together, their digits make one number; each header after the first is
  taken to have one hex digit. With more digits the number would be larger, but
  never zero where this one is not, and no verdict tells the two apart. The
  `x-amz-trailer-signature` of signed trailers is a unit that arrives, can be
  damaged and is parsed, but is compared with nothing: the code returns it as one
  more trailer.
- In `Listing` keys and common prefixes of a page are one sequence in order,
  since they are counted and paged together; `encoding-type=url` is left out.

## Runs

Passing runs.

| Run | What it asks | Bounds |
|---|---|---|
| `sqlite` | the constraints of SCHEMA and the key index survive two processes, BUSY and crashes; every answer is one a single step could have given; locks are given back; the tables change as `DriverSpec` allows | two processes with the calls each makes; two users and one key they fight over, two instances of one bucket name, one object of up to two bytes (362,954 states): every call can meet every other at each statement |
| `inputs` | six questions about what the server is sent, below | 2.5 million states |
| `listing` | pages, order, completeness, progress of listings; users that stay are listed, and the listing ends | six names on both sides of the delimiter, nested twice, pages of one and two, delimiters of one and two characters; uids with and without a tenant and one that starts with `$`, pages of one and two (86,819 states) |
| `s3_buckets` | access, batches (quiet ones and not), stale buckets, while any driver call may fail | two tasks, two users and a stranger, one name, three instances: the name can lead to a third instance while a task holds the first |
| `s3_quota` | how far `max_buckets` can be overshot; what listings miss; every request ends | limit two, four names (one more than two tasks can fill), one to a page, four instances |
| `admin_serial` | emails, keys, capabilities with one administrator; users appear only by creation | two users, three keys, one email |
| `purge` | purging against uploads, deletes, re-creations; a listing with stats fails only for buckets that went; purges end | two buckets, two objects of one page each, three instances |

The parts of `inputs`:

| Part | What it asks | Bounds |
|---|---|---|
| ranges | HEAD and GET agree; the bytes read are the bytes selected | numbers to 5 with the u64 limit at 4, objects to 4 bytes: every order of start, end, size and limit |
| delete lists | a list is read as it was written; one that breaks off deletes only keys it named in full | up to three elements against a limit of two; text in pieces, entities, CDATA, comments, unknown and misplaced elements, elements inside `Quiet` |
| bucket names | the byte loop accepts exactly the names made of labels that are not an address | every name up to 8 bytes with the limit at 7, which four numbers with dots just fit |
| capabilities | a stored record always reads back, as the pairs that were added and not removed | strings of two items over two known types and an unknown one |
| signed requests | an accepted request is handled as the one that was signed; every spelling of a genuine one is accepted within the skew; nothing is accepted before or after its window | paths and queries of one and two pairs with every character that encoders disagree on; headers repeated, padded, on HTTP/1 and 2; requests on the way for up to four ticks, altered once, delivered again |
| bodies | a signed payload is intact or refused; one fault in an unsigned one with a checksum is noticed; well-formed bodies are delivered | payloads of up to three bytes in up to two chunks, in every mode, trailers signed and not; up to two faults |

Runs that show a disagreement between what the code does and what it says. In
the first four, two tasks take their driver calls in an order nobody wrote a test
for; in the last, a user's id is not read back as it was written.

| Run | Violates | What happens |
|---|---|---|
| `range_race` | `GetAnswersAsHeadWould` | a GET is refused with a 416 whose size, read by a second call, admits the range |
| `delete_race` | `BucketsRemovedUnderAccess` | a DELETE checked against one's own bucket removes another user's, created under the name meanwhile |
| `key_race` | `EditsKeepOtherKeys` | two keys are added at the same time, one is lost |
| `owner_race` | `BucketOwnersExist` | a bucket is created while its owner is removed |
| `odd_uids` | `EveryUserListed` | a page of users that ends on the row `$b`, read back as `b`, continues behind `b`, past a user `a` who was there all along |

`EditsKeepOtherKeys` and `UsersAppearByCreation` hold when admin operations do
not overlap (`admin_serial`) and `BucketOwnersExist` when nobody creates buckets
meanwhile, whatever administrators do at the same time (the theorem
`OwnersRemainWithoutCreation`): the cause is the interleaving and nothing else.
The same two causes have more consequences, which the constants of the passing
runs keep out or their properties allow for: with two administrators two users
can get one email (the check and the store are two calls, and `users.email` is
not UNIQUE), an edit in flight across `user_remove` stores the removed user
again, and creations that count at the same time exceed `max_buckets` by one for
each task but the first, which is the bound `QuotaOvershootBounded` checks.

Limits of the passing runs that a reader of the code should know:

- `AnswersHeldOnce` needs that the process that serves objects is the only one
  that puts them (`OneServer` in the proof), which is so: `radosgw-admin` removes
  objects but puts none. `get_object` reads metadata and bytes by separate
  statements outside a transaction, and two `rgwd` on one file could mix two
  versions of an object.
- A `get_object` whose row is removed by the other process between its statements
  answers InternalError; `AnswersHeldOnce` allows that, as it allows BUSY.
- `$$b` is parsed as the uid `$b` in the empty tenant, stored as `$b`, and read
  back as `b`: it is shown under another name, and a page that ends there
  continues from the wrong place. Uids of that kind are in `listing`, and
  `SteadyUsersListed` holds with them: a user is left out only if a page ended on
  such a row before it and continued behind it (`PassedOver`). `EveryUserListed`,
  without that exception, is what `odd_uids` refutes. `UserListingEnds` holds as
  long as no id reads back as a smaller one, as in `listing`. A uid `$$!`, stored
  as `$!` and read back as `!`, is such a one: `list_all_users` asks again and
  again for a page that ends on it. `$a$b` and `a$b` are stored alike.
- `StatsFailOnlyForRemoved` and the part of `BatchAccountsForEveryKey` about
  errors are about NoSuchBucket: a driver call that fails is reported as
  InternalError there, at any time.
- Two query parameters of one name sign alike in either order, while `Args` takes
  the first; a `/` escaped in the first segment of a path signs like a plain one.
  `HandledAsSigned` compares parameters as a bag for that reason, and allows a
  bucket with a slash in it, which no one can have created.

`s3_buckets` uses SYMMETRY: the instance ids it creates, and the tasks, are
interchangeable, since nothing in the specification orders or names one of them. Only
invariants and action properties, which treat them alike, are checked there; the runs
with liveness properties have no symmetry.

Bounds in the specifications: `IdBudget` lets a creation start only while an
instance id is left for it; `PageSize` (1000 in the code) is one, so that every
loop over pages turns more than once; `KEYGEN_ATTEMPTS` (10 in the code) is two,
so that giving up happens; `MaxFaults` bounds the faults on one body. Two tasks
are enough for the races found here and for any property that relates one task
to what all others did to the store; the theorems below have no such bound.

`CHECK_DEADLOCK FALSE` is used in `inputs` only, where a request that was
served is the end of a behaviour.

Faults that are modelled: a client that hangs up between two driver calls; a
process that dies between two statements; SQLITE_BUSY; any driver call that
fails; bodies and requests that are damaged, cut short, delayed or delivered
twice; documents that break off.

Fairness: in `Gateway`, weak fairness of each task's next step, because tokio
polls every task that has been woken and a driver call takes finitely long. It is
fairness of the call that answers (`Proceed`, `AdminProceed`), not of one that
fails: a loop that only a failure would end does not end. Clients need not send
requests nor hang up. In `MCListing`, weak fairness of the
command line's loop over `user_list`, which awaits one call after the other;
administrators need do nothing. For object listings there is none, since clients
owe nothing: that a client which goes on gets to the end is stated as the safety
property `MarkersAdvance`.

## Proofs

TLAPS checks every proof to the last leaf, for any sets of users, keys, names,
ids, requests, processes, payloads and any page size, from the assumptions stated
with the CONSTANTS: types, distinct sentinels, that the database file that is
opened is finite and satisfies SCHEMA (`SeedAssumption`), that finitely many
requests run at a time (`S3Assumption`), that a client sends chunks of at least one
byte, a trailing checksum only in the modes that announce trailers, and a trailer
signature only behind a checksum and where it announces signed trailers
(`PayloadAssumption`),
that the server's list of capability types is finite and that splitting the text
of a permission gives one word at least (`CapsAssumption`, as `str::split` does),
that the parser's `None` is no text (`DeleteAssumption`), and about clients that
sign (`IntentType`, `SigV4Assumption`):

- the bucket they mean has no slash in its name, since a URI could not say so;
- none of their query parameters is named `X-Amz-Algorithm`, which would make the
  request a presigned one, and those are not implemented (`Presigned`);
- they sign `host`, and the content type only if they send one: the list must be
  sorted and hold `host` (`SignedHeadersOK`), and a signed header that is missing
  is skipped by the server, so that the signature cannot match;
- an access key id is not empty, and times lie within the days there are names for.

A theorem with a further hypothesis names it. The hypotheses are what the races of
the violating runs show to be needed, and each is true of a server used that way:

| Hypothesis | Says | Needed because |
|---|---|---|
| `OneServer` | only the process that serves objects puts them | `get_object` is several statements outside a transaction |
| `EditsApart` | no two admin operations are at the same moment between the load and the write of one user | `key_race`: records are written back whole |
| `OneAtATime` | one admin operation runs at a time | `users.email` is not UNIQUE |
| no bucket is created, `SeedOwnersExist` | meanwhile no S3 client creates a bucket | `owner_race` |
| users do not change, `SeedWithinQuota` | nobody edits users; no quota is exceeded at the start by more than the bound | a lowered `max_buckets` removes no bucket |

`OneAtATime` is what one person at a command line does, and more than one
`AdminReq` may still exist; `S3QuotasHold` and `OwnersRemainWithoutCreation` derive
the hypotheses about steps from the constants alone.

### Store

- `DriverConsistent`: `TypeOK /\ StoreConsistent` is inductive under
  `DriverNext`. The parts need each other: that removing a user removes its
  keys from the index needs uids to be unique, that removing a bucket leaves no
  object behind needs names to lead to one instance.
- `SqliteImplementsDriver`: `SqliteSpec => DriverSpec`, for any number of
  processes and any calls. The committed tables alone say nothing about what a
  transaction is going to do to them. `SqliteInv` adds what a snapshot is worth:
  until a transaction writes, its snapshot is the last commit, and its checks
  hold of it, unless the connection is in `stale`, in which case SQLite refuses
  the write; once it writes it is the one writer, nobody else commits, and its
  tables are the last commit with the statements executed so far
  (`SnapshotFits`, `LocksFit`). So its commit is the step of `Driver`.
  `ConnectionsLetGo` is part of the same invariant; `SqliteKeysConsistent` and
  `SqliteBucketsConsistent` follow with `DriverConsistent`.
- `AnswersHold`: `AnswersFit` says, statement by statement, why the answer a call
  is heading for is among those it could have given so far: the outcome of the
  call on the present commit always is; after the first SELECT of a read, either
  the bucket still exists or the answer without it was possible; while
  `get_object` fetches the bytes, the row it has is the one in the table or the
  table has none, and that is where `OneServer` is used.

### Gateway

- `GatewayTypes`: each task has in hand what its next step uses (`RequestOK`,
  `AdminRequestOK`), by one lemma per action of `S3Ops` and `AdminOps`.
- `GatewayImplementsDriver`: `Spec => DriverSpec`. The refinement mapping is the
  identity on the four tables; every step of a task is a driver call or leaves
  the store alone. `GatewayKeysConsistent` and `GatewayBucketsConsistent` follow
  from it and `DriverConsistent`.
- `BucketStaysAuthorised`: that a loaded instance is unchanged is not inductive
  by itself. The invariant `GatewayInv` adds that every instance any task
  remembers was minted (`Remembered`), so that no later `create_bucket` can give
  its id to another bucket, and that access was checked when it was loaded
  (`HoldsBucket`); the same for the listings of purges (`HoldsListing`).
- `WritesStayUnderAccess`: every change of `objects` by a request or purge is in
  the instance it holds, which by `GatewayInv` is still the one it was
  authorised for.
- `PurgesComeFirst`: `PurgesOK` says that the listed buckets which still exist are
  exactly among those still to be done; a bucket leaves that set only when
  `remove_bucket` by name succeeded, and by `BucketNamesOneInstance` and
  `GatewayInv` that name led to the listed instance or to none of the listed ones.

The actions of `S3Ops` are first summarised by what they do to one task's record
(`Moved`), those of `AdminOps` likewise (`AdminMoved`); the invariants below are
then about a few kinds of move and not about every action.

- `BatchesAccount`: `BatchOK` says of each key that its entries among the deleted
  and the errors and its places in what is left add up to its places in the call
  (of a quiet batch, that nothing is listed as deleted), and that an error which
  says NoSuchBucket means the bucket is gone for good, since an instance id never
  comes back. Every other error is InternalError.
- `QuietBatchesDelete`: a step of a batch that adds no error was a `delete_object`
  that answered Ok, and then no row of that instance and name is left; so what a
  quiet answer leaves out was deleted.
- `ListingsAreComplete`: `ListingOK` says that a bucket there all along has been
  shown once the marker is past its name.
- `QuotasHold`: counting is a loop of driver calls, so at any moment several tasks
  have seen part of what there is. For a number `v`, a task contends at `v` if it
  is past its count or can still end it with at most `v` buckets counted (`Ahead`:
  those it has and those ahead of its marker). `QuotaUserOK` is a potential: for
  every `v` of at least `max_buckets - 1`, buckets owned plus contenders at `v`
  never exceed `|S3Req| + v`. One `v` would not do: a creation by another task
  raises what a counting task has ahead and moves it from `v` to `v + 1`. With the
  least `v` the bound is what the theorem says. `S3QuotasHold` needs no hypothesis
  about steps, since S3 requests never write users.
- `StatsFailForRemoved`: `StatsOK`, that what is still to be measured was listed.
- `OwnersRemain`: `RemovalOK` follows `user_remove` through its two ways. Without
  purge nothing is owned once the listing was empty; with purge every bucket still
  owned is in the list, page by page; with `PurgesOK` none is left when
  `remove_user` comes.
- `EditsKeepKeys`, `UsersAppearCreated`: `EditOK`, that the copy in hand still has
  every key of the stored record and that the record is still there.
- `EmailsStayUnique`: `EmailOK`, that nobody else holds the email in hand.

### Listings

`ListingProofs` shows first that `Less` is a strict total order of all texts, and
that a finite set of them has a first and a last and can be cut into its first
`max` and the rest (`FirstOfParts`, by ranks).

- `PagesHoldFirstEntries`: the first delimiter after the prefix is the shortest
  part that ends in one (`EntryIs`, `ShownIsEntry`), names in order have entries in
  order (`EntriesInOrder`: an entry that starts two names starts everything between
  them), so remembering the last prefix alone is enough to show each one once
  (`KeptAre`), and the rows that are kept map one to one and in order to the entries
  there are to list after the marker (`KeptEntries`, `Carried`).
- `ListingsInOrder`, `SteadyKeysAreListed`, `MarkersDoAdvance`: the invariant
  `ListerOK` adds what the marker is worth: everything seen is at or below it, and
  a key there all along has been shown or its entry is above it. What is put and
  deleted meanwhile cannot disturb that, since it speaks of entries and not of rows.
- `UsersAreListed`: the same for `user_list`, with `UsersOK`, for every set of
  uids. A marker is parsed again and may not be the text of the row it was made
  from; `misread` remembers such rows. The invariant says that a user there all
  along is beyond the marker, or has been shown, or lies between a misread row and
  the text it reads back as.

### Inputs

- `HeadAgreesWithGet`, `ResolvedIsSelected`: case analysis of the range functions
  for every size and number; `HeadReports` and `BytesServed` state them of the
  requests that are served (`RangeInv`).
- `NamesChecked`: each direction assumes a byte or a label that does not fit and
  looks at the two dots around it.
- `ReplaysExpire`: every time at which a request is accepted is within the skew of
  the time it was signed for, however late it arrives and however often. `SigInv`:
  between the clock check and the lookup the date on the wire was within the skew
  of the clock, and the signature is the one made for the intent's time; so when
  the signatures agree, that date is the intent's.
- `AcceptedAsSigned`: from the signature, a term, to the six parts of the two
  canonical requests being equal, and from each of them to what the handlers see.
  A path: encoding tells characters apart, so the decoded paths are equal, and if
  the first raw slash is not where the client put it there is an escaped one before
  it (`PathHandled`). A query: both sides are sorted and joined. Splitting what was
  joined gives back the parts (`SplitJoin`), since no encoded text holds a `&` or a
  `=` (`SplitPairCoded`), so the two sorted lists are equal; sorting, a loop that
  puts each pair in its place, moves the pairs by a bijection (`SortedIs`,
  `PlacedMoves`), so each pair occurs as often in the one query as in the other
  (`JoinedCounts`). `canonical_query` and `Args` decode the same pairs
  (`QueryRead`), whatever the tokens are, so the wire need not be known to have
  been changed only once. The invariant `SignedInv` adds that what arrives stays a
  text of tokens and that the signature is the one made for the intent.
- `SpellingsAreAccepted`: the other way. `QueryMeans`: every way to write a query
  is, once a plus is a space, its parts joined (`PlusJoin`), and each part reads as
  the pair that was meant (`PairRead`: the first raw `=` is the client's, or there
  is none and the value is empty). So the canonical request of an untouched
  request is the one the client signed (`WireMeans`), and of all the checks of
  `verify` only those of the clock and the user can turn it away (`SpeltStep`).
- `PayloadsIntact`: `Decoding`, that the chain so far is that of the first `k`
  chunks the client signed and what is decoded are those chunks. Every unit the
  transport can produce is one the client sent or a garbled one, so the next
  signature that fits is the one of chunk `k + 1` over exactly its bytes, or the
  closing one.
- `WellFormedIsDelivered`: `Arriving`, that without a fault the decoder stands at
  the beginning of frame `k + 1` or behind the last one, where `FrameFlat` says
  the frames of any chunks begin. `FrameRead` and `TailRead` then say what it
  reads there, so no branch that rejects can be taken. A trailer signature is read
  as one more trailer behind the checksum (`UnitRead`, `SealRead`).
- `OneFaultIsNoticed`: a body after one fault is the sent one up to some place and
  the sent one, shifted by at most one unit, behind it (`FaultShape`). If the place
  is in the tail, every chunk was read as sent (`LateRun`). If it is in frame `k`,
  either that frame still decodes to its own bytes or the payload the decoder ends
  with differs from the sent one, and the trailer it then needs is the sent one,
  over the sent bytes (`EarlyRun`); a body that has no frame of size zero left
  never gets to the trailers (`LostRun`).

### Documents

- `CapsReadBack`: a map that can be stored has known types and no entry without
  bits (`Good`). Such a map is determined by the bits it gives each type, so `add`
  and `remove` are unions and differences of those (`AddIs`, `RemoveIs`) and their
  order does not matter. `ReadBack`: what `serialize` writes of it, `deserialize`
  reads as the same map. The invariant is that the record is what is written of
  the map that the pairs describe.
- `DeleteListsRead`: `Run` is the parser over a list of events, and a run over two
  lists is the runs one after the other (`RunConcat`). From the leaves up: pieces
  of text are appended to the buffer (`PiecesRead`), an element leaves path and
  depth as they were (`ElementIs`), a leaf sets the key or the version id
  (`LeafRead`), the last of each name wins (`LastOf`), an `Object` element appends
  what its leaves said or ends the reading when it has no key (`KidRead`), and so
  to the whole document (`WholeRead`). The invariant `ReadingInv` says that the
  parser is where the events handed over have brought it.
- `CutListsDelete`: objects are only ever appended (`RunGrows`), so what any
  prefix of the events has produced is a prefix of what the whole document asks
  for, up to the first element that ends the reading (`NamedSoFar`).

The prover cannot use induction theorems that take an operator as a parameter.
Where a fact needs induction (names between two dots, concatenated chunks, first
differing characters, ranks), the proof takes the least natural number in the set
of counterexamples (`LeastNatural`, from `WellFoundedInduction`) and refutes it.

Model-checked only:

- liveness (`S3RequestsEnd`, `AdminOpsEnd`, `UserListingEnds`), beyond the prover;
- what the violating runs refute.

`SigV4` sorts and splits by recursive functions and not by `SortSeq` and the folds
of the community modules: those take an operator as parameter or choose among all
permutations, and nothing can be proved of them here.

## Not modelled

Writing of response documents (`xml.rs` but for the delete list, `dump.rs`,
`rgw-rest`): formatting, with no state and no control. The JSON of the stored
records but for capabilities: serde's derived code. Parsing of single query
parameters and command line flags. `encoding-type=url`. Cryptography. The test
harness.

## Plan

1. Done: ranges, driver, authentication, S3 and admin operations, the gateway,
   listings, statements and processes, payloads, signatures, delete lists, names,
   capabilities; a theorem for every invariant and action property above that
   holds.
2. Left: presigned requests and copying, once the code has them; the liveness
   properties, once the prover reaches them.
