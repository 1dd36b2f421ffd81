# TLA+ models of the Grok reverse proxy

This directory models the proxy component by component, checks the models with
TLC and proves the most important properties with TLAPS for every value of the
constants. Paths are relative to the repository; a bare file name is in
`internal/proxy`, `store.go` in `internal/credential`.

## The system

| Component | State | Operations | Talks to |
| --- | --- | --- | --- |
| Account pool (`store.go`) | per account `inFlight`, `cooldownTill`, `UpdatedAt`; per lease a `sync.Once` | `Acquire`, `Release`, `Cooldown`, `Count`, all under the store's mutex | called by the request handler |
| OAuth refresh and runtime state (`store.go`) | per account the token pair and its expiry under the account's mutex; the state file | `AccessToken`, `Info`, `List`, `save` | OAuth endpoint over HTTP, the file system |
| Credential loading and parsing (`store.go`) | the account map, once at start-up | `Load`, `loadFile`, `Parse` | state file, `auth.json` files |
| Request handler (`handler.go`) | locals of one goroutine per request | `ServeHTTP`, `proxy`, `forwardRequest` | pool, tokens, upstream, client |
| Stream conversion (`stream.go`) | `streamState` of one response | `streamConverted`, `consume` and its helpers; `streamResponses` copies bytes | upstream body, client |
| Responses (`response.go`) | none | `writeNonStream`, `copyUpstreamError`, `parseOutput`, ... | upstream body, client |
| Requests and models (`request.go`, `model.go`) | none | `prepareRequest`, `canonicalModel` | |
| Configuration (`internal/config`) | none | `Load`, `Validate` | environment |
| Process (`cmd/grok-reverse-proxy/main.go`) | server, signal context | start-up, graceful shutdown | all |

A client's request is admitted by `ServeHTTP`, converted by `prepareRequest`,
and sent by `proxy` with the token of a leased account; after a failure the loop
benches the account and leases another. The answer is relayed by one of the
converters while the lease is held. All requests share the store.

What is hard about it:

* Request goroutines share accounts. Two mutexes protect different fields of
  the same struct: `Store.mu` the pool fields, `account.mu` the credentials.
  `Acquire` reads `UpdatedAt` under the first while `AccessToken` writes it
  under the second.
* `account.mu` is held across the OAuth exchange, and `save` takes every
  `account.mu` inside `Store.mu`; the write and the rename come after both.
* Refresh tokens rotate: the server accepts only the last one it issued, so a
  lost answer, a failed save or a crash at the wrong point costs a login. At the
  next start the state file is merged with `auth.json`, which still has the
  token of the login.
* The retry loop leaves its body in nine places; each must close the response,
  bench the account and give the lease back, in that order. The client may leave
  at any of them.
* A stream can be cut at any byte, and the converter rebuilds from a flat list
  of events the block structure an Anthropic client expects. Events may come
  after the terminal one, arguments after another item or under an unknown id. A
  client that does not stream should get the same answer from another piece of
  code.
* Two dialects of requests are flattened into one, turn by turn.
* The signal that stops the process races the start of the server and the
  requests in progress.

What makes each component correct: the pool hands out an account within its
limit, the least loaded first, never while it cools, and loses no slot; the
handler keeps a lease exactly while it serves, ends, answers, and renews a
refused token; the token store never presents a spent refresh token by its own
fault, keeps the state file whole and up to date, and never blocks for ever; a
start takes the newest pair of every account; the converters lose and double
nothing, end every stream once and with the right reason, keep blocks and calls
apart unless the upstream itself mixes them up, and agree with each other; the
process stops when it is told to.

## Modules

| Module | Models | State and actions |
| --- | --- | --- |
| `AccountLeasing` | the promise of the pool | who holds which account, which accounts cool; `Take`, `Give`, `Cool`, `Thaw` |
| `AccountPool` | `Store.Acquire`, `Lease.Release`, `Lease.Cooldown` | the three fields of each account, a lease and its `once` per request, a clock; one action per call, since each holds the store's mutex throughout. `StampBegins`/`StampEnds` bracket the racing write of `UpdatedAt`; while an account is being stamped, a comparison with it may come out either way |
| `ProxyHandler` (extends `AccountPool`) | `ServeHTTP`, `proxy`, `retryAfter`, `drain` | where each request is in the loop and its locals; pool actions are used as they are, one step of the goroutine per call. `Refreshing` stands for the account's mutex. `Depart` is a client that leaves: from then on every call with the request's context fails |
| `GrokProxy` (extends `ProxyHandler`) | the handler with the access tokens | each account's current token, the token each request holds, the one it was refused. Its mapping to `TokenService` says what it takes `AccessToken` to do |
| `TokenService` | the promise of `AccessToken` | each account's current token and the state of each call; `Ask`, `Reuse`, `Decide`, `Renew`, ... |
| `TokenStore` | `AccessToken`, `refresh`, `save`, restart; implements `TokenService` | the pair as the server, memory and the file know it; both mutexes; one action per critical section, and the assignments inside one split in two |
| `CredentialLoad` | `Load`, `loadFile`, `Parse` | what the server, the auth files, the state file and memory hold of each login, over logins, refreshes, failed saves, an unreadable state file and restarts; one action per file `Load` reads |
| `StreamConvert` | `streamConverted`, `streamState` | `streamState`, everything written to the client, the phase; one action per kind of upstream event, before and after the terminal one, each with all its writes, of which any may fail; `odd` remembers what the upstream did that properties except, and guards nothing |
| `ResponseConvert` (extends `StreamConvert`) | `parseOutput`, `chatResponse`, `anthropicResponse` | the response object the upstream puts together from the same events, its summaries and refusals in parts, each call with the id this code picks for it |
| `RequestConvert` | `prepareRequest`, `chatToResponses`, `anthropicToResponses`, tools, effort, `canonicalModel` | one conversation, written block by block and converted turn by turn in both dialects |
| `Selection` | the loops of `request.go` and `response.go` that keep some elements of a slice | `Only`, a recursive function, so that it can be proved about |
| `Shutdown` | `main` | `main`, the goroutine that waits for the signal, the server's requests, the ten seconds; what `net/http` does is external |
| `GrokProxy_proofs`, `TokenStore_proofs`, `CredentialLoad_proofs`, `StreamConvert_proofs`, `ResponseConvert_proofs`, `RequestConvert_proofs`, `Selection_proofs`, `Shutdown_proofs` | | theorems about the module each is named after; `GrokProxy_proofs` also has those about `AccountPool` and `ProxyHandler`, on which it builds |

`AccountLeasing` and `TokenService` are the abstract specifications: `AccountPool`
implements the first, `TokenStore` the second, and `GrokProxy` is a client of the
second, so the handler and the token store, modelled apart, meet in it.
`MCAccountPool`, `MCGrokProxy`, `MCTokenStore`, `MCCredentialLoad`,
`MCResponseConvert`, `MCRequestConvert` and `MCShutdown` name the small sets that
the `.cfg` files give to the constants. An operator commented `mutant:` is a
wrong version of the one after it and is used by no specification; it shows that
a property can tell the difference.

Abstractions. Tokens are numbers of grants. A response is the class of its
status. Time is a counter; `Short`, `Minute`, `FiveMinutes` and `Hour` keep only
the order of 15 s, 1 min, 5 min and 1 h. `Info` in the handler waits for the
account's mutex without changing anything, which `TokenStore` models
(`AccountCall`) and `ProxyHandler` does not. The write of `message_start` is
taken to succeed: its error is ignored, and the next write then reports it.
Refresh tokens are never blank in a running process (`loadFile` skips accounts
without one, `refresh` keeps the old one when the answer has none), so the
branch of `AccessToken` for a blank one is no action of `TokenStore`;
`ProxyHandler` allows it as one more way for a token call to fail. A restart in
`TokenStore` reads back the state file; what `auth.json` may change then is the
subject of `CredentialLoad`, where in turn a refresh is one step. The state
file's name is never empty: `config.Load` supplies a default. Texts are counted
by their deltas, a newline between two summaries counts as one, and a block of a
conversation is known by its place in it. A call is an item of its own, whatever
ids it comes with: `Ids` gives its `id` and its `call_id`, either of which may be
missing or another call's, and the converters choose among them as the code does.
The upstream adds each call once, and its arguments come under one of its ids or
none. The arguments of a call without any are `Braces`, which an Anthropic input
does not show.

## Runs

| Run | Instance | Shows |
| --- | --- | --- |
| `pool` | 2 accounts, 2 slots, 3 requests, clock 0..2 | `LeaseAccounting`, `CapacityRespected`, `LeastLoadedChosen`; the pool implements `AccountLeasing` |
| `handler` | 2 accounts, 1 slot, 2 requests, clock 0..2, 1 grant each | no lease (`LeasesFollowRequests`) or body (`BodiesClosed`) is lost on any path; `NoCallWhileCooling`; `CooldownNeverShortened`; `TokensFollowLeases`: nobody renews a token under a request |
| `handler_shared` | 1 account, 2 slots, 2 requests that may leave, 2 grants | `EveryRequestJudged`: every request is answered or reaches the relay; `LeaverLetsGo`: a client that leaves gives its lease back; `RetryUsesNewerToken` after a 401; the handler is a client of `TokenService` |
| `tokens` | 1 account, 2 goroutines, every kind of call, 2 grants | `PresentedTokenIsCurrent`: of two goroutines that meet an expired token none presents what the other has spent; `NoTornCredentials`, `RefreshedTokenWasSaved`, `EveryCallReturns`, the store implements `TokenService`, and no deadlock |
| `tokens_restart` | 2 accounts, 1 goroutine, 2 grants each, 2 restarts | `RotationIsDurable` |
| `load` | 2 users, 3 logins, 2 auth files, 2 rotations each, 1 unreadable state file, clock 0..2 | `NoRollback`: no start goes back to a spent refresh token; `NewLoginSupersedes`; `SavedAccountsKept` |
| `stream` | 3 calls with two ids, one and none, 5 upstream events in any order, cut at any event or write | `FinishedOnce`, `BlocksWellFormed`, `ArgumentsReachTheirCall`; `SameAnswer`, `SameBlocks`: with and without streaming |
| `request` | up to 3 turns of 3 blocks; every model name, tool choice and spelling of the effort | `EachBlockOnce`, `TurnsKeepTheirOrder`, `EndpointsAgree`, `ModelsResolve`, `EffortHonoured` |
| `shutdown` | 3 requests, a signal at any moment | `SignalStopsProcess`; `StopIsNoError` |
| `tokens_rollback` | 1 account, 2 goroutines | finding: overlapping saves roll the file back |
| `load_lifetimes` | 1 auth file, tokens of two lifetimes | finding: a start goes back to a spent pair |
| `shutdown_drain` | 3 requests | finding: the process exits with requests open |

Eleven more `.cfg` files state what one might expect of the code and does not hold,
though the repository does not promise it. TLC refutes each at once:

| File (module) | Property | Why it fails |
| --- | --- | --- |
| `MCTokenStoreUnsaved.cfg` (`MCTokenStore`) | `ServedTokenWasSaved` | a failed save returns an error but leaves the pair in memory (store.go:213), and the next call serves it unsaved |
| `MCGrokProxyReply.cfg` (`MCGrokProxy`) | `RefusalReachesClient` | a refusal whose body cannot be read becomes an empty 200 (response.go:186) |
| `MCResponseParallel.cfg` (`MCResponseConvert`) | `FormedIfNamed` | arguments of a call after another block was opened go into the closed block (stream.go:194) |
| `MCResponseRepeated.cfg` (`MCResponseConvert`) | `SeparateIfNamed` | of two calls with one id, the arguments of the first get the index of the second (stream.go:174) |
| `MCResponseLate.cfg` (`MCResponseConvert`) | `NothingAfterEnd` | what follows the terminal event is converted and written after the client's end of the stream (stream.go:54) |
| `MCResponseIds.cfg` (`MCResponseConvert`) | `SameIds` | of an id and a call_id a stream gives the client the first, a response the second, and each invents another if both are missing (stream.go:164, response.go:82) |
| `MCResponseSummary.cfg` (`MCResponseConvert`) | `SameThinking` | only the response has newlines between summaries, and only the stream has reasoning outside of them (response.go:75, response.go:90) |
| `MCResponseRefusal.cfg` (`MCResponseConvert`) | `SameRefusal` | the text of a refusal reaches a client only if it does not stream (response.go:71) |
| `MCRequestOrder.cfg` (`MCRequestConvert`) | `PartsKeepTheirOrder` | inside one turn, calls and results are placed by kind (request.go:149) |
| `MCRequestEffort.cfg` (`MCRequestConvert`) | `EveryFieldRead` | `outputConfig` is taken out of the payload and never read (request.go:275, request.go:294) |
| `MCCredentialShared.cfg` (`MCCredentialLoad`) | `OneAccountPerSession`, `SharedFiles = TRUE` | of a file with several sessions, the pair and the identity may come from different ones (store.go:348) |

Bounds. Three requests and two slots make an account full while the other has
room and let a lease be released twice while a third request holds the same
account. With two requests over two accounts an account changes hands between
any two steps of its previous holder, and each request can fail on every
account. The clock runs long enough for a penalty to expire, for an account to
be reacquired and for a second penalty to meet a running one; in
`handler_shared`, which is about one account's token, it stands still and all
penalties are equal. Two grants give a stale and a current pair to each of two
overlapping saves, and to two requests on one account a renewal each. One account
is enough in `tokens`: a goroutine never holds two account mutexes, so a cycle
can only involve one of them and the store's; `tokens_restart` has two, since a
save writes them all. In `load` one user has two logins, in one file or in two,
next to another user; two rotations tell a pair one behind from the first, and
one fault is what `lost` has to account for. Five events are two calls and
arguments of each, in any order, with the terminal event or one after it, or a
thought, a text, a call, its arguments and the terminal event. Of the three calls
one has two ids, one a `call_id` only and one none; the upstream calls the first
`call_0`, which is what the proxy calls the third if no block came before, so two
calls can collide behind a third. Three turns are a system, a user and an
assistant's, or a call, its result and what follows; three blocks put one kind
between two of another. The names, tool choices and efforts go with conversations
of one block, because no code reads both. Three requests are one that is open,
one answered and one that arrives during the shutdown. `CHECK_DEADLOCK FALSE` is
set where a stream, a conversion or the process is over; everywhere else
goroutines start new calls for ever.

`NoCallWhileCooling`, `CooldownNeverShortened` and `TokensFollowLeases` are claimed
for one request per account, the default. With a higher limit they do not hold:
`Cooldown` assigns the deadline whatever it was (store.go:177), so the second
holder's 15 seconds replace the first one's `Retry-After`, and a second holder
may renew the token of the first. `RotationIsDurable` is claimed for saves that
do not overlap; `tokens_rollback` shows why. `NoRollback` is claimed for access
tokens that live equally long; `load_lifetimes` shows why.

The properties of a stream say what they ask of the upstream. `odd` records events
after the terminal one ("late"), arguments of a call that is not the current item
("mixed"), under another id than its item had or before it ("misnamed"), and an
item whose id another one has ("repeated"). `FinishedOnce` excepts late events only
in what follows the end, and misnamed arguments only in what precedes the opening,
since `toolDelta` does not open a stream. `BlocksWellFormed` is claimed without mixed
and misnamed arguments, `ArgumentsReachTheirCall` without misnamed ones and repeated
ids. `SameAnswer` and `SameBlocks` are claimed of a `Regular` response, which may mix
its arguments, without refusals and reasoning outside a summary (`OneSided`), and
compare the ids of the calls that have only one; `SameBlocks` takes one summary.
The table above has what happens without each of these.

`excused` in `TokenStore` records that an answer of the OAuth endpoint was lost
after it rotated the token, that a save failed, or that the process died between
the two. No client of such an endpoint can avoid the first and the last; the
properties say that nothing else loses a token, and `PresentedTokenIsCurrent`, which
is about one life of the process, excuses the lost answer alone. `lost` in `CredentialLoad` does
the same for a login: its last pair is in no file that can be read.

Fairness. Goroutines are scheduled (weak fairness of their own steps);
`http.Client.Timeout` ends the exchanges and upstream calls, so their steps
count as the goroutine's own. `sync.Mutex` hands itself to a waiter after a
millisecond (its starvation mode), which is strong fairness of the steps that
take one. The relay is not fair: it also waits for the client to read, and the
server has no `WriteTimeout`; once the client is gone its writes fail, and
`net/http` cancels the request's context, so then it is. New requests, clients
that leave, the clock and crashes are not fair either. In `Shutdown` the steps
of `main` and of the watcher are fair and so are the ten seconds; signals,
failures, arrivals and the end of a request are not.

## Proofs

The assumptions are those the modules name (`PoolAssumption`, ...): finite sets
of accounts and requests, natural bounds, constants that are none of the
others. `RequestAssumption` says of a request that its model's name is a base,
after a route or not, with suffixes or not: `canonicalModel` cuts names apart at
slashes and suffixes, and the model has them cut. What else a theorem needs is in
its statement.

`GrokProxy_proofs`, of the pool (`PoolSpec`), for every limit and every sequence
of cooldowns:

* `TypeCorrect`: the type invariant, inductive by itself.
* `AccountingCorrect`: `LeaseAccounting`. Inductive together with the types:
  `Acquire` adds to an account's holders a request that held nothing
  (`TakenHolders`), the first `Release` removes one that is there
  (`GivenHolders`), and the counter follows because a non-empty set of holders
  makes it positive, so the `inFlight > 0` test never swallows a decrement.
* `CapacityCorrect`: the limit holds of the leases themselves. `Acquire`
  compares the counter only; `LeaseAccounting` is what makes that enough.
* `LeastLoadedCorrect`: the action property, from `LeaseAccounting`.
* `LeasingCorrect`: the refinement. Each step of the pool is a step of
  `AccountLeasing` or leaves its variables alone; `LeaseAccounting` turns the
  counter's test into the guard of `Take`.

`GrokProxy_proofs`, of the handler (`HandlerSpec`): `HandlerInv` joins the types, the pool's accounting and
limit, `LeasesFollowRequests`, `BodiesClosed` and `NoCallWhileCooling`; each
action is first classified by what it does to the pool (`StepCases`).
`HandlerTypesCorrect`, `LeasesCorrect`, `BodiesCorrect`, `PoolCorrect`;
`CoolingCorrect` and `CooldownCorrect` for one request per account, where the
limit makes a lease exclusive, so that only its holder can set the deadline and
has left before it does; `HandlerUsesPool`: the handler implements `PoolSpec`,
if the pool may be given any natural number as a cooldown.

`GrokProxy_proofs`, of both with the tokens (`GrokSpec`): `GrokUsesHandler` shows that adding tokens adds no behaviour,
so that every theorem about `HandlerSpec` holds here. `TokenInv` adds that no two
requests renew one account at once (`OneRenews`), that a renewal has room
(`Room`) and that no request holds or was refused a token younger than its
account's (`NotNewer`), from which `RetryCorrect`, `TokensFollowCorrect` and the
refinement `TokenServiceUsed` follow.

`TokenStore_proofs`: `Safe` has the types and who holds which mutex; `Tokens`
orders the copies of a pair, file <= memory <= server, a clone in between, and
says that each was issued as it is. It gives `TypeCorrect`, `NotTorn`,
`RefreshedSaved` and, by a mapping that counts a renewal from the assignment on,
`ServiceImplemented`, all with any number of goroutines and crashes. `Current`
says that memory has the accepted refresh token unless the answer that had it was
lost or it is on its way: `PresentedCurrent`, for one life of the process, with any
number of goroutines and failed exchanges and saves. `RotationDurable` is for one goroutine
and any number of crashes, and adds that file and memory agree between saves.

`CredentialLoad_proofs`: `NoRollbackCorrect`, if every file holds one session and
all tokens live equally long. `Inv` says that what memory and the state file hold
of a user is the last pair of its session or lost (`Good`), that a refreshed
session has left in the state file something not older than its login
(`Superseded`), that an unreadable file costs what it held (`Unreadable`) and
that memory is not older than the file (`MemoryAhead`). `NewLoginSupersedesCorrect`
needs only that every file holds one session: while `Load` runs, memory has of each
user something that expires no more than a minute before the pair of any file read
so far (`ReadSoFar`), and what is read later replaces it only if it is newer.
`SavedAccountsKeptCorrect` and `TypesCorrect` have no premise.

`StreamConvert_proofs`: `IInv` describes what was sent as a sequence (`Good`) and
says how `streamState` summarises it (`Tracks`). What depends on the upstream is
conditional on `odd` part by part: the blocks on "mixed" and "misnamed", the indexes
of calls on "misnamed" and "repeated", the end on "late". `Good` is closed under
prefixes, which covers the write that fails. `StreamTypesCorrect`,
`ArgumentsCorrect`, `FinishedCorrect` and `BlocksCorrect` hold for any calls and ids
and any number of events, those after the terminal one included.
`ResponseUsesStream` carries them over to `ResponseSpec`.

`Selection_proofs`: what `Only` returns, for any sequence: its type, its length,
what it does to a sequence that is extended or joined to another, that selecting
twice is selecting what both select. The library's induction theorems take an
operator, so induction is done over sets: a set of naturals (`NatInduct`) or of
sequences (`SeqInduct`) that is closed holds them all, because otherwise there
would be a least one outside; `Recursion` gives the recursive function its
equations in the same way. `RequestConvert_proofs` and `ResponseConvert_proofs`
rest on it.

`RequestConvert_proofs`, for conversations of any number of turns of any length:

* `TypesCorrect`: `Conversation` describes the turns and `Outputs` the items, by
  what each pass over a turn makes of it (`ChatPasses` for the loop of
  `chatToResponses`, `ResultsConverted` for the tool messages).
* `EndpointsCorrect`: `SameItems`. One turn adds the same messages, and the same
  calls and results, to both outputs (`NewsAgree`), and each kind is a selection
  from the output, so it stays the same when more is appended.
* `BlocksCorrect` and `OrderCorrect`: `Faithful` says of an output that every block
  said is heard with its role (`Heard`), from one place (`Once`), and that the
  places follow the turns (`Ordered`). It holds of what one turn adds
  (`NewsFaithful`), and joining two outputs keeps it if the second is from a later
  turn (`Joined`); `Placed` says that blocks are numbered by their turn and answer
  only earlier ones. That is why no result precedes its call.
* `EffortCorrect`: of the tables of `normalizeEffort`, each transcribed as it is in
  the code, that they agree on every word, whatever string a field holds, but for
  "xhigh", which only one model has; and that no field that is read is lost.
* `ModelsCorrect`: `Payloads` describes the request that was sent.
  The loop of `canonicalModel` over the suffixes strips a name of any length to its
  base, whatever their order (`Trimmed`); a single pass over them would not.

`ResponseConvert_proofs`: `RInv` relates the writes of the stream to the response
object the upstream has put together so far. The writes started the object's items
in their order, each call with an id both converters take if it has only one, each
with as many deltas as the item has parts (`Mirrors`), and as many of text and
thinking in all (`Tallies`); until the stream is finished `streamState` knows the
open item, and no call is two items (`Linked`); the reason sent is the one the
object's calls and status demand (`Reasoned`). These hold while no write has failed,
the upstream was regular and the model has not refused; that neighbouring items
differ unless they are calls (`Separate`) holds always. Each event keeps it,
arguments that come mixed included (`ArgumentsAnswer`). `SameAnswerCorrect` follows:
the blocks a client puts together are those of the items (`BlocksFor`), and so are
those of the object, and selecting the calls from either side gives the same
sequence (`ToolBlocks`). For `SameBlocksCorrect`, an output that is ordered and
`Separate` has at most one reasoning item and one message, in front of the calls
(`FirstBlocks`). `ResponseTypesCorrect` ties the items to the calls.

`Shutdown_proofs`: `StopCorrect` and `TypesCorrect`, for any number of requests.
`main` leaves `ListenAndServe` without an error only after the watcher has called
`Shutdown`, which takes a signal.

Only model-checked: liveness, which is out of the prover's reach
(`EveryRequestJudged`, `LeaverLetsGo`, `EveryCallReturns`, `SignalStopsProcess`).
Every other property of a passing run is stated by a theorem, under the premises
named above.

## Findings

1. Overlapping saves (store.go:272-303): the snapshot is taken under the store's
   mutex, the rename happens after it is released. Run `tokens_rollback`.
2. `loadFile` takes the pair whose access token expires later for the newer one
   (store.go:251), so a refresh answered with a shorter life than the login's is
   undone by the next start. Run `load_lifetimes`.
3. `main` returns as soon as `ListenAndServe` does (main.go:57), which is when
   `Shutdown` starts, not when it has drained. Run `shutdown_drain`.

## Not modelled

* Configuration: `Load` and `Validate` check independent conditions on single
  values once, before anything runs, and have unit tests; a property would restate a
  condition. What they guarantee is used as an assumption on the constants.
* Of the requests: sampling parameters, schemas and metadata, which are copied;
  messages with null content; images inside tool results; the order of messages
  relative to calls and results, which `EndpointsAgree` compares apart; the body of a
  `/v1/responses` call, in which `prepareRequest` replaces the model and the effort,
  sets `store` to false and drops `messages`.
* Of the responses: usage, the identifiers of a response, JSON encoding, and the bytes that
  `streamResponses` copies; its outcomes are in `Relay`.
* Of the credentials: the walk over the JSON and its spellings of keys, the
  decoding of the JWT. The `Chmod` after the rename may fail in `TokenStore`; at
  start-up that leaves what a process leaves that stops right after `Load`, and
  is no step of its own in `CredentialLoad`.
* HTTP headers, the egress proxy, file modes, logging.
