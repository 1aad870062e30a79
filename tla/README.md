# Verification of web3-backend-go

TLA+ specifications of the backend in `src/`, model-checked with TLC, with theorems proved by
TLAPS. The system is a Gin HTTP server with an in-memory address book, a Postgres table of chains,
and clients of three kinds of upstream service: Alchemy (broadcasting signed transactions), EVM
JSON-RPC nodes, and CoinGecko. It has no tests of its own.

1. [Inventory](#inventory) - the components, their state, what is hard about them
2. [Plan](#plan) - the modules, in order, and what is left
3. [Modules and code](#modules-and-code) - how state and actions correspond to the source
4. [Runs](#runs) - what each TLC run shows, its bounds, the fairness
5. [Proofs](#proofs) - what is proved, from what, along which argument
6. [Assumptions and limits](#assumptions-and-limits)

## Inventory

| Component | Code | State | Operations | Partners |
|---|---|---|---|---|
| Address book store | `internal/appapi/address_book.go` | `mu`, `nextID`, `items` (user -> slice) | `List`, `Create`, `Update`, `Delete`, `clearDefaultLocked` | called by goroutines of net/http |
| Address book handlers | `internal/server/app.go:59-138,183-191` | none | header check, JSON binding, errors to statuses | store |
| App catalog, bind | `internal/appapi/catalog.go`, `app.go:25-57` | constant lists | `Chains`, `Coins`, `normalizeChain`, `UserIDForWallet` | address book shares both functions |
| Chains repository | `internal/chains/repository.go`, migrations 2 and 3 | table `chains` | `ImportFromFile`, `upsert`, `List` | Postgres; `main` before it listens |
| Chains handler | `internal/server/chains.go`, `response.go` | none | page and size parameters, reply | repository |
| Broadcast | `internal/alchemy/client.go`, `app.go:140-171` | API key; what is on the wire | `Broadcast` and its cases, `postJSON`, `stringResult` | Alchemy endpoints |
| Token list | `internal/tokens/service.go`, `internal/server/tokens.go` | package variable `baseTokens`; an RPC client per chain and request | `List`, `cloneTokens`, `fillBalances`, conversions | market client, two public RPC nodes |
| Market data | `internal/market/coingecko.go` | none | `SimplePrice` | CoinGecko |
| EVM service | `internal/evm/*.go`, `internal/server/evm.go` | one RPC client | `NetworkStatus`, `NativeBalance`, `TokenBalance`, `BatchBalances` | one RPC node |
| Health, status | `internal/server/health.go` | none | three pings under one deadline | Postgres, Redis, RPC node |
| Lifecycle | `cmd/api/main.go` | which parts are up | degraded start, import, listen, drain, close | all of the above |
| Config, connections, router, middleware, envelope | the rest | none after start | wiring and I/O | - |

What is hard, and what would make each component correct:

- **Address book.** Every request runs in its own goroutine; one mutex guards a map of slices. A
  user may have one default per chain, but a chain has many spellings ("BNB", "bsc", ...), and
  `Update` can move an entry between chains. Correct means: one default per chain at every instant;
  ids identify entries and are not reused; an entry changes only at its owner's request; each path
  unlocks; and a client cannot tell the book from one that serves requests one at a time.
- **Chains.** The import is a loop of single statements without a transaction. It runs before the
  server listens and before a signal handler is installed (`main.go:62`, `99`), may stop anywhere,
  and is run again by the next start, perhaps with another release's file. Correct means: however
  earlier imports ended, one that gets through has put its whole seed in place; and a client that
  pages through a listing sees each row once, also where rows of an older release tie with new ones.
- **Broadcast.** One post per call, with a timeout, to a service that may act late, answer
  nonsense, or refuse with a transaction id in the answer. Correct means: 200 is never wrong; a
  transaction that only ever got 400 is on no network and on its way to none; a transaction never goes to another chain's network than the
  one its name stands for; every call is answered.
- **Token list.** Each request clones slices of a package variable, writes prices and then balances
  into its clones, dials an RPC client per chain, and gives everything up on the first error.
  Correct means: whatever runs beside it, a request is answered as if it were alone; every client
  that was dialled is closed; and a request ends when nobody waits for it any more.
- **EVM.** One request is a sequence of calls, any of which may fail, to a node and to contracts
  that the client names. Correct means: one amount per address, all of the asset asked for on the
  node's own chain; and 400 only for what the service can see is wrong, which never gets 200.
- **Health.** One budget of 3 s for three pings: a slow service spoils the verdict on the next.
  Correct means: 200 is never wrong about Postgres and Redis, and 503 is not said for the RPC node.
- **Lifecycle.** Starts without the services it cannot reach, listens in a goroutine beside `main`
  that may call `log.Fatalf` at any later time, is killed by a signal before `signal.Notify`, drains
  for 10 s, then runs the deferred closes, also under handlers still at work. Correct means: a drain
  that did not time out takes nothing from anybody; the closes undo the opens in reverse, the pool
  last; the process ends.
- **Numbers.** Machine integers that overflow, and decimals that are trimmed and rounded on the way
  from a token's smallest unit to the app.
- **Tables.** Catalog, token list, EVM service, address book and broadcaster keep tables of chain
  names and contracts of their own, which have to agree.

`PROJECT.json` lists each hazard at its line with the properties that would catch it, or why none
does.

## Plan

| # | Modules | Proofs |
|---|---|---|
| 1 | `RawText`, `Enumeration`, `AddressBookAPI`, `AddressBook` (abstract), `AddressBookStore` (implements it) | `EnumerationProofs`, `AddressBookProofs`, `AddressBookStoreProofs` |
| 2 | `ChainsRepository` | `ChainsRepositoryProofs` |
| 3 | `Broadcast` | `BroadcastProofs` |
| 4 | `Tokens`: token list and market client | `TokensProofs` |
| 5 | `EvmBalances` | `EvmBalancesProofs` |
| 6 | `Health` | in `LifecycleProofs` |
| 7 | `Lifecycle` | `LifecycleProofs` |
| 8 | `Numbers`: timeouts, amounts, values | in `ChainsRepositoryProofs` |
| 9 | `AppCatalog`: bind, coins, and the tables that must agree | in `AddressBookProofs` |

All of them are done. `AddressBookStore` composes the mutex, the goroutines and the slices and is
shown to implement `AddressBook`; `ChainsRepository` composes the imports of successive processes
with a client that outlives them; `Lifecycle` composes `main` with handlers in flight, each reduced to
the service it uses; `Broadcast` and `AppCatalog` relate the tables of two and three packages.

What is left is listed under [Proofs](#proofs) as left to TLC, and under "Not modelled" at the end.
Some proof modules hold the theorems of a second, small module.

## Modules and code

**`RawText`** - the strings of clients and what the program does to them. A string is its trimmed,
lower-case text and two flags (other letter case, white space around). `Trim`, `IsBlank` and
`NormalizeChain` are `strings.TrimSpace`, the blank checks and `appapi.normalizeChain` with its full
table of aliases; `UserIDForWallet` is injective on the lowered, trimmed address.

**`Enumeration`** - the loops that copy some elements of a slice in their order (`List` of the
address book, `Coins` of the catalog, the addresses of a batch). `Ascending(S)` lists a finite set
of positions, `ItemsAt(s, I)` the elements there; neither needs recursion, so that facts about them
can be proved.

**`AddressBookAPI`** - requests, replies and items, shared by the abstract and the detailed book.
`Invalid` collects the checks made before the mutex is taken (header, body, arguments).

**`AddressBook`** - the promise. `entries` maps ids to what was saved, `default` maps a user and a
chain to the id of the default entry, `lastID` only grows. Each request takes effect in one step
between `Receive` and `Respond`. `Restart` empties the book, as the store lives in memory. The code
has flags on the items and no pointers: `Undefaulted` stands for the flag that `Update` overwrites or
that `Delete` removes with its item.

**`AddressBookStore`** - the code. Statements between which another goroutine could be seen to
matter are separate steps:

| Action | Code |
|---|---|
| `Receive`, `Reject`, `Respond` | the handlers in `app.go`; checks at the head of `Create`, `Update`, `Delete` |
| `Lock` | `s.mu.Lock()` |
| `List` | the rest of `List`, which writes nothing |
| `ReadClock`, `BuildItem`, `TakeID` | `address_book.go:98`, `99-109`, `110` |
| `Find`, `NotFound` | the search loops of `Update` and `Delete` and their fall-through |
| `ClearDefault` | `if isDefault { clearDefaultLocked }` in `Create` (trimmed chain) and `Update` (chain as it came) |
| `CreateAppend`, `UpdateWrite`, `DeleteSplice` | `115-117`, `143-149`, `168-169`, each with the deferred unlock |
| `Restart` | a crash at any point, and `NewAddressBookStore` |

`settled` is a history variable: the store at the last unlock. The refinement mapping reads the
abstract `entries`, `default` and `lastID` from it, so that a request takes effect when it unlocks.

**`ChainsRepository`** - `table` is the sequence of rows in the order of their ids. `Start` begins
an import of some release's seed; `Send` sends a row's statement, and the process is then
"executing" until the database answers (`Upsert`, `UpsertFails`), which it may never do.
`RejectEntry` and `Listen` are the other exits of the loop, `Stop` is a crash or a signal anywhere,
`StartDegraded` a start without a database. A client walks through a listing: `StartWalk`, then
`Count` and `Page` (List's two statements) per page; `Refuse` is a page that it does not get (503,
500, nobody listening) and may ask for again. A walk goes on across restarts; `still` remembers
whether an import has changed or reordered what is listed since the first page. `Orders` lets the
database return tied rows in any order; nothing is tied when the `ORDER BY` ends in the id.

**`Broadcast`** - each call has a goroutine (`call`) and what became of its post (`post`), which
outlives the call. `Verdict` gives the checks in the code's order: binding and blank chain in the
handler, API key, supported chain, transaction. `Accept` and `Decline` are the endpoint, external to
the source: it takes a transaction up and answers anything, or refuses. `Classify` is what
`broadcastJSONRPC`, `broadcastTronPayload`, `postJSON` and `stringResult` make of an answer and the
handler of their error. `GiveUp` is `http.Client.Timeout`, a broken connection or a client that
hangs up. `Crash` ends the calls and not the posts.

**`Tokens`** - a heap in small: `slice` is what each owner's backing array holds per chain, the
package's and each request's own, and `lists` says whose slice a request's result points to.

| Action | Code |
|---|---|
| `Receive` | `tokensListHandler`, `ParseChainIDs`, `cloneTokens`, `collectMarketIDs`; without ids `SimplePrice` calls nobody |
| `MarketAnswers`, `MarketFails` | `SimplePrice` and the loop over the prices; `http.Client.Timeout`, a bad status or body |
| `Dial`, `DialFails` | one turn of `fillBalances`' loop, over the chains in any order |
| `Read`, `ReadFails` | `queryTokenRawBalance` and the two writes; the close after the last token and on the error path |
| `AllFilled`, `Reply`, `Fail` | the returns of `List`, 200 and 502 |
| `HangUp` | the client goes away and net/http cancels the request's context |

Balances are named by the wallet they were read for and values by the balance and the price they
were calculated from; what the numbers are is in `Numbers`.

**`EvmBalances`** - one request, since requests share nothing but the node. `Script` is the sequence
of calls that the four service functions make, in their order; `Call` answers the next of them,
`RefuseAsset` is the one refusal after a call. Two failures end in 502: `CallFails` (the transport,
the node, a contract that reverts, a cancelled context) and `UnpackFails`, when a contract that the
client named answers something else than the ABI of an ERC20 says (`Lacks`, external). `Checked`
collects the checks of handlers and service before any call.

**`Health`** (`ProbeInit`, `ProbeNext`, `FairProbe`) - `Skip`, `Answered` and `Expired` are the
three outcomes of a ping, in the order of the code, with `left` the rest of the 3 s in ticks.
`Judge` is the verdict. A Redis client that has sent its ping need not watch the deadline, so that
`Expired` leaves both outcomes open there.

**`Lifecycle`** - `phase` goes through `main` line by line: `Load`, `Open` and `OpenFails` per
service, `Proceed` (import, `signal.Notify`), `StartServer`, then `Signal`, `Drained` or
`DrainTimesOut`, `CloseLast` and `LastClosed` per deferred close, `Return`. `server` is the
goroutine of `main.go:91-96` beside it: `Listen`, `ListenFails` and `Fatal`, which may come while
`main` drains or closes. `LoadFails` and `Fatal` are `log.Fatalf`, which skips the deferred closes
that are left; so does `Killed`, a signal that nobody has asked for (any before `signal.Notify`,
SIGHUP and SIGKILL at any time). `Accept`, `Begin`, `Use`, `Release`, `Finish`, `UseClosed` and
`Drop` are connections with their handlers; a connection that was accepted before the drain may
begin its request in it. `closed` says whose `Close` has been called; the pool's returns when all
connections are back. For the RPC client "closed" is that its `Close` was called: for an HTTP URL
go-ethereum does nothing more.

**`Numbers`** - each behaviour is one conversion (`Ask`, then a step of `Convert`). `Wrap` is the
arithmetic of a `time.Duration`; `RequestTimeout` and `ClientTimeout` go through it. A decimal text
is a numeral `m / 10^k`, and `FormatTokenAmount`, `FormatUSDPrice` and `CalculateEqualUSDT` do to it
what the code's formatting and trimming do; `Ten` is the power of ten that scales it. `Rounded`
sends a tie up, where Go's formatting sends it to the even digit or, for a fraction without an exact
binary form, either way; what `ValueIsNearest` allows is the same for all of these.

**`AppCatalog`** (`AppInit`, `AppNext`, `AppSpec`) - the app's first steps: `Bind`, `AvailableCoins`
under some name of a chain, `Pick` (external), then `TokenList` and `BatchBalances` for the coin it
shows. The three packages' tables are `Catalog`, `BaseTokens` and `StablecoinContracts`.

`MC*` modules hold the constants for TLC. Definitions headed "Mutant of X" are X with a plausible
bug; no specification uses them, they show that each property can fail.

## Runs

| Run | Instance | Shows |
|---|---|---|
| `AddressBook` | one handler, two users (one with two spellings), two chains (one with two names), 2 ids, 2 clock values, blank and rejected requests | steps: `NoIDReuse`, `OnlyOwnersChange`, `DefaultsChangeOnRequest` |
| `StoreConcurrent` | two goroutines, two users, one chain, 2 ids, under `FairSpec` | `IDsIdentify`, `EveryRequestAnswered` |
| `StoreRefinement` | two goroutines, one user, two names of one chain, 2 ids and an id out of range, 2 clock values | `TypeOK`, `OneDefaultPerChain`, `StampsFollowIDs`, `ImplementsBook` |
| `Chains` | seven seeds, four key filters, a size of 1 and the limit of 2, under `FairSpec` | `TypeOK`, `ImportedSoFar`, `WalkSeesEveryRow`, `ImportEnds` |
| `ChainsSize` | the same and a size above the limit; a violation is expected | `ReportedSizePages`, see below |
| `Broadcast` | two calls, two transactions, a chain of the catalog by two names, Tron, a chain that is not supported, under `FairSpec` | `TypeOK`, `SuccessIsTrue`, `RefusedIsNowhere`, `NamesAgree`, `EveryCallAnswered` |
| `Tokens` | two requests, each with a wallet, without one or with a bad one, for one chain, for both and for none, under `FairSpec` | `TypeOK`, `RepliesAreExact`, `ClientsClosed`, `PriceListsEnd`, `AbandonedRequestsEnd` |
| `EvmBalances` | all four requests, lists of up to three parts (good, bad, blank) against a limit of 2, chains 1, 56 and 137, an ERC20, one whose symbol is no string and a contract that is none, under `FairSpec` | `ReplyIsComplete`, `StatusIsJustified`, `AbandonedRequestEnds` |
| `Lifecycle` | three connections, under `FairSpec` | `ClosedOnlyAfterTimeout`, `PoolClosedLast`, `ClosesUnwind`, `StopsUnlessQueryHangs` |
| `Health` | latencies from none to more than the budget of 3 ticks, under `FairSpec` | `OkMeansAnswered`, `BlameIsEarned`, `ProbeEnds` |
| `Numbers` | 16-bit integers, 2 and 1 digits instead of 12 and 8 | `TimeoutIsSet`, `BalanceIsExact`, `ValueIsNearest` |
| `AppCatalog` | every name of a chain, in two spellings for some | `OneCoin` |

The largest has two million states; each finishes within three minutes.

**Why the bounds are enough.** Two defaults on one chain need two entries and two names of the
chain. Interference needs two goroutines; a third can only repeat what one of the two does, since
each holds the mutex or waits. Two clock values tell an early stamp from a late one. An id out of
reach exercises the rejections, and a deleted one the fall-through. The seeds contain a successor
that drops, moves and adds chains, a chain named twice, an entry that does not parse, one without a
key, and no file; with pages of one or two rows and three seeds' worth of rows a walk has several
pages, some of them cut inside a tie, and restarts in between that import the same rows again, other
documents, or other rows. Two calls suffice for a transaction that is sent again while
its first post is still on the wire. Two token requests suffice for one to see the other's balance,
and one of them may have no wallet at all, so that any balance in its reply is foreign. Three
connections let one hold a connection of the pool, one use what is closed first, and one begin its
request in the drain. A
latency of 0 to 4 ticks lets each prefix of the three pings leave some, none or too little of the
budget. The integers of `Numbers` are so small that every product of a number of seconds around
the overflow is met, with wraps to negative, to zero and to small positive numbers; amounts
and prices lie on both sides of each rounding. What the small instances leave open, the theorems
below close for every value of the constants.

`MaxID` and `MaxTime` bound creates and the clock in the guards of `Receive` and `Tick`; they are
constants, and the proofs hold for every value. The deadlock
check is off where a behaviour has finitely many requests and ends when they are answered:
`Broadcast`, `Tokens`, `EvmBalances`, `Lifecycle` (the process exits), `Health`, `Numbers` and
`AppCatalog`.

**Fairness.** `AddressBookStore`: weak fairness of each goroutine's steps (the Go scheduler is
preemptive), strong fairness of `Lock` (a `sync.Mutex` goes into starvation mode after a waiter has
waited for 1 ms and is then handed over in order). Nothing is assumed of arrivals, the clock or
restarts. `ChainsRepository`: weak fairness of the import loop's own steps. Nothing makes the database
answer: `main` passes `context.Background()`, and a statement that hangs keeps the server from
listening. That is why `ImportEnds` has a premise, that the import is again and again not waiting:
whatever the answers, nothing else can keep it from its end. `Broadcast` and
`Tokens`: weak fairness of the goroutine and of `GiveUp` or `MarketFails`, since both clients always
set `http.Client.Timeout` (`TimeoutIsSet`); nothing is assumed of the endpoints. `Tokens` and
`EvmBalances`: an RPC node owes no answer; what is fair is that a call whose context is cancelled
returns, as every call carries the request's context. `Lifecycle`: `main` runs and the timer of the
drain fires; neither handlers nor services owe anything, which is why `StopsUnlessQueryHangs` asks
that the connections come back again and again. `Health`: the probe runs; silence ends with the
deadline.

**The expected violation.** `List` reads at most 100 rows a page (`repository.go:80-82`), while the
handler reports the size that the client asked for (`chains.go:27`). A client that asks for more
than 100 and goes by the reply's `page`, `size` and `total`, as README.md:65-78 shows them, stops
before it has seen every row. `WalkSeesEveryRow` shows that walks of up to the largest size are
complete.

## Proofs

The theorems hold for every set of goroutines, wallets, names, seeds, calls and transactions.

**`AddressBookStoreProofs`.** `DefaultsInvHolds` proves the inductive invariant `DefaultsInv`:
`TypeOK`, `LockHeld` (the mutex is held by the goroutine inside its critical section), `LocalsFit`
(what a goroutine built or found is still valid), `ChainCleared` (a goroutine about to write a new
default has left none on that chain) and `OneDefaultPerChain`. The last is not inductive alone: the
write that sets a flag preserves it only because of `ChainCleared`, which other goroutines preserve
only because of `LockHeld`, and the write's index is in range only because of `LocalsFit`. There is
a lemma per action. From it follow `TypeCorrect`, `MutualExclusion` and `AtMostOneDefault`. Lemmas
about `Trim`, `ClearDefaultLocked`, `Append`, replacement and `RemoveAt` carry the data part.
Assumptions: `InputsAreRaw`, `NumbersAreNumbers`, `NoHandlerIsNone`, `EmptyText`.

`IDsInvHolds` proves `IDsInv` on top of `DefaultsInv`, and from it `IDsAlwaysIdentify` and
`StampsAlwaysFollowIDs`. The strengthening is `Fresh`: from the moment `Create` has read the clock,
its item is no earlier than any stored item, and from the moment it has read the next id, its id is
above all stored ones; only the mutex keeps that true until the append. Updates, clears and splices
are covered by one lemma (`SubslicesKeepOrder`): slices that keep a subsequence of their items, with
ids and creation times unchanged, stay in order.

`StoreImplementsBook` is the refinement: `Spec => ImplementsBook`, the abstract book with `settled`
read as entries, pointers and the last id. Its invariant, `BookInv`, adds to the two above how far
the holder of the mutex is ahead of the last unlock (`SettledFits`: by the flags it cleared and the
id it took, by nothing else), that what a search found is still where it was found (`ItemsFit`),
that the settled items can be read as entries and pointers (`GoodItems`: one item per id, one
flagged item per chain), and `ChainsKnown` (a stored chain came with a request, so that the book
keeps a pointer for it and `List` can read the flag from that pointer). `SaveMaps` and `DeleteMaps`
are the data part: what saving and deleting an item in flagged slices does to entries and pointers.
With them each unlocking step of `Create`, `Update` and `Delete` is the abstract operation, a search
that falls through is the abstract refusal, and everything else that happens under the mutex is
invisible. `ListingIsRead` is about the reply of `List`: the store copies items in the order of its
slice, the book lists entries by ascending id, and the two are one sequence because ids ascend in a
slice (`IDsInv`) and an ascending enumeration of a set is unique (`AscendingIsUnique`). One
assumption more: `HandlersAreFinite`.

**`EnumerationProofs`.** `AscendingFacts`, `AscendingIsUnique` and `ItemsAtFacts` say that
`Ascending` enumerates its set, in order, in one way only, and what `ItemsAt` holds; the key is that
the numbers of smaller elements are different for each element and fill `1..Cardinality(S)`. From
it follows `LeastNumber`: each set of natural numbers has a least element. That is the induction of
these proofs, which take a least counterexample where a textbook proceeds from n to n + 1.

**`AddressBookProofs`.** What the abstract book promises about its steps: `IDsNeverReused`,
`EntriesAreTheirOwners` and `DefaultsAreTheirOwners`. The invariant is `TypeOK` with
`DefaultsAreLive`: each pointer leads to an entry of its own user and chain. It ties two variables of
the specification and says nothing of the code, which has no pointers; it is needed since `Delete`
and `Update` change a default only through the entry that the pointer names. Assumption:
`InputsAreRaw`.

The other half of the package is its catalog: `CoinsAreAlwaysOne` proves `OneCoin` for any texts
that clients may send, not only the names that `AppCatalog.cfg` lists. Its invariant, `AppInv`, ties
the list to the last question and the coin shown to the catalog; `CoinsFitName` says which coins a
name lists, `BaseTokensAgree` and `StablecoinsAgree` compare the tables coin by coin. No
assumptions.

**`ChainsRepositoryProofs`.** `ImportInstalls` proves `ImportedSoFar` from the types of the table
and the seed, with `Upserted` shown to keep keys unique and to put the new row in place without
disturbing rows of other keys. `TypeCorrect` adds the types of the client's side and that no key is
ever in two rows. Assumptions: `SeedsAreSequences`, `SizesArePositive`.

`WalkIsComplete` proves `WalkSeesEveryRow` for every filter and every size up to the largest. The
invariant is `WalkInv`: what an undisturbed walk has seen is the beginning of one order of the rows it
selected, as long as the pages before the next one, and a total that `List` has counted is still true
when the page is read (nothing writes the table while it is served). `PageExtends` is the step: since
the order is total (`BeforeIsTotal`), every answer of the database continues the same sequence;
`WholeListing` is the end: a beginning that is as long as the listing is the listing. `SortingDecides`
carries a walk over an import: two tables with the same keys and positions, row by row, have the same
listings, whatever their documents; `DisturbanceIsMarked` says that every other import clears `still`.

Of `Numbers`: `TimeoutIsAlwaysSet`, from `WrapFacts` (an integer that
fits stays what it is, and none leaves the range); and the decimals, `BalanceIsAlwaysExact` and
`ValueIsAlwaysNearest`, for every amount, price and number of digits. The powers of ten are a
recursive function, so that a function with those equations exists is proved first (`PowersExist`,
`PowersAgree`, `TenIsDefined`), then the law of exponents (`TenAdds`). `TrimmedFacts` is what
trimming does, `RoundedFacts` that rounding moves a number by at most half a unit of the last digit
it keeps, `ValueFacts` how the error of the price, times the amount, and that of the value add up.
Assumptions: `MachineIntegers`, `Amounts`.

**`BroadcastProofs`.** `TypeCorrect`, and `SuccessIsAlwaysTrue`: the invariant adds that a post is
on its way only for a request that passed all checks, and that an answer which `Classify` believes
comes from a network that has the transaction. `RefusedIsAlwaysNowhere` is about a
transaction all of whose calls were answered with 400: it is on no network and in no post under way.
It adds `RefusalsFit`: a call
that was posted passed every check and is not refused later, one that is refused did not pass, and
what a network has taken up was posted. `NamesAlwaysAgree` needs the two tables only where they
overlap, and holds for every name. No assumptions.

**`TokensProofs`.** The inductive invariant is in two parts. `ControlInv`: what a request's place in
the code says about its lists, the chains still to do and its client. `ContentsInv`: what its own
slices hold there - prices after the market's answer, balances and values for the chains done and
for the tokens before the one being read, blanks elsewhere - and that the package's slices are the
base tokens. `RepliesAlwaysExact` follows as the slices of a request that is filled are what it
would have alone; other requests preserve it as each writes only slices it owns. Assumption:
`TokensInputs`.

**`EvmBalancesProofs`.** `TypeCorrect`. `StatusIsAlwaysJustified` and `ReplyIsAlwaysComplete` rest on
`CourseFits`, which says what a request's place in the code and its status mean for the checks it
passed, the calls that were answered and the asset it reads: beyond the first call of a batch the
asset is known, every answer so far could be unpacked, a refusal came before any call or at the
asset, and a reply had all its calls. `MisdirectedMeetsUnreadable` says that a request that reads a
contract which is no ERC20 has a call in its script whose answer cannot be unpacked, so that it is
never answered with 200. `ScriptFacts` and `PickedBalances` are the data part: the balances that a
reply picks out of the calls are those of the addresses asked for, one each, in order, all of the one
asset. Assumption: `EvmInputs`.

**`LifecycleProofs`.** The invariant adds `DefersFit` (what was opened is closed or has its close
deferred; Postgres is at the bottom of the stack), `OrderFits` (the stack is in the order of the
start, and what is closed came after whatever is still deferred), `EndFits` (closes run only at the
end, and a clean end has none left) and `DrainFits` (no connection is accepted after the signal, and
only a timeout ends the wait for those that are there) to `ClosedOnlyAfterTimeout` and
`PoolClosedLast`. From it `NothingTakenFromDrained`, `PoolAlwaysClosedLast` and
`ClosesAlwaysUnwind`, for any number of connections and wherever the process is cut off. No
assumptions.

The same module has the proofs about `Health`: the invariant adds `InTurn` (the pings go in turn),
`Accounted` (until the RPC node's turn, what is left of the budget and what Postgres and Redis took
come to at least the budget), `WordsFit` (a judged service is called broken only if it is, or if the
two have used the budget up) and `VerdictFits`. `OkAlwaysMeansAnswered` and `BlameIsAlwaysEarned`
hold for all budgets and latencies. Assumption: `HealthInputs`.

Every invariant and step property that a run checks is stated by a theorem. Left to TLC are the
eight liveness properties (`EveryRequestAnswered`, `ImportEnds`, `EveryCallAnswered`,
`PriceListsEnd`, `AbandonedRequestsEnd`, `AbandonedRequestEnd`, `StopsUnlessQueryHangs`,
`ProbeEnds`): they rest on fairness, whose `ENABLED` is out of the prover's reach; and the expected
violation, which is a counterexample.

## Assumptions and limits

- The wall clock is not set back while the process lives (`StampsFollowIDs`, the abstract stamps).
- The 8-byte prefix of SHA-256 in `UserIDForWallet` has no collisions.
- One process is up at a time, as in docker-compose.yml; nothing else writes `chains`.
- An endpoint that answers with a hash and no error, and on Tron without `result: false`, has taken
  the transaction up. The endpoint's side is not in the repository; the model follows what
  `client.go` expects of it.
- A crash of the database itself is a failed statement; Postgres statements are atomic. A statement
  in flight when the process dies takes effect at once or never.
- Each balance is read at whatever block is latest then. The code promises no more, so blocks are not
  modelled, and the amounts of one list may come from several.
- A page whose number overflows the offset (`repository.go:94`) is not modelled: no text says what it
  should answer, and a client that goes by the reply's total never asks for it.
- `Valued` takes a balance to be a number: the node's word is not checked by the code either.
- `big.Float` of 256 bits and `float64` prices are taken to be exact up to the digits that are kept;
  no price, amount or number of decimals is negative (`Amounts`).
- `strconv.ParseBool` knows some spellings in upper and lower case but no mixed ones; `AppCatalog`
  has one text for all.
- A client that hangs up during `/healthz` cancels the probe's context; nobody reads its verdict.

**Not modelled.** The reply envelope and the request logger, which are formatting; gin's recovery
from panics; the labels of native assets (`erc20.go:246-265`) and `weiToEther`, which are texts
beside the amounts; `Catalog.Chains` and `/api/v1/status`, which return constants; the string values
of the configuration, which are passed on; the insides of the drivers' pools, of go-ethereum and of
net/http, which are external and appear by what the code expects of them; the `wallets` table, which
no code uses; and the parameters that `Broadcast` passes through (encoding, fee rate, preflight).
