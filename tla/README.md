# siwx-go: specification, model checking and proofs

TLA+ models of siwx-go: the chain-agnostic sign-in library (`siwx`, `siws`) and
the example hub that puts it to work (`examples/hub`, `examples/middleware`,
`examples/web`). Every definition is translated from the Go source; the lines it
stands for are in `PROJECT.json` ("map"). This file says what the system
consists of, what is modelled and how, what TLC checks, what TLAPS proves, and
what is left.

## 1. The system

| component | source | state | operations | modelled in |
|---|---|---|---|---|
| nonce store | `examples/hub/stores.go` 1-71 | map nonce -> expiry, one mutex | Issue (sweeps), Burn | `NonceStore` |
| identity store | `examples/hub/stores.go` 73-139 | maps wallet -> identity and identity -> wallets, one mutex | UpsertByWallet, LinkWallet, Wallets | `IdentityStore` |
| verifier registry | `siwx/registry.go` | map namespace -> verifier, RWMutex | Register, Verify | `Registry` |
| Solana adapter | `siwx/solana/adapter.go`, `siws/verify.go` | none | Verify | `SolanaAdapter` |
| EVM adapter | `siwx/evm/adapter.go`, `erc6492.go` | none (a client per chain) | Verify, ecrecover / ERC-1271 / ERC-6492 | `EvmAdapter` |
| hub handlers | `examples/hub/handlers.go`, `main.go` | none of their own; locals of each request | GET /auth/nonce, POST /auth/verify, POST /auth/link, POST /demo/contract-wallet | `Hub`, `SignIn` |
| recorder, metrics | `examples/hub/observe.go`, `siwx/observer.go` | atomic counters; bounded map of check events, one mutex | Observer callbacks, DrainChecks, render | `Hub` (render not) |
| token issuer | `examples/hub/issuer.go` | one signing key per process | Issue, JWKS | `Hub`, `JwksCache` |
| JWT middleware | `examples/middleware/jwt.go` | map kid -> key, RWMutex | get, refresh, JWTAuth | `JwksCache`, `Hub` |
| web page | `examples/web/app.js` | cookie jar of the browser, nonce in a page | fetch a nonce, sign, post | `Hub` (its calls only) |
| message parser, printer | `siws/parse.go`, `message.go`, `verify.go`, `base58.go` | none | ParseMessage, String, VerifyRaw, Message.Verify | `SiwsMessage`, `Base58`, `Siws` |
| CAIP identifiers | `siwx/caip.go` | none | ParseCAIP2, ParseCAIP10, String | `Caip`, `Siws` |
| EVM RPC resolver | `siwx/evm/evmrpc/resolver.go` | a connection per chain, dialled lazily under a mutex | ClientFor, ethClient and three calls | `EvmRpc` |
| demo contract wallets | `examples/hub/contractwallet.go` | map wallet -> owner, mutex | Register, CodeAt, CallContract | `DemoWallets`, `Hub` |
| problem details, configuration | `examples/hub/problems.go`, `config.go` | none | stateless | no |
| frozen contracts | `contracts/contracts.go` | none | interfaces | `SingleUseNonce` (NonceStore's contract) |
| test vectors, harnesses | `internal/...` | none | test support | no |

How they interact: a page fetches a nonce (`FetchNonce`: the store issues it,
the counter is bumped, the answer sets the `siwx_nonce` cookie), signs a message
that carries it and posts it. The handler burns the nonce **of the cookie**,
calls `registry.Verify` expecting that nonce, and the registry calls the
adapter, which calls the recorder back for every check. On success a sign-in
upserts the identity, reads its wallets (a second critical section), and mints a
token; a link, behind the JWT middleware, adds the wallet to the identity its
token names. Everything lives in the memory of one process.

What is hard here, and hardly reached by a test:

* requests interleave at every access of shared state, two of them may carry
  one cookie, and a late response clears or replaces a newer cookie;
* a restart forgets nonces, identities and the signing key at once, while
  cookies, tokens and responses in flight survive at the clients;
* time passes between two clock readings of one verification;
* a verifier is replaced, a key rotated, a document fetched late while a call is
  under way;
* a chain node or the JWKS endpoint fails or never answers, and somebody dials
  it while others wait for the same mutex;
* a signed text is parsed, kept as a struct, and printed again: fractions of a
  millisecond, zones, field order, the statement that looks like a field;
* the sweep, the recorder's cap, and expiry tests at their very instant.

`PROJECT.json` ("hazards") lists each at its line with the properties about it.

### What makes each component correct

* Nonce store: accepted at most once, only in its lifetime, only by the process
  that issued it; and not lost before that through anybody else's call.
* Identity store: a wallet is listed by the identity it signs in as; lists grow
  at their end, without duplicates; only an explicit link moves a wallet.
* Registry and adapters: an accepted message was valid at one instant of the
  call and signed as its kind of account demands; a rejection names a true
  reason; the observer sees the S3 order and one result; a failed chain call
  accepts nothing.
* Hub: one success per nonce; a token names the wallet that signed in; a link
  finds its identity; a response carries the trail of its own attempt; a nonce is
  refused for a cause, and what fails after the burn grants nothing; counters
  are ordered; every request is answered. As a whole: a success is of one claim
  of one nonce, for a wallet whose holder signed for that very nonce.
* Parser and printer: exactly the grammar is accepted; a message whose print
  parses survives printing; a key has one address; an account's text never reads back as another's.
* RPC resolver: one connection per chain; a call is blocked only by a dial on
  its own chain and never inherits another's cancellation.
* Middleware: an accepted token is one of ours, in its lifetime, signed with a key
  published under its kid; every refusal has its cause; concurrent fetches lose
  no key; a cached key never waits for the network.

## 2. The modules

| module | stands for | proofs |
|---|---|---|
| `Process` | the clock (a number of ticks) and the running process; `Tick`, `Crash` | |
| `SingleUseNonce` | the abstract promise of `siwx.NonceStore`: mint, accept once, lapse | |
| `NonceStore` | memNonceStore; refines `SingleUseNonce` (`KeepsPromise`) | `Stores_proofs` |
| `IdentityStore` | memIdentityStore | `Stores_proofs` |
| `Verification` | messages, expectations, the checks and their observer events | |
| `SolanaAdapter`, `EvmAdapter` | the two verifiers, a step per check or chain call | `Registry_proofs` |
| `Registry` | VerifierRegistry over both adapters | `Registry_proofs` |
| `DemoWallets` | the simulated chain of the contract-wallet demo | |
| `Hub` | the hub: both stores, the registry, recorder, issuer, chain, browsers | `Hub_proofs`, `HubMetrics_proofs` |
| `SignIn` | the abstract promise of the hub: offer, approve, claim, grant, lapse | `HubSignIn_proofs` |
| `JwksCache` | the middleware's cache and verdict | `JwksCache_proofs` |
| `EvmRpc` | the RPC-backed resolver | `EvmRpc_proofs` |
| `Base58`, `Caip`, `SiwsMessage` | the pure functions of `siws` and of `caip.go`, as operators | `Siws_proofs` |
| `Siws` | texts on their way to the parser: altered, carried, printed again | `Siws_proofs` |
| `MCRegistry`, `MCHub`, `MCJwksCache`, `MCSiws` | constants for TLC | |
| `MCIdentityStore` | the identity store with the answer of the last LinkWallet call | |

Correspondence with the code:

* **Atomicity.** A method that holds its mutex from its first access of shared
  state to its last is one action (`Issue`, `Burn`, `UpsertByWallet`,
  `LinkWallet`, `Wallets`, `Lookup`). Everything between two such methods is a
  step of its own, so anything may happen in between. `Burn` is two actions, by
  its outcome: `BurnOK` and `BurnRejected`, which still deletes an expired entry.
* **Requests** are records `req[r]` with a program counter `pc` that walks through
  the handler: `sent`, `burn`, `begin`, `verifying`, then `verify`, `wallets`,
  `mint` for a sign-in or `link` for a link, `reply`, `done`; `lost` if the
  process died first. The nonce fetches are records `fetch[n]`.
* **Calls of Verify** are records `at[a]`: where the call stands, the message, the
  verifier found, the clock reading it keeps, its chain calls with their answers
  and the trail its observer saw. In the hub the attempt is the request.
* **Messages** are records of claims. A timestamp is a set of at most one instant;
  `garbled` names timestamps that pass the SIWE parser and fail to parse later;
  the signature is good, bad or wrapped in the ERC-6492 suffix. In the hub the
  message carries any nonce its page has ever received, not only the one in the
  cookie.
* **The simulated chain.** `VerifyStep` is a step of the registry's model whose chain
  calls, if it makes any, are answered as `DemoAnswer` says, so a contract
  wallet exists once it was registered and accepts what its owner signed. What
  the step adds to the attempt's trail is what the recorder's callbacks see and
  count, synchronously.
* **SignIn over the hub.** A nonce is offered while its entry is in the map and
  not expired, claimed while a request behind `Burn` holds it, granted once a
  success rests on it, and void otherwise; a wallet's holder approves of a nonce
  by signing a message that a page then sends; a success is a token minted or a
  wallet linked.
* **Texts.** A text is a sequence of lines, a line the label it starts with and
  the rest, plus its newlines at the end and whether it holds a carriage return.
  Only addresses and chain ids are spelt out, as characters: a small alphabet and
  small bytes keep base58 exact, since neither size is built into the
  algorithm. A timestamp is an instant and the zone it is written in. `Size` counts lines,
  newlines and the bytes of one wide URI, enough to be at either side of the cap.
  `Siws` starts from the print of a message and lets anybody alter it.
* **Connections.** In `EvmRpc` the mutex of a chain is `holder`, and a dial is the
  time between `Acquire` and `DialSucceeds` or `DialFails`; a context ends at any moment,
  while its call waits for the mutex too, where nothing looks at it.
* **Randomness.** Nonces (128 bits) and identity ids (64 bits) are values never
  used before.
* **Clients and network.** A response may arrive at any later time or never, also
  after the process died; a node answers at any time with an error or any of the
  answers the code tells apart; a JWKS fetch yields the document of that moment,
  without any number of entries that did not decode, or fails.
* **Tokens at the middleware.** The `form` of a token says what JWTAuth finds besides
  its key and its expiry: whether it comes as a bearer token, names RS256, and is of
  the expected issuer and audience (`foreign` if not). `at` in a call's record is the
  instant of its verdict.
* **Histories.** `born`, `spent` (nonces), `tokens`, `grants` (the hub) and
  `published` (keys) record what happened; no action of the code reads `born`'s
  or `spent`'s contents except that a new nonce is unborn.
* Operators whose comment begins "Mutant of X" are not part of the model: they
  are X with a plausible bug, and TLC has to find a property violated when X is
  replaced by one of them (`PROJECT.json`, "mutants").

Bounds are constants: `MaxTime`, `MaxRestarts`, the sets `Nonce`, `Identity`,
`Request`, `Attempt`, `Call`, and `RecorderCap` (1024 in the code).

## 3. What the runs check

| run | instance | what it shows |
|---|---|---|
| `nonce_store` | 3 nonces, lifetimes 1 and 2, 5 instants, 1 restart | type, `SpentAtMostOnce`, `UsableNonceKept`, `AcceptedInLifetime`, refinement of `SingleUseNonce` |
| `identity_store` | 3 wallets, 3 identities, 1 restart | type, `ListedOnce`, `OwnerMovesOnlyByLink` |
| `registry` | 1 call, 102 messages, three kinds of EVM client, a namespace without verifier, 3 instants | type, `TrailInOrder`, `AcceptedIsValid`, `RejectionIsTrue`, `AcceptedByAuthority`, `Answering` |
| `hub` | 2 requests after one finished sign-in, 2 fresh nonces, 2 wallets and an account that does not read back, 2 identities, 1 browser, 1 restart, a recorder with room for 2 attempts | type, `OneGrantPerNonce`, `MetricsOrdered`, `TokenNamesItsWallet`, `LinkFindsIdentity`, `FailedReadGrantsNothing`, `ChecksTrailDelivered` |
| `hub_live` | 2 requests from a cold start, 2 nonces, EVM verifier with the simulated chain, an ordinary and a contract wallet, 1 restart | `ImplementsSignIn`: the hub is a `SignIn`; `MismatchHasCause`; `OwnerNeedsRegistration`; `RequestsAnswered`; `StoresUsedAsSpecified`: the hub implements both stores' specifications |
| `evm_rpc` | 3 verifications, 2 configured chains and an unknown one, 1 call each | type, `OneConnection`, `OwnContextOnly`, `BlockedByOwnChainOnly` |
| `siws` | 64 messages, every text one edit from their prints, 9 instants, 6 expectations | `AcceptsGrammar`, `RoundTrips`, `VerifyWithinMillisecond`, `OneAddressPerKey`, `IdentifierReadsBack` |
| `jwks_cache` | 2 requests at a time, 3 keys (two share a kid), 3 documents, 6 tokens of every form, 1 restart | type, `AcceptedIsGenuine`, `RejectedForCause`, `KeysOnlyGrow`, `CachedNeverWaits` |

The largest are `hub` (1.4 million distinct states, with requests and nonces
interchangeable), `hub_live` (0.9 million) and `jwks_cache` (0.9 million); each takes
one and a half to three and a half minutes with two workers.

What some of them catch: `MismatchHasCause` is about a cookie that a second fetch
replaced or a late response cleared; the only refusals it leaves are those, and
nonces that were spent by another request, expired or died with their process.
`FailedReadGrantsNothing` follows a sign-in into the failure of `Wallets`, after
Upsert has already created the identity. `OwnerNeedsRegistration` lets the owner
of a contract sign as the contract only while this process knows the contract.
`RejectedForCause` names a cause for every refusal, a key that another request
fetched for the same kid included; `RejectionIsTrue` says of each of the ten
sentinels when it is true, and that there is no other.

Why the bounds are enough: the races of the stores are between two callers on
one nonce, wallet or list, and the third value lets a sweep or another list be
disturbed by a bystander. Lifetimes of 1 and 2 over 5 instants reach before, at
and after every expiry, for nonces issued at different times. Calls of `Verify`
share nothing but the registry's map, which `Register` changes at any moment, so
one call shows them all. In the hub every property is about a pair of requests
and what an earlier one left behind: `hub` therefore starts after one sign-in
(wallet `b`, whose page holds a token and a spent nonce), from where two
requests reach what needs three from the start, such as a link landing between
the two critical sections of a sign-in. One browser is the worst case for the
cookie, since both requests share it. One restart suffices because nothing
counts restarts. A nonce's lifetime of 0 in the hub makes it expire after one tick.
Both hub runs let the clock tick only when a request is about to burn a nonce that
is in the map, and not during a verification (`TimeTells` in `MCHub`): their messages have
no validity bounds and their tokens outlive the last instant, so a tick at any
other moment can be put off to the next such one, or left out, without changing what anybody sees. The
theorems are about `HubSpec`, where the clock ticks at will. In `hub` the recorder has room for 2 attempts
and one has been counted: two concurrent requests fill it, and after a restart
the first of them finds room. `hub_live` has no account that does not read back; that
the failed read is answered is in `hub`, where it is the last step but the delivery
(`ReadWallets`). In `evm_rpc` the third call is one that waits while a second takes over
from a dial that failed; a second call of one verification would start where
another verification's first does. In `siws` one edit reaches every way to be
off the grammar by a line; edits of the same text do not interact, because the
parser decides at the first line that is wrong. Three ticks to a millisecond,
zones on both sides of UTC and the last four-digit year give every rounding its case; strings
of up to five characters over three digits hold every pattern of leading zeros that
two-byte keys have, and one that is too long.

Where `CHECK_DEADLOCK FALSE` is set the bounded system really stops: all requests
are answered and all nonces used, or a call waits for ever for an endpoint that
owes no answer.

### Fairness

`RegistryFairness`: a call of `Verify` proceeds by itself except where it waits
for a node (`code`, `call`, `deployless`); a node owes no answer, so
`Answering` lets a call wait in one of these places for ever, but a call whose
node answers has to return. `HubFairness`: weak fairness of each
request's handler: the Go runtime runs every goroutine that can run, no handler
blocks on a lock for longer than another handler's critical section, none of
which does I/O, and the hub's chain is simulated in the process, so its answers
are steps of the handler. The one
fetch in a handler's way, the middleware asking for the hub's own JWKS document,
is answered by the process itself. Nothing is assumed of browsers and networks:
a message may never be sent, a response never arrive, time may stop. The recorder is called
synchronously, so its steps are part of the handler's. `CacheFairness`: a
request's own steps, never the endpoint's answer, because `http.Get` has no
timeout. `RpcFairness`: strong fairness of taking a mutex that is released again and
again (Go's mutex hands over to a waiter it has starved for a millisecond), and
weak fairness of giving up what waits on the network once the context ended,
which `ethclient` promises; a node owes nothing else, so a dial under a context
without a deadline may last for ever. `BlockedByOwnChainOnly` says that this is the
only way to be blocked. Texts owe nothing: `Siws` has no fairness.

### Divergences found

Four runs have to end in a violation; each compares the code with a sentence of
the repository.

* `linked_wallet_signs_in` (`README.md:317`): a wallet taken over by a second
  identity and linked back by the first stays with the second, although
  `LinkWallet` returns nil: the former list was never cleaned, and the
  loop that makes links idempotent finds the wallet in it (`stores.go:114`). The
  property is about the step in which the link back returns.
* `expired_never_verifies` (`tasks/WT-D-test-harness.md:35`): the EVM adapter reads the
  clock once, before it asks the chain, so a message that expires while a node
  takes its time is accepted, expired.
* `successful_parse_round_trips` (`siws/fuzz_test.go:38`): "Successful parse must
  round-trip". The print always has a Chain ID line and a final newline, so the
  print of a text near the 8 KiB cap may exceed it; a timestamp whose zone carries
  it out of the four-digit years does not print as one that parses either.
* `buffer_holds_only_in_flight` (`tasks/WT-C-mock-hub.md:46`): nothing evicts the
  check events of a link; after 1024 links no sign-in's response carries checks.

Also seen, without a run of their own:

* `siwx/caip.go:19` gives the range of a reference, and the Solana adapter puts the
  message's unchecked Chain ID into the identity it returns (`adapter.go:117`). In the hub
  the identity store then fails to parse its own list, and that identity's
  sign-ins end in status 500 from then on: the account that does not read back in
  the run `hub`.
* A comment (`siwx/solana/adapter.go:97-100`) says that only the signature can fail
  VerifyRaw. It reads the clock again; a message that expires in between is
  reported to the observer as a failed *signature*, while the caller gets
  `ErrExpired`, which `RejectionIsTrue` allows and demands.
* "Parse(m.String()) must equal m" (`SPEC.md:131`, S10). The parser keeps fractions of
  a second that the printer cuts to milliseconds; `RoundTrips` and
  `VerifyWithinMillisecond` bound the difference.
* A kid says "which key signed it" (`README.md:314`), but every process of the hub
  calls its key `mock-1`, and a middleware elsewhere that has cached the key of an
  earlier process finds that one and never fetches again (`jwt.go:40-48`): it refuses every
  new token for its signature. `RejectedForCause` counts this as a cause.
* `siws/parse.go:17` says that "a single trailing newline" is accepted;
  `strings.TrimRight` (`:32`) takes any number of them, which the model follows.
* Because the print ends with a newline, `Message.Verify` refuses a signature over a
  text that ends without one; its comment calls it deprecated for such reasons.
* `uint256Word` (`siwx/evm/adapter.go:250`) keeps the low 32 bits of a length, which no
  signature within the hub's cap on a body reaches.
* The `chainId` of a request selects the verifier but its reference is never compared
  with the message's; the identity is built from the signed message alone, so no
  property depends on it.

## 4. What is proved

TLAPS checks the following for every value of the constants: any number of
nonces, wallets, identities, requests, browsers, tokens and restarts, any
lifetimes and messages.

The assumptions are those the modules name, each of which TLC evaluates on the
runs' instances:

* lifetimes, bounds and the recorder's cap are natural numbers (`TTLAssumption`,
  `MaxTimeAssumption`, `MaxRestartsAssumption`, `CapAssumption`, `MaxOpsAssumption`) and arbitrary
  otherwise; malformed wallets are wallets, messages and documents have their
  type, a request is its own attempt;
* `AccountAssumption`: an account taken from a message is a wallet;
* `ParsedAssumption`: a message that parses names a domain and a nonce, because
  `siws/parse.go:48-50` and `:119` refuse one that does not, and so does the EIP-4361
  parser of `siwe-go`. The Solana adapter's nonce check only compares, while
  VerifyRaw calls an empty expectation malformed (`siws/verify.go:42`); that the two
  agree rests on this;
* `NonceAssumption`: no nonce is the empty string, since `Issue` hex-encodes 16
  random bytes (`stores.go:36-40`) and the hub reads an empty cookie as none;
* `TokenAssumption`: a token expires at an instant of the model's clock;
* `ColonAssumption`: the colon is in none of the character classes of
  `caip.go:11-13`; `AddressAssumption`: base58's alphabet is within the last of
  them and `maxBase58Len` (`base58.go:14`) within its lengths (both end at
  128); `SolanaAssumption`: `sol` is a namespace;
* `TextAssumption`: a line that starts with no label is not blank (a blank line has
  a label of its own), addresses, chain ids and lists of resources are sequences,
  and what stands behind a timestamp's label is an instant with a zone, or garbled;
* `ClockAssumption`: instants are whole ticks, and a millisecond is at least one;
* `Base58Assumption`: the alphabet is a sequence of at least two different
  characters, and a byte has at least two values.

| theorem | states |
|---|---|
| `NonceTypeCorrect`, `SingleUse`, `UsableKept`, `AcceptedOnlyInLifetime` | the properties of `nonce_store` |
| `StoreKeepsPromise` | memNonceStore implements `SingleUseNonce` |
| `IdentityTypeCorrect`, `AlwaysListedOnce`, `OwnersStay` | the properties of `identity_store` |
| `ListsNeverShrink` | within a process lists only grow, and at their end (`ListsOnlyGrow`) |
| `StoresKeptToSpec` | every behaviour of the hub is one of both stores |
| `HubBurnsOnce` | the hub accepts no nonce twice |
| `EveryGrantItsOwnNonce` | `OneGrantPerNonce` |
| `LinkAlwaysFindsIdentity` | `LinkFindsIdentity` |
| `EveryTokenNamesItsWallet` | `TokenNamesItsWallet` |
| `HubImplementsSignIn` | the hub implements `SignIn` (`ImplementsSignIn`) |
| `RpcTypeCorrect`, `ConnectedAtMostOnce`, `NoInheritedCancellation` | the invariants of `evm_rpc` |
| `MutexHeldWhileDialling` | a chain's mutex is held exactly while one call dials it |
| `RegistryTyped`, `TrailAlwaysInOrder`, `AcceptedAlwaysValid`, `RejectionAlwaysTrue`, `AuthorityAccepts`, `ChainCallsConfigured` | the invariants of `registry`, for any number of calls, any messages, verifiers and clients; `ChainCallsConfigured` is about `ChainCallsAsConfigured`, which no run checks; `RejectionAlwaysTrue` is about all ten sentinels, those about the chain's answers included |
| `HubVerifiesSoundly` | the same of every verification in the hub, with the simulated chain behind it |
| `CacheTyped` | `CacheTypeOK`: the cache, and every call's token, keys, verdict and instant |
| `CacheAcceptsGenuine` | `AcceptedIsGenuine`, with the expiry at the instant of the verdict |
| `CacheRejectsForCause` | `RejectedForCause`: a cause for each reason, without exception |
| `CacheKeysOnlyGrow` | `KeysOnlyGrow` |
| `HubTyped` | `HubTypeOK`: every variable, the histories and the records of requests included |
| `MetricsAlwaysOrdered` | `MetricsOrdered` |
| `TrailAlwaysDelivered` | `ChecksTrailDelivered`, however many requests there are and however full the recorder is |
| `AccountTextParses`, `ParsedTextPrints` | ParseCAIP10 and CAIP10's String invert each other, and an account with an invalid reference has no text that parses |
| `IdentifiersReadBack` | `IdentifierReadsBack`, for any messages and any number of edits |
| `ParserAcceptsGrammar` | `AcceptsGrammar`: the parser accepts the grammar and nothing else, in texts of any length |
| `PrintsRoundTrip` | `RoundTrips`, for prints that are within the cap and the four-digit years |
| `VerdictsDifferWithinMillisecond` | `VerifyWithinMillisecond`, for any instant and any expectation |
| `AddressesAreKeys` | `OneAddressPerKey`, for any alphabet, any size of a byte and of a key |

* **Nonce store.** `SpentAtMostOnce` is not inductive: an entry in the map might
  have been accepted before. `NonceInv` adds that every entry is unspent, of this
  process, and expires when Issue said (`EntriesAreFresh`), that nonces come from
  this process or an earlier one, and that an unborn nonce is unspent. The
  refinement maps a nonce to unborn, live (in the map and not expired) or dead; a
  tick and a crash map to `Lapse` of all nonces they kill.
* **Identity store.** `IdentityInv` is the conjunction of the invariants, which are
  inductive together: `NoDuplicates` rests on the guard of LinkWallet,
  `Resolvable` on the type invariant's "an owner has a list".
* **Hub.** `HubShape` says what a request's record holds at each point of its
  handler: behind Burn its cookie is a nonce, its account a wallet, its token one
  that was minted. It is needed to see that the stores are called with arguments
  of their sets, hence `StoresKeptToSpec`, which carries all that is proved of
  the stores over to the hub. `OneUse` then says that a request behind Burn holds
  a nonce accepted once, that no other request holds, and no grant rests on;
  it is preserved by a burn because an entry of the map is unspent (`NonceInv`).
  `TokenInv` says that a token of this process names an identity the store knows,
  that a request that passed JWTAuth carries such a token, and that between
  Upsert and Mint the wallet stays in the list of its identity; it is preserved
  by any other request's link because lists only grow (`StepGrows`).

* **The hub as a SignIn.** The refinement mapping is `Fate`, `Approvals` and
  `Successes` in `Hub`. That a grant is of a claimed nonce follows from `OneUse`;
  that its wallet approved needs `ApprovalInv`: the attempt of a request that
  is being verified is about that request's message and expects its cookie's
  nonce (`BeginVerify`), an attempt past the nonce check carries the expected
  nonce, one that ended without an error carries a genuine signature, by ecrecover, by
  the owner of a registered wallet, or by VerifyRaw, and a request on its way to
  a token or a link rests on such an attempt. The lemmas `...Advances` go through the steps of
  the adapters one by one; `NextStage` computes where each stage leads from the
  sequence `Stages`. Then each step of the hub is an `Offer` (a nonce fetched), an `Approve`
  (a request sent), a `Claim` (burned), a `Grant` (minted or linked), or a `Lapse` of
  the nonces it makes void: none, those that expired, the one whose request
  failed, or after a crash all that were offered or claimed.
* **RPC resolver.** `RpcInv` adds to the invariants that a call dials only while its
  chain has no connection yet (`DialsAreFresh`), which with the mutex gives
  `OneConnection`.

* **Registry and adapters.** `RegistryInv` is about one call's record at a time
  (`CallSound`): it has the fields `Begin` gives it and its instants are past
  (`Shaped`); it has emitted exactly the events of the stages behind it, which
  all succeeded, or stopped at the first that failed (`Logged`); what the passed
  checks found still holds of the message, for the EVM adapter at the one
  instant its clock was read, for the Solana adapter, whose final VerifyRaw
  checks both bounds again, at that last instant (`Checked`); an error it is about to
  return is true (`Named`); and its chain calls are a prefix of the one route its
  signature and client allow (`Routed`). `StepContinues` shows that every step of
  either adapter takes a sound call to a sound call, and names the one call it
  changes; the hub's `VerifyStep` is such a step with the chain's answer fixed, so
  the same lemmas give `HubVerifiesSoundly` without a second proof.
* **Middleware.** `CacheInv` says that a cached key was published under its kid and
  that a call between two locks carries a key, or a document's keys, that were
  published (`CallOK`). A refusal keeps what it rests on (`Refused`): the key the
  signature was checked with, the document that had no entry of the kid, the
  instant at which the token had expired. Since nothing published is ever taken
  back and no clock runs backwards (`NothingTakenBack`), it stays true.
* **Counters.** `MetricsOrdered` relates numbers that nothing in the state relates
  directly. `CountInv` says what each of them counts: `issued`, `burned` and `attempts` are
  exactly the cardinalities of the fetches past the counter, the sign-ins behind
  Burn and the verifications begun; the failures and tokens are at most those of
  the verifications that failed and the sign-ins that were answered. The order then follows
  from inclusions of these sets and, for burned and issued, from the map that
  takes a request to its cookie, which is injective by `Claims` (no two requests
  behind Burn hold one nonce) and leads to a counted fetch by `Arrived` (a cookie
  comes from a response that arrived, hence after its counter was bumped). `InPhase`
  ties where the verification stands to where its handler does.
* **Trails.** `TrailInv` says that the buffer of a verification under way mirrors its
  trail from the third event on (only check results are buffered), and that a
  drained trail mirrors all five checks. `Mirrors` has two cases. While there is
  `Room`, i.e. fewer attempts began in this process than the recorder has places, every
  event is there: what is buffered belongs to attempts that began and were counted
  (`BuffersRequests`), so a new one finds a place. Otherwise events may be
  missing, because a full buffer silently drops those of a new attempt, but what is
  there is the attempt's own, in order. `Room` is lost only, until a restart empties
  the buffer and the counters together (`RoomLost`). No bound on the number of
  requests is assumed.
* **Identifiers.** The text of an account is three parts with a colon between
  them, and `ParseCAIP10` cuts at the first two colons. A namespace and a reference that
  match their expressions hold none (`NoColonIn`), so the cuts are where the
  printer put them (`ColonSplits`, `CAIP10Parsed`). A reference with a colon moves the second
  cut into it, and the rest of it, with a colon, is no address
  (`JoinedIsNoAddress`); a reference that is invalid otherwise is cut out whole and
  refused. That these are the references and addresses the parser lets through
  (`ParsedOK`) has to hold of every text, however it was altered: `SiwsInv` says that the lines of
  the text stay written as lines are (`Lined`), which each edit preserves, and
  so does a print of what was parsed (`PrintLegible`). That print needs the resources to
  be a sequence, hence what the fold over a trailer of any length makes of
  them: `TrailerRead` unrolls the fold into its partial results (`UnrollsAll`), over which
  `TrailerOK` goes by the least one that is wrong.

* **Parser.** `ParseIs` names the steps of ParseMessage, and `Accepted` is what they
  ask for. The grammar is stated without them: a sequence of labels (`Layout`)
  built from at most one statement and a set of optional fields, then items. The
  two meet in the middle. Up to "Issued At" there are eight layouts, whose labels
  say where the URI and the nonce are (`BeforeOpened`), and the parser's two
  decisions, whether line 4 is a statement and whether a Chain ID follows, find
  them just there (`OpenedWhere`, `LabelsOpened`). From there on, `TrailerGrammar` says
  that the fold accepts a trailer if and only if some set of optional fields fits it: after each
  line, what has been read is fine exactly when the lines so far fit a
  set, and then the stage is the rank of its last field (`ReadSoFar`,
  `ReadOneMore`), for any number of resources. What a line has to say depends on its label alone
  (`LineKinds`), wherever it stands (`LinesInOrder`).
* **Printer.** A print is put together from a head of three or five lines, five that
  are always there, and the optional ones. Each piece leaves what was read
  before it as it was (`BeginsMore`, `ReadsOn`), so the parser reads a print piece by piece
  (`PrintTrailer`), and gets the message back if the timestamps still parse (`PrintParses`). That printing
  once more changes nothing is `FormatTwice`: a timestamp that is in UTC and whole milliseconds stays.
* **Verdicts.** Both entry points judge the same claims (`SameVerdict`), but for the two
  bounds, of which the print keeps the milliseconds. An instant in another
  millisecond is on the same side of a bound and of that bound cut off
  (`SameSide`), and the order of the checks does the rest.
* **Base58.** `Value` and `Digits` are folds and a recursive function, unrolled by
  `SumsAll` and `RestsAll`; that digits without a leading zero are found again from their
  value (`DigitsFound`) goes by the least prefix on which they are not, with
  `DivUnique` for a single digit. Leading zeros are put aside first (`ZerosAre`,
  `ZerosValue`): they do not count in the value, and are copied one for one
  both ways, which `DecodedEncodes` puts together.

Only model-checked: liveness (`RequestsAnswered`, `Answering`, `BlockedByOwnChainOnly`,
`CachedNeverWaits`), which rests on ENABLED and is out of the proof system's
reach; and three safety properties of the hub: `FailedReadGrantsNothing`,
`MismatchHasCause` and `OwnerNeedsRegistration`. Every other property of a passing
run is a theorem. The library's induction theorems cannot
be instantiated here; `NatHasLeast` stands in for them. No module here declares a
recursive operator.

## 5. What is not modelled, and why

* Base64, JSON, and the text of EVM messages (parsed by the `siwe-go` library). In
  `Registry` and `Hub` a message that does not parse is one kind of message; `Siws` is
  about which those are for Solana.
* ABI encoding, including `uint256Word`, which keeps the low 32 bits of a length: a
  signature that long cannot pass the hub's cap of 8 KiB on a body.
* Cryptography: a signature verifies or not.
* The cookie's MaxAge: a browser that keeps an expired cookie sends a nonce the
  store has forgotten, which the model includes; one that dropped it sends none,
  which a delivered clearing shows.
* The labels of the failure counters (`Hub` counts failures and failed checks), logging,
  /config and the other environment variables, problem details, static files: no
  state depends on them.
* The atomic loads of /metrics as steps; `MetricsOrdered` is about one
  instant, and a page rendered while counters move need not be ordered like that:
  `render` loads issued before burned before tokens (`observe.go:57-59`).
* Two pairs of steps are one here, which no property tells apart: `BeginVerify` bumps
  the counters of `handlers.go:160` and `observe.go:92`, and `Issue` reads the clock
  once for its sweep and for the new nonce's expiry.
* `internal/testvectors`, `internal/conformance`, `internal/invariants`: test support.
* A verifier that panics: gin's recovery answers 500, with the same state as a
  lost response.
* Clocks that run backwards: `Clock.Now` is monotone in the model.

## 6. Plan

Done: the inventory; both stores, the registry and its adapters, the hub with its
simulated chain, the middleware and the RPC resolver, each with the safety
properties proved that its run checks, but for three of the hub; the refinements of `SingleUseNonce`, of both stores
and of `SignIn`, proved; the CAIP identifiers, parser, printer and base58, checked
and proved.

Next: proofs of `MismatchHasCause`, `FailedReadGrantsNothing` and
`OwnerNeedsRegistration`; modelling render's loads in their order against concurrent handlers,
`MultiObserver` with an observer that panics, and the EVM adapter on top of `EvmRpc`,
so that a slow node shows in a verification.

## 7. Running

    tlc -workers 2 -config MCHub.cfg MCHub
    tlapm Hub_proofs.tla

Each row of `PROJECT.json` ("runs") names a module and a configuration.
