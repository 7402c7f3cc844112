--------------------------------- MODULE Hub ---------------------------------
(***************************************************************************)
(* The example hub (examples/hub): concurrent requests of browsers against *)
(* one nonce store, one identity store, one recorder, one registry and one *)
(* token issuer.  A request is a record that walks through its handler;    *)
(* every access of shared state is a step of its own, and requests, the    *)
(* delivery of responses and crashes interleave freely.                    *)
(***************************************************************************)
EXTENDS NonceStore, IdentityStore, Registry, DemoWallets, FiniteSets

CONSTANTS Request,          \* POST /auth/verify and /auth/link requests
          Browser,          \* cookie jars
          TokenTTL,         \* lifetime of a token
          RecorderCap       \* attempts the recorder buffers (1024 in observe.go)

ASSUME RequestAssumption == Request = Attempt
(* Issue hex-encodes 16 random bytes: no nonce is the empty string.        *)
ASSUME NonceAssumption == "" \notin Nonce
ASSUME CapAssumption == RecorderCap \in Nat /\ TokenTTL \in Nat
ASSUME AccountAssumption ==
  \A ns \in Namespace, m \in Submissions : [ns |-> ns, ref |-> m.ref, addr |-> m.addr] \in Wallet

VARIABLES fetch,            \* nonce -> where the GET /auth/nonce that issued it stands
          jar,              \* browser -> the nonce in its siwx_nonce cookie, "" if none
          known,            \* browser -> nonces its pages received in a response body
          req,              \* request -> where its handler stands and what it holds
          checks,           \* Recorder.checks: attempt -> check events buffered
          count,            \* Recorder.counters
          tokens,           \* history: tokens minted, which their owners keep
          grants            \* history: successes, [req, nonce, wallet, run]

chain == <<verifiers, owners>>
web == <<fetch, jar, known>>
recorder == <<checks, count>>
sessions == <<tokens, grants>>
hubVars == <<process, store, ids, at, chain, web, req, recorder, sessions>>

Zero == [issued |-> 0, burned |-> 0, attempts |-> 0, failedChecks |-> 0, failures |-> 0,
         tokens |-> 0]

(* main registers its verifiers before it serves, and none afterwards. *)
HubInit ==
  /\ NonceInit /\ IdentityInit /\ VerificationInit /\ DemoInit
  /\ verifiers = [ns \in {v.ns : v \in Verifiers} |-> CHOOSE v \in Verifiers : v.ns = ns]
  /\ fetch = Empty
  /\ jar = [b \in Browser |-> ""]
  /\ known = [b \in Browser |-> {}]
  /\ req = [r \in Request |-> [pc |-> "unsent"]]
  /\ checks = Empty
  /\ count = Zero
  /\ tokens = {} /\ grants = {}

Inc(field) == count' = [count EXCEPT ![field] = @ + 1]
Goto(r, pc) == req' = [req EXCEPT ![r].pc = pc]
Reply(r, status) == req' = [req EXCEPT ![r] = [@ EXCEPT !.pc = "reply", !.status = status]]

-----------------------------------------------------------------------------
(* GET /auth/nonce, for browser b: Issue, count, answer with Set-Cookie.   *)
FetchNonce(b, n) ==
  /\ \E ttl \in TTLs : Issue(n, ttl)
  /\ fetch' = Put(fetch, n, [pc |-> "issued", browser |-> b])
  /\ UNCHANGED <<process, ids, at, chain, jar, known, req, recorder, sessions>>

CountIssued(n) ==
  /\ n \in DOMAIN fetch /\ fetch[n].pc = "issued"
  /\ Inc("issued")
  /\ fetch' = [fetch EXCEPT ![n].pc = "reply"]
  /\ UNCHANGED <<process, store, ids, at, chain, jar, known, req, checks, sessions>>

(* Mutant of DeliverNonce: the answer leaves before the counter is bumped. *)
DeliverNonceEarly(n) ==
  /\ n \in DOMAIN fetch /\ fetch[n].pc = "issued" /\ n \notin known[fetch[n].browser]
  /\ jar' = [jar EXCEPT ![fetch[n].browser] = n]
  /\ known' = [known EXCEPT ![fetch[n].browser] = @ \union {n}]
  /\ UNCHANGED <<process, store, ids, at, chain, fetch, req, recorder, sessions>>

(* The response arrives, late or after the process died: the browser       *)
(* stores the cookie and the page reads the nonce from the body.           *)
DeliverNonce(n) ==
  /\ n \in DOMAIN fetch /\ fetch[n].pc = "reply"
  /\ fetch' = [fetch EXCEPT ![n].pc = "done"]
  /\ jar' = [jar EXCEPT ![fetch[n].browser] = n]
  /\ known' = [known EXCEPT ![fetch[n].browser] = @ \union {n}]
  /\ UNCHANGED <<process, store, ids, at, chain, req, recorder, sessions>>

-----------------------------------------------------------------------------
(* A page posts message m carrying a nonce it knows; the browser adds the  *)
(* cookie it holds now, which another tab may have replaced or spent.      *)
(* A link carries the bearer token of an earlier sign-in.  A body that     *)
(* does not decode, or names no CAIP-2 chain, is one with ns = "".         *)
Send(r, b, kind, ns, m, token) ==
  /\ req[r].pc = "unsent"
  /\ req' = [req EXCEPT ![r] =
               [pc |-> "sent", kind |-> kind, browser |-> b, ns |-> ns, msg |-> m,
                cookie |-> jar[b], token |-> token, clears |-> FALSE, trail |-> <<>>,
                id |-> "", wallets |-> <<>>, status |-> ""]]
  /\ UNCHANGED <<process, store, ids, at, chain, web, recorder, sessions>>

(* Mutant of Authenticated: a key that survives the process.               *)
AuthenticatedByAnyKey(t) == now < t.exp

(* JWTAuth on /auth/link: signed with this process's key and not expired.  *)
Authenticated(t) == t.run = run /\ now < t.exp

(* Mutant of Receive: the test for a missing cookie is dropped. *)
ReceiveWithoutCookie(r) ==
  /\ req[r].pc = "sent"
  /\ \/ req[r].kind = "link" /\ Reply(r, "401")
     \/ /\ req[r].kind = "link" => Authenticated(req[r].token)
        /\ IF req[r].ns = "" THEN Reply(r, "ErrMalformed")
           ELSE req' = [req EXCEPT ![r] = [@ EXCEPT !.pc = "burn", !.clears = TRUE]]
  /\ UNCHANGED <<process, store, ids, at, chain, web, recorder, sessions>>

(* The handler up to Burn touches nothing shared: authenticate a link,     *)
(* which fails too if the middleware cannot fetch the hub's own JWKS       *)
(* document, read the cookie, and have the response clear it.              *)
Receive(r) ==
  /\ req[r].pc = "sent"
  /\ \/ req[r].kind = "link" /\ Reply(r, "401")
     \/ /\ req[r].kind = "link" => Authenticated(req[r].token)
        /\ IF req[r].ns = "" THEN Reply(r, "ErrMalformed")
           ELSE IF req[r].cookie = "" THEN Reply(r, "ErrNonceMismatch")
           ELSE req' = [req EXCEPT ![r] = [@ EXCEPT !.pc = "burn", !.clears = TRUE]]
  /\ UNCHANGED <<process, store, ids, at, chain, web, recorder, sessions>>

(* Mutant of BurnCookie: the nonce is looked up, not deleted. *)
BurnCookieLooksUp(r) ==
  /\ req[r].pc = "burn"
  /\ IF req[r].cookie \in DOMAIN entries
     THEN Goto(r, "begin") /\ spent' = [spent EXCEPT ![req[r].cookie] = @ + 1]
     ELSE Reply(r, "ErrNonceMismatch") /\ UNCHANGED spent
  /\ UNCHANGED <<process, entries, born, ids, at, chain, web, recorder, sessions>>

(* Burn first: what is burned is the cookie's nonce, not the message's.    *)
BurnCookie(r) ==
  /\ req[r].pc = "burn"
  /\ \/ BurnOK(req[r].cookie) /\ Goto(r, "begin")
     \/ BurnRejected(req[r].cookie) /\ Reply(r, "ErrNonceMismatch")
  /\ UNCHANGED <<process, ids, at, chain, web, recorder, sessions>>

(* Mutant of BeginVerify: the nonce expected is the one the message names. *)
BeginVerifyOwnNonce(r) ==
  /\ req[r].pc = "begin"
  /\ \E o \in Expectations : Begin(r, req[r].ns, req[r].msg, [o EXCEPT !.nonce = req[r].msg.nonce])
  /\ Goto(r, "verifying")
  /\ count' = [count EXCEPT !.attempts = @ + 1,
                            !.burned = @ + (IF req[r].kind = "verify" THEN 1 ELSE 0)]
  /\ UNCHANGED <<process, store, ids, chain, web, checks, sessions>>

(* registry.Verify is called, expecting the burned nonce; only verify      *)
(* counts the burn.                                                        *)
BeginVerify(r) ==
  /\ req[r].pc = "begin"
  /\ \E o \in Expectations : Begin(r, req[r].ns, req[r].msg, [o EXCEPT !.nonce = req[r].cookie])
  /\ Goto(r, "verifying")
  /\ count' = [count EXCEPT !.attempts = @ + 1,
                            !.burned = @ + (IF req[r].kind = "verify" THEN 1 ELSE 0)]
  /\ UNCHANGED <<process, store, ids, chain, web, checks, sessions>>

(* Mutant of Buffered: each event replaces the ones before it. *)
BufferedLast(r, event) == Put(checks, r, <<event>>)

(* Recorder.OnCheckResult: dropped once RecorderCap attempts are buffered, *)
(* even for an attempt that has events in the buffer.                      *)
Buffered(r, event) ==
  IF Cardinality(DOMAIN checks) >= RecorderCap THEN checks
  ELSE Put(checks, r, Append(IF r \in DOMAIN checks THEN checks[r] ELSE <<>>, event))

(* The events a step of attempt r emits, and the chain calls it makes. *)
Emitted(r) == {at'[r].trail[i] : i \in Len(at[r].trail) + 1 .. Len(at'[r].trail)}
Called(r) == {at'[r].rpc[i] : i \in Len(at[r].rpc) + 1 .. Len(at'[r].rpc)}

IsCheck(event) == \E i \in DOMAIN Checks : Checks[i] = event.name

(* A step of the verification.  Chain calls are answered by the demo       *)
(* wallets at once; the recorder, its observer, is called synchronously    *)
(* with the event the step emits: OnCheckResult counts a failed check and  *)
(* buffers it, OnVerifyResult counts a failure.                            *)
VerifyStep(r) ==
  /\ req[r].pc = "verifying"
  /\ AttemptStep(r)
  /\ \A call \in Called(r) : call[2] = DemoAnswer(call[1], at[r].sub)
  /\ LET check == {e \in Emitted(r) : IsCheck(e)}
         One(set) == IF set = {} THEN 0 ELSE 1
     IN  /\ checks' = IF check = {} THEN checks ELSE Buffered(r, CHOOSE e \in check : TRUE)
         /\ count' = [count EXCEPT
                        !.failedChecks = @ + One({e \in check : ~e.ok}),
                        !.failures = @ + One({e \in Emitted(r) : e.name = "result" /\ ~e.ok})]
  /\ UNCHANGED <<process, store, ids, chain, web, req, sessions>>

(* Mutant of Conclude: the branch for an error is forgotten. *)
ConcludeOnSuccess(r) ==
  /\ req[r].pc = "verifying" /\ at[r].pc = "done" /\ at[r].err = "nil"
  /\ Goto(r, req[r].kind)
  /\ UNCHANGED <<process, store, ids, at, chain, web, recorder, sessions>>

(* registry.Verify returned.  postVerify drains the recorder's buffer,     *)
(* postLink does not.                                                      *)
Conclude(r) ==
  /\ req[r].pc = "verifying" /\ at[r].pc = "done"
  /\ LET drains == req[r].kind = "verify"
         trail == IF drains /\ r \in DOMAIN checks THEN checks[r] ELSE <<>>
     IN  /\ checks' = IF drains THEN Without(checks, r) ELSE checks
         /\ req' = [req EXCEPT ![r] =
                      [@ EXCEPT !.trail = trail,
                                !.pc = IF at[r].err = "nil" THEN req[r].kind ELSE "reply",
                                !.status = at[r].err]]
  /\ UNCHANGED <<process, store, ids, at, chain, web, count, sessions>>

(* Identity.Account: the account in the message, on the chain it names.    *)
Account(r) == [ns |-> req[r].ns, ref |-> req[r].msg.ref, addr |-> req[r].msg.addr]

Upsert(r) ==
  /\ req[r].pc = "verify"
  /\ \E id \in Identity :
       /\ UpsertByWallet(Account(r), id)
       /\ req' = [req EXCEPT ![r] = [@ EXCEPT !.pc = "wallets", !.id = id]]
  /\ UNCHANGED <<process, store, at, chain, web, recorder, sessions>>

(* Mutant of ReadWallets: the error of Wallets is ignored.                 *)
ReadWalletsIgnoresError(r) ==
  /\ req[r].pc = "wallets"
  /\ req' = [req EXCEPT ![r] = [@ EXCEPT !.pc = "mint", !.wallets = Wallets(req[r].id)]]
  /\ UNCHANGED <<process, store, ids, at, chain, web, recorder, sessions>>

(* A second critical section: links may land between Upsert and this.      *)
ReadWallets(r) ==
  /\ req[r].pc = "wallets"
  /\ IF WalletsFails(req[r].id) THEN Reply(r, "500")
     ELSE req' = [req EXCEPT ![r] = [@ EXCEPT !.pc = "mint", !.wallets = Wallets(req[r].id)]]
  /\ UNCHANGED <<process, store, ids, at, chain, web, recorder, sessions>>

Granted(r) ==
  grants' = grants \union {[req |-> r, nonce |-> req[r].cookie, wallet |-> Account(r), run |-> run]}

(* issuer.Issue, then the counter, then the response. *)
Mint(r) ==
  /\ req[r].pc = "mint"
  /\ tokens' = tokens \union {[sub |-> req[r].id, wallets |-> req[r].wallets,
                               wallet |-> Account(r), run |-> run, exp |-> now + TokenTTL]}
  /\ Granted(r)
  /\ Inc("tokens")
  /\ Reply(r, "200")
  /\ UNCHANGED <<process, store, ids, at, chain, web, checks>>

Link(r) ==
  /\ req[r].pc = "link"
  /\ \/ LinkWallet(req[r].token.sub, Account(r)) /\ Granted(r) /\ Reply(r, "200")
     \/ LinkFails(req[r].token.sub) /\ Reply(r, "500") /\ UNCHANGED grants
  /\ UNCHANGED <<process, store, at, chain, web, recorder, tokens>>

(* Mutant of Deliver: every answer clears the cookie. *)
DeliverClears(r) ==
  /\ req[r].pc = "reply"
  /\ Goto(r, "done")
  /\ jar' = [jar EXCEPT ![req[r].browser] = ""]
  /\ UNCHANGED <<process, store, ids, at, chain, fetch, known, recorder, sessions>>

(* The response arrives; if the handler got as far as clearNonceCookie it  *)
(* deletes the cookie, even one a later GET /auth/nonce has set.           *)
Deliver(r) ==
  /\ req[r].pc = "reply"
  /\ Goto(r, "done")
  /\ jar' = IF req[r].clears THEN [jar EXCEPT ![req[r].browser] = ""] ELSE jar
  /\ UNCHANGED <<process, store, ids, at, chain, fetch, known, recorder, sessions>>

(* The process dies: its memory goes, its handlers stop where they are,    *)
(* responses already sent may still arrive.                                *)
HubCrash ==
  /\ Crash /\ LoseNonces /\ LoseIdentities /\ LoseWallets
  /\ at' = [a \in Attempt |-> Idle]
  /\ checks' = Empty /\ count' = Zero
  /\ fetch' = [n \in {k \in DOMAIN fetch : fetch[k].pc # "issued"} |-> fetch[n]]
  /\ req' = [r \in Request |-> IF req[r].pc \in {"unsent", "reply", "done"} THEN req[r]
                               ELSE [req[r] EXCEPT !.pc = "lost"]]
  /\ UNCHANGED <<verifiers, jar, known, sessions>>

(* POST /demo/contract-wallet: the response names an address that can be   *)
(* derived without it.                                                     *)
PostRegisterContractWallet(w) ==
  /\ RegisterWallet(w)
  /\ UNCHANGED <<process, store, ids, at, verifiers, web, req, recorder, sessions>>

(* What the server does next on a request. *)
Handle(r) == \/ Receive(r) \/ BurnCookie(r) \/ BeginVerify(r) \/ VerifyStep(r)
             \/ Conclude(r) \/ Upsert(r) \/ ReadWallets(r) \/ Mint(r) \/ Link(r)

HubNext ==
  \/ \E n \in Nonce : \/ \E b \in Browser : FetchNonce(b, n)
                      \/ CountIssued(n)
                      \/ DeliverNonce(n)
  \/ \E r \in Request :
       \/ \E b \in Browser, ns \in Namespace \union {""}, m \in Submissions :
            \E n \in known[b] :
              \/ Send(r, b, "verify", ns, [m EXCEPT !.nonce = n], {})
              \/ \E t \in tokens : Send(r, b, "link", ns, [m EXCEPT !.nonce = n], t)
       \/ Handle(r)
       \/ Deliver(r)
  \/ \E w \in Contract : PostRegisterContractWallet(w)
  \/ Tick /\ UNCHANGED <<store, ids, at, chain, web, req, recorder, sessions>>
  \/ HubCrash

(* The server's goroutines run, chain calls included: the hub simulates    *)
(* its chain.  The network and the browsers owe nothing.                   *)
HubFairness == \A r \in Request : WF_hubVars(Handle(r))

HubSpec == HubInit /\ [][HubNext]_hubVars /\ HubFairness

-----------------------------------------------------------------------------
InFlight(r) == req[r].pc \notin {"unsent", "reply", "done", "lost"}

(* What a request that was sent holds: an account if it named a chain, the *)
(* token of a link, behind Burn the nonce of its cookie, behind Upsert an  *)
(* identity; while it is verified, a call about its own message.           *)
RequestTypeOK(r) ==
  /\ req[r].kind \in {"verify", "link"} /\ req[r].browser \in Browser
  /\ req[r].cookie \in DOMAIN born \union {""} /\ req[r].msg.nonce \in DOMAIN born
  /\ req[r].ns # "" => Account(r) \in Wallet
  /\ req[r].kind = "link" => req[r].token \in tokens
  /\ req[r].id \in Identity \union {""} /\ req[r].wallets \in Seq(Wallet)
  /\ InFlight(r) /\ req[r].pc # "sent" => req[r].cookie # "" /\ req[r].ns # ""
  /\ req[r].pc \in {"wallets", "mint"} => req[r].id \in Identity
  /\ req[r].pc = "verifying" => at[r].pc # "idle" /\ at[r].sub = req[r].msg

(* The type invariant of the hub: what its stores, recorder and counters   *)
(* hold, what browsers were given, where requests stand, and tokens and    *)
(* grants.                                                                 *)
HubTypeOK ==
  /\ NonceTypeOK /\ IdentityTypeOK
  /\ owners \subseteq Contract
  /\ DOMAIN fetch \subseteq DOMAIN born
  /\ \A n \in DOMAIN fetch : fetch[n] \in [pc : {"issued", "reply", "done"}, browser : Browser]
  /\ \A b \in Browser : known[b] \subseteq DOMAIN born /\ jar[b] \in known[b] \union {""}
  /\ DOMAIN req = Request /\ DOMAIN at = Request
  /\ \A r \in Request : req[r].pc = "unsent" \/ RequestTypeOK(r)
  /\ DOMAIN checks \subseteq Request
  /\ count \in [DOMAIN Zero -> Nat]
  /\ tokens \subseteq [sub : Identity, wallets : Seq(Wallet), wallet : Wallet, run : 0 .. run, exp : Nat]
  /\ grants \subseteq [req : Request, nonce : DOMAIN born, wallet : Wallet, run : 0 .. run]

(* One success per nonce, whatever tabs, replays and restarts do: two      *)
(* tokens or links never rest on the same nonce, and the one they rest on  *)
(* was burned for them.                                                    *)
OneGrantPerNonce ==
  \A g \in grants : /\ spent[g.nonce] = 1
                    /\ \A h \in grants : g.nonce = h.nonce => g = h

(* At whatever moment the counters are looked at, tokens_issued <=         *)
(* nonces_burned <= nonces_issued, and an attempt is counted as a token or *)
(* as one failure, of one check at most, never as both: each counter is    *)
(* bumped before what it counts can lead to the next.                      *)
MetricsOrdered ==
  /\ count.tokens <= count.burned /\ count.burned <= count.issued
  /\ count.tokens + count.failures <= count.attempts
  /\ count.failedChecks <= count.attempts

(* A token names the wallet that signed in among its wallets, although its *)
(* identity and its wallets are read in two critical sections and a link   *)
(* may move the wallet in between.                                         *)
TokenNamesItsWallet ==
  \A t \in tokens : \E i \in DOMAIN t.wallets : t.wallets[i] = t.wallet

(* LinkWallet's "identity not found" never happens: a token that           *)
(* authenticates was minted by this process, and identities are never      *)
(* forgotten.                                                              *)
LinkFindsIdentity ==
  \A r \in Request : req[r].pc = "link" => req[r].token.sub \in DOMAIN idToWallets

(* "checks trail in verify response matches Observer emission order"       *)
(* (tasks/WT-C-mock-hub.md:94): the response carries check events of its   *)
(* own attempt only, in the order Verify emitted them after the parse      *)
(* result, and all five of them while fewer attempts began than the buffer *)
(* has places: a full one mutes events, but never mixes them up.           *)
ChecksTrailDelivered ==
  \A r \in Request :
    req[r].pc \in {"verify", "wallets", "mint"} /\ req[r].kind = "verify" =>
      LET told == req[r].trail
          Is(i, j) == told[i] = at[r].trail[j + 2] /\ told[i].name = Checks[j]
      IN  /\ \A i \in DOMAIN told : \E j \in DOMAIN Checks : Is(i, j)
          /\ \A i, k \in DOMAIN told : i < k =>
               \E j, l \in DOMAIN Checks : j < l /\ Is(i, j) /\ Is(k, l)
          /\ count.attempts < RecorderCap => Len(told) = Len(Checks)

(* The buffer forgets an attempt once it is over: "evicted on VerifyResult" *)
(* (tasks/WT-C-mock-hub.md:46).  A link's entry stays for good: nothing    *)
(* drains it, and RecorderCap of them mute every later sign-in.            *)
BufferHoldsOnlyInFlight == \A r \in DOMAIN checks : InFlight(r)

(* When Wallets fails, the nonce is spent and the identity exists already: *)
(* the request is answered 500, nothing rests on it, the client starts     *)
(* over; and no token names a wallet that does not read back, whether the  *)
(* identity was created with it or a link has put it there since.          *)
FailedReadGrantsNothing ==
  /\ \A r \in Request : req[r].pc \in {"reply", "done"} /\ req[r].status = "500" =>
       /\ spent[req[r].cookie] = 1
       /\ \A g \in grants : g.req # r /\ g.nonce # req[r].cookie
  /\ \A t \in tokens : \A i \in DOMAIN t.wallets : t.wallets[i] \notin Malformed

(* Tabs share a cookie: a second GET /auth/nonce replaces it, the answer   *)
(* to another request may clear a newer one.  A request is refused for its *)
(* nonce only then, or because that nonce was another request's, expired   *)
(* or died with its process: one whose cookie is the live nonce its page   *)
(* signed goes through.                                                    *)
ClearedBy(s, b) == req[s].pc = "done" /\ req[s].clears /\ req[s].browser = b

MismatchHasCause ==
  \A r \in Request : req[r].pc \in {"reply", "done"} /\ req[r].status = "ErrNonceMismatch" =>
    LET n == req[r].cookie
    IN  \/ n = "" /\ \E s \in Request \ {r} : ClearedBy(s, req[r].browser)
        \/ n # "" /\ n # req[r].msg.nonce
        \/ /\ n # ""
           /\ \/ born[n].run < run \/ now > born[n].at + born[n].ttl
              \/ \E s \in Request \ {r} : req[s].pc # "unsent" /\ req[s].cookie = n /\ spent[n] = 1

(* The owner of a contract wallet may sign in as the wallet only while the *)
(* hub knows the wallet: after a restart, until it is registered again,    *)
(* the address is an ordinary account, and its owner's signature is not    *)
(* that account's.                                                         *)
OwnerNeedsRegistration ==
  \A g \in grants : g.run = run /\ req[g.req].msg.sig = "owner" => g.wallet.addr \in owners

(* Every request the hub received is answered, unless the process dies.    *)
RequestsAnswered ==
  \A r \in Request : req[r].pc = "sent" ~> req[r].pc \in {"reply", "done", "lost"}

(* What the hub's state says of a nonce, of the wallets whose holders      *)
(* signed for one, and of the successes that rest on one.                  *)
Offered(n) == n \in DOMAIN entries /\ ~Expired(entries[n])
Claimed(n) == \E r \in Request : /\ req[r].pc \in {"begin", "verifying", "verify", "wallets", "mint", "link"}
                                /\ req[r].cookie = n
Fate(n) == IF n \notin DOMAIN born THEN "unborn"
           ELSE IF \E g \in grants : g.nonce = n THEN "granted"
           ELSE IF Offered(n) THEN "offered"
           ELSE IF Claimed(n) THEN "claimed"
           ELSE "void"

Signed(r) == req[r].pc # "unsent" /\ req[r].ns # "" /\ req[r].msg.sig \in {"good", "owner"}
Approvals == {[wallet |-> Account(r), nonce |-> req[r].msg.nonce] : r \in {s \in Request : Signed(s)}}
Successes == {[wallet |-> g.wallet, nonce |-> g.nonce] : g \in grants}

Promised == INSTANCE SignIn WITH
  status <- [n \in Nonce |-> Fate(n)], approved <- Approvals, granted <- Successes

(* Cookies, tabs, late responses, chain calls and crashes included, the    *)
(* hub is a SignIn: every token or link it answers rests on one nonce,     *)
(* claimed once, that the holder of the wallet signed for.                 *)
ImplementsSignIn == Promised!Spec

(* The hub uses its stores as their specifications allow: NonceStore's and *)
(* IdentityStore's properties are the hub's.                               *)
StoresUsedAsSpecified == NonceSpec /\ IdentitySpec
=============================================================================
