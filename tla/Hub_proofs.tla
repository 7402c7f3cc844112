------------------------------ MODULE Hub_proofs ------------------------------
(***************************************************************************)
(* Proofs about the hub for any number of browsers, requests, nonces,      *)
(* wallets and restarts: it uses its two stores as their specifications    *)
(* allow, so everything proved of them holds of the hub; and no nonce is   *)
(* good for two grants.                                                    *)
(***************************************************************************)
EXTENDS Hub, Stores_proofs

Fields == {"pc", "kind", "browser", "ns", "msg", "cookie", "token", "clears", "trail",
           "id", "wallets", "status"}

(* Where a request stands once its nonce is burned and before its answer.  *)
Past == {"begin", "verifying", "verify", "wallets", "mint", "link"}

Fetches == [pc : {"issued", "reply", "done"}, browser : Browser]

(* What browsers hold are nonces the hub issued to them.                   *)
WebOK ==
  /\ \A n \in DOMAIN fetch : n \in Nonce /\ fetch[n] \in Fetches
  /\ jar \in [Browser -> Nonce \union {""}]
  /\ known \in [Browser -> SUBSET Nonce]

(* A request that was sent carries a cookie, an account and, a link, one   *)
(* of the tokens minted; behind Burn, its cookie is a nonce.               *)
RequestOK(r) ==
  /\ DOMAIN req[r] = Fields
  /\ req[r].pc # "unsent"
  /\ req[r].kind \in {"verify", "link"}
  /\ req[r].browser \in Browser
  /\ req[r].cookie \in Nonce \union {""}
  /\ req[r].ns # "" => Account(r) \in Wallet
  /\ req[r].kind = "link" => req[r].token \in tokens
  /\ req[r].pc \in Past \union {"burn"} => req[r].cookie # "" /\ req[r].ns # ""
  /\ req[r].pc = "link" => req[r].kind = "link"
  /\ req[r].id \in Identity \union {""}
  /\ req[r].pc \in {"wallets", "mint"} => req[r].id \in Identity

RequestsOK ==
  /\ DOMAIN req = Request
  /\ \A r \in Request : RequestOK(r) \/ req[r] = [pc |-> "unsent"]
  /\ \A t \in tokens : t.sub \in Identity

HubShape == WebOK /\ RequestsOK

LEMMA ShapeInit == HubInit => HubShape
<1> SUFFICES ASSUME HubInit PROVE HubShape
  OBVIOUS
<1>1. WebOK
  BY DEF HubInit, WebOK, Empty
<1>2. RequestsOK
  BY DEF HubInit, RequestsOK
<1> QED BY <1>1, <1>2 DEF HubShape

(* A step that leaves requests, tokens and browsers alone. *)
LEMMA ShapeStutter ==
  ASSUME HubShape, UNCHANGED <<req, tokens, web>>
  PROVE  HubShape'
  BY DEF HubShape, WebOK, RequestsOK, RequestOK, Account, web

LEMMA ShapeFetchNonce ==
  ASSUME HubShape, NEW b \in Browser, NEW n \in Nonce, FetchNonce(b, n)
  PROVE  HubShape'
<1>1. fetch' = Put(fetch, n, [pc |-> "issued", browser |-> b])
      /\ UNCHANGED <<req, tokens, jar, known>>
  BY DEF FetchNonce, sessions
<1>2. [pc |-> "issued", browser |-> b] \in Fetches
  BY DEF Fetches
<1>3. WebOK'
  BY <1>1, <1>2 DEF HubShape, WebOK, Put
<1>4. RequestsOK'
  BY <1>1 DEF HubShape, RequestsOK, RequestOK, Account
<1> QED BY <1>3, <1>4 DEF HubShape

LEMMA ShapeCountIssued ==
  ASSUME HubShape, NEW n \in Nonce, CountIssued(n) \/ DeliverNonce(n)
  PROVE  HubShape'
<1>1. /\ n \in DOMAIN fetch
      /\ \E pc \in {"reply", "done"} : fetch' = [fetch EXCEPT ![n].pc = pc]
      /\ \/ UNCHANGED <<jar, known>>
         \/ /\ jar' = [jar EXCEPT ![fetch[n].browser] = n]
            /\ known' = [known EXCEPT ![fetch[n].browser] = @ \union {n}]
      /\ UNCHANGED <<req, tokens>>
  BY DEF CountIssued, DeliverNonce, sessions
<1>2. WebOK'
  <2>1. fetch[n] \in Fetches /\ n \in Nonce
    BY <1>1 DEF HubShape, WebOK
  <2>2. \A k \in DOMAIN fetch' : k \in Nonce /\ fetch'[k] \in Fetches
    <3>1. PICK pc \in {"reply", "done"} : fetch' = [fetch EXCEPT ![n].pc = pc]
      BY <1>1
    <3>2. [fetch[n] EXCEPT !.pc = pc] \in Fetches
      BY <2>1 DEF Fetches
    <3> QED BY <3>1, <3>2, <2>1 DEF HubShape, WebOK
  <2>3. jar' \in [Browser -> Nonce \union {""}] /\ known' \in [Browser -> SUBSET Nonce]
    <3>1. fetch[n].browser \in Browser
      BY <2>1 DEF Fetches
    <3>2. CASE UNCHANGED <<jar, known>>
      BY <3>2 DEF HubShape, WebOK
    <3>3. CASE ~ UNCHANGED <<jar, known>>
      <4>1. /\ jar' = [jar EXCEPT ![fetch[n].browser] = n]
            /\ known' = [known EXCEPT ![fetch[n].browser] = known[fetch[n].browser] \union {n}]
        BY <1>1, <3>3
      <4> QED BY <2>1, <3>1, <4>1 DEF HubShape, WebOK
    <3> QED BY <3>2, <3>3
  <2> QED BY <2>2, <2>3 DEF WebOK
<1>3. RequestsOK'
  BY <1>1 DEF HubShape, RequestsOK, RequestOK, Account
<1> QED BY <1>2, <1>3 DEF HubShape

(* A step that moves one request, whatever it does to the stores. *)
LEMMA ShapeMove ==
  ASSUME HubShape, NEW r \in Request,
         DOMAIN req' = Request, \A s \in Request \ {r} : req'[s] = req[s],
         RequestOK(r)', tokens \subseteq tokens', \A t \in tokens' : t.sub \in Identity,
         WebOK'
  PROVE  HubShape'
<1>1. \A s \in Request \ {r} : RequestOK(s) => RequestOK(s)'
  BY DEF RequestOK, Account
<1> QED BY <1>1 DEF HubShape, RequestsOK

LEMMA ShapeSend ==
  ASSUME HubShape, NEW r \in Request, NEW b \in Browser, NEW ns \in Namespace \union {""},
         NEW m \in Submissions, NEW n, NEW kind \in {"verify", "link"}, NEW token,
         kind = "link" => token \in tokens,
         Send(r, b, kind, ns, [m EXCEPT !.nonce = n], token)
  PROVE  HubShape'
<1> DEFINE mm == [m EXCEPT !.nonce = n]
<1>2. mm.ref = m.ref /\ mm.addr = m.addr
  <2>1. m \in SubmissionType
    BY SubmissionAssumption
  <2> QED BY <2>1 DEF SubmissionType
<1> HIDE DEF mm
<1>3. Send(r, b, kind, ns, mm, token)
  BY DEF mm
<1>4. req' = [req EXCEPT ![r] =
               [pc |-> "sent", kind |-> kind, browser |-> b, ns |-> ns, msg |-> mm,
                cookie |-> jar[b], token |-> token, clears |-> FALSE, trail |-> <<>>,
                id |-> "", wallets |-> <<>>, status |-> ""]]
      /\ UNCHANGED <<tokens, web>>
  BY <1>3 DEF Send, sessions
<1>5. RequestOK(r)'
  <2>1. /\ req'[r].pc = "sent" /\ req'[r].kind = kind /\ req'[r].browser = b /\ req'[r].ns = ns
        /\ req'[r].msg = mm /\ req'[r].cookie = jar[b] /\ req'[r].token = token /\ req'[r].id = ""
        /\ DOMAIN req'[r] = Fields
    BY <1>4 DEF HubShape, RequestsOK, Fields
  <2>2. jar[b] \in Nonce \union {""}
    BY DEF HubShape, WebOK
  <2>3. Account(r)' = [ns |-> ns, ref |-> m.ref, addr |-> m.addr]
    BY <1>2, <2>1 DEF Account
  <2>4. ns # "" => Account(r)' \in Wallet
    BY <2>3, AccountAssumption
  <2>5. kind = "link" => token \in tokens'
    BY <1>4
  <2> QED BY <2>1, <2>2, <2>4, <2>5 DEF RequestOK, Past
<1>6. WebOK'
  BY <1>4 DEF HubShape, WebOK, web
<1> QED BY <1>4, <1>5, <1>6, ShapeMove DEF HubShape, RequestsOK

(* A handler's step fills in what it has learnt; what the request came     *)
(* with stays.                                                             *)
Refills(r, v) ==
  /\ req' = [req EXCEPT ![r] = v]
  /\ DOMAIN v = Fields
  /\ v.kind = req[r].kind /\ v.browser = req[r].browser /\ v.ns = req[r].ns
  /\ v.msg = req[r].msg /\ v.cookie = req[r].cookie /\ v.token = req[r].token

LEMMA ShapeRefill ==
  ASSUME HubShape, NEW r \in Request, RequestOK(r), NEW v, Refills(r, v),
         v.pc # "unsent",
         v.pc \in Past \union {"burn"} => req[r].cookie # "" /\ req[r].ns # "",
         v.pc = "link" => req[r].kind = "link",
         v.id \in Identity \union {""},
         v.pc \in {"wallets", "mint"} => v.id \in Identity,
         WebOK', tokens \subseteq tokens', \A t \in tokens' : t.sub \in Identity
  PROVE  HubShape'
<1>1. req'[r] = v /\ DOMAIN req' = Request /\ \A s \in Request \ {r} : req'[s] = req[s]
  BY DEF Refills, HubShape, RequestsOK
<1>2. Account(r)' = Account(r)
  BY <1>1 DEF Refills, Account
<1>3. RequestOK(r)'
  BY <1>1, <1>2 DEF Refills, RequestOK
<1> QED BY <1>1, <1>3, ShapeMove

(* Goto and Reply touch the program counter and the status only. *)
LEMMA ShapeGoto ==
  ASSUME HubShape, NEW r \in Request, RequestOK(r), NEW pc, pc # "unsent", Goto(r, pc),
         pc \in Past \union {"burn"} => req[r].pc \in Past \union {"burn"},
         pc \notin {"link", "wallets", "mint"},
         WebOK', UNCHANGED tokens
  PROVE  HubShape'
<1> DEFINE v == [req[r] EXCEPT !.pc = pc]
<1>1. Refills(r, v) /\ v.pc = pc /\ v.id = req[r].id
  BY DEF Goto, Refills, RequestOK, Fields, HubShape, RequestsOK
<1> HIDE DEF v
<1> QED BY <1>1, ShapeRefill DEF RequestOK, HubShape, RequestsOK

LEMMA ShapeReply ==
  ASSUME HubShape, NEW r \in Request, RequestOK(r), NEW status, Reply(r, status),
         WebOK', tokens \subseteq tokens', \A t \in tokens' : t.sub \in Identity
  PROVE  HubShape'
<1> DEFINE v == [req[r] EXCEPT !.pc = "reply", !.status = status]
<1>1. Refills(r, v) /\ v.pc = "reply" /\ v.id = req[r].id
  BY DEF Reply, Refills, RequestOK, Fields, HubShape, RequestsOK
<1> HIDE DEF v
<1> QED BY <1>1, ShapeRefill DEF RequestOK, HubShape, RequestsOK, Past

LEMMA WasSent ==
  ASSUME HubShape, NEW r \in Request, req[r].pc # "unsent"
  PROVE  RequestOK(r)
<1>1. CASE req[r] = [pc |-> "unsent"]
  <2>1. req[r].pc = "unsent"
    BY <1>1
  <2> QED BY <2>1
<1> QED BY <1>1 DEF HubShape, RequestsOK

LEMMA WebKept ==
  ASSUME HubShape, UNCHANGED web
  PROVE  WebOK'
  BY DEF HubShape, WebOK, web

LEMMA ShapeReceive ==
  ASSUME HubShape, NEW r \in Request, Receive(r)
  PROVE  HubShape'
<1>1. RequestOK(r) /\ WebOK' /\ UNCHANGED tokens
  BY WasSent, WebKept DEF Receive, sessions
<1>2. CASE \E status : Reply(r, status)
  BY <1>1, <1>2, ShapeReply DEF HubShape, RequestsOK
<1>3. CASE /\ req[r].ns # "" /\ req[r].cookie # ""
           /\ req' = [req EXCEPT ![r] = [@ EXCEPT !.pc = "burn", !.clears = TRUE]]
  <2> DEFINE v == [req[r] EXCEPT !.pc = "burn", !.clears = TRUE]
  <2>1. Refills(r, v) /\ v.pc = "burn" /\ v.id = req[r].id
    BY <1>1, <1>3 DEF Refills, RequestOK, Fields, HubShape, RequestsOK
  <2> HIDE DEF v
  <2> QED BY <1>1, <1>3, <2>1, ShapeRefill DEF RequestOK, HubShape, RequestsOK, Past
<1> QED BY <1>2, <1>3 DEF Receive

LEMMA ShapeConclude ==
  ASSUME HubShape, NEW r \in Request, Conclude(r)
  PROVE  HubShape'
<1>0. req[r].pc \in Past /\ UNCHANGED <<web, tokens>>
  BY DEF Conclude, sessions, Past
<1>1. /\ RequestOK(r) /\ WebOK' /\ UNCHANGED tokens
      /\ req[r].cookie # "" /\ req[r].ns # ""
  BY <1>0, WasSent, WebKept DEF RequestOK, Past
<1>2. PICK trail : req' = [req EXCEPT ![r] =
                      [@ EXCEPT !.trail = trail,
                                !.pc = IF at[r].err = "nil" THEN req[r].kind ELSE "reply",
                                !.status = at[r].err]]
  BY DEF Conclude
<1> DEFINE v == [req[r] EXCEPT !.trail = trail,
                               !.pc = IF at[r].err = "nil" THEN req[r].kind ELSE "reply",
                               !.status = at[r].err]
<1>3. /\ Refills(r, v) /\ v.id = req[r].id
      /\ v.pc \in {"verify", "link", "reply"} /\ (v.pc = "link" => req[r].kind = "link")
  BY <1>1, <1>2 DEF Refills, RequestOK, Fields, HubShape, RequestsOK
<1> HIDE DEF v
<1> QED BY <1>1, <1>3, ShapeRefill DEF RequestOK, HubShape, RequestsOK, Past

LEMMA ShapeUpsert ==
  ASSUME HubShape, NEW r \in Request, Upsert(r)
  PROVE  HubShape'
<1>0. req[r].pc \in Past /\ UNCHANGED <<web, tokens>>
  BY DEF Upsert, sessions, Past
<1>1. /\ RequestOK(r) /\ WebOK' /\ UNCHANGED tokens
      /\ req[r].cookie # "" /\ req[r].ns # ""
  BY <1>0, WasSent, WebKept DEF RequestOK, Past
<1>2. PICK id \in Identity : req' = [req EXCEPT ![r] = [@ EXCEPT !.pc = "wallets", !.id = id]]
  BY DEF Upsert
<1> DEFINE v == [req[r] EXCEPT !.pc = "wallets", !.id = id]
<1>3. Refills(r, v) /\ v.id = id /\ v.pc = "wallets"
  BY <1>1, <1>2 DEF Refills, RequestOK, Fields, HubShape, RequestsOK
<1> HIDE DEF v
<1> QED BY <1>1, <1>3, ShapeRefill DEF RequestOK, HubShape, RequestsOK, Past

LEMMA ShapeReadWallets ==
  ASSUME HubShape, NEW r \in Request, ReadWallets(r)
  PROVE  HubShape'
<1>0. req[r].pc = "wallets" /\ UNCHANGED <<web, tokens>>
  BY DEF ReadWallets, sessions
<1>1. /\ RequestOK(r) /\ WebOK' /\ UNCHANGED tokens /\ req[r].id \in Identity
      /\ req[r].cookie # "" /\ req[r].ns # ""
  BY <1>0, WasSent, WebKept DEF RequestOK, Past
<1>2. CASE Reply(r, "500")
  BY <1>1, <1>2, ShapeReply DEF HubShape, RequestsOK
<1>3. CASE req' = [req EXCEPT ![r] = [@ EXCEPT !.pc = "mint", !.wallets = Wallets(req[r].id)]]
  <2> DEFINE v == [req[r] EXCEPT !.pc = "mint", !.wallets = Wallets(req[r].id)]
  <2>1. Refills(r, v) /\ v.id = req[r].id /\ v.pc = "mint"
    BY <1>1, <1>3 DEF Refills, RequestOK, Fields, HubShape, RequestsOK
  <2> HIDE DEF v
  <2> QED BY <1>1, <2>1, ShapeRefill DEF RequestOK, HubShape, RequestsOK, Past
<1> QED BY <1>2, <1>3 DEF ReadWallets

LEMMA ShapeMint ==
  ASSUME HubShape, NEW r \in Request, Mint(r)
  PROVE  HubShape'
<1>1. RequestOK(r) /\ WebOK' /\ req[r].id \in Identity /\ Reply(r, "200")
  <2>1. req[r].pc = "mint" /\ UNCHANGED web /\ Reply(r, "200")
    BY DEF Mint
  <2> QED BY <2>1, WasSent, WebKept DEF RequestOK
<1>2. tokens \subseteq tokens' /\ \A t \in tokens' : t.sub \in Identity
  BY <1>1 DEF Mint, HubShape, RequestsOK
<1> QED BY <1>1, <1>2, ShapeReply

LEMMA ShapeOther ==
  ASSUME HubShape, NEW r \in Request,
         BurnCookie(r) \/ BeginVerify(r) \/ VerifyStep(r) \/ Link(r) \/ Deliver(r)
  PROVE  HubShape'
<1>1. RequestOK(r) /\ UNCHANGED tokens
  BY WasSent DEF BurnCookie, BeginVerify, VerifyStep, Link, Deliver, sessions
<1>2. WebOK'
  <2>1. CASE UNCHANGED web
    BY <2>1 DEF web, HubShape, WebOK
  <2>2. CASE Deliver(r)
    BY <1>1, <2>2 DEF Deliver, HubShape, WebOK, RequestOK
  <2> QED BY <2>1, <2>2 DEF BurnCookie, BeginVerify, VerifyStep, Link
<1>3. CASE \E status : Reply(r, status)
  BY <1>1, <1>2, <1>3, ShapeReply DEF HubShape, RequestsOK
<1>4. CASE \/ Goto(r, "begin") /\ req[r].pc = "burn"
           \/ Goto(r, "verifying") /\ req[r].pc = "begin"
           \/ Goto(r, "done")
  BY <1>1, <1>2, <1>4, ShapeGoto DEF Past
<1>5. CASE UNCHANGED req
  BY <1>1, <1>2, <1>5 DEF HubShape, RequestsOK, RequestOK, Account
<1> QED BY <1>3, <1>4, <1>5 DEF BurnCookie, BeginVerify, VerifyStep, Link, Deliver

LEMMA ShapeCrash ==
  ASSUME HubShape, HubCrash
  PROVE  HubShape'
<1>1. /\ fetch' = [n \in {k \in DOMAIN fetch : fetch[k].pc # "issued"} |-> fetch[n]]
      /\ req' = [r \in Request |-> IF req[r].pc \in {"unsent", "reply", "done"} THEN req[r]
                                   ELSE [req[r] EXCEPT !.pc = "lost"]]
      /\ UNCHANGED <<jar, known, tokens>>
  BY DEF HubCrash, sessions
<1>2. WebOK'
  BY <1>1 DEF HubShape, WebOK
<1>3. ASSUME NEW r \in Request, req[r].pc \notin {"unsent", "reply", "done"}
      PROVE  RequestOK(r)'
  <2> DEFINE v == [req[r] EXCEPT !.pc = "lost"]
  <2>1. req'[r] = v /\ RequestOK(r)
    BY <1>1, <1>3, WasSent
  <2>2. /\ DOMAIN v = Fields /\ v.pc = "lost" /\ v.id = req[r].id
        /\ v.kind = req[r].kind /\ v.browser = req[r].browser /\ v.ns = req[r].ns
        /\ v.msg = req[r].msg /\ v.cookie = req[r].cookie /\ v.token = req[r].token
    BY <2>1 DEF RequestOK, Fields
  <2> HIDE DEF v
  <2>3. Account(r)' = Account(r)
    BY <2>1, <2>2 DEF Account
  <2>4. /\ req'[r].pc = "lost" /\ DOMAIN req'[r] = Fields /\ req'[r].id = req[r].id
        /\ req'[r].kind = req[r].kind /\ req'[r].browser = req[r].browser
        /\ req'[r].ns = req[r].ns /\ req'[r].cookie = req[r].cookie
        /\ req'[r].token = req[r].token /\ tokens' = tokens
    BY <1>1, <2>1, <2>2
  <2>5. "lost" \notin Past \union {"burn"}
    BY DEF Past
  <2> QED BY <2>1, <2>3, <2>4, <2>5 DEF RequestOK
<1>4. ASSUME NEW r \in Request, req[r].pc \in {"unsent", "reply", "done"}
      PROVE  (RequestOK(r) \/ req[r] = [pc |-> "unsent"])'
  <2>1. req'[r] = req[r] /\ UNCHANGED tokens
    BY <1>1, <1>4
  <2>2. Account(r)' = Account(r)
    BY <2>1 DEF Account
  <2> QED BY <2>1, <2>2 DEF RequestOK, HubShape, RequestsOK
<1>5. RequestsOK'
  BY <1>1, <1>3, <1>4 DEF HubShape, RequestsOK
<1> QED BY <1>2, <1>5 DEF HubShape

LEMMA ShapeNext == HubShape /\ [HubNext]_hubVars => HubShape'
<1> SUFFICES ASSUME HubShape, [HubNext]_hubVars PROVE HubShape'
  OBVIOUS
<1>1. CASE UNCHANGED <<req, tokens, web>>
  BY <1>1, ShapeStutter
<1>2. ASSUME NEW n \in Nonce, NEW b \in Browser, FetchNonce(b, n) PROVE HubShape'
  BY <1>2, ShapeFetchNonce
<1>3. ASSUME NEW n \in Nonce, CountIssued(n) \/ DeliverNonce(n) PROVE HubShape'
  BY <1>3, ShapeCountIssued
<1>4. ASSUME NEW r \in Request, NEW b \in Browser, NEW ns \in Namespace \union {""},
             NEW m \in Submissions, NEW n \in known[b],
             \/ Send(r, b, "verify", ns, [m EXCEPT !.nonce = n], {})
             \/ \E t \in tokens : Send(r, b, "link", ns, [m EXCEPT !.nonce = n], t)
      PROVE  HubShape'
  <2>1. CASE Send(r, b, "verify", ns, [m EXCEPT !.nonce = n], {})
    BY <2>1, ShapeSend
  <2>2. ASSUME NEW t \in tokens, Send(r, b, "link", ns, [m EXCEPT !.nonce = n], t)
        PROVE  HubShape'
    BY <2>2, ShapeSend
  <2> QED BY <1>4, <2>1, <2>2
<1>5. ASSUME NEW r \in Request, Handle(r) PROVE HubShape'
  BY <1>5, ShapeReceive, ShapeConclude, ShapeUpsert, ShapeReadWallets, ShapeMint, ShapeOther DEF Handle
<1>6. ASSUME NEW r \in Request, Deliver(r) PROVE HubShape'
  BY <1>6, ShapeOther
<1>7. CASE HubCrash
  BY <1>7, ShapeCrash
<1> QED BY <1>1, <1>2, <1>3, <1>4, <1>5, <1>6, <1>7 DEF HubNext, hubVars, sessions, PostRegisterContractWallet

LEMMA ShapeAlways == HubSpec => []HubShape
  BY ShapeInit, ShapeNext, PTL DEF HubSpec

-----------------------------------------------------------------------------
(* The hub calls its stores with what they accept, one method at a time.   *)
LEMMA HandleOfNonces ==
  ASSUME HubShape, NEW r \in Request, Handle(r)
  PROVE  \/ UNCHANGED nonceVars
         \/ NonceStep /\ UNCHANGED process
<1>1. CASE BurnCookie(r)
  <2>1. req[r].cookie \in Nonce
    BY <1>1, WasSent DEF BurnCookie, RequestOK
  <2> QED BY <1>1, <2>1 DEF BurnCookie, NonceStep
<1>2. CASE ~BurnCookie(r)
  BY <1>2 DEF Handle, Receive, BeginVerify, VerifyStep, Conclude, Upsert, ReadWallets, Mint, Link,
              nonceVars
<1> QED BY <1>1, <1>2

LEMMA HandleOfIdentities ==
  ASSUME HubShape, NEW r \in Request, Handle(r)
  PROVE  \/ UNCHANGED identityVars
         \/ IdentityStep /\ UNCHANGED process
<1>1. CASE Upsert(r)
  <2>1. Account(r) \in Wallet
    BY <1>1, WasSent DEF Upsert, RequestOK, Past
  <2> QED BY <1>1, <2>1 DEF Upsert, IdentityStep
<1>2. CASE Link(r)
  <2>1. Account(r) \in Wallet /\ req[r].token.sub \in Identity
    BY <1>2, WasSent DEF Link, RequestOK, Past, HubShape, RequestsOK
  <2>2. LinkWallet(req[r].token.sub, Account(r)) \/ LinkFails(req[r].token.sub)
    BY <1>2 DEF Link
  <2>3. UNCHANGED process
    BY <1>2 DEF Link
  <2> QED BY <2>1, <2>2, <2>3 DEF IdentityStep
<1>3. CASE ~Upsert(r) /\ ~Link(r)
  BY <1>3 DEF Handle, Receive, BurnCookie, BeginVerify, VerifyStep, Conclude, ReadWallets, Mint,
              identityVars
<1> QED BY <1>1, <1>2, <1>3

LEMMA StoresNext ==
  HubShape /\ [HubNext]_hubVars => [NonceNext]_nonceVars /\ [IdentityNext]_identityVars
<1> SUFFICES ASSUME HubShape, [HubNext]_hubVars
             PROVE  [NonceNext]_nonceVars /\ [IdentityNext]_identityVars
  OBVIOUS
<1>1. CASE UNCHANGED hubVars
  BY <1>1 DEF hubVars, nonceVars, identityVars
<1>2. ASSUME NEW n \in Nonce, NEW b \in Browser, FetchNonce(b, n)
      PROVE  NonceNext /\ UNCHANGED identityVars
  BY <1>2 DEF FetchNonce, NonceNext, NonceStep, identityVars
<1>3. ASSUME NEW n \in Nonce, CountIssued(n) \/ DeliverNonce(n)
      PROVE  UNCHANGED <<nonceVars, identityVars>>
  BY <1>3 DEF CountIssued, DeliverNonce, nonceVars, identityVars
<1>4. ASSUME NEW r \in Request, NEW b, NEW kind, NEW ns, NEW m, NEW t, Send(r, b, kind, ns, m, t)
      PROVE  UNCHANGED <<nonceVars, identityVars>>
  BY <1>4 DEF Send, nonceVars, identityVars
<1>5. ASSUME NEW r \in Request, Handle(r)
      PROVE  [NonceNext]_nonceVars /\ [IdentityNext]_identityVars
  BY <1>5, HandleOfNonces, HandleOfIdentities DEF NonceNext, IdentityNext
<1>6. ASSUME NEW r \in Request, Deliver(r)
      PROVE  UNCHANGED <<nonceVars, identityVars>>
  BY <1>6 DEF Deliver, nonceVars, identityVars
<1>7. CASE Tick /\ UNCHANGED <<store, ids>>
  BY <1>7 DEF NonceNext, IdentityNext
<1>8. CASE HubCrash
  BY <1>8 DEF HubCrash, NonceNext, IdentityNext
<1>9. ASSUME NEW w \in Contract, PostRegisterContractWallet(w)
      PROVE  UNCHANGED <<nonceVars, identityVars>>
  BY <1>9 DEF PostRegisterContractWallet, nonceVars, identityVars
<1> QED BY <1>1, <1>2, <1>3, <1>4, <1>5, <1>6, <1>7, <1>8, <1>9 DEF HubNext

LEMMA StoresInit == HubInit => NonceInit /\ IdentityInit
  BY DEF HubInit

(* What is proved of the two stores holds in the hub: whichever handlers   *)
(* call them, they take only the steps their specifications allow.         *)
THEOREM StoresKeptToSpec == HubSpec => StoresUsedAsSpecified
  BY StoresInit, StoresNext, ShapeAlways, PTL
  DEF HubSpec, StoresUsedAsSpecified, NonceSpec, IdentitySpec

-----------------------------------------------------------------------------
(* A request behind Burn holds a nonce nobody else holds and no grant      *)
(* rests on; Burn accepted it once.                                        *)
Holds(r) == req[r].pc \in Past

OneUse ==
  /\ \A r \in Request : Holds(r) => spent[req[r].cookie] = 1
  /\ \A r, s \in Request : Holds(r) /\ Holds(s) /\ req[r].cookie = req[s].cookie => r = s
  /\ \A g \in grants, r \in Request : Holds(r) => req[r].cookie # g.nonce
  /\ OneGrantPerNonce

LEMMA OneUseInit == HubInit => OneUse
<1> SUFFICES ASSUME HubInit PROVE OneUse
  OBVIOUS
<1>1. \A r \in Request : req[r].pc = "unsent"
  BY DEF HubInit
<1>2. \A r \in Request : ~Holds(r)
  BY <1>1 DEF Holds, Past
<1>3. grants = {}
  BY DEF HubInit
<1> QED BY <1>2, <1>3 DEF OneUse, OneGrantPerNonce

(* Nothing is burned or granted, and only requests that held a nonce do.   *)
LEMMA OneUseKept ==
  ASSUME OneUse, UNCHANGED <<spent, grants>>,
         \A r \in Request : Holds(r)' => Holds(r) /\ req'[r].cookie = req[r].cookie
  PROVE  OneUse'
  BY DEF OneUse, OneGrantPerNonce

(* One request moves, keeping its cookie. *)
LEMMA OneUseMove ==
  ASSUME OneUse, UNCHANGED <<spent, grants>>, HubShape, NEW r \in Request, NEW v,
         req' = [req EXCEPT ![r] = v],
         v.pc \in Past => Holds(r) /\ v.cookie = req[r].cookie
  PROVE  OneUse'
<1>1. req'[r] = v /\ \A s \in Request \ {r} : req'[s] = req[s]
  BY DEF HubShape, RequestsOK
<1>2. \A s \in Request : Holds(s)' => Holds(s) /\ req'[s].cookie = req[s].cookie
  BY <1>1 DEF Holds
<1> QED BY <1>2, OneUseKept

LEMMA OneUseReply ==
  ASSUME OneUse, UNCHANGED <<spent, grants>>, HubShape, NEW r \in Request, RequestOK(r),
         NEW status, Reply(r, status)
  PROVE  OneUse'
<1> DEFINE v == [req[r] EXCEPT !.pc = "reply", !.status = status]
<1>1. v.pc = "reply" /\ req' = [req EXCEPT ![r] = v]
  BY DEF Reply, RequestOK, Fields
<1>2. "reply" \notin Past
  BY DEF Past
<1> HIDE DEF v
<1> QED BY <1>1, <1>2, OneUseMove

(* The nonce that is burned had not been accepted: nobody holds it.        *)
LEMMA OneUseBurn ==
  ASSUME OneUse, HubShape, NonceInv, NEW r \in Request, BurnCookie(r)
  PROVE  OneUse'
<1>0. RequestOK(r) /\ req[r].cookie \in Nonce /\ UNCHANGED grants
  BY WasSent DEF BurnCookie, RequestOK, sessions
<1>1. CASE BurnRejected(req[r].cookie) /\ Reply(r, "ErrNonceMismatch")
  BY <1>0, <1>1, OneUseReply DEF BurnRejected
<1>2. CASE BurnOK(req[r].cookie) /\ Goto(r, "begin")
  <2> DEFINE n == req[r].cookie
  <2>1. spent[n] = 0 /\ spent'[n] = 1 /\ \A k \in Nonce \ {n} : spent'[k] = spent[k]
    BY <1>0, <1>2 DEF BurnOK, NonceInv, NonceTypeOK, EntriesAreFresh
  <2>2. /\ req'[r].cookie = n /\ req'[r].pc = "begin"
        /\ \A s \in Request \ {r} : req'[s] = req[s]
    BY <1>0, <1>2 DEF Goto, RequestOK, Fields, HubShape, RequestsOK
  <2>3. \A s \in Request : Holds(s) => req[s].cookie # n /\ req[s].cookie \in Nonce
    <3> SUFFICES ASSUME NEW s \in Request, Holds(s)
                 PROVE  req[s].cookie # n /\ req[s].cookie \in Nonce
      OBVIOUS
    <3>1. spent[req[s].cookie] = 1
      BY DEF OneUse
    <3>2. req[s].pc # "unsent" /\ req[s].pc \in Past
      BY DEF Holds, Past
    <3>3. RequestOK(s)
      BY <3>2, WasSent
    <3>4. req[s].cookie \in Nonce
      BY <3>2, <3>3 DEF RequestOK
    <3>5. req[s].cookie # n
      BY <3>1, <2>1
    <3> QED BY <3>4, <3>5
  <2>4. \A g \in grants : spent[g.nonce] = 1 /\ g.nonce # n
    BY <2>1 DEF OneUse, OneGrantPerNonce
  <2>5. \A s \in Request \ {r} : Holds(s)' = Holds(s)
    BY <2>2 DEF Holds
  <2>6. \A s \in Request : Holds(s)' => spent'[req'[s].cookie] = 1
    BY <2>1, <2>2, <2>3, <2>5 DEF OneUse
  <2>7. \A s, t \in Request : Holds(s)' /\ Holds(t)' /\ req'[s].cookie = req'[t].cookie => s = t
    BY <2>2, <2>3, <2>5 DEF OneUse
  <2>8. \A g \in grants', s \in Request : Holds(s)' => req'[s].cookie # g.nonce
    BY <1>0, <2>2, <2>4, <2>5 DEF OneUse
  <2>9. OneGrantPerNonce'
    <3>1. \A g \in grants : spent'[g.nonce] = 1
      <4>1. spent' = [spent EXCEPT ![n] = spent[n] + 1]
        BY <1>2 DEF BurnOK
      <4>2. DOMAIN spent = Nonce
        BY DEF NonceInv, NonceTypeOK
      <4> QED BY <2>1, <2>4, <4>1, <4>2
    <3> QED BY <1>0, <3>1 DEF OneUse, OneGrantPerNonce
  <2> QED BY <2>6, <2>7, <2>8, <2>9 DEF OneUse
<1> QED BY <1>1, <1>2 DEF BurnCookie

(* A grant takes its nonce from the request that held it.                  *)
LEMMA OneUseGrant ==
  ASSUME OneUse, HubShape, NEW r \in Request, Holds(r), RequestOK(r), UNCHANGED spent,
         Granted(r), NEW status, Reply(r, status)
  PROVE  OneUse'
<1> DEFINE n == req[r].cookie
           G == [req |-> r, nonce |-> n, wallet |-> Account(r), run |-> run]
<1>1. req'[r].pc = "reply" /\ \A s \in Request \ {r} : req'[s] = req[s]
  BY DEF Reply, HubShape, RequestsOK, RequestOK, Fields
<1>2. ~Holds(r)' /\ \A s \in Request \ {r} : Holds(s)' = Holds(s)
  BY <1>1 DEF Holds, Past
<1>3. grants' = grants \union {G} /\ G.nonce = n /\ spent[n] = 1
  BY DEF Granted, OneUse
<1> HIDE DEF G, n
<1>4. n = req[r].cookie
  BY DEF n
<1>5. \A g \in grants : g.nonce # n
  BY <1>4 DEF OneUse
<1>6. \A s \in Request \ {r} : Holds(s) => req[s].cookie # n
  BY <1>4 DEF OneUse
<1>7. OneGrantPerNonce'
  BY <1>3, <1>5 DEF OneUse, OneGrantPerNonce
<1>8. \A g \in grants', s \in Request : Holds(s)' => req'[s].cookie # g.nonce
  BY <1>1, <1>2, <1>3, <1>6 DEF OneUse
<1>9. /\ \A s \in Request : Holds(s)' => spent'[req'[s].cookie] = 1
      /\ \A s, t \in Request : Holds(s)' /\ Holds(t)' /\ req'[s].cookie = req'[t].cookie => s = t
  BY <1>1, <1>2 DEF OneUse
<1> QED BY <1>7, <1>8, <1>9 DEF OneUse

(* The rest of a handler and the arrival of its answer neither burn nor    *)
(* grant.                                                                  *)
LEMMA OneUseOther ==
  ASSUME OneUse, HubShape, NEW r \in Request, UNCHANGED <<spent, grants>>,
         \/ Receive(r) \/ BeginVerify(r) \/ VerifyStep(r) \/ Conclude(r)
         \/ Upsert(r) \/ ReadWallets(r) \/ Deliver(r)
  PROVE  OneUse'
<1>0. RequestOK(r)
  BY WasSent DEF Receive, BeginVerify, VerifyStep, Conclude, Upsert, ReadWallets, Deliver
<1>1. CASE \E status : Reply(r, status)
  BY <1>0, <1>1, OneUseReply
<1>2. CASE UNCHANGED req
  BY <1>2, OneUseKept DEF Holds
<1>3. CASE \/ Receive(r) /\ req' = [req EXCEPT ![r] = [@ EXCEPT !.pc = "burn", !.clears = TRUE]]
           \/ Goto(r, "done")
  <2>1. PICK v : req' = [req EXCEPT ![r] = v] /\ v.pc \in {"burn", "done"}
    <3>1. CASE Goto(r, "done")
      <4>1. [req[r] EXCEPT !.pc = "done"].pc = "done"
        BY <1>0 DEF RequestOK, Fields
      <4> QED BY <3>1, <4>1 DEF Goto
    <3>2. CASE req' = [req EXCEPT ![r] = [@ EXCEPT !.pc = "burn", !.clears = TRUE]]
      <4>1. [req[r] EXCEPT !.pc = "burn", !.clears = TRUE].pc = "burn"
        BY <1>0 DEF RequestOK, Fields
      <4> QED BY <3>2, <4>1
    <3> QED BY <1>3, <3>1, <3>2
  <2> QED BY <2>1, OneUseMove DEF Past
<1>4. CASE BeginVerify(r) \/ Conclude(r) \/ Upsert(r) \/ ReadWallets(r)
  <2>1. Holds(r)
    BY <1>4 DEF Holds, Past, BeginVerify, Conclude, Upsert, ReadWallets
  <2>2. CASE BeginVerify(r)
    <3> DEFINE v == [req[r] EXCEPT !.pc = "verifying"]
    <3>1. req' = [req EXCEPT ![r] = v] /\ v.cookie = req[r].cookie
      BY <1>0, <2>2 DEF BeginVerify, Goto, RequestOK, Fields
    <3> HIDE DEF v
    <3> QED BY <3>1, <2>1, OneUseMove
  <2>3. CASE Conclude(r)
    <3>1. PICK trail :
            req' = [req EXCEPT ![r] =
                      [@ EXCEPT !.trail = trail,
                                !.pc = IF at[r].err = "nil" THEN req[r].kind ELSE "reply",
                                !.status = at[r].err]]
      BY <2>3 DEF Conclude
    <3> DEFINE v == [req[r] EXCEPT !.trail = trail,
                                   !.pc = IF at[r].err = "nil" THEN req[r].kind ELSE "reply",
                                   !.status = at[r].err]
    <3>2. req' = [req EXCEPT ![r] = v] /\ v.cookie = req[r].cookie
      BY <1>0, <3>1 DEF RequestOK, Fields
    <3> HIDE DEF v
    <3> QED BY <3>2, <2>1, OneUseMove
  <2>4. CASE Upsert(r)
    <3>1. PICK id \in Identity :
            req' = [req EXCEPT ![r] = [@ EXCEPT !.pc = "wallets", !.id = id]]
      BY <2>4 DEF Upsert
    <3> DEFINE v == [req[r] EXCEPT !.pc = "wallets", !.id = id]
    <3>2. req' = [req EXCEPT ![r] = v] /\ v.cookie = req[r].cookie
      BY <1>0, <3>1 DEF RequestOK, Fields
    <3> HIDE DEF v
    <3> QED BY <3>2, <2>1, OneUseMove
  <2>5. CASE ReadWallets(r) /\ ~ \E status : Reply(r, status)
    <3> DEFINE v == [req[r] EXCEPT !.pc = "mint", !.wallets = Wallets(req[r].id)]
    <3>1. req' = [req EXCEPT ![r] = v]
      BY <2>5 DEF ReadWallets
    <3>2. v.cookie = req[r].cookie
      BY <1>0 DEF RequestOK, Fields
    <3> HIDE DEF v
    <3> QED BY <3>1, <3>2, <2>1, OneUseMove
  <2> QED BY <1>4, <1>1, <2>2, <2>3, <2>4, <2>5
<1>5. CASE Receive(r)
  BY <1>1, <1>3, <1>5 DEF Receive
<1>6. CASE VerifyStep(r)
  BY <1>2, <1>6 DEF VerifyStep
<1>7. CASE Deliver(r)
  BY <1>3, <1>7 DEF Deliver
<1> QED BY <1>4, <1>5, <1>6, <1>7

LEMMA OneUseNext == OneUse /\ HubShape /\ NonceInv /\ [HubNext]_hubVars => OneUse'
<1> SUFFICES ASSUME OneUse, HubShape, NonceInv, [HubNext]_hubVars PROVE OneUse'
  OBVIOUS
<1>1. CASE UNCHANGED <<req, spent, grants>>
  BY <1>1, OneUseKept DEF Holds
<1>2. ASSUME NEW n \in Nonce, NEW b \in Browser, FetchNonce(b, n) PROVE OneUse'
  BY <1>2, <1>1 DEF FetchNonce, Issue, sessions
<1>3. ASSUME NEW n \in Nonce, CountIssued(n) \/ DeliverNonce(n) PROVE OneUse'
  BY <1>3, <1>1 DEF CountIssued, DeliverNonce, store, sessions
<1>4. ASSUME NEW r \in Request, NEW b, NEW kind, NEW ns, NEW m, NEW t, Send(r, b, kind, ns, m, t)
      PROVE  OneUse'
  <2> DEFINE v == [pc |-> "sent", kind |-> kind, browser |-> b, ns |-> ns, msg |-> m,
                   cookie |-> jar[b], token |-> t, clears |-> FALSE, trail |-> <<>>,
                   id |-> "", wallets |-> <<>>, status |-> ""]
  <2>1. req' = [req EXCEPT ![r] = v] /\ v.pc = "sent" /\ UNCHANGED <<spent, grants>>
    BY <1>4 DEF Send, store, sessions
  <2> HIDE DEF v
  <2> QED BY <2>1, OneUseMove DEF Past
<1>5. ASSUME NEW r \in Request, Mint(r) \/ Link(r) PROVE OneUse'
  <2>1. Holds(r) /\ RequestOK(r) /\ UNCHANGED spent
    BY <1>5, WasSent DEF Mint, Link, Holds, Past, store
  <2>2. CASE \E status : Granted(r) /\ Reply(r, status)
    BY <2>1, <2>2, OneUseGrant
  <2>3. CASE \E status : UNCHANGED grants /\ Reply(r, status)
    BY <2>1, <2>3, OneUseReply
  <2> QED BY <1>5, <2>2, <2>3 DEF Mint, Link
<1>6. ASSUME NEW r \in Request, Handle(r) \/ Deliver(r) PROVE OneUse'
  <2>1. CASE BurnCookie(r)
    BY <2>1, OneUseBurn
  <2>2. CASE Mint(r) \/ Link(r)
    BY <2>2, <1>5
  <2>3. CASE \/ Receive(r) \/ BeginVerify(r) \/ VerifyStep(r) \/ Conclude(r)
             \/ Upsert(r) \/ ReadWallets(r) \/ Deliver(r)
    <3>1. UNCHANGED <<spent, grants>>
      BY <2>3 DEF Receive, BeginVerify, VerifyStep, Conclude, Upsert, ReadWallets, Deliver,
                  store, sessions
    <3> QED BY <2>3, <3>1, OneUseOther
  <2> QED BY <1>6, <2>1, <2>2, <2>3 DEF Handle
<1>7. CASE HubCrash
  <2>1. UNCHANGED <<spent, grants>>
    BY <1>7 DEF HubCrash, LoseNonces, sessions
  <2>2. \A r \in Request : Holds(r)' => FALSE
    <3> SUFFICES ASSUME NEW r \in Request PROVE req'[r].pc \notin Past
      BY DEF Holds
    <3>1. CASE req[r].pc \in {"unsent", "reply", "done"}
      BY <1>7, <3>1 DEF HubCrash, Past
    <3>2. CASE req[r].pc \notin {"unsent", "reply", "done"}
      <4>1. [req[r] EXCEPT !.pc = "lost"].pc = "lost"
        BY <3>2, WasSent DEF RequestOK, Fields
      <4> QED BY <1>7, <3>2, <4>1 DEF HubCrash, Past
    <3> QED BY <3>1, <3>2
  <2> QED BY <2>1, <2>2, OneUseKept
<1>8. CASE Tick /\ UNCHANGED <<store, req, sessions>>
  BY <1>1, <1>8 DEF store, sessions
<1> QED BY <1>1, <1>2, <1>3, <1>4, <1>6, <1>7, <1>8 DEF HubNext, hubVars, store, sessions,
                                                          PostRegisterContractWallet

(* What the hub uses its stores for keeps their invariants.                *)
LEMMA HubKeepsNonceInv == HubSpec => []NonceInv
  BY StoresKeptToSpec, InvAlways, PTL DEF StoresUsedAsSpecified

LEMMA HubKeepsIdentityInv == HubSpec => []IdentityInv
  BY StoresKeptToSpec, IdentityInvAlways, PTL DEF StoresUsedAsSpecified

(* No two tokens or links rest on one nonce: requests of any number of     *)
(* tabs, replays and restarts race for it and one at most succeeds         *)
(* (handlers.go postVerify and postLink burn before they verify).          *)
THEOREM EveryGrantItsOwnNonce == HubSpec => []OneGrantPerNonce
<1>1. OneUse => OneGrantPerNonce
  BY DEF OneUse
<1> QED BY <1>1, OneUseInit, OneUseNext, ShapeAlways, HubKeepsNonceInv, PTL DEF HubSpec

(* The hub accepts no nonce twice (handlers.go: store.Burn).               *)
THEOREM HubBurnsOnce == HubSpec => []SpentAtMostOnce
  BY StoresKeptToSpec, SingleUse, PTL DEF StoresUsedAsSpecified

-----------------------------------------------------------------------------
(* A token of this process names an identity the store knows; a request    *)
(* that passed JWTAuth carries one; between Upsert and the token, the      *)
(* wallet that signed in stays in the list of its identity, although a     *)
(* link may have given it to another one.                                  *)
TokenOK(t) ==
  /\ t.run \in Nat /\ t.run <= run
  /\ t.run = run => t.sub \in DOMAIN idToWallets
  /\ \E i \in DOMAIN t.wallets : t.wallets[i] = t.wallet

Progress(r) ==
  /\ req[r].pc \in Past \union {"burn"} /\ req[r].kind = "link" => req[r].token.run = run
  /\ req[r].pc \in {"wallets", "mint"} =>
       req[r].id \in DOMAIN idToWallets /\ Linked(req[r].id, Account(r))
  /\ req[r].pc = "mint" =>
       \E i \in DOMAIN req[r].wallets : req[r].wallets[i] = Account(r)

TokenInv == /\ \A t \in tokens : TokenOK(t)
            /\ \A r \in Request : Progress(r)

LEMMA TokenInit == HubInit => TokenInv
<1> SUFFICES ASSUME HubInit PROVE TokenInv
  OBVIOUS
<1>1. \A r \in Request : req[r].pc = "unsent"
  BY DEF HubInit
<1>2. \A r \in Request : Progress(r)
  BY <1>1 DEF Progress, Past
<1>3. tokens = {}
  BY DEF HubInit
<1> QED BY <1>2, <1>3 DEF TokenInv

LEMMA HubListsGrow ==
  ASSUME HubShape, IdentityInv, [HubNext]_hubVars, run' = run
  PROVE  ListsGrow
<1>1. [IdentityNext]_identityVars
  BY StoresNext
<1>2. ListsGrow \/ UNCHANGED identityVars
  BY <1>1, StepGrows
<1>3. CASE UNCHANGED identityVars
  BY <1>3 DEF ListsGrow, identityVars, ids
<1> QED BY <1>2, <1>3

(* Within a process, what was so stays so, whatever is linked meanwhile.   *)
LEMMA ProgressKept ==
  ASSUME NEW r \in Request, Progress(r), req'[r] = req[r], run' = run, ListsGrow
  PROVE  Progress(r)'
<1>1. Account(r)' = Account(r)
  BY DEF Account
<1> QED BY <1>1 DEF Progress, ListsGrow, Linked

LEMMA TokenKept ==
  ASSUME NEW t \in tokens, TokenOK(t), run' = run, ListsGrow
  PROVE  TokenOK(t)'
  BY DEF TokenOK, ListsGrow

LEMMA TokenMove ==
  ASSUME TokenInv, run' = run, ListsGrow, UNCHANGED tokens,
         NEW r \in Request, \A s \in Request \ {r} : req'[s] = req[s], Progress(r)'
  PROVE  TokenInv'
  BY ProgressKept, TokenKept DEF TokenInv

(* A move that leads neither to ReadWallets nor to Mint. *)
LEMMA TokenRefill ==
  ASSUME TokenInv, HubShape, run' = run, ListsGrow, UNCHANGED tokens,
         NEW r \in Request, NEW v, req' = [req EXCEPT ![r] = v],
         v.pc \notin {"wallets", "mint"},
         v.pc \in Past \union {"burn"} /\ v.kind = "link" => v.token.run = run
  PROVE  TokenInv'
<1>1. req'[r] = v /\ \A s \in Request \ {r} : req'[s] = req[s]
  BY DEF HubShape, RequestsOK
<1>2. Progress(r)'
  BY <1>1 DEF Progress
<1> QED BY <1>1, <1>2, TokenMove

LEMMA TokenGoto ==
  ASSUME TokenInv, HubShape, run' = run, ListsGrow, UNCHANGED tokens,
         NEW r \in Request, RequestOK(r), NEW pc, Goto(r, pc),
         pc \notin {"wallets", "mint"},
         pc \in Past \union {"burn"} => req[r].pc \in Past \union {"burn"}
  PROVE  TokenInv'
<1> DEFINE v == [req[r] EXCEPT !.pc = pc]
<1>1. /\ req' = [req EXCEPT ![r] = v] /\ v.pc = pc
      /\ v.kind = req[r].kind /\ v.token = req[r].token
  BY DEF Goto, RequestOK, Fields
<1> HIDE DEF v
<1> QED BY <1>1, TokenRefill DEF TokenInv, Progress

LEMMA TokenReply ==
  ASSUME TokenInv, HubShape, run' = run, ListsGrow, UNCHANGED tokens,
         NEW r \in Request, RequestOK(r), NEW status, Reply(r, status)
  PROVE  TokenInv'
<1> DEFINE v == [req[r] EXCEPT !.pc = "reply", !.status = status]
<1>1. req' = [req EXCEPT ![r] = v] /\ v.pc = "reply"
  BY DEF Reply, RequestOK, Fields
<1> HIDE DEF v
<1> QED BY <1>1, TokenRefill DEF Past

(* JWTAuth lets a token of this process through. *)
LEMMA TokenReceive ==
  ASSUME TokenInv, HubShape, ListsGrow, NEW r \in Request, Receive(r)
  PROVE  TokenInv'
<1>1. RequestOK(r) /\ UNCHANGED tokens /\ run' = run
  BY WasSent DEF Receive, sessions, process
<1>2. CASE \E status : Reply(r, status)
  BY <1>1, <1>2, TokenReply
<1>3. CASE /\ req[r].kind = "link" => req[r].token.run = run
           /\ req' = [req EXCEPT ![r] = [@ EXCEPT !.pc = "burn", !.clears = TRUE]]
  <2> DEFINE v == [req[r] EXCEPT !.pc = "burn", !.clears = TRUE]
  <2>1. /\ req' = [req EXCEPT ![r] = v] /\ v.pc = "burn"
        /\ v.kind = req[r].kind /\ v.token = req[r].token
    BY <1>1, <1>3 DEF RequestOK, Fields
  <2> HIDE DEF v
  <2> QED BY <1>1, <1>3, <2>1, TokenRefill
<1> QED BY <1>2, <1>3 DEF Receive, Authenticated

LEMMA TokenConclude ==
  ASSUME TokenInv, HubShape, ListsGrow, NEW r \in Request, Conclude(r)
  PROVE  TokenInv'
<1>1. RequestOK(r) /\ UNCHANGED tokens /\ run' = run /\ req[r].pc \in Past
  BY WasSent DEF Conclude, sessions, process, Past
<1>2. PICK trail : req' = [req EXCEPT ![r] =
                      [@ EXCEPT !.trail = trail,
                                !.pc = IF at[r].err = "nil" THEN req[r].kind ELSE "reply",
                                !.status = at[r].err]]
  BY DEF Conclude
<1> DEFINE v == [req[r] EXCEPT !.trail = trail,
                               !.pc = IF at[r].err = "nil" THEN req[r].kind ELSE "reply",
                               !.status = at[r].err]
<1>3. /\ req' = [req EXCEPT ![r] = v] /\ v.pc \in {"verify", "link", "reply"}
      /\ v.kind = req[r].kind /\ v.token = req[r].token
  BY <1>1, <1>2 DEF RequestOK, Fields
<1> HIDE DEF v
<1> QED BY <1>1, <1>3, TokenRefill DEF TokenInv, Progress

(* Upsert answers with an identity whose list has the wallet.              *)
LEMMA TokenUpsert ==
  ASSUME TokenInv, HubShape, IdentityInv, ListsGrow, NEW r \in Request, Upsert(r)
  PROVE  TokenInv'
<1>1. /\ RequestOK(r) /\ UNCHANGED tokens /\ run' = run
      /\ req[r].pc = "verify" /\ req[r].pc \in Past
  BY WasSent DEF Upsert, sessions, process, Past
<1>2. PICK id \in Identity : /\ UpsertByWallet(Account(r), id)
                             /\ req' = [req EXCEPT ![r] = [@ EXCEPT !.pc = "wallets", !.id = id]]
  BY DEF Upsert
<1> DEFINE v == [req[r] EXCEPT !.pc = "wallets", !.id = id]
<1>3. /\ req' = [req EXCEPT ![r] = v] /\ v.pc = "wallets" /\ v.id = id
      /\ v.kind = req[r].kind /\ v.token = req[r].token
      /\ v.ns = req[r].ns /\ v.msg = req[r].msg
  BY <1>1, <1>2 DEF RequestOK, Fields
<1> HIDE DEF v
<1>4. req'[r] = v /\ \A s \in Request \ {r} : req'[s] = req[s]
  BY <1>3 DEF HubShape, RequestsOK
<1>5. Account(r)' = Account(r)
  BY <1>3, <1>4 DEF Account
<1>6. id \in DOMAIN idToWallets' /\ Linked(id, Account(r))'
  <2> DEFINE w == Account(r)
  <2>1. CASE w \in DOMAIN walletToID /\ id = walletToID[w] /\ UNCHANGED ids
    BY <2>1, <1>5 DEF IdentityInv, IdentityTypeOK, Resolvable, Linked, ids
  <2>2. CASE idToWallets' = Put(idToWallets, id, <<w>>)
    <3>1. id \in DOMAIN idToWallets' /\ idToWallets'[id] = <<w>>
      BY <2>2 DEF Put
    <3> QED BY <3>1, <1>5 DEF Linked
  <2> QED BY <1>2, <2>1, <2>2 DEF UpsertByWallet
<1>7. Progress(r)'
  BY <1>1, <1>3, <1>4, <1>6 DEF Progress, TokenInv
<1> QED BY <1>1, <1>4, <1>7, TokenMove

(* The list that is read still has the wallet.                             *)
LEMMA TokenReadWallets ==
  ASSUME TokenInv, HubShape, ListsGrow, NEW r \in Request, ReadWallets(r)
  PROVE  TokenInv'
<1>1. RequestOK(r) /\ UNCHANGED <<tokens, idToWallets>> /\ run' = run /\ req[r].pc = "wallets"
  BY WasSent DEF ReadWallets, sessions, process, ids
<1>2. CASE Reply(r, "500")
  BY <1>1, <1>2, TokenReply
<1>3. CASE req' = [req EXCEPT ![r] = [@ EXCEPT !.pc = "mint", !.wallets = Wallets(req[r].id)]]
  <2> DEFINE v == [req[r] EXCEPT !.pc = "mint", !.wallets = Wallets(req[r].id)]
  <2>1. /\ req' = [req EXCEPT ![r] = v] /\ v.pc = "mint" /\ v.id = req[r].id
        /\ v.wallets = Wallets(req[r].id) /\ v.kind = req[r].kind /\ v.token = req[r].token
        /\ v.ns = req[r].ns /\ v.msg = req[r].msg
    BY <1>1, <1>3 DEF RequestOK, Fields
  <2> HIDE DEF v
  <2>2. req'[r] = v /\ \A s \in Request \ {r} : req'[s] = req[s]
    BY <2>1 DEF HubShape, RequestsOK
  <2>3. Account(r)' = Account(r)
    BY <2>1, <2>2 DEF Account
  <2>4. req[r].id \in DOMAIN idToWallets /\ Linked(req[r].id, Account(r))
    BY <1>1 DEF TokenInv, Progress
  <2>5. Linked(req[r].id, Account(r))'
    BY <1>1, <2>2, <2>1, <2>3, <2>4 DEF Linked
  <2>6. \E i \in DOMAIN v.wallets : v.wallets[i] = Account(r)
    BY <2>1, <2>4 DEF Wallets, Linked
  <2>7. req[r].pc \in Past
    BY <1>1 DEF Past
  <2>8. Progress(r)'
    BY <1>1, <2>1, <2>2, <2>3, <2>4, <2>5, <2>6, <2>7 DEF Progress, TokenInv, Linked
  <2> QED BY <1>1, <2>2, <2>8, TokenMove
<1> QED BY <1>2, <1>3 DEF ReadWallets

(* The token minted names the wallets that were read.                      *)
LEMMA TokenMint ==
  ASSUME TokenInv, HubShape, IdentityInv, ListsGrow, NEW r \in Request, Mint(r)
  PROVE  TokenInv'
<1>1. /\ RequestOK(r) /\ req[r].pc = "mint" /\ Reply(r, "200")
      /\ run' = run /\ UNCHANGED idToWallets /\ run \in Nat
  BY WasSent DEF Mint, process, ids, IdentityInv
<1>2. PICK t : /\ tokens' = tokens \union {t}
               /\ t.run = run /\ t.sub = req[r].id
               /\ t.wallets = req[r].wallets /\ t.wallet = Account(r)
  <2> DEFINE T == [sub |-> req[r].id, wallets |-> req[r].wallets,
                   wallet |-> Account(r), run |-> run, exp |-> now + TokenTTL]
  <2>1. tokens' = tokens \union {T}
    BY DEF Mint
  <2>2. T.run = run /\ T.sub = req[r].id /\ T.wallets = req[r].wallets /\ T.wallet = Account(r)
    OBVIOUS
  <2> HIDE DEF T
  <2> QED BY <2>1, <2>2
<1>3. TokenOK(t)'
  BY <1>1, <1>2 DEF TokenOK, TokenInv, Progress
<1>4. \A u \in tokens' : TokenOK(u)'
  BY <1>1, <1>2, <1>3, TokenKept DEF TokenInv
<1> DEFINE v == [req[r] EXCEPT !.pc = "reply", !.status = "200"]
<1>5. v.pc = "reply" /\ req' = [req EXCEPT ![r] = v]
  BY <1>1 DEF Reply, RequestOK, Fields
<1> HIDE DEF v
<1>6. req'[r].pc = "reply" /\ \A s \in Request \ {r} : req'[s] = req[s]
  BY <1>5 DEF HubShape, RequestsOK
<1>7. Progress(r)'
  BY <1>6 DEF Progress, Past
<1>8. \A s \in Request : Progress(s)'
  BY <1>1, <1>6, <1>7, ProgressKept DEF TokenInv
<1> QED BY <1>4, <1>8 DEF TokenInv

LEMMA TokenOther ==
  ASSUME TokenInv, HubShape, ListsGrow, NEW r \in Request,
         BurnCookie(r) \/ BeginVerify(r) \/ VerifyStep(r) \/ Link(r) \/ Deliver(r)
  PROVE  TokenInv'
<1>1. RequestOK(r) /\ UNCHANGED tokens /\ run' = run
  BY WasSent DEF BurnCookie, BeginVerify, VerifyStep, Link, Deliver, sessions, process
<1>2. CASE \E status : Reply(r, status)
  BY <1>1, <1>2, TokenReply
<1>3. CASE \/ Goto(r, "begin") /\ req[r].pc = "burn"
           \/ Goto(r, "verifying") /\ req[r].pc = "begin"
           \/ Goto(r, "done")
  BY <1>1, <1>3, TokenGoto DEF Past
<1>4. CASE UNCHANGED req
  BY <1>1, <1>4, TokenMove, ProgressKept DEF TokenInv
<1> QED BY <1>2, <1>3, <1>4 DEF BurnCookie, BeginVerify, VerifyStep, Link, Deliver

(* A restart: every key, token and request of the old process is void.     *)
LEMMA TokenCrash ==
  ASSUME TokenInv, HubShape, IdentityInv, HubCrash
  PROVE  TokenInv'
<1>1. run \in Nat /\ run' = run + 1 /\ UNCHANGED tokens
  BY DEF HubCrash, Crash, sessions, IdentityInv
<1>2. \A t \in tokens' : TokenOK(t)'
  BY <1>1 DEF TokenInv, TokenOK
<1>3. ASSUME NEW r \in Request PROVE Progress(r)'
  <2>1. CASE req[r].pc \in {"unsent", "reply", "done"}
    <3>1. req'[r] = req[r]
      BY <2>1 DEF HubCrash
    <3> QED BY <2>1, <3>1 DEF Progress, Past
  <2>2. CASE req[r].pc \notin {"unsent", "reply", "done"}
    <3>1. [req[r] EXCEPT !.pc = "lost"].pc = "lost"
      BY <2>2, WasSent DEF RequestOK, Fields
    <3>2. req'[r].pc = "lost"
      BY <2>2, <3>1 DEF HubCrash
    <3> QED BY <3>2 DEF Progress, Past
  <2> QED BY <2>1, <2>2
<1> QED BY <1>2, <1>3 DEF TokenInv

LEMMA TokenNext == TokenInv /\ HubShape /\ IdentityInv /\ [HubNext]_hubVars => TokenInv'
<1> SUFFICES ASSUME TokenInv, HubShape, IdentityInv, [HubNext]_hubVars PROVE TokenInv'
  OBVIOUS
<1>1. CASE HubCrash
  BY <1>1, TokenCrash
<1>2. CASE run' = run
  <2>0. ListsGrow
    BY <1>2, HubListsGrow
  <2>1. CASE UNCHANGED <<req, tokens>>
    BY <1>2, <2>0, <2>1, ProgressKept, TokenKept DEF TokenInv
  <2>2. ASSUME NEW n \in Nonce, \/ \E b \in Browser : FetchNonce(b, n)
                               \/ CountIssued(n) \/ DeliverNonce(n)
        PROVE  TokenInv'
    BY <2>1, <2>2 DEF FetchNonce, CountIssued, DeliverNonce, sessions
  <2>3. ASSUME NEW r \in Request, NEW b, NEW kind, NEW ns, NEW m, NEW t,
               Send(r, b, kind, ns, m, t)
        PROVE  TokenInv'
    <3> DEFINE v == [pc |-> "sent", kind |-> kind, browser |-> b, ns |-> ns, msg |-> m,
                     cookie |-> jar[b], token |-> t, clears |-> FALSE, trail |-> <<>>,
                     id |-> "", wallets |-> <<>>, status |-> ""]
    <3>1. req' = [req EXCEPT ![r] = v] /\ v.pc = "sent" /\ UNCHANGED tokens
      BY <2>3 DEF Send, sessions
    <3> HIDE DEF v
    <3> QED BY <1>2, <2>0, <3>1, TokenRefill DEF Past
  <2>4. ASSUME NEW r \in Request, Handle(r) \/ Deliver(r) PROVE TokenInv'
    BY <2>4, <2>0, TokenReceive, TokenConclude, TokenUpsert, TokenReadWallets, TokenMint,
       TokenOther DEF Handle
  <2>5. CASE Tick /\ UNCHANGED <<req, sessions>>
    BY <2>1, <2>5 DEF sessions
  <2> QED BY <1>1, <2>1, <2>2, <2>3, <2>4, <2>5 DEF HubNext, hubVars, sessions, PostRegisterContractWallet
<1>3. HubCrash \/ run' = run
  <2>1. ASSUME NEW n \in Nonce, \/ \E b \in Browser : FetchNonce(b, n)
                               \/ CountIssued(n) \/ DeliverNonce(n)
        PROVE  UNCHANGED process
    BY <2>1 DEF FetchNonce, CountIssued, DeliverNonce
  <2>2. ASSUME NEW r \in Request, NEW b, NEW kind, NEW ns, NEW m, NEW t,
               Send(r, b, kind, ns, m, t)
        PROVE  UNCHANGED process
    BY <2>2 DEF Send
  <2>3. ASSUME NEW r \in Request, Handle(r) \/ Deliver(r) PROVE UNCHANGED process
    BY <2>3 DEF Handle, Receive, BurnCookie, BeginVerify, VerifyStep, Conclude, Upsert,
                ReadWallets, Mint, Link, Deliver
  <2> QED BY <2>1, <2>2, <2>3 DEF HubNext, hubVars, process, Tick, PostRegisterContractWallet
<1> QED BY <1>1, <1>2, <1>3

LEMMA TokenAlways == HubSpec => []TokenInv
  BY TokenInit, TokenNext, ShapeAlways, HubKeepsIdentityInv, PTL DEF HubSpec

(* LinkWallet's "identity not found" is never answered to a caller JWTAuth *)
(* let through, across any number of restarts (handlers.go postLink).      *)
THEOREM LinkAlwaysFindsIdentity == HubSpec => []LinkFindsIdentity
<1>1. HubShape /\ TokenInv => LinkFindsIdentity
  <2> SUFFICES ASSUME HubShape, TokenInv, NEW r \in Request, req[r].pc = "link"
               PROVE  req[r].token.sub \in DOMAIN idToWallets
    BY DEF LinkFindsIdentity
  <2>1. RequestOK(r) /\ Progress(r)
    BY WasSent DEF TokenInv
  <2>2. req[r].token \in tokens /\ req[r].token.run = run
    BY <2>1 DEF RequestOK, Progress, Past
  <2> QED BY <2>2 DEF TokenInv, TokenOK
<1> QED BY <1>1, ShapeAlways, TokenAlways, PTL

(* Every token names the wallet that signed in, whatever links land        *)
(* between the two critical sections of a sign-in (handlers.go postVerify: *)
(* UpsertByWallet, then Wallets).                                          *)
THEOREM EveryTokenNamesItsWallet == HubSpec => []TokenNamesItsWallet
<1>1. TokenInv => TokenNamesItsWallet
  BY DEF TokenInv, TokenOK, TokenNamesItsWallet
<1> QED BY <1>1, TokenAlways, PTL
=============================================================================
