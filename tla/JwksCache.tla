------------------------------ MODULE JwksCache ------------------------------
(***************************************************************************)
(* The JWT middleware (examples/middleware/jwt.go): concurrent requests    *)
(* share a cache of the issuer's public keys, filled from its JWKS         *)
(* document when a token names a kid the cache does not know.  The cache   *)
(* is locked for each access and free while a document is being fetched,   *)
(* so the documents of two fetches may be merged in either order.          *)
(***************************************************************************)
EXTENDS Process

CONSTANTS Key,              \* signing keys, [kid, id]: two of them may share a kid
          Documents,        \* the sets of keys the issuer may publish
          Token,            \* what callers present, [form, key, kid, exp]: signed
                            \* with key, naming kid
          Call              \* bound: requests at a time

ASSUME DocumentAssumption == Documents \subseteq SUBSET Key
(* "ours" is a bearer token of the expected issuer, audience and algorithm; *)
(* another misses one of them.                                             *)
Form == {"ours", "not bearer", "not RS256", "foreign"}
ASSUME TokenAssumption == \A t \in Token : t.form \in Form /\ t.exp \in Nat

VARIABLES keys,             \* jwksCache.keys: kid -> key
          doc,              \* what the JWKS endpoint serves now
          published,        \* history: every key a document listed
          calls             \* call -> where the middleware stands with it;
                            \* .at: history, when the verdict was reached

cacheVars == <<process, keys, doc, published, calls>>

Idle == [pc |-> "idle"]
Move(c, pc) == calls' = [calls EXCEPT ![c].pc = pc]
Found(c, k) == calls' = [calls EXCEPT ![c] = [@ EXCEPT !.pc = "verify", !.key = {k}]]

CacheInit ==
  /\ ProcessInit
  /\ keys = Empty
  /\ doc \in Documents
  /\ published = doc
  /\ calls = [c \in Call |-> Idle]

(* The issuer replaces its document: mockIssuer by being restarted, which  *)
(* makes a new key under the old kid (mockKid); another one by rotation.   *)
Publish(d) ==
  /\ d # doc
  /\ doc' = d /\ published' = published \union d
  /\ UNCHANGED <<process, keys, calls>>

(* A request arrives, perhaps after others were answered.  Without a       *)
(* bearer token, or with one of another algorithm, no key is looked up.    *)
Present(c, t) ==
  /\ calls[c].pc \in {"idle", "accepted", "rejected"}
  /\ LET refused == t.form \in {"not bearer", "not RS256"}
     IN  calls' = [calls EXCEPT ![c] =
                     [pc |-> IF refused THEN "rejected" ELSE "get", token |-> t, key |-> {},
                      why |-> IF refused THEN t.form ELSE "", at |-> now]]
  /\ UNCHANGED <<process, keys, doc, published>>

Known(c) == calls[c].token.kid \in DOMAIN keys

(* Mutant of Get: the lock is held across the fetch, readers queue behind it. *)
GetBehindFetch(c) ==
  /\ calls[c].pc = "get"
  /\ \A d \in Call : calls[d].pc # "fetch"
  /\ IF Known(c) THEN Found(c, keys[calls[c].token.kid]) ELSE Move(c, "recheck")
  /\ UNCHANGED <<process, keys, doc, published>>

(* get: the lookup under the read lock. *)
Get(c) ==
  /\ calls[c].pc = "get"
  /\ IF Known(c) THEN Found(c, keys[calls[c].token.kid]) ELSE Move(c, "recheck")
  /\ UNCHANGED <<process, keys, doc, published>>

(* refresh: the lookup again under the write lock, another call may have   *)
(* filled the cache; then the lock is released for the fetch.              *)
Recheck(c) ==
  /\ calls[c].pc = "recheck"
  /\ IF Known(c) THEN Found(c, keys[calls[c].token.kid]) ELSE Move(c, "fetch")
  /\ UNCHANGED <<process, keys, doc, published>>

Reject(c, why) ==
  calls' = [calls EXCEPT ![c] = [@ EXCEPT !.pc = "rejected", !.why = why, !.at = now]]
Accept(c) == calls' = [calls EXCEPT ![c] = [@ EXCEPT !.pc = "accepted", !.at = now]]

(* The endpoint answers with its document of this moment; entries that do  *)
(* not decode are skipped.  Or the fetch fails.  http.Get has no       *)
(* timeout: neither may ever happen.                                       *)
Fetched(c) ==
  /\ calls[c].pc = "fetch"
  /\ \/ \E got \in SUBSET doc :
          calls' = [calls EXCEPT ![c] = [@ EXCEPT !.pc = "merge", !.key = got]]
     \/ Reject(c, "fetch failed")
  /\ UNCHANGED <<process, keys, doc, published>>

(* Mutants of Merged: the fetched document replaces the cache; every kid   *)
(* gets a pointer to the loop's one variable, which ends as the last key.  *)
MergedOver(old, got) ==
  [kid \in {k.kid : k \in got} |-> CHOOSE k \in got : k.kid = kid]

MergedLoopVariable(old, got) ==
  [kid \in DOMAIN old \union {k.kid : k \in got} |->
     IF got = {} THEN old[kid] ELSE CHOOSE k \in got : TRUE]

(* The fetched keys are added, and win over a key cached under their kid. *)
Merged(old, got) ==
  [kid \in DOMAIN old \union {k.kid : k \in got} |->
     IF \E k \in got : k.kid = kid THEN CHOOSE k \in got : k.kid = kid ELSE old[kid]]

(* Mutant of Merge: the kid is looked up before the merge. *)
MergeLooksFirst(c) ==
  /\ calls[c].pc = "merge"
  /\ keys' = Merged(keys, calls[c].key)
  /\ IF Known(c) THEN Found(c, keys[calls[c].token.kid]) ELSE Reject(c, "unknown kid")
  /\ UNCHANGED <<process, doc, published>>

(* The write lock again: merge, then look the kid up in the whole cache,   *)
(* which another call may have filled during the fetch.                    *)
Merge(c) ==
  /\ calls[c].pc = "merge"
  /\ keys' = Merged(keys, calls[c].key)
  /\ IF calls[c].token.kid \in DOMAIN keys'
     THEN Found(c, keys'[calls[c].token.kid])
     ELSE Reject(c, "unknown kid")
  /\ UNCHANGED <<process, doc, published>>

(* Mutant of Verify: the claims are read without checking the signature. *)
VerifyClaimsOnly(c) ==
  /\ calls[c].pc = "verify"
  /\ IF now < calls[c].token.exp THEN Accept(c) ELSE Reject(c, "expired")
  /\ UNCHANGED <<process, keys, doc, published>>

(* ParseWithClaims with the key found: the signature, then the claims.     *)
Verify(c) ==
  /\ calls[c].pc = "verify"
  /\ IF calls[c].token.key \notin calls[c].key THEN Reject(c, "signature")
     ELSE IF now >= calls[c].token.exp THEN Reject(c, "expired")
     ELSE IF calls[c].token.form = "foreign" THEN Reject(c, "foreign")
     ELSE Accept(c)
  /\ UNCHANGED <<process, keys, doc, published>>

(* The middleware's process is replaced; the issuer lives elsewhere.       *)
CacheCrash ==
  /\ Crash
  /\ keys' = Empty
  /\ calls' = [c \in Call |-> IF calls[c].pc \in {"accepted", "rejected"} THEN calls[c] ELSE Idle]
  /\ UNCHANGED <<doc, published>>

OwnStep(c) == Get(c) \/ Recheck(c) \/ Merge(c) \/ Verify(c)

CacheNext ==
  \/ \E d \in Documents : Publish(d)
  \/ \E c \in Call : \/ \E t \in Token : Present(c, t)
                     \/ OwnStep(c)
                     \/ Fetched(c)
  \/ Tick /\ UNCHANGED <<keys, doc, published, calls>>
  \/ CacheCrash

(* The goroutines of the middleware run; the endpoint owes no answer. *)
CacheFairness == \A c \in Call : WF_cacheVars(OwnStep(c))

CacheSpec == CacheInit /\ [][CacheNext]_cacheVars /\ CacheFairness

-----------------------------------------------------------------------------
Places == {"get", "recheck", "fetch", "merge", "verify", "accepted", "rejected"}
Reasons == Form \union {"", "fetch failed", "unknown kid", "signature", "expired"}

(* The type invariant: the cache maps a kid to a key of that kid which the *)
(* issuer published; a call is about a token, and the keys it has fetched  *)
(* or found, which are the token's kid's from there on, were published.    *)
CacheTypeOK ==
  /\ doc \in Documents
  /\ \A kid \in DOMAIN keys : keys[kid] \in published /\ keys[kid].kid = kid
  /\ DOMAIN calls = Call
  /\ \A c \in Call : calls[c] = Idle \/
       /\ calls[c] \in [pc : Places, token : Token, key : SUBSET published, why : Reasons,
                       at : 0 .. now]
       /\ calls[c].pc \in {"verify", "accepted"} =>
            \E k \in published : calls[c].key = {k} /\ k.kid = calls[c].token.kid

(* Whatever the order of fetches, merges and rotations, an accepted token  *)
(* is a bearer token of ours, signed with a key the issuer published under *)
(* the kid it names, and had not expired when that was found.              *)
AcceptedIsGenuine ==
  \A c \in Call : calls[c].pc = "accepted" =>
    LET t == calls[c].token
    IN  /\ t.form = "ours" /\ t.key \in published /\ t.key.kid = t.kid
        /\ calls[c].at < t.exp

(* A token is not turned away because other calls fetch and merge other    *)
(* documents meanwhile.  A signature is found wrong only against another   *)
(* key that the issuer published under the token's kid; a kid is unknown   *)
(* only if no entry of it decoded in the document fetched for it; a token  *)
(* is expired only if it is at that moment; and a call that found a key    *)
(* does not fail for the endpoint's sake.                                  *)
RejectedForCause ==
  \A c \in Call : calls[c].pc = "rejected" =>
    LET r == calls[c]
        t == r.token
    IN  \/ r.why = "signature" /\ \E k \in published : r.key = {k} /\ k.kid = t.kid /\ k # t.key
        \/ r.why = "unknown kid" /\ \A k \in r.key : k.kid # t.kid
        \/ r.why = "expired" /\ t.exp <= r.at
        \/ r.why = "fetch failed" /\ r.key = {}
        \/ r.why = t.form /\ t.form # "ours"

Reused(kid) == \E j, k \in published : j.kid = kid /\ k.kid = kid /\ j # k

KeysGrow ==
  \A kid \in DOMAIN keys :
    /\ kid \in DOMAIN keys'
    /\ keys'[kid] # keys[kid] => Reused(kid)

(* While the process lives a key is not forgotten, and changes only if the *)
(* issuer published two keys under one kid: the merge of a document        *)
(* fetched long ago takes away nothing that was learnt since.              *)
KeysOnlyGrow == [][run' = run => KeysGrow]_cacheVars

(* "release before network call to avoid holding lock during I/O"          *)
(* (jwt.go:57): a call whose kid is cached gets its verdict although other *)
(* calls wait for the endpoint, perhaps for ever.                          *)
CachedNeverWaits ==
  \A c \in Call :
    (calls[c].pc = "get" /\ Known(c)) ~> calls[c].pc \in {"accepted", "rejected", "idle"}
=============================================================================
