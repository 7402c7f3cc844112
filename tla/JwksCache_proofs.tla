-------------------------- MODULE JwksCache_proofs --------------------------
(***************************************************************************)
(* Proofs about the middleware's key cache, for every set of keys,         *)
(* documents and tokens, any number of requests at a time, any order of    *)
(* their fetches and merges, and any number of restarts.                   *)
(***************************************************************************)
EXTENDS JwksCache, TLAPS

CallType == [pc : Places, token : Token, key : SUBSET published, why : Reasons, at : 0 .. now]

(* Why a call was turned away: the key it was checked with, the entries it *)
(* got, the instant, or the token itself.                                  *)
Refused(r) ==
  \/ r.why = "signature" /\ \E k \in published : r.key = {k} /\ k.kid = r.token.kid /\ k # r.token.key
  \/ r.why = "unknown kid" /\ \A k \in r.key : k.kid # r.token.kid
  \/ r.why = "expired" /\ r.token.exp <= r.at
  \/ r.why = "fetch failed" /\ r.key = {}
  \/ r.why = r.token.form /\ r.token.form # "ours"

(* The keys of a call: none until it fetched or found one, a part of a     *)
(* document after a fetch, and then the key the cache had under the kid.   *)
CallOK(r) ==
  /\ r \in CallType
  /\ r.pc # "rejected" => r.token.form \in {"ours", "foreign"}
  /\ r.pc \in {"get", "recheck", "fetch"} => r.key = {}
  /\ r.pc \in {"verify", "accepted"} => \E k \in published : r.key = {k} /\ k.kid = r.token.kid
  /\ r.pc = "accepted" => r.token.form = "ours" /\ r.token.key \in r.key /\ r.at < r.token.exp
  /\ r.pc = "rejected" => Refused(r)

Clock == now \in Nat /\ run \in Nat

(* A key in the cache was published under its kid. *)
Cached == \A kid \in DOMAIN keys : keys[kid] \in published /\ keys[kid].kid = kid

CacheInv ==
  /\ Clock
  /\ doc \in Documents /\ doc \subseteq published
  /\ Cached
  /\ DOMAIN calls = Call
  /\ \A c \in Call : calls[c] = Idle \/ CallOK(calls[c])

LEMMA InvInit == CacheInit => CacheInv
  BY DEF CacheInit, ProcessInit, CacheInv, Clock, Cached, Empty, Idle

-----------------------------------------------------------------------------
(* No step takes a published key back or turns the clock back.             *)
LEMMA NothingTakenBack ==
  ASSUME CacheInv, CacheNext
  PROVE  published \subseteq published' /\ now <= now'
<1> USE DEF CacheInv, Clock
<1>1. ASSUME NEW d \in Documents, Publish(d) PROVE published \subseteq published' /\ now <= now'
  BY <1>1 DEF Publish, process
<1>2. CASE Tick /\ UNCHANGED <<keys, doc, published, calls>>
  BY <1>2 DEF Tick
<1>3. CASE CacheCrash
  BY <1>3 DEF CacheCrash, Crash
<1>4. ASSUME NEW c \in Call, (\E t \in Token : Present(c, t)) \/ OwnStep(c) \/ Fetched(c)
      PROVE  published \subseteq published' /\ now <= now'
  <2>1. UNCHANGED <<process, published>>
    BY <1>4 DEF Present, OwnStep, Get, Recheck, Merge, Verify, Fetched
  <2> QED BY <2>1 DEF process
<1> QED BY <1>1, <1>2, <1>3, <1>4 DEF CacheNext

(* What holds of a call still holds when keys were added and time passed.  *)
LEMMA CallKept ==
  ASSUME NEW r, CallOK(r), CacheInv, published \subseteq published', now' \in Nat, now <= now'
  PROVE  CallOK(r)'
<1>1. r \in CallType'
  <2>1. 0 .. now \subseteq 0 .. now'
    BY DEF CacheInv, Clock
  <2> QED BY <2>1 DEF CallOK, CallType
<1>2. Refused(r) => Refused(r)'
  BY DEF Refused
<1> QED BY <1>1, <1>2 DEF CallOK

(* One call moves to r, the cache being as it was.                         *)
LEMMA OneCall ==
  ASSUME CacheInv, UNCHANGED <<process, keys, doc, published>>, NEW c \in Call, NEW r,
         calls' = [calls EXCEPT ![c] = r], r = Idle \/ CallOK(r)
  PROVE  CacheInv'
<1>1. calls'[c] = r /\ \A d \in Call \ {c} : calls'[d] = calls[d]
  BY DEF CacheInv
<1>2. \A s : CallOK(s)' <=> CallOK(s)
  BY DEF CallOK, CallType, Refused, process
<1> QED BY <1>1, <1>2 DEF CacheInv, Clock, Cached, process

(* Where a call goes, and what it holds there.                             *)
LEMMA Named ==
  /\ {"recheck", "fetch", "merge", "verify", "accepted", "rejected"} \subseteq Places
  /\ {"fetch failed", "unknown kid", "signature", "expired", "foreign"} \subseteq Reasons
  BY Zenon DEF Places, Reasons, Form

LEMMA FoundOK ==
  ASSUME NEW r, CallOK(r), r.pc # "rejected", NEW k \in published, k.kid = r.token.kid
  PROVE  CallOK([r EXCEPT !.pc = "verify", !.key = {k}])
<1> DEFINE v == [r EXCEPT !.pc = "verify", !.key = {k}]
<1>1. v \in CallType /\ v.pc = "verify" /\ v.key = {k} /\ v.token = r.token
  BY Named DEF CallOK, CallType
<1> HIDE DEF v
<1>2. CallOK(v)
  BY <1>1 DEF CallOK
<1> QED BY <1>2 DEF v

(* A call that only moves on, to a place that needs nothing more.          *)
LEMMA MovedOK ==
  ASSUME NEW r, CallOK(r), r.pc \in {"get", "recheck", "fetch"}, NEW pc \in {"recheck", "fetch"}
  PROVE  CallOK([r EXCEPT !.pc = pc])
<1> DEFINE v == [r EXCEPT !.pc = pc]
<1>1. v \in CallType /\ v.pc = pc /\ v.token = r.token /\ v.key = r.key
  BY Named DEF CallOK, CallType
<1> HIDE DEF v
<1>2. CallOK(v)
  BY <1>1 DEF CallOK
<1> QED BY <1>2 DEF v

LEMMA RejectedOK ==
  ASSUME CacheInv, NEW r, CallOK(r), NEW why \in Reasons,
         Refused([r EXCEPT !.pc = "rejected", !.why = why, !.at = now])
  PROVE  CallOK([r EXCEPT !.pc = "rejected", !.why = why, !.at = now])
<1> DEFINE v == [r EXCEPT !.pc = "rejected", !.why = why, !.at = now]
<1>1. v \in CallType /\ v.pc = "rejected"
  <2>1. now \in 0 .. now
    BY DEF CacheInv, Clock
  <2> QED BY <2>1, Named DEF CallOK, CallType
<1>2. Refused(v)
  OBVIOUS
<1> HIDE DEF v
<1>3. CallOK(v)
  BY <1>1, <1>2 DEF CallOK
<1> QED BY <1>3 DEF v

LEMMA RejectedHolds ==
  ASSUME NEW r, CallOK(r), NEW why
  PROVE  LET v == [r EXCEPT !.pc = "rejected", !.why = why, !.at = now]
         IN  v.why = why /\ v.at = now /\ v.key = r.key /\ v.token = r.token
  BY DEF CallOK, CallType

-----------------------------------------------------------------------------
(* The two lookups, under either lock.                                     *)
LEMMA InvLookup ==
  ASSUME CacheInv, NEW c \in Call, Get(c) \/ Recheck(c)
  PROVE  CacheInv'
<1>1. /\ CallOK(calls[c]) /\ UNCHANGED <<process, keys, doc, published>>
      /\ calls[c].pc \in {"get", "recheck"}
  BY DEF CacheInv, Get, Recheck, Idle
<1>2. CASE Known(c)
  <2> DEFINE kid == calls[c].token.kid
             r == [calls[c] EXCEPT !.pc = "verify", !.key = {keys[kid]}]
  <2>1. keys[kid] \in published /\ keys[kid].kid = kid
    BY <1>2 DEF Known, CacheInv, Cached
  <2>2. CallOK(r)
    BY <1>1, <2>1, FoundOK
  <2>3. calls' = [calls EXCEPT ![c] = r]
    BY <1>2 DEF Get, Recheck, Found
  <2> QED BY <1>1, <2>2, <2>3, OneCall
<1>3. CASE ~Known(c)
  <2>1. PICK pc \in {"recheck", "fetch"} : Move(c, pc)
    BY <1>3 DEF Get, Recheck
  <2> DEFINE r == [calls[c] EXCEPT !.pc = pc]
  <2>2. CallOK(r) /\ calls' = [calls EXCEPT ![c] = r]
    BY <1>1, <2>1, MovedOK DEF Move
  <2> QED BY <1>1, <2>2, OneCall
<1> QED BY <1>2, <1>3

(* The answer of the endpoint is a part of what it publishes at that time. *)
LEMMA InvFetched ==
  ASSUME CacheInv, NEW c \in Call, Fetched(c)
  PROVE  CacheInv'
<1>1. /\ CallOK(calls[c]) /\ UNCHANGED <<process, keys, doc, published>>
      /\ calls[c].key = {} /\ calls[c].pc = "fetch"
  <2>1. calls[c].pc = "fetch" /\ UNCHANGED <<process, keys, doc, published>>
    BY DEF Fetched
  <2>2. CallOK(calls[c])
    BY <2>1 DEF CacheInv, Idle
  <2> QED BY <2>1, <2>2 DEF CallOK
<1>2. ASSUME NEW got \in SUBSET doc,
             calls' = [calls EXCEPT ![c] = [calls[c] EXCEPT !.pc = "merge", !.key = got]]
      PROVE  CacheInv'
  <2> DEFINE r == [calls[c] EXCEPT !.pc = "merge", !.key = got]
  <2>1. r \in CallType /\ r.pc = "merge" /\ r.token = calls[c].token
    BY <1>1, Named DEF CallOK, CallType, CacheInv
  <2>2. calls' = [calls EXCEPT ![c] = r]
    BY <1>2
  <2> HIDE DEF r
  <2>3. CallOK(r)
    BY <1>1, <2>1 DEF CallOK
  <2> QED BY <1>1, <2>2, <2>3, OneCall
<1>3. CASE Reject(c, "fetch failed")
  <2> DEFINE r == [calls[c] EXCEPT !.pc = "rejected", !.why = "fetch failed", !.at = now]
  <2>0. r.why = "fetch failed" /\ r.key = {}
    BY <1>1, RejectedHolds
  <2>1. Refused(r)
    BY <2>0 DEF Refused
  <2>2. CallOK(r)
    BY <1>1, <2>1, Named, RejectedOK
  <2>3. calls' = [calls EXCEPT ![c] = r]
    BY <1>3 DEF Reject
  <2> QED BY <1>1, <2>2, <2>3, OneCall
<1> QED BY <1>2, <1>3 DEF Fetched

(* Merging published keys leaves each under its own kid.                   *)
LEMMA MergedCached ==
  ASSUME Cached, NEW got, got \subseteq published
  PROVE  \A kid \in DOMAIN Merged(keys, got) :
           Merged(keys, got)[kid] \in published /\ Merged(keys, got)[kid].kid = kid
<1> DEFINE M == Merged(keys, got)
<1> SUFFICES ASSUME NEW kid \in DOMAIN M PROVE M[kid] \in published /\ M[kid].kid = kid
  OBVIOUS
<1>1. /\ kid \in DOMAIN keys \/ \E k \in got : k.kid = kid
      /\ M[kid] = IF \E k \in got : k.kid = kid THEN CHOOSE k \in got : k.kid = kid ELSE keys[kid]
  BY DEF Merged
<1>2. CASE \E k \in got : k.kid = kid
  BY <1>1, <1>2
<1>3. CASE ~ \E k \in got : k.kid = kid
  BY <1>1, <1>3 DEF Cached
<1> QED BY <1>2, <1>3

LEMMA InvMerge ==
  ASSUME CacheInv, NEW c \in Call, Merge(c)
  PROVE  CacheInv'
<1>1. /\ CallOK(calls[c]) /\ calls[c].key \subseteq published /\ calls[c].pc = "merge"
      /\ UNCHANGED <<process, doc, published>>
  <2>1. calls[c].pc = "merge" /\ UNCHANGED <<process, doc, published>>
    BY DEF Merge
  <2>2. CallOK(calls[c])
    BY <2>1 DEF CacheInv, Idle
  <2> QED BY <2>1, <2>2 DEF CallOK, CallType
<1>2. keys' = Merged(keys, calls[c].key)
  BY DEF Merge
<1>3. \A kid \in DOMAIN keys' : keys'[kid] \in published /\ keys'[kid].kid = kid
  BY <1>1, <1>2, MergedCached DEF CacheInv
<1>4. \E r : CallOK(r) /\ calls' = [calls EXCEPT ![c] = r]
  <2> DEFINE kid == calls[c].token.kid
  <2>1. CASE kid \in DOMAIN keys'
    <3>1. PICK k \in published : k = keys'[kid] /\ k.kid = kid
      BY <2>1, <1>3
    <3>2. calls' = [calls EXCEPT ![c] = [calls[c] EXCEPT !.pc = "verify", !.key = {k}]]
      BY <2>1, <3>1 DEF Merge, Found
    <3> QED BY <1>1, <3>1, <3>2, FoundOK
  <2>2. CASE kid \notin DOMAIN keys'
    <3> DEFINE v == [calls[c] EXCEPT !.pc = "rejected", !.why = "unknown kid", !.at = now]
    <3>1. calls' = [calls EXCEPT ![c] = v]
      BY <2>2 DEF Merge, Reject
    <3>2. \A k \in calls[c].key : k.kid # kid
      BY <1>2, <2>2 DEF Merged
    <3>3. Refused(v)
      <4>1. v.why = "unknown kid" /\ v.key = calls[c].key /\ v.token = calls[c].token
        BY <1>1, RejectedHolds
      <4> QED BY <3>2, <4>1 DEF Refused
    <3>4. CallOK(v)
      BY <1>1, <3>3, Named, RejectedOK
    <3> QED BY <3>1, <3>4
  <2> QED BY <2>1, <2>2
<1>5. PICK r : CallOK(r) /\ calls' = [calls EXCEPT ![c] = r]
  BY <1>4
<1>6. calls'[c] = r /\ \A d \in Call \ {c} : calls'[d] = calls[d]
  BY <1>5 DEF CacheInv
<1>7. \A s : CallOK(s)' <=> CallOK(s)
  BY <1>1 DEF CallOK, CallType, Refused, process
<1> QED BY <1>1, <1>3, <1>5, <1>6, <1>7 DEF CacheInv, Clock, Cached, process

(* The token is checked with the key found and at the present instant.     *)
LEMMA InvVerify ==
  ASSUME CacheInv, NEW c \in Call, Verify(c)
  PROVE  CacheInv'
<1> DEFINE t == calls[c].token
           Out(why) == [calls[c] EXCEPT !.pc = "rejected", !.why = why, !.at = now]
<1>1. /\ CallOK(calls[c]) /\ UNCHANGED <<process, keys, doc, published>>
      /\ calls[c].pc = "verify" /\ t.form \in {"ours", "foreign"}
  BY DEF CacheInv, Verify, CallOK, Idle
<1>2. PICK k \in published : calls[c].key = {k} /\ k.kid = t.kid
  BY <1>1 DEF CallOK
<1>3. t.exp \in Nat /\ now \in Nat
  BY <1>1, TokenAssumption DEF CallOK, CallType, CacheInv, Clock
<1>4. ASSUME NEW why \in {"signature", "expired", "foreign"}, Refused(Out(why)),
             calls' = [calls EXCEPT ![c] = Out(why)]
      PROVE  CacheInv'
  <2>1. CallOK(Out(why))
    BY <1>1, <1>4, Named, RejectedOK
  <2> QED BY <1>1, <1>4, <2>1, OneCall
<1>5. CASE t.key # k
  <2>1. Refused(Out("signature"))
    BY <1>1, <1>2, <1>5, RejectedHolds DEF Refused
  <2>2. calls' = [calls EXCEPT ![c] = Out("signature")]
    BY <1>2, <1>5 DEF Verify, Reject
  <2> QED BY <1>4, <2>1, <2>2
<1>6. CASE t.key = k /\ now >= t.exp
  <2>1. Refused(Out("expired"))
    BY <1>1, <1>3, <1>6, RejectedHolds DEF Refused
  <2>2. calls' = [calls EXCEPT ![c] = Out("expired")]
    BY <1>2, <1>6 DEF Verify, Reject
  <2> QED BY <1>4, <2>1, <2>2
<1>7. CASE t.key = k /\ ~(now >= t.exp) /\ t.form = "foreign"
  <2>1. Refused(Out("foreign"))
    BY <1>1, <1>7, RejectedHolds DEF Refused
  <2>2. calls' = [calls EXCEPT ![c] = Out("foreign")]
    BY <1>2, <1>7 DEF Verify, Reject
  <2> QED BY <1>4, <2>1, <2>2
<1>8. CASE t.key = k /\ ~(now >= t.exp) /\ t.form # "foreign"
  <2> DEFINE r == [calls[c] EXCEPT !.pc = "accepted", !.at = now]
  <2>1. /\ r \in CallType /\ r.pc = "accepted" /\ r.token = t /\ r.at = now
        /\ r.key = calls[c].key
    <3>1. now \in 0 .. now
      BY <1>3
    <3> QED BY <1>1, <3>1, Named DEF CallOK, CallType
  <2>2. calls' = [calls EXCEPT ![c] = r]
    BY <1>2, <1>8 DEF Verify, Accept
  <2> HIDE DEF r
  <2>3. CallOK(r)
    BY <1>1, <1>2, <1>3, <1>8, <2>1 DEF CallOK
  <2> QED BY <1>1, <2>2, <2>3, OneCall
<1> QED BY <1>5, <1>6, <1>7, <1>8

LEMMA InvPresent ==
  ASSUME CacheInv, NEW c \in Call, NEW t \in Token, Present(c, t)
  PROVE  CacheInv'
<1> DEFINE refused == t.form \in {"not bearer", "not RS256"}
           r == [pc |-> IF refused THEN "rejected" ELSE "get", token |-> t, key |-> {},
                 why |-> IF refused THEN t.form ELSE "", at |-> now]
<1>1. "" \in Reasons /\ Form \subseteq Reasons /\ "get" \in Places
  BY Zenon DEF Reasons, Places
<1>2. PICK none \in Reasons : none = ""
  BY <1>1, Zenon
<1>3. r = [pc |-> IF refused THEN "rejected" ELSE "get", token |-> t, key |-> {},
           why |-> IF refused THEN t.form ELSE none, at |-> now]
  BY <1>2, Zenon
<1>4. t.form \in Form /\ now \in 0 .. now
  BY TokenAssumption DEF CacheInv, Clock
<1>5. calls' = [calls EXCEPT ![c] = r] /\ UNCHANGED <<process, keys, doc, published>>
  BY Zenon DEF Present
<1>6. /\ r \in CallType /\ r.key = {} /\ r.token = t
      /\ r.pc = (IF refused THEN "rejected" ELSE "get") /\ (refused => r.why = t.form)
  <2> HIDE DEF r
  <2> QED BY <1>1, <1>3, <1>4, Named DEF CallType
<1> HIDE DEF r
<1>7. CASE refused
  <2>1. Refused(r)
    BY <1>6, <1>7 DEF Refused
  <2>2. CallOK(r)
    BY <1>6, <1>7, <2>1 DEF CallOK
  <2> QED BY <1>5, <2>2, OneCall
<1>8. CASE ~refused
  <2>1. t.form \in {"ours", "foreign"}
    BY <1>4, <1>8 DEF Form
  <2>2. CallOK(r)
    BY <1>6, <1>8, <2>1 DEF CallOK
  <2> QED BY <1>5, <2>2, OneCall
<1> QED BY <1>7, <1>8

(* Steps of the issuer, of time and of the process.                        *)
LEMMA InvAround ==
  ASSUME CacheInv,
         \/ \E d \in Documents : Publish(d)
         \/ Tick /\ UNCHANGED <<keys, doc, published, calls>>
         \/ CacheCrash
  PROVE  CacheInv'
<1>1. CacheNext
  BY DEF CacheNext
<1>2. published \subseteq published' /\ now <= now'
  BY <1>1, NothingTakenBack
<1>3. Clock'
  BY DEF CacheInv, Clock, Publish, process, Tick, CacheCrash, Crash
<1>4. doc' \in Documents /\ doc' \subseteq published' /\ Cached'
  BY <1>2 DEF CacheInv, Publish, CacheCrash, Cached, Empty
<1>5. /\ DOMAIN calls' = Call
      /\ \A c \in Call : calls'[c] = calls[c] \/ calls'[c] = Idle
  BY DEF CacheInv, Publish, CacheCrash
<1>6. ASSUME NEW c \in Call, calls'[c] # Idle PROVE CallOK(calls[c])'
  <2>1. PICK r : r = calls[c] /\ r = calls'[c]
    BY <1>5, <1>6
  <2>2. CallOK(r)
    BY <2>1, <1>6 DEF CacheInv
  <2>3. CallOK(r)'
    BY <2>2, <1>2, <1>3, CallKept DEF Clock
  <2> QED BY <2>1, <2>3
<1> QED BY <1>3, <1>4, <1>5, <1>6 DEF CacheInv

LEMMA InvNext == CacheInv /\ [CacheNext]_cacheVars => CacheInv'
<1> SUFFICES ASSUME CacheInv, [CacheNext]_cacheVars PROVE CacheInv'
  OBVIOUS
<1>1. CASE UNCHANGED cacheVars
  <2>1. \A r : CallOK(r)' <=> CallOK(r)
    BY <1>1 DEF cacheVars, process, CallOK, CallType, Refused
  <2> QED BY <1>1, <2>1 DEF cacheVars, process, CacheInv, Clock, Cached
<1>2. ASSUME NEW c \in Call, (\E t \in Token : Present(c, t)) \/ OwnStep(c) \/ Fetched(c)
      PROVE  CacheInv'
  BY <1>2, InvPresent, InvLookup, InvMerge, InvVerify, InvFetched DEF OwnStep
<1> QED BY <1>1, <1>2, InvAround DEF CacheNext

LEMMA CacheInvariant == CacheSpec => []CacheInv
  BY InvInit, InvNext, PTL DEF CacheSpec

-----------------------------------------------------------------------------
(* jwksCache.keys maps a kid to a key the issuer published under it; and a *)
(* request in the middleware is about a token, holds keys the issuer       *)
(* published, and from jwksCache.get on one of its token's kid.            *)
THEOREM CacheTyped == CacheSpec => []CacheTypeOK
<1>1. ASSUME CacheInv PROVE CacheTypeOK
  <2>1. ASSUME NEW c \in Call, calls[c] # Idle
        PROVE  /\ calls[c] \in CallType
               /\ calls[c].pc \in {"verify", "accepted"} =>
                    \E k \in published : calls[c].key = {k} /\ k.kid = calls[c].token.kid
    BY <1>1, <2>1 DEF CacheInv, CallOK
  <2> QED BY <1>1, <2>1 DEF CacheInv, Cached, CacheTypeOK, CallType
<1>2. CacheInv => CacheTypeOK
  BY <1>1
<1> QED BY <1>2, CacheInvariant, PTL

(* NewJWTMiddleware lets through only a bearer token of the expected       *)
(* issuer, audience and algorithm, signed with a key the issuer published  *)
(* under the kid it names and not expired when that was found, whatever    *)
(* the order of fetches, merges and rotations.                             *)
THEOREM CacheAcceptsGenuine == CacheSpec => []AcceptedIsGenuine
<1>1. ASSUME CacheInv, NEW c \in Call, calls[c].pc = "accepted"
      PROVE  LET t == calls[c].token
             IN  /\ t.form = "ours" /\ t.key \in published /\ t.key.kid = t.kid
                 /\ calls[c].at < t.exp
  BY <1>1 DEF CacheInv, CallOK, Idle
<1>2. CacheInv => AcceptedIsGenuine
  BY <1>1 DEF AcceptedIsGenuine
<1> QED BY <1>2, CacheInvariant, PTL

(* Each refusal has its cause: another key than the token's, published     *)
(* under its kid, for a wrong signature; no entry of the kid that decoded  *)
(* in the document fetched for it, for an unknown one; the instant itself, *)
(* for an expired token; a token that is not ours; or the endpoint, and    *)
(* then no key had been found.                                             *)
THEOREM CacheRejectsForCause == CacheSpec => []RejectedForCause
<1>1. ASSUME CacheInv, NEW c \in Call, calls[c].pc = "rejected" PROVE Refused(calls[c])
  BY <1>1 DEF CacheInv, CallOK, Idle
<1>2. CacheInv => RejectedForCause
  BY <1>1 DEF RejectedForCause, Refused
<1> QED BY <1>2, CacheInvariant, PTL

(* refresh never forgets a key while the process lives, and replaces one   *)
(* only by another the issuer published under the same kid: the document   *)
(* of a slow fetch takes nothing away from a faster one.                   *)
THEOREM CacheKeysOnlyGrow == CacheSpec => KeysOnlyGrow
<1>1. ASSUME CacheInv, CacheNext, run' = run PROVE KeysGrow
  <2>1. CASE UNCHANGED keys
    BY <2>1 DEF KeysGrow
  <2>2. ASSUME NEW c \in Call, Merge(c) PROVE KeysGrow
    <3> DEFINE got == calls[c].key
    <3>0. CallOK(calls[c]) /\ keys' = Merged(keys, got)
      <4>1. calls[c].pc = "merge" /\ keys' = Merged(keys, got)
        BY <2>2 DEF Merge
      <4> QED BY <1>1, <4>1 DEF CacheInv, Idle
    <3>1. keys' = Merged(keys, got) /\ got \subseteq published
      BY <3>0 DEF CallOK, CallType
    <3> HIDE DEF got
    <3>2. ASSUME NEW kid \in DOMAIN keys
          PROVE  kid \in DOMAIN keys' /\ (keys'[kid] # keys[kid] => Reused(kid))
      <4>1. /\ kid \in DOMAIN keys'
            /\ keys'[kid] = IF \E k \in got : k.kid = kid
                            THEN CHOOSE k \in got : k.kid = kid ELSE keys[kid]
        BY <3>1 DEF Merged
      <4>2. keys[kid] \in published /\ keys[kid].kid = kid
        BY <1>1 DEF CacheInv, Cached
      <4>3. CASE \E k \in got : k.kid = kid
        <5>1. keys'[kid] \in published /\ keys'[kid].kid = kid
          BY <4>1, <4>3, <3>1
        <5> QED BY <4>1, <4>2, <5>1 DEF Reused
      <4>4. CASE ~ \E k \in got : k.kid = kid
        BY <4>1, <4>4
      <4> QED BY <4>3, <4>4
    <3> QED BY <3>2 DEF KeysGrow
  <2>3. CASE CacheCrash
    BY <1>1, <2>3 DEF CacheCrash, Crash, CacheInv, Clock
  <2> QED BY <1>1, <2>1, <2>2, <2>3
        DEF CacheNext, Publish, Present, OwnStep, Get, Recheck, Verify, Fetched, Tick
<1>2. CacheInv /\ [CacheNext]_cacheVars => [run' = run => KeysGrow]_cacheVars
  BY <1>1
<1> QED BY <1>2, CacheInvariant, PTL DEF CacheSpec, KeysOnlyGrow
=============================================================================
