---------------------------- MODULE Stores_proofs ----------------------------
(***************************************************************************)
(* Proofs about store.go, for every set of nonces, wallets and identities, *)
(* every lifetime and every number of restarts: memNonceStore's nonces are *)
(* single-use, usable until they expire, and keep the promise of           *)
(* SingleUseNonce; memIdentityStore's two maps stay consistent, its lists  *)
(* only grow and hold no wallet twice.                                     *)
(***************************************************************************)
EXTENDS NonceStore, IdentityStore, TLAPS


(* The strengthening: an entry is a nonce of this process, not accepted    *)
(* yet, that expires when Issue said; an unborn nonce was never accepted.  *)
EntriesAreFresh ==
  \A n \in DOMAIN entries :
    /\ spent[n] = 0
    /\ born[n].run = run
    /\ entries[n] = born[n].at + born[n].ttl

BornInThePast == \A n \in DOMAIN born : born[n].run <= run

UnbornUnspent == \A n \in Nonce \ DOMAIN born : spent[n] = 0

NonceInv == /\ NonceTypeOK
            /\ EntriesAreFresh
            /\ BornInThePast
            /\ UnbornUnspent
            /\ SpentAtMostOnce
            /\ UsableNonceKept

(* Before anything is issued the map and the histories are empty.          *)
LEMMA InvInit == NonceInit => NonceInv
  BY DEF ProcessInit, NonceInit, Empty, NonceInv, NonceTypeOK, EntriesAreFresh, BornInThePast,
         UnbornUnspent, SpentAtMostOnce, UsableNonceKept

(* Issue sweeps the map and adds one entry whose nonce was unborn.         *)
LEMMA InvIssue ==
  ASSUME NonceInv, NEW n \in Nonce, NEW ttl \in TTLs, Issue(n, ttl), UNCHANGED process
  PROVE  NonceInv'
<1> USE TTLAssumption DEF NonceInv, process
<1> DEFINE B == [at |-> now, ttl |-> ttl, run |-> run]
<1>0. /\ NonceTypeOK /\ EntriesAreFresh /\ n \notin DOMAIN born /\ ttl \in Nat
  BY DEF Issue
<1>1. /\ DOMAIN born' = DOMAIN born \union {n}
      /\ born'[n] = B
      /\ \A k \in DOMAIN born : born'[k] = born[k]
      /\ B.at = now /\ B.ttl = ttl /\ B.run = run
  BY <1>0 DEF Issue, With
<1>2. /\ DOMAIN entries' = {j \in DOMAIN entries : ~Expired(entries[j])} \union {n}
      /\ entries'[n] = now + ttl
      /\ \A k \in DOMAIN entries' \ {n} : entries'[k] = entries[k]
  BY <1>0 DEF Issue, With, Swept, NonceTypeOK
<1>3. spent' = spent /\ run' = run /\ now' = now
  BY DEF Issue
<1>4. NonceTypeOK'
  <2>1. B \in [at : Nat, ttl : Nat, run : Nat]
    BY <1>0 DEF NonceTypeOK
  <2> QED BY <1>0, <1>1, <1>2, <1>3, <2>1 DEF NonceTypeOK
<1>5. EntriesAreFresh'
  BY <1>0, <1>1, <1>2, <1>3 DEF NonceTypeOK, EntriesAreFresh, UnbornUnspent
<1>6. BornInThePast' /\ UnbornUnspent' /\ SpentAtMostOnce'
  BY <1>0, <1>1, <1>3 DEF NonceTypeOK, BornInThePast, UnbornUnspent, SpentAtMostOnce
<1>7. UsableNonceKept'
  <2> SUFFICES ASSUME NEW k \in DOMAIN born',
                      born'[k].run = run, now <= born'[k].at + born'[k].ttl, spent[k] = 0
               PROVE  k \in DOMAIN entries'
    BY <1>3 DEF UsableNonceKept
  <2>1. CASE k = n
    BY <2>1, <1>2
  <2>2. CASE k # n
    <3>1. k \in DOMAIN entries /\ born'[k] = born[k]
      BY <2>2, <1>1 DEF UsableNonceKept
    <3>2. entries[k] = born[k].at + born[k].ttl /\ entries[k] \in Nat /\ now \in Nat
      BY <3>1, <1>0 DEF EntriesAreFresh, NonceTypeOK
    <3> QED BY <3>1, <3>2, <1>2 DEF Expired
  <2> QED BY <2>1, <2>2
<1> QED BY <1>4, <1>5, <1>6, <1>7

(* Both outcomes of Burn take the nonce out of the map; only an unexpired  *)
(* entry is accepted.                                                      *)
LEMMA InvBurnOK ==
  ASSUME NonceInv, NEW n \in Nonce, BurnOK(n), UNCHANGED process
  PROVE  NonceInv'
<1> USE DEF NonceInv, process
<1>1. /\ DOMAIN entries' = DOMAIN entries \ {n}
      /\ \A k \in DOMAIN entries' : entries'[k] = entries[k]
      /\ born' = born /\ run' = run /\ now' = now
      /\ n \in DOMAIN entries
  BY DEF BurnOK, Without
<1>2. /\ spent' \in [Nonce -> Nat] /\ spent'[n] = 1
      /\ \A k \in Nonce \ {n} : spent'[k] = spent[k]
  BY <1>1 DEF BurnOK, NonceTypeOK, EntriesAreFresh
<1>3. NonceTypeOK'
  BY <1>1, <1>2 DEF NonceTypeOK
<1>4. EntriesAreFresh' /\ BornInThePast' /\ UnbornUnspent' /\ SpentAtMostOnce'
  BY <1>1, <1>2 DEF NonceTypeOK, EntriesAreFresh, BornInThePast, UnbornUnspent, SpentAtMostOnce
<1>5. UsableNonceKept'
  BY <1>1, <1>2 DEF NonceTypeOK, UsableNonceKept
<1> QED BY <1>3, <1>4, <1>5

LEMMA InvBurnRejected ==
  ASSUME NonceInv, NEW n \in Nonce, BurnRejected(n), UNCHANGED process
  PROVE  NonceInv'
<1> USE DEF NonceInv, process
<1>1. /\ DOMAIN entries' = DOMAIN entries \ {n}
      /\ \A k \in DOMAIN entries' : entries'[k] = entries[k]
      /\ born' = born /\ run' = run /\ now' = now /\ spent' = spent
      /\ n \in DOMAIN entries => now > entries[n]
  BY DEF BurnRejected, Without, Expired
<1>2. NonceTypeOK' /\ EntriesAreFresh' /\ BornInThePast' /\ UnbornUnspent' /\ SpentAtMostOnce'
  BY <1>1 DEF NonceTypeOK, EntriesAreFresh, BornInThePast, UnbornUnspent, SpentAtMostOnce
<1>3. UsableNonceKept'
  <2> SUFFICES ASSUME NEW k \in DOMAIN born,
                      born[k].run = run, now <= born[k].at + born[k].ttl, spent[k] = 0
               PROVE  k \in DOMAIN entries'
    BY <1>1 DEF UsableNonceKept
  <2>1. k \in DOMAIN entries
    BY DEF UsableNonceKept
  <2>2. entries[k] = born[k].at + born[k].ttl /\ entries[k] \in Nat /\ now \in Nat
    BY <2>1 DEF EntriesAreFresh, NonceTypeOK
  <2> QED BY <2>1, <2>2, <1>1
<1> QED BY <1>2, <1>3

LEMMA InvCrash ==
  ASSUME NonceInv, Crash, LoseNonces
  PROVE  NonceInv'
  BY DEF NonceInv, NonceTypeOK, EntriesAreFresh, BornInThePast, UnbornUnspent,
         SpentAtMostOnce, UsableNonceKept, Crash, LoseNonces, Empty

LEMMA InvTick ==
  ASSUME NonceInv, Tick, UNCHANGED store
  PROVE  NonceInv'
<1> USE DEF NonceInv, store
<1>1. NonceTypeOK' /\ EntriesAreFresh' /\ BornInThePast' /\ UnbornUnspent' /\ SpentAtMostOnce'
  BY DEF Tick, NonceTypeOK, EntriesAreFresh, BornInThePast, UnbornUnspent, SpentAtMostOnce
<1>2. UsableNonceKept'
  <2>1. \A k \in DOMAIN born : born[k].at \in Nat /\ born[k].ttl \in Nat
    BY DEF NonceTypeOK
  <2> QED BY <2>1 DEF Tick, NonceTypeOK, UsableNonceKept
<1> QED BY <1>1, <1>2

LEMMA InvNext == NonceInv /\ [NonceNext]_nonceVars => NonceInv'
<1> SUFFICES ASSUME NonceInv, [NonceNext]_nonceVars PROVE NonceInv'
  OBVIOUS
<1>1. CASE UNCHANGED nonceVars
  BY <1>1 DEF nonceVars, process, store, NonceInv, NonceTypeOK, EntriesAreFresh, BornInThePast,
              UnbornUnspent, SpentAtMostOnce, UsableNonceKept
<1>2. CASE NonceStep /\ UNCHANGED process
  BY <1>2, InvIssue, InvBurnOK, InvBurnRejected DEF NonceStep
<1>3. CASE Tick /\ UNCHANGED store
  BY <1>3, InvTick
<1>4. CASE Crash /\ LoseNonces
  BY <1>4, InvCrash
<1> QED BY <1>1, <1>2, <1>3, <1>4 DEF NonceNext

LEMMA InvAlways == NonceSpec => []NonceInv
  BY InvInit, InvNext, PTL DEF NonceSpec

(* The map holds expiries of issued nonces, in every reachable state.      *)
THEOREM NonceTypeCorrect == NonceSpec => []NonceTypeOK
<1>1. NonceInv => NonceTypeOK
  BY DEF NonceInv
<1> QED BY <1>1, InvAlways, PTL

(* Single use: no nonce is ever accepted by two Burns (stores.go Burn).    *)
THEOREM SingleUse == NonceSpec => []SpentAtMostOnce
<1>1. NonceInv => SpentAtMostOnce
  BY DEF NonceInv
<1> QED BY <1>1, InvAlways, PTL

(* No sweep, no other client's Burn and no rejected Burn takes a usable    *)
(* nonce away from the client it was issued to (stores.go sweep).          *)
THEOREM UsableKept == NonceSpec => []UsableNonceKept
<1>1. NonceInv => UsableNonceKept
  BY DEF NonceInv
<1> QED BY <1>1, InvAlways, PTL

(* Burn accepts only nonces of this process, within their lifetime.        *)
THEOREM AcceptedOnlyInLifetime == NonceSpec => AcceptedInLifetime
<1> DEFINE A == \A n \in Nonce : spent'[n] # spent[n] =>
                  /\ n \in DOMAIN born
                  /\ born[n].run = run
                  /\ now <= born[n].at + born[n].ttl
<1>1. NonceInv /\ [NonceNext]_nonceVars => [A]_nonceVars
  <2> SUFFICES ASSUME NonceInv, NonceNext, NEW n \in Nonce, spent'[n] # spent[n]
               PROVE  /\ n \in DOMAIN born
                      /\ born[n].run = run
                      /\ now <= born[n].at + born[n].ttl
    OBVIOUS
  <2>1. PICK k \in Nonce : BurnOK(k)
    BY DEF NonceNext, NonceStep, Issue, BurnRejected, LoseNonces, store
  <2>2. k = n
    BY <2>1 DEF BurnOK, NonceInv, NonceTypeOK
  <2> QED BY <2>1, <2>2 DEF BurnOK, Expired, NonceInv, NonceTypeOK, EntriesAreFresh
<1> QED BY <1>1, InvAlways, PTL DEF NonceSpec, AcceptedInLifetime

-----------------------------------------------------------------------------
(* The refinement.  Each action changes the abstract status of at most     *)
(* one nonce, except Crash and Tick, which let a set of nonces lapse.      *)
Acc == {n \in Nonce : spent[n] > 0}

LEMMA MapsInit == NonceInit => Promise!Init
  BY DEF ProcessInit, NonceInit, Empty, Promise!Init, Status

LEMMA MapsIssue ==
  ASSUME NonceInv, NEW n \in Nonce, NEW ttl \in TTLs, Issue(n, ttl), UNCHANGED process
  PROVE  Promise!Mint(n)
<1>1. /\ DOMAIN born' = DOMAIN born \union {n}
      /\ n \notin DOMAIN born
      /\ DOMAIN entries' = {j \in DOMAIN entries : ~Expired(entries[j])} \union {n}
      /\ entries'[n] = now + ttl
      /\ \A k \in DOMAIN entries' \ {n} : entries'[k] = entries[k]
      /\ spent' = spent /\ now' = now
  BY DEF Issue, With, Swept, process
<1>2. Status(n) = "unborn" /\ Status(n)' = "live"
  BY <1>1, TTLAssumption DEF Status, Expired, NonceInv, NonceTypeOK
<1>3. \A k \in Nonce \ {n} : Status(k)' = Status(k)
  BY <1>1 DEF Status, Expired
<1> QED BY <1>1, <1>2, <1>3 DEF Promise!Mint

LEMMA MapsBurnOK ==
  ASSUME NonceInv, NEW n \in Nonce, BurnOK(n), UNCHANGED process
  PROVE  Promise!Accept(n)
<1>1. /\ n \in DOMAIN entries /\ n \in DOMAIN born /\ ~Expired(entries[n])
      /\ DOMAIN entries' = DOMAIN entries \ {n}
      /\ \A k \in DOMAIN entries' : entries'[k] = entries[k]
      /\ born' = born /\ now' = now
  BY DEF BurnOK, Without, NonceInv, NonceTypeOK, process
<1>2. Status(n) = "live" /\ Status(n)' = "dead"
  BY <1>1 DEF Status, Expired
<1>3. \A k \in Nonce \ {n} : Status(k)' = Status(k)
  BY <1>1 DEF Status, Expired
<1>4. Acc' = Acc \union {n}
  BY DEF BurnOK, Acc, NonceInv, NonceTypeOK
<1> QED BY <1>1, <1>2, <1>3, <1>4 DEF Promise!Accept, Acc

LEMMA MapsBurnRejected ==
  ASSUME NonceInv, NEW n \in Nonce, BurnRejected(n), UNCHANGED process
  PROVE  UNCHANGED Promise!vars
<1>1. \A k \in Nonce : Status(k)' = Status(k)
  BY DEF BurnRejected, Without, Status, Expired, process
<1> QED BY <1>1 DEF BurnRejected, Promise!vars

(* A step that accepts and mints nothing and revives nobody is a lapse.     *)
LEMMA MapsLapse ==
  ASSUME UNCHANGED spent,
         \A k \in Nonce : Status(k)' = Status(k) \/ (Status(k) = "live" /\ Status(k)' = "dead")
  PROVE  Promise!Next
<1> DEFINE S == {k \in Nonce : Status(k) # Status(k)'}
<1>1. /\ \A k \in S : Status(k) = "live" /\ Status(k)' = "dead"
      /\ \A k \in Nonce \ S : Status(k)' = Status(k)
  OBVIOUS
<1>2. Promise!Lapse(S)
  BY <1>1 DEF Promise!Lapse
<1>3. S \in SUBSET Nonce
  OBVIOUS
<1> QED BY <1>2, <1>3 DEF Promise!Next

LEMMA MapsNext == NonceInv /\ [NonceNext]_nonceVars => [Promise!Next]_Promise!vars
<1> SUFFICES ASSUME NonceInv, [NonceNext]_nonceVars PROVE [Promise!Next]_Promise!vars
  OBVIOUS
<1>1. CASE UNCHANGED nonceVars
  BY <1>1 DEF nonceVars, process, store, Promise!vars, Status, Expired
<1>2. ASSUME NEW n \in Nonce, NEW ttl \in TTLs, Issue(n, ttl), UNCHANGED process
      PROVE  Promise!Next
  BY <1>2, MapsIssue DEF Promise!Next
<1>3. ASSUME NEW n \in Nonce, BurnOK(n), UNCHANGED process
      PROVE  Promise!Next
  BY <1>3, MapsBurnOK DEF Promise!Next
<1>4. ASSUME NEW n \in Nonce, BurnRejected(n), UNCHANGED process
      PROVE  UNCHANGED Promise!vars
  BY <1>4, MapsBurnRejected
<1>5. CASE Crash /\ LoseNonces
  <2>1. \A k \in Nonce : Status(k)' = Status(k) \/ (Status(k) = "live" /\ Status(k)' = "dead")
    BY <1>5 DEF LoseNonces, Empty, Status
  <2> QED BY <1>5, <2>1, MapsLapse DEF LoseNonces
<1>6. CASE Tick /\ UNCHANGED store
  <2>1. \A k \in Nonce : Status(k)' = Status(k) \/ (Status(k) = "live" /\ Status(k)' = "dead")
    BY <1>6 DEF Tick, store, Status, Expired, NonceInv, NonceTypeOK
  <2> QED BY <1>6, <2>1, MapsLapse DEF store
<1> QED BY <1>1, <1>2, <1>3, <1>4, <1>5, <1>6 DEF NonceNext, NonceStep

(* memNonceStore implements SingleUseNonce.                                 *)
THEOREM StoreKeepsPromise == NonceSpec => KeepsPromise
  BY MapsInit, MapsNext, InvAlways, PTL DEF NonceSpec, KeepsPromise, Promise!Spec

-----------------------------------------------------------------------------
(* The identity store. *)
IdentityInv == run \in Nat /\ IdentityTypeOK /\ Resolvable /\ NoDuplicates

(* What each action does to the lists, index by index. *)
LEMMA Created ==
  ASSUME IdentityInv, NEW w \in Wallet, NEW id \in Identity,
         id \notin DOMAIN idToWallets, idToWallets' = Put(idToWallets, id, <<w>>)
  PROVE  /\ DOMAIN idToWallets' = DOMAIN idToWallets \union {id}
         /\ idToWallets'[id] = <<w>>
         /\ \A k \in DOMAIN idToWallets : idToWallets'[k] = idToWallets[k]
  BY DEF Put

LEMMA Appended ==
  ASSUME IdentityInv, NEW w \in Wallet, NEW id \in DOMAIN idToWallets,
         idToWallets' = [idToWallets EXCEPT ![id] = Append(@, w)]
  PROVE  /\ DOMAIN idToWallets' = DOMAIN idToWallets
         /\ \A k \in DOMAIN idToWallets \ {id} : idToWallets'[k] = idToWallets[k]
         /\ idToWallets'[id] \in Seq(Wallet)
         /\ DOMAIN idToWallets'[id] = DOMAIN idToWallets[id] \union {Len(idToWallets[id]) + 1}
         /\ Len(idToWallets[id]) + 1 \notin DOMAIN idToWallets[id]
         /\ \A i \in DOMAIN idToWallets[id] : idToWallets'[id][i] = idToWallets[id][i]
         /\ idToWallets'[id][Len(idToWallets[id]) + 1] = w
<1>1. idToWallets[id] \in Seq(Wallet)
  BY DEF IdentityInv, IdentityTypeOK
<1>2. idToWallets'[id] = Append(idToWallets[id], w)
  OBVIOUS
<1> QED BY <1>1, <1>2

LEMMA IdentityInvInit == IdentityInit => IdentityInv
  BY DEF ProcessInit, IdentityInit, Empty, IdentityInv, IdentityTypeOK, Resolvable, NoDuplicates, Linked

(* A sign-in creates an identity whose list is its one wallet, or changes  *)
(* nothing.                                                                *)
LEMMA IdentityInvUpsert ==
  ASSUME IdentityInv, NEW w \in Wallet, NEW id \in Identity, UpsertByWallet(w, id), run' \in Nat
  PROVE  IdentityInv'
<1> USE DEF IdentityInv
<1>1. CASE UNCHANGED ids
  BY <1>1 DEF ids, IdentityTypeOK, Resolvable, NoDuplicates, Linked
<1>2. CASE ~ UNCHANGED ids
  <2>1. /\ w \notin DOMAIN walletToID
        /\ id \notin DOMAIN idToWallets
        /\ walletToID' = Put(walletToID, w, id)
        /\ idToWallets' = Put(idToWallets, id, <<w>>)
    BY <1>2 DEF UpsertByWallet
  <2>2. /\ DOMAIN walletToID' = DOMAIN walletToID \union {w}
        /\ walletToID'[w] = id
        /\ \A v \in DOMAIN walletToID : walletToID'[v] = walletToID[v]
    BY <2>1 DEF Put
  <2>3. /\ DOMAIN idToWallets' = DOMAIN idToWallets \union {id}
        /\ idToWallets'[id] = <<w>>
        /\ \A k \in DOMAIN idToWallets : idToWallets'[k] = idToWallets[k]
    BY <2>1, Created
  <2>4. IdentityTypeOK'
    <3>1. <<w>> \in Seq(Wallet)
      OBVIOUS
    <3> QED BY <2>2, <2>3, <3>1 DEF IdentityTypeOK
  <2>5. Resolvable'
    BY <2>2, <2>3 DEF Resolvable, Linked, IdentityTypeOK
  <2>6. NoDuplicates'
    BY <2>3 DEF NoDuplicates
  <2> QED BY <2>4, <2>5, <2>6
<1> QED BY <1>1, <1>2

(* A link appends a wallet the list did not hold, or changes nothing.      *)
LEMMA IdentityInvLink ==
  ASSUME IdentityInv, NEW w \in Wallet, NEW id \in Identity, LinkWallet(id, w), run' \in Nat
  PROVE  IdentityInv'
<1> USE DEF IdentityInv
<1>1. CASE Linked(id, w)
  BY <1>1 DEF LinkWallet, ids, IdentityTypeOK, Resolvable, NoDuplicates, Linked
<1>2. CASE ~Linked(id, w)
  <2>1. /\ id \in DOMAIN idToWallets
        /\ walletToID' = Put(walletToID, w, id)
        /\ idToWallets' = [idToWallets EXCEPT ![id] = Append(@, w)]
    BY <1>2 DEF LinkWallet
  <2>2. /\ DOMAIN walletToID' = DOMAIN walletToID \union {w}
        /\ walletToID'[w] = id
        /\ \A v \in DOMAIN walletToID \ {w} : walletToID'[v] = walletToID[v]
    BY <2>1 DEF Put
  <2>3. /\ DOMAIN idToWallets' = DOMAIN idToWallets
        /\ \A k \in DOMAIN idToWallets \ {id} : idToWallets'[k] = idToWallets[k]
        /\ idToWallets'[id] \in Seq(Wallet)
        /\ DOMAIN idToWallets'[id] = DOMAIN idToWallets[id] \union {Len(idToWallets[id]) + 1}
        /\ Len(idToWallets[id]) + 1 \notin DOMAIN idToWallets[id]
        /\ \A i \in DOMAIN idToWallets[id] : idToWallets'[id][i] = idToWallets[id][i]
        /\ idToWallets'[id][Len(idToWallets[id]) + 1] = w
    BY <2>1, Appended
  <2>4. IdentityTypeOK'
    BY <2>1, <2>2, <2>3 DEF IdentityTypeOK
  <2>5. Resolvable'
    <3> SUFFICES ASSUME NEW v \in DOMAIN walletToID'
                 PROVE  \E i \in DOMAIN idToWallets'[walletToID'[v]] :
                          idToWallets'[walletToID'[v]][i] = v
      BY DEF Resolvable, Linked
    <3>1. CASE v = w
      BY <3>1, <2>2, <2>3
    <3>2. CASE v # w
      <4>1. PICK i \in DOMAIN idToWallets[walletToID[v]] : idToWallets[walletToID[v]][i] = v
        BY <3>2, <2>2 DEF Resolvable, Linked
      <4> QED BY <3>2, <4>1, <2>1, <2>2, <2>3 DEF IdentityTypeOK
    <3> QED BY <3>1, <3>2
  <2>6. NoDuplicates'
    BY <1>2, <2>1, <2>3 DEF NoDuplicates, Linked
  <2> QED BY <2>4, <2>5, <2>6
<1> QED BY <1>1, <1>2

LEMMA IdentityInvNext == IdentityInv /\ [IdentityNext]_identityVars => IdentityInv'
<1> SUFFICES ASSUME IdentityInv, [IdentityNext]_identityVars PROVE IdentityInv'
  OBVIOUS
<1>0. run' \in Nat
  BY DEF IdentityInv, IdentityNext, Tick, Crash, identityVars, process
<1>1. CASE UNCHANGED ids
  BY <1>0, <1>1 DEF ids, IdentityInv, IdentityTypeOK, Resolvable, NoDuplicates, Linked
<1>2. ASSUME NEW id \in Identity, NEW w \in Wallet, UpsertByWallet(w, id)
      PROVE  IdentityInv'
  BY <1>2, <1>0, IdentityInvUpsert
<1>3. ASSUME NEW id \in Identity, NEW w \in Wallet, LinkWallet(id, w)
      PROVE  IdentityInv'
  BY <1>3, <1>0, IdentityInvLink
<1>4. CASE LoseIdentities
  BY <1>0, <1>4 DEF LoseIdentities, Empty, IdentityInv, IdentityTypeOK, Resolvable, NoDuplicates, Linked
<1> QED BY <1>1, <1>2, <1>3, <1>4 DEF IdentityNext, IdentityStep, LinkFails, identityVars, ids

LEMMA IdentityInvAlways == IdentitySpec => []IdentityInv
  BY IdentityInvInit, IdentityInvNext, PTL DEF IdentitySpec

(* Both maps are well typed and every owner has a list.                    *)
THEOREM IdentityTypeCorrect == IdentitySpec => []IdentityTypeOK
<1>1. IdentityInv => IdentityTypeOK
  BY DEF IdentityInv
<1> QED BY <1>1, IdentityInvAlways, PTL

(* A wallet is always among the wallets of the identity it signs in as, so *)
(* the token minted for it names it (handlers.go postVerify, issuer.go);   *)
(* and no list names a wallet twice (the loop in stores.go LinkWallet).    *)
THEOREM AlwaysListedOnce == IdentitySpec => []ListedOnce
<1>1. IdentityInv => ListedOnce
  BY DEF IdentityInv, ListedOnce
<1> QED BY <1>1, IdentityInvAlways, PTL

(* Whatever a step does within a process, lists grow at their end only.    *)
LEMMA StepGrows == IdentityInv /\ [IdentityNext]_identityVars => [run' = run => ListsGrow]_identityVars
<1> SUFFICES ASSUME IdentityInv, IdentityNext, run' = run PROVE ListsGrow
  OBVIOUS
<1> USE DEF ListsGrow
<1>1. ASSUME NEW id \in Identity, NEW w \in Wallet, UpsertByWallet(w, id)
      PROVE  ListsGrow
  BY <1>1, Created DEF UpsertByWallet, ids
<1>2. ASSUME NEW id \in Identity, NEW w \in Wallet, LinkWallet(id, w)
      PROVE  ListsGrow
  <2>1. CASE Linked(id, w)
    BY <1>2, <2>1 DEF LinkWallet, ids
  <2>2. CASE ~Linked(id, w)
    BY <1>2, <2>2, Appended DEF LinkWallet
  <2> QED BY <2>1, <2>2
<1>3. CASE UNCHANGED ids
  BY <1>3 DEF ids
<1>4. ~Crash
  BY DEF Crash, IdentityInv
<1> QED BY <1>1, <1>2, <1>3, <1>4 DEF IdentityNext, IdentityStep, LinkFails

(* Within a process identities stay and their lists only grow at the end.  *)
THEOREM ListsNeverShrink == IdentitySpec => ListsOnlyGrow
  BY StepGrows, IdentityInvAlways, PTL DEF IdentitySpec, ListsOnlyGrow

(* Only an identity that did not list a wallet can take its ownership.     *)
THEOREM OwnersStay == IdentitySpec => OwnerMovesOnlyByLink
<1>1. IdentityInv /\ [IdentityNext]_identityVars => [run' = run => OwnersMoveByLink]_identityVars
  <2> SUFFICES ASSUME IdentityInv, IdentityNext, run' = run PROVE OwnersMoveByLink
    OBVIOUS
  <2> USE DEF OwnersMoveByLink
  <2>1. ASSUME NEW id \in Identity, NEW w \in Wallet, UpsertByWallet(w, id)
        PROVE  OwnersMoveByLink
    BY <2>1 DEF UpsertByWallet, ids, Put
  <2>2. ASSUME NEW id \in Identity, NEW w \in Wallet, LinkWallet(id, w)
        PROVE  OwnersMoveByLink
    <3>1. CASE Linked(id, w)
      BY <2>2, <3>1 DEF LinkWallet, ids
    <3>2. CASE ~Linked(id, w)
      <4>1. \A v \in DOMAIN walletToID \ {w} : walletToID'[v] = walletToID[v]
        BY <2>2, <3>2 DEF LinkWallet, Put
      <4>2. walletToID'[w] = id /\ id \in DOMAIN idToWallets
        BY <2>2, <3>2 DEF LinkWallet, Put
      <4>3. \E i \in DOMAIN idToWallets'[id] : idToWallets'[id][i] = w
        BY <2>2, <3>2, Appended DEF LinkWallet
      <4> QED BY <3>2, <4>1, <4>2, <4>3
    <3> QED BY <3>1, <3>2
  <2>3. CASE UNCHANGED ids
    BY <2>3 DEF ids
  <2>4. ~Crash
    BY DEF Crash, IdentityInv
  <2> QED BY <2>1, <2>2, <2>3, <2>4 DEF IdentityNext, IdentityStep, LinkFails
<1> QED BY <1>1, IdentityInvAlways, PTL DEF IdentitySpec, OwnerMovesOnlyByLink
=============================================================================
