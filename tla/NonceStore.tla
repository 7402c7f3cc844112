----------------------------- MODULE NonceStore -----------------------------
(***************************************************************************)
(* memNonceStore (examples/hub/stores.go): the hub's single-use nonces, a  *)
(* map from nonce to expiry behind one mutex.  Issue and Burn hold the     *)
(* mutex from their first access of the map to their last, so each is one  *)
(* step; whoever calls them concurrently is serialised by it.              *)
(***************************************************************************)
EXTENDS Process

CONSTANTS Nonce,            \* the values rand.Read can produce
          TTLs              \* the lifetimes callers ask for

ASSUME TTLAssumption == TTLs \subseteq Nat

VARIABLES entries,          \* the map: nonce -> expiry
          born,             \* history: nonce -> when, for how long and in which process it was issued
          spent             \* history: how many Burns of each nonce returned nil

store == <<entries, born, spent>>
nonceVars == <<process, store>>

(* Mutant of Expired: Before instead of After.  *)
ExpiredAtOnce(t) == now >= t

(* After(e.expires): a nonce is still good at the very instant it expires. *)
Expired(t) == now > t

(* sweep, called with the mutex held: drop what has expired. *)
Swept == [k \in {j \in DOMAIN entries : ~Expired(entries[j])} |-> entries[k]]

With(f, k, v) == [j \in DOMAIN f \union {k} |-> IF j = k THEN v ELSE f[j]]
Without(f, k) == [j \in DOMAIN f \ {k} |-> f[j]]

NonceInit == /\ ProcessInit
             /\ entries = Empty
             /\ born = Empty
             /\ spent = [n \in Nonce |-> 0]

(* Issue: 128 random bits never repeat, so the nonce is any unborn one. *)
Issue(n, ttl) ==
  /\ n \notin DOMAIN born
  /\ entries' = With(Swept, n, now + ttl)
  /\ born' = With(born, n, [at |-> now, ttl |-> ttl, run |-> run])
  /\ UNCHANGED spent

(* Mutants of BurnOK: the entry is not deleted; its expiry is not read. *)
BurnKeepsEntry(n) ==
  /\ n \in DOMAIN entries
  /\ ~Expired(entries[n])
  /\ spent' = [spent EXCEPT ![n] = @ + 1]
  /\ UNCHANGED <<entries, born>>

BurnIgnoresExpiry(n) ==
  /\ n \in DOMAIN entries
  /\ entries' = Without(entries, n)
  /\ spent' = [spent EXCEPT ![n] = @ + 1]
  /\ UNCHANGED born

(* Burn returning nil: the entry is deleted first, then its expiry read. *)
BurnOK(n) ==
  /\ n \in DOMAIN entries
  /\ ~Expired(entries[n])
  /\ entries' = Without(entries, n)
  /\ spent' = [spent EXCEPT ![n] = @ + 1]
  /\ UNCHANGED born

(* Mutant of BurnRejected: a tombstone is left for a nonce nobody issued. *)
BurnLeavesTombstone(n) ==
  /\ n \in DOMAIN entries => Expired(entries[n])
  /\ entries' = With(entries, n, now)
  /\ UNCHANGED <<born, spent>>

(* Burn returning ErrNonceMismatch: unknown, or known but expired; an      *)
(* expired entry is deleted all the same.                                  *)
BurnRejected(n) ==
  /\ n \in DOMAIN entries => Expired(entries[n])
  /\ entries' = Without(entries, n)
  /\ UNCHANGED <<born, spent>>

(* A new process: newNonceStore makes an empty map. *)
LoseNonces == /\ entries' = Empty
              /\ UNCHANGED <<born, spent>>

NonceStep == \E n \in Nonce : \/ \E ttl \in TTLs : Issue(n, ttl)
                              \/ BurnOK(n)
                              \/ BurnRejected(n)

NonceNext == \/ NonceStep /\ UNCHANGED process
             \/ Tick /\ UNCHANGED store
             \/ Crash /\ LoseNonces

NonceSpec == NonceInit /\ [][NonceNext]_nonceVars

-----------------------------------------------------------------------------
(* The map holds expiries of issued nonces and the histories have their types. *)
NonceTypeOK ==
  /\ now \in Nat
  /\ run \in Nat
  /\ DOMAIN entries \subseteq DOMAIN born
  /\ DOMAIN born \subseteq Nonce
  /\ \A n \in DOMAIN entries : entries[n] \in Nat
  /\ \A n \in DOMAIN born : born[n] \in [at : Nat, ttl : Nat, run : Nat]
  /\ spent \in [Nonce -> Nat]

(* A nonce is accepted at most once, ever: two Burns racing for it, a      *)
(* replay after a restart and a replay after a sweep all lose.             *)
SpentAtMostOnce == \A n \in Nonce : spent[n] <= 1

(* Whatever else was issued, burned or swept meanwhile, a nonce that is    *)
(* still within its lifetime, was issued by this process and was not       *)
(* accepted yet is still in the map: its one Burn will succeed.            *)
UsableNonceKept ==
  \A n \in DOMAIN born :
    /\ born[n].run = run
    /\ now <= born[n].at + born[n].ttl
    /\ spent[n] = 0
    => n \in DOMAIN entries

(* A Burn accepts only within the lifetime Issue was asked for, and only a *)
(* nonce of the process that issued it.                                    *)
AcceptedInLifetime ==
  [][\A n \in Nonce : spent'[n] # spent[n] =>
       /\ n \in DOMAIN born
       /\ born[n].run = run
       /\ now <= born[n].at + born[n].ttl]_nonceVars

(* The abstract nonce: live as long as it is in the map and not expired. *)
Status(n) == IF n \notin DOMAIN born THEN "unborn"
             ELSE IF n \in DOMAIN entries /\ ~Expired(entries[n]) THEN "live"
             ELSE "dead"

Promise == INSTANCE SingleUseNonce WITH
             status <- [n \in Nonce |-> Status(n)],
             accepted <- {n \in Nonce : spent[n] > 0}

(* The store keeps siwx.NonceStore's promise (contracts/contracts.go:174): *)
(* every step is a mint, an acceptance, a lapse or invisible.              *)
KeepsPromise == Promise!Spec
=============================================================================
