--------------------------- MODULE IdentityStore ---------------------------
(***************************************************************************)
(* memIdentityStore (examples/hub/stores.go): two maps behind one mutex,   *)
(* wallet -> identity and identity -> list of wallets.  Every method holds *)
(* the mutex for all its accesses, so each is one step.                    *)
(***************************************************************************)
EXTENDS Process, Sequences

CONSTANTS Wallet,           \* CAIP-10 strings
          Malformed,        \* those of them ParseCAIP10 rejects
          Identity          \* the ids rand.Read can produce

ASSUME MalformedAssumption == Malformed \subseteq Wallet

VARIABLES walletToID,       \* wallet -> the identity that signs in with it
          idToWallets       \* identity -> its wallets, in the order linked

ids == <<walletToID, idToWallets>>
identityVars == <<process, ids>>

Put(f, k, v) == [j \in DOMAIN f \union {k} |-> IF j = k THEN v ELSE f[j]]
Linked(id, w) == \E i \in DOMAIN idToWallets[id] : idToWallets[id][i] = w

IdentityInit == ProcessInit /\ walletToID = Empty /\ idToWallets = Empty

(* Mutants of UpsertByWallet: the wallet map is not consulted; the new     *)
(* identity gets no list.                                                  *)
UpsertAlwaysCreates(w, id) ==
  /\ id \notin DOMAIN idToWallets
  /\ walletToID' = Put(walletToID, w, id)
  /\ idToWallets' = Put(idToWallets, id, <<w>>)

UpsertForgetsList(w, id) ==
  \/ /\ w \in DOMAIN walletToID /\ id = walletToID[w]
     /\ UNCHANGED ids
  \/ /\ w \notin DOMAIN walletToID
     /\ id \notin DOMAIN idToWallets
     /\ walletToID' = Put(walletToID, w, id)
     /\ UNCHANGED idToWallets

(* UpsertByWallet(w) returning id: w's identity, or a new one, whose 64    *)
(* random bits no other identity has.                                      *)
UpsertByWallet(w, id) ==
  \/ /\ w \in DOMAIN walletToID /\ id = walletToID[w]
     /\ UNCHANGED ids
  \/ /\ w \notin DOMAIN walletToID
     /\ id \notin DOMAIN idToWallets
     /\ walletToID' = Put(walletToID, w, id)
     /\ idToWallets' = Put(idToWallets, id, <<w>>)

(* Mutants of LinkWallet: no test for a wallet linked already; the list is *)
(* left alone; the wallet is taken out of every other list.                *)
LinkTwice(id, w) ==
  /\ id \in DOMAIN idToWallets
  /\ walletToID' = Put(walletToID, w, id)
  /\ idToWallets' = [idToWallets EXCEPT ![id] = Append(@, w)]

LinkForgetsList(id, w) ==
  /\ id \in DOMAIN idToWallets /\ ~Linked(id, w)
  /\ walletToID' = Put(walletToID, w, id)
  /\ UNCHANGED idToWallets

LinkMovesWallet(id, w) ==
  /\ id \in DOMAIN idToWallets /\ ~Linked(id, w)
  /\ walletToID' = Put(walletToID, w, id)
  /\ idToWallets' = [k \in DOMAIN idToWallets |->
                       IF k = id THEN Append(idToWallets[k], w)
                       ELSE SelectSeq(idToWallets[k], LAMBDA v : v # w)]

(* LinkWallet(id, w) returning nil: a wallet already in id's list is left  *)
(* alone, whoever owns it now; another one moves to id.  The list of its   *)
(* previous identity keeps it.                                             *)
LinkWallet(id, w) ==
  /\ id \in DOMAIN idToWallets
  /\ \/ /\ Linked(id, w)
        /\ UNCHANGED ids
     \/ /\ ~Linked(id, w)
        /\ walletToID' = Put(walletToID, w, id)
        /\ idToWallets' = [idToWallets EXCEPT ![id] = Append(@, w)]

(* LinkWallet returning "identity not found" changes nothing. *)
LinkFails(id) == id \notin DOMAIN idToWallets /\ UNCHANGED ids

(* Wallets(id) parses the whole list and fails if one entry does not parse. *)
Wallets(id) == IF id \in DOMAIN idToWallets THEN idToWallets[id] ELSE <<>>
WalletsFails(id) == \E i \in DOMAIN Wallets(id) : Wallets(id)[i] \in Malformed

(* A new process: newIdentityStore makes two empty maps. *)
LoseIdentities == walletToID' = Empty /\ idToWallets' = Empty

IdentityStep == \E id \in Identity : \/ \E w \in Wallet : \/ UpsertByWallet(w, id)
                                                          \/ LinkWallet(id, w)
                                     \/ LinkFails(id)

IdentityNext == \/ IdentityStep /\ UNCHANGED process
                \/ Tick /\ UNCHANGED ids
                \/ Crash /\ LoseIdentities

IdentitySpec == IdentityInit /\ [][IdentityNext]_identityVars

-----------------------------------------------------------------------------
(* Both maps have their types, and every owner is an identity with a list. *)
IdentityTypeOK ==
  /\ DOMAIN walletToID \subseteq Wallet
  /\ DOMAIN idToWallets \subseteq Identity
  /\ \A w \in DOMAIN walletToID : walletToID[w] \in DOMAIN idToWallets
  /\ \A id \in DOMAIN idToWallets : idToWallets[id] \in Seq(Wallet)

(* Through any sequence of sign-ins and links, a wallet is in the list of  *)
(* the identity it signs in as: the token minted for it names it among its *)
(* wallets (issuer.go: "Wallets (including the primary) are carried in     *)
(* the wallets claim").                                                    *)
Resolvable == \A w \in DOMAIN walletToID : Linked(walletToID[w], w)

(* However often a wallet is linked, back and forth between identities,    *)
(* no list names it twice.                                                 *)
NoDuplicates ==
  \A id \in DOMAIN idToWallets : \A i, j \in DOMAIN idToWallets[id] :
    idToWallets[id][i] = idToWallets[id][j] => i = j

(* The wallet of a sign-in is named exactly once by the identity that the  *)
(* sign-in resolves to, and at most once by any other.                     *)
ListedOnce == Resolvable /\ NoDuplicates

(* Within a process an identity is never forgotten and its list only grows *)
(* at its end: a list read before a concurrent link is a prefix of the     *)
(* list after it.                                                          *)
ListsGrow ==
  \A id \in DOMAIN idToWallets :
    /\ id \in DOMAIN idToWallets'
    /\ \A i \in DOMAIN idToWallets[id] :
         i \in DOMAIN idToWallets'[id] /\ idToWallets'[id][i] = idToWallets[id][i]

ListsOnlyGrow == [][run' = run => ListsGrow]_identityVars

(* The identity a wallet signs in as ("sub is the stable identity anchor", *)
(* issuer.go) changes only when an identity that did not have the wallet   *)
(* gains it; a sign-in or a repeated link never moves it.                  *)
OwnersMoveByLink ==
  \A w \in DOMAIN walletToID : walletToID'[w] # walletToID[w] =>
    \E id \in DOMAIN idToWallets :
      /\ walletToID'[w] = id
      /\ ~Linked(id, w)
      /\ \E i \in DOMAIN idToWallets'[id] : idToWallets'[id][i] = w

OwnerMovesOnlyByLink == [][run' = run => OwnersMoveByLink]_identityVars
=============================================================================
