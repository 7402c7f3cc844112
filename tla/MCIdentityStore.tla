-------------------------- MODULE MCIdentityStore --------------------------
(***************************************************************************)
(* The identity store with what its last caller was told: the history      *)
(* variable answer holds the LinkWallet call that just returned nil, and   *)
(* nothing after any other step.                                           *)
(***************************************************************************)
EXTENDS IdentityStore

VARIABLE answer             \* history: at most one [id, wallet]

answeredVars == <<identityVars, answer>>

AnsweredInit == IdentityInit /\ answer = {}

Otherwise == \/ \E id \in Identity : \/ \E w \in Wallet : UpsertByWallet(w, id)
                                     \/ LinkFails(id)
                /\ UNCHANGED process
             \/ Tick /\ UNCHANGED ids
             \/ Crash /\ LoseIdentities

AnsweredNext ==
  \/ \E id \in Identity, w \in Wallet :
       /\ LinkWallet(id, w) /\ UNCHANGED process
       /\ answer' = {[id |-> id, wallet |-> w]}
  \/ Otherwise /\ answer' = {}

AnsweredSpec == AnsweredInit /\ [][AnsweredNext]_answeredVars

-----------------------------------------------------------------------------
(* When LinkWallet(id, w) has returned nil, w signs in as id.  README.md:317 *)
(* promises it ("One person can link several wallets (via /auth/link) and  *)
(* still be one account"); the code answers nil for a wallet it finds in   *)
(* id's list without looking whose it is by now.                           *)
LinkedWalletSignsIn ==
  [][\A a \in answer' : walletToID'[a.wallet] = a.id]_answeredVars
=============================================================================
