------------------------------- MODULE SignIn -------------------------------
(***************************************************************************)
(* What the hub promises whoever trusts its tokens and links, with no      *)
(* cookies, handlers, stores, verifiers or chain: a nonce is offered once, *)
(* claimed by one caller at most, and that claim succeeds for one wallet   *)
(* only, one whose holder approved of that very nonce.                     *)
(***************************************************************************)
CONSTANTS Nonce, Wallet

VARIABLES status,           \* "unborn", "offered", "claimed", "granted" or "void"
          approved,         \* [wallet, nonce] signed for by the wallet's holder
          granted           \* [wallet, nonce] a success was answered for

vars == <<status, approved, granted>>

Init == /\ status = [n \in Nonce |-> "unborn"]
        /\ approved = {} /\ granted = {}

Becomes(n, s) == status' = [status EXCEPT ![n] = s]

Offer(n) == status[n] = "unborn" /\ Becomes(n, "offered") /\ UNCHANGED <<approved, granted>>

(* Nobody can sign for a nonce before it exists. *)
Approve(w, n) == /\ status[n] # "unborn"
                 /\ approved' = approved \union {[wallet |-> w, nonce |-> n]}
                 /\ UNCHANGED <<status, granted>>

Claim(n) == status[n] = "offered" /\ Becomes(n, "claimed") /\ UNCHANGED <<approved, granted>>

Grant(w, n) == /\ status[n] = "claimed"
               /\ [wallet |-> w, nonce |-> n] \in approved
               /\ Becomes(n, "granted")
               /\ granted' = granted \union {[wallet |-> w, nonce |-> n]}
               /\ UNCHANGED approved

(* Offers expire, claims fail, a crash takes them all. *)
Lapse(S) == /\ \A n \in S : status[n] \in {"offered", "claimed"}
            /\ status' = [n \in Nonce |-> IF n \in S THEN "void" ELSE status[n]]
            /\ UNCHANGED <<approved, granted>>

Next == \/ \E n \in Nonce : Offer(n) \/ Claim(n)
        \/ \E w \in Wallet, n \in Nonce : Approve(w, n) \/ Grant(w, n)
        \/ \E S \in SUBSET Nonce : Lapse(S)

Spec == Init /\ [][Next]_vars
=============================================================================
