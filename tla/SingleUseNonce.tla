--------------------------- MODULE SingleUseNonce ---------------------------
(***************************************************************************)
(* What siwx.NonceStore promises, with no clock, no map and no sweep: a    *)
(* nonce is minted once, and from then on it is either accepted, at most   *)
(* once, or it lapses.  "Burn returns ErrNonceMismatch if the nonce is     *)
(* unknown, expired, or already burned" (contracts/contracts.go:174).      *)
(***************************************************************************)
CONSTANT Nonce

VARIABLES status,           \* "unborn", "live" or "dead"
          accepted          \* the nonces some Burn accepted

vars == <<status, accepted>>

Init == /\ status = [n \in Nonce |-> "unborn"]
        /\ accepted = {}

Mint(n) == /\ status[n] = "unborn"
           /\ status' = [status EXCEPT ![n] = "live"]
           /\ UNCHANGED accepted

Accept(n) == /\ status[n] = "live"
             /\ status' = [status EXCEPT ![n] = "dead"]
             /\ accepted' = accepted \union {n}

(* Any set of live nonces lapses at once: time passed, or the process died. *)
Lapse(S) == /\ \A n \in S : status[n] = "live"
            /\ status' = [n \in Nonce |-> IF n \in S THEN "dead" ELSE status[n]]
            /\ UNCHANGED accepted

Next == \/ \E n \in Nonce : Mint(n) \/ Accept(n)
        \/ \E S \in SUBSET Nonce : Lapse(S)

Spec == Init /\ [][Next]_vars
=============================================================================
