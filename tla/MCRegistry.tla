----------------------------- MODULE MCRegistry -----------------------------
(***************************************************************************)
(* Registry on one call at a time against every kind of message: in and    *)
(* out of its window, wrong in one claim, unparseable, garbled, signed     *)
(* well, badly or wrapped; with every kind of client, and verifiers        *)
(* registered before, during and after the call.                           *)
(***************************************************************************)
EXTENDS Registry

Signed(nb, exp, sig) ==
  [parses |-> TRUE, domain |-> "hub", nb |-> nb, exp |-> exp, garbled |-> {},
   nonce |-> "n", ref |-> "1", addr |-> "a", sig |-> sig]

Proper == {Signed(nb, exp, sig) : nb \in {{}, {1}}, exp \in {{}, {1}, {2}},
                                  sig \in {"good", "bad", "wrapped"}}

MCSubmissions ==
  UNION { {m, [m EXCEPT !.domain = "other"], [m EXCEPT !.nonce = "m"],
           [m EXCEPT !.parses = FALSE], [m EXCEPT !.ref = "long/ref"]} : m \in Proper }
  \union {[m EXCEPT !.garbled = {"expiry"}] : m \in {p \in Proper : p.exp # {}}}

MCVerifiers ==
  {[ns |-> "solana", client |-> [r \in {} |-> "none"]]}
  \union {[ns |-> "eip155", client |-> [r \in {"1"} |-> c]] : c \in {"none", "plain", "deployless"}}

MCExpectations == {[domain |-> "hub", nonce |-> "n"], [domain |-> "", nonce |-> "n"]}
=============================================================================
