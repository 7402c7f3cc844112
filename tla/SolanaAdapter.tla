--------------------------- MODULE SolanaAdapter ---------------------------
(***************************************************************************)
(* siwx/solana: the four claim checks, each reading the clock for itself,  *)
(* then siws.VerifyRaw, which parses and checks everything once more.      *)
(***************************************************************************)
EXTENDS Verification

(* siws.ParseMessage parses the timestamps too: a garbled one is malformed. *)
Parses(m) == m.parses /\ m.garbled = {}

SolanaParse(a) ==
  /\ Standing(a, "parse", "solana")
  /\ Observe(a, "parse", IF Parses(at[a].sub) THEN "nil" ELSE "ErrMalformed")

(* Each check calls nowFn when its turn comes. *)
SolanaCheck(a, c) ==
  /\ Standing(a, c, "solana")
  /\ Observe(a, c, IF Fails(at[a].sub, at[a].opts, now)[c] THEN ErrFor[c] ELSE "nil")

(* Mutant of VerifyRaw: whatever fails now is blamed on the signature.     *)
VerifyRawBlamesSignature(m, o, t) ==
  IF m.sig = "good" /\ \A i \in 1 .. 4 : ~Fails(m, o, t)[Checks[i]]
  THEN "nil" ELSE "ErrBadSignature"

(* siws.VerifyRaw at instant t: the first failing check of the S3 order.   *)
VerifyRaw(m, o, t) ==
  LET failing == {i \in 1 .. 4 : Fails(m, o, t)[Checks[i]]}
  IN  IF o.domain = "" \/ o.nonce = "" \/ ~Parses(m) THEN "ErrMalformed"
      ELSE IF failing # {}
           THEN ErrFor[Checks[CHOOSE i \in failing : \A j \in failing : i <= j]]
      ELSE IF m.sig = "good" THEN "nil" ELSE "ErrBadSignature"

SolanaSignature(a) ==
  /\ Standing(a, "signature", "solana")
  /\ Observe(a, "signature", VerifyRaw(at[a].sub, at[a].opts, now))

SolanaStep(a) == \/ SolanaParse(a)
                 \/ \E c \in {"domain", "not_before", "expiry", "nonce"} : SolanaCheck(a, c)
                 \/ SolanaSignature(a)
=============================================================================
