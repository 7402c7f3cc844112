---------------------------- MODULE Verification ----------------------------
(***************************************************************************)
(* What every siwx verification has in common: the message's claims, the   *)
(* relying party's expectations (siwx.VerifyOpts), the checks in their     *)
(* fixed order (SPEC.md S3) and the Observer events each step emits.       *)
(* The registry and the two adapters are modules of their own and share    *)
(* the variable at, the calls of VerifierRegistry.Verify in progress.      *)
(***************************************************************************)
EXTENDS Process, Sequences

CONSTANTS Attempt,          \* calls of VerifierRegistry.Verify
          MalformedRefs     \* chain references outside [-_a-zA-Z0-9]{1,32}

VARIABLE at                 \* attempt -> where the call stands

(* A submission is what the caller hands over: whether it parses, the      *)
(* claims the parser extracts (an optional timestamp is a set of at most   *)
(* one instant, garbled the checks whose timestamp does not parse later)   *)
(* and the kind of signature: "good" if it verifies for the named address, *)
(* "bad" if not, "wrapped" if it ends in the ERC-6492 suffix, "owner" if   *)
(* it is the signature of the owner of the contract wallet named.          *)
SubmissionType ==
  [parses : BOOLEAN, domain : STRING, nb : SUBSET Nat, exp : SUBSET Nat,
   garbled : SUBSET {"not_before", "expiry"}, nonce : STRING, ref : STRING, addr : STRING,
   sig : {"good", "bad", "wrapped", "owner"}]

Checks == <<"domain", "not_before", "expiry", "nonce", "signature">>
Stages == <<"attempt", "parse">> \o Checks \o <<"result">>

After(stage) == LET i == CHOOSE i \in DOMAIN Stages : Stages[i] = stage IN Stages[i + 1]

ErrFor == [domain |-> "ErrDomainMismatch", not_before |-> "ErrNotYetValid",
           expiry |-> "ErrExpired", nonce |-> "ErrNonceMismatch"]

(* Mutant of TooLate: a message is still good at the instant it expires. *)
TooLateAfter(m, t) == \E exp \in m.exp : t > exp

TooEarly(m, t) == \E nb \in m.nb : t < nb
TooLate(m, t) == \E exp \in m.exp : t >= exp

(* Which of the four claim checks message m fails at instant t. *)
Fails(m, o, t) == [domain     |-> o.domain = "" \/ m.domain # o.domain,
                   not_before |-> TooEarly(m, t),
                   expiry     |-> TooLate(m, t),
                   nonce      |-> m.nonce # o.nonce]

Idle == [pc |-> "idle"]

VerificationInit == at = [a \in Attempt |-> Idle]

(* The step that decides a stage emits its event and, on an error, returns. *)
Observed(r, stage, err) ==
  [r EXCEPT !.trail = Append(@, [name |-> stage, ok |-> err = "nil"]),
            !.pc = IF err = "nil" THEN After(stage) ELSE "result",
            !.err = err]

Observe(a, stage, err) == at' = [at EXCEPT ![a] = Observed(@, stage, err)]

(* The attempt is at this stage, in the adapter for this namespace. *)
Standing(a, stage, ns) == at[a].pc = stage /\ at[a].verifier.ns = ns
=============================================================================
