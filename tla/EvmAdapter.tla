----------------------------- MODULE EvmAdapter -----------------------------
(***************************************************************************)
(* siwx/evm: the clock is read once, after parsing; the four claim checks  *)
(* use that reading; then verifySignature picks who decides: ecrecover,    *)
(* the contract at the address (ERC-1271) or the deployless validator      *)
(* (ERC-6492).  A chain call is a step of its own, answered by the node at *)
(* any later time or with an error.                                        *)
(***************************************************************************)
EXTENDS Verification

(* The client the resolver has for the message's chain: "none", "plain"    *)
(* (CodeAt and CallContract) or "deployless" (CallContractCreation too).   *)
Client(a) == at[a].verifier.client[at[a].sub.ref]

(* The SIWE parser takes an integer chain id only, so its reference is     *)
(* always well formed; the clock is read right after.                      *)
EvmParse(a) ==
  /\ Standing(a, "parse", "eip155")
  /\ LET m == at[a].sub
         err == IF m.parses /\ m.ref \notin MalformedRefs THEN "nil" ELSE "ErrMalformed"
     IN  at' = [at EXCEPT ![a] = [Observed(@, "parse", err) EXCEPT !.clock = now]]

(* A timestamp the SIWE parser let through may still not parse here. *)
EvmCheck(a, c) ==
  /\ Standing(a, c, "eip155")
  /\ LET m == at[a].sub
     IN  Observe(a, c, IF c \in m.garbled THEN "ErrMalformed"
                       ELSE IF Fails(m, at[a].opts, at[a].clock)[c] THEN ErrFor[c]
                       ELSE "nil")

(* Mutant of Recovered: the owner of a wallet passes for the wallet. *)
RecoveredOwner(a) == IF at[a].sub.sig \in {"good", "owner"} THEN "nil" ELSE "ErrBadSignature"

Recovered(a) == IF at[a].sub.sig = "good" THEN "nil" ELSE "ErrBadSignature"

Ask(a, method) == at' = [at EXCEPT ![a].pc = method]

Answered(a, answer, err) ==
  at' = [at EXCEPT ![a] = [Observed(at[a], "signature", err) EXCEPT
                             !.rpc = Append(at[a].rpc, <<at[a].pc, answer>>)]]

(* verifySignature up to its first chain call. *)
EvmRoute(a) ==
  /\ Standing(a, "signature", "eip155")
  /\ \/ /\ at[a].sub.sig = "wrapped"
        /\ IF Client(a) = "deployless" THEN Ask(a, "deployless")
           ELSE Observe(a, "signature", "ErrContractWalletUnsupported")
     \/ /\ at[a].sub.sig # "wrapped" /\ Client(a) = "none"
        /\ Observe(a, "signature", Recovered(a))
     \/ /\ at[a].sub.sig # "wrapped" /\ Client(a) # "none"
        /\ Ask(a, "code")

(* Mutant of EvmCodeAt: a failed code lookup falls back to ecrecover. *)
EvmCodeAtFailsOpen(a) ==
  /\ Standing(a, "code", "eip155")
  /\ \/ Answered(a, "error", Recovered(a))
     \/ Answered(a, "no code", Recovered(a))
     \/ at' = [at EXCEPT ![a] = [@ EXCEPT !.pc = "call", !.rpc = Append(@, <<"code", "code">>)]]

(* CodeAt: no code means an EOA; code means ask the contract. *)
EvmCodeAt(a) ==
  /\ Standing(a, "code", "eip155")
  /\ \/ Answered(a, "error", "ErrRPC")
     \/ Answered(a, "no code", Recovered(a))
     \/ at' = [at EXCEPT ![a] = [at[a] EXCEPT !.pc = "call",
                                             !.rpc = Append(at[a].rpc, <<"code", "code">>)]]

(* CallContract: isValidSignature, accepted by its magic value only. *)
EvmCall(a) ==
  /\ Standing(a, "call", "eip155")
  /\ \/ Answered(a, "error", "ErrRPC")
     \/ Answered(a, "magic", "nil")
     \/ Answered(a, "other", "ErrContractValidationFailed")

(* validateERC6492: one creation call, accepted by the single byte 0x01.   *)
EvmDeployless(a) ==
  /\ Standing(a, "deployless", "eip155")
  /\ \/ Answered(a, "error", "ErrRPC")
     \/ Answered(a, "valid", "nil")
     \/ Answered(a, "invalid", "ErrContractValidationFailed")

EvmLocalStep(a) == \/ EvmParse(a)
                   \/ \E c \in {"domain", "not_before", "expiry", "nonce"} : EvmCheck(a, c)
                   \/ EvmRoute(a)

EvmChainStep(a) == EvmCodeAt(a) \/ EvmCall(a) \/ EvmDeployless(a)

EvmStep(a) == EvmLocalStep(a) \/ EvmChainStep(a)
=============================================================================
