------------------------------ MODULE Registry ------------------------------
(***************************************************************************)
(* siwx.VerifierRegistry: a call of Verify announces the attempt, looks    *)
(* the namespace up under the read lock, hands over to that verifier and   *)
(* reports the result.  Register may replace a verifier at any moment.     *)
(***************************************************************************)
EXTENDS SolanaAdapter, EvmAdapter

CONSTANTS Namespace,        \* namespaces callers ask for
          Verifiers,        \* what Register is called with: [ns, client]
          Submissions,      \* what callers submit
          Expectations      \* the VerifyOpts they pass: [domain, nonce]

ASSUME SubmissionAssumption == Submissions \subseteq SubmissionType
(* Both parsers refuse a message without a domain or without a nonce. *)
ASSUME ParsedAssumption == \A m \in Submissions : m.parses => m.domain # "" /\ m.nonce # ""
ASSUME ExpectationAssumption == \A o \in Expectations : DOMAIN o = {"domain", "nonce"}

VARIABLE verifiers          \* the map: namespace -> verifier

registryVars == <<process, at, verifiers>>

(* Mutant of Register: every namespace gets the latest verifier. *)
RegisterEverywhere(v) == verifiers' = [ns \in DOMAIN verifiers \union {v.ns} |-> v]

Register(v) ==
  verifiers' = [ns \in DOMAIN verifiers \union {v.ns} |->
                  IF ns = v.ns THEN v ELSE verifiers[ns]]

(* Verify is called: OnVerifyAttempt precedes everything. *)
Begin(a, ns, m, o) ==
  /\ at[a].pc = "idle"
  /\ at' = [at EXCEPT ![a] =
              [pc |-> "lookup", ns |-> ns, sub |-> m, opts |-> o, start |-> now,
               verifier |-> [ns |-> ""], clock |-> 0, rpc |-> <<>>,
               trail |-> <<[name |-> "attempt", ok |-> TRUE]>>, err |-> "nil"]]

(* Mutant of Lookup: the missing-verifier branch is dropped. *)
LookupAssumesRegistered(a) ==
  /\ at[a].pc = "lookup"
  /\ at[a].ns \in DOMAIN verifiers
  /\ at' = [at EXCEPT ![a] = [@ EXCEPT !.verifier = verifiers[at[a].ns], !.pc = "parse"]]

(* The lookup under RLock; the verifier found is used after RUnlock.       *)
Lookup(a) ==
  /\ at[a].pc = "lookup"
  /\ LET ns == at[a].ns
     IN  at' = [at EXCEPT ![a] =
                  IF ns \in DOMAIN verifiers
                  THEN [@ EXCEPT !.verifier = verifiers[ns], !.pc = "parse"]
                  ELSE [@ EXCEPT !.err = "ErrUnsupportedNamespace", !.pc = "result"]]

(* Mutant of Finish: OnVerifyResult only reports errors. *)
FinishSilently(a) ==
  /\ at[a].pc = "result"
  /\ at' = [at EXCEPT ![a].pc = "done"]

(* OnVerifyResult, then Verify returns. *)
Finish(a) ==
  /\ at[a].pc = "result"
  /\ at' = [at EXCEPT ![a] =
              [at[a] EXCEPT
                 !.trail = Append(at[a].trail, [name |-> "result", ok |-> at[a].err = "nil"]),
                 !.pc = "done"]]

(* A step of the call that does not wait for a node, and any step of it. *)
LocalStep(a) == Lookup(a) \/ SolanaStep(a) \/ EvmLocalStep(a) \/ Finish(a)
AttemptStep(a) == LocalStep(a) \/ EvmChainStep(a)

RegistryInit == /\ ProcessInit
                /\ VerificationInit
                /\ \E V \in SUBSET Verifiers :
                     /\ \A v, w \in V : v.ns = w.ns => v = w
                     /\ verifiers = [ns \in {v.ns : v \in V} |-> CHOOSE v \in V : v.ns = ns]

RegistryNext ==
  \/ \E a \in Attempt :
       \/ \E ns \in Namespace, m \in Submissions, o \in Expectations : Begin(a, ns, m, o)
       \/ AttemptStep(a)
     /\ UNCHANGED <<process, verifiers>>
  \/ \E v \in Verifiers : Register(v) /\ UNCHANGED <<process, at>>
  \/ Tick /\ UNCHANGED <<at, verifiers>>

RegistryFairness == \A a \in Attempt : WF_registryVars(LocalStep(a) /\ UNCHANGED <<process, verifiers>>)

RegistrySpec == RegistryInit /\ [][RegistryNext]_registryVars /\ RegistryFairness

-----------------------------------------------------------------------------
Started == {a \in Attempt : at[a].pc # "idle"}
Returned == {a \in Attempt : at[a].pc = "done"}
Accepted == {a \in Returned : at[a].err = "nil"}

(* Every call in progress is somewhere a call can be.                      *)
RegistryTypeOK ==
  /\ \A ns \in DOMAIN verifiers : verifiers[ns] \in Verifiers /\ verifiers[ns].ns = ns
  /\ \A a \in Started :
       /\ at[a].pc \in {Stages[i] : i \in DOMAIN Stages}
                       \union {"lookup", "code", "call", "deployless", "done"}
       /\ at[a].sub \in SubmissionType
       /\ at[a].clock \in Nat /\ at[a].start \in 0 .. now

(* The trail an observer sees of one call, whichever adapter serves it and *)
(* whenever it is looked at: attempt, parse and the checks in the S3 order *)
(* (SPEC.md 9), nothing after the first failure, one result at the end,    *)
(* successful exactly when all seven stages before it were.                *)
TrailInOrder ==
  \A a \in Started :
    LET t == at[a].trail
        k == IF a \in Returned THEN Len(t) - 1 ELSE Len(t)
    IN  /\ k \in 1 .. 7
        /\ \A i \in 1 .. k : t[i].name = Stages[i]
        /\ \A i \in 1 .. k - 1 : t[i].ok
        /\ ~t[k].ok => at[a].pc \in {"result", "done"}
        /\ a \in Returned => t[k + 1] = [name |-> "result", ok |-> k = 7 /\ t[k].ok]

(* Whatever the clock did during the call, an accepted message names the   *)
(* expected domain and nonce and was within its validity window at one     *)
(* instant of the call.                                                    *)
AcceptedIsValid ==
  \A a \in Accepted :
    LET m == at[a].sub
    IN  /\ m.parses /\ m.domain = at[a].opts.domain /\ m.nonce = at[a].opts.nonce
        /\ \E t \in at[a].start .. now : /\ \A nb \in m.nb : nb <= t
                                        /\ \A exp \in m.exp : t < exp

(* What nodes answered to the chain calls of a call. *)
Answers(a) == {at[a].rpc[i][2] : i \in DOMAIN at[a].rpc}

(* The sentinel a caller gets is true of the message, the clock or the     *)
(* chain: an expired message is expired, a bad signature is bad, an RPC    *)
(* error is a node's, a contract refused.  The adapters check twice and at *)
(* different instants; the second verdict must not misname the first.      *)
RejectionIsTrue ==
  \A a \in Returned \ Accepted :
    LET m == at[a].sub
    IN  CASE at[a].err = "ErrExpired"        -> \E exp \in m.exp : exp <= now
          [] at[a].err = "ErrNotYetValid"    -> \E nb \in m.nb : at[a].start < nb
          [] at[a].err = "ErrDomainMismatch" -> m.domain # at[a].opts.domain
          [] at[a].err = "ErrNonceMismatch"  -> m.nonce # at[a].opts.nonce
          [] at[a].err = "ErrBadSignature"   -> m.sig # "good"
          [] at[a].err = "ErrMalformed"      ->
               ~m.parses \/ m.garbled # {} \/ m.ref \in MalformedRefs
          [] at[a].err = "ErrUnsupportedNamespace" -> at[a].verifier.ns = ""
          [] at[a].err = "ErrRPC"            -> "error" \in Answers(a)
          [] at[a].err = "ErrContractValidationFailed" ->
               Answers(a) \intersect {"other", "invalid"} # {}
          [] at[a].err = "ErrContractWalletUnsupported" ->
               m.sig = "wrapped" /\ Client(a) # "deployless" /\ at[a].rpc = <<>>
          [] OTHER                           -> FALSE

(* An EVM signature is accepted by the one authority for it: the deployless *)
(* validator for an ERC-6492 wrapped one, ecrecover without a client or for *)
(* an address without code, the contract otherwise; a failed chain call     *)
(* accepts nothing (erc6492.go:23, "they never silently false-negative").   *)
AcceptedByAuthority ==
  \A a \in Accepted : at[a].verifier.ns = "eip155" =>
    LET sig == at[a].sub.sig
        calls == at[a].rpc
    IN  CASE sig = "wrapped"       -> calls = << <<"deployless", "valid">> >>
          [] Client(a) = "none"    -> calls = <<>> /\ sig = "good"
          [] OTHER -> \/ calls = << <<"code", "no code">> >> /\ sig = "good"
                      \/ calls = << <<"code", "code">>, <<"call", "magic">> >>

(* Verification is network-free unless a client was configured for the     *)
(* message's chain (README.md:229), and a wrapped signature causes no call *)
(* but the deployless one (adapter_test.go:340).                           *)
ChainCallsAsConfigured ==
  \A a \in Started :
    \A i \in DOMAIN at[a].rpc :
      IF at[a].sub.sig = "wrapped"
      THEN at[a].rpc[i][1] = "deployless" /\ Client(a) = "deployless"
      ELSE at[a].rpc[i][1] \in {"code", "call"} /\ Client(a) # "none"

(* Every call returns, unless a node it asked never answers: no verifier   *)
(* replaced or missing, no failing check and no answer leaves it hanging.  *)
Answering ==
  \A a \in Attempt :
    at[a].pc = "lookup" ~> \/ at[a].pc = "done"
                          \/ \E method \in {"code", "call", "deployless"} : [](at[a].pc = method)

(* "expired never verifies" (tasks/WT-D-test-harness.md:35): no answer of a *)
(* chain makes a message accepted that has expired by then.  The EVM       *)
(* adapter reads the clock before it asks (adapter.go:81), and never again. *)
ExpiredNeverVerifies ==
  [][\A a \in Attempt :
       /\ at[a].pc \in {"code", "call", "deployless"}
       /\ at'[a].pc = "result" /\ at'[a].err = "nil"
       => ~TooLate(at[a].sub, now)]_registryVars
=============================================================================
