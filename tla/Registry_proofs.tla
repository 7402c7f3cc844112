--------------------------- MODULE Registry_proofs ---------------------------
(***************************************************************************)
(* Proofs about VerifierRegistry.Verify and its two adapters, for every    *)
(* message, expectation, set of verifiers and clients, and any number of   *)
(* calls at a time.  What a step of one call preserves is said of its      *)
(* record alone (CallSound), so it holds wherever calls are made.          *)
(***************************************************************************)
EXTENDS Registry, SequenceTheorems, TLAPS

(* The stages of a verification, and where each of them leads.             *)
LEMMA NextStage ==
  /\ DOMAIN Stages = 1 .. 8
  /\ Stages[1] = "attempt" /\ Stages[2] = "parse" /\ Stages[3] = "domain"
  /\ Stages[4] = "not_before" /\ Stages[5] = "expiry" /\ Stages[6] = "nonce"
  /\ Stages[7] = "signature" /\ Stages[8] = "result"
  /\ After("parse") = "domain" /\ After("domain") = "not_before"
  /\ After("not_before") = "expiry" /\ After("expiry") = "nonce"
  /\ After("nonce") = "signature" /\ After("signature") = "result"
<1> DEFINE S == <<"attempt", "parse">>
           C == <<"domain", "not_before", "expiry", "nonce", "signature">>
           R == <<"result">>
<1>1. /\ S \in Seq({"attempt", "parse"}) /\ Len(S) = 2
      /\ C \in Seq({"domain", "not_before", "expiry", "nonce", "signature"}) /\ Len(C) = 5
      /\ R \in Seq({"result"}) /\ Len(R) = 1
  OBVIOUS
<1>2. /\ S[1] = "attempt" /\ S[2] = "parse"
      /\ C[1] = "domain" /\ C[2] = "not_before" /\ C[3] = "expiry" /\ C[4] = "nonce"
      /\ C[5] = "signature" /\ R[1] = "result"
  OBVIOUS
<1>0. Stages = S \o C \o R
  BY DEF Stages, Checks
<1> HIDE DEF S, C, R
<1>3. /\ DOMAIN Stages = 1 .. 8
      /\ Stages[1] = "attempt" /\ Stages[2] = "parse" /\ Stages[3] = "domain"
      /\ Stages[4] = "not_before" /\ Stages[5] = "expiry" /\ Stages[6] = "nonce"
      /\ Stages[7] = "signature" /\ Stages[8] = "result"
  <2> DEFINE A == {"attempt", "parse", "domain", "not_before", "expiry", "nonce", "signature", "result"}
  <2>1. S \in Seq(A) /\ C \in Seq(A) /\ R \in Seq(A)
    BY <1>1
  <2> HIDE DEF A
  <2>2. /\ S \o C \in Seq(A) /\ Len(S \o C) = 7
        /\ \A i \in 1 .. 7 : (S \o C)[i] = IF i <= 2 THEN S[i] ELSE C[i - 2]
    <3>1. /\ S \o C \in Seq(A) /\ Len(S \o C) = Len(S) + Len(C)
          /\ \A i \in 1 .. Len(S) + Len(C) : (S \o C)[i] = IF i <= Len(S) THEN S[i] ELSE C[i - Len(S)]
      BY <2>1, ConcatProperties, Zenon
    <3> QED BY <1>1, <3>1
  <2>3. /\ Stages \in Seq(A) /\ Len(Stages) = 8
        /\ \A i \in 1 .. 8 : Stages[i] = IF i <= 7 THEN (S \o C)[i] ELSE R[i - 7]
    <3> DEFINE T == S \o C
    <3>0. T \in Seq(A) /\ Len(T) = 7
      BY <2>2
    <3>1. /\ T \o R \in Seq(A) /\ Len(T \o R) = Len(T) + Len(R)
          /\ \A i \in 1 .. Len(T) + Len(R) : (T \o R)[i] = IF i <= Len(T) THEN T[i] ELSE R[i - Len(T)]
      BY <2>1, <3>0, ConcatProperties, Zenon
    <3> QED BY <1>0, <1>1, <3>0, <3>1
  <2> QED BY <1>2, <2>2, <2>3
<1>4. ASSUME NEW k \in 1 .. 7 PROVE After(Stages[k]) = Stages[k + 1]
  <2>1. \A i \in DOMAIN Stages : Stages[i] = Stages[k] => i = k
    BY <1>3
  <2>2. (CHOOSE i \in DOMAIN Stages : Stages[i] = Stages[k]) = k
    BY <1>3, <2>1
  <2> QED BY <2>2 DEF After
<1> QED BY <1>3, <1>4

-----------------------------------------------------------------------------
(* One call of Verify, as a record r looked at at instant t.               *)
AtFields == {"pc", "ns", "sub", "opts", "start", "verifier", "clock", "rpc", "trail", "err"}

ChainCall == {"code", "call", "deployless"}
Running == {"lookup", "parse", "domain", "not_before", "expiry", "nonce", "signature"} \union ChainCall
Over == {"result", "done"}

StageName == {"attempt", "parse", "domain", "not_before", "expiry", "nonce", "signature", "result"}
Event == [name : StageName, ok : BOOLEAN]

(* How many events a running call has emitted when it stands at pc. *)
Emissions(pc) ==
  CASE pc \in {"lookup", "parse"} -> 1
    [] pc = "domain"              -> 2
    [] pc = "not_before"          -> 3
    [] pc = "expiry"              -> 4
    [] pc = "nonce"               -> 5
    [] OTHER                      -> 6

Passed(r, k) == r.pc \in Running /\ Emissions(r.pc) >= k
Passing(r) == r.pc \in Over /\ r.err = "nil"

(* What the parsers let through of a message. *)
Parsed(m) == /\ m.nb \subseteq Nat /\ m.exp \subseteq Nat
             /\ m.parses => m.domain # "" /\ m.nonce # ""

(* The record is the one Begin makes, and its instants are in the past. *)
Shaped(r, t) ==
  /\ DOMAIN r = AtFields
  /\ Parsed(r.sub)
  /\ r.pc \in Running \union Over
  /\ r.pc = "lookup" => r.verifier.ns = ""
  /\ r.start \in Nat /\ r.start <= t
  /\ r.clock \in Nat /\ r.clock <= t

(* The first k events are those of the first k stages, and only the last   *)
(* of them may be a failure.                                               *)
Prefix(events, k, ok) ==
  \A i \in 1 .. k : events[i] = [name |-> Stages[i], ok |-> i < k \/ ok]

(* What the observer was told so far. *)
Logged(r) ==
  /\ r.trail \in Seq(Event)
  /\ r.pc \in Running => /\ r.err = "nil"
                         /\ Len(r.trail) = Emissions(r.pc)
                         /\ Prefix(r.trail, Emissions(r.pc), TRUE)
  /\ r.pc \in Over =>
       \E k \in 1 .. 7, ok \in BOOLEAN :
         /\ Len(r.trail) = IF r.pc = "done" THEN k + 1 ELSE k
         /\ Prefix(r.trail, k, ok)
         /\ r.err = "nil" <=> k = 7 /\ ok
         /\ r.pc = "done" => r.trail[k + 1] = [name |-> "result", ok |-> r.err = "nil"]

(* What the checks passed so far say of the message. *)
Checked(r, t) ==
  LET m == r.sub
      evm == r.verifier.ns = "eip155"
  IN  /\ Passed(r, 2) => /\ m.parses
                         /\ r.verifier.ns = "solana" => m.garbled = {}
                         /\ evm => r.start <= r.clock
      /\ Passed(r, 3) => r.opts.domain # "" /\ m.domain = r.opts.domain
      /\ Passed(r, 4) /\ evm => ~TooEarly(m, r.clock)
      /\ Passed(r, 5) /\ evm => ~TooLate(m, r.clock)
      /\ Passed(r, 6) => m.nonce = r.opts.nonce
      /\ Passing(r) => /\ m.parses /\ m.domain = r.opts.domain /\ m.nonce = r.opts.nonce
                       /\ \E s \in r.start .. t : ~TooEarly(m, s) /\ ~TooLate(m, s)

(* Each sentinel is true of the message. *)
Cause(r, t, err) ==
  LET m == r.sub
  IN  /\ err = "ErrExpired"        => TooLate(m, t)
      /\ err = "ErrNotYetValid"    => TooEarly(m, r.start)
      /\ err = "ErrDomainMismatch" => m.domain # r.opts.domain
      /\ err = "ErrNonceMismatch"  => m.nonce # r.opts.nonce
      /\ err = "ErrBadSignature"   => m.sig # "good"
      /\ err = "ErrMalformed"      => ~m.parses \/ m.garbled # {} \/ m.ref \in MalformedRefs
      /\ err = "ErrUnsupportedNamespace" => r.verifier.ns = ""

Named(r, t) == r.pc \in Over => Cause(r, t, r.err)

(* The verdicts no chain call is behind, and what is behind the others.    *)
ClaimErrors == {"nil", "ErrExpired", "ErrNotYetValid", "ErrDomainMismatch", "ErrNonceMismatch",
                "ErrBadSignature", "ErrMalformed", "ErrUnsupportedNamespace"}

Heard(r, answers) == \E i \in DOMAIN r.rpc : r.rpc[i][2] \in answers

(* The chain calls made, and who accepted an EVM signature. *)
ClientOf(r) == r.verifier.client[r.sub.ref]
Onchain(r) == r.verifier.ns = "eip155" /\ r.sub.sig # "wrapped" /\ ClientOf(r) # "none"
Undeployed(r) == r.verifier.ns = "eip155" /\ r.sub.sig = "wrapped" /\ ClientOf(r) = "deployless"

Routed(r) ==
  /\ r.pc \in Running \ ChainCall => r.rpc = <<>>
  /\ r.pc = "code" => r.rpc = <<>> /\ Onchain(r)
  /\ r.pc = "call" => r.rpc = << <<"code", "code">> >> /\ Onchain(r)
  /\ r.pc = "deployless" => r.rpc = <<>> /\ Undeployed(r)
  /\ r.pc \in Over =>
       \/ /\ r.rpc = <<>>
          /\ r.err = "nil" /\ r.verifier.ns = "eip155" => ClientOf(r) = "none" /\ r.sub.sig = "good"
       \/ \E x \in {"error", "no code"} :
            /\ r.rpc = << <<"code", x>> >> /\ Onchain(r)
            /\ r.err = "nil" => x = "no code" /\ r.sub.sig = "good"
       \/ \E x \in {"error", "magic", "other"} :
            /\ r.rpc = << <<"code", "code">>, <<"call", x>> >> /\ Onchain(r)
            /\ r.err = "nil" => x = "magic"
       \/ \E x \in {"error", "valid", "invalid"} :
            /\ r.rpc = << <<"deployless", x>> >> /\ Undeployed(r)
            /\ r.err = "nil" => x = "valid"

Blamed(r) ==
  r.pc \in Over =>
    \/ r.err \in ClaimErrors
    \/ r.err = "ErrRPC" /\ Heard(r, {"error"})
    \/ r.err = "ErrContractValidationFailed" /\ Heard(r, {"other", "invalid"})
    \/ /\ r.err = "ErrContractWalletUnsupported" /\ r.sub.sig = "wrapped"
       /\ ClientOf(r) # "deployless" /\ r.rpc = <<>>

CallSound(r, t) ==
  Shaped(r, t) /\ Logged(r) /\ Checked(r, t) /\ Named(r, t) /\ Routed(r) /\ Blamed(r)

CallsSound == /\ now \in Nat
              /\ DOMAIN at = Attempt
              /\ \A a \in Attempt : at[a] = Idle \/ CallSound(at[a], now)

RegistryInv ==
  /\ CallsSound
  /\ \A ns \in DOMAIN verifiers : verifiers[ns] \in Verifiers /\ verifiers[ns].ns = ns
  /\ \A a \in Attempt : at[a] = Idle \/ at[a].sub \in Submissions

-----------------------------------------------------------------------------
(* v is r once the stage was decided. *)
Decides(r, v, stage, err) ==
  /\ DOMAIN v = AtFields
  /\ v.sub = r.sub /\ v.opts = r.opts /\ v.start = r.start /\ v.verifier = r.verifier
  /\ v.trail = Append(r.trail, [name |-> stage, ok |-> err = "nil"])
  /\ v.err = err /\ v.pc = IF err = "nil" THEN After(stage) ELSE "result"

(* The call stands where the stage is decided: a chain call is part of the *)
(* signature stage.                                                        *)
Decided(r, stage) ==
  \/ stage \in {"parse", "domain", "not_before", "expiry", "nonce"} /\ r.pc = stage
  \/ stage = "signature" /\ r.pc \in ChainCall \union {"signature"}

LEMMA ObservedDecides ==
  ASSUME NEW r, DOMAIN r = AtFields, NEW stage, NEW err
  PROVE  LET v == Observed(r, stage, err)
         IN  Decides(r, v, stage, err) /\ v.clock = r.clock /\ v.rpc = r.rpc
  BY DEF Observed, AtFields, Decides

(* Further fields set along with the event.                                *)
LEMMA DecidesWithClock ==
  ASSUME NEW r, NEW o, NEW stage, NEW err, Decides(r, o, stage, err), NEW t,
         NEW v, v = [o EXCEPT !.clock = t]
  PROVE  Decides(r, v, stage, err) /\ v.clock = t /\ v.rpc = o.rpc
  BY DEF Decides, AtFields

LEMMA DecidesWithCalls ==
  ASSUME NEW r, NEW o, NEW stage, NEW err, Decides(r, o, stage, err), NEW calls,
         NEW v, v = [o EXCEPT !.rpc = calls]
  PROVE  Decides(r, v, stage, err) /\ v.clock = o.clock /\ v.rpc = calls
  BY DEF Decides, AtFields

(* The part of the invariant each decision keeps, whatever was decided.    *)
LEMMA ShapedDecided ==
  ASSUME NEW r, NEW v, NEW t, NEW stage, NEW err, Shaped(r, t), Decided(r, stage),
         Decides(r, v, stage, err), v.clock \in Nat, v.clock <= t
  PROVE  Shaped(v, t)
<1>1. v.pc \in {"domain", "not_before", "expiry", "nonce", "signature", "result"}
  BY NextStage DEF Decides, Decided
<1> QED BY <1>1 DEF Shaped, Decides, Running, Over

LEMMA LoggedDecided ==
  ASSUME NEW r, NEW v, NEW stage, NEW err, Logged(r), r.pc \in Running, Decided(r, stage),
         Decides(r, v, stage, err)
  PROVE  Logged(v)
<1> DEFINE n == Emissions(r.pc)
           e == [name |-> stage, ok |-> err = "nil"]
<1>1. /\ n \in 1 .. 6 /\ Stages[n + 1] = stage /\ After(stage) = Stages[n + 2]
      /\ stage = "signature" <=> n = 6
  BY NextStage DEF Decided, Emissions, ChainCall
<1>2. e \in Event
  BY DEF Decided, Event, StageName
<1>3. r.trail \in Seq(Event) /\ Len(r.trail) = n /\ Prefix(r.trail, n, TRUE)
  BY DEF Logged
<1> HIDE DEF n
<1>4. /\ v.trail \in Seq(Event) /\ Len(v.trail) = n + 1
      /\ v.trail[n + 1] = e /\ \A i \in 1 .. n : v.trail[i] = r.trail[i]
  <2>1. v.trail = Append(r.trail, e)
    BY DEF Decides
  <2> HIDE DEF e
  <2> QED BY <1>1, <1>2, <1>3, <2>1
<1>5. Prefix(v.trail, n + 1, err = "nil")
  <2> SUFFICES ASSUME NEW i \in 1 .. n + 1
               PROVE  v.trail[i] = [name |-> Stages[i], ok |-> i < n + 1 \/ err = "nil"]
    BY DEF Prefix
  <2>1. CASE i = n + 1
    <3>1. v.trail[i] = e /\ Stages[i] = stage /\ (i < n + 1 \/ err = "nil") = (err = "nil")
      BY <1>1, <1>4, <2>1
    <3> QED BY <3>1
  <2>2. CASE i # n + 1
    <3>1. i \in 1 .. n /\ i < n + 1
      BY <1>1, <2>2
    <3>2. v.trail[i] = r.trail[i] /\ r.trail[i] = [name |-> Stages[i], ok |-> i < n \/ TRUE]
      BY <3>1, <1>3, <1>4 DEF Prefix
    <3>3. (i < n \/ TRUE) = TRUE /\ (i < n + 1 \/ err = "nil") = TRUE
      BY <3>1
    <3> QED BY <3>2, <3>3
  <2> QED BY <2>1, <2>2
<1>6. CASE err = "nil" /\ stage # "signature"
  <2>1. v.pc = Stages[n + 2] /\ n \in 1 .. 5 /\ v.err = "nil"
    BY <1>1, <1>6 DEF Decides
  <2>2. v.pc \in Running \ Over /\ Emissions(v.pc) = n + 1
    BY <2>1, NextStage DEF Running, Over, ChainCall, Emissions
  <2>3. Prefix(v.trail, n + 1, TRUE)
    BY <1>5, <1>6
  <2> QED BY <2>1, <2>2, <2>3, <1>4 DEF Logged
<1>7. CASE err # "nil" \/ stage = "signature"
  <2>1. v.pc = "result" /\ v.err = err
    BY <1>7, NextStage DEF Decides
  <2>2. v.pc \notin Running /\ v.pc # "done" /\ n + 1 \in 1 .. 7 /\ Len(v.trail) = n + 1
    BY <1>1, <1>4, <2>1 DEF Running, ChainCall
  <2>3. CASE err = "nil"
    <3>1. Prefix(v.trail, n + 1, TRUE)
      BY <1>5, <2>3
    <3>2. n + 1 = 7
      BY <1>1, <1>7, <2>3
    <3> QED BY <3>1, <3>2, <2>1, <2>2, <2>3, <1>4 DEF Logged
  <2>4. CASE err # "nil"
    <3>1. Prefix(v.trail, n + 1, FALSE)
      BY <1>5, <2>4
    <3> QED BY <3>1, <2>1, <2>2, <2>4, <1>4 DEF Logged
  <2> QED BY <2>3, <2>4
<1> QED BY <1>6, <1>7

(* An event that fails a check must be true of the message.                *)
LEMMA NamedDecided ==
  ASSUME NEW r, NEW v, NEW t, NEW stage, NEW err, Decides(r, v, stage, err), Decided(r, stage),
         Cause(r, t, err)
  PROVE  Named(v, t)
  BY DEF Decides, Named, Cause

(* How far a call has come where it stands.                                *)
LEMMA PassedAt ==
  ASSUME NEW r
  PROVE  /\ r.pc = "domain" =>
              Passed(r, 2) /\ ~Passed(r, 3) /\ ~Passed(r, 4) /\ ~Passed(r, 5) /\ ~Passed(r, 6)
         /\ r.pc = "not_before" =>
              Passed(r, 2) /\ Passed(r, 3) /\ ~Passed(r, 4) /\ ~Passed(r, 5) /\ ~Passed(r, 6)
         /\ r.pc = "expiry" =>
              Passed(r, 2) /\ Passed(r, 3) /\ Passed(r, 4) /\ ~Passed(r, 5) /\ ~Passed(r, 6)
         /\ r.pc = "nonce" =>
              Passed(r, 2) /\ Passed(r, 3) /\ Passed(r, 4) /\ Passed(r, 5) /\ ~Passed(r, 6)
         /\ r.pc \in ChainCall \union {"signature"} =>
              Passed(r, 2) /\ Passed(r, 3) /\ Passed(r, 4) /\ Passed(r, 5) /\ Passed(r, 6)
         /\ r.pc \in Over \union {"lookup", "parse"} =>
              ~Passed(r, 2) /\ ~Passed(r, 3) /\ ~Passed(r, 4) /\ ~Passed(r, 5) /\ ~Passed(r, 6)
<1>1. /\ Emissions("domain") = 2 /\ Emissions("not_before") = 3 /\ Emissions("expiry") = 4
      /\ Emissions("nonce") = 5 /\ Emissions("signature") = 6 /\ Emissions("code") = 6
      /\ Emissions("call") = 6 /\ Emissions("deployless") = 6
      /\ Emissions("lookup") = 1 /\ Emissions("parse") = 1
  BY DEF Emissions
<1>2. CASE r.pc \in Over
  BY <1>2 DEF Passed, Over, Running, ChainCall
<1>3. CASE r.pc \notin Over
  BY <1>1, <1>3 DEF Passed, Over, Running, ChainCall
<1> QED BY <1>2, <1>3

(* A check that passed adds its fact.                                      *)
LEMMA CheckedDecided ==
  ASSUME NEW r, NEW v, NEW t, NEW stage, NEW err,
         Checked(r, t), Decided(r, stage), stage # "signature", Decides(r, v, stage, err),
         stage # "parse" => v.clock = r.clock,
         err = "nil" /\ stage = "parse" =>
           /\ r.sub.parses
           /\ r.verifier.ns = "solana" => r.sub.garbled = {}
           /\ r.verifier.ns = "eip155" => r.start <= v.clock,
         err = "nil" /\ stage = "domain" => r.opts.domain # "" /\ r.sub.domain = r.opts.domain,
         err = "nil" /\ stage = "not_before" /\ r.verifier.ns = "eip155" => ~TooEarly(r.sub, r.clock),
         err = "nil" /\ stage = "expiry" /\ r.verifier.ns = "eip155" => ~TooLate(r.sub, r.clock),
         err = "nil" /\ stage = "nonce" => r.sub.nonce = r.opts.nonce
  PROVE  Checked(v, t)
<1>1. CASE err # "nil"
  <2>1. v.pc \in Over /\ ~Passing(v)
    BY <1>1 DEF Decides, Passing, Over
  <2>2. ~Passed(v, 2) /\ ~Passed(v, 3) /\ ~Passed(v, 4) /\ ~Passed(v, 5) /\ ~Passed(v, 6)
    BY <2>1, PassedAt
  <2> QED BY <2>1, <2>2 DEF Checked
<1>2. CASE err = "nil" /\ stage = "parse"
  <2>1. v.pc = "domain" /\ ~Passing(v)
    BY <1>2, NextStage DEF Decides, Passing, Over
  <2>2. ~Passed(v, 3) /\ ~Passed(v, 4) /\ ~Passed(v, 5) /\ ~Passed(v, 6)
    BY <2>1, PassedAt
  <2> QED BY <1>2, <2>1, <2>2 DEF Decides, Checked
<1>3. CASE err = "nil" /\ stage = "domain"
  <2>1. v.pc = "not_before" /\ ~Passing(v) /\ r.pc = "domain"
    BY <1>3, NextStage DEF Decided, Decides, Passing, Over
  <2>2. ~Passed(v, 4) /\ ~Passed(v, 5) /\ ~Passed(v, 6)
    BY <2>1, PassedAt
  <2>3. Passed(r, 2)
    BY <2>1, PassedAt
  <2> QED BY <1>3, <2>1, <2>2, <2>3 DEF Decides, Checked
<1>4. CASE err = "nil" /\ stage = "not_before"
  <2>1. v.pc = "expiry" /\ ~Passing(v) /\ r.pc = "not_before"
    BY <1>4, NextStage DEF Decided, Decides, Passing, Over
  <2>2. ~Passed(v, 5) /\ ~Passed(v, 6)
    BY <2>1, PassedAt
  <2>3. Passed(r, 2) /\ Passed(r, 3)
    BY <2>1, PassedAt
  <2> QED BY <1>4, <2>1, <2>2, <2>3 DEF Decides, Checked
<1>5. CASE err = "nil" /\ stage = "expiry"
  <2>1. v.pc = "nonce" /\ ~Passing(v) /\ r.pc = "expiry"
    BY <1>5, NextStage DEF Decided, Decides, Passing, Over
  <2>2. ~Passed(v, 6)
    BY <2>1, PassedAt
  <2>3. Passed(r, 2) /\ Passed(r, 3) /\ Passed(r, 4)
    BY <2>1, PassedAt
  <2> QED BY <1>5, <2>1, <2>2, <2>3 DEF Decides, Checked
<1>6. CASE err = "nil" /\ stage = "nonce"
  <2>1. v.pc = "signature" /\ ~Passing(v) /\ r.pc = "nonce"
    BY <1>6, NextStage DEF Decided, Decides, Passing, Over
  <2>2. Passed(r, 2) /\ Passed(r, 3) /\ Passed(r, 4) /\ Passed(r, 5)
    BY <2>1, PassedAt
  <2> QED BY <1>6, <2>1, <2>2 DEF Decides, Checked
<1> QED BY <1>1, <1>2, <1>3, <1>4, <1>5, <1>6 DEF Decided

(* The signature accepted: the checks before it were passed at one instant *)
(* of the call.                                                            *)
LEMMA CheckedSignature ==
  ASSUME NEW r, NEW v, NEW t, NEW err, Decides(r, v, "signature", err),
         err = "nil" => /\ r.sub.parses /\ r.sub.domain = r.opts.domain /\ r.sub.nonce = r.opts.nonce
                        /\ \E s \in r.start .. t : ~TooEarly(r.sub, s) /\ ~TooLate(r.sub, s)
  PROVE  Checked(v, t)
<1>1. v.pc = "result"
  BY NextStage DEF Decides
<1>2. ~Passed(v, 2) /\ ~Passed(v, 3) /\ ~Passed(v, 4) /\ ~Passed(v, 5) /\ ~Passed(v, 6)
  BY <1>1, PassedAt DEF Over
<1> QED BY <1>1, <1>2 DEF Decides, Checked, Passing

(* A stage decided without a chain call.                                   *)
LEMMA RoutedDecided ==
  ASSUME NEW r, NEW v, NEW stage, NEW err, Decides(r, v, stage, err), Decided(r, stage),
         r.rpc = <<>>, v.rpc = <<>>,
         err = "nil" /\ stage = "signature" /\ r.verifier.ns = "eip155" =>
           ClientOf(r) = "none" /\ r.sub.sig = "good"
  PROVE  Routed(v)
<1>1. v.pc \in {"domain", "not_before", "expiry", "nonce", "signature", "result"}
  BY NextStage DEF Decides, Decided
<1>2. v.pc = "result" => err # "nil" \/ stage = "signature"
  BY NextStage DEF Decides, Decided
<1>3. ClientOf(v) = ClientOf(r) /\ v.sub = r.sub /\ v.verifier = r.verifier /\ v.err = err
  BY DEF Decides, ClientOf
<1> QED BY <1>1, <1>2, <1>3 DEF Routed, Running, ChainCall, Over

(* A verdict on the message alone has no chain call behind it.             *)
LEMMA BlamedDecided ==
  ASSUME NEW r, NEW v, NEW stage, NEW err, Decides(r, v, stage, err), err \in ClaimErrors
  PROVE  Blamed(v)
  BY DEF Decides, Blamed

-----------------------------------------------------------------------------
(* What a decision of a stage needs to be shown, in one place.             *)
LEMMA DecisionSound ==
  ASSUME NEW r, NEW v, NEW t \in Nat, NEW stage, NEW err, CallSound(r, t), r.pc \in Running,
         Decided(r, stage), Decides(r, v, stage, err),
         v.clock = r.clock \/ v.clock = t,
         Cause(r, t, err), Checked(v, t), Routed(v), Blamed(v)
  PROVE  CallSound(v, t)
<1>1. v.clock \in Nat /\ v.clock <= t
  <2>1. CASE v.clock = r.clock
    BY <2>1 DEF CallSound, Shaped
  <2>2. CASE v.clock = t
    BY <2>2
  <2> QED BY <2>1, <2>2
<1> QED BY <1>1, ShapedDecided, LoggedDecided, NamedDecided DEF CallSound

(* The four claim checks, one by one.                                      *)
LEMMA FailsAt ==
  ASSUME NEW m, NEW o, NEW t
  PROVE  /\ Fails(m, o, t)["domain"] <=> (o.domain = "" \/ m.domain # o.domain)
         /\ Fails(m, o, t)["not_before"] <=> TooEarly(m, t)
         /\ Fails(m, o, t)["expiry"] <=> TooLate(m, t)
         /\ Fails(m, o, t)["nonce"] <=> m.nonce # o.nonce
<1> DEFINE d == o.domain = "" \/ m.domain # o.domain
           n == m.nonce # o.nonce
<1>1. Fails(m, o, t) = [domain |-> d, not_before |-> TooEarly(m, t), expiry |-> TooLate(m, t), nonce |-> n]
  BY DEF Fails
<1> HIDE DEF d, n
<1>2. /\ Fails(m, o, t)["domain"] = d /\ Fails(m, o, t)["not_before"] = TooEarly(m, t)
      /\ Fails(m, o, t)["expiry"] = TooLate(m, t) /\ Fails(m, o, t)["nonce"] = n
  BY <1>1
<1> QED BY <1>2 DEF d, n

LEMMA SentinelOf ==
  /\ ErrFor["domain"] = "ErrDomainMismatch" /\ ErrFor["not_before"] = "ErrNotYetValid"
  /\ ErrFor["expiry"] = "ErrExpired" /\ ErrFor["nonce"] = "ErrNonceMismatch"
  BY DEF ErrFor

(* The sentinel of a failing check is true of the message at any instant   *)
(* s of the call.                                                          *)
LEMMA FailingCause ==
  ASSUME NEW r, NEW t \in Nat, Shaped(r, t), r.sub.parses, NEW s \in Nat, r.start <= s, s <= t,
         NEW F, F = Fails(r.sub, r.opts, s),
         NEW c \in {"domain", "not_before", "expiry", "nonce"}, F[c]
  PROVE  Cause(r, t, ErrFor[c])
<1>f. /\ F["domain"] <=> (r.opts.domain = "" \/ r.sub.domain # r.opts.domain)
      /\ F["not_before"] <=> TooEarly(r.sub, s)
      /\ F["expiry"] <=> TooLate(r.sub, s)
      /\ F["nonce"] <=> r.sub.nonce # r.opts.nonce
  BY FailsAt
<1>e. PICK err : err = ErrFor[c] /\ F[c]
  OBVIOUS
<1>m. r.sub.domain # "" /\ r.sub.nonce # ""
  BY DEF Shaped, Parsed
<1>n. r.sub.nb \subseteq Nat /\ r.sub.exp \subseteq Nat /\ r.start \in Nat
  BY DEF Shaped, Parsed
<1>1. CASE c = "domain"
  <2>1. err = "ErrDomainMismatch" /\ r.sub.domain # r.opts.domain
    BY <1>e, <1>1, <1>m, <1>f, SentinelOf
  <2> QED BY <1>e, <2>1 DEF Cause
<1>2. CASE c = "not_before"
  <2>1. err = "ErrNotYetValid" /\ TooEarly(r.sub, s)
    BY <1>e, <1>2, <1>f, SentinelOf
  <2>2. TooEarly(r.sub, r.start)
    BY <2>1, <1>n DEF TooEarly
  <2> QED BY <1>e, <2>1, <2>2 DEF Cause
<1>3. CASE c = "expiry"
  <2>1. err = "ErrExpired" /\ TooLate(r.sub, s)
    BY <1>e, <1>3, <1>f, SentinelOf
  <2>2. TooLate(r.sub, t)
    BY <2>1, <1>n DEF TooLate
  <2> QED BY <1>e, <2>1, <2>2 DEF Cause
<1>4. CASE c = "nonce"
  <2>1. err = "ErrNonceMismatch" /\ r.sub.nonce # r.opts.nonce
    BY <1>e, <1>4, <1>f, SentinelOf
  <2> QED BY <1>e, <2>1 DEF Cause
<1> QED BY <1>e, <1>1, <1>2, <1>3, <1>4

(* A claim check, of either adapter.                                       *)
LEMMA CheckSound ==
  ASSUME NEW r, NEW v, NEW t \in Nat, NEW s \in Nat, r.start <= s, s <= t,
         NEW c \in {"domain", "not_before", "expiry", "nonce"}, NEW err, CallSound(r, t), r.pc = c,
         Decides(r, v, c, err), v.clock = r.clock, v.rpc = r.rpc,
         r.verifier.ns = "eip155" => s = r.clock,
         \/ err = "nil" /\ ~Fails(r.sub, r.opts, s)[c]
         \/ err = ErrFor[c] /\ Fails(r.sub, r.opts, s)[c]
         \/ err = "ErrMalformed" /\ r.sub.garbled # {}
  PROVE  CallSound(v, t)
<1>d. PICK F : F = Fails(r.sub, r.opts, s)
  OBVIOUS
<1>f. /\ F["domain"] <=> (r.opts.domain = "" \/ r.sub.domain # r.opts.domain)
      /\ F["not_before"] <=> TooEarly(r.sub, s)
      /\ F["expiry"] <=> TooLate(r.sub, s)
      /\ F["nonce"] <=> r.sub.nonce # r.opts.nonce
  BY <1>d, FailsAt
<1>o. \/ err = "nil" /\ ~F[c]
      \/ err = ErrFor[c] /\ F[c]
      \/ err = "ErrMalformed" /\ r.sub.garbled # {}
  BY <1>d
<1>1. r.pc \in Running \ ChainCall /\ Decided(r, c) /\ c # "signature" /\ c # "parse"
  BY DEF Running, ChainCall, Decided
<1>2. r.rpc = <<>> /\ Routed(v)
  <2>1. r.rpc = <<>>
    BY <1>1 DEF CallSound, Routed
  <2> QED BY <1>1, <2>1, RoutedDecided
<1>4. r.sub.parses
  <2>1. Passed(r, 2)
    BY PassedAt
  <2> QED BY <2>1 DEF CallSound, Checked
<1>6. Cause(r, t, err)
  <2>1. CASE err = "nil"
    BY <2>1 DEF Cause
  <2>2. CASE err = "ErrMalformed" /\ r.sub.garbled # {}
    BY <2>2 DEF Cause
  <2>3. CASE err = ErrFor[c] /\ F[c]
    BY <1>d, <1>4, <2>3, FailingCause DEF CallSound
  <2> QED BY <1>o, <2>1, <2>2, <2>3
<1>7. err = "nil" => ~F[c]
  BY <1>o DEF ErrFor
<1>8. Checked(v, t)
  <2>1. Checked(r, t)
    BY DEF CallSound
  <2>2. err = "nil" /\ c = "domain" => r.opts.domain # "" /\ r.sub.domain = r.opts.domain
    BY <1>7, <1>f
  <2>3. err = "nil" /\ c = "not_before" /\ r.verifier.ns = "eip155" => ~TooEarly(r.sub, r.clock)
    BY <1>7, <1>f
  <2>4. err = "nil" /\ c = "expiry" /\ r.verifier.ns = "eip155" => ~TooLate(r.sub, r.clock)
    BY <1>7, <1>f
  <2>5. err = "nil" /\ c = "nonce" => r.sub.nonce = r.opts.nonce
    BY <1>7, <1>f
  <2> QED BY <1>1, <2>1, <2>2, <2>3, <2>4, <2>5, CheckedDecided
<1>9. Blamed(v)
  <2>1. err \in ClaimErrors
    BY <1>o, SentinelOf DEF ClaimErrors
  <2> QED BY <2>1, BlamedDecided
<1> QED BY <1>1, <1>2, <1>6, <1>8, <1>9, DecisionSound

-----------------------------------------------------------------------------
(* What siws.VerifyRaw may answer, F saying which checks fail: success if  *)
(* nothing fails and the signature is good, otherwise the sentinel of a    *)
(* check that fails.                                                       *)
RawVerdict(m, o, F, verdict) ==
  \/ verdict = "ErrMalformed" /\ (o.domain = "" \/ o.nonce = "" \/ ~Parses(m))
  \/ \E c \in {"domain", "not_before", "expiry", "nonce"} : verdict = ErrFor[c] /\ F[c]
  \/ verdict = "ErrBadSignature" /\ m.sig # "good"
  \/ /\ verdict = "nil" /\ m.sig = "good" /\ Parses(m)
     /\ ~F["domain"] /\ ~F["not_before"] /\ ~F["expiry"] /\ ~F["nonce"]

LEMMA VerifyRawVerdict ==
  ASSUME NEW m, NEW o, NEW t
  PROVE  RawVerdict(m, o, Fails(m, o, t), VerifyRaw(m, o, t))
<1>v. PICK F, verdict : F = Fails(m, o, t) /\ verdict = VerifyRaw(m, o, t)
  OBVIOUS
<1>s. SUFFICES RawVerdict(m, o, F, verdict)
  BY <1>v
<1> DEFINE failing == {i \in 1 .. 4 : Fails(m, o, t)[Checks[i]]}
           first == CHOOSE i \in failing : \A j \in failing : i <= j
<1>1. verdict = IF o.domain = "" \/ o.nonce = "" \/ ~Parses(m) THEN "ErrMalformed"
                ELSE IF failing # {} THEN ErrFor[Checks[first]]
                ELSE IF m.sig = "good" THEN "nil" ELSE "ErrBadSignature"
  BY <1>v DEF VerifyRaw
<1>f. \A i : i \in failing <=> i \in 1 .. 4 /\ F[Checks[i]]
  BY <1>v
<1> HIDE DEF failing
<1>2. /\ Checks[1] = "domain" /\ Checks[2] = "not_before" /\ Checks[3] = "expiry"
      /\ Checks[4] = "nonce"
  BY DEF Checks
<1>3. CASE failing = {}
  <2>1. ~F[Checks[1]] /\ ~F[Checks[2]] /\ ~F[Checks[3]] /\ ~F[Checks[4]]
    BY <1>3, <1>f
  <2>2. ~F["domain"] /\ ~F["not_before"] /\ ~F["expiry"] /\ ~F["nonce"]
    BY <1>2, <2>1
  <2> HIDE DEF first
  <2> QED BY <1>1, <1>3, <2>2 DEF RawVerdict
<1>4. CASE failing # {}
  <2>1. \E i \in failing : \A j \in failing : i <= j
    <3>1. failing \subseteq 1 .. 4
      BY <1>f
    <3>2. CASE 1 \in failing
      BY <3>1, <3>2
    <3>3. CASE 1 \notin failing /\ 2 \in failing
      BY <3>1, <3>3
    <3>4. CASE 1 \notin failing /\ 2 \notin failing /\ 3 \in failing
      BY <3>1, <3>4
    <3>5. CASE 1 \notin failing /\ 2 \notin failing /\ 3 \notin failing
      <4>1. \A j \in failing : j = 4
        BY <3>1, <3>5
      <4> QED BY <1>4, <4>1
    <3> QED BY <3>2, <3>3, <3>4, <3>5
  <2>2. first \in failing
    BY <2>1
  <2> HIDE DEF first
  <2>3. first \in 1 .. 4 /\ F[Checks[first]]
    BY <2>2, <1>f
  <2>4. \E c \in {"domain", "not_before", "expiry", "nonce"} : c = Checks[first]
    BY <1>2, <2>3
  <2> QED BY <1>1, <1>4, <2>3, <2>4 DEF RawVerdict
<1> QED BY <1>3, <1>4

-----------------------------------------------------------------------------
(* What a step of a call makes of it: the other calls stay as they are and *)
(* the one that steps becomes v.                                           *)
Becoming(a, v) == at' = [at EXCEPT ![a] = v]

LEMMA SolanaSound ==
  ASSUME NEW a \in Attempt, now \in Nat, CallSound(at[a], now), SolanaStep(a)
  PROVE  \E v : CallSound(v, now) /\ Becoming(a, v)
<1>1. PICK r : r = at[a]
  OBVIOUS
<1>2. /\ CallSound(r, now) /\ DOMAIN r = AtFields /\ r.verifier.ns = "solana"
      /\ r.start \in Nat /\ r.start <= now
  BY <1>1 DEF CallSound, Shaped, SolanaStep, SolanaParse, SolanaCheck, SolanaSignature, Standing
<1>3. CASE SolanaParse(a)
  <2>1. PICK err : /\ Observe(a, "parse", err) /\ r.pc = "parse"
                   /\ err = IF Parses(r.sub) THEN "nil" ELSE "ErrMalformed"
    BY <1>1, <1>3 DEF SolanaParse, Standing
  <2>2. PICK v : v = Observed(r, "parse", err) /\ Becoming(a, v)
    BY <1>1, <2>1 DEF Observe, Becoming
  <2>3. Decides(r, v, "parse", err) /\ v.clock = r.clock /\ v.rpc = r.rpc
    BY <1>2, <2>2, ObservedDecides
  <2>4. r.pc \in Running \ ChainCall /\ Decided(r, "parse")
    BY <2>1 DEF Running, ChainCall, Decided
  <2>5. Cause(r, now, err)
    BY <2>1 DEF Cause, Parses
  <2>6. Checked(v, now)
    <3>1. err = "nil" => r.sub.parses /\ r.sub.garbled = {}
      BY <2>1 DEF Parses
    <3> QED BY <1>2, <2>3, <2>4, <3>1, CheckedDecided DEF CallSound
  <2>7. Routed(v)
    <3>1. r.rpc = <<>>
      BY <1>2, <2>4 DEF CallSound, Routed
    <3> QED BY <2>3, <2>4, <3>1, RoutedDecided
  <2>8. Blamed(v)
    BY <2>1, <2>3, BlamedDecided DEF ClaimErrors
  <2> QED BY <1>2, <2>2, <2>3, <2>4, <2>5, <2>6, <2>7, <2>8, DecisionSound
<1>4. ASSUME NEW c \in {"domain", "not_before", "expiry", "nonce"}, SolanaCheck(a, c)
      PROVE  \E v : CallSound(v, now) /\ Becoming(a, v)
  <2>1. PICK err : /\ Observe(a, c, err) /\ r.pc = c
                   /\ err = IF Fails(r.sub, r.opts, now)[c] THEN ErrFor[c] ELSE "nil"
    BY <1>1, <1>4 DEF SolanaCheck, Standing
  <2>2. PICK v : v = Observed(r, c, err) /\ Becoming(a, v)
    BY <1>1, <2>1 DEF Observe, Becoming
  <2>3. Decides(r, v, c, err) /\ v.clock = r.clock /\ v.rpc = r.rpc
    BY <1>2, <2>2, ObservedDecides
  <2> QED BY <1>2, <2>1, <2>2, <2>3, CheckSound
<1>5. CASE SolanaSignature(a)
  <2>1. PICK err : /\ Observe(a, "signature", err) /\ r.pc = "signature"
                   /\ err = VerifyRaw(r.sub, r.opts, now)
    BY <1>1, <1>5 DEF SolanaSignature, Standing
  <2>2. PICK v : v = Observed(r, "signature", err) /\ Becoming(a, v)
    BY <1>1, <2>1 DEF Observe, Becoming
  <2>3. Decides(r, v, "signature", err) /\ v.clock = r.clock /\ v.rpc = r.rpc
    BY <1>2, <2>2, ObservedDecides
  <2>4. r.pc \in Running \ ChainCall /\ Decided(r, "signature")
    BY <2>1 DEF Running, ChainCall, Decided
  <2>5. /\ Parses(r.sub) /\ r.opts.domain # "" /\ r.opts.nonce # ""
        /\ r.sub.parses /\ r.sub.domain = r.opts.domain /\ r.sub.nonce = r.opts.nonce
    <3>1. Passed(r, 2) /\ Passed(r, 3) /\ Passed(r, 6)
      BY <2>1, PassedAt
    <3>2. /\ r.sub.parses /\ r.sub.garbled = {} /\ r.opts.domain # ""
          /\ r.sub.domain = r.opts.domain /\ r.sub.nonce = r.opts.nonce
      BY <1>2, <3>1 DEF CallSound, Checked
    <3> QED BY <1>2, <3>2 DEF CallSound, Shaped, Parsed, Parses
  <2>6. \/ \E c \in {"domain", "not_before", "expiry", "nonce"} :
             err = ErrFor[c] /\ Fails(r.sub, r.opts, now)[c]
        \/ err = "ErrBadSignature" /\ r.sub.sig # "good"
        \/ /\ err = "nil" /\ ~TooEarly(r.sub, now) /\ ~TooLate(r.sub, now)
    <3>1. PICK F : F = Fails(r.sub, r.opts, now)
      OBVIOUS
    <3>2. (F["not_before"] <=> TooEarly(r.sub, now)) /\ (F["expiry"] <=> TooLate(r.sub, now))
      BY <3>1, FailsAt
    <3>3. \/ \E c \in {"domain", "not_before", "expiry", "nonce"} : err = ErrFor[c] /\ F[c]
          \/ err = "ErrBadSignature" /\ r.sub.sig # "good"
          \/ err = "nil" /\ ~F["not_before"] /\ ~F["expiry"]
      <4>1. RawVerdict(r.sub, r.opts, F, err)
        BY <2>1, <3>1, VerifyRawVerdict
      <4> QED BY <2>5, <4>1 DEF RawVerdict
    <3> QED BY <3>1, <3>2, <3>3
  <2>7. Cause(r, now, err)
    <3>1. CASE err = "ErrBadSignature" /\ r.sub.sig # "good"
      BY <3>1 DEF Cause
    <3>2. CASE err = "nil"
      BY <3>2 DEF Cause
    <3>3. ASSUME NEW c \in {"domain", "not_before", "expiry", "nonce"},
                 err = ErrFor[c], Fails(r.sub, r.opts, now)[c]
          PROVE  Cause(r, now, err)
      <4>1. Cause(r, now, ErrFor[c])
        <5>1. PICK F : F = Fails(r.sub, r.opts, now) /\ F[c]
          BY <3>3
        <5>2. Shaped(r, now)
          BY <1>2 DEF CallSound
        <5>3. r.sub.parses
          BY <2>5
        <5>4. now \in Nat /\ r.start <= now
          BY <1>2
        <5>5. now <= now
          BY <5>4
        <5> QED BY <5>1, <5>2, <5>3, <5>4, <5>5, FailingCause
      <4> QED BY <3>3, <4>1
    <3> QED BY <2>6, <3>1, <3>2, <3>3
  <2>8. Checked(v, now)
    <3>1. err = "nil" => ~TooEarly(r.sub, now) /\ ~TooLate(r.sub, now)
      BY <2>6, SentinelOf
    <3>2. now \in r.start .. now
      BY <1>2
    <3> QED BY <2>3, <2>5, <3>1, <3>2, CheckedSignature
  <2>9. Routed(v)
    <3>1. r.rpc = <<>>
      BY <1>2, <2>4 DEF CallSound, Routed
    <3> QED BY <1>2, <2>3, <2>4, <3>1, RoutedDecided
  <2>10. Blamed(v)
    <3>1. err \in ClaimErrors
      BY <2>6, SentinelOf DEF ClaimErrors
    <3> QED BY <2>3, <3>1, BlamedDecided
  <2> QED BY <1>2, <2>2, <2>3, <2>4, <2>7, <2>8, <2>9, <2>10, DecisionSound
<1> QED BY <1>3, <1>4, <1>5 DEF SolanaStep

-----------------------------------------------------------------------------
(* The EVM adapter: the clock is read once, after parsing.                 *)
LEMMA EvmParseSound ==
  ASSUME NEW a \in Attempt, now \in Nat, CallSound(at[a], now), EvmParse(a)
  PROVE  \E v : CallSound(v, now) /\ Becoming(a, v)
<1>1. PICK r : r = at[a]
  OBVIOUS
<1>2. /\ CallSound(r, now) /\ DOMAIN r = AtFields /\ r.pc = "parse" /\ r.verifier.ns = "eip155"
      /\ r.start <= now
  BY <1>1 DEF CallSound, Shaped, EvmParse, Standing
<1>3. PICK err : /\ at' = [at EXCEPT ![a] = [Observed(r, "parse", err) EXCEPT !.clock = now]]
                 /\ err = IF r.sub.parses /\ r.sub.ref \notin MalformedRefs THEN "nil" ELSE "ErrMalformed"
  BY <1>1 DEF EvmParse
<1>o. PICK o : o = Observed(r, "parse", err)
  OBVIOUS
<1>4. PICK v : v = [o EXCEPT !.clock = now] /\ Becoming(a, v)
  BY <1>3, <1>o DEF Becoming
<1>5. Decides(r, v, "parse", err) /\ v.clock = now /\ v.rpc = r.rpc
  <2>1. Decides(r, o, "parse", err) /\ o.rpc = r.rpc
    BY <1>2, <1>o, ObservedDecides
  <2> QED BY <1>4, <2>1, DecidesWithClock
<1>6. r.pc \in Running \ ChainCall /\ Decided(r, "parse")
  BY <1>2 DEF Running, ChainCall, Decided
<1>7. Cause(r, now, err)
  BY <1>3 DEF Cause
<1>8. Checked(v, now)
  <2>1. err = "nil" => r.sub.parses
    BY <1>3
  <2> QED BY <1>2, <1>5, <1>6, <2>1, CheckedDecided DEF CallSound
<1>9. Routed(v)
  <2>1. r.rpc = <<>>
    BY <1>2, <1>6 DEF CallSound, Routed
  <2> QED BY <1>5, <1>6, <2>1, RoutedDecided
<1>10. Blamed(v)
  BY <1>3, <1>5, BlamedDecided DEF ClaimErrors
<1> QED BY <1>2, <1>4, <1>5, <1>6, <1>7, <1>8, <1>9, <1>10, DecisionSound

(* A timestamp that does not parse here is reported as malformed.          *)
LEMMA EvmCheckSound ==
  ASSUME NEW a \in Attempt, now \in Nat, CallSound(at[a], now),
         NEW c \in {"domain", "not_before", "expiry", "nonce"}, EvmCheck(a, c)
  PROVE  \E v : CallSound(v, now) /\ Becoming(a, v)
<1>1. PICK r : r = at[a]
  OBVIOUS
<1>2. CallSound(r, now) /\ DOMAIN r = AtFields /\ r.pc = c /\ r.verifier.ns = "eip155"
  BY <1>1 DEF CallSound, Shaped, EvmCheck, Standing
<1>3. PICK err : /\ Observe(a, c, err)
                 /\ err = IF c \in r.sub.garbled THEN "ErrMalformed"
                          ELSE IF Fails(r.sub, r.opts, r.clock)[c] THEN ErrFor[c] ELSE "nil"
  BY <1>1 DEF EvmCheck
<1>4. PICK v : v = Observed(r, c, err) /\ Becoming(a, v)
  BY <1>1, <1>3 DEF Observe, Becoming
<1>5. Decides(r, v, c, err) /\ v.clock = r.clock /\ v.rpc = r.rpc
  BY <1>2, <1>4, ObservedDecides
<1>6. r.clock \in Nat /\ r.start <= r.clock /\ r.clock <= now
  <2>1. Passed(r, 2)
    BY <1>2, PassedAt
  <2> QED BY <1>2, <2>1 DEF CallSound, Shaped, Checked
<1>7. \/ err = "nil" /\ ~Fails(r.sub, r.opts, r.clock)[c]
      \/ err = ErrFor[c] /\ Fails(r.sub, r.opts, r.clock)[c]
      \/ err = "ErrMalformed" /\ r.sub.garbled # {}
  BY <1>3
<1> QED BY <1>2, <1>4, <1>5, <1>6, <1>7, CheckSound

(* What verifySignature may return: a bad signature was indeed not good.   *)
Judged(r, err) ==
  \/ err \in {"nil", "ErrRPC", "ErrContractWalletUnsupported", "ErrContractValidationFailed"}
  \/ err = "ErrBadSignature" /\ r.sub.sig # "good"

(* A verdict about the signature: the checks before it hold of the message *)
(* at the instant the clock was read.                                      *)
LEMMA EvmVerdictSound ==
  ASSUME NEW r, NEW t \in Nat, CallSound(r, t), r.verifier.ns = "eip155",
         r.pc \in ChainCall \union {"signature"}, NEW err, NEW v,
         Decides(r, v, "signature", err), v.clock = r.clock, Routed(v), Blamed(v), Judged(r, err)
  PROVE  CallSound(v, t)
<1>1. r.pc \in Running /\ Decided(r, "signature")
  BY DEF Running, Decided
<1>2. Cause(r, t, err)
  BY DEF Cause, Judged
<1>3. Checked(v, t)
  <2>1. Passed(r, 2) /\ Passed(r, 3) /\ Passed(r, 4) /\ Passed(r, 5) /\ Passed(r, 6)
    BY PassedAt
  <2>2. /\ r.sub.parses /\ r.sub.domain = r.opts.domain /\ r.sub.nonce = r.opts.nonce
        /\ ~TooEarly(r.sub, r.clock) /\ ~TooLate(r.sub, r.clock) /\ r.start <= r.clock
    BY <2>1 DEF CallSound, Checked
  <2>3. r.clock \in r.start .. t
    <3>1. r.clock \in Nat /\ r.start \in Nat /\ r.clock <= t
      BY DEF CallSound, Shaped
    <3> QED BY <2>2, <3>1
  <2> QED BY <2>2, <2>3, CheckedSignature
<1> QED BY <1>1, <1>2, <1>3, DecisionSound

(* A call on its way to the chain, and through it.                         *)
LEMMA AskedSound ==
  ASSUME NEW r, NEW t \in Nat, CallSound(r, t), r.pc \in {"signature", "code"}, NEW pc \in ChainCall,
         NEW v, DOMAIN v = AtFields, v.pc = pc, v.sub = r.sub, v.opts = r.opts, v.start = r.start,
         v.verifier = r.verifier, v.clock = r.clock, v.trail = r.trail, v.err = r.err, Routed(v)
  PROVE  CallSound(v, t)
<1>1. r.pc \in Running /\ v.pc \in Running /\ ~Passing(v) /\ v.pc \notin Over /\ v.pc # "lookup"
  BY DEF Running, ChainCall, Over, Passing
<1>2. Shaped(v, t)
  BY <1>1 DEF CallSound, Shaped
<1>3. Emissions(v.pc) = 6 /\ Emissions(r.pc) = 6
  BY DEF Emissions, ChainCall
<1>4. Logged(v)
  BY <1>1, <1>3 DEF CallSound, Logged
<1>5. Checked(v, t)
  <2>1. Passed(r, 2) /\ Passed(r, 3) /\ Passed(r, 4) /\ Passed(r, 5) /\ Passed(r, 6)
    BY PassedAt DEF ChainCall
  <2> QED BY <1>1, <2>1 DEF CallSound, Checked
<1>6. Named(v, t) /\ Blamed(v)
  BY <1>1 DEF Named, Blamed
<1> QED BY <1>2, <1>4, <1>5, <1>6 DEF CallSound

LEMMA EvmRouteSound ==
  ASSUME NEW a \in Attempt, now \in Nat, CallSound(at[a], now), EvmRoute(a)
  PROVE  \E v : CallSound(v, now) /\ Becoming(a, v)
<1>1. PICK r : r = at[a]
  OBVIOUS
<1>2. /\ CallSound(r, now) /\ DOMAIN r = AtFields /\ r.pc = "signature" /\ r.verifier.ns = "eip155"
      /\ r.rpc = <<>> /\ Client(a) = ClientOf(r)
  BY <1>1 DEF CallSound, Shaped, EvmRoute, Standing, Routed, Running, ChainCall, Client, ClientOf
<1>3. ASSUME NEW err, Observe(a, "signature", err), Judged(r, err),
             err = "nil" => ClientOf(r) = "none" /\ r.sub.sig = "good",
             \/ err \in ClaimErrors
             \/ /\ err = "ErrContractWalletUnsupported" /\ r.sub.sig = "wrapped"
                /\ ClientOf(r) # "deployless"
      PROVE  \E v : CallSound(v, now) /\ Becoming(a, v)
  <2>1. PICK v : v = Observed(r, "signature", err) /\ Becoming(a, v)
    BY <1>1, <1>3 DEF Observe, Becoming
  <2>2. Decides(r, v, "signature", err) /\ v.clock = r.clock /\ v.rpc = r.rpc
    BY <1>2, <2>1, ObservedDecides
  <2>3. Routed(v)
    BY <1>2, <1>3, <2>2, RoutedDecided DEF Decided
  <2>4. Blamed(v)
    BY <1>2, <1>3, <2>2 DEF Decides, Blamed, ClientOf
  <2> QED BY <1>2, <1>3, <2>1, <2>2, <2>3, <2>4, EvmVerdictSound
<1>4. ASSUME NEW pc \in {"code", "deployless"}, Ask(a, pc),
             pc = "code" => Onchain(r), pc = "deployless" => Undeployed(r)
      PROVE  \E v : CallSound(v, now) /\ Becoming(a, v)
  <2>1. PICK v : v = [r EXCEPT !.pc = pc] /\ Becoming(a, v)
    BY <1>1, <1>4 DEF Ask, Becoming
  <2>2. /\ DOMAIN v = AtFields /\ v.pc = pc /\ v.sub = r.sub /\ v.opts = r.opts /\ v.start = r.start
        /\ v.verifier = r.verifier /\ v.clock = r.clock /\ v.trail = r.trail /\ v.err = r.err
        /\ v.rpc = <<>>
    BY <1>2, <2>1 DEF AtFields
  <2>3. Routed(v)
    BY <1>4, <2>2 DEF Routed, Running, ChainCall, Over, Onchain, Undeployed, ClientOf
  <2> QED BY <1>2, <2>1, <2>2, <2>3, AskedSound DEF ChainCall
<1>5. CASE r.sub.sig = "wrapped" /\ ClientOf(r) = "deployless"
  <2>1. Ask(a, "deployless") /\ Undeployed(r)
    BY <1>1, <1>2, <1>5 DEF EvmRoute, Undeployed
  <2> QED BY <1>4, <2>1
<1>6. CASE r.sub.sig = "wrapped" /\ ClientOf(r) # "deployless"
  <2>1. PICK err : Observe(a, "signature", err) /\ err = "ErrContractWalletUnsupported"
    BY <1>1, <1>2, <1>6 DEF EvmRoute
  <2>2. Judged(r, err) /\ err # "nil"
    BY <2>1 DEF Judged
  <2> QED BY <1>3, <1>6, <2>1, <2>2
<1>7. CASE r.sub.sig # "wrapped" /\ ClientOf(r) = "none"
  <2>1. PICK err : /\ Observe(a, "signature", err)
                   /\ err = IF r.sub.sig = "good" THEN "nil" ELSE "ErrBadSignature"
    BY <1>1, <1>2, <1>7 DEF EvmRoute, Recovered
  <2>2. Judged(r, err) /\ (err = "nil" => r.sub.sig = "good") /\ err \in ClaimErrors
    BY <2>1 DEF Judged, ClaimErrors
  <2> QED BY <1>3, <1>7, <2>1, <2>2
<1>8. CASE r.sub.sig # "wrapped" /\ ClientOf(r) # "none"
  <2>1. Ask(a, "code") /\ Onchain(r)
    BY <1>1, <1>2, <1>8 DEF EvmRoute, Onchain
  <2> QED BY <1>4, <2>1
<1> QED BY <1>5, <1>6, <1>7, <1>8

(* What the node may answer to each chain call, and the verdict it means.  *)
Replied(r, answer, err) ==
  /\ Judged(r, err) /\ err # "ErrContractWalletUnsupported"
  /\ err = "ErrRPC" => answer = "error"
  /\ err = "ErrContractValidationFailed" => answer \in {"other", "invalid"}
  /\ \/ r.pc = "code" /\ answer \in {"error", "no code"}
          /\ (err = "nil" => answer = "no code" /\ r.sub.sig = "good")
     \/ r.pc = "call" /\ answer \in {"error", "magic", "other"} /\ (err = "nil" => answer = "magic")
     \/ r.pc = "deployless" /\ answer \in {"error", "valid", "invalid"} /\ (err = "nil" => answer = "valid")

LEMMA OneMore == ASSUME NEW x, NEW y PROVE Append(<<>>, x) = <<x>> /\ Append(<<x>>, y) = <<x, y>>
<1>1. <<>> \in Seq({x, y}) /\ <<x>> \in Seq({x, y}) /\ <<x, y>> \in Seq({x, y})
  OBVIOUS
<1>2. Append(<<>>, x) = <<x>>
  <2>1. /\ Append(<<>>, x) \in Seq({x, y}) /\ Len(Append(<<>>, x)) = 1
        /\ Append(<<>>, x)[1] = x /\ Len(<<x>>) = 1 /\ <<x>>[1] = x
    BY <1>1
  <2>2. \A i \in 1 .. Len(Append(<<>>, x)) : Append(<<>>, x)[i] = <<x>>[i]
    BY <2>1
  <2> QED BY <1>1, <2>1, <2>2, SeqEqual, Zenon
<1>3. Append(<<x>>, y) = <<x, y>>
  <2>1. /\ Append(<<x>>, y) \in Seq({x, y}) /\ Len(Append(<<x>>, y)) = 2
        /\ Append(<<x>>, y)[1] = x /\ Append(<<x>>, y)[2] = y
        /\ Len(<<x, y>>) = 2 /\ <<x, y>>[1] = x /\ <<x, y>>[2] = y
    BY <1>1
  <2>2. \A i \in 1 .. Len(Append(<<x>>, y)) : Append(<<x>>, y)[i] = <<x, y>>[i]
    BY <2>1
  <2>3. Len(Append(<<x>>, y)) = Len(<<x, y>>)
    BY <2>1
  <2> QED BY <1>1, <2>1, <2>2, <2>3, SeqEqual, Zenon
<1> QED BY <1>2, <1>3

(* A chain call answered: o is the call with the event of the signature    *)
(* stage, v has the answer added to the chain calls made.                  *)
LEMMA AnsweredSound ==
  ASSUME NEW a \in Attempt, now \in Nat, CallSound(at[a], now), at[a].verifier.ns = "eip155",
         NEW answer, NEW err, Answered(a, answer, err), Replied(at[a], answer, err)
  PROVE  \E v : CallSound(v, now) /\ Becoming(a, v)
<1>r. PICK r : r = at[a]
  OBVIOUS
<1>s. CallSound(r, now) /\ r.verifier.ns = "eip155" /\ Replied(r, answer, err) /\ Judged(r, err)
  BY <1>r DEF Replied
<1>p. r.pc \in ChainCall
  BY <1>s DEF Replied, ChainCall
<1>c. PICK calls : calls = Append(r.rpc, <<r.pc, answer>>)
  OBVIOUS
<1>1. DOMAIN r = AtFields /\ Routed(r)
  BY <1>s DEF CallSound, Shaped
<1>2. PICK o : o = Observed(r, "signature", err)
  OBVIOUS
<1>3. Decides(r, o, "signature", err) /\ o.clock = r.clock /\ o.rpc = r.rpc
  BY <1>1, <1>2, ObservedDecides
<1>4. PICK v : v = [o EXCEPT !.rpc = calls] /\ Becoming(a, v)
  BY <1>r, <1>c, <1>2 DEF Answered, Becoming
<1>5. Decides(r, v, "signature", err) /\ v.clock = r.clock /\ v.rpc = calls
  BY <1>3, <1>4, DecidesWithCalls
<1>6. /\ v.pc = "result" /\ v.err = err /\ v.sub = r.sub /\ v.verifier = r.verifier
      /\ Onchain(v) <=> Onchain(r)
      /\ Undeployed(v) <=> Undeployed(r)
  BY <1>5, NextStage DEF Decides, Onchain, Undeployed, ClientOf
<1>7. Routed(v)
  <2>1. CASE r.pc = "code"
    <3>1. v.rpc = << <<"code", answer>> >> /\ Onchain(v)
      BY <1>c, <1>1, <1>5, <1>6, <2>1, OneMore DEF Routed
    <3>2. /\ answer \in {"error", "no code"}
          /\ v.err = "nil" => answer = "no code" /\ v.sub.sig = "good"
      BY <1>s, <1>6, <2>1 DEF Replied
    <3> QED BY <1>6, <3>1, <3>2 DEF Routed, Running, ChainCall
  <2>2. CASE r.pc = "call"
    <3>1. v.rpc = << <<"code", "code">>, <<"call", answer>> >> /\ Onchain(v)
      BY <1>c, <1>1, <1>5, <1>6, <2>2, OneMore DEF Routed
    <3>2. answer \in {"error", "magic", "other"} /\ (v.err = "nil" => answer = "magic")
      BY <1>s, <1>6, <2>2 DEF Replied
    <3> QED BY <1>6, <3>1, <3>2 DEF Routed, Running, ChainCall
  <2>3. CASE r.pc = "deployless"
    <3>1. v.rpc = << <<"deployless", answer>> >> /\ Undeployed(v)
      BY <1>c, <1>1, <1>5, <1>6, <2>3, OneMore DEF Routed
    <3>2. answer \in {"error", "valid", "invalid"} /\ (v.err = "nil" => answer = "valid")
      BY <1>s, <1>6, <2>3 DEF Replied
    <3> QED BY <1>6, <3>1, <3>2 DEF Routed, Running, ChainCall
  <2> QED BY <1>p, <2>1, <2>2, <2>3 DEF ChainCall
<1>8. \E i \in DOMAIN v.rpc : v.rpc[i][2] = answer
  <2>1. CASE r.pc \in {"code", "deployless"}
    <3>1. v.rpc = << <<r.pc, answer>> >>
      BY <1>c, <1>1, <1>5, <2>1, OneMore DEF Routed
    <3>2. 1 \in DOMAIN v.rpc /\ v.rpc[1][2] = answer
      BY <3>1
    <3> QED BY <3>2
  <2>2. CASE r.pc = "call"
    <3>1. v.rpc = << <<"code", "code">>, <<"call", answer>> >>
      BY <1>c, <1>1, <1>5, <2>2, OneMore DEF Routed
    <3>2. 2 \in DOMAIN v.rpc /\ v.rpc[2][2] = answer
      BY <3>1
    <3> QED BY <3>2
  <2> QED BY <1>p, <2>1, <2>2 DEF ChainCall
<1>9. Blamed(v)
  BY <1>s, <1>6, <1>8 DEF Replied, Judged, Blamed, ClaimErrors, Heard
<1> QED BY <1>s, <1>p, <1>4, <1>5, <1>7, <1>9, EvmVerdictSound

LEMMA EvmChainSound ==
  ASSUME NEW a \in Attempt, now \in Nat, CallSound(at[a], now), EvmChainStep(a)
  PROVE  \E v : CallSound(v, now) /\ Becoming(a, v)
<1>1. PICK r : r = at[a]
  OBVIOUS
<1>2. CallSound(r, now) /\ DOMAIN r = AtFields /\ r.pc \in ChainCall /\ r.verifier.ns = "eip155"
  BY <1>1 DEF CallSound, Shaped, EvmChainStep, EvmCodeAt, EvmCall, EvmDeployless, Standing, ChainCall
<1>3. CASE /\ EvmCodeAt(a)
           /\ at' = [at EXCEPT ![a] = [at[a] EXCEPT !.pc = "call",
                                                   !.rpc = Append(at[a].rpc, <<"code", "code">>)]]
  <2> DEFINE calls == Append(r.rpc, <<"code", "code">>)
  <2>1. r.pc = "code" /\ r.rpc = <<>> /\ Onchain(r)
    BY <1>1, <1>2, <1>3 DEF EvmCodeAt, Standing, CallSound, Routed
  <2>2. PICK v : v = [r EXCEPT !.pc = "call", !.rpc = calls] /\ Becoming(a, v)
    BY <1>1, <1>3 DEF Becoming
  <2>3. /\ DOMAIN v = AtFields /\ v.pc = "call" /\ v.sub = r.sub /\ v.opts = r.opts /\ v.start = r.start
        /\ v.verifier = r.verifier /\ v.clock = r.clock /\ v.trail = r.trail /\ v.err = r.err
        /\ v.rpc = calls
    BY <1>2, <2>2 DEF AtFields
  <2>4. v.rpc = << <<"code", "code">> >> /\ Onchain(v)
    BY <2>1, <2>3 DEF Onchain, ClientOf
  <2>5. Routed(v)
    BY <2>3, <2>4 DEF Routed, Running, ChainCall, Over
  <2> QED BY <1>2, <2>1, <2>2, <2>3, <2>5, AskedSound DEF ChainCall
<1>4. ASSUME NEW answer, NEW err, Answered(a, answer, err), Replied(r, answer, err)
      PROVE  \E v : CallSound(v, now) /\ Becoming(a, v)
  BY <1>1, <1>2, <1>4, AnsweredSound
<1>5. CASE /\ EvmCodeAt(a)
           /\ Answered(a, "error", "ErrRPC") \/ Answered(a, "no code", Recovered(a))
  <2>1. r.pc = "code"
    BY <1>1, <1>5 DEF EvmCodeAt, Standing
  <2>2. PICK answer, err : /\ Answered(a, answer, err) /\ answer \in {"error", "no code"}
                           /\ \/ answer = "error" /\ err = "ErrRPC"
                              \/ answer = "no code" /\ err = Recovered(a)
    BY <1>5
  <2>3. Replied(r, answer, err)
    BY <1>1, <2>1, <2>2 DEF Replied, Judged, Recovered
  <2> QED BY <1>4, <2>2, <2>3
<1>6. CASE EvmCall(a)
  <2>1. r.pc = "call"
    BY <1>1, <1>6 DEF EvmCall, Standing
  <2>2. PICK answer, err : /\ Answered(a, answer, err) /\ answer \in {"error", "magic", "other"}
                           /\ err \in {"nil", "ErrRPC", "ErrContractValidationFailed"}
                           /\ err = "nil" => answer = "magic"
                           /\ err = "ErrRPC" => answer = "error"
                           /\ err = "ErrContractValidationFailed" => answer = "other"
    BY <1>6 DEF EvmCall
  <2>3. Replied(r, answer, err)
    BY <2>1, <2>2 DEF Replied, Judged
  <2> QED BY <1>4, <2>2, <2>3
<1>7. CASE EvmDeployless(a)
  <2>1. r.pc = "deployless"
    BY <1>1, <1>7 DEF EvmDeployless, Standing
  <2>2. PICK answer, err : /\ Answered(a, answer, err) /\ answer \in {"error", "valid", "invalid"}
                           /\ err \in {"nil", "ErrRPC", "ErrContractValidationFailed"}
                           /\ err = "nil" => answer = "valid"
                           /\ err = "ErrRPC" => answer = "error"
                           /\ err = "ErrContractValidationFailed" => answer = "invalid"
    BY <1>7 DEF EvmDeployless
  <2>3. Replied(r, answer, err)
    BY <2>1, <2>2 DEF Replied, Judged
  <2> QED BY <1>4, <2>2, <2>3
<1> QED BY <1>3, <1>5, <1>6, <1>7 DEF EvmChainStep, EvmCodeAt
-----------------------------------------------------------------------------
(* The steps of VerifierRegistry.Verify around its verifier.               *)
LEMMA BeginSound ==
  ASSUME NEW a \in Attempt, now \in Nat, NEW ns, NEW m, Parsed(m), NEW o, Begin(a, ns, m, o)
  PROVE  \E v : CallSound(v, now) /\ Becoming(a, v) /\ v.sub = m /\ v.pc = "lookup"
<1>0. PICK e : e = [name |-> "attempt", ok |-> TRUE]
  OBVIOUS
<1>1. PICK v : /\ v = [pc |-> "lookup", ns |-> ns, sub |-> m, opts |-> o, start |-> now,
                       verifier |-> [ns |-> ""], clock |-> 0, rpc |-> <<>>, trail |-> <<e>>,
                       err |-> "nil"]
               /\ Becoming(a, v)
  BY <1>0 DEF Begin, Becoming
<1>2. /\ DOMAIN v = AtFields /\ v.pc = "lookup" /\ v.sub = m /\ v.start = now /\ v.verifier.ns = ""
      /\ v.clock = 0 /\ v.rpc = <<>> /\ v.trail = <<e>> /\ v.err = "nil"
  BY <1>1 DEF AtFields
<1>3. Shaped(v, now)
  <2>2. v.pc \in Running
    BY <1>2 DEF Running
  <2>3. now <= now /\ 0 <= now /\ 0 \in Nat
    OBVIOUS
  <2> QED BY <1>2, <2>2, <2>3 DEF Shaped
<1>4. Logged(v)
  <2>1. e \in Event /\ Emissions("lookup") = 1
    BY <1>0 DEF Event, StageName, Emissions
  <2>2. v.trail \in Seq(Event) /\ Len(v.trail) = 1 /\ v.trail[1] = e
    <3>1. <<e>> \in Seq(Event) /\ Len(<<e>>) = 1 /\ <<e>>[1] = e
      BY <2>1
    <3> QED BY <1>2, <3>1
  <2>3. e = [name |-> Stages[1], ok |-> 1 < 1 \/ TRUE]
    BY <1>0, NextStage
  <2>4. Prefix(v.trail, 1, TRUE)
    BY <2>2, <2>3 DEF Prefix
  <2> QED BY <1>2, <2>1, <2>2, <2>4 DEF Logged, Running, Over, ChainCall
<1>5. ~Passing(v) /\ ~Passed(v, 2) /\ ~Passed(v, 3) /\ ~Passed(v, 4) /\ ~Passed(v, 5) /\ ~Passed(v, 6)
  BY <1>2, PassedAt DEF Passing, Over
<1>6. Checked(v, now) /\ Named(v, now)
  BY <1>2, <1>5 DEF Checked, Named, Over
<1>7. Routed(v) /\ Blamed(v)
  BY <1>2 DEF Routed, Blamed, Over, ChainCall
<1> QED BY <1>1, <1>2, <1>3, <1>4, <1>6, <1>7 DEF CallSound

LEMMA LookupSound ==
  ASSUME NEW a \in Attempt, now \in Nat, CallSound(at[a], now), Lookup(a)
  PROVE  \E v : CallSound(v, now) /\ Becoming(a, v)
<1>1. PICK r : r = at[a]
  OBVIOUS
<1>2. /\ DOMAIN r = AtFields /\ r.pc = "lookup" /\ r.err = "nil" /\ r.rpc = <<>> /\ r.verifier.ns = ""
      /\ r.trail \in Seq(Event) /\ Len(r.trail) = 1 /\ Prefix(r.trail, 1, TRUE)
  BY <1>1 DEF Lookup, CallSound, Shaped, Logged, Routed, Running, ChainCall, Emissions
<1>s. Shaped(r, now)
  BY <1>1 DEF CallSound
<1>3. CASE at[a].ns \in DOMAIN verifiers
  <2>1. PICK v : v = [r EXCEPT !.verifier = verifiers[r.ns], !.pc = "parse"] /\ Becoming(a, v)
    BY <1>1, <1>3 DEF Lookup, Becoming
  <2>2. /\ DOMAIN v = AtFields /\ v.pc = "parse" /\ v.sub = r.sub /\ v.start = r.start
        /\ v.clock = r.clock /\ v.rpc = r.rpc /\ v.trail = r.trail /\ v.err = r.err
    BY <1>2, <2>1 DEF AtFields
  <2>3. Shaped(v, now)
    BY <1>s, <2>2 DEF Shaped, Running
  <2>4. Logged(v)
    BY <1>2, <2>2 DEF Logged, Running, Over, ChainCall, Emissions
  <2>5. ~Passing(v) /\ ~Passed(v, 2) /\ ~Passed(v, 3) /\ ~Passed(v, 4) /\ ~Passed(v, 5) /\ ~Passed(v, 6)
    BY <2>2, PassedAt DEF Passing, Over
  <2>6. Checked(v, now) /\ Named(v, now) /\ Routed(v) /\ Blamed(v)
    BY <1>2, <2>2, <2>5 DEF Checked, Named, Routed, Blamed, Over, ChainCall
  <2> QED BY <2>1, <2>3, <2>4, <2>6 DEF CallSound
<1>4. CASE at[a].ns \notin DOMAIN verifiers
  <2>1. PICK v : v = [r EXCEPT !.err = "ErrUnsupportedNamespace", !.pc = "result"] /\ Becoming(a, v)
    BY <1>1, <1>4 DEF Lookup, Becoming
  <2>2. /\ DOMAIN v = AtFields /\ v.pc = "result" /\ v.sub = r.sub /\ v.start = r.start
        /\ v.clock = r.clock /\ v.rpc = r.rpc /\ v.trail = r.trail /\ v.verifier = r.verifier
        /\ v.err = "ErrUnsupportedNamespace"
    BY <1>2, <2>1 DEF AtFields
  <2>3. Shaped(v, now)
    BY <1>s, <2>2 DEF Shaped, Over
  <2>4. Logged(v)
    <3>1. 1 \in 1 .. 7 /\ TRUE \in BOOLEAN /\ ~(1 = 7 /\ TRUE)
      OBVIOUS
    <3>2. v.pc \notin Running /\ v.pc # "done" /\ v.err # "nil"
      BY <2>2 DEF Running, ChainCall
    <3>3. v.trail \in Seq(Event) /\ Len(v.trail) = 1 /\ Prefix(v.trail, 1, TRUE)
      BY <1>2, <2>2
    <3>4. \E k \in 1 .. 7, ok \in BOOLEAN :
            /\ Len(v.trail) = IF v.pc = "done" THEN k + 1 ELSE k
            /\ Prefix(v.trail, k, ok)
            /\ v.err = "nil" <=> k = 7 /\ ok
            /\ v.pc = "done" => v.trail[k + 1] = [name |-> "result", ok |-> v.err = "nil"]
      <4> WITNESS 1 \in 1 .. 7, TRUE \in BOOLEAN
      <4> QED BY <3>1, <3>2, <3>3
    <3> QED BY <3>2, <3>3, <3>4 DEF Logged
  <2>5. ~Passing(v) /\ ~Passed(v, 2) /\ ~Passed(v, 3) /\ ~Passed(v, 4) /\ ~Passed(v, 5) /\ ~Passed(v, 6)
    BY <2>2, PassedAt DEF Passing, Over
  <2>6. Checked(v, now) /\ Named(v, now) /\ Routed(v) /\ Blamed(v)
    BY <1>2, <2>2, <2>5 DEF Checked, Named, Cause, Routed, Blamed, ClaimErrors, Running, ChainCall
  <2> QED BY <2>1, <2>3, <2>4, <2>6 DEF CallSound
<1> QED BY <1>3, <1>4

LEMMA FinishSound ==
  ASSUME NEW a \in Attempt, now \in Nat, CallSound(at[a], now), Finish(a)
  PROVE  \E v : CallSound(v, now) /\ Becoming(a, v)
<1>1. PICK r : r = at[a]
  OBVIOUS
<1>2. PICK e : e = [name |-> "result", ok |-> r.err = "nil"]
  OBVIOUS
<1>3. PICK trail : trail = Append(r.trail, e)
  OBVIOUS
<1>4. PICK v : v = [r EXCEPT !.trail = trail, !.pc = "done"] /\ Becoming(a, v)
  BY <1>1, <1>2, <1>3 DEF Finish, Becoming
<1>5. DOMAIN r = AtFields /\ r.pc = "result" /\ CallSound(r, now)
  BY <1>1 DEF Finish, CallSound, Shaped
<1>6. /\ DOMAIN v = AtFields /\ v.pc = "done" /\ v.sub = r.sub /\ v.start = r.start /\ v.opts = r.opts
      /\ v.clock = r.clock /\ v.rpc = r.rpc /\ v.trail = trail /\ v.verifier = r.verifier
      /\ v.err = r.err
  BY <1>4, <1>5 DEF AtFields
<1>7. PICK k \in 1 .. 7, ok \in BOOLEAN :
        Len(r.trail) = k /\ Prefix(r.trail, k, ok) /\ (r.err = "nil" <=> k = 7 /\ ok)
  BY <1>5 DEF CallSound, Logged, Over
<1>8. e \in Event /\ r.trail \in Seq(Event)
  BY <1>2, <1>5 DEF Event, StageName, CallSound, Logged
<1>9. /\ v.trail \in Seq(Event) /\ Len(v.trail) = k + 1 /\ v.trail[k + 1] = e
      /\ \A i \in 1 .. k : v.trail[i] = r.trail[i]
  BY <1>3, <1>6, <1>7, <1>8
<1>10. Logged(v)
  <2>1. Prefix(v.trail, k, ok)
    BY <1>7, <1>9 DEF Prefix
  <2> QED BY <1>2, <1>6, <1>7, <1>9, <2>1 DEF Logged, Running, ChainCall
<1>11. ~Passed(v, 2) /\ ~Passed(v, 3) /\ ~Passed(v, 4) /\ ~Passed(v, 5) /\ ~Passed(v, 6)
  BY <1>6, PassedAt DEF Over
<1>12. Shaped(v, now)
  BY <1>5, <1>6 DEF CallSound, Shaped, Over
<1>13. Checked(v, now)
  BY <1>5, <1>6, <1>11 DEF CallSound, Checked, Passing, Over
<1>14. Named(v, now)
  BY <1>5, <1>6 DEF CallSound, Named, Cause, Over
<1>15. Routed(v)
  <2>1. ClientOf(v) = ClientOf(r) /\ (Onchain(v) <=> Onchain(r)) /\ (Undeployed(v) <=> Undeployed(r))
    BY <1>6 DEF ClientOf, Onchain, Undeployed
  <2>2. Routed(r) /\ r.pc \in Over
    BY <1>5 DEF CallSound, Over
  <2> QED BY <1>6, <2>1, <2>2 DEF Routed, Running, ChainCall, Over
<1>16. Blamed(v)
  BY <1>5, <1>6 DEF CallSound, Blamed, Heard, ClientOf, Over
<1> QED BY <1>4, <1>10, <1>12, <1>13, <1>14, <1>15, <1>16 DEF CallSound

(* Every step of a call keeps it sound, at the instant it is taken. *)
LEMMA AttemptSound ==
  ASSUME NEW a \in Attempt, now \in Nat, CallSound(at[a], now), AttemptStep(a)
  PROVE  \E v : CallSound(v, now) /\ Becoming(a, v)
<1>1. CASE Lookup(a)
  BY <1>1, LookupSound
<1>2. CASE SolanaStep(a)
  BY <1>2, SolanaSound
<1>3. CASE EvmParse(a)
  BY <1>3, EvmParseSound
<1>4. CASE \E c \in {"domain", "not_before", "expiry", "nonce"} : EvmCheck(a, c)
  BY <1>4, EvmCheckSound
<1>5. CASE EvmRoute(a)
  BY <1>5, EvmRouteSound
<1>6. CASE EvmChainStep(a)
  BY <1>6, EvmChainSound
<1>7. CASE Finish(a)
  BY <1>7, FinishSound
<1> QED BY <1>1, <1>2, <1>3, <1>4, <1>5, <1>6, <1>7 DEF AttemptStep, LocalStep, EvmLocalStep

(* What a step makes of the record r of a call: a stage decided, with its  *)
(* event; a move without one; or the result reported.                      *)
Decision(r, v) == \E stage, err : Decided(r, stage) /\ Decides(r, v, stage, err)

Silent(r, v) ==
  /\ v.sub = r.sub /\ v.trail = r.trail /\ r.pc \in Running
  /\ \/ v.pc \in Running
     \/ v.pc = "result" /\ v.err # "nil"

Report(r, v) ==
  /\ r.pc = "result" /\ v.pc = "done" /\ v.sub = r.sub /\ v.err = r.err
  /\ v.trail = Append(r.trail, [name |-> "result", ok |-> r.err = "nil"])

Continues(r, v) == Decision(r, v) \/ Silent(r, v) \/ Report(r, v)

LEMMA StepContinues ==
  ASSUME NEW a \in Attempt, DOMAIN at = Attempt, DOMAIN at[a] = AtFields, AttemptStep(a)
  PROVE  Continues(at[a], at'[a])
<1>1. ASSUME NEW v, Becoming(a, v), Continues(at[a], v) PROVE Continues(at[a], at'[a])
  <2>1. at'[a] = v
    BY <1>1 DEF Becoming
  <2> QED BY <1>1, <2>1
<1>2. PICK r : r = at[a] /\ DOMAIN r = AtFields
  OBVIOUS
<1>3. ASSUME NEW v, NEW stage, NEW err, Becoming(a, v), Decides(r, v, stage, err), Decided(r, stage)
      PROVE  Continues(at[a], at'[a])
  BY <1>1, <1>2, <1>3 DEF Continues, Decision
<1>4. ASSUME NEW stage, NEW err, Observe(a, stage, err), Decided(r, stage)
      PROVE  Continues(at[a], at'[a])
  <2>1. PICK v : v = Observed(r, stage, err) /\ Becoming(a, v)
    BY <1>2, <1>4 DEF Observe, Becoming
  <2>2. Decides(r, v, stage, err)
    BY <1>2, <2>1, ObservedDecides
  <2> QED BY <1>3, <1>4, <2>1, <2>2
<1>5. CASE SolanaStep(a) \/ \E c \in {"domain", "not_before", "expiry", "nonce"} : EvmCheck(a, c)
  BY <1>2, <1>4, <1>5
     DEF SolanaStep, SolanaParse, SolanaCheck, SolanaSignature, EvmCheck, Standing, Decided
<1>6. CASE EvmParse(a)
  <2>1. PICK err : at' = [at EXCEPT ![a] = [Observed(at[a], "parse", err) EXCEPT !.clock = now]]
    BY <1>6 DEF EvmParse
  <2>2. PICK o : o = Observed(r, "parse", err)
    OBVIOUS
  <2>3. Decides(r, o, "parse", err)
    BY <1>2, <2>2, ObservedDecides
  <2>4. PICK v : v = [o EXCEPT !.clock = now] /\ Becoming(a, v)
    BY <1>2, <2>1, <2>2 DEF Becoming
  <2>5. Decides(r, v, "parse", err)
    BY <2>3, <2>4, DecidesWithClock
  <2>6. Decided(r, "parse")
    BY <1>2, <1>6 DEF EvmParse, Standing, Decided
  <2> QED BY <1>3, <2>4, <2>5, <2>6
<1>7. ASSUME NEW pc \in ChainCall, Ask(a, pc), r.pc = "signature" PROVE Continues(at[a], at'[a])
  <2>1. PICK v : v = [r EXCEPT !.pc = pc] /\ Becoming(a, v)
    BY <1>2, <1>7 DEF Ask, Becoming
  <2>2. v.sub = r.sub /\ v.trail = r.trail /\ v.pc = pc
    BY <1>2, <2>1 DEF AtFields
  <2> QED BY <1>1, <1>2, <1>7, <2>1, <2>2 DEF Continues, Silent, Running
<1>8. CASE EvmRoute(a)
  <2>1. r.pc = "signature" /\ Decided(r, "signature")
    BY <1>2, <1>8 DEF EvmRoute, Standing, Decided
  <2> QED BY <1>4, <1>7, <1>8, <2>1 DEF EvmRoute, ChainCall
<1>9. ASSUME NEW answer, NEW err, Answered(a, answer, err), r.pc \in ChainCall
      PROVE  Continues(at[a], at'[a])
  <2>1. PICK o : o = Observed(r, "signature", err)
    OBVIOUS
  <2>2. PICK calls : calls = Append(r.rpc, <<r.pc, answer>>)
    OBVIOUS
  <2>3. PICK v : v = [o EXCEPT !.rpc = calls] /\ Becoming(a, v)
    BY <1>2, <1>9, <2>1, <2>2 DEF Answered, Becoming
  <2>4. Decides(r, o, "signature", err)
    BY <1>2, <2>1, ObservedDecides
  <2>5. Decides(r, v, "signature", err) /\ Decided(r, "signature")
    BY <1>9, <2>3, <2>4, DecidesWithCalls DEF Decided
  <2> QED BY <1>3, <2>3, <2>5
<1>10. CASE EvmChainStep(a)
  <2>0. r.pc \in ChainCall
    BY <1>2, <1>10 DEF EvmChainStep, EvmCodeAt, EvmCall, EvmDeployless, Standing, ChainCall
  <2>1. CASE at' = [at EXCEPT ![a] = [at[a] EXCEPT !.pc = "call",
                                                  !.rpc = Append(at[a].rpc, <<"code", "code">>)]]
    <3>1. PICK calls : calls = Append(r.rpc, <<"code", "code">>)
      OBVIOUS
    <3>2. PICK v : v = [r EXCEPT !.pc = "call", !.rpc = calls] /\ Becoming(a, v)
      BY <1>2, <2>1, <3>1 DEF Becoming
    <3>3. v.sub = r.sub /\ v.trail = r.trail /\ v.pc = "call"
      BY <1>2, <3>2 DEF AtFields
    <3> QED BY <1>1, <1>2, <2>0, <3>2, <3>3 DEF Continues, Silent, Running, ChainCall
  <2> QED BY <1>9, <1>10, <2>0, <2>1 DEF EvmChainStep, EvmCodeAt, EvmCall, EvmDeployless
<1>11. CASE Lookup(a)
  <2>1. PICK v : /\ Becoming(a, v)
                 /\ \/ v = [r EXCEPT !.verifier = verifiers[r.ns], !.pc = "parse"]
                    \/ v = [r EXCEPT !.err = "ErrUnsupportedNamespace", !.pc = "result"]
    BY <1>2, <1>11 DEF Lookup, Becoming
  <2>2. /\ v.sub = r.sub /\ v.trail = r.trail
        /\ v.pc = "parse" \/ (v.pc = "result" /\ v.err = "ErrUnsupportedNamespace")
    BY <1>2, <2>1 DEF AtFields
  <2>3. r.pc = "lookup"
    BY <1>2, <1>11 DEF Lookup
  <2> QED BY <1>1, <1>2, <2>1, <2>2, <2>3 DEF Continues, Silent, Running
<1>12. CASE Finish(a)
  <2>1. PICK e : e = [name |-> "result", ok |-> r.err = "nil"]
    OBVIOUS
  <2>2. PICK trail : trail = Append(r.trail, e)
    OBVIOUS
  <2>3. PICK v : v = [r EXCEPT !.trail = trail, !.pc = "done"] /\ Becoming(a, v)
    BY <1>2, <1>12, <2>1, <2>2 DEF Finish, Becoming
  <2>4. v.sub = r.sub /\ v.pc = "done" /\ v.err = r.err /\ v.trail = trail /\ r.pc = "result"
    BY <1>2, <1>12, <2>3 DEF AtFields, Finish
  <2>5. Report(r, v)
    BY <2>1, <2>2, <2>4 DEF Report
  <2> QED BY <1>1, <1>2, <2>3, <2>5 DEF Continues
<1> QED BY <1>5, <1>6, <1>8, <1>10, <1>11, <1>12 DEF AttemptStep, LocalStep, EvmLocalStep

(* What is true of a call stays true as time passes. *)
LEMMA SoundLater ==
  ASSUME NEW r, NEW t \in Nat, NEW u \in Nat, t <= u, CallSound(r, t)
  PROVE  CallSound(r, u)
<1>1. Shaped(r, u)
  <2>1. Shaped(r, t)
    BY DEF CallSound
  <2>2. r.start <= u /\ r.clock <= u
    <3>1. r.start \in Nat /\ r.start <= t /\ r.clock \in Nat /\ r.clock <= t
      BY <2>1 DEF Shaped
    <3> QED BY <3>1
  <2> QED BY <2>1, <2>2 DEF Shaped
<1>2. r.start \in Nat /\ r.start <= t /\ r.sub.exp \subseteq Nat
  BY DEF CallSound, Shaped, Parsed
<1>3. Checked(r, u)
  <2>1. \A s \in r.start .. t : s \in r.start .. u
    BY <1>2
  <2> QED BY <2>1 DEF CallSound, Checked
<1>4. Named(r, u)
  <2>1. TooLate(r.sub, t) => TooLate(r.sub, u)
    BY <1>2 DEF TooLate
  <2> QED BY <2>1 DEF CallSound, Named, Cause
<1> QED BY <1>1, <1>3, <1>4 DEF CallSound

-----------------------------------------------------------------------------
(* One call is made or goes on, or time passes. *)
LEMMA CallsSoundStep ==
  ASSUME CallsSound, NEW a \in Attempt, now' = now, NEW v, CallSound(v, now), Becoming(a, v)
  PROVE  CallsSound' /\ at'[a] = v /\ \A b \in Attempt \ {a} : at'[b] = at[b]
<1>1. DOMAIN at' = Attempt /\ at'[a] = v /\ \A b \in Attempt \ {a} : at'[b] = at[b]
  BY DEF CallsSound, Becoming
<1> QED BY <1>1 DEF CallsSound

LEMMA CallsSoundTick ==
  ASSUME CallsSound, Tick, at' = at
  PROVE  CallsSound'
<1>1. now' = now + 1 /\ now \in Nat
  BY DEF Tick, CallsSound
<1>2. now' \in Nat /\ \A r : CallSound(r, now) => CallSound(r, now')
  BY <1>1, SoundLater
<1> QED BY <1>2 DEF CallsSound

(* A call that takes a step was made, and is sound. *)
LEMMA StepOfSound ==
  ASSUME CallsSound, NEW a \in Attempt, AttemptStep(a)
  PROVE  at[a] # Idle /\ CallSound(at[a], now) /\ DOMAIN at[a] = AtFields
<1>1. at[a].pc # "idle"
  BY DEF AttemptStep, LocalStep, Lookup, SolanaStep, SolanaParse, SolanaCheck, SolanaSignature,
         EvmLocalStep, EvmParse, EvmCheck, EvmRoute, EvmChainStep, EvmCodeAt, EvmCall,
         EvmDeployless, Finish, Standing
<1>2. at[a] # Idle
  BY <1>1 DEF Idle
<1>3. CallSound(at[a], now)
  BY <1>2 DEF CallsSound
<1> QED BY <1>2, <1>3 DEF CallSound, Shaped

LEMMA RegistryInvInit == RegistryInit => RegistryInv
<1> SUFFICES ASSUME RegistryInit PROVE RegistryInv
  OBVIOUS
<1>1. now \in Nat /\ DOMAIN at = Attempt /\ \A a \in Attempt : at[a] = Idle
  BY DEF RegistryInit, ProcessInit, VerificationInit
<1>2. PICK V \in SUBSET Verifiers :
        verifiers = [ns \in {v.ns : v \in V} |-> CHOOSE v \in V : v.ns = ns]
  BY DEF RegistryInit
<1>3. ASSUME NEW ns \in DOMAIN verifiers PROVE verifiers[ns] \in Verifiers /\ verifiers[ns].ns = ns
  <2>1. ns \in {v.ns : v \in V} /\ verifiers[ns] = CHOOSE v \in V : v.ns = ns
    BY <1>2, <1>3
  <2>2. \E v \in V : v.ns = ns
    BY <2>1
  <2>3. (CHOOSE v \in V : v.ns = ns) \in V /\ (CHOOSE v \in V : v.ns = ns).ns = ns
    BY <2>2
  <2> QED BY <1>2, <2>1, <2>3
<1> QED BY <1>1, <1>3 DEF CallsSound, RegistryInv

LEMMA RegistryInvNext == RegistryInv /\ [RegistryNext]_registryVars => RegistryInv'
<1> SUFFICES ASSUME RegistryInv, [RegistryNext]_registryVars PROVE RegistryInv'
  OBVIOUS
<1>0. CallsSound /\ now \in Nat /\ DOMAIN at = Attempt
  BY DEF CallsSound, RegistryInv
<1>1. ASSUME NEW a \in Attempt, UNCHANGED <<process, verifiers>>,
             NEW v, CallSound(v, now), Becoming(a, v), v.sub \in Submissions
      PROVE  RegistryInv'
  <2>1. now' = now /\ verifiers' = verifiers
    BY <1>1 DEF process
  <2>2. CallsSound' /\ at'[a] = v /\ \A b \in Attempt \ {a} : at'[b] = at[b]
    BY <1>0, <1>1, <2>1, CallsSoundStep
  <2> QED BY <1>1, <2>1, <2>2 DEF RegistryInv
<1>2. ASSUME NEW a \in Attempt, UNCHANGED <<process, verifiers>>,
             \E ns \in Namespace, m \in Submissions, o \in Expectations : Begin(a, ns, m, o)
      PROVE  RegistryInv'
  <2>1. PICK ns \in Namespace, m \in Submissions, o \in Expectations : Begin(a, ns, m, o)
    BY <1>2
  <2>2. Parsed(m)
    BY SubmissionAssumption, ParsedAssumption DEF Parsed, SubmissionType
  <2> QED BY <1>0, <1>1, <1>2, <2>1, <2>2, BeginSound
<1>3. ASSUME NEW a \in Attempt, UNCHANGED <<process, verifiers>>, AttemptStep(a)
      PROVE  RegistryInv'
  <2>1. at[a] # Idle /\ CallSound(at[a], now) /\ DOMAIN at[a] = AtFields
    BY <1>0, <1>3, StepOfSound
  <2>2. at'[a].sub = at[a].sub /\ at[a].sub \in Submissions
    BY <1>0, <1>3, <2>1, StepContinues
       DEF RegistryInv, Continues, Decision, Decides, Silent, Report
  <2>3. PICK v : CallSound(v, now) /\ Becoming(a, v)
    BY <1>0, <1>3, <2>1, AttemptSound
  <2>4. v.sub \in Submissions
    BY <1>0, <2>2, <2>3 DEF Becoming
  <2> QED BY <1>1, <1>3, <2>3, <2>4
<1>4. ASSUME NEW v \in Verifiers, Register(v), UNCHANGED <<process, at>>
      PROVE  RegistryInv'
  <2>1. now' = now /\ at' = at
    BY <1>4 DEF process
  <2>2. \A ns \in DOMAIN verifiers' : verifiers'[ns] \in Verifiers /\ verifiers'[ns].ns = ns
    BY <1>4 DEF Register, RegistryInv
  <2> QED BY <2>1, <2>2 DEF CallsSound, RegistryInv
<1>5. CASE Tick /\ UNCHANGED <<at, verifiers>>
  BY <1>0, <1>5, CallsSoundTick DEF RegistryInv
<1>6. CASE UNCHANGED registryVars
  BY <1>6 DEF registryVars, process, CallsSound, RegistryInv
<1> QED BY <1>2, <1>3, <1>4, <1>5, <1>6 DEF RegistryNext

LEMMA RegistryInvAlways == RegistrySpec => []RegistryInv
  BY RegistryInvInit, RegistryInvNext, PTL DEF RegistrySpec

-----------------------------------------------------------------------------
(* What the observer is told of sound calls, in whatever process they run. *)
LEMMA SoundInOrder == CallsSound => TrailInOrder
<1> DEFINE InOrder(a, t, k) ==
      /\ k \in 1 .. 7
      /\ \A i \in 1 .. k : t[i].name = Stages[i]
      /\ \A i \in 1 .. k - 1 : t[i].ok
      /\ ~t[k].ok => at[a].pc \in {"result", "done"}
      /\ a \in Returned => t[k + 1] = [name |-> "result", ok |-> k = 7 /\ t[k].ok]
<1>0. SUFFICES ASSUME CallsSound, NEW a \in Started, NEW t, t = at[a].trail,
                      NEW k, k = IF a \in Returned THEN Len(t) - 1 ELSE Len(t)
               PROVE  InOrder(a, t, k)
  <2>1. ASSUME \A a \in Started : InOrder(a, at[a].trail,
                 IF a \in Returned THEN Len(at[a].trail) - 1 ELSE Len(at[a].trail))
        PROVE  TrailInOrder
    BY <2>1, Zenon DEF TrailInOrder
  <2> HIDE DEF InOrder
  <2> QED BY <2>1
<1>1. PICK r : r = at[a] /\ t = r.trail
  BY <1>0
<1>2. /\ Logged(r) /\ r.pc \in Running \union Over
      /\ a \in Returned <=> r.pc = "done"
  <2>1. CallSound(r, now)
    BY <1>0, <1>1 DEF CallsSound, Started, Idle
  <2>2. a \in Returned <=> r.pc = "done"
    BY <1>1 DEF Started, Returned
  <2> QED BY <2>1, <2>2 DEF CallSound, Shaped
<1>3. ASSUME NEW n \in 1 .. 7, NEW ok \in BOOLEAN, Prefix(t, n, ok)
      PROVE  /\ \A i \in 1 .. n : t[i].name = Stages[i]
             /\ \A i \in 1 .. n - 1 : t[i].ok
             /\ t[n].ok = ok
  <2>1. ASSUME NEW i \in 1 .. n PROVE t[i].name = Stages[i] /\ (t[i].ok <=> i < n \/ ok) /\ t[i].ok \in BOOLEAN
    <3>1. PICK b \in BOOLEAN : b = (i < n \/ ok) /\ t[i] = [name |-> Stages[i], ok |-> b]
      BY <1>3 DEF Prefix
    <3>2. t[i].name = Stages[i] /\ t[i].ok = b
      BY <3>1
    <3> QED BY <3>1, <3>2
  <2>2. ASSUME NEW i \in 1 .. n - 1 PROVE t[i].ok
    <3>1. i \in 1 .. n /\ i < n
      OBVIOUS
    <3> QED BY <2>1, <3>1
  <2>3. t[n].ok = ok
    <3>1. n \in 1 .. n /\ ~(n < n)
      OBVIOUS
    <3> QED BY <2>1, <3>1
  <2> QED BY <2>1, <2>2, <2>3
<1>4. CASE r.pc \in Running
  <2>1. PICK n \in 1 .. 7 : n = Emissions(r.pc)
    BY <1>4 DEF Emissions, Running, ChainCall
  <2>2. k = n /\ Prefix(t, n, TRUE) /\ a \notin Returned
    BY <1>0, <1>1, <1>2, <1>4, <2>1 DEF Logged, Running, ChainCall
  <2> QED BY <1>3, <2>2
<1>5. CASE r.pc \in Over
  <2>1. PICK n \in 1 .. 7, ok \in BOOLEAN :
          /\ Len(t) = IF r.pc = "done" THEN n + 1 ELSE n
          /\ Prefix(t, n, ok)
          /\ r.err = "nil" <=> n = 7 /\ ok
          /\ r.pc = "done" => t[n + 1] = [name |-> "result", ok |-> r.err = "nil"]
    BY <1>1, <1>2, <1>5 DEF Logged
  <2>2. k = n
    BY <1>0, <1>2, <2>1
  <2>3. /\ \A i \in 1 .. n : t[i].name = Stages[i]
        /\ \A i \in 1 .. n - 1 : t[i].ok
        /\ t[n].ok = ok
    BY <1>3, <2>1
  <2>4. (r.err = "nil") = (n = 7 /\ t[n].ok)
    BY <2>1, <2>3
  <2>5. a \in Returned => t[n + 1] = [name |-> "result", ok |-> n = 7 /\ t[n].ok]
    BY <1>2, <2>1, <2>4
  <2> QED BY <1>1, <1>5, <2>2, <2>3, <2>5 DEF Over
<1> QED BY <1>2, <1>4, <1>5

(* What they accept was valid at one instant of the call.                  *)
LEMMA SoundValid == CallsSound => AcceptedIsValid
<1> SUFFICES ASSUME CallsSound, NEW a \in Accepted, NEW m, m = at[a].sub
             PROVE  /\ m.parses /\ m.domain = at[a].opts.domain /\ m.nonce = at[a].opts.nonce
                    /\ \E t \in at[a].start .. now : /\ \A nb \in m.nb : nb <= t
                                                    /\ \A exp \in m.exp : t < exp
  BY DEF AcceptedIsValid
<1>1. PICK r : r = at[a]
  OBVIOUS
<1>2. CallSound(r, now) /\ Passing(r) /\ now \in Nat
  BY <1>1 DEF CallsSound, Accepted, Returned, Idle, Passing, Over
<1>3. PICK s \in r.start .. now : ~TooEarly(m, s) /\ ~TooLate(m, s)
  BY <1>1, <1>2 DEF CallSound, Checked
<1>4. m.nb \subseteq Nat /\ m.exp \subseteq Nat /\ s \in Nat
  <2>1. Parsed(m) /\ r.start \in Nat
    BY <1>1, <1>2 DEF CallSound, Shaped
  <2>2. s \in Nat
    BY <1>2, <2>1
  <2> QED BY <2>1, <2>2 DEF Parsed
<1>5. (\A nb \in m.nb : nb <= s) /\ (\A exp \in m.exp : s < exp)
  BY <1>3, <1>4 DEF TooEarly, TooLate
<1> QED BY <1>1, <1>2, <1>5 DEF CallSound, Checked

(* The sentinel they return is true of the message, the clock, the chain.  *)
LEMMA SoundRejection == CallsSound => RejectionIsTrue
<1> SUFFICES ASSUME CallsSound, NEW a \in Returned \ Accepted, NEW m, m = at[a].sub
             PROVE  CASE at[a].err = "ErrExpired"        -> \E exp \in m.exp : exp <= now
                      [] at[a].err = "ErrNotYetValid"    -> \E nb \in m.nb : at[a].start < nb
                      [] at[a].err = "ErrDomainMismatch" -> m.domain # at[a].opts.domain
                      [] at[a].err = "ErrNonceMismatch"  -> m.nonce # at[a].opts.nonce
                      [] at[a].err = "ErrBadSignature"   -> m.sig # "good"
                      [] at[a].err = "ErrMalformed"      ->
                           ~m.parses \/ m.garbled # {} \/ m.ref \in MalformedRefs
                      [] at[a].err = "ErrUnsupportedNamespace" -> at[a].verifier.ns = ""
                      [] at[a].err = "ErrRPC"            -> "error" \in Answers(a)
                      [] at[a].err = "ErrContractValidationFailed" ->
                           Answers(a) \intersect {"other", "invalid"} # {}
                      [] at[a].err = "ErrContractWalletUnsupported" ->
                           m.sig = "wrapped" /\ Client(a) # "deployless" /\ at[a].rpc = <<>>
                      [] OTHER                           -> FALSE
  BY DEF RejectionIsTrue
<1>1. PICK r : r = at[a] /\ Client(a) = ClientOf(r) /\ Answers(a) = {r.rpc[i][2] : i \in DOMAIN r.rpc}
  BY DEF Client, ClientOf, Answers
<1>2. CallSound(r, now) /\ r.pc \in Over /\ now \in Nat /\ r.err # "nil"
  BY <1>1 DEF CallsSound, Returned, Accepted, Idle, Over
<1>3. Cause(r, now, r.err)
  BY <1>2 DEF CallSound, Named
<1>4. m.nb \subseteq Nat /\ m.exp \subseteq Nat /\ r.start \in Nat
  BY <1>1, <1>2 DEF CallSound, Shaped, Parsed
<1>5. TooLate(m, now) => \E exp \in m.exp : exp <= now
  BY <1>2, <1>4 DEF TooLate
<1>6. TooEarly(m, r.start) => \E nb \in m.nb : r.start < nb
  BY DEF TooEarly
<1>7. /\ Heard(r, {"error"}) => "error" \in Answers(a)
      /\ Heard(r, {"other", "invalid"}) => Answers(a) \intersect {"other", "invalid"} # {}
  BY <1>1 DEF Heard
<1>8. Blamed(r)
  BY <1>2 DEF CallSound
<1>9. CASE r.err \in ClaimErrors
  BY <1>1, <1>2, <1>3, <1>5, <1>6, <1>9 DEF Cause, ClaimErrors
<1>10. CASE r.err \notin ClaimErrors
  BY <1>1, <1>2, <1>7, <1>8, <1>10 DEF Blamed, ClaimErrors
<1> QED BY <1>9, <1>10

(* They accept an EVM signature on the word of its authority.              *)
LEMMA SoundAuthority == CallsSound => AcceptedByAuthority
<1> SUFFICES ASSUME CallsSound, NEW a \in Accepted, at[a].verifier.ns = "eip155",
                    NEW sig, sig = at[a].sub.sig, NEW calls, calls = at[a].rpc
             PROVE  CASE sig = "wrapped"      -> calls = << <<"deployless", "valid">> >>
                      [] Client(a) = "none"   -> calls = <<>> /\ sig = "good"
                      [] OTHER -> \/ calls = << <<"code", "no code">> >> /\ sig = "good"
                                  \/ calls = << <<"code", "code">>, <<"call", "magic">> >>
  BY DEF AcceptedByAuthority
<1>1. PICK r : r = at[a] /\ Client(a) = ClientOf(r)
  BY DEF Client, ClientOf
<1>2. Routed(r) /\ r.pc \in Over /\ r.err = "nil" /\ r.verifier.ns = "eip155"
  BY <1>1 DEF CallsSound, Accepted, Returned, Idle, Over, CallSound
<1>3. CASE r.rpc = <<>> /\ ClientOf(r) = "none" /\ r.sub.sig = "good"
  BY <1>1, <1>3
<1>4. CASE r.rpc = << <<"code", "no code">> >> /\ Onchain(r) /\ r.sub.sig = "good"
  BY <1>1, <1>4 DEF Onchain
<1>5. CASE r.rpc = << <<"code", "code">>, <<"call", "magic">> >> /\ Onchain(r)
  BY <1>1, <1>5 DEF Onchain
<1>6. CASE r.rpc = << <<"deployless", "valid">> >> /\ Undeployed(r)
  BY <1>1, <1>6 DEF Undeployed
<1> QED BY <1>2, <1>3, <1>4, <1>5, <1>6 DEF Routed

(* They call the clients configured, and no other.                         *)
LEMMA SoundChainCalls == CallsSound => ChainCallsAsConfigured
<1> SUFFICES ASSUME CallsSound, NEW a \in Started, NEW i \in DOMAIN at[a].rpc
             PROVE  IF at[a].sub.sig = "wrapped"
                    THEN at[a].rpc[i][1] = "deployless" /\ Client(a) = "deployless"
                    ELSE at[a].rpc[i][1] \in {"code", "call"} /\ Client(a) # "none"
  BY DEF ChainCallsAsConfigured
<1>1. PICK r : r = at[a] /\ Client(a) = ClientOf(r)
  BY DEF Client, ClientOf
<1>2. Routed(r) /\ r.pc \in Running \union Over /\ i \in DOMAIN r.rpc
  <2>1. CallSound(r, now)
    BY <1>1 DEF CallsSound, Started, Idle
  <2> QED BY <1>1, <2>1 DEF CallSound, Shaped
<1>3. r.rpc # <<>>
  BY <1>2
<1>4. CASE Onchain(r) /\ \E x : r.rpc = << <<"code", x>> >>
  <2>1. PICK x : r.rpc = << <<"code", x>> >>
    BY <1>4
  <2>2. r.rpc[i][1] = "code"
    BY <1>2, <2>1
  <2> QED BY <1>1, <1>4, <2>2 DEF Onchain
<1>5. CASE Onchain(r) /\ \E x : r.rpc = << <<"code", "code">>, <<"call", x>> >>
  <2>1. PICK x : r.rpc = << <<"code", "code">>, <<"call", x>> >>
    BY <1>5
  <2>2. r.rpc[i][1] \in {"code", "call"}
    BY <1>2, <2>1
  <2> QED BY <1>1, <1>5, <2>2 DEF Onchain
<1>6. CASE Undeployed(r) /\ \E x : r.rpc = << <<"deployless", x>> >>
  <2>1. PICK x : r.rpc = << <<"deployless", x>> >>
    BY <1>6
  <2>2. r.rpc[i][1] = "deployless"
    BY <1>2, <2>1
  <2> QED BY <1>1, <1>6, <2>2 DEF Undeployed
<1>7. \/ Onchain(r) /\ \E x : r.rpc = << <<"code", x>> >>
      \/ Onchain(r) /\ \E x : r.rpc = << <<"code", "code">>, <<"call", x>> >>
      \/ Undeployed(r) /\ \E x : r.rpc = << <<"deployless", x>> >>
  <2>1. CASE r.pc \in Over
    BY <1>2, <1>3, <2>1 DEF Routed
  <2>2. CASE r.pc \in Running
    BY <1>2, <1>3, <2>2 DEF Routed, ChainCall
  <2> QED BY <1>2, <2>1, <2>2
<1> QED BY <1>4, <1>5, <1>6, <1>7

-----------------------------------------------------------------------------
LEMMA RegistryCallsSound == RegistrySpec => []CallsSound
<1>1. RegistryInv => CallsSound
  BY DEF RegistryInv
<1> QED BY <1>1, RegistryInvAlways, PTL

(* Every verifier the map holds serves the namespace it is registered for, *)
(* and a call in progress is at a stage of VerifierRegistry.Verify or of   *)
(* its adapters, whatever Register replaces under it.                      *)
THEOREM RegistryTyped == RegistrySpec => []RegistryTypeOK
<1>1. RegistryInv => RegistryTypeOK
  <2> SUFFICES ASSUME RegistryInv, NEW a \in Started
               PROVE  /\ at[a].pc \in {Stages[i] : i \in DOMAIN Stages}
                                      \union {"lookup", "code", "call", "deployless", "done"}
                      /\ at[a].sub \in SubmissionType
                      /\ at[a].clock \in Nat /\ at[a].start \in 0 .. now
    BY DEF CallsSound, RegistryInv, RegistryTypeOK
  <2>1. CallSound(at[a], now) /\ now \in Nat
    BY DEF CallsSound, RegistryInv, Started, Idle
  <2>2. at[a].sub \in SubmissionType /\ at[a].clock \in Nat /\ at[a].start \in 0 .. now
    <3>1. PICK r : r = at[a] /\ Shaped(r, now)
      BY <2>1 DEF CallSound
    <3>2. r.clock \in Nat /\ r.start \in Nat /\ r.start <= now
      BY <3>1 DEF Shaped
    <3>3. r.sub \in SubmissionType
      BY <3>1, SubmissionAssumption DEF CallsSound, RegistryInv, Started, Idle
    <3> QED BY <2>1, <3>1, <3>2, <3>3
  <2>3. at[a].pc \in {"parse", "domain", "not_before", "expiry", "nonce", "signature", "result"}
                     \union {"lookup", "code", "call", "deployless", "done"}
    BY <2>1 DEF CallSound, Shaped, Running, Over, ChainCall
  <2>4. {"parse", "domain", "not_before", "expiry", "nonce", "signature", "result"}
          \subseteq {Stages[i] : i \in DOMAIN Stages}
    BY NextStage
  <2> QED BY <2>2, <2>3, <2>4
<1> QED BY <1>1, RegistryInvAlways, PTL

(* The observer hears of every call in the order of SPEC.md 9: attempt,    *)
(* parse, the checks of the S3 order up to the first failure, one result   *)
(* that is a success exactly when all of them passed.                      *)
THEOREM TrailAlwaysInOrder == RegistrySpec => []TrailInOrder
  BY SoundInOrder, RegistryCallsSound, PTL

(* A message either adapter accepts named the expected domain and nonce    *)
(* and was within its validity window at one instant of the call, though   *)
(* the Solana adapter reads the clock five times and the EVM one once.     *)
THEOREM AcceptedAlwaysValid == RegistrySpec => []AcceptedIsValid
  BY SoundValid, RegistryCallsSound, PTL

(* The error Verify returns is true of the message, the clock or what a    *)
(* node answered, whichever of the ten sentinels it is: VerifyRaw checks   *)
(* once more at a later instant and never misnames what the adapter passed.*)
THEOREM RejectionAlwaysTrue == RegistrySpec => []RejectionIsTrue
  BY SoundRejection, RegistryCallsSound, PTL

(* verifySignature accepts on the word of the one authority for the        *)
(* signature, and a failed chain call accepts nothing.                     *)
THEOREM AuthorityAccepts == RegistrySpec => []AcceptedByAuthority
  BY SoundAuthority, RegistryCallsSound, PTL

(* Only a configured client is ever called, and a wrapped signature causes *)
(* no call but the deployless one, at whatever moment the call is looked   *)
(* at and whichever verifier Register installed meanwhile.                 *)
THEOREM ChainCallsConfigured == RegistrySpec => []ChainCallsAsConfigured
  BY SoundChainCalls, RegistryCallsSound, PTL
=============================================================================
