-------------------------- MODULE HubSignIn_proofs --------------------------
(***************************************************************************)
(* The hub implements SignIn, for any number of browsers, requests,        *)
(* nonces, wallets and restarts: no token is minted and no wallet linked   *)
(* unless the wallet's holder signed for the very nonce that was claimed   *)
(* for it.                                                                 *)
(***************************************************************************)
EXTENDS Hub_proofs, Registry_proofs

-----------------------------------------------------------------------------
(* The verification of a request is about its own message, expects the     *)
(* nonce that was burned for it, and is past the nonce check, or passed,   *)
(* only if the message names that nonce; it passes only a message its      *)
(* wallet's holder signed.                                                 *)
Calls == {"code", "call", "deployless"} \X {"error", "no code", "code", "magic", "other", "valid", "invalid"}

Genuine(m) == m.sig \in {"good", "owner"}

AttemptOK(r) ==
  /\ DOMAIN at[r] = AtFields
  /\ at[r].sub = req[r].msg /\ at[r].opts.nonce = req[r].cookie
  /\ at[r].rpc \in Seq(Calls)
  /\ at[r].pc \in {"signature", "code", "call", "deployless"} => at[r].sub.nonce = at[r].opts.nonce
  /\ at[r].pc \in {"result", "done"} /\ at[r].err = "nil" =>
       at[r].sub.nonce = at[r].opts.nonce /\ Genuine(at[r].sub)

(* What a step of the verification may make of the attempt. *)
Advances(r, v) ==
  /\ at' = [at EXCEPT ![r] = v]
  /\ DOMAIN v = AtFields /\ v.sub = at[r].sub /\ v.opts = at[r].opts /\ v.rpc \in Seq(Calls)
  /\ v.pc \in {"signature", "code", "call", "deployless"} => v.sub.nonce = v.opts.nonce
  /\ v.pc \in {"result", "done"} /\ v.err = "nil" => v.sub.nonce = v.opts.nonce /\ Genuine(v.sub)

LEMMA AttemptAdvances ==
  ASSUME NEW r \in Request, DOMAIN at = Request, AttemptOK(r), NEW v, Advances(r, v), UNCHANGED req
  PROVE  AttemptOK(r)'
<1>1. at'[r] = v
  BY DEF Advances
<1> QED BY <1>1 DEF AttemptOK, Advances

(* The event of a stage, and where it leads. *)
LEMMA ObservedShape ==
  ASSUME NEW a, DOMAIN a = AtFields, NEW stage, NEW err
  PROVE  LET v == Observed(a, stage, err)
         IN  /\ DOMAIN v = AtFields /\ v.sub = a.sub /\ v.opts = a.opts /\ v.rpc = a.rpc
             /\ v.err = err /\ v.pc = IF err = "nil" THEN After(stage) ELSE "result"
  BY DEF Observed, AtFields

(* A stage before the nonce check, or a failing one. *)
LEMMA EarlyStage ==
  ASSUME NEW r \in Request, DOMAIN at = Request, AttemptOK(r),
         NEW stage, NEW err, Observe(r, stage, err),
         stage \in {"parse", "domain", "not_before", "expiry"} \/ err # "nil"
  PROVE  Advances(r, Observed(at[r], stage, err))
<1> DEFINE v == Observed(at[r], stage, err)
<1>1. /\ DOMAIN v = AtFields /\ v.sub = at[r].sub /\ v.opts = at[r].opts /\ v.rpc = at[r].rpc
      /\ v.err = err /\ v.pc = IF err = "nil" THEN After(stage) ELSE "result"
  BY ObservedShape DEF AttemptOK
<1>2. at' = [at EXCEPT ![r] = v]
  BY DEF Observe
<1> HIDE DEF v
<1>3. v.pc \in {"domain", "not_before", "expiry", "nonce"} \/ (v.pc = "result" /\ v.err # "nil")
  BY <1>1, NextStage
<1>4. v.rpc \in Seq(Calls)
  BY <1>1 DEF AttemptOK
<1>5. Advances(r, v)
  BY <1>1, <1>2, <1>3, <1>4 DEF Advances
<1> QED BY <1>5 DEF v

(* The nonce check, passed. *)
LEMMA NonceStage ==
  ASSUME NEW r \in Request, DOMAIN at = Request, AttemptOK(r),
         Observe(r, "nonce", "nil"), at[r].sub.nonce = at[r].opts.nonce
  PROVE  Advances(r, Observed(at[r], "nonce", "nil"))
<1> DEFINE v == Observed(at[r], "nonce", "nil")
<1>1. /\ DOMAIN v = AtFields /\ v.sub = at[r].sub /\ v.opts = at[r].opts /\ v.rpc = at[r].rpc
      /\ v.err = "nil" /\ v.pc = "signature"
  BY ObservedShape, NextStage DEF AttemptOK
<1>2. at' = [at EXCEPT ![r] = v]
  BY DEF Observe
<1> HIDE DEF v
<1>3. v.rpc \in Seq(Calls)
  BY <1>1 DEF AttemptOK
<1>4. Advances(r, v)
  BY <1>1, <1>2, <1>3 DEF Advances
<1> QED BY <1>4 DEF v

(* The signature accepted: the nonce was checked before. *)
Verdict(r, err, calls) == [Observed(at[r], "signature", err) EXCEPT !.rpc = calls]
Becomes(r, v) == at' = [at EXCEPT ![r] = v]

LEMMA SignatureStage ==
  ASSUME NEW r \in Request, DOMAIN at = Request, AttemptOK(r), NEW calls \in Seq(Calls), NEW err,
         at[r].pc \in {"signature", "code", "call", "deployless"},
         Becomes(r, Verdict(r, err, calls)),
         err = "nil" => Genuine(at[r].sub)
  PROVE  Advances(r, Verdict(r, err, calls))
<1> DEFINE o == Observed(at[r], "signature", err)
           v == Verdict(r, err, calls)
<1>1. /\ DOMAIN o = AtFields /\ o.sub = at[r].sub /\ o.opts = at[r].opts
      /\ o.err = err /\ o.pc = "result"
  BY ObservedShape, NextStage DEF AttemptOK
<1>2. v = [o EXCEPT !.rpc = calls] /\ at' = [at EXCEPT ![r] = v]
  BY DEF Verdict, Becomes
<1> HIDE DEF o, v
<1>3. /\ DOMAIN v = AtFields /\ v.sub = at[r].sub /\ v.opts = at[r].opts
      /\ v.err = err /\ v.pc = "result" /\ v.rpc = calls
  BY <1>1, <1>2 DEF AtFields
<1>4. at[r].sub.nonce = at[r].opts.nonce
  BY DEF AttemptOK
<1>5. Advances(r, v)
  BY <1>2, <1>3, <1>4 DEF Advances
<1> QED BY <1>5 DEF v

(* The same without a chain call. *)
LEMMA SignatureAlone ==
  ASSUME NEW r \in Request, DOMAIN at = Request, AttemptOK(r), NEW err,
         at[r].pc = "signature", Observe(r, "signature", err),
         err = "nil" => Genuine(at[r].sub)
  PROVE  \E v : Advances(r, v)
<1> DEFINE v == Observed(at[r], "signature", err)
<1>1. /\ DOMAIN v = AtFields /\ v.sub = at[r].sub /\ v.opts = at[r].opts
      /\ v.err = err /\ v.pc = "result" /\ v.rpc = at[r].rpc
  BY ObservedShape, NextStage DEF AttemptOK
<1>2. at' = [at EXCEPT ![r] = v]
  BY DEF Observe
<1> HIDE DEF v
<1>3. at[r].sub.nonce = at[r].opts.nonce /\ v.rpc \in Seq(Calls)
  BY <1>1 DEF AttemptOK
<1>4. Advances(r, v)
  BY <1>1, <1>2, <1>3 DEF Advances
<1> QED BY <1>4

(* A verdict of siws.VerifyRaw is a sentinel or rests on the signature.    *)
LEMMA VerifyRawGenuine ==
  ASSUME NEW m, NEW o, NEW t, VerifyRaw(m, o, t) = "nil"
  PROVE  m.sig = "good"
<1> DEFINE F == {i \in 1 .. 4 : Fails(m, o, t)[Checks[i]]}
           first == CHOOSE i \in F : \A j \in F : i <= j
<1>1. CASE F = {}
  BY <1>1 DEF VerifyRaw
<1>2. CASE F # {}
  <2>1. \E i \in F : \A j \in F : i <= j
    <3> HIDE DEF F
    <3>1. F \subseteq 1 .. 4
      BY DEF F
    <3>2. CASE 1 \in F
      BY <3>1, <3>2
    <3>3. CASE 1 \notin F /\ 2 \in F
      BY <3>1, <3>3
    <3>4. CASE 1 \notin F /\ 2 \notin F /\ 3 \in F
      BY <3>1, <3>4
    <3>5. CASE 1 \notin F /\ 2 \notin F /\ 3 \notin F
      <4>1. \A j \in F : j = 4
        BY <3>1, <3>5
      <4> QED BY <1>2, <4>1
    <3> QED BY <3>2, <3>3, <3>4, <3>5
  <2>2. first \in 1 .. 4
    BY <2>1
  <2> HIDE DEF first
  <2>3. ErrFor[Checks[first]] # "nil"
    BY <2>2 DEF ErrFor, Checks
  <2>4. \/ VerifyRaw(m, o, t) = "ErrMalformed"
        \/ VerifyRaw(m, o, t) = ErrFor[Checks[first]]
    BY <1>2 DEF VerifyRaw, first
  <2> QED BY <2>3, <2>4
<1> QED BY <1>1, <1>2

LEMMA SolanaAdvances ==
  ASSUME NEW r \in Request, DOMAIN at = Request, AttemptOK(r), SolanaStep(r)
  PROVE  \E v : Advances(r, v)
<1>1. CASE SolanaParse(r)
  BY <1>1, EarlyStage DEF SolanaParse
<1>2. ASSUME NEW c \in {"domain", "not_before", "expiry", "nonce"}, SolanaCheck(r, c)
      PROVE  \E v : Advances(r, v)
  <2> DEFINE fails == Fails(at[r].sub, at[r].opts, now)[c]
  <2>1. ErrFor[c] # "nil"
    BY DEF ErrFor
  <2>2. CASE fails \/ c # "nonce"
    <3>1. PICK err : Observe(r, c, err) /\ (c = "nonce" => err # "nil")
      BY <1>2, <2>1, <2>2 DEF SolanaCheck
    <3> QED BY <3>1, EarlyStage
  <2>3. CASE ~fails /\ c = "nonce"
    <3>1. at[r].sub.nonce = at[r].opts.nonce /\ Observe(r, "nonce", "nil")
      BY <1>2, <2>3 DEF SolanaCheck, Fails
    <3> QED BY <3>1, NonceStage
  <2> QED BY <2>2, <2>3
<1>3. CASE SolanaSignature(r)
  <2>1. PICK err : /\ Observe(r, "signature", err)
                   /\ err = "nil" => VerifyRaw(at[r].sub, at[r].opts, now) = "nil"
    BY <1>3 DEF SolanaSignature
  <2>2. err = "nil" => Genuine(at[r].sub)
    BY <2>1, VerifyRawGenuine DEF Genuine
  <2> QED BY <1>3, <2>1, <2>2, SignatureAlone DEF SolanaSignature, Standing
<1> QED BY <1>1, <1>2, <1>3 DEF SolanaStep

(* Parsing also reads the clock. *)
LEMMA EvmParseAdvances ==
  ASSUME NEW r \in Request, DOMAIN at = Request, AttemptOK(r), EvmParse(r)
  PROVE  \E v : Advances(r, v)
<1>1. PICK err : at' = [at EXCEPT ![r] = [Observed(at[r], "parse", err) EXCEPT !.clock = now]]
  BY DEF EvmParse
<1> DEFINE o == Observed(at[r], "parse", err)
           v == [o EXCEPT !.clock = now]
<1>2. /\ DOMAIN o = AtFields /\ o.sub = at[r].sub /\ o.opts = at[r].opts /\ o.rpc = at[r].rpc
      /\ o.err = err /\ o.pc = IF err = "nil" THEN "domain" ELSE "result"
  BY ObservedShape, NextStage DEF AttemptOK
<1>3. at' = [at EXCEPT ![r] = v]
  BY <1>1
<1> HIDE DEF o
<1>4. /\ DOMAIN v = AtFields /\ v.sub = at[r].sub /\ v.opts = at[r].opts /\ v.rpc = at[r].rpc
      /\ v.pc = "domain" \/ (v.pc = "result" /\ v.err # "nil")
  BY <1>2 DEF AtFields
<1> HIDE DEF v
<1>5. v.rpc \in Seq(Calls)
  BY <1>4 DEF AttemptOK
<1>6. Advances(r, v)
  BY <1>3, <1>4, <1>5 DEF Advances
<1> QED BY <1>6

LEMMA EvmCheckAdvances ==
  ASSUME NEW r \in Request, DOMAIN at = Request, AttemptOK(r),
         NEW c \in {"domain", "not_before", "expiry", "nonce"}, EvmCheck(r, c)
  PROVE  \E v : Advances(r, v)
<1>0. ErrFor[c] # "nil"
  BY DEF ErrFor
<1>1. PICK err : /\ Observe(r, c, err)
                 /\ \/ err = "ErrMalformed" \/ err = ErrFor[c]
                    \/ err = "nil" /\ ~Fails(at[r].sub, at[r].opts, at[r].clock)[c]
  BY DEF EvmCheck
<1>2. CASE err # "nil" \/ c # "nonce"
  BY <1>1, <1>2, EarlyStage
<1>3. CASE err = "nil" /\ c = "nonce"
  <2>1. at[r].sub.nonce = at[r].opts.nonce /\ Observe(r, "nonce", "nil")
    BY <1>0, <1>1, <1>3 DEF Fails
  <2> QED BY <2>1, NonceStage
<1> QED BY <1>2, <1>3

(* On its way to a chain call. *)
LEMMA AskAdvances ==
  ASSUME NEW r \in Request, DOMAIN at = Request, AttemptOK(r), NEW pc \in {"code", "call", "deployless"},
         at[r].pc \in {"signature", "code", "call", "deployless"}, NEW calls \in Seq(Calls), NEW v,
         at' = [at EXCEPT ![r] = v],
         v = [at[r] EXCEPT !.pc = pc] \/ v = [at[r] EXCEPT !.pc = pc, !.rpc = calls]
  PROVE  Advances(r, v)
<1>1. /\ DOMAIN v = AtFields /\ v.sub = at[r].sub /\ v.opts = at[r].opts /\ v.pc = pc
      /\ v.rpc = at[r].rpc \/ v.rpc = calls
  BY DEF AttemptOK, AtFields
<1> QED BY <1>1 DEF Advances, AttemptOK

(* ecrecover accepts what the account named signed itself. *)
LEMMA RecoveredGenuine ==
  ASSUME NEW r, Recovered(r) = "nil"
  PROVE  Genuine(at[r].sub)
  BY DEF Recovered, Genuine

LEMMA EvmRouteAdvances ==
  ASSUME NEW r \in Request, DOMAIN at = Request, AttemptOK(r), EvmRoute(r)
  PROVE  \E v : Advances(r, v)
<1>1. at[r].pc = "signature"
  BY DEF EvmRoute, Standing
<1>2. \/ \E err : Observe(r, "signature", err) /\ (err = "nil" => Genuine(at[r].sub))
      \/ \E pc \in {"code", "deployless"} : Ask(r, pc)
  BY RecoveredGenuine DEF EvmRoute
<1>3. ASSUME NEW pc \in {"code", "deployless"}, Ask(r, pc) PROVE \E v : Advances(r, v)
  <2>1. at' = [at EXCEPT ![r] = [at[r] EXCEPT !.pc = pc]]
    BY <1>3 DEF Ask
  <2>2. at[r].rpc \in Seq(Calls)
    BY DEF AttemptOK
  <2> QED BY <1>1, <2>1, <2>2, AskAdvances
<1> QED BY <1>1, <1>2, <1>3, SignatureAlone

(* A chain call answered as the demo wallets answer it. *)
AsDemo(r) == \A call \in Called(r) : call[2] = DemoAnswer(call[1], at[r].sub)

LEMMA AnsweredAdvances ==
  ASSUME NEW r \in Request, DOMAIN at = Request, AttemptOK(r),
         at[r].pc \in {"code", "call", "deployless"},
         NEW answer, <<at[r].pc, answer>> \in Calls, NEW err,
         Answered(r, answer, err),
         AsDemo(r),
         answer = DemoAnswer(at[r].pc, at[r].sub) /\ err = "nil" => Genuine(at[r].sub)
  PROVE  \E v : Advances(r, v)
<1> DEFINE o == Observed(at[r], "signature", err)
           made == <<at[r].pc, answer>>
           calls == Append(at[r].rpc, made)
<1>1. o.rpc = at[r].rpc /\ DOMAIN o = AtFields
  BY ObservedShape DEF AttemptOK
<1>2. made \in Calls /\ calls \in Seq(Calls)
  BY DEF AttemptOK
<1>3. at' = [at EXCEPT ![r] = [o EXCEPT !.rpc = calls]]
  BY DEF Answered
<1>4. at'[r].rpc = calls
  BY <1>1, <1>3 DEF AtFields
<1>5. made \in Called(r)
  <2>1. at[r].rpc \in Seq(Calls)
    BY DEF AttemptOK
  <2>2. Len(calls) = Len(at[r].rpc) + 1 /\ calls[Len(at[r].rpc) + 1] = made /\ Len(at[r].rpc) \in Nat
    BY <1>2, <2>1
  <2> HIDE DEF calls, made
  <2> QED BY <1>4, <2>2 DEF Called
<1>6. answer = DemoAnswer(at[r].pc, at[r].sub)
  <2>1. made[2] = DemoAnswer(made[1], at[r].sub)
    BY <1>5 DEF AsDemo
  <2> QED BY <2>1
<1>7. err = "nil" => Genuine(at[r].sub)
  BY <1>6
<1> HIDE DEF calls
<1>8. at[r].pc \in {"signature", "code", "call", "deployless"} /\ calls \in Seq(Calls)
  BY <1>2
<1>9. Becomes(r, Verdict(r, err, calls))
  BY <1>3 DEF Becomes, Verdict
<1>10. Advances(r, Verdict(r, err, calls))
  BY <1>7, <1>8, <1>9, SignatureStage
<1> QED BY <1>10

LEMMA EvmChainAdvances ==
  ASSUME NEW r \in Request, DOMAIN at = Request, AttemptOK(r), AsDemo(r), EvmChainStep(r)
  PROVE  \E v : Advances(r, v)
<1>1. CASE EvmCodeAt(r)
  <2>1. at[r].pc = "code"
    BY <1>1 DEF EvmCodeAt, Standing
  <2>2. /\ <<at[r].pc, "error">> \in Calls /\ <<at[r].pc, "no code">> \in Calls
        /\ <<"code", "code">> \in Calls
    BY <2>1 DEF Calls
  <2>3. CASE Answered(r, "error", "ErrRPC")
    BY <2>1, <2>2, <2>3, AnsweredAdvances
  <2>4. CASE Answered(r, "no code", Recovered(r))
    BY <2>1, <2>2, <2>4, AnsweredAdvances, RecoveredGenuine
  <2>5. CASE at' = [at EXCEPT ![r] = [at[r] EXCEPT !.pc = "call",
                                                   !.rpc = Append(at[r].rpc, <<"code", "code">>)]]
    <3> DEFINE made == <<"code", "code">>
               calls == Append(at[r].rpc, made)
    <3>1. at' = [at EXCEPT ![r] = [at[r] EXCEPT !.pc = "call", !.rpc = calls]]
      BY <2>5
    <3>2. calls \in Seq(Calls)
      <4>1. made \in Calls /\ at[r].rpc \in Seq(Calls)
        BY <2>2 DEF AttemptOK
      <4> HIDE DEF made
      <4> QED BY <4>1
    <3> HIDE DEF calls
    <3> DEFINE v == [at[r] EXCEPT !.pc = "call", !.rpc = calls]
    <3>3. /\ DOMAIN v = AtFields /\ v.sub = at[r].sub /\ v.opts = at[r].opts
          /\ v.pc = "call" /\ v.rpc = calls
      BY DEF AttemptOK, AtFields
    <3> HIDE DEF v
    <3>4. at' = [at EXCEPT ![r] = v]
      BY <3>1 DEF v
    <3>5. Advances(r, v)
      BY <2>1, <3>2, <3>3, <3>4 DEF Advances, AttemptOK
    <3> QED BY <3>5
  <2> QED BY <1>1, <2>3, <2>4, <2>5 DEF EvmCodeAt
<1>2. CASE EvmCall(r)
  <2>1. at[r].pc = "call"
    BY <1>2 DEF EvmCall, Standing
  <2>2. /\ <<at[r].pc, "error">> \in Calls /\ <<at[r].pc, "magic">> \in Calls
        /\ <<at[r].pc, "other">> \in Calls
    BY <2>1 DEF Calls
  <2>3. DemoAnswer("call", at[r].sub) = "magic" => at[r].sub.sig = "owner"
    BY DEF DemoAnswer
  <2>4. DemoAnswer(at[r].pc, at[r].sub) = "magic" => Genuine(at[r].sub)
    BY <2>1, <2>3 DEF Genuine
  <2>5. CASE Answered(r, "error", "ErrRPC")
    BY <2>1, <2>2, <2>5, AnsweredAdvances
  <2>6. CASE Answered(r, "magic", "nil")
    BY <2>1, <2>2, <2>4, <2>6, AnsweredAdvances
  <2>7. CASE Answered(r, "other", "ErrContractValidationFailed")
    BY <2>1, <2>2, <2>7, AnsweredAdvances
  <2> QED BY <1>2, <2>5, <2>6, <2>7 DEF EvmCall
<1>3. CASE EvmDeployless(r)
  <2>1. at[r].pc = "deployless"
    BY <1>3 DEF EvmDeployless, Standing
  <2>2. /\ <<at[r].pc, "error">> \in Calls /\ <<at[r].pc, "valid">> \in Calls
        /\ <<at[r].pc, "invalid">> \in Calls
    BY <2>1 DEF Calls
  <2>3. DemoAnswer("deployless", at[r].sub) = "error"
    BY DEF DemoAnswer
  <2>4. "valid" # DemoAnswer(at[r].pc, at[r].sub)
    BY <2>1, <2>3
  <2>5. CASE Answered(r, "error", "ErrRPC")
    BY <2>1, <2>2, <2>5, AnsweredAdvances
  <2>6. CASE Answered(r, "valid", "nil")
    BY <2>1, <2>2, <2>4, <2>6, AnsweredAdvances
  <2>7. CASE Answered(r, "invalid", "ErrContractValidationFailed")
    BY <2>1, <2>2, <2>7, AnsweredAdvances
  <2> QED BY <1>3, <2>5, <2>6, <2>7 DEF EvmDeployless
<1> QED BY <1>1, <1>2, <1>3 DEF EvmChainStep

(* The lookup of the verifier, and the return. *)
LEMMA LookupAdvances ==
  ASSUME NEW r \in Request, DOMAIN at = Request, AttemptOK(r), Lookup(r)
  PROVE  \E v : Advances(r, v)
<1> DEFINE ns == at[r].ns
           v == IF ns \in DOMAIN verifiers
                THEN [at[r] EXCEPT !.verifier = verifiers[ns], !.pc = "parse"]
                ELSE [at[r] EXCEPT !.err = "ErrUnsupportedNamespace", !.pc = "result"]
<1>1. at' = [at EXCEPT ![r] = v]
  BY DEF Lookup
<1>2. /\ DOMAIN v = AtFields /\ v.sub = at[r].sub /\ v.opts = at[r].opts /\ v.rpc = at[r].rpc
      /\ v.pc = "parse" \/ (v.pc = "result" /\ v.err # "nil")
  BY DEF AttemptOK, AtFields
<1> HIDE DEF v
<1>3. Advances(r, v)
  BY <1>1, <1>2 DEF Advances, AttemptOK
<1> QED BY <1>3

LEMMA FinishAdvances ==
  ASSUME NEW r \in Request, DOMAIN at = Request, AttemptOK(r), Finish(r)
  PROVE  \E v : Advances(r, v)
<1>1. PICK t : at' = [at EXCEPT ![r] = [at[r] EXCEPT !.trail = t, !.pc = "done"]]
  BY DEF Finish
<1> DEFINE v == [at[r] EXCEPT !.trail = t, !.pc = "done"]
<1>2. /\ DOMAIN v = AtFields /\ v.sub = at[r].sub /\ v.opts = at[r].opts /\ v.rpc = at[r].rpc
      /\ v.pc = "done" /\ v.err = at[r].err
  BY DEF AttemptOK, AtFields
<1>3. at' = [at EXCEPT ![r] = v]
  BY <1>1
<1> HIDE DEF v
<1>4. at[r].pc = "result"
  BY DEF Finish
<1>5. Advances(r, v)
  BY <1>2, <1>3, <1>4 DEF Advances, AttemptOK
<1> QED BY <1>5

LEMMA StepAdvances ==
  ASSUME NEW r \in Request, DOMAIN at = Request, AttemptOK(r), AsDemo(r), AttemptStep(r)
  PROVE  \E v : Advances(r, v)
  BY LookupAdvances, FinishAdvances, SolanaAdvances, EvmParseAdvances, EvmCheckAdvances,
     EvmRouteAdvances, EvmChainAdvances DEF AttemptStep, LocalStep, EvmLocalStep

-----------------------------------------------------------------------------
(* Where a handler's step takes its request, which keeps what it came with. *)
Moves(r, pc) == \E v : Refills(r, v) /\ v.pc = pc

LEMMA ReplyMoves ==
  ASSUME HubShape, NEW r \in Request, RequestOK(r), NEW status, Reply(r, status)
  PROVE  Moves(r, "reply")
<1> DEFINE v == [req[r] EXCEPT !.pc = "reply", !.status = status]
<1>1. Refills(r, v) /\ v.pc = "reply"
  BY DEF Reply, Refills, RequestOK, Fields, HubShape, RequestsOK
<1> QED BY <1>1 DEF Moves

LEMMA GotoMoves ==
  ASSUME HubShape, NEW r \in Request, RequestOK(r), NEW pc, Goto(r, pc)
  PROVE  Moves(r, pc)
<1> DEFINE v == [req[r] EXCEPT !.pc = pc]
<1>1. Refills(r, v) /\ v.pc = pc
  BY DEF Goto, Refills, RequestOK, Fields, HubShape, RequestsOK
<1> QED BY <1>1 DEF Moves

LEMMA ReceiveMoves ==
  ASSUME HubShape, NEW r \in Request, Receive(r)
  PROVE  RequestOK(r) /\ (Moves(r, "reply") \/ Moves(r, "burn"))
<1>1. RequestOK(r)
  BY WasSent DEF Receive
<1>2. CASE \E status : Reply(r, status)
  BY <1>1, <1>2, ReplyMoves
<1>3. CASE req' = [req EXCEPT ![r] = [@ EXCEPT !.pc = "burn", !.clears = TRUE]]
  <2> DEFINE v == [req[r] EXCEPT !.pc = "burn", !.clears = TRUE]
  <2>1. Refills(r, v) /\ v.pc = "burn"
    BY <1>1, <1>3 DEF Refills, RequestOK, Fields, HubShape, RequestsOK
  <2> QED BY <1>1, <2>1 DEF Moves
<1> QED BY <1>1, <1>2, <1>3 DEF Receive

LEMMA BurnMoves ==
  ASSUME HubShape, NEW r \in Request, BurnCookie(r)
  PROVE  /\ RequestOK(r) /\ req[r].pc = "burn" /\ req[r].cookie \in Nonce
         /\ \/ BurnOK(req[r].cookie) /\ Moves(r, "begin")
            \/ BurnRejected(req[r].cookie) /\ Moves(r, "reply")
<1>1. RequestOK(r) /\ req[r].pc = "burn"
  BY WasSent DEF BurnCookie
<1>2. req[r].cookie \in Nonce
  BY <1>1 DEF RequestOK
<1> QED BY <1>1, <1>2, ReplyMoves, GotoMoves DEF BurnCookie

LEMMA ConcludeMoves ==
  ASSUME HubShape, NEW r \in Request, Conclude(r)
  PROVE  /\ RequestOK(r) /\ req[r].pc = "verifying" /\ at[r].pc = "done"
         /\ \/ at[r].err = "nil" /\ \E pc \in {"verify", "link"} : pc = req[r].kind /\ Moves(r, pc)
            \/ at[r].err # "nil" /\ Moves(r, "reply")
<1>1. RequestOK(r) /\ req[r].pc = "verifying" /\ at[r].pc = "done"
  BY WasSent DEF Conclude
<1>2. PICK trail : req' = [req EXCEPT ![r] =
                      [@ EXCEPT !.trail = trail,
                                !.pc = IF at[r].err = "nil" THEN req[r].kind ELSE "reply",
                                !.status = at[r].err]]
  BY DEF Conclude
<1> DEFINE v == [req[r] EXCEPT !.trail = trail,
                               !.pc = IF at[r].err = "nil" THEN req[r].kind ELSE "reply",
                               !.status = at[r].err]
<1>3. Refills(r, v) /\ v.pc = IF at[r].err = "nil" THEN req[r].kind ELSE "reply"
  BY <1>1, <1>2 DEF Refills, RequestOK, Fields, HubShape, RequestsOK
<1> HIDE DEF v
<1>4. req[r].kind \in {"verify", "link"}
  BY <1>1 DEF RequestOK
<1>5. CASE at[r].err = "nil"
  <2>1. v.pc \in {"verify", "link"}
    BY <1>3, <1>4, <1>5
  <2> QED BY <1>1, <1>3, <1>5, <2>1 DEF Moves
<1>6. CASE at[r].err # "nil"
  BY <1>1, <1>3, <1>6 DEF Moves
<1> QED BY <1>5, <1>6

LEMMA UpsertMoves ==
  ASSUME HubShape, NEW r \in Request, Upsert(r)
  PROVE  RequestOK(r) /\ req[r].pc = "verify" /\ Moves(r, "wallets")
<1>1. RequestOK(r) /\ req[r].pc = "verify"
  BY WasSent DEF Upsert
<1>2. PICK id \in Identity : req' = [req EXCEPT ![r] = [@ EXCEPT !.pc = "wallets", !.id = id]]
  BY DEF Upsert
<1> DEFINE v == [req[r] EXCEPT !.pc = "wallets", !.id = id]
<1>3. Refills(r, v) /\ v.pc = "wallets"
  BY <1>1, <1>2 DEF Refills, RequestOK, Fields, HubShape, RequestsOK
<1> QED BY <1>1, <1>3 DEF Moves

LEMMA ReadWalletsMoves ==
  ASSUME HubShape, NEW r \in Request, ReadWallets(r)
  PROVE  RequestOK(r) /\ req[r].pc = "wallets" /\ (Moves(r, "mint") \/ Moves(r, "reply"))
<1>1. RequestOK(r) /\ req[r].pc = "wallets"
  BY WasSent DEF ReadWallets
<1>2. CASE Reply(r, "500")
  BY <1>1, <1>2, ReplyMoves
<1>3. CASE req' = [req EXCEPT ![r] = [@ EXCEPT !.pc = "mint", !.wallets = Wallets(req[r].id)]]
  <2> DEFINE v == [req[r] EXCEPT !.pc = "mint", !.wallets = Wallets(req[r].id)]
  <2>1. Refills(r, v) /\ v.pc = "mint"
    BY <1>1, <1>3 DEF Refills, RequestOK, Fields, HubShape, RequestsOK
  <2> QED BY <1>1, <2>1 DEF Moves
<1> QED BY <1>1, <1>2, <1>3 DEF ReadWallets

(* The rest goes where it says. *)
LEMMA OtherMoves ==
  ASSUME HubShape, NEW r \in Request
  PROVE  /\ BeginVerify(r) => RequestOK(r) /\ req[r].pc = "begin" /\ Moves(r, "verifying")
         /\ Mint(r) => RequestOK(r) /\ req[r].pc = "mint" /\ Moves(r, "reply")
         /\ Link(r) => RequestOK(r) /\ req[r].pc = "link" /\ Moves(r, "reply")
         /\ Deliver(r) => RequestOK(r) /\ req[r].pc = "reply" /\ Moves(r, "done")
<1>1. ASSUME BeginVerify(r) \/ Mint(r) \/ Link(r) \/ Deliver(r) PROVE RequestOK(r)
  BY <1>1, WasSent DEF BeginVerify, Mint, Link, Deliver
<1> QED BY <1>1, ReplyMoves, GotoMoves DEF BeginVerify, Mint, Link, Deliver

(* What a move leaves alone. *)
LEMMA MovesFrame ==
  ASSUME HubShape, NEW r \in Request, RequestOK(r), NEW pc, Moves(r, pc)
  PROVE  /\ req'[r].pc = pc /\ req'[r].msg = req[r].msg /\ req'[r].cookie = req[r].cookie
         /\ req'[r].ns = req[r].ns /\ req'[r].kind = req[r].kind
         /\ \A s \in Request \ {r} : req'[s] = req[s]
<1>1. PICK v : Refills(r, v) /\ v.pc = pc
  BY DEF Moves
<1> QED BY <1>1 DEF Refills, HubShape, RequestsOK

-----------------------------------------------------------------------------
(* The invariant: verifications are of their requests, a request that got  *)
(* past its verification was signed for over the nonce it burned, and what *)
(* pages know and sign was issued.                                         *)
Accepting == {"verify", "wallets", "mint", "link"}

SoundRequest(r) ==
  /\ req[r].pc = "verifying" => AttemptOK(r)
  /\ req[r].pc \in Accepting => req[r].msg.nonce = req[r].cookie /\ Genuine(req[r].msg)
  /\ req[r].pc # "unsent" => req[r].msg.nonce \in DOMAIN born

PagesOK == /\ \A b \in Browser : known[b] \subseteq DOMAIN born
           /\ DOMAIN fetch \subseteq DOMAIN born

ApprovalInv == /\ DOMAIN at = Request
               /\ \A r \in Request : SoundRequest(r)
               /\ PagesOK

LEMMA ApprovalInit == HubInit => ApprovalInv
<1> SUFFICES ASSUME HubInit PROVE ApprovalInv
  OBVIOUS
<1>1. DOMAIN at = Request
  BY RequestAssumption DEF HubInit, VerificationInit
<1>2. \A r \in Request : req[r].pc = "unsent"
  BY DEF HubInit
<1>3. \A r \in Request : SoundRequest(r)
  BY <1>2 DEF SoundRequest, Accepting
<1>4. PagesOK
  BY DEF HubInit, PagesOK, Empty
<1> QED BY <1>1, <1>3, <1>4 DEF ApprovalInv

(* Nobody's business but the pages'. *)
LEMMA ApprovalPages ==
  ASSUME ApprovalInv, UNCHANGED <<at, req>>, DOMAIN born \subseteq DOMAIN born', PagesOK'
  PROVE  ApprovalInv'
<1>1. ASSUME NEW r \in Request PROVE SoundRequest(r)'
  BY DEF ApprovalInv, SoundRequest, AttemptOK
<1> QED BY <1>1 DEF ApprovalInv

(* One request changes, and its verification. *)
LEMMA ApprovalMove ==
  ASSUME ApprovalInv, NEW r \in Request, SoundRequest(r)', DOMAIN at' = Request,
         \A s \in Request \ {r} : req'[s] = req[s] /\ at'[s] = at[s],
         DOMAIN born \subseteq DOMAIN born', PagesOK'
  PROVE  ApprovalInv'
<1>1. ASSUME NEW s \in Request \ {r} PROVE SoundRequest(s)'
  BY DEF ApprovalInv, SoundRequest, AttemptOK
<1> QED BY <1>1 DEF ApprovalInv

LEMMA PagesKept ==
  ASSUME ApprovalInv, UNCHANGED web, born' = born
  PROVE  PagesOK'
  BY DEF ApprovalInv, PagesOK, web

(* A move of the handler that neither begins nor ends a verification. *)
LEMMA ApprovalMoves ==
  ASSUME ApprovalInv, HubShape, NEW r \in Request, RequestOK(r), NEW pc, Moves(r, pc),
         UNCHANGED at, born' = born, PagesOK',
         pc # "verifying", pc \in Accepting => req[r].pc \in Accepting
  PROVE  ApprovalInv'
<1>1. /\ req'[r].pc = pc /\ req'[r].msg = req[r].msg /\ req'[r].cookie = req[r].cookie
      /\ \A s \in Request \ {r} : req'[s] = req[s]
  BY MovesFrame
<1>2. req[r].pc # "unsent"
  BY DEF RequestOK
<1>3. SoundRequest(r)'
  BY <1>1, <1>2 DEF ApprovalInv, SoundRequest
<1> QED BY <1>1, <1>3, ApprovalMove DEF ApprovalInv

LEMMA ApprovalFetch ==
  ASSUME ApprovalInv, HubShape, NEW n \in Nonce,
         (\E b \in Browser : FetchNonce(b, n)) \/ CountIssued(n) \/ DeliverNonce(n)
  PROVE  ApprovalInv'
<1>1. CASE \E b \in Browser : FetchNonce(b, n)
  <2>1. PICK b \in Browser : FetchNonce(b, n)
    BY <1>1
  <2>2. /\ DOMAIN born' = DOMAIN born \union {n} /\ DOMAIN fetch' = DOMAIN fetch \union {n}
        /\ UNCHANGED <<at, req, known>>
    BY <2>1 DEF FetchNonce, Issue, With, Put
  <2>3. PagesOK'
    BY <2>2 DEF ApprovalInv, PagesOK
  <2> QED BY <2>2, <2>3, ApprovalPages
<1>2. CASE CountIssued(n)
  <2>1. DOMAIN fetch' = DOMAIN fetch /\ UNCHANGED <<at, req, known, born>>
    BY <1>2 DEF CountIssued, store
  <2>2. PagesOK'
    BY <2>1 DEF ApprovalInv, PagesOK
  <2> QED BY <2>1, <2>2, ApprovalPages
<1>3. CASE DeliverNonce(n)
  <2>1. /\ DOMAIN fetch' = DOMAIN fetch /\ n \in DOMAIN fetch /\ UNCHANGED <<at, req, born>>
        /\ known' = [known EXCEPT ![fetch[n].browser] = known[fetch[n].browser] \union {n}]
    BY <1>3 DEF DeliverNonce, store
  <2>2. \A b \in Browser : known'[b] \subseteq known[b] \union {n}
    BY <2>1 DEF HubShape, WebOK
  <2>3. PagesOK'
    BY <2>1, <2>2 DEF ApprovalInv, PagesOK
  <2> QED BY <2>1, <2>3, ApprovalPages
<1> QED BY <1>1, <1>2, <1>3

LEMMA ApprovalSend ==
  ASSUME ApprovalInv, HubShape, NEW r \in Request, NEW b \in Browser, NEW kind, NEW ns,
         NEW m \in Submissions, NEW n \in known[b], NEW token,
         Send(r, b, kind, ns, [m EXCEPT !.nonce = n], token)
  PROVE  ApprovalInv'
<1> DEFINE mm == [m EXCEPT !.nonce = n]
<1>1. mm.nonce = n
  <2>1. m \in SubmissionType
    BY SubmissionAssumption
  <2> QED BY <2>1 DEF SubmissionType
<1> HIDE DEF mm
<1>2. Send(r, b, kind, ns, mm, token)
  BY DEF mm
<1>3. /\ req'[r].pc = "sent" /\ req'[r].msg = mm
      /\ \A s \in Request \ {r} : req'[s] = req[s]
      /\ UNCHANGED <<at, born>> /\ UNCHANGED web
  <2> DEFINE v == [pc |-> "sent", kind |-> kind, browser |-> b, ns |-> ns, msg |-> mm,
                   cookie |-> jar[b], token |-> token, clears |-> FALSE, trail |-> <<>>,
                   id |-> "", wallets |-> <<>>, status |-> ""]
  <2>1. req' = [req EXCEPT ![r] = v] /\ v.pc = "sent" /\ v.msg = mm
    BY <1>2 DEF Send
  <2>2. UNCHANGED <<at, born>> /\ UNCHANGED web
    BY <1>2 DEF Send, store
  <2> HIDE DEF v
  <2> QED BY <2>1, <2>2 DEF HubShape, RequestsOK
<1>4. n \in DOMAIN born
  BY DEF ApprovalInv, PagesOK
<1>5. SoundRequest(r)'
  BY <1>1, <1>3, <1>4 DEF SoundRequest, Accepting
<1> QED BY <1>3, <1>5, PagesKept, ApprovalMove DEF ApprovalInv

(* A verification begins with the burned nonce as the one expected. *)
LEMMA ApprovalBegin ==
  ASSUME ApprovalInv, HubShape, NEW r \in Request, BeginVerify(r)
  PROVE  ApprovalInv'
<1>1. RequestOK(r) /\ req[r].pc = "begin" /\ Moves(r, "verifying")
  BY OtherMoves
<1>2. /\ req'[r].pc = "verifying" /\ req'[r].msg = req[r].msg /\ req'[r].cookie = req[r].cookie
      /\ \A s \in Request \ {r} : req'[s] = req[s]
  BY <1>1, MovesFrame
<1>3. PICK o \in Expectations : Begin(r, req[r].ns, req[r].msg, [o EXCEPT !.nonce = req[r].cookie])
  BY DEF BeginVerify
<1>4. [o EXCEPT !.nonce = req[r].cookie].nonce = req[r].cookie
  BY ExpectationAssumption
<1>5. /\ DOMAIN at'[r] = AtFields /\ at'[r].sub = req[r].msg /\ at'[r].opts.nonce = req[r].cookie
      /\ at'[r].pc = "lookup" /\ at'[r].rpc = <<>>
      /\ DOMAIN at' = Request /\ \A s \in Request \ {r} : at'[s] = at[s]
  BY <1>3, <1>4 DEF Begin, AtFields, ApprovalInv
<1>6. AttemptOK(r)'
  BY <1>2, <1>5 DEF AttemptOK
<1>7. SoundRequest(r)'
  BY <1>1, <1>2, <1>6 DEF SoundRequest, Accepting, ApprovalInv, BeginVerify, store
<1> QED BY <1>2, <1>5, <1>7, PagesKept, ApprovalMove DEF BeginVerify, store

LEMMA ApprovalStep ==
  ASSUME ApprovalInv, HubShape, NEW r \in Request, VerifyStep(r)
  PROVE  ApprovalInv'
<1>1. /\ req[r].pc = "verifying" /\ AttemptStep(r) /\ AsDemo(r)
      /\ UNCHANGED req /\ born' = born /\ UNCHANGED web
  BY DEF VerifyStep, AsDemo, store
<1>2. AttemptOK(r) /\ DOMAIN at = Request
  BY <1>1 DEF ApprovalInv, SoundRequest
<1>3. PICK v : Advances(r, v)
  BY <1>1, <1>2, StepAdvances
<1>4. AttemptOK(r)'
  BY <1>1, <1>2, <1>3, AttemptAdvances
<1>5. DOMAIN at' = Request /\ \A s \in Request \ {r} : at'[s] = at[s]
  BY <1>2, <1>3 DEF Advances
<1>6. SoundRequest(r)'
  BY <1>1, <1>4 DEF SoundRequest, Accepting, ApprovalInv
<1> QED BY <1>1, <1>5, <1>6, PagesKept, ApprovalMove

(* What registry.Verify accepted is what the request then rests on. *)
LEMMA ApprovalConclude ==
  ASSUME ApprovalInv, HubShape, NEW r \in Request, Conclude(r)
  PROVE  ApprovalInv'
<1>0. UNCHANGED <<at, born>> /\ PagesOK'
  BY PagesKept DEF Conclude, store
<1>1. RequestOK(r) /\ req[r].pc = "verifying" /\ at[r].pc = "done"
  BY ConcludeMoves
<1>2. CASE Moves(r, "reply")
  BY <1>0, <1>1, <1>2, ApprovalMoves DEF Accepting
<1>3. ASSUME at[r].err = "nil", NEW pc \in {"verify", "link"}, Moves(r, pc)
      PROVE  ApprovalInv'
  <2>1. /\ req'[r].pc = pc /\ req'[r].msg = req[r].msg /\ req'[r].cookie = req[r].cookie
        /\ \A s \in Request \ {r} : req'[s] = req[s]
    BY <1>1, <1>3, MovesFrame
  <2>2. req[r].msg.nonce = req[r].cookie /\ Genuine(req[r].msg) /\ req[r].msg.nonce \in DOMAIN born
    BY <1>1, <1>3 DEF ApprovalInv, SoundRequest, AttemptOK
  <2>3. SoundRequest(r)'
    BY <1>0, <2>1, <2>2 DEF SoundRequest, Genuine
  <2> QED BY <1>0, <2>1, <2>3, ApprovalMove DEF ApprovalInv
<1> QED BY <1>2, <1>3, ConcludeMoves

LEMMA ApprovalOther ==
  ASSUME ApprovalInv, HubShape, NEW r \in Request,
         \/ Receive(r) \/ BurnCookie(r) \/ Upsert(r) \/ ReadWallets(r) \/ Mint(r) \/ Link(r) \/ Deliver(r)
  PROVE  ApprovalInv'
<1>1. UNCHANGED at /\ born' = born
  BY DEF Receive, BurnCookie, BurnOK, BurnRejected, Upsert, ReadWallets, Mint, Link, Deliver, store
<1>2. PagesOK'
  <2>1. UNCHANGED <<fetch, known>>
    BY DEF Receive, BurnCookie, Upsert, ReadWallets, Mint, Link, Deliver, web
  <2> QED BY <1>1, <2>1 DEF ApprovalInv, PagesOK
<1>3. CASE Receive(r)
  BY <1>1, <1>2, <1>3, ReceiveMoves, ApprovalMoves DEF Accepting
<1>4. CASE BurnCookie(r)
  BY <1>1, <1>2, <1>4, BurnMoves, ApprovalMoves DEF Accepting
<1>5. CASE Upsert(r)
  BY <1>1, <1>2, <1>5, UpsertMoves, ApprovalMoves DEF Accepting
<1>6. CASE ReadWallets(r)
  BY <1>1, <1>2, <1>6, ReadWalletsMoves, ApprovalMoves DEF Accepting
<1>7. CASE Mint(r) \/ Link(r) \/ Deliver(r)
  BY <1>1, <1>2, <1>7, OtherMoves, ApprovalMoves DEF Accepting
<1> QED BY <1>3, <1>4, <1>5, <1>6, <1>7

LEMMA ApprovalCrash ==
  ASSUME ApprovalInv, HubShape, HubCrash
  PROVE  ApprovalInv'
<1>1. /\ DOMAIN at' = Request /\ born' = born /\ known' = known /\ DOMAIN fetch' \subseteq DOMAIN fetch
  BY RequestAssumption DEF HubCrash, LoseNonces
<1>2. ASSUME NEW r \in Request PROVE SoundRequest(r)'
  <2>1. CASE req[r].pc \in {"unsent", "reply", "done"}
    <3>1. req'[r] = req[r]
      BY <2>1 DEF HubCrash
    <3> QED BY <1>1, <2>1, <3>1 DEF ApprovalInv, SoundRequest, Accepting
  <2>2. CASE req[r].pc \notin {"unsent", "reply", "done"}
    <3> DEFINE v == [req[r] EXCEPT !.pc = "lost"]
    <3>1. RequestOK(r) /\ req'[r] = v
      BY <2>2, WasSent DEF HubCrash
    <3>2. v.pc = "lost" /\ v.msg = req[r].msg
      BY <3>1 DEF RequestOK, Fields
    <3> QED BY <1>1, <2>2, <3>1, <3>2 DEF ApprovalInv, SoundRequest, Accepting
  <2> QED BY <2>1, <2>2
<1>3. PagesOK'
  BY <1>1 DEF ApprovalInv, PagesOK
<1> QED BY <1>1, <1>2, <1>3 DEF ApprovalInv

LEMMA ApprovalNext == ApprovalInv /\ HubShape /\ [HubNext]_hubVars => ApprovalInv'
<1> SUFFICES ASSUME ApprovalInv, HubShape, [HubNext]_hubVars PROVE ApprovalInv'
  OBVIOUS
<1>1. CASE UNCHANGED <<at, req>> /\ UNCHANGED web /\ born' = born
  BY <1>1, PagesKept, ApprovalPages
<1>2. ASSUME NEW n \in Nonce, \/ \E b \in Browser : FetchNonce(b, n)
                             \/ CountIssued(n) \/ DeliverNonce(n)
      PROVE  ApprovalInv'
  BY <1>2, ApprovalFetch
<1>3. ASSUME NEW r \in Request, NEW b \in Browser, NEW ns, NEW m \in Submissions, NEW n \in known[b],
             \/ Send(r, b, "verify", ns, [m EXCEPT !.nonce = n], {})
             \/ \E t \in tokens : Send(r, b, "link", ns, [m EXCEPT !.nonce = n], t)
      PROVE  ApprovalInv'
  BY <1>3, ApprovalSend
<1>4. ASSUME NEW r \in Request, Handle(r) \/ Deliver(r) PROVE ApprovalInv'
  BY <1>4, ApprovalBegin, ApprovalStep, ApprovalConclude, ApprovalOther DEF Handle
<1>5. CASE HubCrash
  BY <1>5, ApprovalCrash
<1>6. ASSUME NEW w \in Contract, PostRegisterContractWallet(w) PROVE ApprovalInv'
  BY <1>1, <1>6 DEF PostRegisterContractWallet, store
<1>7. CASE Tick /\ UNCHANGED <<store, ids, at, chain, web, req, recorder, sessions>>
  BY <1>1, <1>7 DEF store
<1> QED BY <1>1, <1>2, <1>3, <1>4, <1>5, <1>6, <1>7 DEF HubNext, hubVars, store

LEMMA ApprovalAlways == HubSpec => []ApprovalInv
  BY ApprovalInit, ApprovalNext, ShapeAlways, PTL DEF HubSpec

-----------------------------------------------------------------------------
(* The refinement.  A nonce held by a request behind Burn is claimed, and  *)
(* nothing is offered and claimed at once.                                 *)
Sound == HubShape /\ NonceInv /\ OneUse /\ ApprovalInv

LEMMA HeldIsClaimed ==
  ASSUME Sound, NEW r \in Request, req[r].pc \in Past
  PROVE  RequestOK(r) /\ req[r].cookie \in Nonce /\ Fate(req[r].cookie) = "claimed"
<1>1. RequestOK(r)
  BY WasSent DEF Sound, Past
<1>2. req[r].cookie \in Nonce
  BY <1>1 DEF RequestOK
<1>3. /\ spent[req[r].cookie] = 1
      /\ \A g \in grants : g.nonce # req[r].cookie
  BY DEF Sound, OneUse, Holds
<1>4. req[r].cookie \in DOMAIN born
  BY <1>2, <1>3 DEF Sound, NonceInv, UnbornUnspent
<1>5. ~Offered(req[r].cookie)
  BY <1>2, <1>3 DEF Sound, NonceInv, EntriesAreFresh, Offered
<1>6. Claimed(req[r].cookie)
  BY DEF Claimed, Past
<1> QED BY <1>1, <1>2, <1>3, <1>4, <1>5, <1>6 DEF Fate

LEMMA OfferedIsFree ==
  ASSUME Sound, NEW n \in Nonce, Offered(n)
  PROVE  ~Claimed(n) /\ n \in DOMAIN born /\ spent[n] = 0 /\ \A g \in grants : g.nonce # n
<1>1. n \in DOMAIN born /\ spent[n] = 0
  BY DEF Sound, NonceInv, NonceTypeOK, EntriesAreFresh, Offered
<1>2. ~Claimed(n)
  BY <1>1 DEF Sound, OneUse, Holds, Past, Claimed
<1>3. \A g \in grants : g.nonce # n
  BY <1>1 DEF Sound, OneUse, OneGrantPerNonce
<1> QED BY <1>1, <1>2, <1>3

(* A step that neither approves nor grants, and gives no nonce a new life. *)
LEMMA StepLapses ==
  ASSUME UNCHANGED grants, Approvals' = Approvals,
         \A n \in Nonce : \/ Fate(n)' = Fate(n)
                          \/ Fate(n) \in {"offered", "claimed"} /\ Fate(n)' = "void"
  PROVE  Promised!Next
<1> DEFINE S == {n \in Nonce : Fate(n) # Fate(n)'}
<1>1. /\ \A n \in S : Fate(n) \in {"offered", "claimed"} /\ Fate(n)' = "void"
      /\ \A n \in Nonce \ S : Fate(n)' = Fate(n)
  OBVIOUS
<1>2. Successes' = Successes
  BY DEF Successes
<1>3. Promised!Lapse(S)
  BY <1>1, <1>2 DEF Promised!Lapse
<1>4. S \in SUBSET Nonce
  OBVIOUS
<1> QED BY <1>3, <1>4 DEF Promised!Next

(* Requests sent stay signed as they were. *)
LEMMA ApprovalsKept ==
  ASSUME \A s \in Request : \/ req'[s] = req[s]
                            \/ /\ req[s].pc # "unsent" /\ req'[s].pc # "unsent"
                               /\ req'[s].ns = req[s].ns /\ req'[s].msg = req[s].msg
  PROVE  Approvals' = Approvals
<1>1. \A s \in Request : Signed(s)' = Signed(s) /\ (Signed(s) => Account(s)' = Account(s)
                                                /\ req'[s].msg = req[s].msg)
  BY DEF Signed, Account
<1> QED BY <1>1 DEF Approvals

LEMMA FatesLapse ==
  ASSUME Sound, UNCHANGED <<born, grants>>,
         \A n \in Nonce : (Offered(n)' => Offered(n)) /\ (Claimed(n)' => Claimed(n))
  PROVE  \A n \in Nonce : \/ Fate(n)' = Fate(n)
                          \/ Fate(n) \in {"offered", "claimed"} /\ Fate(n)' = "void"
<1> SUFFICES ASSUME NEW n \in Nonce
             PROVE  \/ Fate(n)' = Fate(n)
                    \/ Fate(n) \in {"offered", "claimed"} /\ Fate(n)' = "void"
  OBVIOUS
<1>1. ~(Offered(n) /\ Claimed(n))
  BY OfferedIsFree
<1> QED BY <1>1 DEF Fate

(* A request goes on or gives its claim up. *)
LEMMA MoveLapses ==
  ASSUME Sound, NEW r \in Request, RequestOK(r), NEW pc, Moves(r, pc), pc # "unsent",
         pc \in Past => req[r].pc \in Past, UNCHANGED <<born, grants>>,
         \A n \in Nonce : Offered(n)' => Offered(n)
  PROVE  Promised!Next
<1>1. /\ req'[r].pc = pc /\ req'[r].msg = req[r].msg /\ req'[r].cookie = req[r].cookie
      /\ req'[r].ns = req[r].ns
      /\ \A s \in Request \ {r} : req'[s] = req[s]
  BY MovesFrame DEF Sound
<1>2. req[r].pc # "unsent"
  BY DEF RequestOK
<1>3. Approvals' = Approvals
  BY <1>1, <1>2, ApprovalsKept
<1>4. \A n \in Nonce : Claimed(n)' => Claimed(n)
  BY <1>1 DEF Claimed, Past
<1> QED BY <1>3, <1>4, FatesLapse, StepLapses

(* Requests stay where they are. *)
LEMMA StillLapses ==
  ASSUME Sound, UNCHANGED <<req, born, grants>>, \A n \in Nonce : Offered(n)' => Offered(n)
  PROVE  Promised!Next
<1>1. Approvals' = Approvals
  BY ApprovalsKept
<1>2. \A n \in Nonce : Claimed(n)' => Claimed(n)
  BY DEF Claimed
<1> QED BY <1>1, <1>2, FatesLapse, StepLapses

LEMMA OfferedKept ==
  ASSUME UNCHANGED store, UNCHANGED process
  PROVE  \A n \in Nonce : Offered(n)' = Offered(n)
  BY DEF store, process, Offered, Expired

LEMMA HubMapsInit == HubInit => Promised!Init
<1> SUFFICES ASSUME HubInit PROVE Promised!Init
  OBVIOUS
<1>1. \A n \in Nonce : Fate(n) = "unborn"
  BY DEF HubInit, NonceInit, Empty, Fate
<1>2. Approvals = {}
  BY DEF HubInit, Approvals, Signed
<1>3. Successes = {}
  BY DEF HubInit, Successes
<1> QED BY <1>1, <1>2, <1>3 DEF Promised!Init

(* GET /auth/nonce offers a nonce nobody has seen. *)
LEMMA FetchOffers ==
  ASSUME Sound, NEW n \in Nonce, NEW b \in Browser, FetchNonce(b, n)
  PROVE  Promised!Next
<1>1. PICK ttl \in TTLs : Issue(n, ttl)
  BY DEF FetchNonce
<1>2. /\ n \notin DOMAIN born /\ DOMAIN born' = DOMAIN born \union {n}
      /\ DOMAIN entries' = {j \in DOMAIN entries : ~Expired(entries[j])} \union {n}
      /\ entries'[n] = now + ttl
      /\ \A k \in DOMAIN entries' \ {n} : entries'[k] = entries[k]
      /\ spent' = spent /\ now' = now /\ req' = req /\ grants' = grants
  BY <1>1 DEF Issue, With, Swept, FetchNonce, process, sessions
<1>3. \A g \in grants : g.nonce # n
  BY <1>2 DEF Sound, NonceInv, UnbornUnspent, OneUse, OneGrantPerNonce
<1>4. Offered(n)'
  BY <1>2, TTLAssumption DEF Offered, Expired, Sound, NonceInv, NonceTypeOK
<1>5. Fate(n) = "unborn" /\ Fate(n)' = "offered"
  BY <1>2, <1>3, <1>4 DEF Fate
<1>6. \A k \in Nonce \ {n} : Fate(k)' = Fate(k)
  <2> SUFFICES ASSUME NEW k \in Nonce \ {n} PROVE Fate(k)' = Fate(k)
    OBVIOUS
  <2>1. Offered(k)' = Offered(k)
    BY <1>2 DEF Offered, Expired
  <2>2. Claimed(k)' = Claimed(k)
    BY <1>2 DEF Claimed
  <2> QED BY <1>2, <2>1, <2>2 DEF Fate
<1>7. Approvals' = Approvals
  BY <1>2, ApprovalsKept
<1>8. Successes' = Successes
  BY <1>2 DEF Successes
<1>9. Promised!Offer(n)
  BY <1>5, <1>6, <1>7, <1>8 DEF Promised!Offer, Promised!Becomes
<1> QED BY <1>9 DEF Promised!Next

(* A request signed for is an approval of the nonce its message names.     *)
LEMMA SendApproves ==
  ASSUME Sound, NEW r \in Request, NEW b \in Browser, NEW kind \in {"verify", "link"},
         NEW ns \in Namespace \union {""},
         NEW m \in Submissions, NEW n \in known[b], NEW token, kind = "link" => token \in tokens,
         Send(r, b, kind, ns, [m EXCEPT !.nonce = n], token)
  PROVE  Promised!Next
<1> DEFINE mm == [m EXCEPT !.nonce = n]
<1>1. mm.nonce = n /\ mm.ref = m.ref /\ mm.addr = m.addr
  <2>1. m \in SubmissionType
    BY SubmissionAssumption
  <2> QED BY <2>1 DEF SubmissionType
<1> HIDE DEF mm
<1>2. Send(r, b, kind, ns, mm, token)
  BY DEF mm
<1>3. /\ req[r].pc = "unsent" /\ req'[r].pc = "sent" /\ req'[r].msg = mm /\ req'[r].ns = ns
      /\ \A s \in Request \ {r} : req'[s] = req[s]
  <2> DEFINE v == [pc |-> "sent", kind |-> kind, browser |-> b, ns |-> ns, msg |-> mm,
                   cookie |-> jar[b], token |-> token, clears |-> FALSE, trail |-> <<>>,
                   id |-> "", wallets |-> <<>>, status |-> ""]
  <2>1. req' = [req EXCEPT ![r] = v] /\ v.pc = "sent" /\ v.msg = mm /\ v.ns = ns
    BY <1>2 DEF Send
  <2>2. req[r].pc = "unsent"
    BY <1>2 DEF Send
  <2> HIDE DEF v
  <2> QED BY <2>1, <2>2 DEF Sound, HubShape, RequestsOK
<1>4. UNCHANGED <<store, process, grants>>
  BY <1>2 DEF Send, sessions
<1>5. \A k \in Nonce : Fate(k)' = Fate(k)
  <2> SUFFICES ASSUME NEW k \in Nonce PROVE Fate(k)' = Fate(k)
    OBVIOUS
  <2>1. Offered(k)' = Offered(k)
    BY <1>4, OfferedKept
  <2>2. Claimed(k)' = Claimed(k)
    BY <1>3 DEF Claimed
  <2> QED BY <1>4, <2>1, <2>2 DEF Fate, store
<1>6. Successes' = Successes
  BY <1>4 DEF Successes
<1>7. ~Signed(r) /\ \A s \in Request \ {r} : Signed(s)' = Signed(s) /\ Account(s)' = Account(s)
  BY <1>3 DEF Signed, Account
<1>8. CASE ~Signed(r)'
  <2>1. Approvals' = Approvals
    BY <1>3, <1>7, <1>8 DEF Approvals
  <2> QED BY <1>4, <1>5, <2>1, StepLapses
<1>9. CASE Signed(r)'
  <2> DEFINE w == [ns |-> ns, ref |-> m.ref, addr |-> m.addr]
             A == [wallet |-> w, nonce |-> n]
  <2>1. Account(r)' = w
    BY <1>1, <1>3 DEF Account
  <2>2. w \in Wallet
    BY <1>3, <1>9, AccountAssumption DEF Signed
  <2> HIDE DEF w
  <2>3. [wallet |-> Account(r)', nonce |-> req'[r].msg.nonce] = A
    BY <1>1, <1>3, <2>1
  <2> HIDE DEF A
  <2>4. Approvals' = Approvals \union {A}
    <3> DEFINE Of(s) == [wallet |-> Account(s), nonce |-> req[s].msg.nonce]
    <3>1. \A s \in Request \ {r} : Of(s)' = Of(s) /\ Signed(s)' = Signed(s)
      BY <1>3, <1>7
    <3>2. Of(r)' = A
      BY <2>3
    <3>3. Approvals = {Of(s) : s \in {x \in Request : Signed(x)}}
      BY DEF Approvals
    <3>4. Approvals' = {Of(s)' : s \in {x \in Request : Signed(x)'}}
      BY DEF Approvals
    <3> HIDE DEF Of
    <3>5. \A x \in Approvals' : x \in Approvals \/ x = A
      BY <3>1, <3>2, <3>3, <3>4
    <3>6. \A x \in Approvals : x \in Approvals'
      BY <1>7, <3>1, <3>3, <3>4
    <3>7. A \in Approvals'
      BY <1>9, <3>2, <3>4
    <3> QED BY <3>5, <3>6, <3>7
  <2>5. n \in DOMAIN born /\ n \in Nonce
    BY DEF Sound, ApprovalInv, PagesOK, HubShape, WebOK
  <2>6. Fate(n) # "unborn"
    BY <2>5 DEF Fate
  <2>7. Promised!Approve(w, n)
    BY <1>5, <1>6, <2>4, <2>5, <2>6 DEF Promised!Approve, A
  <2> QED BY <2>2, <2>5, <2>7 DEF Promised!Next
<1> QED BY <1>8, <1>9

(* Burn claims the nonce of the cookie. *)
LEMMA BurnClaims ==
  ASSUME Sound, NEW r \in Request, BurnCookie(r)
  PROVE  Promised!Next
<1>0. PICK n \in Nonce : n = req[r].cookie
  BY BurnMoves DEF Sound
<1>1. RequestOK(r) /\ req[r].pc = "burn"
  BY BurnMoves DEF Sound
<1>2. UNCHANGED <<process, grants>>
  BY DEF BurnCookie, sessions
<1>3. CASE BurnRejected(n) /\ Moves(r, "reply")
  <2>1. \A k \in Nonce : Offered(k)' => Offered(k)
    BY <1>2, <1>3 DEF BurnRejected, Without, Offered, Expired, process
  <2>2. UNCHANGED born
    BY <1>3 DEF BurnRejected
  <2> QED BY <1>1, <1>2, <1>3, <2>1, <2>2, MoveLapses DEF Past
<1>4. CASE BurnOK(n) /\ Moves(r, "begin")
  <2>1. /\ req'[r].pc = "begin" /\ req'[r].cookie = n /\ req'[r].msg = req[r].msg
        /\ req'[r].ns = req[r].ns
        /\ \A s \in Request \ {r} : req'[s] = req[s]
    BY <1>0, <1>1, <1>4, MovesFrame DEF Sound
  <2>2. /\ Offered(n) /\ DOMAIN entries' = DOMAIN entries \ {n} /\ born' = born
        /\ \A k \in DOMAIN entries' : entries'[k] = entries[k]
    BY <1>4 DEF BurnOK, Offered, Without
  <2>3. n \in DOMAIN born /\ \A g \in grants : g.nonce # n
    BY <1>1, <2>2, OfferedIsFree
  <2>4. ~Offered(n)' /\ Claimed(n)'
    BY <2>1, <2>2 DEF Offered, Claimed
  <2>5. Fate(n) = "offered" /\ Fate(n)' = "claimed"
    BY <1>2, <2>2, <2>3, <2>4 DEF Fate
  <2>6. \A k \in Nonce \ {n} : Fate(k)' = Fate(k)
    <3> SUFFICES ASSUME NEW k \in Nonce \ {n} PROVE Fate(k)' = Fate(k)
      OBVIOUS
    <3>1. Offered(k)' = Offered(k)
      BY <1>2, <2>2 DEF Offered, Expired, process
    <3>2. Claimed(k)' = Claimed(k)
      BY <1>0, <1>1, <2>1 DEF Claimed, Past
    <3> QED BY <1>2, <2>2, <3>1, <3>2 DEF Fate
  <2>7. Approvals' = Approvals
    BY <1>1, <2>1, ApprovalsKept
  <2>8. Successes' = Successes
    BY <1>2 DEF Successes
  <2>9. Promised!Claim(n)
    BY <2>5, <2>6, <2>7, <2>8 DEF Promised!Claim, Promised!Becomes
  <2> QED BY <2>9 DEF Promised!Next
<1> QED BY <1>0, <1>3, <1>4, BurnMoves DEF Sound

(* A success rests on the claim of its request and on an approval.         *)
LEMMA GrantGrants ==
  ASSUME Sound, NEW r \in Request, req[r].pc \in Accepting, Granted(r), Moves(r, "reply"),
         UNCHANGED <<store, process>>
  PROVE  Promised!Next
<1>1. req[r].pc \in Past /\ req[r].pc # "unsent"
  BY DEF Past, Accepting
<1>2. RequestOK(r) /\ req[r].cookie \in Nonce /\ Fate(req[r].cookie) = "claimed"
  BY <1>1, HeldIsClaimed
<1>3. PICK n \in Nonce, w \in Wallet : n = req[r].cookie /\ w = Account(r)
  BY <1>1, <1>2 DEF RequestOK
<1>4. /\ req'[r].pc = "reply" /\ req'[r].cookie = n /\ req'[r].msg = req[r].msg
      /\ req'[r].ns = req[r].ns
      /\ \A s \in Request \ {r} : req'[s] = req[s]
  BY <1>2, <1>3, MovesFrame DEF Sound
<1>5. PICK g : grants' = grants \union {g} /\ g.nonce = n /\ g.wallet = w
  <2> DEFINE G == [req |-> r, nonce |-> req[r].cookie, wallet |-> Account(r), run |-> run]
  <2>1. grants' = grants \union {G} /\ G.nonce = n /\ G.wallet = w
    BY <1>3 DEF Granted
  <2> HIDE DEF G
  <2> QED BY <2>1
<1>6. [wallet |-> w, nonce |-> n] \in Approvals
  <2>1. req[r].msg.nonce = n /\ Genuine(req[r].msg)
    BY <1>3 DEF Sound, ApprovalInv, SoundRequest
  <2>2. Signed(r)
    BY <1>1, <1>2, <2>1 DEF Signed, Genuine, RequestOK
  <2> QED BY <1>3, <2>1, <2>2 DEF Approvals
<1>7. Approvals' = Approvals
  BY <1>1, <1>4, ApprovalsKept
<1>8. Successes' = Successes \union {[wallet |-> w, nonce |-> n]}
  BY <1>5 DEF Successes
<1>9. Fate(n) = "claimed" /\ Fate(n)' = "granted"
  <2>1. n \in DOMAIN born'
    BY <1>2, <1>3 DEF Fate, store
  <2> QED BY <1>2, <1>3, <1>5, <2>1 DEF Fate
<1>10. \A k \in Nonce \ {n} : Fate(k)' = Fate(k)
  <2> SUFFICES ASSUME NEW k \in Nonce \ {n} PROVE Fate(k)' = Fate(k)
    OBVIOUS
  <2>1. Offered(k)' = Offered(k)
    BY OfferedKept
  <2>2. Claimed(k)' = Claimed(k)
    BY <1>3, <1>4 DEF Claimed
  <2>3. (\E h \in grants' : h.nonce = k) <=> (\E h \in grants : h.nonce = k)
    BY <1>5
  <2> QED BY <2>1, <2>2, <2>3 DEF Fate, store
<1>11. Promised!Grant(w, n)
  BY <1>6, <1>7, <1>8, <1>9, <1>10 DEF Promised!Grant, Promised!Becomes
<1> QED BY <1>11 DEF Promised!Next

(* Mint and a link that lands are successes; whatever else a handler does  *)
(* behind Burn moves its request or gives it up.                           *)
LEMMA HandleMaps ==
  ASSUME Sound, NEW r \in Request, Handle(r)
  PROVE  Promised!Next
<1>1. CASE BurnCookie(r)
  BY <1>1, BurnClaims
<1>2. CASE Mint(r)
  <2>1. req[r].pc \in Accepting /\ Granted(r) /\ UNCHANGED <<store, process>>
    BY <1>2 DEF Mint, Accepting
  <2> QED BY <1>2, <2>1, OtherMoves, GrantGrants DEF Sound
<1>3. CASE Link(r) /\ Granted(r)
  <2>1. req[r].pc \in Accepting /\ UNCHANGED <<store, process>>
    BY <1>3 DEF Link, Accepting
  <2> QED BY <1>3, <2>1, OtherMoves, GrantGrants DEF Sound
<1>4. CASE VerifyStep(r)
  <2>1. UNCHANGED <<store, process, req, grants>>
    BY <1>4 DEF VerifyStep, sessions
  <2>2. UNCHANGED born
    BY <2>1 DEF store
  <2> QED BY <2>1, <2>2, OfferedKept, StillLapses
<1>5. CASE \/ Receive(r) \/ BeginVerify(r) \/ Conclude(r) \/ Upsert(r) \/ ReadWallets(r)
           \/ Link(r) /\ UNCHANGED grants
  <2>1. UNCHANGED <<store, process, grants>>
    BY <1>5 DEF Receive, BeginVerify, Conclude, Upsert, ReadWallets, Link, sessions
  <2>2. UNCHANGED born /\ \A n \in Nonce : Offered(n)' = Offered(n)
    BY <2>1, OfferedKept DEF store
  <2>3. RequestOK(r) /\ \E pc : Moves(r, pc) /\ pc # "unsent" /\ (pc \in Past => req[r].pc \in Past)
    <3>1. CASE Receive(r)
      BY <3>1, ReceiveMoves DEF Sound, Past
    <3>2. CASE BeginVerify(r) \/ Link(r)
      BY <3>2, OtherMoves DEF Sound, Past
    <3>3. CASE Conclude(r)
      BY <3>3, ConcludeMoves DEF Sound, Past
    <3>4. CASE Upsert(r)
      BY <3>4, UpsertMoves DEF Sound, Past
    <3>5. CASE ReadWallets(r)
      BY <3>5, ReadWalletsMoves DEF Sound, Past
    <3> QED BY <1>5, <3>1, <3>2, <3>3, <3>4, <3>5
  <2>4. PICK pc : Moves(r, pc) /\ pc # "unsent" /\ (pc \in Past => req[r].pc \in Past)
    BY <2>3
  <2> QED BY <2>1, <2>2, <2>3, <2>4, MoveLapses
<1> QED BY <1>1, <1>2, <1>3, <1>4, <1>5 DEF Handle, Link

(* A crash takes every offer and every claim.                              *)
LEMMA CrashLapses ==
  ASSUME Sound, HubCrash
  PROVE  Promised!Next
<1>1. UNCHANGED <<born, grants>> /\ DOMAIN entries' = {}
  BY DEF HubCrash, LoseNonces, sessions, Empty
<1>2. ASSUME NEW r \in Request
      PROVE  \/ req'[r] = req[r] /\ req[r].pc \notin Past
             \/ /\ req[r].pc # "unsent" /\ req'[r].pc = "lost"
                /\ req'[r].ns = req[r].ns /\ req'[r].msg = req[r].msg
  <2>1. CASE req[r].pc \in {"unsent", "reply", "done"}
    BY <2>1 DEF HubCrash, Past
  <2>2. CASE req[r].pc \notin {"unsent", "reply", "done"}
    <3>1. RequestOK(r) /\ req'[r] = [req[r] EXCEPT !.pc = "lost"]
      BY <2>2, WasSent DEF HubCrash, Sound
    <3> QED BY <2>2, <3>1 DEF RequestOK, Fields
  <2> QED BY <2>1, <2>2
<1>3. Approvals' = Approvals
  BY <1>2, ApprovalsKept
<1>4. \A n \in Nonce : ~Offered(n)' /\ ~Claimed(n)'
  BY <1>1, <1>2 DEF Offered, Claimed, Past
<1> QED BY <1>1, <1>3, <1>4, FatesLapse, StepLapses

LEMMA HubMapsNext == Sound /\ [HubNext]_hubVars => [Promised!Next]_Promised!vars
<1> SUFFICES ASSUME Sound, [HubNext]_hubVars PROVE Promised!Next
  BY DEF Promised!vars
<1>1. ASSUME UNCHANGED <<store, process, req, grants>> PROVE Promised!Next
  BY <1>1, OfferedKept, StillLapses DEF store
<1>2. ASSUME NEW n \in Nonce, \/ \E b \in Browser : FetchNonce(b, n)
                             \/ CountIssued(n) \/ DeliverNonce(n)
      PROVE  Promised!Next
  BY <1>1, <1>2, FetchOffers DEF CountIssued, DeliverNonce, sessions
<1>3. ASSUME NEW r \in Request, NEW b \in Browser, NEW ns \in Namespace \union {""},
             NEW m \in Submissions, NEW n \in known[b],
             \/ Send(r, b, "verify", ns, [m EXCEPT !.nonce = n], {})
             \/ \E t \in tokens : Send(r, b, "link", ns, [m EXCEPT !.nonce = n], t)
      PROVE  Promised!Next
  BY <1>3, SendApproves
<1>4. ASSUME NEW r \in Request, Handle(r) PROVE Promised!Next
  BY <1>4, HandleMaps
<1>5. ASSUME NEW r \in Request, Deliver(r) PROVE Promised!Next
  <2>1. RequestOK(r) /\ Moves(r, "done") /\ UNCHANGED <<store, process, grants>>
    BY <1>5, OtherMoves DEF Sound, Deliver, sessions
  <2>2. UNCHANGED born /\ \A n \in Nonce : Offered(n)' = Offered(n)
    BY <2>1, OfferedKept DEF store
  <2> QED BY <2>1, <2>2, MoveLapses DEF Past
<1>6. CASE HubCrash
  BY <1>6, CrashLapses
<1>7. ASSUME NEW w \in Contract, PostRegisterContractWallet(w) PROVE Promised!Next
  BY <1>1, <1>7 DEF PostRegisterContractWallet, sessions
<1>8. CASE Tick /\ UNCHANGED <<store, ids, at, chain, web, req, recorder, sessions>>
  <2>1. \A n \in Nonce : Offered(n)' => Offered(n)
    BY <1>8 DEF Tick, store, Offered, Expired, Sound, NonceInv, NonceTypeOK
  <2> QED BY <1>8, <2>1, StillLapses DEF store, sessions
<1>9. CASE UNCHANGED hubVars
  BY <1>1, <1>9 DEF hubVars, sessions
<1> QED BY <1>2, <1>3, <1>4, <1>5, <1>6, <1>7, <1>8, <1>9 DEF HubNext

LEMMA SoundAlways == HubSpec => []Sound
<1>1. HubSpec => []OneUse
  BY OneUseInit, OneUseNext, ShapeAlways, HubKeepsNonceInv, PTL DEF HubSpec
<1> QED BY <1>1, ShapeAlways, HubKeepsNonceInv, ApprovalAlways, PTL DEF Sound

(* handlers.go burns before it verifies, verifies with the burned nonce as *)
(* the one expected, and mints or links only after nil: whatever tabs,     *)
(* replays, late answers, expiry, chain calls and restarts do in between,  *)
(* every success is of one claim of one nonce its wallet's holder signed.  *)
THEOREM HubImplementsSignIn == HubSpec => ImplementsSignIn
  BY HubMapsInit, HubMapsNext, SoundAlways, PTL DEF HubSpec, ImplementsSignIn, Promised!Spec
=============================================================================
