-------------------------- MODULE HubMetrics_proofs --------------------------
(***************************************************************************)
(* What the hub promises of its verifications and of its counters, for any *)
(* number of browsers, requests, nonces and restarts: registry.Verify      *)
(* keeps its promises when the handlers call it, and the counters are in   *)
(* order at whatever moment they are looked at.                            *)
(***************************************************************************)
EXTENDS HubSignIn_proofs, FiniteSetTheorems

-----------------------------------------------------------------------------
(* How a request's own step moves it: to where, and what it keeps.         *)
Kept(r) ==
  /\ req[r].pc # "unsent" /\ req'[r].pc # "unsent"
  /\ req'[r].msg = req[r].msg /\ req'[r].cookie = req[r].cookie /\ req'[r].kind = req[r].kind
  /\ \A s \in Request \ {r} : req'[s] = req[s]

Goes(r, from, to) == Kept(r) /\ req[r].pc = from /\ req'[r].pc = to

LEMMA MovesGo ==
  ASSUME HubShape, NEW r \in Request, RequestOK(r), NEW from, req[r].pc = from,
         NEW to, to # "unsent", Moves(r, to)
  PROVE  Goes(r, from, to)
  BY MovesFrame DEF Goes, Kept, RequestOK

(* The steps that leave the verification alone. *)
Quietly(r) ==
  \/ Goes(r, "sent", "reply") \/ Goes(r, "sent", "burn")
  \/ Goes(r, "burn", "begin") \/ Goes(r, "burn", "reply")
  \/ Goes(r, "verify", "wallets") \/ Goes(r, "wallets", "mint") \/ Goes(r, "wallets", "reply")
  \/ Goes(r, "mint", "reply") \/ Goes(r, "link", "reply") \/ Goes(r, "reply", "done")

LEMMA QuietStep ==
  ASSUME HubShape, NEW r \in Request,
         \/ Receive(r) \/ BurnCookie(r) \/ Upsert(r) \/ ReadWallets(r) \/ Mint(r) \/ Link(r) \/ Deliver(r)
  PROVE  Quietly(r) /\ UNCHANGED <<at, born, run, now>>
<1>1. UNCHANGED <<at, born, run, now>>
  BY DEF Receive, BurnCookie, BurnOK, BurnRejected, Upsert, ReadWallets, Mint, Link, Deliver, store,
         process
<1>2. CASE Receive(r)
  <2>1. req[r].pc = "sent"
    BY <1>2 DEF Receive
  <2> QED BY <1>1, <1>2, <2>1, ReceiveMoves, MovesGo DEF Quietly
<1>3. CASE BurnCookie(r)
  BY <1>1, <1>3, BurnMoves, MovesGo DEF Quietly
<1>4. CASE Upsert(r)
  BY <1>1, <1>4, UpsertMoves, MovesGo DEF Quietly
<1>5. CASE ReadWallets(r)
  BY <1>1, <1>5, ReadWalletsMoves, MovesGo DEF Quietly
<1>6. CASE Mint(r) \/ Link(r) \/ Deliver(r)
  BY <1>1, <1>6, OtherMoves, MovesGo DEF Quietly
<1> QED BY <1>2, <1>3, <1>4, <1>5, <1>6

(* The steps around the verification. *)
LEMMA ConcludeGoes ==
  ASSUME HubShape, NEW r \in Request, Conclude(r)
  PROVE  /\ UNCHANGED <<at, store, process, count, fetch>> /\ at[r].pc = "done"
         /\ \/ at[r].err = "nil" /\ req[r].kind \in {"verify", "link"}
                                 /\ Goes(r, "verifying", req[r].kind)
            \/ at[r].err # "nil" /\ Goes(r, "verifying", "reply")
<1>1. UNCHANGED <<at, store, process, count, fetch>>
  BY DEF Conclude, web
<1> QED BY <1>1, ConcludeMoves, MovesGo

LEMMA BeginGoes ==
  ASSUME HubShape, NEW r \in Request, BeginVerify(r)
  PROVE  /\ Goes(r, "begin", "verifying") /\ UNCHANGED <<store, process, fetch>>
         /\ \E o : Begin(r, req[r].ns, req[r].msg, o)
<1>1. UNCHANGED <<store, process, fetch>> /\ \E o : Begin(r, req[r].ns, req[r].msg, o)
  BY DEF BeginVerify, web
<1> QED BY <1>1, OtherMoves, MovesGo

(* Only these touch a request; the rest leave every one where it is.       *)
LEMMA HandleKeeps ==
  ASSUME HubShape, NEW r \in Request, Handle(r) \/ Deliver(r)
  PROVE  Kept(r)
<1>1. CASE VerifyStep(r)
  BY <1>1 DEF VerifyStep, Kept
<1> QED BY <1>1, QuietStep, ConcludeGoes, BeginGoes DEF Handle, Quietly, Goes

-----------------------------------------------------------------------------
(* registry.Verify in the hub: the calls are sound, as they are anywhere.  *)
MessagesParsed == \A r \in Request : req[r].pc # "unsent" => Parsed(req[r].msg)

HubCalls == CallsSound /\ MessagesParsed

LEMMA HubCallsInit == HubInit => HubCalls
<1> SUFFICES ASSUME HubInit PROVE HubCalls
  OBVIOUS
<1>1. now \in Nat /\ DOMAIN at = Attempt /\ \A a \in Attempt : at[a] = Idle
  BY DEF HubInit, NonceInit, ProcessInit, VerificationInit
<1>2. \A r \in Request : req[r].pc = "unsent"
  BY DEF HubInit
<1> QED BY <1>1, <1>2 DEF CallsSound, HubCalls, MessagesParsed

LEMMA SoundStill ==
  ASSUME CallsSound, UNCHANGED <<at, now>>
  PROVE  CallsSound'
  BY DEF CallsSound

LEMMA ParsedKept ==
  ASSUME MessagesParsed, NEW r \in Request, Kept(r)
  PROVE  MessagesParsed'
<1>1. ASSUME NEW s \in Request, req'[s].pc # "unsent" PROVE Parsed(req'[s].msg)
  BY <1>1 DEF Kept, MessagesParsed
<1> QED BY <1>1 DEF MessagesParsed

(* What Send sends is the message chosen, with the nonce of the page.      *)
LEMMA SendGoes ==
  ASSUME HubShape, NEW r \in Request, NEW b, NEW kind, NEW ns, NEW m, NEW token,
         Send(r, b, kind, ns, m, token)
  PROVE  /\ req[r].pc = "unsent" /\ req'[r].pc = "sent" /\ req'[r].msg = m
         /\ req'[r].cookie = jar[b] /\ req'[r].kind = kind
         /\ \A s \in Request \ {r} : req'[s] = req[s]
         /\ UNCHANGED <<at, store, process, web, count>>
<1>1. PICK v : /\ v = [pc |-> "sent", kind |-> kind, browser |-> b, ns |-> ns, msg |-> m,
                       cookie |-> jar[b], token |-> token, clears |-> FALSE, trail |-> <<>>,
                       id |-> "", wallets |-> <<>>, status |-> ""]
               /\ req' = [req EXCEPT ![r] = v]
  BY DEF Send
<1>2. v.pc = "sent" /\ v.msg = m /\ v.cookie = jar[b] /\ v.kind = kind
  BY <1>1
<1>3. req[r].pc = "unsent" /\ UNCHANGED <<at, store, process, web, count>>
  BY DEF Send, recorder
<1> QED BY <1>1, <1>2, <1>3 DEF HubShape, RequestsOK

LEMMA HubCallsSend ==
  ASSUME HubCalls, HubShape, NEW r \in Request, NEW b \in Browser, NEW kind, NEW ns,
         NEW m \in Submissions, NEW n \in known[b], NEW token,
         Send(r, b, kind, ns, [m EXCEPT !.nonce = n], token)
  PROVE  HubCalls'
<1>1. PICK mm : mm = [m EXCEPT !.nonce = n] /\ Send(r, b, kind, ns, mm, token)
  OBVIOUS
<1>2. /\ req'[r].msg = mm /\ \A s \in Request \ {r} : req'[s] = req[s]
      /\ UNCHANGED <<at, now>>
  BY <1>1, SendGoes DEF process
<1>3. Parsed(mm)
  <2>1. m \in SubmissionType
    BY SubmissionAssumption
  <2>2. /\ mm.nb = m.nb /\ mm.exp = m.exp /\ mm.parses = m.parses /\ mm.domain = m.domain
        /\ mm.nonce = n /\ m.nb \subseteq Nat /\ m.exp \subseteq Nat
    BY <1>1, <2>1 DEF SubmissionType
  <2>3. n # ""
    BY NonceAssumption DEF HubShape, WebOK
  <2> QED BY <2>2, <2>3, ParsedAssumption DEF Parsed
<1>4. MessagesParsed'
  BY <1>2, <1>3 DEF MessagesParsed, HubCalls
<1> QED BY <1>2, <1>4, SoundStill DEF HubCalls

LEMMA HubCallsBegin ==
  ASSUME HubCalls, HubShape, NEW r \in Request, BeginVerify(r)
  PROVE  HubCalls'
<1>1. PICK o : Begin(r, req[r].ns, req[r].msg, o)
  BY BeginGoes
<1>2. r \in Attempt /\ now \in Nat /\ now' = now /\ Parsed(req[r].msg)
  BY RequestAssumption, BeginGoes DEF HubCalls, CallsSound, MessagesParsed, Goes, process
<1>3. PICK ns, m : Begin(r, ns, m, o) /\ Parsed(m)
  BY <1>1, <1>2
<1>4. PICK v : CallSound(v, now) /\ Becoming(r, v)
  BY <1>2, <1>3, BeginSound
<1>5. CallsSound'
  BY <1>2, <1>4, CallsSoundStep DEF HubCalls
<1> QED BY <1>5, BeginGoes, ParsedKept DEF HubCalls, Goes

LEMMA HubCallsStep ==
  ASSUME HubCalls, HubShape, NEW r \in Request, VerifyStep(r)
  PROVE  HubCalls'
<1>1. r \in Attempt /\ now \in Nat /\ now' = now /\ AttemptStep(r)
  BY RequestAssumption DEF HubCalls, CallsSound, VerifyStep, process
<1>2. CallSound(at[r], now)
  BY <1>1, StepOfSound DEF HubCalls
<1>3. PICK v : CallSound(v, now) /\ Becoming(r, v)
  BY <1>1, <1>2, AttemptSound
<1>4. CallsSound'
  BY <1>1, <1>3, CallsSoundStep DEF HubCalls
<1>5. Kept(r)
  BY HandleKeeps DEF Handle
<1> QED BY <1>4, <1>5, ParsedKept DEF HubCalls

LEMMA HubCallsCrash ==
  ASSUME HubCalls, HubShape, HubCrash
  PROVE  HubCalls'
<1>1. DOMAIN at' = Attempt /\ (\A a \in Attempt : at'[a] = Idle) /\ now' = now
  BY DEF HubCrash, Crash
<1>2. CallsSound'
  BY <1>1 DEF HubCalls, CallsSound
<1>3. ASSUME NEW r \in Request, req'[r].pc # "unsent" PROVE Parsed(req'[r].msg)
  <2>1. CASE req[r].pc \in {"unsent", "reply", "done"}
    BY <1>3, <2>1 DEF HubCrash, HubCalls, MessagesParsed
  <2>2. CASE req[r].pc \notin {"unsent", "reply", "done"}
    <3>1. DOMAIN req[r] = Fields
      BY <2>2, WasSent DEF RequestOK
    <3>2. PICK v : v = [req[r] EXCEPT !.pc = "lost"] /\ req'[r] = v
      BY <2>2 DEF HubCrash
    <3>3. v.msg = req[r].msg
      BY <3>1, <3>2 DEF Fields
    <3> QED BY <2>2, <3>2, <3>3 DEF HubCalls, MessagesParsed
  <2> QED BY <2>1, <2>2
<1> QED BY <1>2, <1>3 DEF HubCalls, MessagesParsed

LEMMA HubCallsNext == HubCalls /\ HubShape /\ [HubNext]_hubVars => HubCalls'
<1> SUFFICES ASSUME HubCalls, HubShape, [HubNext]_hubVars PROVE HubCalls'
  OBVIOUS
<1>1. CASE UNCHANGED <<at, now, req>>
  BY <1>1, SoundStill DEF HubCalls, MessagesParsed
<1>2. ASSUME NEW n \in Nonce, \/ \E b \in Browser : FetchNonce(b, n)
                             \/ CountIssued(n) \/ DeliverNonce(n)
      PROVE  HubCalls'
  BY <1>1, <1>2 DEF FetchNonce, CountIssued, DeliverNonce, process
<1>3. ASSUME NEW r \in Request, NEW b \in Browser, NEW ns, NEW m \in Submissions, NEW n \in known[b],
             \/ Send(r, b, "verify", ns, [m EXCEPT !.nonce = n], {})
             \/ \E t \in tokens : Send(r, b, "link", ns, [m EXCEPT !.nonce = n], t)
      PROVE  HubCalls'
  BY <1>3, HubCallsSend
<1>4. ASSUME NEW r \in Request, Handle(r) \/ Deliver(r) PROVE HubCalls'
  <2>1. CASE BeginVerify(r)
    BY <2>1, HubCallsBegin
  <2>2. CASE VerifyStep(r)
    BY <2>2, HubCallsStep
  <2>3. CASE ~BeginVerify(r) /\ ~VerifyStep(r)
    <3>1. UNCHANGED <<at, now>>
      BY <1>4, <2>3, QuietStep, ConcludeGoes DEF Handle, process
    <3> QED BY <1>4, <3>1, HandleKeeps, SoundStill, ParsedKept DEF HubCalls
  <2> QED BY <2>1, <2>2, <2>3
<1>5. CASE HubCrash
  BY <1>5, HubCallsCrash
<1>6. ASSUME NEW w \in Contract, PostRegisterContractWallet(w) PROVE HubCalls'
  BY <1>1, <1>6 DEF PostRegisterContractWallet, process
<1>7. CASE Tick /\ UNCHANGED <<store, ids, at, chain, web, req, recorder, sessions>>
  BY <1>7, CallsSoundTick DEF HubCalls, MessagesParsed
<1> QED BY <1>1, <1>2, <1>3, <1>4, <1>5, <1>6, <1>7 DEF HubNext, hubVars, process

LEMMA HubCallsAlways == HubSpec => []HubCalls
  BY HubCallsInit, HubCallsNext, ShapeAlways, PTL DEF HubSpec

(* Whatever the hub's handlers, restarts and wallets do around it, the     *)
(* registry they call reports each verification in the S3 order, accepts   *)
(* only a message that was valid at one instant of the call, on the word   *)
(* of the signature's authority, and gives a true reason otherwise.        *)
THEOREM HubVerifiesSoundly ==
  HubSpec => [](/\ TrailInOrder /\ AcceptedIsValid /\ RejectionIsTrue
                /\ AcceptedByAuthority /\ ChainCallsAsConfigured)
<1>1. HubCalls => /\ TrailInOrder /\ AcceptedIsValid /\ RejectionIsTrue
                  /\ AcceptedByAuthority /\ ChainCallsAsConfigured
  BY SoundInOrder, SoundValid, SoundRejection, SoundAuthority, SoundChainCalls DEF HubCalls
<1> QED BY <1>1, HubCallsAlways, PTL

-----------------------------------------------------------------------------
(* Where a verification stands when its handler does: none is made before  *)
(* registry.Verify is called or after a crash, and a handler that goes on  *)
(* after it was told "nil".                                                *)
Phased(r) ==
  /\ req[r].pc \in {"unsent", "sent", "burn", "begin", "lost"} => at[r].pc = "idle"
  /\ req[r].pc = "verifying" => at[r].pc # "idle"
  /\ req[r].pc \in Accepting => at[r].pc = "done" /\ at[r].err = "nil"
  /\ req[r].pc \in {"verify", "wallets", "mint"} => req[r].kind = "verify"

InPhase == \A r \in Request : Phased(r)

LEMMA InPhaseInit == HubInit => InPhase
<1> SUFFICES ASSUME HubInit, NEW r \in Request PROVE Phased(r)
  BY DEF InPhase
<1>1. req[r].pc = "unsent" /\ at[r].pc = "idle"
  BY RequestAssumption DEF HubInit, VerificationInit, Idle
<1> QED BY <1>1 DEF Phased, Accepting

LEMMA PhasedMove ==
  ASSUME InPhase, NEW r \in Request, Kept(r), \A s \in Request \ {r} : at'[s] = at[s], Phased(r)'
  PROVE  InPhase'
<1>1. ASSUME NEW s \in Request \ {r} PROVE Phased(s)'
  BY DEF Kept, InPhase, Phased
<1> QED BY <1>1 DEF InPhase

LEMMA PhasedQuietly ==
  ASSUME InPhase, NEW r \in Request, Quietly(r), UNCHANGED at
  PROVE  InPhase'
<1>1. Kept(r)
  BY DEF Quietly, Goes
<1>2. Phased(r)'
  BY DEF Quietly, Goes, Kept, InPhase, Phased, Accepting
<1> QED BY <1>1, <1>2, PhasedMove

(* Only the attempt of the request moves, and it was called and stays so.  *)
LEMMA StepFrame ==
  ASSUME HubCalls, NEW r \in Request, VerifyStep(r)
  PROVE  /\ req[r].pc = "verifying" /\ UNCHANGED req
         /\ DOMAIN at[r] = AtFields /\ at[r].pc # "idle" /\ at'[r].pc # "idle"
         /\ Continues(at[r], at'[r]) /\ CallSound(at[r], now)
         /\ \A s \in Request \ {r} : at'[s] = at[s]
<1>1. /\ r \in Attempt /\ now \in Nat /\ now' = now /\ AttemptStep(r) /\ DOMAIN at = Attempt
      /\ req[r].pc = "verifying" /\ UNCHANGED req
  BY RequestAssumption DEF HubCalls, CallsSound, VerifyStep, process
<1>2. CallSound(at[r], now) /\ DOMAIN at[r] = AtFields
  BY <1>1, StepOfSound DEF HubCalls
<1>3. PICK v : CallSound(v, now) /\ Becoming(r, v)
  BY <1>1, <1>2, AttemptSound
<1>4. at'[r] = v /\ \A s \in Request \ {r} : at'[s] = at[s]
  BY <1>1, <1>3, RequestAssumption, CallsSoundStep DEF HubCalls
<1>5. v.pc # "idle" /\ at[r].pc # "idle"
  BY <1>2, <1>3 DEF CallSound, Shaped, Running, Over, ChainCall
<1> QED BY <1>1, <1>2, <1>4, <1>5, StepContinues

LEMMA BeginFrame ==
  ASSUME HubShape, HubCalls, NEW r \in Request, BeginVerify(r)
  PROVE  /\ Goes(r, "begin", "verifying") /\ UNCHANGED <<store, process, fetch>>
         /\ at[r].pc = "idle" /\ at'[r].pc = "lookup"
         /\ \A s \in Request \ {r} : at'[s] = at[s]
<1>1. PICK ns, m, o : Begin(r, ns, m, o)
  BY BeginGoes
<1>2. PICK v : v.pc = "lookup" /\ at' = [at EXCEPT ![r] = v]
  <2>1. PICK v : /\ v = [pc |-> "lookup", ns |-> ns, sub |-> m, opts |-> o, start |-> now,
                         verifier |-> [ns |-> ""], clock |-> 0, rpc |-> <<>>,
                         trail |-> <<[name |-> "attempt", ok |-> TRUE]>>, err |-> "nil"]
                 /\ at' = [at EXCEPT ![r] = v]
    BY <1>1 DEF Begin
  <2>2. v.pc = "lookup"
    BY <2>1
  <2> QED BY <2>1, <2>2
<1>3. DOMAIN at = Request /\ at[r].pc = "idle"
  BY <1>1, RequestAssumption DEF HubCalls, CallsSound, Begin
<1> QED BY <1>2, <1>3, BeginGoes

(* A restart: no verification is left, and no handler waits for one.       *)
LEMMA CrashFrame ==
  ASSUME HubShape, HubCrash
  PROVE  /\ \A r \in Request :
              /\ at'[r].pc = "idle" /\ req'[r].cookie = req[r].cookie
              /\ \/ req[r].pc \in {"unsent", "reply", "done"} /\ req'[r] = req[r]
                 \/ req[r].pc \notin {"unsent", "reply", "done"} /\ req'[r].pc = "lost"
         /\ run' = run + 1 /\ born' = born /\ count' = Zero /\ UNCHANGED <<spent, jar, known>>
         /\ DOMAIN fetch' = {k \in DOMAIN fetch : fetch[k].pc # "issued"}
         /\ \A n \in DOMAIN fetch' : fetch'[n] = fetch[n]
<1>1. /\ run' = run + 1 /\ born' = born /\ count' = Zero /\ UNCHANGED <<spent, jar, known>>
      /\ DOMAIN fetch' = {k \in DOMAIN fetch : fetch[k].pc # "issued"}
      /\ \A n \in DOMAIN fetch' : fetch'[n] = fetch[n]
  BY DEF HubCrash, Crash, LoseNonces
<1>2. ASSUME NEW r \in Request
      PROVE  /\ at'[r].pc = "idle" /\ req'[r].cookie = req[r].cookie
             /\ \/ req[r].pc \in {"unsent", "reply", "done"} /\ req'[r] = req[r]
                \/ req[r].pc \notin {"unsent", "reply", "done"} /\ req'[r].pc = "lost"
  <2>1. at'[r].pc = "idle"
    BY RequestAssumption DEF HubCrash, Idle
  <2>2. CASE req[r].pc \in {"unsent", "reply", "done"}
    BY <2>1, <2>2 DEF HubCrash
  <2>3. CASE req[r].pc \notin {"unsent", "reply", "done"}
    <3>1. DOMAIN req[r] = Fields
      BY <2>3, WasSent DEF RequestOK
    <3>2. PICK v : v = [req[r] EXCEPT !.pc = "lost"] /\ req'[r] = v
      BY <2>3 DEF HubCrash
    <3>3. v.pc = "lost" /\ v.cookie = req[r].cookie
      BY <3>1, <3>2 DEF Fields
    <3> QED BY <2>1, <2>3, <3>2, <3>3
  <2> QED BY <2>2, <2>3
<1> QED BY <1>1, <1>2

LEMMA InPhaseNext == InPhase /\ HubCalls /\ HubShape /\ [HubNext]_hubVars => InPhase'
<1> SUFFICES ASSUME InPhase, HubCalls, HubShape, [HubNext]_hubVars PROVE InPhase'
  OBVIOUS
<1>1. CASE UNCHANGED <<at, req>>
  BY <1>1 DEF InPhase, Phased
<1>2. ASSUME NEW n \in Nonce, \/ \E b \in Browser : FetchNonce(b, n)
                             \/ CountIssued(n) \/ DeliverNonce(n)
      PROVE  InPhase'
  BY <1>1, <1>2 DEF FetchNonce, CountIssued, DeliverNonce
<1>3. ASSUME NEW r \in Request, NEW b, NEW kind, NEW ns, NEW m, NEW t, Send(r, b, kind, ns, m, t)
      PROVE  InPhase'
  <2>1. /\ req[r].pc = "unsent" /\ req'[r].pc = "sent"
        /\ \A s \in Request \ {r} : req'[s] = req[s]
        /\ UNCHANGED at
    BY <1>3, SendGoes
  <2>2. Phased(r)'
    BY <2>1 DEF InPhase, Phased, Accepting
  <2>3. \A s \in Request \ {r} : Phased(s)'
    BY <2>1 DEF InPhase, Phased
  <2> QED BY <2>2, <2>3 DEF InPhase
<1>4. ASSUME NEW r \in Request, Handle(r) \/ Deliver(r) PROVE InPhase'
  <2>1. CASE BeginVerify(r)
    <3>1. Phased(r)'
      BY <2>1, BeginFrame DEF Goes, Phased, Accepting
    <3> QED BY <2>1, <3>1, BeginFrame, PhasedMove DEF Goes
  <2>2. CASE VerifyStep(r)
    <3>1. Phased(r)'
      BY <2>2, StepFrame DEF Phased, Accepting
    <3> QED BY <1>4, <2>2, <3>1, HandleKeeps, StepFrame, PhasedMove
  <2>3. CASE Conclude(r)
    <3>1. Phased(r)'
      BY <2>3, ConcludeGoes DEF Goes, Kept, Phased, Accepting
    <3> QED BY <2>3, <3>1, ConcludeGoes, PhasedMove DEF Goes
  <2>4. CASE ~BeginVerify(r) /\ ~VerifyStep(r) /\ ~Conclude(r)
    BY <1>4, <2>4, QuietStep, PhasedQuietly DEF Handle
  <2> QED BY <2>1, <2>2, <2>3, <2>4
<1>5. CASE HubCrash
  BY <1>5, CrashFrame DEF InPhase, Phased, Accepting
<1>6. ASSUME NEW w \in Contract, PostRegisterContractWallet(w) PROVE InPhase'
  BY <1>1, <1>6 DEF PostRegisterContractWallet
<1> QED BY <1>1, <1>2, <1>3, <1>4, <1>5, <1>6 DEF HubNext, hubVars

LEMMA InPhaseAlways == HubSpec => []InPhase
  BY InPhaseInit, InPhaseNext, HubCallsAlways, ShapeAlways, PTL DEF HubSpec

-----------------------------------------------------------------------------
(* A cookie comes from a response that arrived, so it was counted.         *)
Settled(n) == n \in DOMAIN fetch /\ fetch[n].pc = "done"

Arrived ==
  /\ \A b \in Browser : jar[b] \in known[b] \union {""} /\ \A n \in known[b] : Settled(n)
  /\ \A r \in Request : req[r].pc # "unsent" => req[r].cookie = "" \/ Settled(req[r].cookie)
  /\ \A n \in DOMAIN fetch : fetch[n].pc = "issued" => born[n].run = run

LEMMA ArrivedInit == HubInit => Arrived
<1> SUFFICES ASSUME HubInit PROVE Arrived
  OBVIOUS
<1>1. /\ \A b \in Browser : jar[b] = "" /\ known[b] = {}
      /\ \A r \in Request : req[r].pc = "unsent"
      /\ DOMAIN fetch = {}
  BY DEF HubInit, Empty
<1> QED BY <1>1 DEF Arrived

(* Requests keep their cookies, and nothing that arrived is unmade.        *)
LEMMA ArrivedKept ==
  ASSUME Arrived, \A n : Settled(n) => Settled(n)',
         \A b \in Browser : jar'[b] \in known'[b] \union {""} /\ \A n \in known'[b] : Settled(n)',
         \A r \in Request : req'[r].pc # "unsent" =>
            \/ req[r].pc # "unsent" /\ req'[r].cookie = req[r].cookie
            \/ (req[r].cookie = "" \/ Settled(req[r].cookie))',
         \A n \in DOMAIN fetch' : fetch'[n].pc = "issued" => born'[n].run = run'
  PROVE  Arrived'
<1>1. ASSUME NEW r \in Request, req'[r].pc # "unsent"
      PROVE  (req[r].cookie = "" \/ Settled(req[r].cookie))'
  <2>1. CASE req[r].pc # "unsent" /\ req'[r].cookie = req[r].cookie
    <3>1. req[r].cookie = "" \/ Settled(req[r].cookie)
      BY <2>1 DEF Arrived
    <3>2. PICK c : c = req[r].cookie
      OBVIOUS
    <3>3. c = "" \/ Settled(c)'
      BY <3>1, <3>2
    <3> QED BY <2>1, <3>2, <3>3 DEF Settled
  <2> QED BY <1>1, <2>1
<1> QED BY <1>1 DEF Arrived

(* The web is as it was, and so is the process.                            *)
LEMMA ArrivedStill ==
  ASSUME Arrived, UNCHANGED <<fetch, jar, known, born, run>>,
         \A r \in Request : req'[r] = req[r] \/ (req[r].pc # "unsent" /\ req'[r].cookie = req[r].cookie)
  PROVE  Arrived'
<1>1. \A n : Settled(n)' = Settled(n)
  BY DEF Settled
<1>2. /\ \A b \in Browser : jar'[b] \in known'[b] \union {""} /\ \A n \in known'[b] : Settled(n)'
      /\ \A n \in DOMAIN fetch' : fetch'[n].pc = "issued" => born'[n].run = run'
  BY <1>1 DEF Arrived
<1>3. \A r \in Request : req'[r].pc # "unsent" => req[r].pc # "unsent" /\ req'[r].cookie = req[r].cookie
  OBVIOUS
<1> QED BY <1>1, <1>2, <1>3, ArrivedKept

LEMMA ArrivedFetch ==
  ASSUME Arrived, HubShape, NonceInv, PagesOK, NEW n \in Nonce, NEW b \in Browser, FetchNonce(b, n)
  PROVE  Arrived'
<1>1. PICK ttl \in TTLs : Issue(n, ttl)
  BY DEF FetchNonce
<1>2. /\ n \notin DOMAIN born /\ DOMAIN born' = DOMAIN born \union {n} /\ born'[n].run = run
      /\ \A k \in DOMAIN born : born'[k] = born[k]
  BY <1>1 DEF Issue, With
<1>3. n \notin DOMAIN fetch
  BY <1>2 DEF PagesOK
<1>4. /\ DOMAIN fetch' = DOMAIN fetch \union {n} /\ \A k \in DOMAIN fetch : fetch'[k] = fetch[k]
      /\ UNCHANGED <<jar, known, req, run>>
  BY <1>3 DEF FetchNonce, Put, process
<1>5. \A k : Settled(k) => Settled(k)'
  BY <1>4 DEF Settled
<1>6. \A k \in DOMAIN fetch' : fetch'[k].pc = "issued" => born'[k].run = run'
  <2> SUFFICES ASSUME NEW k \in DOMAIN fetch', fetch'[k].pc = "issued" PROVE born'[k].run = run
    BY <1>4
  <2>1. CASE k = n
    BY <1>2, <2>1
  <2>2. CASE k # n
    <3>1. k \in DOMAIN fetch /\ fetch[k].pc = "issued" /\ k \in DOMAIN born
      BY <1>4, <2>2 DEF PagesOK
    <3> QED BY <1>2, <3>1 DEF Arrived
  <2> QED BY <2>1, <2>2
<1>7. \A c \in Browser : jar'[c] \in known'[c] \union {""} /\ \A k \in known'[c] : Settled(k)'
  BY <1>4, <1>5 DEF Arrived
<1>8. \A r \in Request : req'[r].pc # "unsent" => req[r].pc # "unsent" /\ req'[r].cookie = req[r].cookie
  BY <1>4
<1> QED BY <1>5, <1>6, <1>7, <1>8, ArrivedKept

LEMMA ArrivedDeliver ==
  ASSUME Arrived, HubShape, NEW n \in Nonce, CountIssued(n) \/ DeliverNonce(n)
  PROVE  Arrived'
<1>0. n \in DOMAIN fetch /\ fetch[n] \in Fetches /\ fetch[n].browser \in Browser
  BY DEF CountIssued, DeliverNonce, HubShape, WebOK, Fetches
<1>1. UNCHANGED <<req, born, run>> /\ DOMAIN fetch' = DOMAIN fetch
      /\ \A k \in DOMAIN fetch \ {n} : fetch'[k] = fetch[k]
  BY DEF CountIssued, DeliverNonce, store, process
<1>2. CASE CountIssued(n)
  <2>1. fetch[n].pc = "issued" /\ fetch'[n].pc = "reply" /\ UNCHANGED <<jar, known>>
    BY <1>0, <1>2 DEF CountIssued, Fetches
  <2>2. \A k : Settled(k) => Settled(k)'
    BY <1>0, <1>1, <2>1 DEF Settled
  <2>3. \A b \in Browser : jar'[b] \in known'[b] \union {""} /\ \A k \in known'[b] : Settled(k)'
    BY <2>1, <2>2 DEF Arrived
  <2>4. \A k \in DOMAIN fetch' : fetch'[k].pc = "issued" => born'[k].run = run'
    BY <1>1, <2>1 DEF Arrived
  <2>5. \A r \in Request : req'[r].pc # "unsent" => req[r].pc # "unsent" /\ req'[r].cookie = req[r].cookie
    BY <1>1
  <2> QED BY <2>2, <2>3, <2>4, <2>5, ArrivedKept
<1>3. CASE DeliverNonce(n)
  <2>1. /\ fetch'[n].pc = "done"
        /\ jar' = [jar EXCEPT ![fetch[n].browser] = n]
        /\ known' = [known EXCEPT ![fetch[n].browser] = known[fetch[n].browser] \union {n}]
    BY <1>0, <1>3 DEF DeliverNonce, Fetches
  <2>2. (\A k : Settled(k) => Settled(k)') /\ Settled(n)'
    BY <1>0, <1>1, <2>1 DEF Settled
  <2>3. ASSUME NEW b \in Browser
        PROVE  jar'[b] \in known'[b] \union {""} /\ \A k \in known'[b] : Settled(k)'
    <3>1. jar[b] \in known[b] \union {""} /\ \A k \in known[b] : Settled(k)'
      BY <2>2 DEF Arrived
    <3>2. CASE b = fetch[n].browser
      <4>1. jar'[b] = n /\ known'[b] = known[b] \union {n}
        BY <2>1, <3>2 DEF HubShape, WebOK
      <4> QED BY <2>2, <3>1, <4>1
    <3>3. CASE b # fetch[n].browser
      <4>1. jar'[b] = jar[b] /\ known'[b] = known[b]
        BY <2>1, <3>3 DEF HubShape, WebOK
      <4> QED BY <3>1, <4>1
    <3> QED BY <3>2, <3>3
  <2>4. \A k \in DOMAIN fetch' : fetch'[k].pc = "issued" => born'[k].run = run'
    BY <1>1, <2>1 DEF Arrived
  <2>5. \A r \in Request : req'[r].pc # "unsent" => req[r].pc # "unsent" /\ req'[r].cookie = req[r].cookie
    BY <1>1
  <2> QED BY <2>2, <2>3, <2>4, <2>5, ArrivedKept
<1> QED BY <1>2, <1>3

LEMMA ArrivedSend ==
  ASSUME Arrived, HubShape, NEW r \in Request, NEW b \in Browser, NEW kind, NEW ns, NEW m, NEW t,
         Send(r, b, kind, ns, m, t)
  PROVE  Arrived'
<1>1. /\ req'[r].cookie = jar[b] /\ \A s \in Request \ {r} : req'[s] = req[s]
      /\ UNCHANGED <<fetch, jar, known, born, run>>
  BY SendGoes DEF web, store, process
<1>2. \A n : Settled(n)' = Settled(n)
  BY <1>1 DEF Settled
<1>3. (req[r].cookie = "" \/ Settled(req[r].cookie))'
  <2>1. PICK c : c = jar[b]
    OBVIOUS
  <2>2. c = "" \/ Settled(c)
    BY <2>1 DEF Arrived
  <2> QED BY <1>1, <2>1, <2>2 DEF Settled
<1>4. \A s \in Request : req'[s].pc # "unsent" =>
         \/ req[s].pc # "unsent" /\ req'[s].cookie = req[s].cookie
         \/ (req[s].cookie = "" \/ Settled(req[s].cookie))'
  BY <1>1, <1>3 DEF Settled
<1>5. /\ \A c \in Browser : jar'[c] \in known'[c] \union {""} /\ \A n \in known'[c] : Settled(n)'
      /\ \A n \in DOMAIN fetch' : fetch'[n].pc = "issued" => born'[n].run = run'
  BY <1>1, <1>2 DEF Arrived
<1> QED BY <1>2, <1>4, <1>5, ArrivedKept

(* The answer to a request may clear its browser's cookie.                 *)
LEMMA ArrivedHandle ==
  ASSUME Arrived, HubShape, NEW r \in Request, Handle(r) \/ Deliver(r)
  PROVE  Arrived'
<1>1. UNCHANGED <<fetch, known, born, run>> /\ Kept(r)
  <2>1. UNCHANGED <<fetch, known, run>>
    BY DEF Handle, Receive, BurnCookie, BeginVerify, VerifyStep, Conclude, Upsert, ReadWallets,
           Mint, Link, Deliver, web, process
  <2>2. born' = born
    BY DEF Handle, Receive, BurnCookie, BurnOK, BurnRejected, BeginVerify, VerifyStep, Conclude, Upsert,
           ReadWallets, Mint, Link, Deliver, store
  <2> QED BY <2>1, <2>2, HandleKeeps
<1>2. \A n : Settled(n)' = Settled(n)
  BY <1>1 DEF Settled
<1>3. \A b \in Browser : jar'[b] \in {jar[b], ""}
  BY DEF Handle, Receive, BurnCookie, BeginVerify, VerifyStep, Conclude, Upsert, ReadWallets,
         Mint, Link, Deliver, web, HubShape, WebOK
<1>4. /\ \A b \in Browser : jar'[b] \in known'[b] \union {""} /\ \A n \in known'[b] : Settled(n)'
      /\ \A n \in DOMAIN fetch' : fetch'[n].pc = "issued" => born'[n].run = run'
  BY <1>1, <1>2, <1>3 DEF Arrived
<1>5. \A s \in Request : req'[s].pc # "unsent" => req[s].pc # "unsent" /\ req'[s].cookie = req[s].cookie
  BY <1>1 DEF Kept
<1> QED BY <1>2, <1>4, <1>5, ArrivedKept

LEMMA ArrivedCrash ==
  ASSUME Arrived, HubShape, HubCrash
  PROVE  Arrived'
<1>1. \A n : Settled(n) => Settled(n)'
  BY CrashFrame DEF Settled
<1>2. /\ \A b \in Browser : jar'[b] \in known'[b] \union {""} /\ \A n \in known'[b] : Settled(n)'
      /\ \A n \in DOMAIN fetch' : fetch'[n].pc = "issued" => born'[n].run = run'
  BY <1>1, CrashFrame DEF Arrived
<1>3. \A r \in Request : req'[r].pc # "unsent" => req[r].pc # "unsent" /\ req'[r].cookie = req[r].cookie
  BY CrashFrame
<1> QED BY <1>1, <1>2, <1>3, ArrivedKept

LEMMA ArrivedNext ==
  Arrived /\ HubShape /\ NonceInv /\ ApprovalInv /\ [HubNext]_hubVars => Arrived'
<1> SUFFICES ASSUME Arrived, HubShape, NonceInv, PagesOK, [HubNext]_hubVars PROVE Arrived'
  BY DEF ApprovalInv
<1>1. CASE UNCHANGED <<req, born, run, fetch, jar, known>>
  BY <1>1, ArrivedStill
<1>2. ASSUME NEW n \in Nonce, \/ \E b \in Browser : FetchNonce(b, n)
                             \/ CountIssued(n) \/ DeliverNonce(n)
      PROVE  Arrived'
  BY <1>2, ArrivedFetch, ArrivedDeliver
<1>3. ASSUME NEW r \in Request, NEW b \in Browser, NEW kind, NEW ns, NEW m, NEW t,
             Send(r, b, kind, ns, m, t)
      PROVE  Arrived'
  BY <1>3, ArrivedSend
<1>4. ASSUME NEW r \in Request, Handle(r) \/ Deliver(r) PROVE Arrived'
  BY <1>4, ArrivedHandle
<1>5. CASE HubCrash
  BY <1>5, ArrivedCrash
<1>6. ASSUME NEW w \in Contract, PostRegisterContractWallet(w) PROVE Arrived'
  BY <1>1, <1>6 DEF PostRegisterContractWallet, store, process, web
<1>7. CASE Tick /\ UNCHANGED <<store, ids, at, chain, web, req, recorder, sessions>>
  BY <1>1, <1>7 DEF Tick, store, web
<1> QED BY <1>1, <1>2, <1>3, <1>4, <1>5, <1>6, <1>7 DEF HubNext, hubVars, store, process, web

LEMMA ArrivedAlways == HubSpec => []Arrived
  BY ArrivedInit, ArrivedNext, HubKeepsNonceInv, ApprovalAlways, ShapeAlways, PTL DEF HubSpec

-----------------------------------------------------------------------------
(* A request that began a verification, or is about to, burned its cookie: *)
(* the nonce is of this process and nobody else's.                         *)
Burnt(r) == at[r].pc # "idle" \/ req[r].pc = "begin"

ClaimOK(r) == /\ req[r].pc # "unsent" /\ req[r].cookie \in Nonce
              /\ spent[req[r].cookie] = 1 /\ born[req[r].cookie].run = run

Claims ==
  /\ \A r \in Request : Burnt(r) => ClaimOK(r)
  /\ \A r, s \in Request : Burnt(r) /\ Burnt(s) /\ req[r].cookie = req[s].cookie => r = s

LEMMA ClaimsInit == HubInit => Claims
<1> SUFFICES ASSUME HubInit, NEW r \in Request PROVE ~Burnt(r)
  BY DEF Claims
<1>1. at[r].pc = "idle" /\ req[r].pc = "unsent"
  BY RequestAssumption DEF HubInit, VerificationInit, Idle
<1> QED BY <1>1 DEF Burnt

(* Claims are given up or kept, and the histories of nonces burned stay.   *)
LEMMA ClaimsKept ==
  ASSUME Claims, run' = run, spent' = spent,
         \A n \in Nonce : spent[n] = 1 => born'[n] = born[n],
         \A r \in Request : Burnt(r)' => /\ Burnt(r) /\ req'[r].pc # "unsent"
                                         /\ req'[r].cookie = req[r].cookie
  PROVE  Claims'
<1>1. ASSUME NEW r \in Request, Burnt(r)' PROVE ClaimOK(r)'
  BY <1>1 DEF Claims, ClaimOK
<1>2. \A r, s \in Request : Burnt(r)' /\ Burnt(s)' /\ req'[r].cookie = req'[s].cookie => r = s
  BY DEF Claims
<1> QED BY <1>1, <1>2 DEF Claims

LEMMA ClaimsStill ==
  ASSUME Claims, UNCHANGED <<run, spent, req, at>>, \A n \in Nonce : spent[n] = 1 => born'[n] = born[n]
  PROVE  Claims'
<1>1. \A r \in Request : Burnt(r)' => /\ Burnt(r) /\ req'[r].pc # "unsent"
                                      /\ req'[r].cookie = req[r].cookie
  BY DEF Burnt, Claims, ClaimOK
<1> QED BY <1>1, ClaimsKept

(* The nonce burned is in the map: nobody has burned it before.            *)
LEMMA ClaimsBurn ==
  ASSUME Claims, HubShape, NonceInv, InPhase, NEW r \in Request, BurnCookie(r)
  PROVE  Claims'
<1>1. /\ RequestOK(r) /\ req[r].cookie \in Nonce /\ UNCHANGED <<at, run, born>>
      /\ at[r].pc = "idle"
  BY BurnMoves, QuietStep DEF InPhase, Phased
<1>2. CASE BurnRejected(req[r].cookie) /\ Moves(r, "reply")
  <2>1. spent' = spent
    BY <1>2 DEF BurnRejected
  <2>2. req'[r].pc = "reply" /\ req'[r].cookie = req[r].cookie /\ \A s \in Request \ {r} : req'[s] = req[s]
    BY <1>1, <1>2, MovesFrame
  <2>3. \A s \in Request : Burnt(s)' => /\ Burnt(s) /\ req'[s].pc # "unsent"
                                        /\ req'[s].cookie = req[s].cookie
    BY <1>1, <2>2 DEF Burnt, Claims, ClaimOK
  <2> QED BY <1>1, <2>1, <2>3, ClaimsKept
<1>3. CASE BurnOK(req[r].cookie) /\ Moves(r, "begin")
  <2>0. PICK n : n = req[r].cookie
    OBVIOUS
  <2>1. /\ n \in Nonce /\ spent[n] = 0 /\ spent'[n] = 1 /\ \A k \in Nonce \ {n} : spent'[k] = spent[k]
        /\ born[n].run = run
    BY <1>1, <1>3, <2>0 DEF BurnOK, NonceInv, NonceTypeOK, EntriesAreFresh
  <2>2. /\ req'[r].pc = "begin" /\ req'[r].cookie = n
        /\ \A s \in Request \ {r} : req'[s] = req[s]
    BY <1>1, <1>3, <2>0, MovesFrame
  <2>3. \A s \in Request : Burnt(s) => ClaimOK(s) /\ req[s].cookie # n
    BY <2>1 DEF Claims, ClaimOK
  <2>4. \A s \in Request \ {r} : (Burnt(s)' <=> Burnt(s)) /\ req'[s] = req[s]
    BY <1>1, <2>2 DEF Burnt
  <2>5. ASSUME NEW s \in Request, Burnt(s)' PROVE ClaimOK(s)'
    <3>1. CASE s = r
      BY <1>1, <2>1, <2>2, <3>1 DEF ClaimOK
    <3>2. CASE s # r
      <4>1. ClaimOK(s) /\ req[s].cookie # n /\ req'[s] = req[s]
        BY <2>3, <2>4, <2>5, <3>2
      <4> QED BY <1>1, <2>1, <4>1 DEF ClaimOK
    <3> QED BY <3>1, <3>2
  <2>6. \A s, t \in Request : Burnt(s)' /\ Burnt(t)' /\ req'[s].cookie = req'[t].cookie => s = t
    BY <2>2, <2>3, <2>4 DEF Claims
  <2> QED BY <2>5, <2>6 DEF Claims
<1> QED BY <1>2, <1>3, BurnMoves

LEMMA ClaimsHandle ==
  ASSUME Claims, HubShape, HubCalls, InPhase, NEW r \in Request, Handle(r) \/ Deliver(r), ~BurnCookie(r)
  PROVE  Claims'
<1>1. UNCHANGED <<run, spent, born>>
  BY DEF Handle, Receive, BeginVerify, VerifyStep, Conclude, Upsert, ReadWallets, Mint, Link, Deliver,
         process, store
<1>2. Kept(r)
  BY HandleKeeps
<1>3. ASSUME Burnt(r)' => Burnt(r), \A s \in Request \ {r} : at'[s] = at[s]
      PROVE  Claims'
  <2>1. \A s \in Request : Burnt(s)' => /\ Burnt(s) /\ req'[s].pc # "unsent"
                                        /\ req'[s].cookie = req[s].cookie
    BY <1>2, <1>3 DEF Kept, Burnt, Claims, ClaimOK
  <2> QED BY <1>1, <2>1, ClaimsKept
<1>4. CASE BeginVerify(r)
  BY <1>3, <1>4, BeginFrame DEF Burnt, Goes
<1>5. CASE VerifyStep(r)
  BY <1>3, <1>5, StepFrame DEF Burnt
<1>6. CASE Conclude(r)
  BY <1>3, <1>6, ConcludeGoes DEF Burnt, Goes
<1>7. CASE Receive(r) \/ Upsert(r) \/ ReadWallets(r) \/ Mint(r) \/ Link(r) \/ Deliver(r)
  <2>1. req'[r].pc # "begin" /\ UNCHANGED at
    <3>1. req[r].pc # "burn"
      BY <1>7 DEF Receive, Upsert, ReadWallets, Mint, Link, Deliver
    <3> QED BY <1>7, <3>1, QuietStep DEF Quietly, Goes
  <2> QED BY <1>3, <2>1 DEF Burnt
<1> QED BY <1>4, <1>5, <1>6, <1>7 DEF Handle

LEMMA ClaimsNext ==
  Claims /\ HubShape /\ NonceInv /\ HubCalls /\ InPhase /\ [HubNext]_hubVars => Claims'
<1> SUFFICES ASSUME Claims, HubShape, NonceInv, HubCalls, InPhase, [HubNext]_hubVars PROVE Claims'
  OBVIOUS
<1>1. CASE UNCHANGED <<run, spent, born, req, at>>
  BY <1>1, ClaimsStill
<1>2. ASSUME NEW n \in Nonce, NEW b \in Browser, FetchNonce(b, n) PROVE Claims'
  <2>1. /\ n \notin DOMAIN born /\ spent' = spent /\ \A k \in DOMAIN born : born'[k] = born[k]
        /\ UNCHANGED <<run, req, at>>
    BY <1>2 DEF FetchNonce, Issue, With, process
  <2>2. \A k \in Nonce : spent[k] = 1 => k \in DOMAIN born
    BY DEF NonceInv, UnbornUnspent
  <2> QED BY <2>1, <2>2, ClaimsStill
<1>3. ASSUME NEW n \in Nonce, CountIssued(n) \/ DeliverNonce(n) PROVE Claims'
  BY <1>1, <1>3 DEF CountIssued, DeliverNonce, store, process
<1>4. ASSUME NEW r \in Request, NEW b, NEW kind, NEW ns, NEW m, NEW t, Send(r, b, kind, ns, m, t)
      PROVE  Claims'
  <2>1. /\ req[r].pc = "unsent" /\ req'[r].pc = "sent"
        /\ \A s \in Request \ {r} : req'[s] = req[s]
        /\ UNCHANGED <<at, run, spent, born>>
    BY <1>4, SendGoes DEF store, process
  <2>2. ~Burnt(r)'
    BY <2>1 DEF Burnt, InPhase, Phased
  <2>3. \A s \in Request : Burnt(s)' => /\ Burnt(s) /\ req'[s].pc # "unsent"
                                        /\ req'[s].cookie = req[s].cookie
    BY <2>1, <2>2 DEF Burnt, Claims, ClaimOK
  <2> QED BY <2>1, <2>3, ClaimsKept
<1>5. ASSUME NEW r \in Request, Handle(r) \/ Deliver(r) PROVE Claims'
  BY <1>5, ClaimsBurn, ClaimsHandle
<1>6. CASE HubCrash
  <2>1. \A r \in Request : ~Burnt(r)'
    BY <1>6, CrashFrame DEF Burnt
  <2> QED BY <2>1 DEF Claims
<1>7. ASSUME NEW w \in Contract, PostRegisterContractWallet(w) PROVE Claims'
  BY <1>1, <1>7 DEF PostRegisterContractWallet, store, process
<1>8. CASE Tick /\ UNCHANGED <<store, ids, at, chain, web, req, recorder, sessions>>
  BY <1>1, <1>8 DEF Tick, store
<1> QED BY <1>1, <1>2, <1>3, <1>4, <1>5, <1>6, <1>7, <1>8 DEF HubNext, hubVars, store, process

LEMMA ClaimsAlways == HubSpec => []Claims
  BY ClaimsInit, ClaimsNext, HubKeepsNonceInv, HubCallsAlways, InPhaseAlways, ShapeAlways, PTL DEF HubSpec

-----------------------------------------------------------------------------
(* The recorder buffers events of requests.                                *)
BuffersRequests == DOMAIN checks \subseteq Request

LEMMA BuffersNext == BuffersRequests /\ [HubNext]_hubVars => BuffersRequests'
<1> SUFFICES ASSUME BuffersRequests, [HubNext]_hubVars PROVE BuffersRequests'
  OBVIOUS
<1>1. CASE UNCHANGED checks
  BY <1>1 DEF BuffersRequests
<1>2. ASSUME NEW n \in Nonce, \/ \E b \in Browser : FetchNonce(b, n)
                             \/ CountIssued(n) \/ DeliverNonce(n)
      PROVE  BuffersRequests'
  BY <1>1, <1>2 DEF FetchNonce, CountIssued, DeliverNonce, recorder
<1>3. ASSUME NEW r \in Request, NEW b, NEW kind, NEW ns, NEW m, NEW t, Send(r, b, kind, ns, m, t)
      PROVE  BuffersRequests'
  BY <1>1, <1>3 DEF Send, recorder
<1>4. ASSUME NEW r \in Request, Handle(r) \/ Deliver(r) PROVE BuffersRequests'
  <2>1. DOMAIN checks' \subseteq DOMAIN checks \union {r}
    <3>1. CASE VerifyStep(r)
      <4>1. checks' = checks \/ \E e : checks' = Put(checks, r, e)
        BY <3>1 DEF VerifyStep, Buffered
      <4> QED BY <4>1 DEF Put
    <3>2. CASE Conclude(r)
      BY <3>2 DEF Conclude, Without
    <3>3. CASE ~VerifyStep(r) /\ ~Conclude(r)
      BY <1>4, <3>3 DEF Handle, Receive, BurnCookie, BeginVerify, Upsert, ReadWallets, Mint, Link,
                        Deliver, recorder
    <3> QED BY <3>1, <3>2, <3>3
  <2> QED BY <2>1 DEF BuffersRequests
<1>5. CASE HubCrash
  BY <1>5 DEF HubCrash, Empty, BuffersRequests
<1>6. ASSUME NEW w \in Contract, PostRegisterContractWallet(w) PROVE BuffersRequests'
  BY <1>1, <1>6 DEF PostRegisterContractWallet, recorder
<1>7. CASE Tick /\ UNCHANGED <<store, ids, at, chain, web, req, recorder, sessions>>
  BY <1>1, <1>7 DEF recorder
<1> QED BY <1>1, <1>2, <1>3, <1>4, <1>5, <1>6, <1>7 DEF HubNext, hubVars, recorder

LEMMA BuffersAlways == HubSpec => []BuffersRequests
<1>1. HubInit => BuffersRequests
  BY DEF HubInit, Empty, BuffersRequests
<1> QED BY <1>1, BuffersNext, PTL DEF HubSpec

-----------------------------------------------------------------------------
(* What requests, counters, tokens and grants hold.  A list of wallets is  *)
(* one the identity store gave.                                            *)
Stations == {"sent", "burn", "reply", "done", "lost"} \union Past
TokenType == [sub : Identity, wallets : Seq(Wallet), wallet : Wallet, run : 0 .. run, exp : Nat]
GrantType == [req : Request, nonce : DOMAIN born, wallet : Wallet, run : 0 .. run]

HoldingsOK == \A r \in Request : req[r].pc # "unsent" => req[r].pc \in Stations /\ req[r].wallets \in Seq(Wallet)
SessionsOK == tokens \subseteq TokenType /\ grants \subseteq GrantType
CountersOK == count \in [DOMAIN Zero -> Nat]
Typing == HoldingsOK /\ SessionsOK /\ CountersOK /\ owners \subseteq Contract

LEMMA TypingInit == HubInit => Typing
<1> SUFFICES ASSUME HubInit PROVE Typing
  OBVIOUS
<1>1. HoldingsOK
  BY DEF HubInit, HoldingsOK
<1>2. SessionsOK
  BY DEF HubInit, SessionsOK
<1>3. CountersOK
  <2>1. count = Zero
    BY DEF HubInit
  <2> QED BY <2>1 DEF CountersOK, Zero
<1>4. owners = {}
  BY DEF HubInit, DemoInit
<1> QED BY <1>1, <1>2, <1>3, <1>4 DEF Typing

LEMMA WalletsHeld ==
  ASSUME HubShape, NEW r \in Request, Handle(r) \/ Deliver(r)
  PROVE  \/ req'[r].wallets = req[r].wallets
         \/ ReadWallets(r) /\ req'[r].wallets = Wallets(req[r].id)
<1>1. DOMAIN req[r] = Fields /\ DOMAIN req = Request
  BY WasSent DEF Handle, Receive, BurnCookie, BeginVerify, VerifyStep, Conclude, Upsert, ReadWallets,
                 Mint, Link, Deliver, RequestOK, HubShape, RequestsOK
<1>2. \/ req' = req
      \/ \E pc : Goto(r, pc)
      \/ \E status : Reply(r, status)
      \/ req' = [req EXCEPT ![r] = [@ EXCEPT !.pc = "burn", !.clears = TRUE]]
      \/ \E trail, pc, status : req' = [req EXCEPT ![r] = [@ EXCEPT !.trail = trail, !.pc = pc, !.status = status]]
      \/ \E id : req' = [req EXCEPT ![r] = [@ EXCEPT !.pc = "wallets", !.id = id]]
      \/ ReadWallets(r) /\ req' = [req EXCEPT ![r] = [@ EXCEPT !.pc = "mint", !.wallets = Wallets(req[r].id)]]
  <2>1. CASE Receive(r)
    BY <2>1 DEF Receive
  <2>2. CASE BurnCookie(r) \/ BeginVerify(r) \/ VerifyStep(r) \/ Mint(r) \/ Link(r) \/ Deliver(r)
    BY <2>2 DEF BurnCookie, BeginVerify, VerifyStep, Mint, Link, Deliver
  <2>3. CASE Conclude(r)
    BY <2>3 DEF Conclude
  <2>4. CASE Upsert(r)
    BY <2>4 DEF Upsert
  <2>5. CASE ReadWallets(r)
    BY <2>5 DEF ReadWallets
  <2> QED BY <2>1, <2>2, <2>3, <2>4, <2>5 DEF Handle
<1> QED BY <1>1, <1>2 DEF Goto, Reply, Fields

LEMMA HoldingsNext ==
  ASSUME HoldingsOK, HubShape, HubCalls, InPhase, IdentityInv, [HubNext]_hubVars
  PROVE  HoldingsOK'
<1>1. CASE UNCHANGED req
  BY <1>1 DEF HoldingsOK
<1>2. ASSUME NEW r \in Request, NEW b, NEW kind, NEW ns, NEW m, NEW t, Send(r, b, kind, ns, m, t)
      PROVE  HoldingsOK'
  <2>1. PICK v : v.pc = "sent" /\ v.wallets = <<>> /\ req' = [req EXCEPT ![r] = v]
    <3> DEFINE v == [pc |-> "sent", kind |-> kind, browser |-> b, ns |-> ns, msg |-> m,
                     cookie |-> jar[b], token |-> t, clears |-> FALSE, trail |-> <<>>,
                     id |-> "", wallets |-> <<>>, status |-> ""]
    <3>1. v.pc = "sent" /\ v.wallets = <<>> /\ req' = [req EXCEPT ![r] = v]
      BY <1>2 DEF Send
    <3> QED BY <3>1
  <2>2. <<>> \in Seq(Wallet)
    OBVIOUS
  <2> QED BY <2>1, <2>2 DEF HoldingsOK, Stations, HubShape, RequestsOK
<1>3. ASSUME NEW r \in Request, Handle(r) \/ Deliver(r) PROVE HoldingsOK'
  <2>1. Kept(r) /\ req'[r].pc \in Stations
    <3>1. CASE VerifyStep(r)
      BY <3>1, HandleKeeps DEF Handle, VerifyStep, Stations, Past
    <3> QED BY <1>3, <3>1, HandleKeeps, QuietStep, ConcludeGoes, BeginGoes
            DEF Handle, Quietly, Goes, Stations, Past
  <2>2. req[r].wallets \in Seq(Wallet) /\ Wallets(req[r].id) \in Seq(Wallet)
    BY <2>1 DEF Kept, HoldingsOK, IdentityInv, IdentityTypeOK, Wallets
  <2> QED BY <1>3, <2>1, <2>2, WalletsHeld DEF Kept, HoldingsOK
<1>4. CASE HubCrash
  <2>1. ASSUME NEW r \in Request, req'[r].pc # "unsent"
        PROVE  req'[r].pc \in Stations /\ req'[r].wallets \in Seq(Wallet)
    <3>1. CASE req'[r] = req[r]
      BY <2>1, <3>1 DEF HoldingsOK
    <3>2. CASE req'[r] # req[r]
      <4>1. req[r].pc # "unsent" /\ req'[r] = [req[r] EXCEPT !.pc = "lost"]
        BY <1>4, <3>2 DEF HubCrash
      <4>2. DOMAIN req[r] = Fields /\ req[r].wallets \in Seq(Wallet)
        BY <4>1, WasSent DEF RequestOK, HoldingsOK
      <4> QED BY <4>1, <4>2 DEF Fields, Stations
    <3> QED BY <3>1, <3>2
  <2> QED BY <2>1 DEF HoldingsOK
<1> QED BY <1>1, <1>2, <1>3, <1>4
        DEF HubNext, hubVars, FetchNonce, CountIssued, DeliverNonce, PostRegisterContractWallet

(* A token and the grant beside it are minted from what the request holds. *)
LEMMA SessionsNext ==
  ASSUME SessionsOK, HoldingsOK, HubShape, NonceInv, ApprovalInv, Arrived, [HubNext]_hubVars
  PROVE  SessionsOK'
<1>0. run \in Nat /\ now \in Nat
  BY DEF NonceInv, NonceTypeOK
<1>1. ASSUME run' = run \/ run' = run + 1, DOMAIN born \subseteq DOMAIN born'
      PROVE  tokens \subseteq TokenType' /\ grants \subseteq GrantType'
  <2>1. 0 .. run \subseteq 0 .. run'
    BY <1>0, <1>1
  <2> QED BY <1>1, <2>1 DEF SessionsOK, TokenType, GrantType
<1>2. CASE UNCHANGED <<sessions, run, born>>
  BY <1>1, <1>2 DEF sessions, SessionsOK
<1>3. ASSUME NEW n \in Nonce, NEW b \in Browser, FetchNonce(b, n) PROVE SessionsOK'
  <2>1. DOMAIN born \subseteq DOMAIN born' /\ UNCHANGED <<sessions, run>>
    BY <1>3 DEF FetchNonce, Issue, With, process
  <2> QED BY <1>1, <2>1 DEF sessions, SessionsOK
<1>4. CASE HubCrash
  BY <1>1, <1>4, CrashFrame DEF HubCrash, sessions, SessionsOK
<1>5. ASSUME NEW r \in Request, Mint(r) \/ Link(r) PROVE SessionsOK'
  <2>1. /\ UNCHANGED <<run, born>> /\ req[r].pc \in {"mint", "link"}
        /\ grants' = grants \/ Granted(r)
    BY <1>5 DEF Mint, Link, process, store
  <2>2. RequestOK(r) /\ Account(r) \in Wallet /\ req[r].cookie \in DOMAIN born /\ req[r].wallets \in Seq(Wallet)
    <3>1. RequestOK(r) /\ req[r].cookie # "" /\ req[r].ns # "" /\ req[r].pc # "unsent"
      BY <2>1, WasSent DEF RequestOK, Past
    <3> QED BY <3>1 DEF RequestOK, Arrived, Settled, ApprovalInv, PagesOK, HoldingsOK
  <2>3. grants' \subseteq GrantType'
    <3>1. [req |-> r, nonce |-> req[r].cookie, wallet |-> Account(r), run |-> run] \in GrantType
      BY <1>0, <2>2 DEF GrantType
    <3> QED BY <2>1, <3>1 DEF Granted, SessionsOK, GrantType
  <2>4. tokens' \subseteq TokenType'
    <3>1. CASE Mint(r)
      <4>1. req[r].id \in Identity
        BY <2>2, <3>1 DEF Mint, RequestOK
      <4>2. [sub |-> req[r].id, wallets |-> req[r].wallets, wallet |-> Account(r), run |-> run,
             exp |-> now + TokenTTL] \in TokenType
        BY <1>0, <2>2, <4>1, CapAssumption DEF TokenType
      <4> QED BY <2>1, <3>1, <4>2 DEF Mint, SessionsOK, TokenType
    <3>2. CASE Link(r)
      BY <2>1, <3>2 DEF Link, SessionsOK, TokenType
    <3> QED BY <1>5, <3>1, <3>2
  <2> QED BY <2>3, <2>4 DEF SessionsOK
<1>6. ASSUME NEW r \in Request, Handle(r) \/ Deliver(r), ~Mint(r), ~Link(r) PROVE SessionsOK'
  <2>1. UNCHANGED <<sessions, run>>
    BY <1>6 DEF Handle, Receive, BurnCookie, BeginVerify, VerifyStep, Conclude, Upsert, ReadWallets,
                Deliver, process
  <2>2. born' = born
    BY <1>6 DEF Handle, Receive, BurnCookie, BurnOK, BurnRejected, BeginVerify, VerifyStep, Conclude,
                Upsert, ReadWallets, Deliver, store
  <2> QED BY <1>2, <2>1, <2>2
<1>7. ASSUME NEW n \in Nonce, CountIssued(n) \/ DeliverNonce(n) PROVE SessionsOK'
  BY <1>2, <1>7 DEF CountIssued, DeliverNonce, process, store
<1>8. ASSUME NEW r \in Request, NEW b, NEW kind, NEW ns, NEW m, NEW t, Send(r, b, kind, ns, m, t)
      PROVE  SessionsOK'
  BY <1>2, <1>8 DEF Send, process, store
<1>9. ASSUME NEW w \in Contract, PostRegisterContractWallet(w) PROVE SessionsOK'
  BY <1>2, <1>9 DEF PostRegisterContractWallet, process, store
<1>10. CASE Tick /\ UNCHANGED <<store, ids, at, chain, web, req, recorder, sessions>>
  BY <1>2, <1>10 DEF Tick, store
<1>11. CASE UNCHANGED hubVars
  BY <1>2, <1>11 DEF hubVars, process, store
<1> QED BY <1>3, <1>4, <1>5, <1>6, <1>7, <1>8, <1>9, <1>10, <1>11 DEF HubNext

LEMMA TwoCounters ==
  ASSUME NEW D, NEW c \in [D -> Nat], NEW d, NEW x \in D, NEW y \in D, NEW k \in {0, 1}, NEW l \in {0, 1},
         d = [c EXCEPT ![x] = c[x] + k, ![y] = c[y] + l]
  PROVE  d \in [D -> Nat]
<1>1. c[x] + k \in Nat /\ c[y] + l \in Nat
  OBVIOUS
<1>2. \A u, v \in Nat : [c EXCEPT ![x] = u, ![y] = v] \in [D -> Nat]
  OBVIOUS
<1> QED BY <1>1, <1>2

LEMMA CountersNext == CountersOK /\ [HubNext]_hubVars => CountersOK'
<1> SUFFICES ASSUME CountersOK, [HubNext]_hubVars PROVE CountersOK'
  OBVIOUS
<1>0. DOMAIN Zero = {"issued", "burned", "attempts", "failedChecks", "failures", "tokens"}
  BY DEF Zero
<1>1. CASE UNCHANGED count
  BY <1>1 DEF CountersOK
<1>2. CASE \E field \in {"issued", "tokens"} : Inc(field)
  BY <1>0, <1>2 DEF Inc, CountersOK
<1>3. ASSUME NEW r \in Request, BeginVerify(r) PROVE CountersOK'
  <2>1. PICK k \in {0, 1} : count' = [count EXCEPT !.attempts = count.attempts + 1,
                                                  !.burned = count.burned + k]
    BY <1>3 DEF BeginVerify
  <2> QED BY <1>0, <2>1, TwoCounters DEF CountersOK
<1>4. ASSUME NEW r \in Request, VerifyStep(r) PROVE CountersOK'
  <2>1. PICK k \in {0, 1}, f \in {0, 1} :
          count' = [count EXCEPT !.failedChecks = count.failedChecks + k, !.failures = count.failures + f]
    BY <1>4 DEF VerifyStep
  <2>2. PICK c, x, y : /\ c = count /\ x = "failedChecks" /\ y = "failures"
                       /\ count' = [c EXCEPT ![x] = c[x] + k, ![y] = c[y] + f]
    BY <2>1
  <2>3. c \in [DOMAIN Zero -> Nat] /\ x \in DOMAIN Zero /\ y \in DOMAIN Zero
    BY <1>0, <2>2 DEF CountersOK
  <2>4. count' \in [DOMAIN Zero -> Nat]
    BY <2>2, <2>3, TwoCounters
  <2> QED BY <2>4 DEF CountersOK
<1>5. CASE HubCrash
  BY <1>5 DEF HubCrash, CountersOK, Zero
<1>6. ASSUME NEW n \in Nonce, \/ \E b \in Browser : FetchNonce(b, n)
                             \/ CountIssued(n) \/ DeliverNonce(n)
      PROVE  CountersOK'
  BY <1>1, <1>2, <1>6 DEF FetchNonce, CountIssued, DeliverNonce, recorder
<1>7. ASSUME NEW r \in Request, NEW b, NEW kind, NEW ns, NEW m, NEW t, Send(r, b, kind, ns, m, t)
      PROVE  CountersOK'
  BY <1>1, <1>7 DEF Send, recorder
<1>8. ASSUME NEW r \in Request, Handle(r) \/ Deliver(r) PROVE CountersOK'
  <2>1. CASE Mint(r)
    BY <1>2, <2>1 DEF Mint
  <2>2. CASE ~Mint(r) /\ ~BeginVerify(r) /\ ~VerifyStep(r)
    BY <1>1, <1>8, <2>2 DEF Handle, Receive, BurnCookie, Conclude, Upsert, ReadWallets, Link, Deliver,
                            recorder
  <2> QED BY <1>3, <1>4, <2>1, <2>2
<1>9. ASSUME NEW w \in Contract, PostRegisterContractWallet(w) PROVE CountersOK'
  BY <1>1, <1>9 DEF PostRegisterContractWallet, recorder
<1>10. CASE Tick /\ UNCHANGED <<store, ids, at, chain, web, req, recorder, sessions>>
  BY <1>1, <1>10 DEF recorder
<1> QED BY <1>1, <1>5, <1>6, <1>7, <1>8, <1>9, <1>10 DEF HubNext, hubVars, recorder

(* Wallets are registered and forgotten by these steps alone.              *)
LEMMA OwnersMove ==
  ASSUME [HubNext]_hubVars
  PROVE  \/ owners' = owners
         \/ HubCrash /\ owners' = {}
         \/ \E w \in Contract : owners' = owners \union {w}
<1>1. ASSUME NEW n \in Nonce, \/ \E b \in Browser : FetchNonce(b, n)
                             \/ CountIssued(n) \/ DeliverNonce(n)
      PROVE  owners' = owners
  BY <1>1 DEF FetchNonce, CountIssued, DeliverNonce, chain
<1>2. ASSUME NEW r \in Request, NEW b, NEW kind, NEW ns, NEW m, NEW t, Send(r, b, kind, ns, m, t)
      PROVE  owners' = owners
  BY <1>2 DEF Send, chain
<1>3. ASSUME NEW r \in Request, Handle(r) \/ Deliver(r) PROVE owners' = owners
  BY <1>3 DEF Handle, Receive, BurnCookie, BeginVerify, VerifyStep, Conclude, Upsert, ReadWallets,
              Mint, Link, Deliver, chain
<1>4. CASE HubCrash
  BY <1>4 DEF HubCrash, LoseWallets
<1>5. ASSUME NEW w \in Contract, PostRegisterContractWallet(w) PROVE owners' = owners \union {w}
  BY <1>5 DEF PostRegisterContractWallet, RegisterWallet
<1> QED BY <1>1, <1>2, <1>3, <1>4, <1>5 DEF HubNext, hubVars, chain

LEMMA TypingAlways == HubSpec => []Typing
<1>1. /\ Typing /\ HubShape /\ HubCalls /\ InPhase /\ IdentityInv /\ NonceInv /\ ApprovalInv /\ Arrived
      /\ [HubNext]_hubVars
      => Typing'
  BY HoldingsNext, SessionsNext, CountersNext, OwnersMove DEF Typing
<1> QED BY <1>1, TypingInit, ShapeAlways, HubCallsAlways, InPhaseAlways, HubKeepsIdentityInv,
           HubKeepsNonceInv, ApprovalAlways, ArrivedAlways, PTL DEF HubSpec

(* Every variable of the hub has its type, whatever tabs, late responses   *)
(* and restarts do: a browser's cookie is one of the nonces its pages were *)
(* given, a request behind Burn carries one, a verification is about its   *)
(* own request's message, tokens and grants name issued nonces, known      *)
(* accounts and a process that has run.                                    *)
THEOREM HubTyped == HubSpec => []HubTypeOK
<1>1. ASSUME ApprovalInv, InPhase, Arrived, HubShape, Typing, NEW r \in Request, req[r].pc # "unsent"
      PROVE  RequestTypeOK(r)
  <2>1. RequestOK(r) /\ SoundRequest(r) /\ Phased(r)
    BY <1>1, WasSent DEF ApprovalInv, InPhase
  <2>2. req[r].cookie \in DOMAIN born \union {""} /\ req[r].msg.nonce \in DOMAIN born
    BY <1>1, <2>1 DEF Arrived, Settled, ApprovalInv, PagesOK, SoundRequest
  <2>3. req[r].pc \in Stations /\ req[r].wallets \in Seq(Wallet)
    BY <1>1 DEF Typing, HoldingsOK
  <2>4. req[r].pc \in {"wallets", "mint"} => req[r].id \in Identity
    BY <2>1 DEF RequestOK
  <2>5. req[r].pc = "verifying" => at[r].pc # "idle" /\ at[r].sub = req[r].msg
    BY <2>1 DEF SoundRequest, AttemptOK, Phased
  <2> QED BY <1>1, <2>1, <2>2, <2>3, <2>4, <2>5 DEF RequestTypeOK, RequestOK, InFlight, Stations
<1>2. /\ NonceInv /\ IdentityInv /\ BuffersRequests /\ Arrived /\ ApprovalInv /\ InPhase /\ HubShape
      /\ Typing
      => HubTypeOK
  BY <1>1 DEF NonceInv, IdentityInv, BuffersRequests, Arrived, ApprovalInv, PagesOK, HubShape, WebOK,
              RequestsOK, Fetches, Typing, SessionsOK, TokenType, GrantType, CountersOK, HubTypeOK
<1> QED BY <1>2, HubKeepsNonceInv, HubKeepsIdentityInv, BuffersAlways, ArrivedAlways, ApprovalAlways,
           InPhaseAlways, ShapeAlways, TypingAlways, PTL

-----------------------------------------------------------------------------
(* What the counters count.  A set is counted exactly, or a counter lags   *)
(* behind a set: of verifications that failed or of tokens, a counter      *)
(* never tells of more than there were.                                    *)
Exactly(k, S) == IsFiniteSet(S) /\ k = Cardinality(S)
AtMost(k, S) == k \in Nat /\ IsFiniteSet(S) /\ k <= Cardinality(S)

LEMMA ExactlyOneMore ==
  ASSUME NEW k, NEW S, Exactly(k, S), NEW x, x \notin S
  PROVE  k \in Nat /\ Exactly(k + 1, S \union {x})
  BY FS_AddElement, FS_CardinalityType DEF Exactly

LEMMA AtMostGrown ==
  ASSUME NEW k, NEW S, AtMost(k, S), NEW T, IsFiniteSet(T), S \subseteq T
  PROVE  AtMost(k, T)
<1>1. Cardinality(S) <= Cardinality(T) /\ Cardinality(S) \in Nat /\ Cardinality(T) \in Nat
  BY FS_Subset, FS_CardinalityType DEF AtMost
<1> QED BY <1>1 DEF AtMost

LEMMA AtMostOneMore ==
  ASSUME NEW k, NEW S, AtMost(k, S), NEW T, IsFiniteSet(T), S \subseteq T, NEW x \in T, x \notin S
  PROVE  AtMost(k + 1, T)
<1>1. IsFiniteSet(S \union {x}) /\ Cardinality(S \union {x}) = Cardinality(S) + 1
  BY FS_AddElement DEF AtMost
<1>2. Cardinality(S) \in Nat /\ k \in Nat /\ k <= Cardinality(S)
  BY FS_CardinalityType DEF AtMost
<1>3. AtMost(k + 1, S \union {x})
  BY <1>1, <1>2 DEF AtMost
<1> QED BY <1>3, AtMostGrown

Counters == {"issued", "burned", "attempts", "failedChecks", "failures", "tokens"}

Fetched == {n \in DOMAIN fetch : fetch[n].pc # "issued" /\ born[n].run = run}
Burned == {r \in Started : req[r].kind = "verify"}
Failed == {r \in Started : at[r].pc = "done" /\ at[r].err # "nil"}
Rejected == {r \in Started : at[r].pc \in Over /\ at[r].err # "nil"}
Minted == {r \in Burned : /\ at[r].pc = "done" /\ at[r].err = "nil"
                          /\ req[r].pc \in {"reply", "done"}}

CountInv ==
  /\ DOMAIN count = Counters
  /\ Exactly(count.issued, Fetched)
  /\ Exactly(count.burned, Burned)
  /\ Exactly(count.attempts, Started)
  /\ AtMost(count.failedChecks, Rejected)
  /\ AtMost(count.failures, Failed)
  /\ AtMost(count.tokens, Minted)

LEMMA CountInit == HubInit => CountInv
<1> SUFFICES ASSUME HubInit PROVE CountInv
  OBVIOUS
<1>1. \A r \in Request : at[r].pc = "idle"
  BY RequestAssumption DEF HubInit, VerificationInit, Idle
<1>2. Started = {} /\ Burned = {} /\ Rejected = {} /\ Failed = {} /\ Minted = {} /\ Fetched = {}
  BY <1>1, RequestAssumption DEF HubInit, Empty, Started, Burned, Rejected, Failed, Minted, Fetched
<1>3. Exactly(0, {}) /\ AtMost(0, {})
  <2>1. IsFiniteSet({}) /\ Cardinality({}) = 0
    BY FS_EmptySet
  <2> QED BY <2>1 DEF Exactly, AtMost
<1>4. count = Zero
  BY DEF HubInit
<1> QED BY <1>2, <1>3, <1>4 DEF CountInv, Counters, Zero

(* The sets behind the counters are of calls that were made.               *)
LEMMA CountedFinite ==
  ASSUME IsFiniteSet(Started)
  PROVE  /\ IsFiniteSet(Burned) /\ IsFiniteSet(Rejected) /\ IsFiniteSet(Failed)
         /\ IsFiniteSet(Minted)
<1>1. Burned \in SUBSET Started /\ Rejected \in SUBSET Started /\ Failed \in SUBSET Started
      /\ Minted \in SUBSET Started
  BY DEF Burned, Rejected, Failed, Minted
<1> QED BY <1>1, FS_Subset

LEMMA CountedNextFinite ==
  ASSUME IsFiniteSet(Started')
  PROVE  /\ IsFiniteSet(Burned') /\ IsFiniteSet(Rejected') /\ IsFiniteSet(Failed')
         /\ IsFiniteSet(Minted')
<1>1. Burned' \in SUBSET Started' /\ Rejected' \in SUBSET Started' /\ Failed' \in SUBSET Started'
      /\ Minted' \in SUBSET Started'
  BY DEF Burned, Rejected, Failed, Minted
<1> QED BY <1>1, FS_Subset

(* No counter moves and what is counted exactly stays.                     *)
LEMMA CountKept ==
  ASSUME CountInv, count' = count, Fetched' = Fetched, Burned' = Burned, Started' = Started,
         Rejected \subseteq Rejected', Failed \subseteq Failed', Minted \subseteq Minted'
  PROVE  CountInv'
<1>1. IsFiniteSet(Started')
  BY DEF CountInv, Exactly
<1>2. IsFiniteSet(Rejected') /\ IsFiniteSet(Failed') /\ IsFiniteSet(Minted')
  BY <1>1, CountedNextFinite
<1>3. /\ AtMost(count'.failedChecks, Rejected') /\ AtMost(count'.failures, Failed')
      /\ AtMost(count'.tokens, Minted')
  BY <1>2, AtMostGrown DEF CountInv
<1> QED BY <1>3 DEF CountInv

(* The steps that leave the verifications alone: handlers at their own     *)
(* requests, and answers that arrive.                                      *)
LEMMA SetsQuiet ==
  ASSUME NEW r \in Request, Quietly(r), UNCHANGED at
  PROVE  /\ Started' = Started /\ Rejected' = Rejected /\ Failed' = Failed
         /\ Burned' = Burned /\ Minted \subseteq Minted'
<1>1. Started' = Started /\ Rejected' = Rejected /\ Failed' = Failed
  BY DEF Started, Rejected, Failed
<1>2. \A s \in Request : req'[s].kind = req[s].kind
  BY DEF Quietly, Goes, Kept
<1>3. Burned' = Burned
  BY <1>1, <1>2, RequestAssumption DEF Burned, Started
<1>4. \A s \in Request : req[s].pc \in {"reply", "done"} => req'[s].pc \in {"reply", "done"}
  BY DEF Quietly, Goes, Kept
<1>5. Minted \subseteq Minted'
  BY <1>3, <1>4, RequestAssumption DEF Minted, Burned, Started
<1> QED BY <1>1, <1>3, <1>5

LEMMA CountQuiet ==
  ASSUME CountInv, HubShape, NEW r \in Request,
         \/ Receive(r) \/ BurnCookie(r) \/ Upsert(r) \/ ReadWallets(r) \/ Link(r) \/ Deliver(r)
  PROVE  CountInv'
<1>1. Quietly(r) /\ UNCHANGED <<at, born, run>>
  BY QuietStep
<1>2. UNCHANGED <<fetch, count>>
  BY DEF Receive, BurnCookie, Upsert, ReadWallets, Link, Deliver, web, recorder
<1>3. Fetched' = Fetched
  BY <1>1, <1>2 DEF Fetched
<1> QED BY <1>1, <1>2, <1>3, SetsQuiet, CountKept

(* A token is counted after it is minted and before its request is         *)
(* answered: the answer is one more.                                       *)
LEMMA CountMint ==
  ASSUME CountInv, HubShape, InPhase, NEW r \in Request, Mint(r)
  PROVE  CountInv'
<1>1. Quietly(r) /\ UNCHANGED <<at, born, run, fetch>> /\ req[r].pc = "mint"
  BY QuietStep DEF Mint, web
<1>2. count' = [count EXCEPT !.tokens = count.tokens + 1]
  BY DEF Mint, Inc
<1>3. Fetched' = Fetched
  BY <1>1 DEF Fetched
<1>4. /\ Started' = Started /\ Rejected' = Rejected /\ Failed' = Failed
      /\ Burned' = Burned /\ Minted \subseteq Minted'
  BY <1>1, SetsQuiet
<1>5. r \in Minted' /\ r \notin Minted
  <2>1. at[r].pc = "done" /\ at[r].err = "nil" /\ req[r].kind = "verify"
    BY <1>1 DEF InPhase, Phased, Accepting
  <2>2. req'[r].pc = "reply"
    BY <1>1 DEF Quietly, Goes
  <2>3. r \in Burned
    BY <2>1, RequestAssumption DEF Burned, Started
  <2> QED BY <1>1, <1>4, <2>1, <2>2, <2>3 DEF Minted
<1>6. IsFiniteSet(Minted')
  BY <1>4, CountedNextFinite DEF CountInv, Exactly
<1>7. AtMost(count.tokens + 1, Minted')
  BY <1>4, <1>5, <1>6, AtMostOneMore DEF CountInv
<1>8. /\ DOMAIN count' = Counters /\ count'.tokens = count.tokens + 1
      /\ count'.issued = count.issued /\ count'.burned = count.burned
      /\ count'.attempts = count.attempts /\ count'.failedChecks = count.failedChecks
      /\ count'.failures = count.failures
  BY <1>2 DEF CountInv, Counters
<1> QED BY <1>3, <1>4, <1>7, <1>8 DEF CountInv

(* A verification that begins is one more attempt, and the burn before it  *)
(* is counted along if a sign-in made it.                                  *)
LEMMA CountBegin ==
  ASSUME CountInv, HubShape, HubCalls, NEW r \in Request, BeginVerify(r)
  PROVE  CountInv'
<1>1. /\ Goes(r, "begin", "verifying") /\ UNCHANGED <<born, run, fetch>>
      /\ at[r].pc = "idle" /\ at'[r].pc = "lookup"
      /\ \A s \in Request \ {r} : at'[s] = at[s]
  BY BeginFrame DEF store, process
<1>2. PICK more : /\ more = IF req[r].kind = "verify" THEN 1 ELSE 0
                  /\ count' = [count EXCEPT !.attempts = count.attempts + 1,
                                            !.burned = count.burned + more]
  BY DEF BeginVerify
<1>3. Fetched' = Fetched
  BY <1>1 DEF Fetched
<1>4. Started' = Started \union {r} /\ r \notin Started
  BY <1>1, RequestAssumption DEF Started
<1>5. Exactly(count.attempts + 1, Started')
  BY <1>4, ExactlyOneMore DEF CountInv
<1>6. \A s \in Request : req'[s].kind = req[s].kind
  BY <1>1 DEF Goes, Kept
<1>7. Exactly(count.burned + more, Burned')
  <2>1. CASE req[r].kind = "verify"
    <3>1. Burned' = Burned \union {r} /\ r \notin Burned
      BY <1>4, <1>6, <2>1, RequestAssumption DEF Burned, Started
    <3> QED BY <1>2, <2>1, <3>1, ExactlyOneMore DEF CountInv
  <2>2. CASE req[r].kind # "verify"
    <3>1. Burned' = Burned
      BY <1>4, <1>6, <2>2, RequestAssumption DEF Burned, Started
    <3>2. count.burned \in Nat /\ more = 0
      BY <1>2, <2>2, FS_CardinalityType DEF CountInv, Exactly
    <3> QED BY <3>1, <3>2 DEF CountInv
  <2> QED BY <2>1, <2>2
<1>8. Rejected' = Rejected /\ Failed' = Failed
  BY <1>1, <1>4, RequestAssumption DEF Rejected, Failed, Started, Over
<1>9. Minted \subseteq Minted'
  <2>1. \A s \in Minted : s \in Request \ {r} /\ at'[s] = at[s] /\ req'[s] = req[s] /\ s \in Started'
    BY <1>1, <1>4, RequestAssumption DEF Minted, Burned, Started, Goes, Kept
  <2> QED BY <2>1 DEF Minted, Burned
<1>10. AtMost(count.tokens, Minted')
  BY <1>5, <1>9, CountedNextFinite, AtMostGrown DEF CountInv, Exactly
<1>11. /\ DOMAIN count' = Counters /\ count'.tokens = count.tokens
       /\ count'.issued = count.issued /\ count'.burned = count.burned + more
       /\ count'.attempts = count.attempts + 1 /\ count'.failedChecks = count.failedChecks
       /\ count'.failures = count.failures
  BY <1>2 DEF CountInv, Counters
<1> QED BY <1>3, <1>5, <1>7, <1>8, <1>10, <1>11 DEF CountInv

(* What a step of a verification tells the observer: a decision emits its  *)
(* stage's event, the end the result, a chain call nothing.                *)
LEMMA StepEmits ==
  ASSUME HubCalls, NEW r \in Request, VerifyStep(r)
  PROVE  /\ at[r].pc # "done"
         /\ \A e \in Emitted(r) : IsCheck(e) /\ ~e.ok =>
              at[r].pc \notin Over /\ at'[r].pc \in Over /\ at'[r].err # "nil"
         /\ \A e \in Emitted(r) : e.name = "result" /\ ~e.ok =>
              at'[r].pc = "done" /\ at'[r].err # "nil"
         /\ at[r].pc \in Over => at'[r].pc \in Over /\ at'[r].err = at[r].err
<1>0. PICK a, v : a = at[r] /\ v = at'[r]
  OBVIOUS
<1>1. Continues(a, v) /\ a.trail \in Seq(Event)
  BY <1>0, StepFrame DEF CallSound, Logged
<1>2. ASSUME NEW e, v.trail = Append(a.trail, e)
      PROVE  Emitted(r) = {e}
  <2>1. Len(v.trail) = Len(a.trail) + 1 /\ v.trail[Len(a.trail) + 1] = e /\ Len(a.trail) \in Nat
    BY <1>1, <1>2
  <2>2. Len(a.trail) + 1 .. Len(v.trail) = {Len(a.trail) + 1}
    BY <2>1
  <2> QED BY <1>0, <2>1, <2>2 DEF Emitted
<1>3. CASE Decision(a, v)
  <2>1. PICK stage, err : Decided(a, stage) /\ Decides(a, v, stage, err)
    BY <1>3 DEF Decision
  <2>2. PICK e : e = [name |-> stage, ok |-> err = "nil"] /\ v.trail = Append(a.trail, e)
    BY <2>1 DEF Decides
  <2>3. e.name = stage /\ (~e.ok => err # "nil")
    BY <2>2
  <2>4. stage # "result" /\ a.pc \notin Over
    BY <2>1 DEF Decided, ChainCall, Over
  <2>5. err # "nil" => v.pc = "result" /\ v.err # "nil"
    BY <2>1 DEF Decides
  <2>6. Emitted(r) = {e}
    BY <1>2, <2>2
  <2> QED BY <1>0, <2>3, <2>4, <2>5, <2>6 DEF Over
<1>4. CASE Silent(a, v)
  <2>1. v.trail = a.trail /\ a.pc \notin Over
    BY <1>4 DEF Silent, Running, ChainCall, Over
  <2>2. Emitted(r) = {}
    <3>1. Len(a.trail) \in Nat
      BY <1>1
    <3>2. Len(a.trail) + 1 .. Len(a.trail) = {}
      BY <3>1
    <3> QED BY <1>0, <2>1, <3>2 DEF Emitted
  <2> QED BY <1>0, <2>1, <2>2 DEF Over
<1>5. CASE Report(a, v)
  <2>1. PICK e : e = [name |-> "result", ok |-> a.err = "nil"] /\ v.trail = Append(a.trail, e)
    BY <1>5 DEF Report
  <2>2. e.name = "result" /\ (~e.ok => a.err # "nil")
    BY <2>1
  <2>3. ~IsCheck(e)
    BY <2>2 DEF IsCheck, Checks
  <2>4. a.pc = "result" /\ v.pc = "done" /\ v.err = a.err
    BY <1>5 DEF Report
  <2>5. Emitted(r) = {e}
    BY <1>2, <2>1
  <2> QED BY <1>0, <2>2, <2>3, <2>4, <2>5 DEF Over
<1> QED BY <1>1, <1>3, <1>4, <1>5 DEF Continues

(* So a counter moves only with the verdict it counts.                     *)
LEMMA CountStep ==
  ASSUME CountInv, HubShape, HubCalls, InPhase, NEW r \in Request, VerifyStep(r)
  PROVE  CountInv'
<1>1. /\ req[r].pc = "verifying" /\ UNCHANGED <<req, born, run, fetch>>
      /\ at[r].pc # "idle" /\ at'[r].pc # "idle"
      /\ \A s \in Request \ {r} : at'[s] = at[s]
  BY StepFrame DEF VerifyStep, store, process, web
<1>2. PICK fc \in {0, 1}, f \in {0, 1} :
        /\ fc = 0 \/ \E e \in Emitted(r) : IsCheck(e) /\ ~e.ok
        /\ f = 0 \/ \E e \in Emitted(r) : e.name = "result" /\ ~e.ok
        /\ count' = [count EXCEPT !.failedChecks = count.failedChecks + fc,
                                  !.failures = count.failures + f]
  <2> DEFINE A == {e \in {x \in Emitted(r) : IsCheck(x)} : ~e.ok}
             B == {e \in Emitted(r) : e.name = "result" /\ ~e.ok}
             fc == IF A = {} THEN 0 ELSE 1
             f == IF B = {} THEN 0 ELSE 1
  <2>1. count' = [count EXCEPT !.failedChecks = count.failedChecks + fc,
                               !.failures = count.failures + f]
    BY DEF VerifyStep
  <2>2. fc \in {0, 1} /\ (fc = 0 \/ \E e \in Emitted(r) : IsCheck(e) /\ ~e.ok)
    OBVIOUS
  <2>3. f \in {0, 1} /\ (f = 0 \/ \E e \in Emitted(r) : e.name = "result" /\ ~e.ok)
    OBVIOUS
  <2> HIDE DEF fc, f
  <2> QED BY <2>1, <2>2, <2>3
<1>3. Fetched' = Fetched
  BY <1>1 DEF Fetched
<1>4. Started' = Started /\ Burned' = Burned
  BY <1>1, RequestAssumption DEF Started, Burned
<1>5. IsFiniteSet(Rejected') /\ IsFiniteSet(Failed') /\ IsFiniteSet(Minted')
  BY <1>4, CountedNextFinite DEF CountInv, Exactly
<1>6. \A s \in Request : s # r \/ s \notin Minted
  BY <1>1 DEF Minted
<1>7. Minted \subseteq Minted' /\ Rejected \subseteq Rejected' /\ Failed \subseteq Failed'
  <2>1. Minted \subseteq Minted'
    BY <1>1, <1>4, <1>6, RequestAssumption DEF Minted, Burned, Started
  <2>2. Rejected \subseteq Rejected'
    BY <1>1, <1>4, StepEmits, RequestAssumption DEF Rejected, Started
  <2>3. Failed \subseteq Failed'
    BY <1>1, <1>4, StepEmits, RequestAssumption DEF Failed, Started
  <2> QED BY <2>1, <2>2, <2>3
<1>8. AtMost(count.tokens, Minted')
  BY <1>5, <1>7, AtMostGrown DEF CountInv
<1>9. AtMost(count.failedChecks + fc, Rejected')
  <2>1. CASE fc = 0
    <3>1. count.failedChecks + fc = count.failedChecks
      BY <2>1 DEF CountInv, AtMost
    <3> QED BY <1>5, <1>7, <3>1, AtMostGrown DEF CountInv
  <2>2. CASE fc = 1
    <3>1. r \in Rejected' /\ r \notin Rejected
      BY <1>1, <1>2, <1>4, <2>2, StepEmits, RequestAssumption DEF Rejected, Started
    <3> QED BY <1>5, <1>7, <2>2, <3>1, AtMostOneMore DEF CountInv
  <2> QED BY <2>1, <2>2
<1>10. AtMost(count.failures + f, Failed')
  <2>1. CASE f = 0
    <3>1. count.failures + f = count.failures
      BY <2>1 DEF CountInv, AtMost
    <3> QED BY <1>5, <1>7, <3>1, AtMostGrown DEF CountInv
  <2>2. CASE f = 1
    <3>1. r \in Failed' /\ r \notin Failed
      BY <1>1, <1>2, <1>4, <2>2, StepEmits, RequestAssumption DEF Failed, Started
    <3> QED BY <1>5, <1>7, <2>2, <3>1, AtMostOneMore DEF CountInv
  <2> QED BY <2>1, <2>2
<1>11. /\ DOMAIN count' = Counters /\ count'.tokens = count.tokens
       /\ count'.issued = count.issued /\ count'.burned = count.burned
       /\ count'.attempts = count.attempts
       /\ count'.failedChecks = count.failedChecks + fc
       /\ count'.failures = count.failures + f
  BY <1>2 DEF CountInv, Counters
<1> QED BY <1>3, <1>4, <1>8, <1>9, <1>10, <1>11 DEF CountInv

(* A handler that was told the verdict counts nothing more.                *)
LEMMA CountConclude ==
  ASSUME CountInv, HubShape, NEW r \in Request, Conclude(r)
  PROVE  CountInv'
<1>1. /\ UNCHANGED <<at, born, run, count, fetch>> /\ req[r].pc = "verifying"
      /\ Kept(r)
  BY ConcludeGoes DEF store, process, Goes
<1>2. Started' = Started /\ Rejected' = Rejected /\ Failed' = Failed /\ Fetched' = Fetched
  BY <1>1 DEF Started, Rejected, Failed, Fetched
<1>3. Burned' = Burned
  BY <1>1, <1>2, RequestAssumption DEF Burned, Started, Kept
<1>4. Minted \subseteq Minted'
  BY <1>1, <1>3, RequestAssumption DEF Minted, Burned, Started, Kept
<1> QED BY <1>1, <1>2, <1>3, <1>4, CountKept

(* Nothing a verification or a counter is about moves.                     *)
LEMMA CountStill ==
  ASSUME CountInv, UNCHANGED <<at, req, count>>, Fetched' = Fetched
  PROVE  CountInv'
BY CountKept DEF Started, Burned, Rejected, Failed, Minted

(* A nonce is counted once, between its issue and its answer.              *)
LEMMA CountFetches ==
  ASSUME CountInv, HubShape, PagesOK, Arrived, NEW n \in Nonce,
         \/ \E b \in Browser : FetchNonce(b, n)
         \/ CountIssued(n) \/ DeliverNonce(n)
  PROVE  CountInv'
<1>1. UNCHANGED <<at, req, run>>
  BY DEF FetchNonce, CountIssued, DeliverNonce, process
<1>2. ASSUME NEW b \in Browser, FetchNonce(b, n) PROVE CountInv'
  <2>1. /\ DOMAIN born' = DOMAIN born \union {n} /\ n \notin DOMAIN born
        /\ \A k \in DOMAIN born : born'[k] = born[k]
    BY <1>2 DEF FetchNonce, Issue, With
  <2>2. /\ DOMAIN fetch' = DOMAIN fetch \union {n} /\ fetch'[n].pc = "issued"
        /\ \A k \in DOMAIN fetch : fetch'[k] = fetch[k] /\ k # n
        /\ count' = count
    <3>1. n \notin DOMAIN fetch
      BY <2>1 DEF PagesOK
    <3>2. fetch' = Put(fetch, n, [pc |-> "issued", browser |-> b]) /\ count' = count
      BY <1>2 DEF FetchNonce, recorder
    <3> QED BY <3>1, <3>2 DEF Put
  <2>3. \A k \in DOMAIN fetch : born'[k] = born[k]
    BY <2>1 DEF PagesOK
  <2>4. Fetched' = Fetched
    BY <1>1, <2>2, <2>3 DEF Fetched
  <2> QED BY <1>1, <2>2, <2>4, CountStill
<1>3. CASE DeliverNonce(n)
  <2>1. /\ n \in DOMAIN fetch /\ fetch[n].pc = "reply" /\ fetch[n] \in Fetches
        /\ fetch' = [fetch EXCEPT ![n].pc = "done"]
        /\ UNCHANGED <<count, born>>
    BY <1>3 DEF DeliverNonce, recorder, store, HubShape, WebOK
  <2>2. fetch'[n].pc = "done" /\ \A k \in DOMAIN fetch \ {n} : fetch'[k] = fetch[k]
    BY <2>1 DEF Fetches
  <2>3. Fetched' = Fetched
    BY <1>1, <2>1, <2>2 DEF Fetched
  <2> QED BY <1>1, <2>1, <2>3, CountStill
<1>4. CASE CountIssued(n)
  <2>1. /\ n \in DOMAIN fetch /\ fetch[n].pc = "issued" /\ fetch[n] \in Fetches
        /\ fetch' = [fetch EXCEPT ![n].pc = "reply"] /\ born' = born
        /\ count' = [count EXCEPT !.issued = count.issued + 1]
    BY <1>4 DEF CountIssued, Inc, store, HubShape, WebOK
  <2>2. fetch'[n].pc = "reply" /\ \A k \in DOMAIN fetch \ {n} : fetch'[k] = fetch[k]
    BY <2>1 DEF Fetches
  <2>3. Fetched' = Fetched \union {n} /\ n \notin Fetched
    BY <1>1, <2>1, <2>2 DEF Fetched, Arrived
  <2>4. Exactly(count.issued + 1, Fetched')
    BY <2>3, ExactlyOneMore DEF CountInv
  <2>5. /\ DOMAIN count' = Counters /\ count'.issued = count.issued + 1
        /\ count'.burned = count.burned /\ count'.attempts = count.attempts
        /\ count'.failedChecks = count.failedChecks /\ count'.failures = count.failures
        /\ count'.tokens = count.tokens
    BY <2>1 DEF CountInv, Counters
  <2>6. /\ Started' = Started /\ Rejected' = Rejected /\ Failed' = Failed /\ Burned' = Burned
        /\ Minted' = Minted
    BY <1>1 DEF Started, Burned, Rejected, Failed, Minted
  <2> QED BY <2>4, <2>5, <2>6 DEF CountInv
<1> QED BY <1>2, <1>3, <1>4

LEMMA CountSend ==
  ASSUME CountInv, HubShape, InPhase, NEW r \in Request, NEW b, NEW kind, NEW ns, NEW m, NEW t,
         Send(r, b, kind, ns, m, t)
  PROVE  CountInv'
<1>1. /\ \A s \in Request \ {r} : req'[s] = req[s]
      /\ UNCHANGED <<at, fetch, born, run, count>> /\ at[r].pc = "idle"
  BY SendGoes DEF web, store, process, InPhase, Phased
<1>2. Started' = Started /\ Rejected' = Rejected /\ Failed' = Failed /\ Fetched' = Fetched
  BY <1>1 DEF Started, Rejected, Failed, Fetched
<1>3. \A s \in Started : req'[s] = req[s]
  BY <1>1, RequestAssumption DEF Started
<1>4. Burned' = Burned /\ Minted \subseteq Minted'
  <2>1. Burned' = Burned
    BY <1>2, <1>3 DEF Burned
  <2>2. \A s \in Minted : s \in Burned /\ req'[s] = req[s]
    BY <1>3 DEF Minted, Burned
  <2> QED BY <1>1, <2>1, <2>2 DEF Minted
<1> QED BY <1>1, <1>2, <1>4, CountKept

(* The new process counts from zero, and no nonce of it has been issued.   *)
LEMMA CountCrash ==
  ASSUME CountInv, HubShape, NonceInv, PagesOK, HubCrash
  PROVE  CountInv'
<1>1. count' = Zero /\ Started' = {}
  BY CrashFrame, RequestAssumption DEF Started
<1>2. Burned' = {} /\ Rejected' = {} /\ Failed' = {} /\ Minted' = {}
  BY <1>1 DEF Burned, Rejected, Failed, Minted
<1>3. Fetched' = {}
  <2> SUFFICES ASSUME NEW n \in DOMAIN fetch', born'[n].run = run' PROVE FALSE
    BY DEF Fetched
  <2>1. n \in DOMAIN born /\ born[n].run = run + 1
    BY CrashFrame DEF PagesOK
  <2>2. born[n].run <= run /\ run \in Nat
    BY <2>1 DEF NonceInv, BornInThePast, NonceTypeOK
  <2> QED BY <2>1, <2>2
<1>4. Exactly(0, {}) /\ AtMost(0, {})
  <2>1. IsFiniteSet({}) /\ Cardinality({}) = 0
    BY FS_EmptySet
  <2> QED BY <2>1 DEF Exactly, AtMost
<1> QED BY <1>1, <1>2, <1>3, <1>4 DEF CountInv, Counters, Zero

LEMMA CountNext ==
  /\ CountInv /\ HubShape /\ NonceInv /\ ApprovalInv /\ HubCalls /\ InPhase /\ Arrived
  /\ [HubNext]_hubVars
  => CountInv'
<1> SUFFICES ASSUME CountInv, HubShape, NonceInv, PagesOK, HubCalls, InPhase, Arrived,
                    [HubNext]_hubVars
             PROVE  CountInv'
  BY DEF ApprovalInv
<1>1. CASE UNCHANGED <<at, req, count, fetch, born, run>>
  BY <1>1, CountStill DEF Fetched
<1>2. ASSUME NEW n \in Nonce, \/ \E b \in Browser : FetchNonce(b, n)
                             \/ CountIssued(n) \/ DeliverNonce(n)
      PROVE  CountInv'
  BY <1>2, CountFetches
<1>3. ASSUME NEW r \in Request, NEW b, NEW kind, NEW ns, NEW m, NEW t, Send(r, b, kind, ns, m, t)
      PROVE  CountInv'
  BY <1>3, CountSend
<1>4. ASSUME NEW r \in Request, Handle(r) \/ Deliver(r) PROVE CountInv'
  BY <1>4, CountQuiet, CountMint, CountBegin, CountStep, CountConclude DEF Handle
<1>5. CASE HubCrash
  BY <1>5, CountCrash
<1>6. ASSUME NEW w \in Contract, PostRegisterContractWallet(w) PROVE CountInv'
  BY <1>1, <1>6 DEF PostRegisterContractWallet, store, process, web, recorder
<1>7. CASE Tick /\ UNCHANGED <<store, ids, at, chain, web, req, recorder, sessions>>
  BY <1>1, <1>7 DEF Tick, store, web, recorder
<1> QED BY <1>1, <1>2, <1>3, <1>4, <1>5, <1>6, <1>7
        DEF HubNext, hubVars, store, process, web, recorder

LEMMA CountAlways == HubSpec => []CountInv
  BY CountInit, CountNext, HubKeepsNonceInv, ApprovalAlways, HubCallsAlways, InPhaseAlways,
     ArrivedAlways, ShapeAlways, PTL DEF HubSpec

(* Every burn counted is of a nonce counted: the cookie came with an       *)
(* answer, and no two burns are of the same nonce.                         *)
LEMMA BurnedWereFetched ==
  ASSUME Claims, Arrived, IsFiniteSet(Fetched)
  PROVE  IsFiniteSet(Burned) /\ Cardinality(Burned) <= Cardinality(Fetched)
<1> DEFINE cookie == [r \in Burned |-> req[r].cookie]
<1>1. \A r \in Burned : r \in Request /\ Burnt(r)
  BY RequestAssumption DEF Burned, Started, Burnt
<1>2. ASSUME NEW r \in Burned PROVE req[r].cookie \in Fetched
  <2>1. ClaimOK(r) /\ r \in Request
    BY <1>1 DEF Claims
  <2>2. req[r].cookie # "" /\ Settled(req[r].cookie)
    BY <2>1, NonceAssumption DEF ClaimOK, Arrived
  <2> QED BY <2>1, <2>2 DEF ClaimOK, Settled, Fetched
<1>3. \A r, s \in Burned : req[r].cookie = req[s].cookie => r = s
  BY <1>1 DEF Claims
<1>4. cookie \in Injection(Burned, Fetched)
  BY <1>2, <1>3 DEF Injection, IsInjective
<1> QED BY <1>4, FS_Injection

(* At whatever moment somebody reads the counters, and whatever the        *)
(* requests in flight and the restarts so far, they are in order: tokens   *)
(* of burned nonces, burns of issued ones, and no verification told both   *)
(* as a failure and as a token.                                            *)
THEOREM MetricsAlwaysOrdered == HubSpec => []MetricsOrdered
<1>1. ASSUME CountInv, Claims, Arrived PROVE MetricsOrdered
  <2>1. IsFiniteSet(Started) /\ IsFiniteSet(Fetched)
    BY <1>1 DEF CountInv, Exactly
  <2>2. Burned \in SUBSET Started /\ Rejected \in SUBSET Started /\ Minted \in SUBSET Burned
    BY DEF Burned, Rejected, Minted
  <2>3. IsFiniteSet(Burned) /\ IsFiniteSet(Minted) /\ IsFiniteSet(Rejected) /\ IsFiniteSet(Failed)
    BY <2>1, CountedFinite
  <2>4. /\ Cardinality(Started) \in Nat /\ Cardinality(Burned) \in Nat /\ Cardinality(Minted) \in Nat
        /\ Cardinality(Rejected) \in Nat /\ Cardinality(Failed) \in Nat
        /\ Cardinality(Fetched) \in Nat
    BY <2>1, <2>3, FS_CardinalityType
  <2>5. /\ Cardinality(Minted) <= Cardinality(Burned) /\ Cardinality(Rejected) <= Cardinality(Started)
    BY <2>1, <2>2, <2>3, FS_Subset
  <2>6. Cardinality(Burned) <= Cardinality(Fetched)
    BY <1>1, <2>1, BurnedWereFetched
  <2>7. Cardinality(Minted) + Cardinality(Failed) <= Cardinality(Started)
    <3>1. Minted \intersect Failed = {} /\ Minted \union Failed \in SUBSET Started
      BY DEF Minted, Burned, Failed
    <3>2. Cardinality(Minted \union Failed) = Cardinality(Minted) + Cardinality(Failed) - 0
      BY <2>3, <3>1, FS_Union, FS_EmptySet
    <3>3. Cardinality(Minted \union Failed) <= Cardinality(Started)
      BY <2>1, <3>1, FS_Subset
    <3> QED BY <2>4, <3>2, <3>3
  <2>8. /\ count.tokens \in Nat /\ count.tokens <= Cardinality(Minted)
        /\ count.failures \in Nat /\ count.failures <= Cardinality(Failed)
        /\ count.failedChecks \in Nat /\ count.failedChecks <= Cardinality(Rejected)
        /\ count.burned = Cardinality(Burned) /\ count.attempts = Cardinality(Started)
        /\ count.issued = Cardinality(Fetched)
    BY <1>1 DEF CountInv, Exactly, AtMost
  <2> QED BY <2>4, <2>5, <2>6, <2>7, <2>8 DEF MetricsOrdered
<1>2. CountInv /\ Claims /\ Arrived => MetricsOrdered
  BY <1>1
<1> QED BY <1>2, CountAlways, ClaimsAlways, ArrivedAlways, PTL

-----------------------------------------------------------------------------
(* The checks of a verification in the recorder's buffer.                  *)
Buffer(r) == IF r \in DOMAIN checks THEN checks[r] ELSE <<>>

(* The recorder has places left for every verification of this process.    *)
Room == count.attempts < RecorderCap

(* What is buffered is told by the n events after the second of the trail, *)
(* in their order; and it is all of them, unless some were dropped.        *)
Mirrors(buf, events, n, all) ==
  /\ buf \in Seq(Event)
  /\ \A i \in DOMAIN buf : \E j \in 1 .. n : buf[i] = events[j + 2]
  /\ \A i, k \in DOMAIN buf : i < k =>
       \E j, l \in 1 .. n : j < l /\ buf[i] = events[j + 2] /\ buf[k] = events[l + 2]
  /\ all => Len(buf) = n

(* How many of k events are of checks, when no check failed.               *)
CheckCount(k) == IF k <= 2 THEN 0 ELSE k - 2

BufferOK(r) ==
  /\ at[r].pc = "idle" => r \notin DOMAIN checks
  /\ at[r].pc \in Running => Mirrors(Buffer(r), at[r].trail, CheckCount(Len(at[r].trail)), Room)
  /\ at[r].pc \in Over /\ at[r].err = "nil" /\ req[r].pc = "verifying" =>
       Mirrors(Buffer(r), at[r].trail, 5, Room)

Told(r) ==
  req[r].pc \in {"verify", "wallets", "mint"} => Mirrors(req[r].trail, at[r].trail, 5, Room)

TrailInv == BuffersRequests /\ \A r \in Request : BufferOK(r) /\ Told(r)

LEMMA TrailInit == HubInit => TrailInv
<1> SUFFICES ASSUME HubInit PROVE TrailInv
  OBVIOUS
<1>1. DOMAIN checks = {} /\ \A r \in Request : at[r].pc = "idle" /\ req[r].pc = "unsent"
  BY RequestAssumption DEF HubInit, VerificationInit, Idle, Empty
<1> QED BY <1>1 DEF TrailInv, BuffersRequests, BufferOK, Told, Running, ChainCall, Over

(* One request moves; the buffers and verifications of the others stay.    *)
LEMMA TrailMove ==
  ASSUME TrailInv, NEW r \in Request, BuffersRequests', BufferOK(r)', Told(r)', Room' => Room,
         \A s \in Request \ {r} : /\ req'[s] = req[s] /\ at'[s] = at[s]
                                  /\ s \in DOMAIN checks' <=> s \in DOMAIN checks
                                  /\ s \in DOMAIN checks => checks'[s] = checks[s]
  PROVE  TrailInv'
<1>1. ASSUME NEW s \in Request \ {r} PROVE BufferOK(s)' /\ Told(s)'
  <2>1. Buffer(s)' = Buffer(s)
    BY DEF Buffer
  <2>2. \A buf, events, n : Mirrors(buf, events, n, Room) => Mirrors(buf, events, n, Room)'
    BY DEF Mirrors
  <2> QED BY <2>1, <2>2 DEF TrailInv, BufferOK, Told
<1> QED BY <1>1 DEF TrailInv

(* Verifications are counted as they begin, so room is only ever lost,     *)
(* until the process dies.                                                 *)
LEMMA RoomLost ==
  ASSUME CountInv, NEW r \in Request, Handle(r) \/ Deliver(r)
  PROVE  /\ Room' => Room
         /\ VerifyStep(r) => (Room' <=> Room)
<1>1. count.attempts \in Nat /\ RecorderCap \in Nat /\ DOMAIN count = Counters
  BY FS_CardinalityType, CapAssumption DEF CountInv, Exactly
<1>2. \/ count'.attempts = count.attempts
      \/ BeginVerify(r) /\ count'.attempts = count.attempts + 1
  <2>1. CASE BeginVerify(r)
    BY <1>1, <2>1 DEF BeginVerify, Counters
  <2>2. CASE VerifyStep(r)
    BY <1>1, <2>2 DEF VerifyStep, Counters
  <2>3. CASE Mint(r)
    BY <1>1, <2>3 DEF Mint, Inc, Counters
  <2>4. CASE ~BeginVerify(r) /\ ~VerifyStep(r) /\ ~Mint(r)
    BY <2>4 DEF Handle, Receive, BurnCookie, Conclude, Upsert, ReadWallets, Link, Deliver, recorder
  <2> QED BY <2>1, <2>2, <2>3, <2>4
<1>3. ~(VerifyStep(r) /\ BeginVerify(r))
  BY DEF VerifyStep, BeginVerify
<1> QED BY <1>1, <1>2, <1>3 DEF Room

(* The handler's copy of the trail, once drained, is not touched.          *)
LEMMA TrailQuiet ==
  ASSUME TrailInv, HubShape, NEW r \in Request, BuffersRequests', Room' => Room,
         \/ Receive(r) \/ BurnCookie(r) \/ Upsert(r) \/ ReadWallets(r) \/ Mint(r) \/ Link(r) \/ Deliver(r)
  PROVE  TrailInv'
<1>1. Quietly(r) /\ at' = at
  BY QuietStep
<1>2. checks' = checks
  BY DEF Receive, BurnCookie, Upsert, ReadWallets, Mint, Link, Deliver, recorder
<1>3. req'[r].pc # "verifying" /\ Kept(r)
  BY <1>1 DEF Quietly, Goes
<1>0. \A buf, events, n : Mirrors(buf, events, n, Room) => Mirrors(buf, events, n, Room)'
  BY DEF Mirrors
<1>4. BufferOK(r)'
  BY <1>0, <1>1, <1>2, <1>3 DEF TrailInv, BufferOK, Buffer
<1>5. Told(r)'
  <2> SUFFICES ASSUME req'[r].pc \in {"verify", "wallets", "mint"}
               PROVE  /\ req[r].pc \in {"verify", "wallets", "mint"}
                      /\ req'[r].trail = req[r].trail
    BY <1>0, <1>1 DEF TrailInv, Told
  <2>1. \/ req[r].pc = "verify" /\ req'[r].pc = "wallets"
        \/ req[r].pc = "wallets" /\ req'[r].pc = "mint"
    BY <1>1 DEF Quietly, Goes
  <2>2. DOMAIN req = Request /\ DOMAIN req[r] = Fields
    BY <2>1, WasSent DEF HubShape, RequestsOK, RequestOK
  <2>3. CASE Upsert(r)
    <3>1. PICK v : (\E id : v = [req[r] EXCEPT !.pc = "wallets", !.id = id]) /\ req' = [req EXCEPT ![r] = v]
      BY <2>3 DEF Upsert
    <3>2. v.trail = req[r].trail
      BY <2>2, <3>1 DEF Fields
    <3> QED BY <2>1, <2>2, <3>1, <3>2
  <2>4. CASE ReadWallets(r)
    <3>1. req[r].pc = "wallets" /\ req'[r].pc = "mint"
      BY <2>1, <2>4 DEF ReadWallets
    <3>2. CASE Reply(r, "500")
      <4>1. PICK v : v = [req[r] EXCEPT !.pc = "reply", !.status = "500"] /\ req' = [req EXCEPT ![r] = v]
        BY <3>2 DEF Reply
      <4>2. v.pc = "reply"
        BY <2>2, <4>1 DEF Fields
      <4> QED BY <2>2, <3>1, <4>1, <4>2
    <3>3. CASE ~Reply(r, "500")
      <4>1. PICK v : /\ v = [req[r] EXCEPT !.pc = "mint", !.wallets = Wallets(req[r].id)]
                     /\ req' = [req EXCEPT ![r] = v]
        BY <2>4, <3>3 DEF ReadWallets
      <4>2. v.trail = req[r].trail
        BY <2>2, <4>1 DEF Fields
      <4> QED BY <2>1, <2>2, <4>1, <4>2
    <3> QED BY <3>2, <3>3
  <2>5. Upsert(r) \/ ReadWallets(r)
    BY <2>1 DEF Receive, BurnCookie, Mint, Link, Deliver
  <2> QED BY <2>1, <2>3, <2>4, <2>5
<1> QED BY <1>1, <1>2, <1>3, <1>4, <1>5, TrailMove DEF Kept

LEMMA TrailBegin ==
  ASSUME TrailInv, HubShape, HubCalls, HubCalls', NEW r \in Request, BeginVerify(r),
         BuffersRequests', Room' => Room
  PROVE  TrailInv'
<1>1. /\ Goes(r, "begin", "verifying") /\ at[r].pc = "idle" /\ at'[r].pc = "lookup"
      /\ \A s \in Request \ {r} : at'[s] = at[s]
  BY BeginFrame
<1>2. checks' = checks
  BY DEF BeginVerify
<1>3. Len(at'[r].trail) = 1
  <2>1. PICK v : v = at'[r] /\ (v = Idle \/ CallSound(v, now'))
    BY RequestAssumption DEF HubCalls, CallsSound
  <2>2. CallSound(v, now') /\ v.pc = "lookup"
    BY <1>1, <2>1 DEF Idle
  <2> QED BY <2>1, <2>2 DEF CallSound, Logged, Running, Emissions
<1>4. BufferOK(r)'
  <2>1. Buffer(r)' = <<>>
    BY <1>1, <1>2 DEF TrailInv, BufferOK, Buffer
  <2>2. CheckCount(Len(at'[r].trail)) = 0
    BY <1>3 DEF CheckCount
  <2>3. Mirrors(<<>>, at'[r].trail, 0, Room')
    BY DEF Mirrors
  <2> QED BY <1>1, <2>1, <2>2, <2>3 DEF BufferOK, Over
<1>5. Told(r)'
  BY <1>1 DEF Told, Goes
<1> QED BY <1>1, <1>2, <1>4, <1>5, TrailMove DEF Goes, Kept

(* The trail drained is all of it.                                         *)
LEMMA TrailConclude ==
  ASSUME TrailInv, HubShape, InPhase, InPhase', NEW r \in Request, Conclude(r), BuffersRequests',
         Room' => Room
  PROVE  TrailInv'
<1>1. /\ at' = at /\ at[r].pc = "done" /\ req[r].pc = "verifying" /\ Kept(r)
      /\ \/ at[r].err = "nil" /\ req'[r].pc = req[r].kind
         \/ at[r].err # "nil" /\ req'[r].pc = "reply"
      /\ req'[r].pc # "verifying"
  BY ConcludeGoes DEF Goes
<1>2. DOMAIN req = Request /\ DOMAIN req[r] = Fields
  BY <1>1, WasSent DEF HubShape, RequestsOK, RequestOK
<1>3. req[r].kind = "verify" => req'[r].trail = Buffer(r)
  <2> SUFFICES ASSUME req[r].kind = "verify" PROVE req'[r].trail = Buffer(r)
    OBVIOUS
  <2>1. PICK v, pc : /\ v = [req[r] EXCEPT !.trail = Buffer(r), !.pc = pc, !.status = at[r].err]
                     /\ req' = [req EXCEPT ![r] = v]
    BY DEF Conclude, Buffer
  <2>2. v.trail = Buffer(r)
    BY <1>2, <2>1 DEF Fields
  <2> QED BY <1>2, <2>1, <2>2
<1>4. BufferOK(r)'
  BY <1>1 DEF BufferOK, Running, ChainCall
<1>5. Told(r)'
  <2> SUFFICES ASSUME req'[r].pc \in {"verify", "wallets", "mint"}
               PROVE  Mirrors(req[r].trail, at[r].trail, 5, Room)'
    BY DEF Told
  <2>1. req'[r].kind = "verify" /\ at[r].err = "nil"
    BY <1>1 DEF InPhase, Phased
  <2>2. req[r].kind = "verify"
    BY <1>1, <2>1 DEF Kept
  <2>3. Mirrors(Buffer(r), at[r].trail, 5, Room')
    BY <1>1, <2>1 DEF TrailInv, BufferOK, Over, Mirrors
  <2> QED BY <1>1, <1>3, <2>2, <2>3
<1>6. \A s \in Request \ {r} : /\ s \in DOMAIN checks' <=> s \in DOMAIN checks
                               /\ s \in DOMAIN checks => checks'[s] = checks[s]
  BY DEF Conclude, Without
<1> QED BY <1>1, <1>4, <1>5, <1>6, TrailMove DEF Kept

LEMMA MirrorsAnother ==
  ASSUME NEW buf, NEW events \in Seq(Event), NEW n \in Nat, NEW all, Mirrors(buf, events, n, all),
         Len(events) >= n + 2, NEW e \in Event
  PROVE  /\ Mirrors(buf, Append(events, e), n, all)
         /\ Len(events) = n + 2 =>
              /\ Mirrors(Append(buf, e), Append(events, e), n + 1, all)
              /\ ~all => Mirrors(buf, Append(events, e), n + 1, all)
<1>0. /\ buf \in Seq(Event)
      /\ \A i \in DOMAIN buf : \E j \in 1 .. n : buf[i] = events[j + 2]
      /\ \A i, k \in DOMAIN buf : i < k =>
           \E j, l \in 1 .. n : j < l /\ buf[i] = events[j + 2] /\ buf[k] = events[l + 2]
      /\ all => Len(buf) = n
  BY DEF Mirrors
<1>1. PICK longer, more : longer = Append(events, e) /\ more = Append(buf, e)
  OBVIOUS
<1>2. \A j \in 1 .. n : longer[j + 2] = events[j + 2]
  BY <1>1
<1>3. /\ \A i \in DOMAIN buf : \E j \in 1 .. n : buf[i] = longer[j + 2]
      /\ \A i, k \in DOMAIN buf : i < k =>
           \E j, l \in 1 .. n : j < l /\ buf[i] = longer[j + 2] /\ buf[k] = longer[l + 2]
  <2>1. ASSUME NEW i \in DOMAIN buf PROVE \E j \in 1 .. n : buf[i] = longer[j + 2]
    <3>1. PICK j \in 1 .. n : buf[i] = events[j + 2]
      BY <1>0
    <3> QED BY <1>2, <3>1
  <2>2. ASSUME NEW i \in DOMAIN buf, NEW k \in DOMAIN buf, i < k
        PROVE  \E j, l \in 1 .. n : j < l /\ buf[i] = longer[j + 2] /\ buf[k] = longer[l + 2]
    <3>1. PICK j \in 1 .. n, l \in 1 .. n :
            j < l /\ buf[i] = events[j + 2] /\ buf[k] = events[l + 2]
      BY <1>0, <2>2
    <3> QED BY <1>2, <3>1
  <2> QED BY <2>1, <2>2
<1>4. Mirrors(buf, longer, n, all)
  BY <1>0, <1>3 DEF Mirrors
<1>5. 1 .. n \subseteq 1 .. n + 1
  OBVIOUS
<1>6. ASSUME ~all PROVE Mirrors(buf, longer, n + 1, all)
  <2>1. \A i \in DOMAIN buf : \E j \in 1 .. n + 1 : buf[i] = longer[j + 2]
    BY <1>3, <1>5, Zenon
  <2>2. ASSUME NEW i \in DOMAIN buf, NEW k \in DOMAIN buf, i < k
        PROVE  \E j, l \in 1 .. n + 1 : j < l /\ buf[i] = longer[j + 2] /\ buf[k] = longer[l + 2]
    <3>1. PICK j \in 1 .. n, l \in 1 .. n :
            j < l /\ buf[i] = longer[j + 2] /\ buf[k] = longer[l + 2]
      BY <1>3, <2>2
    <3> QED BY <1>5, <3>1
  <2> QED BY <1>0, <1>6, <2>1, <2>2 DEF Mirrors
<1>7. ASSUME Len(events) = n + 2 PROVE Mirrors(more, longer, n + 1, all)
  <2>1. /\ Len(buf) \in Nat /\ Len(more) = Len(buf) + 1
        /\ DOMAIN buf = 1 .. Len(buf) /\ DOMAIN more = 1 .. Len(buf) + 1
        /\ more[Len(buf) + 1] = e /\ \A i \in DOMAIN buf : more[i] = buf[i]
        /\ more \in Seq(Event)
    BY <1>0, <1>1
  <2>2. longer[n + 1 + 2] = e
    BY <1>1, <1>7
  <2>3. ASSUME NEW i \in DOMAIN more PROVE \E j \in 1 .. n + 1 : more[i] = longer[j + 2]
    <3>1. CASE i \in DOMAIN buf
      <4>1. PICK j \in 1 .. n : buf[i] = longer[j + 2]
        BY <1>3, <3>1
      <4> QED BY <1>5, <2>1, <3>1, <4>1
    <3>2. CASE i = Len(buf) + 1
      BY <2>1, <2>2, <3>2
    <3> QED BY <2>1, <3>1, <3>2
  <2>4. ASSUME NEW i \in DOMAIN more, NEW k \in DOMAIN more, i < k
        PROVE  \E j, l \in 1 .. n + 1 : j < l /\ more[i] = longer[j + 2] /\ more[k] = longer[l + 2]
    <3>1. i \in DOMAIN buf
      BY <2>1, <2>4
    <3>2. CASE k \in DOMAIN buf
      <4>1. PICK j \in 1 .. n, l \in 1 .. n :
              j < l /\ buf[i] = longer[j + 2] /\ buf[k] = longer[l + 2]
        BY <1>3, <2>4, <3>1, <3>2
      <4> QED BY <1>5, <2>1, <3>1, <3>2, <4>1
    <3>3. CASE k = Len(buf) + 1
      <4>1. PICK j \in 1 .. n : more[i] = longer[j + 2]
        BY <1>3, <2>1, <3>1
      <4>2. j < n + 1 /\ n + 1 \in 1 .. n + 1 /\ j \in 1 .. n + 1
        OBVIOUS
      <4> QED BY <2>1, <2>2, <3>3, <4>1, <4>2
    <3> QED BY <2>1, <3>2, <3>3
  <2>5. all => Len(more) = n + 1
    BY <1>0, <2>1
  <2> QED BY <2>1, <2>3, <2>4, <2>5 DEF Mirrors
<1> QED BY <1>1, <1>4, <1>6, <1>7

(* While there is room, the buffer takes each event of a check: the        *)
(* attempts it holds have all begun.                                       *)
LEMMA StepBuffers ==
  ASSUME HubCalls, NEW r \in Request, VerifyStep(r), TrailInv, CountInv
  PROVE  /\ \A s \in Request \ {r} : /\ s \in DOMAIN checks' <=> s \in DOMAIN checks
                                     /\ s \in DOMAIN checks => checks'[s] = checks[s]
         /\ (\A e \in Emitted(r) : ~IsCheck(e)) => checks' = checks
         /\ \A e : Emitted(r) = {e} /\ IsCheck(e) =>
              \/ Buffer(r)' = Append(Buffer(r), e)
              \/ ~Room /\ Buffer(r)' = Buffer(r)
<1>1. Room => ~(Cardinality(DOMAIN checks) >= RecorderCap)
  <2>1. DOMAIN checks \in SUBSET Started
    BY RequestAssumption DEF TrailInv, BuffersRequests, BufferOK, Started
  <2>2. IsFiniteSet(Started) /\ count.attempts = Cardinality(Started)
    BY DEF CountInv, Exactly
  <2>3. Cardinality(DOMAIN checks) <= Cardinality(Started) /\ IsFiniteSet(DOMAIN checks)
    BY <2>1, <2>2, FS_Subset
  <2>4. Cardinality(DOMAIN checks) \in Nat /\ Cardinality(Started) \in Nat /\ RecorderCap \in Nat
    BY <2>2, <2>3, FS_CardinalityType, CapAssumption
  <2> QED BY <2>2, <2>3, <2>4 DEF Room
<1> DEFINE C == {e \in Emitted(r) : IsCheck(e)}
           first == CHOOSE e \in C : TRUE
<1>2. checks' = IF C = {} THEN checks ELSE Buffered(r, first)
  BY DEF VerifyStep
<1>3. \A e : \/ Buffered(r, e) = Put(checks, r, Append(Buffer(r), e))
             \/ ~Room /\ Buffered(r, e) = checks
  BY <1>1 DEF Buffered, Buffer
<1>4. checks' = checks \/ \E v : checks' = Put(checks, r, v)
  <2> HIDE DEF C, first
  <2> QED BY <1>2, <1>3
<1>5. \A s \in Request \ {r} : /\ s \in DOMAIN checks' <=> s \in DOMAIN checks
                               /\ s \in DOMAIN checks => checks'[s] = checks[s]
  BY <1>4 DEF Put
<1>6. (\A e \in Emitted(r) : ~IsCheck(e)) => checks' = checks
  BY <1>2
<1>7. ASSUME NEW e, Emitted(r) = {e}, IsCheck(e)
      PROVE  \/ Buffer(r)' = Append(Buffer(r), e)
             \/ ~Room /\ Buffer(r)' = Buffer(r)
  <2>1. C = {e} /\ first = e
    BY <1>7
  <2> HIDE DEF C, first
  <2>2. \/ checks' = Put(checks, r, Append(Buffer(r), e))
        \/ ~Room /\ checks' = checks
    BY <1>2, <1>3, <2>1
  <2> QED BY <2>2 DEF Put, Buffer
<1> QED BY <1>5, <1>6, <1>7

LEMMA TrailStep ==
  ASSUME TrailInv, HubShape, HubCalls, HubCalls', CountInv, NEW r \in Request, VerifyStep(r),
         BuffersRequests', Room' <=> Room
  PROVE  TrailInv'
<1>0. PICK a, v : a = at[r] /\ v = at'[r]
  OBVIOUS
<1>1. /\ Continues(a, v) /\ Logged(a) /\ a.pc # "idle" /\ v.pc # "idle"
      /\ \A s \in Request \ {r} : at'[s] = at[s]
      /\ req[r].pc = "verifying" /\ req' = req
  BY <1>0, StepFrame DEF CallSound
<1>2. Logged(v) /\ v.pc \in Running \union Over
  <2>1. v = Idle \/ CallSound(v, now')
    BY <1>0, RequestAssumption DEF HubCalls, CallsSound
  <2>2. CallSound(v, now')
    BY <1>1, <2>1 DEF Idle
  <2> QED BY <2>2 DEF CallSound, Shaped
<1>3. a.trail \in Seq(Event)
  BY <1>1 DEF Logged
<1>4. ASSUME NEW e, v.trail = Append(a.trail, e)
      PROVE  Emitted(r) = {e}
  <2>1. Len(v.trail) = Len(a.trail) + 1 /\ v.trail[Len(a.trail) + 1] = e /\ Len(a.trail) \in Nat
    BY <1>3, <1>4
  <2>2. Len(a.trail) + 1 .. Len(v.trail) = {Len(a.trail) + 1}
    BY <2>1
  <2> QED BY <1>0, <2>1, <2>2 DEF Emitted
<1>5. /\ v.pc \in Running => Mirrors(Buffer(r)', v.trail, CheckCount(Len(v.trail)), Room)
      /\ v.pc \in Over /\ v.err = "nil" => Mirrors(Buffer(r)', v.trail, 5, Room)
  <2>1. CASE Decision(a, v)
    <3>1. PICK stage, err : Decided(a, stage) /\ Decides(a, v, stage, err)
      BY <2>1 DEF Decision
    <3>2. PICK e : e = [name |-> stage, ok |-> err = "nil"] /\ v.trail = Append(a.trail, e)
      BY <3>1 DEF Decides
    <3>3. e.name = stage /\ e \in Event
      BY <3>1, <3>2 DEF Decided, Event, StageName
    <3>4. /\ a.pc \in Running /\ Len(a.trail) = Emissions(a.pc)
          /\ stage = "parse" => Len(a.trail) = 1
          /\ stage # "parse" => Len(a.trail) \in 2 .. 6
          /\ stage = "signature" <=> Len(a.trail) = 6
      <4>1. a.pc \in Running
        BY <3>1 DEF Decided, Running
      <4>2. Len(a.trail) = Emissions(a.pc)
        BY <1>1, <4>1 DEF Logged
      <4>3. /\ stage = "parse" => Emissions(a.pc) = 1
            /\ stage # "parse" => Emissions(a.pc) \in 2 .. 6
            /\ stage = "signature" <=> Emissions(a.pc) = 6
        BY <3>1 DEF Decided, ChainCall, Emissions
      <4> QED BY <4>1, <4>2, <4>3
    <3>5. Mirrors(Buffer(r), a.trail, CheckCount(Len(a.trail)), Room)
      BY <1>0, <3>4 DEF TrailInv, BufferOK
    <3>6. Len(v.trail) = Len(a.trail) + 1
      BY <1>3, <3>2, <3>3
    <3>7. Mirrors(Buffer(r)', v.trail, CheckCount(Len(v.trail)), Room)
      <4>1. CASE stage = "parse"
        <5>1. ~IsCheck(e)
          BY <3>3, <4>1 DEF IsCheck, Checks
        <5>2. Buffer(r)' = Buffer(r)
          BY <1>4, <3>2, <5>1, StepBuffers DEF Buffer
        <5>3. CheckCount(Len(a.trail)) = 0 /\ CheckCount(Len(v.trail)) = 0
          BY <3>4, <3>6, <4>1 DEF CheckCount
        <5> QED BY <3>5, <5>2, <5>3 DEF Mirrors
      <4>2. CASE stage # "parse"
        <5>1. IsCheck(e)
          <6>1. /\ DOMAIN Checks = 1 .. 5 /\ Checks[1] = "domain" /\ Checks[2] = "not_before"
                /\ Checks[3] = "expiry" /\ Checks[4] = "nonce" /\ Checks[5] = "signature"
            BY DEF Checks
          <6>2. \E i \in DOMAIN Checks : Checks[i] = stage
            BY <3>1, <4>2, <6>1 DEF Decided
          <6> QED BY <3>3, <6>2 DEF IsCheck
        <5>2. \/ Buffer(r)' = Append(Buffer(r), e)
              \/ ~Room /\ Buffer(r)' = Buffer(r)
          BY <1>4, <3>2, <5>1, StepBuffers
        <5>3. PICK n \in Nat : n = Len(a.trail) - 2
          BY <3>4, <4>2
        <5>4. CheckCount(Len(a.trail)) = n /\ CheckCount(Len(v.trail)) = n + 1 /\ Len(a.trail) = n + 2
          BY <3>4, <3>6, <4>2, <5>3 DEF CheckCount
        <5>5. PICK all : all = Room
          OBVIOUS
        <5>6. Mirrors(Buffer(r), a.trail, n, all) /\ Len(a.trail) >= n + 2
          BY <3>5, <5>4, <5>5
        <5>7. /\ Mirrors(Append(Buffer(r), e), v.trail, n + 1, all)
              /\ ~all => Mirrors(Buffer(r), v.trail, n + 1, all)
          BY <1>3, <3>2, <3>3, <5>4, <5>6, MirrorsAnother
        <5> QED BY <5>2, <5>4, <5>5, <5>7
      <4> QED BY <4>1, <4>2
    <3>8. v.pc \in Over /\ v.err = "nil" => CheckCount(Len(v.trail)) = 5
      <4> SUFFICES ASSUME v.pc \in Over, v.err = "nil" PROVE CheckCount(Len(v.trail)) = 5
        OBVIOUS
      <4>1. v.pc = After(stage) /\ err = "nil"
        BY <3>1 DEF Decides
      <4>2. stage = "signature"
        BY <3>1, <4>1, NextStage DEF Decided, Over
      <4> QED BY <3>4, <3>6, <4>2 DEF CheckCount
    <3> QED BY <3>7, <3>8
  <2>2. CASE Silent(a, v)
    <3>1. /\ v.trail = a.trail /\ a.pc \in Running
          /\ v.pc \in Running \/ (v.pc = "result" /\ v.err # "nil")
      BY <2>2 DEF Silent
    <3>2. Emitted(r) = {}
      <4>1. Len(a.trail) \in Nat
        BY <1>3
      <4>2. Len(a.trail) + 1 .. Len(a.trail) = {}
        BY <4>1
      <4> QED BY <1>0, <3>1, <4>2 DEF Emitted
    <3>3. Buffer(r)' = Buffer(r)
      BY <3>2, StepBuffers DEF Buffer
    <3>4. Mirrors(Buffer(r), a.trail, CheckCount(Len(a.trail)), Room)
      BY <1>0, <3>1 DEF TrailInv, BufferOK
    <3> QED BY <3>1, <3>3, <3>4 DEF Running, ChainCall, Over
  <2>3. CASE Report(a, v)
    <3>1. PICK e : e = [name |-> "result", ok |-> a.err = "nil"] /\ v.trail = Append(a.trail, e)
      BY <2>3 DEF Report
    <3>2. e.name = "result" /\ e \in Event
      BY <3>1 DEF Event, StageName
    <3>3. a.pc = "result" /\ v.pc = "done" /\ v.err = a.err
      BY <2>3 DEF Report
    <3>4. Buffer(r)' = Buffer(r)
      <4>1. ~IsCheck(e)
        BY <3>2 DEF IsCheck, Checks
      <4> QED BY <1>4, <3>1, <4>1, StepBuffers DEF Buffer
    <3>5. ASSUME a.err = "nil" PROVE Mirrors(Buffer(r), v.trail, 5, Room)
      <4>1. Len(a.trail) = 7
        BY <1>1, <3>3, <3>5 DEF Logged, Over
      <4>2. Mirrors(Buffer(r), a.trail, 5, Room)
        BY <1>0, <1>1, <3>3, <3>5 DEF TrailInv, BufferOK, Over
      <4>3. PICK n \in Nat : n = 5
        OBVIOUS
      <4>4. Mirrors(Buffer(r), a.trail, n, Room) /\ Len(a.trail) >= n + 2
        BY <4>1, <4>2, <4>3
      <4>5. Mirrors(Buffer(r), Append(a.trail, e), n, Room)
        BY <1>3, <3>2, <4>4, MirrorsAnother
      <4> QED BY <3>1, <4>3, <4>5
    <3> QED BY <3>3, <3>4, <3>5 DEF Running, ChainCall
  <2> QED BY <1>1, <2>1, <2>2, <2>3 DEF Continues
<1>6. BufferOK(r)'
  BY <1>0, <1>1, <1>5 DEF BufferOK, Mirrors
<1>7. Told(r)'
  <2>1. req'[r].pc = "verifying"
    BY <1>1
  <2> QED BY <2>1 DEF Told
<1>8. \A s \in Request \ {r} : /\ req'[s] = req[s] /\ at'[s] = at[s]
                               /\ s \in DOMAIN checks' <=> s \in DOMAIN checks
                               /\ s \in DOMAIN checks => checks'[s] = checks[s]
  BY <1>1, StepBuffers
<1> QED BY <1>6, <1>7, <1>8, TrailMove

LEMMA TrailNext ==
  /\ TrailInv /\ HubShape /\ HubCalls /\ InPhase /\ CountInv /\ (HubCalls /\ InPhase)'
  /\ [HubNext]_hubVars
  => TrailInv'
<1> SUFFICES ASSUME TrailInv, HubShape, HubCalls, InPhase, CountInv, HubCalls', InPhase',
                    [HubNext]_hubVars
             PROVE  TrailInv'
  OBVIOUS
<1>0. BuffersRequests'
  BY BuffersNext DEF TrailInv
<1>1. CASE UNCHANGED <<at, req, checks>> /\ (Room' => Room)
  <2>1. \A buf, events, n : Mirrors(buf, events, n, Room) => Mirrors(buf, events, n, Room)'
    BY <1>1 DEF Mirrors
  <2> QED BY <1>0, <1>1, <2>1 DEF TrailInv, BufferOK, Buffer, Told
<1>2. ASSUME NEW n \in Nonce, \/ \E b \in Browser : FetchNonce(b, n)
                             \/ CountIssued(n) \/ DeliverNonce(n)
      PROVE  TrailInv'
  <2>1. count'.attempts = count.attempts
    BY <1>2 DEF FetchNonce, CountIssued, DeliverNonce, Inc, recorder, CountInv, Counters
  <2>2. UNCHANGED <<at, req, checks>>
    BY <1>2 DEF FetchNonce, CountIssued, DeliverNonce, recorder
  <2> QED BY <1>1, <2>1, <2>2 DEF Room
<1>3. ASSUME NEW r \in Request, NEW b, NEW kind, NEW ns, NEW m, NEW t, Send(r, b, kind, ns, m, t)
      PROVE  TrailInv'
  <2>1. /\ req[r].pc = "unsent" /\ req'[r].pc = "sent" /\ at' = at
        /\ \A s \in Request \ {r} : req'[s] = req[s]
    BY <1>3, SendGoes
  <2>2. checks' = checks /\ count' = count
    BY <1>3 DEF Send, recorder
  <2>3. BufferOK(r)' /\ Told(r)' /\ (Room' => Room)
    BY <2>1, <2>2 DEF TrailInv, BufferOK, Buffer, Told, Room, Mirrors
  <2> QED BY <1>0, <2>1, <2>2, <2>3, TrailMove
<1>4. ASSUME NEW r \in Request, Handle(r) \/ Deliver(r) PROVE TrailInv'
  <2>1. CASE VerifyStep(r)
    BY <1>0, <1>4, <2>1, TrailStep, RoomLost
  <2>2. CASE BeginVerify(r)
    BY <1>0, <1>4, <2>2, TrailBegin, RoomLost
  <2>3. CASE Conclude(r)
    BY <1>0, <1>4, <2>3, TrailConclude, RoomLost
  <2>4. CASE ~VerifyStep(r) /\ ~BeginVerify(r) /\ ~Conclude(r)
    BY <1>0, <1>4, <2>4, TrailQuiet, RoomLost DEF Handle
  <2> QED BY <2>1, <2>2, <2>3, <2>4
<1>5. CASE HubCrash
  <2>1. DOMAIN checks' = {}
    BY <1>5 DEF HubCrash, Empty
  <2>2. \A r \in Request : at'[r].pc = "idle" /\ req'[r].pc \notin {"verify", "wallets", "mint"}
    BY <1>5, CrashFrame
  <2> QED BY <1>0, <2>1, <2>2 DEF TrailInv, BufferOK, Told, Running, ChainCall, Over
<1>6. ASSUME NEW w \in Contract, PostRegisterContractWallet(w) PROVE TrailInv'
  BY <1>1, <1>6 DEF PostRegisterContractWallet, recorder, Room
<1>7. CASE Tick /\ UNCHANGED <<store, ids, at, chain, web, req, recorder, sessions>>
  BY <1>1, <1>7 DEF recorder, Room
<1>8. CASE UNCHANGED hubVars
  BY <1>1, <1>8 DEF hubVars, recorder, Room
<1> QED BY <1>2, <1>3, <1>4, <1>5, <1>6, <1>7, <1>8 DEF HubNext

(* The check events in a sign-in's answer are those of its own             *)
(* verification, as they were emitted and in that order, whatever other    *)
(* requests verify meanwhile and however full the shared buffer is, to     *)
(* which links never give their places back; and all five checks are there *)
(* as long as the process has begun fewer verifications than it has places.*)
THEOREM TrailAlwaysDelivered == HubSpec => []ChecksTrailDelivered
<1>1. ASSUME TrailInv, InPhase, HubCalls PROVE ChecksTrailDelivered
  <2> SUFFICES ASSUME NEW r \in Request, req[r].pc \in {"verify", "wallets", "mint"}
               PROVE  LET told == req[r].trail
                          Is(i, j) == told[i] = at[r].trail[j + 2] /\ told[i].name = Checks[j]
                      IN  /\ \A i \in DOMAIN told : \E j \in DOMAIN Checks : Is(i, j)
                          /\ \A i, k \in DOMAIN told : i < k =>
                               \E j, l \in DOMAIN Checks : j < l /\ Is(i, j) /\ Is(k, l)
                          /\ count.attempts < RecorderCap => Len(told) = Len(Checks)
    BY DEF ChecksTrailDelivered
  <2> DEFINE told == req[r].trail
  <2>1. PICK a : a = at[r] /\ a.pc = "done" /\ a.err = "nil" /\ (a = Idle \/ CallSound(a, now))
    BY <1>1, RequestAssumption DEF InPhase, Phased, Accepting, HubCalls, CallsSound
  <2>2. Logged(a)
    BY <2>1 DEF Idle, CallSound
  <2>3. Prefix(a.trail, 7, TRUE)
    BY <2>1, <2>2 DEF Logged, Over
  <2>4. Mirrors(told, a.trail, 5, Room)
    BY <1>1, <2>1 DEF TrailInv, Told
  <2>5. /\ Len(Checks) = 5 /\ DOMAIN Checks = 1 .. 5
        /\ \A i \in 1 .. 5 : Checks[i] = Stages[i + 2]
    <3>1. /\ Checks \in Seq(StageName) /\ Len(Checks) = 5
          /\ Checks[1] = "domain" /\ Checks[2] = "not_before" /\ Checks[3] = "expiry"
          /\ Checks[4] = "nonce" /\ Checks[5] = "signature"
      BY DEF Checks, StageName
    <3> QED BY <3>1, NextStage
  <2>6. ASSUME NEW j \in 1 .. 5 PROVE a.trail[j + 2].name = Checks[j]
    <3>1. j + 2 \in 1 .. 7
      OBVIOUS
    <3>2. a.trail[j + 2].name = Stages[j + 2]
      BY <2>3, <3>1 DEF Prefix
    <3> QED BY <2>5, <3>2
  <2> HIDE DEF told
  <2>7. \A i, j : j \in 1 .. 5 /\ told[i] = a.trail[j + 2] => told[i].name = Checks[j]
    BY <2>6
  <2>8. \A i \in DOMAIN told : \E j \in DOMAIN Checks :
          told[i] = a.trail[j + 2] /\ told[i].name = Checks[j]
    BY <2>4, <2>5, <2>7 DEF Mirrors
  <2>9. \A i, k \in DOMAIN told : i < k => \E j, l \in DOMAIN Checks :
          /\ j < l
          /\ told[i] = a.trail[j + 2] /\ told[i].name = Checks[j]
          /\ told[k] = a.trail[l + 2] /\ told[k].name = Checks[l]
    BY <2>4, <2>5, <2>7 DEF Mirrors
  <2>10. count.attempts < RecorderCap => Len(told) = Len(Checks)
    BY <2>4, <2>5 DEF Mirrors, Room
  <2> QED BY <2>1, <2>8, <2>9, <2>10 DEF told
<1>2. TrailInv /\ InPhase /\ HubCalls => ChecksTrailDelivered
  BY <1>1
<1> QED BY <1>2, TrailInit, TrailNext, HubCallsAlways, InPhaseAlways, CountAlways, ShapeAlways, PTL
        DEF HubSpec
=============================================================================
