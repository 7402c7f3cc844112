---------------------------- MODULE EvmRpc_proofs ----------------------------
(***************************************************************************)
(* The invariants of EvmRpc for any number of verifications and chains.    *)
(***************************************************************************)
EXTENDS EvmRpc, TLAPS

(* What makes OneConnection inductive: a chain is only dialled while it    *)
(* has no connection, and a call on the network has one.                   *)
DialsAreFresh ==
  /\ \A c \in Call : At(c, "dial") => eth[call[c].chain] = 0
  /\ \A c \in Call : At(c, "net") => call[c].conn # 0

RpcInv == RpcTypeOK /\ HeldWhileDialling /\ OneConnection /\ DialsAreFresh /\ OwnContextOnly

CallRecord == [pc : Stage, chain : Chain \union {Unknown}, ctx : {"live", "ended"},
               conn : Nat, ops : 0 .. MaxOps, err : Errors]

(* A step of one call is any of these. *)
CallStep(c) ==
  \/ \E ch \in Chain \union {Unknown} : ClientFor(c, ch)
  \/ Invoke(c) \/ Acquire(c) \/ DialSucceeds(c) \/ Finish(c) \/ ContextEnds(c)
  \/ \E err \in Errors : DialFails(c, err) \/ Answered(c, err)

(* The invariant holds when the resolver has been built. *)
LEMMA RpcInitially == RpcInit => RpcInv
  BY UnknownAssumption, NobodyAssumption, MaxOpsAssumption
  DEF RpcInit, RpcInv, RpcTypeOK, HeldWhileDialling, OneConnection, DialsAreFresh,
      OwnContextOnly, At, Dialling, Stage, Errors

(* ClientFor, Invoke, Finish and ContextEnds touch one call's record only. *)
LEMMA QuietSteps ==
  ASSUME RpcInv, NEW c \in Call,
         \/ \E ch \in Chain \union {Unknown} : ClientFor(c, ch)
         \/ Invoke(c) \/ Finish(c) \/ ContextEnds(c)
  PROVE  RpcInv'
<1>1. call[c] \in CallRecord /\ call \in [Call -> CallRecord]
  BY DEF RpcInv, RpcTypeOK, CallRecord
<1>2. PICK new : call' = [call EXCEPT ![c] = new]
  BY DEF ClientFor, Invoke, Finish, ContextEnds
<1>3. UNCHANGED <<holder, eth, opened>>
  BY DEF ClientFor, Invoke, Finish, ContextEnds
<1>4. call'[c] = new /\ \A d \in Call \ {c} : call'[d] = call[d]
  BY <1>1, <1>2
<1>5. /\ new \in CallRecord
      /\ new.pc \in Stage \ {"idle", "done"} => new.chain \in Chain
      /\ new.pc = "dial" \/ call[c].pc = "dial" => new.pc = call[c].pc /\ new.chain = call[c].chain
      /\ new.pc = "net" => call[c].pc = "net" /\ new.conn = call[c].conn /\ new.chain = call[c].chain
      /\ new.err = "ctx" => new.ctx = "ended"
  <2>1. CASE \E ch \in Chain \union {Unknown} : ClientFor(c, ch)
    <3>1. PICK ch \in Chain \union {Unknown} : ClientFor(c, ch)
      BY <2>1
    <3>2. /\ new = [call[c] EXCEPT !.pc = IF ch \in Chain THEN "ready" ELSE "done", !.chain = ch,
                                   !.err = IF ch \in Chain THEN "nil" ELSE "no client"]
          /\ call[c].pc = "idle"
      BY <3>1, <1>1, <1>4 DEF ClientFor, At
    <3>. QED BY <3>2, <1>1, UnknownAssumption DEF CallRecord, Stage, Errors
  <2>2. CASE Invoke(c)
    <3>1. /\ new = [call[c] EXCEPT !.pc = "lock", !.ops = @ + 1, !.err = "nil"]
          /\ call[c].pc = "ready" /\ call[c].ops < MaxOps
      <4>1. call' = [call EXCEPT ![c] = [call[c] EXCEPT !.pc = "lock", !.ops = call[c].ops + 1,
                                                        !.err = "nil"]]
        BY <2>2 DEF Invoke
      <4>2. call[c].pc = "ready" /\ call[c].ops < MaxOps
        BY <2>2 DEF Invoke, At
      <4>. HIDE DEF CallRecord
      <4>3. call'[c] = [call[c] EXCEPT !.pc = "lock", !.ops = call[c].ops + 1, !.err = "nil"]
        BY <4>1, <1>1, Zenon
      <4>. QED BY <4>2, <4>3, <1>4
    <3>2. call[c].ops + 1 \in 0 .. MaxOps
      BY <3>1, <1>1, MaxOpsAssumption DEF CallRecord
    <3>. QED BY <3>1, <3>2, <1>1 DEF CallRecord, Stage, Errors, RpcInv, RpcTypeOK
  <2>3. CASE Finish(c)
    BY <2>3, <1>1, <1>4
    DEF Finish, At, CallRecord, Stage, Errors, RpcInv, RpcTypeOK, OwnContextOnly
  <2>4. CASE ContextEnds(c)
    BY <2>4, <1>1, <1>4
    DEF ContextEnds, At, CallRecord, Stage, Errors, RpcInv, RpcTypeOK, OwnContextOnly
  <2>. QED BY <2>1, <2>2, <2>3, <2>4
<1>6. RpcTypeOK'
  BY <1>1, <1>2, <1>3, <1>4, <1>5 DEF RpcInv, RpcTypeOK, CallRecord
<1>7. HeldWhileDialling'
  BY <1>3, <1>4, <1>5 DEF RpcInv, HeldWhileDialling, Dialling, At
<1>8. OneConnection'
  BY <1>3, <1>4, <1>5 DEF RpcInv, OneConnection, At
<1>9. DialsAreFresh'
  BY <1>3, <1>4, <1>5 DEF RpcInv, DialsAreFresh, At
<1>10. OwnContextOnly'
  BY <1>4, <1>5 DEF RpcInv, OwnContextOnly
<1>. QED BY <1>6, <1>7, <1>8, <1>9, <1>10 DEF RpcInv

(* Taking the mutex: a second holder would have found it taken. *)
LEMMA AcquireStep ==
  ASSUME RpcInv, NEW c \in Call, Acquire(c)
  PROVE  RpcInv'
<1> DEFINE ch == call[c].chain
<1>1. /\ call[c] \in CallRecord /\ call \in [Call -> CallRecord]
      /\ ch \in Chain /\ At(c, "lock") /\ holder[ch] = Nobody
      /\ eth \in [Chain -> Nat] /\ holder \in [Chain -> Call \union {Nobody}]
      /\ UNCHANGED <<eth, opened>>
  BY DEF RpcInv, RpcTypeOK, CallRecord, Acquire, At, Stage
<1>2. CASE eth[ch] # 0
  <2>1. UNCHANGED holder /\ call' = [call EXCEPT ![c] = [@ EXCEPT !.pc = "net", !.conn = eth[ch]]]
    BY <1>2 DEF Acquire
  <2>2. /\ call'[c] \in CallRecord /\ call'[c].pc = "net" /\ call'[c].conn = eth[ch]
        /\ call'[c].chain = ch /\ call'[c].ctx = call[c].ctx /\ call'[c].err = call[c].err
        /\ \A d \in Call \ {c} : call'[d] = call[d]
    BY <1>1, <2>1 DEF CallRecord, Stage
  <2>3. RpcTypeOK'
    BY <1>1, <2>1, <2>2 DEF RpcInv, RpcTypeOK, CallRecord
  <2>4. HeldWhileDialling' /\ OneConnection' /\ DialsAreFresh' /\ OwnContextOnly'
    BY <1>1, <1>2, <2>1, <2>2
    DEF RpcInv, HeldWhileDialling, OneConnection, DialsAreFresh, OwnContextOnly, Dialling, At
  <2>. QED BY <2>3, <2>4 DEF RpcInv
<1>3. CASE eth[ch] = 0
  <2>1. /\ call' = [call EXCEPT ![c].pc = "dial"]
        /\ holder' = [holder EXCEPT ![ch] = c]
    BY <1>3 DEF Acquire
  <2>2. /\ call'[c] \in CallRecord /\ call'[c].pc = "dial" /\ call'[c].chain = ch
        /\ call'[c].ctx = call[c].ctx /\ call'[c].err = call[c].err
        /\ \A d \in Call \ {c} : call'[d] = call[d]
    BY <1>1, <2>1 DEF CallRecord, Stage
  <2>3. holder'[ch] = c /\ \A k \in Chain \ {ch} : holder'[k] = holder[k]
    BY <1>1, <2>1
  <2>4. \A d \in Call : ~Dialling(d, ch)
    BY <1>1, NobodyAssumption DEF RpcInv, HeldWhileDialling
  <2>5. RpcTypeOK'
    BY <1>1, <2>1, <2>2 DEF RpcInv, RpcTypeOK, CallRecord
  <2>6. HeldWhileDialling'
    BY <1>1, <2>2, <2>3, <2>4 DEF RpcInv, HeldWhileDialling, Dialling, At
  <2>7. OneConnection' /\ DialsAreFresh' /\ OwnContextOnly'
    BY <1>1, <1>3, <2>2 DEF RpcInv, OneConnection, DialsAreFresh, OwnContextOnly, At
  <2>. QED BY <2>5, <2>6, <2>7 DEF RpcInv
<1>. QED BY <1>2, <1>3

(* The holder connects a chain that had no connection. *)
LEMMA DialSucceedsStep ==
  ASSUME RpcInv, NEW c \in Call, DialSucceeds(c)
  PROVE  RpcInv'
<1> DEFINE ch == call[c].chain
<1>1. /\ call[c] \in CallRecord /\ call \in [Call -> CallRecord]
      /\ ch \in Chain /\ At(c, "dial") /\ holder[ch] = c /\ eth[ch] = 0 /\ opened[ch] = 0
      /\ eth \in [Chain -> Nat] /\ opened \in [Chain -> Nat]
      /\ holder \in [Chain -> Call \union {Nobody}]
  BY DEF RpcInv, RpcTypeOK, CallRecord, DialSucceeds, At, Stage, HeldWhileDialling, Dialling,
         DialsAreFresh, OneConnection
<1>2. /\ opened' = [opened EXCEPT ![ch] = 1] /\ eth' = [eth EXCEPT ![ch] = 1]
      /\ holder' = [holder EXCEPT ![ch] = Nobody]
      /\ call' = [call EXCEPT ![c] = [@ EXCEPT !.pc = "net", !.conn = 1]]
  BY <1>1 DEF DialSucceeds, Release
<1>3. /\ call'[c] \in CallRecord /\ call'[c].pc = "net" /\ call'[c].conn = 1
      /\ call'[c].chain = ch /\ call'[c].ctx = call[c].ctx /\ call'[c].err = call[c].err
      /\ \A d \in Call \ {c} : call'[d] = call[d]
  BY <1>1, <1>2 DEF CallRecord, Stage
<1>4. /\ holder'[ch] = Nobody /\ eth'[ch] = 1 /\ opened'[ch] = 1
      /\ \A k \in Chain \ {ch} : /\ holder'[k] = holder[k] /\ eth'[k] = eth[k]
                                 /\ opened'[k] = opened[k]
  BY <1>1, <1>2
<1>5. \A d \in Call \ {c} : ~Dialling(d, ch)
  BY <1>1 DEF RpcInv, HeldWhileDialling
<1>6. \A d \in Call : At(d, "net") => call[d].chain # ch
  BY <1>1 DEF RpcInv, OneConnection, DialsAreFresh
<1>7. RpcTypeOK'
  BY <1>1, <1>2, <1>3 DEF RpcInv, RpcTypeOK, CallRecord
<1>8. HeldWhileDialling'
  BY <1>1, <1>3, <1>4, <1>5, NobodyAssumption DEF RpcInv, HeldWhileDialling, Dialling, At
<1>9. OneConnection'
  <2>1. \A k \in Chain : opened'[k] <= 1 /\ eth'[k] = opened'[k]
    BY <1>4 DEF RpcInv, OneConnection
  <2>2. \A d \in Call : call'[d].pc = "net" => call'[d].conn = eth'[call'[d].chain]
    <3> SUFFICES ASSUME NEW d \in Call, call'[d].pc = "net"
                 PROVE  call'[d].conn = eth'[call'[d].chain]
      OBVIOUS
    <3>1. CASE d = c
      BY <3>1, <1>3, <1>4
    <3>2. CASE d # c
      <4>1. call'[d] = call[d] /\ At(d, "net") /\ call[d].chain \in Chain \ {ch}
        BY <3>2, <1>3, <1>6 DEF At, RpcInv, RpcTypeOK, Stage
      <4>. QED BY <4>1, <1>4 DEF RpcInv, OneConnection
    <3>. QED BY <3>1, <3>2
  <2>. QED BY <2>1, <2>2 DEF OneConnection, At
<1>10. DialsAreFresh'
  <2>1. \A d \in Call : call'[d].pc = "dial" => eth'[call'[d].chain] = 0
    BY <1>3, <1>4, <1>5 DEF RpcInv, RpcTypeOK, DialsAreFresh, Dialling, At, Stage
  <2>2. \A d \in Call : call'[d].pc = "net" => call'[d].conn # 0
    BY <1>3 DEF RpcInv, DialsAreFresh, At
  <2>. QED BY <2>1, <2>2 DEF DialsAreFresh, At
<1>11. OwnContextOnly'
  BY <1>3 DEF RpcInv, OwnContextOnly
<1>. QED BY <1>7, <1>8, <1>9, <1>10, <1>11 DEF RpcInv

(* A dial that fails frees the mutex and leaves everything else. *)
LEMMA DialFailsStep ==
  ASSUME RpcInv, NEW c \in Call, NEW err \in Errors, DialFails(c, err)
  PROVE  RpcInv'
<1> DEFINE ch == call[c].chain
<1>1. /\ call[c] \in CallRecord /\ call \in [Call -> CallRecord]
      /\ ch \in Chain /\ At(c, "dial") /\ holder[ch] = c
      /\ holder \in [Chain -> Call \union {Nobody}]
      /\ err = "ctx" => call[c].ctx = "ended"
      /\ UNCHANGED <<eth, opened>>
  BY DEF RpcInv, RpcTypeOK, CallRecord, DialFails, At, Stage, HeldWhileDialling, Dialling
<1>2. /\ holder' = [holder EXCEPT ![ch] = Nobody]
      /\ call' = [call EXCEPT ![c] = [@ EXCEPT !.pc = "ready", !.conn = 0, !.err = err]]
  BY DEF DialFails, Release, Return
<1>3. /\ call'[c] \in CallRecord /\ call'[c].pc = "ready" /\ call'[c].chain = ch
      /\ call'[c].ctx = call[c].ctx /\ call'[c].err = err
      /\ \A d \in Call \ {c} : call'[d] = call[d]
  BY <1>1, <1>2 DEF CallRecord, Stage
<1>4. holder'[ch] = Nobody /\ \A k \in Chain \ {ch} : holder'[k] = holder[k]
  BY <1>1, <1>2
<1>5. \A d \in Call \ {c} : ~Dialling(d, ch)
  BY <1>1 DEF RpcInv, HeldWhileDialling
<1>6. RpcTypeOK'
  BY <1>1, <1>2, <1>3 DEF RpcInv, RpcTypeOK, CallRecord
<1>7. HeldWhileDialling'
  BY <1>1, <1>3, <1>4, <1>5, NobodyAssumption DEF RpcInv, HeldWhileDialling, Dialling, At
<1>8. OneConnection' /\ DialsAreFresh' /\ OwnContextOnly'
  BY <1>1, <1>3 DEF RpcInv, OneConnection, DialsAreFresh, OwnContextOnly, At
<1>. QED BY <1>6, <1>7, <1>8 DEF RpcInv

(* An answer ends a chain call, with the context's error only if it ended. *)
LEMMA AnsweredStep ==
  ASSUME RpcInv, NEW c \in Call, NEW err \in Errors, Answered(c, err)
  PROVE  RpcInv'
<1>1. /\ call[c] \in CallRecord /\ call \in [Call -> CallRecord]
      /\ At(c, "net") /\ call[c].chain \in Chain
      /\ err = "ctx" => call[c].ctx = "ended"
      /\ UNCHANGED <<holder, eth, opened>>
      /\ call' = [call EXCEPT ![c] = [@ EXCEPT !.pc = "ready", !.conn = 0, !.err = err]]
  BY DEF RpcInv, RpcTypeOK, CallRecord, Answered, At, Stage, Return
<1>2. /\ call'[c] \in CallRecord /\ call'[c].pc = "ready" /\ call'[c].chain = call[c].chain
      /\ call'[c].ctx = call[c].ctx /\ call'[c].err = err
      /\ \A d \in Call \ {c} : call'[d] = call[d]
  BY <1>1 DEF CallRecord, Stage
<1>3. RpcTypeOK'
  BY <1>1, <1>2 DEF RpcInv, RpcTypeOK, CallRecord
<1>4. HeldWhileDialling' /\ OneConnection' /\ DialsAreFresh' /\ OwnContextOnly'
  BY <1>1, <1>2
  DEF RpcInv, HeldWhileDialling, OneConnection, DialsAreFresh, OwnContextOnly, Dialling, At
<1>. QED BY <1>3, <1>4 DEF RpcInv

(* Every step of every call preserves the invariant. *)
LEMMA RpcInductive == RpcInv /\ [RpcNext]_rpcVars => RpcInv'
<1> SUFFICES ASSUME RpcInv, [RpcNext]_rpcVars PROVE RpcInv'
  OBVIOUS
<1>1. CASE UNCHANGED rpcVars
  BY <1>1 DEF rpcVars, RpcInv, RpcTypeOK, HeldWhileDialling, OneConnection, DialsAreFresh,
              OwnContextOnly, At, Dialling
<1>2. CASE RpcNext
  <2>1. PICK c \in Call : CallStep(c)
    BY <1>2 DEF RpcNext, CallStep
  <2>. QED BY <2>1, QuietSteps, AcquireStep, DialSucceedsStep, DialFailsStep, AnsweredStep
           DEF CallStep
<1>. QED BY <1>1, <1>2

(* The invariant holds throughout. *)
THEOREM RpcInvariant == RpcSpec => []RpcInv
  BY RpcInitially, RpcInductive, PTL DEF RpcSpec

(* ClientFor answers for configured chains only, and every step keeps the  *)
(* shapes of the resolver's state.                                         *)
THEOREM RpcTypeCorrect == RpcSpec => []RpcTypeOK
<1>1. RpcInv => RpcTypeOK
  BY DEF RpcInv
<1>. QED BY RpcInvariant, <1>1, PTL

(* A chain's mutex is held exactly by the one call that dials it.          *)
(* (ethClient's deferred Unlock on every return.)                          *)
THEOREM MutexHeldWhileDialling == RpcSpec => []HeldWhileDialling
<1>1. RpcInv => HeldWhileDialling
  BY DEF RpcInv
<1>. QED BY RpcInvariant, <1>1, PTL

(* No chain is connected to twice, however many calls race on it.          *)
(* (ethClient checks c.eth and dials under one mutex.)                     *)
THEOREM ConnectedAtMostOnce == RpcSpec => []OneConnection
<1>1. RpcInv => OneConnection
  BY DEF RpcInv
<1>. QED BY RpcInvariant, <1>1, PTL

(* No call fails by the end of another call's context.                     *)
(* (ethClient dials with its own caller's context and caches no failure.)  *)
THEOREM NoInheritedCancellation == RpcSpec => []OwnContextOnly
<1>1. RpcInv => OwnContextOnly
  BY DEF RpcInv
<1>. QED BY RpcInvariant, <1>1, PTL
=============================================================================
