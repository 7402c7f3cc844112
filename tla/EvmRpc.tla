------------------------------- MODULE EvmRpc -------------------------------
(***************************************************************************)
(* The RPC-backed resolver of siwx/evm/evmrpc: one client per configured   *)
(* chain, whose connection is dialled by the first call that needs it,     *)
(* while it holds the client's mutex.  Verifications run concurrently,     *)
(* each under a context of its own that may end at any moment.             *)
(***************************************************************************)
EXTENDS Naturals

CONSTANTS Call,             \* verifications that ask for a client
          Chain,            \* CAIP-2 ids the resolver was built with
          Unknown,          \* an id it was not built with
          Nobody,           \* the holder of a free mutex
          MaxOps            \* bound: chain calls one verification makes

ASSUME UnknownAssumption == Unknown \notin Chain
ASSUME NobodyAssumption == Nobody \notin Call
ASSUME MaxOpsAssumption == MaxOps \in Nat

VARIABLES holder,           \* chain -> the call that holds client.mu
          eth,              \* chain -> the connection in client.eth, 0 for nil
          opened,           \* chain -> history: connections ever dialled
          call              \* call -> where it stands

rpcVars == <<holder, eth, opened, call>>

Errors == {"nil", "dial", "node", "ctx", "no client"}

RpcInit ==
  /\ holder = [ch \in Chain |-> Nobody]
  /\ eth = [ch \in Chain |-> 0]
  /\ opened = [ch \in Chain |-> 0]
  /\ call = [c \in Call |-> [pc |-> "idle", chain |-> Unknown, ctx |-> "live",
                             conn |-> 0, ops |-> 0, err |-> "nil"]]

At(c, pc) == call[c].pc = pc
Return(c, err) == call' = [call EXCEPT ![c] = [@ EXCEPT !.pc = "ready", !.conn = 0, !.err = err]]
Release(ch) == holder' = [holder EXCEPT ![ch] = Nobody]

(* Mutant of ClientFor: the second result, ok, is ignored. *)
ClientForAny(c, ch) ==
  /\ At(c, "idle")
  /\ call' = [call EXCEPT ![c] = [@ EXCEPT !.pc = "ready", !.chain = ch]]
  /\ UNCHANGED <<holder, eth, opened>>

(* resolver.ClientFor: the map is only read once it is built. *)
ClientFor(c, ch) ==
  /\ At(c, "idle")
  /\ call' = [call EXCEPT ![c] = [@ EXCEPT !.pc = IF ch \in Chain THEN "ready" ELSE "done",
                                           !.chain = ch,
                                           !.err = IF ch \in Chain THEN "nil" ELSE "no client"]]
  /\ UNCHANGED <<holder, eth, opened>>

(* CodeAt, CallContract or CallContractCreation is called, and waits for   *)
(* the mutex: sync.Mutex knows nothing of the context.                     *)
Invoke(c) ==
  /\ At(c, "ready") /\ call[c].ops < MaxOps
  /\ call' = [call EXCEPT ![c] = [@ EXCEPT !.pc = "lock", !.ops = call[c].ops + 1, !.err = "nil"]]
  /\ UNCHANGED <<holder, eth, opened>>

(* Mutant of Acquire: the cached connection is looked up without the mutex *)
(* and dialled after it.                                                   *)
AcquireUnlocked(c) ==
  /\ At(c, "lock")
  /\ LET ch == call[c].chain
     IN  IF eth[ch] # 0
         THEN call' = [call EXCEPT ![c] = [@ EXCEPT !.pc = "net", !.conn = eth[ch]]]
         ELSE call' = [call EXCEPT ![c].pc = "dial"]
  /\ UNCHANGED <<holder, eth, opened>>

(* Mutant of Acquire: one mutex for the clients of all chains. *)
AcquireGlobal(c) ==
  /\ At(c, "lock") /\ \A ch \in Chain : holder[ch] = Nobody
  /\ LET ch == call[c].chain
     IN  IF eth[ch] # 0
         THEN /\ call' = [call EXCEPT ![c] = [@ EXCEPT !.pc = "net", !.conn = eth[ch]]]
              /\ UNCHANGED holder
         ELSE /\ call' = [call EXCEPT ![c].pc = "dial"]
              /\ holder' = [holder EXCEPT ![ch] = c]
  /\ UNCHANGED <<eth, opened>>

(* ethClient gets the mutex.  With a connection cached it returns it and   *)
(* unlocks at once; otherwise it dials and keeps the mutex meanwhile.      *)
Acquire(c) ==
  /\ At(c, "lock") /\ holder[call[c].chain] = Nobody
  /\ LET ch == call[c].chain
     IN  IF eth[ch] # 0
         THEN /\ call' = [call EXCEPT ![c] = [@ EXCEPT !.pc = "net", !.conn = eth[ch]]]
              /\ UNCHANGED holder
         ELSE /\ call' = [call EXCEPT ![c].pc = "dial"]
              /\ holder' = [holder EXCEPT ![ch] = c]
  /\ UNCHANGED <<eth, opened>>

(* The dial succeeds: the connection is cached, the mutex released. *)
DialSucceeds(c) ==
  /\ At(c, "dial")
  /\ LET ch == call[c].chain
     IN  /\ opened' = [opened EXCEPT ![ch] = @ + 1]
         /\ eth' = [eth EXCEPT ![ch] = opened[ch] + 1]
         /\ call' = [call EXCEPT ![c] = [@ EXCEPT !.pc = "net", !.conn = opened[ch] + 1]]
         /\ Release(ch)

(* Mutant of DialFails: whoever waits for the dial shares its error. *)
DialFailsForAll(c, err) ==
  /\ At(c, "dial")
  /\ err \in {"dial"} \union {e \in {"ctx"} : call[c].ctx = "ended"}
  /\ call' = [d \in Call |->
                IF d = c \/ (At(d, "lock") /\ call[d].chain = call[c].chain)
                THEN [call[d] EXCEPT !.pc = "ready", !.err = err] ELSE call[d]]
  /\ Release(call[c].chain)
  /\ UNCHANGED <<eth, opened>>

(* The dial fails, or is given up because the dialling call's context      *)
(* ended.  Nothing is cached: the next call dials again.                   *)
DialFails(c, err) ==
  /\ At(c, "dial")
  /\ err \in {"dial"} \union {e \in {"ctx"} : call[c].ctx = "ended"}
  /\ Return(c, err)
  /\ Release(call[c].chain)
  /\ UNCHANGED <<eth, opened>>

(* The node answers the call, fails it, or the context ends it. *)
Answered(c, err) ==
  /\ At(c, "net")
  /\ err \in {"nil", "node"} \union {e \in {"ctx"} : call[c].ctx = "ended"}
  /\ Return(c, err)
  /\ UNCHANGED <<holder, eth, opened>>

(* The verification needs no further chain call. *)
Finish(c) ==
  /\ At(c, "ready")
  /\ call' = [call EXCEPT ![c].pc = "done"]
  /\ UNCHANGED <<holder, eth, opened>>

(* The verification's caller goes away, or its deadline passes. *)
ContextEnds(c) ==
  /\ call[c].ctx = "live" /\ ~At(c, "done")
  /\ call' = [call EXCEPT ![c].ctx = "ended"]
  /\ UNCHANGED <<holder, eth, opened>>

RpcNext ==
  \E c \in Call :
    \/ \E ch \in Chain \union {Unknown} : ClientFor(c, ch)
    \/ Invoke(c) \/ Acquire(c) \/ DialSucceeds(c) \/ Finish(c) \/ ContextEnds(c)
    \/ \E err \in Errors : DialFails(c, err) \/ Answered(c, err)

(* A waiting call gets a mutex that is released again and again (Go's      *)
(* starvation mode), and what waits on the network stops when its context  *)
(* ends.  Nodes owe nothing else.                                          *)
RpcFairness ==
  \A c \in Call :
    /\ SF_rpcVars(Acquire(c))
    /\ WF_rpcVars(DialFails(c, "ctx"))
    /\ WF_rpcVars(Answered(c, "ctx"))

RpcSpec == RpcInit /\ [][RpcNext]_rpcVars /\ RpcFairness

-----------------------------------------------------------------------------
Dialling(c, ch) == At(c, "dial") /\ call[c].chain = ch
Stage == {"idle", "ready", "lock", "dial", "net", "done"}

(* Shapes of the resolver's state and of its calls. *)
RpcTypeOK ==
  /\ holder \in [Chain -> Call \union {Nobody}]
  /\ eth \in [Chain -> Nat] /\ opened \in [Chain -> Nat]
  /\ call \in [Call -> [pc : Stage, chain : Chain \union {Unknown}, ctx : {"live", "ended"},
                        conn : Nat, ops : 0 .. MaxOps, err : Errors]]
  /\ \A c \in Call : call[c].pc \in Stage \ {"idle", "done"} => call[c].chain \in Chain

(* A chain's mutex is held exactly while one call dials that chain: two    *)
(* calls never dial one chain at once, and every early return unlocks.     *)
HeldWhileDialling ==
  \A ch \in Chain, c \in Call : holder[ch] = c <=> Dialling(c, ch)

(* However many calls find no connection at once, and whatever dials       *)
(* failed before, a chain is connected to at most once: no connection is   *)
(* ever opened and then dropped from client.eth, and every call uses it.   *)
OneConnection ==
  /\ \A ch \in Chain : opened[ch] <= 1 /\ eth[ch] = opened[ch]
  /\ \A c \in Call : At(c, "net") => call[c].conn = eth[call[c].chain]

(* A call fails with a context's error only if its own context ended: one  *)
(* that waited for somebody else's dial does not inherit its cancellation, *)
(* and dials itself.                                                       *)
OwnContextOnly == \A c \in Call : call[c].err = "ctx" => call[c].ctx = "ended"

(* A verification blocks another only on its own chain and only as long as *)
(* its context lives: a call that waits for the mutex for ever waits, from *)
(* some moment on, for one dial of that very chain whose caller has not    *)
(* given up.  (Its own context does not help it.)                          *)
BlockedByOwnChainOnly ==
  \A c \in Call, ch \in Chain :
    \/ []<>~(At(c, "lock") /\ call[c].chain = ch)
    \/ \E d \in Call : <>[](Dialling(d, ch) /\ call[d].ctx = "live")
=============================================================================
