------------------------------- MODULE MCHub -------------------------------
(***************************************************************************)
(* Two instances of the hub.  Served warm: the Solana verifier, messages   *)
(* of two wallets that verify whenever their nonce does, and of an account *)
(* whose text does not parse.  From a cold start: the EVM verifier on the  *)
(* simulated chain, messages of an ordinary wallet and of a contract       *)
(* wallet, well or badly signed.                                           *)
(***************************************************************************)
EXTENDS Hub, TLC

Message(ref, addr, sig) ==
  [parses |-> TRUE, domain |-> "hub", nb |-> {}, exp |-> {}, garbled |-> {},
   nonce |-> "any", ref |-> ref, addr |-> addr, sig |-> sig]

(* The Chain ID of a message is not checked against a list: "junk" is none *)
(* that CAIP-2 allows, and an account on it does not read back.            *)
MCSubmissions == {Message("mainnet", "a", "good"), Message("mainnet", "b", "good"),
                  Message("junk", "a", "good")}
MCEvmSubmissions == {Message("1", "a", "good"), Message("1", "w", "owner"), Message("1", "w", "bad")}

MCWallet == [ns : {"solana"}, ref : {"mainnet", "junk"}, addr : {"a", "b"}]
MCMalformed == {w \in MCWallet : w.ref = "junk"}

MCEvmWallet == [ns : {"eip155"}, ref : {"1"}, addr : {"a", "w"}]
MCEvmVerifiers == {[ns |-> "eip155", client |-> [r \in {"1"} |-> "plain"]]}

MCVerifiers == {[ns |-> "solana", client |-> [r \in {} |-> "none"]]}

MCExpectations == {[domain |-> "hub", nonce |-> ""]}

(* A hub that served one sign-in already: wallet b is identity i1, its     *)
(* page holds the token, and its nonce n0 is spent.  From here two more    *)
(* requests reach what takes three from the start.                         *)
CONSTANTS n0, r0, i1

b == [ns |-> "solana", ref |-> "mainnet", addr |-> "b"]
mine == [Message("mainnet", "b", "good") EXCEPT !.nonce = n0]
passed(stages) == [i \in DOMAIN stages |-> [name |-> stages[i], ok |-> TRUE]]

WarmInit ==
  /\ ProcessInit
  /\ entries = Empty
  /\ born = [n \in {n0} |-> [at |-> 0, ttl |-> 0, run |-> 0]]
  /\ spent = [n \in Nonce |-> IF n = n0 THEN 1 ELSE 0]
  /\ walletToID = [w \in {b} |-> i1]
  /\ idToWallets = [id \in {i1} |-> <<b>>]
  /\ verifiers = [ns \in {"solana"} |-> CHOOSE v \in Verifiers : v.ns = ns]
  /\ fetch = [n \in {n0} |-> [pc |-> "done", browser |-> CHOOSE br \in Browser : TRUE]]
  /\ jar = [br \in Browser |-> ""]
  /\ known = [br \in Browser |-> {n0}]
  /\ req = [r \in Request |->
               IF r # r0 THEN [pc |-> "unsent"]
               ELSE [pc |-> "done", kind |-> "verify", browser |-> CHOOSE br \in Browser : TRUE,
                     ns |-> "solana", msg |-> mine, cookie |-> n0, token |-> {}, clears |-> TRUE,
                     trail |-> passed(Checks), id |-> i1, wallets |-> <<b>>, status |-> "200"]]
  /\ at = [r \in Request |->
              IF r # r0 THEN Idle
              ELSE [pc |-> "done", ns |-> "solana", sub |-> mine, start |-> 0, clock |-> 0,
                    opts |-> [domain |-> "hub", nonce |-> n0], verifier |-> verifiers["solana"],
                    rpc |-> <<>>, trail |-> passed(Stages), err |-> "nil"]]
  /\ checks = Empty
  /\ owners = {}
  /\ count = [issued |-> 1, burned |-> 1, attempts |-> 1, failedChecks |-> 0, failures |-> 0,
              tokens |-> 1]
  /\ tokens = {[sub |-> i1, wallets |-> <<b>>, wallet |-> b, run |-> 0, exp |-> TokenTTL]}
  /\ grants = {[req |-> r0, nonce |-> n0, wallet |-> b, run |-> 0]}

(* These messages have no validity bounds: the instant matters to a nonce  *)
(* that is about to be burned and to nothing else, so the clock ticks only *)
(* when there is one, and between verifications, which read it in vain.    *)
TimeTells ==
  /\ \E r \in Request : req[r].pc = "burn" /\ req[r].cookie \in DOMAIN entries
  /\ \A r \in Request : at[r].pc \in {"idle", "done"}

TimedNext == HubNext /\ (now' # now => TimeTells)

WarmSpec == WarmInit /\ [][TimedNext]_hubVars
ColdSpec == HubInit /\ [][TimedNext]_hubVars /\ HubFairness

(* Requests and nonces are interchangeable. *)
Interchangeable == Permutations(Request \ {r0}) \union Permutations(Nonce \ {n0})
=============================================================================
