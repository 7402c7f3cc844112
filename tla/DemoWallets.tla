----------------------------- MODULE DemoWallets -----------------------------
(***************************************************************************)
(* demoContractWallets: the chain the hub simulates for its contract       *)
(* wallets.  An owner's wallet has a fixed address (deriveWallet) and      *)
(* exists once it was registered; it accepts what its owner signed.  The   *)
(* map lives in the hub's memory, and every method takes its lock once.    *)
(***************************************************************************)

CONSTANT Contract           \* addresses deriveWallet yields; {}: demo disabled

VARIABLE owners             \* the keys of the map: wallets registered

DemoInit == owners = {}

(* Register: idempotent, and nothing is ever removed. *)
RegisterWallet(w) == w \in Contract /\ owners' = owners \union {w}

(* Mutant of DemoAnswer: the wallet accepts whoever signed. *)
DemoAnswerAnyone(method, m) ==
  CASE method = "code" -> IF m.addr \in owners THEN "code" ELSE "no code"
    [] method = "call" -> IF m.addr \in owners THEN "magic" ELSE "other"
    [] OTHER -> "error"

(* CodeAt and CallContract.  "owner" is a signature that recovers to the   *)
(* owner of the wallet the message names.  There is no deployless call.    *)
DemoAnswer(method, m) ==
  CASE method = "code" -> IF m.addr \in owners THEN "code" ELSE "no code"
    [] method = "call" -> IF m.addr \in owners /\ m.sig = "owner" THEN "magic" ELSE "other"
    [] OTHER -> "error"

LoseWallets == owners' = {}
=============================================================================
