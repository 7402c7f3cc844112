------------------------------- MODULE MCSiws -------------------------------
(***************************************************************************)
(* Messages with every combination of optional fields; three base58        *)
(* characters and bytes of five values, in the code's order of magnitude   *)
(* of characters per byte; three clock ticks to a millisecond.             *)
(***************************************************************************)
EXTENDS Siws

MCAlphabet == <<"1", "2", "z">>
MCNsChars == {"s", "o", "l", "1", "2", "z", "0"}
MCRefChars == {"mainnet", "_"} \union MCNsChars
MCAddrChars == {"%"} \union MCNsChars

Key == <<"2", "1", "z">>
N1 == [id |-> "n1", valid |-> TRUE]

MCMessages ==
  [domain : {"hub"}, addr : {Key}, statement : {{}, {Line("text", <<"s">>)}},
   uri : {"u", "wide"}, chain : {<<"mainnet">>}, nonce : {N1}, iat : {Stamp(0, 0)},
   exp : {{}, {Stamp(9, 0)}}, nb : {{}, {Stamp(3, 0)}},
   reqid : {"", "r"}, resources : {<<>>, <<"x">>}]

MCPalette ==
  {Blank, Line("header", ""), Line("header", "hub"), Line("text", <<"0">>), Line("text", Key),
   Line("URI", ""), Line("Version", "2"), Line("Chain ID", <<>>), Line("Chain ID", <<"z">>),
   Line("Nonce", [id |-> "n2", valid |-> TRUE]), Line("Nonce", [id |-> "n3", valid |-> FALSE]),
   Line("Request ID", ""), Line("Resources", ""), Line("Resources+", ""), Line("item", "y")}
  \union
  {Line(label, v) : label \in {"Issued At", "Expiration Time", "Not Before"},
                    v \in {Stamp(7, 0), Stamp(10, 4), Stamp(14, -4), Stamp(-1, 2), Stamp(15, -1),
                           [t |-> 0, zone |-> 0, garbled |-> TRUE]}}

MCAddresses == BoundedSeq({"1", "2", "z", "0"}, 5) \ {<<>>}
MCChainIDs == BoundedSeq({"z", "_", ":", "%"}, 4)
MCOptions == [domain : {"hub", "other", ""}, nonce : {N1, NoNonce}]
=============================================================================
