-------------------------------- MODULE Siws --------------------------------
(***************************************************************************)
(* Texts on their way to the parser: a canonical text that a wallet, a     *)
(* page or a transport altered, and what siws and siwx make of it.         *)
(***************************************************************************)
EXTENDS SiwsMessage, Caip

CONSTANTS Messages,         \* messages whose print a text starts from
          Palette,          \* lines an edit may put somewhere
          Addresses,        \* strings the address line may be replaced by
          ChainIDs,         \* strings the Chain ID line may be replaced by
          Instants,         \* when a verification may happen
          Options,          \* what relying parties expect
          MaxEdits,         \* bound: edits of one text
          Shortest          \* bound: longer texts keep address and chain id

Stamps(m) == {m.iat} \union m.exp \union m.nb
IsStamp(v) == v \in [t : Int, zone : Int, garbled : BOOLEAN]

(* Lines that start with no label are not blank, and what is spelt out in  *)
(* a line is spelt in characters.                                          *)
Spelt(l) == /\ l.label = "text" => l.val \in Seq(STRING) /\ l.val # <<>>
            /\ l.label = "Chain ID" => l.val \in Seq(STRING)
            /\ l.label \in {"Issued At", "Expiration Time", "Not Before"} => IsStamp(l.val)

ASSUME TextAssumption ==
  /\ \A l \in Palette : Spelt(l)
  /\ Addresses \subseteq Seq(STRING) \ {<<>>} /\ ChainIDs \subseteq Seq(STRING)
  /\ \A m \in Messages : /\ m.addr \in Seq(STRING) \ {<<>>} /\ m.chain \in Seq(STRING)
                         /\ \A l \in m.statement : Spelt(l)
                         /\ m.resources \in Seq(STRING)
                         /\ \A v \in Stamps(m) : IsStamp(v)

ASSUME ClockAssumption == Instants \subseteq Int /\ Milli \in Nat \ {0}

(* DecodeBase58's alphabet and its cap are within those of an account's    *)
(* address.                                                                *)
ASSUME AddressAssumption ==
  ToSet(Alphabet) \subseteq AddrChars /\ 1 .. MaxBase58Len \subseteq AddrLengths
ASSUME SolanaAssumption == reNamespace(<<"s", "o", "l">>)

VARIABLES text,             \* the bytes ParseMessage gets
          edits             \* how often they were altered

siwsVars == <<text, edits>>

SiwsInit == edits = 0 /\ text \in {String(m) : m \in Messages}

Becomes(lines) == edits < MaxEdits /\ edits' = edits + 1 /\ text' = [text EXCEPT !.lines = lines]

(* A line is lost, moved down, doubled, joined or replaced by another.     *)
DropLine(i) == Becomes(RemoveAt(text.lines, i))
SwapLines(i) ==
  /\ i < Len(text.lines)
  /\ Becomes([text.lines EXCEPT ![i] = text.lines[i + 1], ![i + 1] = text.lines[i]])
InsertLine(i) == \E l \in Palette \union {text.lines[i]} : Becomes(InsertAt(text.lines, i, l))
ReplaceLine(i) == \E l \in Palette : Becomes(ReplaceAt(text.lines, i, l))
Respell(i) ==
  /\ Len(text.lines) <= Shortest
  /\ \/ i = 2 /\ \E a \in Addresses : Becomes(ReplaceAt(text.lines, i, Line("text", a)))
     \/ /\ text.lines[i].label = "Chain ID"
        /\ \E c \in ChainIDs : Becomes(ReplaceAt(text.lines, i, Line("Chain ID", c)))

(* Newlines at the end and carriage returns come and go. *)
Transport ==
  /\ edits < MaxEdits /\ edits' = edits + 1
  /\ \E k \in 0 .. 2, cr \in BOOLEAN : text' = [text EXCEPT !.newlines = k, !.cr = cr]

(* The text is parsed and printed again, as a program that only keeps the  *)
(* Message does.                                                           *)
Reprint == \E m \in ParseMessage(text) : text' = String(m) /\ UNCHANGED edits

SiwsNext ==
  \/ \E i \in DOMAIN text.lines :
       DropLine(i) \/ SwapLines(i) \/ InsertLine(i) \/ ReplaceLine(i) \/ Respell(i)
  \/ Transport
  \/ Reprint

SiwsSpec == SiwsInit /\ [][SiwsNext]_siwsVars

-----------------------------------------------------------------------------
(* The grammar, as the label sequences it allows, before any items: "Field *)
(* order is strict per the SIWS spec: any unknown or out-of-order line     *)
(* returns ErrMalformed" (parse.go:19).  A statement is one line, with a   *)
(* blank one behind it.                                                    *)
Trailer(optional) ==
  If("Expiration Time" \in optional, <<"Expiration Time">>)
    \o If("Not Before" \in optional, <<"Not Before">>)
    \o If("Request ID" \in optional, <<"Request ID">>)
    \o If("Resources" \in optional, <<"Resources">>)

Layout(statement, optional) ==
  <<"header", "text", "">> \o statement
    \o <<"URI", "Version">> \o If("Chain ID" \in optional, <<"Chain ID">>)
    \o <<"Nonce", "Issued At">> \o Trailer(optional)

(* No statement, or a line that starts with no field's label.              *)
Statements(lines) ==
  LET labels == {l.label : l \in ToSet(lines)}
  IN  {<<>>} \union {<<label, "">> : label \in labels \ (FieldLabels \union {""})}

LaidOut(lines, layout) ==
  /\ Len(layout) <= Len(lines)
  /\ \A i \in DOMAIN lines : lines[i].label = IF i <= Len(layout) THEN layout[i] ELSE "item"

WellFormed(lines) ==
  /\ \E statement \in Statements(lines),
        optional \in SUBSET {"Chain ID", "Expiration Time", "Not Before", "Request ID",
                            "Resources"} :
       /\ LaidOut(lines, Layout(statement, optional))
       /\ "Resources" \in optional \/ Len(lines) = Len(Layout(statement, optional))
  /\ lines[1].val # "" /\ ValidAddress(lines[2].val)
  /\ \A i \in DOMAIN lines :
       /\ lines[i].label = "URI" => lines[i].val # ""
       /\ lines[i].label = "Version" => lines[i].val = "1"
       /\ lines[i].label = "Nonce" => lines[i].val.valid
       /\ lines[i].label \in {"Issued At", "Expiration Time", "Not Before"} =>
            validTimestamp(lines[i].val)

(* The position-driven parser accepts exactly the grammar: every required  *)
(* field once, in order, each optional one at most once in its place, and  *)
(* nothing between or behind.                                              *)
AcceptsGrammar ==
  ParseMessage(text) # {} <=>
    /\ Size(text) <= MaxMessageBytes /\ ~text.cr
    /\ WellFormed(TrimRight(text.lines))

(* The print of a parsed message parses, unless it outgrew the size cap (it *)
(* always has a Chain ID line and a final newline) or a timestamp left the *)
(* four-digit years when its zone was removed.                             *)
Prints(m) == /\ Size(String(m)) <= MaxMessageBytes
             /\ \A v \in Stamps(m) : validTimestamp(Format(v))

(* A message whose print parses survives it: the print denotes the same    *)
(* message, up to timestamps brought to UTC milliseconds, and printing that *)
(* one changes nothing any more, however often it is parsed and printed.   *)
RoundTrips ==
  \A m \in ParseMessage(text) :
    LET again == [m EXCEPT !.iat = Format(@), !.exp = {Format(v) : v \in @},
                           !.nb = {Format(v) : v \in @}]
    IN  /\ Prints(m) => ParseMessage(String(m)) = {again}
        /\ String(again) = String(m)

(* "Successful parse must round-trip: re-parsing String() must succeed",   *)
(* and "Core fields must be preserved" (fuzz_test.go:38, 46).  The print of *)
(* a message near the size cap is longer than the cap, since it always has *)
(* a Chain ID line and a final newline; and a timestamp at either end of   *)
(* the four-digit years may leave them when its zone is removed.           *)
SuccessfulParseRoundTrips ==
  \A m \in ParseMessage(text) : \E n \in ParseMessage(String(m)) :
    n.domain = m.domain /\ n.addr = m.addr /\ n.nonce = m.nonce

(* Message.Verify judges the claims of the struct and the signature of its *)
(* print; the wallet signed the print.  It can only differ from VerifyRaw  *)
(* of what was signed within the millisecond a validity bound falls into,  *)
(* where the print has lost the fraction.                                  *)
VerifyWithinMillisecond ==
  \A m \in ParseMessage(text), now \in Instants, o \in Options :
    \/ ~Prints(m)
    \/ Verify(m, String(m), o, now) = VerifyRaw(String(m), String(m), o, now)
    \/ \E v \in m.exp \union m.nb : now - (now % Milli) = v.t - (v.t % Milli)

(* A public key has one address: no two strings the parser accepts denote  *)
(* the same key, so that an account (a string) is a wallet (a key).        *)
OneAddressPerKey ==
  \A m \in ParseMessage(text) : EncodeBase58(DecodeBase58(m.addr)) = m.addr

(* The account the Solana adapter returns.  The chain id is what the       *)
(* message says, unchecked.                                                *)
Account(m) == [ns |-> <<"s", "o", "l">>, ref |-> m.chain, addr |-> m.addr]

(* The stores' text of an account never reads back as another account: a   *)
(* chain id full of colons makes it unreadable, never somebody else's.     *)
IdentifierReadsBack ==
  \A m \in ParseMessage(text) :
    LET a == Account(m)
        chain == ParseCAIP2(CAIP2String(a))
    IN  IF reReference(a.ref)
        THEN /\ ParseCAIP10(CAIP10String(a)) =
                  [err |-> "nil", ns |-> a.ns, ref |-> a.ref, addr |-> a.addr]
             /\ chain = [err |-> "nil", ns |-> a.ns, ref |-> a.ref]
        ELSE ParseCAIP10(CAIP10String(a)) = Rejected /\ chain = Rejected
=============================================================================
