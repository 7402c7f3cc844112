----------------------------- MODULE SiwsMessage -----------------------------
(***************************************************************************)
(* siws: the parser, the printer and the checks of Sign-In With Solana     *)
(* messages.  A text is a sequence of lines; a line is the label it starts *)
(* with and the rest.  "text" labels a line that starts with none, "" a    *)
(* blank one, "item" one that starts with "- ", "Resources" the line       *)
(* "Resources:" and "Resources+" one that goes on after that.              *)
(* Characters are spelt out only in addresses and chain ids.               *)
(***************************************************************************)
EXTENDS Base58, Integers

CONSTANTS AddressLen,       \* bytes of an Ed25519 public key (32)
          MaxMessageBytes,  \* maxMessageBytes (8 KiB)
          Wide,             \* bytes of a URI the instances use to get there
          EndOfTime,        \* the last instant with a four-digit year
          Milli             \* clock ticks per millisecond, what String keeps

Line(label, val) == [label |-> label, val |-> val]
Blank == Line("", "")

(* What a timestamp denotes: t in UTC, written in a zone t + zone; a       *)
(* garbled one denotes nothing.  time.Parse reads any RFC 3339 form, in    *)
(* which the year written has four digits.                                 *)
Stamp(t, zone) == [t |-> t, zone |-> zone, garbled |-> FALSE]
NoNonce == [id |-> "", valid |-> FALSE]
validTimestamp(v) == ~v.garbled /\ v.t + v.zone \in 0 .. EndOfTime

FieldLabels == {"URI", "Version", "Chain ID", "Nonce", "Issued At", "Expiration Time",
                "Not Before", "Request ID", "Resources", "Resources+"}

(* bytes.TrimRight: newlines at the end, hence blank lines too. *)
TrimRight(lines) ==
  SubSeq(lines, 1, SelectLastInSeq(lines, LAMBDA l : l # Blank))

Size(text) ==
  Len(text.lines) + text.newlines
    + Wide * Cardinality({i \in DOMAIN text.lines : text.lines[i] = Line("URI", "wide")})

ValidAddress(s) == Decodes(s) /\ Len(DecodeBase58(s)) = AddressLen

(* How far the optional trailer has been read, and the fields read. *)
NoTrailer == [stage |-> 0, ok |-> TRUE, exp |-> {}, nb |-> {}, reqid |-> "", resources |-> <<>>]

(* Mutant of Later: a field may repeat the stage it is at. *)
LaterOrSame(p, rank) == p.stage <= rank

(* Every field at most once, in rank order. *)
Later(p, rank) == p.stage < rank

(* One line of the trailer.  Items only count in the resources block,      *)
(* which nothing may follow.                                               *)
ReadTrailer(p, line) ==
  CASE line.label = "Expiration Time" /\ Later(p, 1) /\ validTimestamp(line.val) ->
         [p EXCEPT !.stage = 1, !.exp = {line.val}]
    [] line.label = "Not Before" /\ Later(p, 2) /\ validTimestamp(line.val) ->
         [p EXCEPT !.stage = 2, !.nb = {line.val}]
    [] line.label = "Request ID" /\ Later(p, 3) -> [p EXCEPT !.stage = 3, !.reqid = line.val]
    [] line.label = "Resources" /\ Later(p, 4) -> [p EXCEPT !.stage = 4]
    [] line.label = "item" /\ p.stage = 4 -> [p EXCEPT !.resources = Append(@, line.val)]
    [] OTHER -> [p EXCEPT !.ok = FALSE]

(* ParseMessage: the set of at most one message the text denotes.  pos     *)
(* walks over the lines; every rejection is the same ErrMalformed.         *)
ParseMessage(text) ==
  LET lines == TrimRight(text.lines)
      Is(pos, label) == pos <= Len(lines) /\ lines[pos].label = label
      stated == ~Is(4, "") /\ lines[4].label \notin FieldLabels
      uri == IF stated THEN 6 ELSE 4
      nonce == IF Is(uri + 2, "Chain ID") THEN uri + 3 ELSE uri + 2
      chain == IF nonce = uri + 3 THEN lines[uri + 2].val ELSE <<>>
      trailer == FoldLeft(ReadTrailer, NoTrailer, SubSeq(lines, nonce + 2, Len(lines)))
  IN  IF /\ Size(text) <= MaxMessageBytes /\ ~text.cr /\ Len(lines) >= 6
         /\ Is(1, "header") /\ lines[1].val # ""
         /\ Is(2, "text") /\ ValidAddress(lines[2].val)
         /\ Is(3, "")
         /\ stated => Is(5, "")
         /\ Is(uri, "URI") /\ lines[uri].val # ""
         /\ Is(uri + 1, "Version") /\ lines[uri + 1].val = "1"
         /\ Is(nonce, "Nonce") /\ lines[nonce].val.valid
         /\ Is(nonce + 1, "Issued At") /\ validTimestamp(lines[nonce + 1].val)
         /\ trailer.ok
      THEN {[domain |-> lines[1].val, addr |-> lines[2].val,
             statement |-> IF stated THEN {lines[4]} ELSE {},
             uri |-> lines[uri].val, chain |-> IF chain = <<>> THEN <<"mainnet">> ELSE chain,
             nonce |-> lines[nonce].val, iat |-> lines[nonce + 1].val,
             exp |-> trailer.exp, nb |-> trailer.nb,
             reqid |-> trailer.reqid, resources |-> trailer.resources]}
      ELSE {}

(* Mutant of Format: UTC() is forgotten, the zone printed as "Z". *)
FormatLocal(v) == LET local == v.t + v.zone IN Stamp(local - (local % Milli), 0)

(* timestampFormat: the instant in UTC, down to the millisecond. *)
Format(v) == Stamp(v.t - (v.t % Milli), 0)

If(cond, lines) == IF cond THEN lines ELSE <<>>
Each(set, label) == If(set # {}, <<Line(label, Format(CHOOSE t \in set : TRUE))>>)

(* Mutant of Headed: the blank line before the statement is forgotten. *)
HeadedRunOn(m) ==
  <<Line("header", m.domain), Line("text", m.addr)>>
    \o If(m.statement # {}, <<CHOOSE s \in m.statement : TRUE>>) \o <<Blank>>

Headed(m) ==
  <<Line("header", m.domain), Line("text", m.addr)>>
    \o If(m.statement # {}, <<Blank, CHOOSE s \in m.statement : TRUE>>) \o <<Blank>>

(* String: every optional field that is not empty, and always the chain. *)
String(m) ==
  [lines |-> Headed(m)
       \o <<Line("URI", m.uri), Line("Version", "1"), Line("Chain ID", m.chain),
            Line("Nonce", m.nonce), Line("Issued At", Format(m.iat))>>
       \o Each(m.exp, "Expiration Time") \o Each(m.nb, "Not Before")
       \o If(m.reqid # "", <<Line("Request ID", m.reqid)>>)
       \o If(m.resources # <<>>,
             <<Line("Resources", "")>> \o [i \in DOMAIN m.resources |-> Line("item", m.resources[i])]),
   newlines |-> 1, cr |-> FALSE]

-----------------------------------------------------------------------------
(* The checks both entry points make, in S3 order; signed is the one text  *)
(* the wallet signed.                                                      *)
Verdict(m, text, signed, opts, now) ==
  LET failed == SelectSeq(
        <<[err |-> "ErrMalformed", bad |-> opts.domain = "" \/ opts.nonce = NoNonce],
          [err |-> "ErrDomainMismatch", bad |-> m.domain # opts.domain],
          [err |-> "ErrNotYetValid", bad |-> \E v \in m.nb : now < v.t],
          [err |-> "ErrExpired", bad |-> \E v \in m.exp : now >= v.t],
          [err |-> "ErrNonceMismatch", bad |-> m.nonce # opts.nonce],
          [err |-> "ErrBadSignature", bad |-> text # signed]>>, LAMBDA c : c.bad)
  IN  IF failed = <<>> THEN "nil" ELSE failed[1].err

(* VerifyRaw: the claims and the signature of the very text. *)
VerifyRaw(text, signed, opts, now) ==
  IF ParseMessage(text) = {} THEN "ErrMalformed"
  ELSE Verdict(CHOOSE m \in ParseMessage(text) : TRUE, text, signed, opts, now)

(* Message.Verify, deprecated: the claims of m, the signature of its print. *)
Verify(m, signed, opts, now) == Verdict(m, String(m), signed, opts, now)
=============================================================================
