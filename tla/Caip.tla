-------------------------------- MODULE Caip --------------------------------
(***************************************************************************)
(* siwx/caip.go: CAIP-2 chain ids and CAIP-10 account ids, printed and     *)
(* parsed.  An identifier's text is a sequence of characters; only the     *)
(* classes the three regular expressions tell apart matter.                *)
(***************************************************************************)
EXTENDS Naturals, SequencesExt

CONSTANTS NsChars,          \* [-a-z0-9]
          RefChars,         \* [-_a-zA-Z0-9]
          AddrChars,        \* [-.%a-zA-Z0-9]
          NsLengths,        \* 3 .. 8
          RefLengths,       \* 1 .. 32
          AddrLengths       \* 1 .. 128

(* What separates the parts is in none of the three classes. *)
ASSUME ColonAssumption == ":" \notin NsChars \union RefChars \union AddrChars

reNamespace(s) == Len(s) \in NsLengths /\ ToSet(s) \subseteq NsChars
reReference(s) == Len(s) \in RefLengths /\ ToSet(s) \subseteq RefChars
reAddress(s) == Len(s) \in AddrLengths /\ ToSet(s) \subseteq AddrChars

Colons(s) == {i \in DOMAIN s : s[i] = ":"}
Rejected == [err |-> "ErrMalformed"]

CAIP2String(c) == c.ns \o <<":">> \o c.ref
CAIP10String(a) == CAIP2String(a) \o <<":">> \o a.addr

(* The first colon separates; a second one makes the reference invalid. *)
ParseCAIP2(s) ==
  LET i == CHOOSE i \in Colons(s) : \A j \in Colons(s) : i <= j
      ns == SubSeq(s, 1, i - 1)
      ref == SubSeq(s, i + 1, Len(s))
  IN  IF Colons(s) # {} /\ reNamespace(ns) /\ reReference(ref)
      THEN [err |-> "nil", ns |-> ns, ref |-> ref] ELSE Rejected

(* Mutant of ParseCAIP10: the address may be anything that follows. *)
ParseCAIP10Lax(s) ==
  LET i == CHOOSE i \in Colons(s) : \A j \in Colons(s) : i <= j
      k == CHOOSE k \in Colons(s) \ {i} : \A j \in Colons(s) \ {i} : k <= j
      ns == SubSeq(s, 1, i - 1)
      ref == SubSeq(s, i + 1, k - 1)
      addr == SubSeq(s, k + 1, Len(s))
  IN  IF Cardinality(Colons(s)) > 1 /\ reNamespace(ns) /\ reReference(ref)
      THEN [err |-> "nil", ns |-> ns, ref |-> ref, addr |-> addr] ELSE Rejected

(* The first two colons separate, wherever they came from. *)
ParseCAIP10(s) ==
  LET i == CHOOSE i \in Colons(s) : \A j \in Colons(s) : i <= j
      k == CHOOSE k \in Colons(s) \ {i} : \A j \in Colons(s) \ {i} : k <= j
      ns == SubSeq(s, 1, i - 1)
      ref == SubSeq(s, i + 1, k - 1)
      addr == SubSeq(s, k + 1, Len(s))
  IN  IF /\ Cardinality(Colons(s)) > 1
         /\ reNamespace(ns) /\ reReference(ref) /\ reAddress(addr)
      THEN [err |-> "nil", ns |-> ns, ref |-> ref, addr |-> addr] ELSE Rejected
=============================================================================
