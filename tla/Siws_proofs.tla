---------------------------- MODULE Siws_proofs ----------------------------
(***************************************************************************)
(* Proofs about the identifiers of siwx/caip.go and about the parser, the  *)
(* printer and the checks of siws, for any alphabet, any lengths and any   *)
(* altered texts.  The folds of the model (trailer, base58) are unrolled   *)
(* into functions; least counterexamples stand for induction over lines    *)
(* and digits.                                                             *)
(***************************************************************************)
EXTENDS Siws, SequenceTheorems, FiniteSetTheorems, WellFoundedInduction, TLAPS

-----------------------------------------------------------------------------
(* Induction, as the search for a least counterexample: the library's      *)
(* induction theorems take an operator, this takes a set.                  *)
LEMMA NatHasLeast ==
  ASSUME NEW T \in SUBSET Nat, T # {}
  PROVE  \E m \in T : \A k \in T : m <= k
<1>1. PICK m \in T : \A k \in T : ~ (<<k, m>> \in OpToRel(<, Nat))
  BY NatLessThanWellFounded, WFMin, Zenon
<1>2. \A k \in T : ~(k < m)
  BY <1>1 DEF OpToRel
<1> QED BY <1>2

-----------------------------------------------------------------------------
(* Two parts with a colon between them.                                    *)
Joined(s, t) == s \o <<":">> \o t

HasParts(j, s, t) ==
  /\ Len(j) = Len(s) + 1 + Len(t)
  /\ \A i \in 1 .. Len(s) : j[i] = s[i]
  /\ j[Len(s) + 1] = ":"
  /\ \A i \in 1 .. Len(t) : j[Len(s) + 1 + i] = t[i]

LEMMA JoinedIs ==
  ASSUME NEW S, ":" \in S, NEW s \in Seq(S), NEW t \in Seq(S)
  PROVE  Joined(s, t) \in Seq(S) /\ HasParts(Joined(s, t), s, t)
<1>1. <<":">> \in Seq(S) /\ Len(<<":">>) = 1 /\ <<":">>[1] = ":"
  OBVIOUS
<1>2. PICK h : h = s \o <<":">>
  OBVIOUS
<1>3. /\ h \in Seq(S) /\ Len(h) = Len(s) + 1
      /\ \A i \in 1 .. Len(s) + 1 : h[i] = IF i <= Len(s) THEN s[i] ELSE <<":">>[i - Len(s)]
  BY <1>1, <1>2, ConcatProperties, Zenon
<1>4. PICK j : j = h \o t
  OBVIOUS
<1>5. /\ j \in Seq(S) /\ Len(j) = Len(h) + Len(t)
      /\ \A i \in 1 .. Len(h) + Len(t) : j[i] = IF i <= Len(h) THEN h[i] ELSE t[i - Len(h)]
  BY <1>3, <1>4, ConcatProperties, Zenon
<1>6. j = Joined(s, t)
  BY <1>2, <1>4 DEF Joined
<1>7. HasParts(j, s, t)
  BY <1>1, <1>3, <1>5 DEF HasParts
<1> QED BY <1>5, <1>6, <1>7

(* The parts are found again where they were put.                          *)
LEMMA JoinedParts ==
  ASSUME NEW S, ":" \in S, NEW s \in Seq(S), NEW t \in Seq(S)
  PROVE  /\ SubSeq(Joined(s, t), 1, Len(s)) = s
         /\ SubSeq(Joined(s, t), Len(s) + 2, Len(Joined(s, t))) = t
<1>1. Joined(s, t) \in Seq(S) /\ HasParts(Joined(s, t), s, t)
  BY JoinedIs, Zenon
<1>2. PICK j : j = Joined(s, t)
  OBVIOUS
<1>3. /\ j \in Seq(S) /\ Len(j) = Len(s) + 1 + Len(t)
      /\ \A i \in 1 .. Len(s) : j[i] = s[i]
      /\ \A i \in 1 .. Len(t) : j[Len(s) + 1 + i] = t[i]
  BY <1>1, <1>2 DEF HasParts
<1>4. SubSeq(j, 1, Len(s)) = s
  <2>1. \A i \in 1 .. Len(s) : j[i] \in S
    BY <1>3
  <2>2. /\ SubSeq(j, 1, Len(s)) \in Seq(S) /\ Len(SubSeq(j, 1, Len(s))) = Len(s)
        /\ \A i \in 1 .. Len(s) : SubSeq(j, 1, Len(s))[i] = s[i]
    BY <1>3, <2>1
  <2> QED BY <2>2, SeqEqual, Zenon
<1>5. SubSeq(j, Len(s) + 2, Len(j)) = t
  <2>1. \A i \in Len(s) + 2 .. Len(j) : j[i] \in S
    BY <1>3
  <2>2. /\ SubSeq(j, Len(s) + 2, Len(j)) \in Seq(S) /\ Len(SubSeq(j, Len(s) + 2, Len(j))) = Len(t)
        /\ \A i \in 1 .. Len(t) : SubSeq(j, Len(s) + 2, Len(j))[i] = t[i]
    BY <1>3, <2>1
  <2> QED BY <2>2, SeqEqual, Zenon
<1> QED BY <1>2, <1>4, <1>5

NoColon(s) == \A i \in 1 .. Len(s) : s[i] # ":"

LEMMA LeastIsChosen ==
  ASSUME NEW C \in SUBSET Nat, NEW n \in C, \A j \in C : n <= j
  PROVE  (CHOOSE i \in C : \A j \in C : i <= j) = n
<1> DEFINE m == CHOOSE i \in C : \A j \in C : i <= j
<1>1. m \in C /\ \A j \in C : m <= j
  OBVIOUS
<1> HIDE DEF m
<1>2. m = n
  BY <1>1
<1> QED BY <1>2 DEF m

(* The first colon of a text whose first part has none.                    *)
LEMMA FirstColon ==
  ASSUME NEW S, ":" \in S, NEW s \in Seq(S), NEW t \in Seq(S), NoColon(s)
  PROVE  /\ Colons(Joined(s, t)) \in SUBSET Nat
         /\ Len(s) + 1 \in Colons(Joined(s, t))
         /\ \A j \in Colons(Joined(s, t)) : Len(s) + 1 <= j
<1>1. PICK j : j = Joined(s, t)
  OBVIOUS
<1>2. j \in Seq(S) /\ HasParts(j, s, t)
  BY <1>1, JoinedIs, Zenon
<1> QED BY <1>1, <1>2, SMTT(30) DEF Colons, NoColon, HasParts

LEMMA CAIP2Parsed ==
  ASSUME NEW S, ":" \in S, NEW ns \in Seq(S), NEW ref \in Seq(S), NoColon(ns)
  PROVE  ParseCAIP2(Joined(ns, ref)) =
           IF reNamespace(ns) /\ reReference(ref)
           THEN [err |-> "nil", ns |-> ns, ref |-> ref] ELSE Rejected
<1>1. PICK s : s = Joined(ns, ref)
  OBVIOUS
<1>2. Colons(s) \in SUBSET Nat /\ Len(ns) + 1 \in Colons(s) /\ \A j \in Colons(s) : Len(ns) + 1 <= j
  BY <1>1, FirstColon, Zenon
<1> DEFINE i == CHOOSE i \in Colons(s) : \A j \in Colons(s) : i <= j
<1>3. i = Len(ns) + 1
  BY <1>2, LeastIsChosen, Zenon
<1>4. ParseCAIP2(s) = IF /\ Colons(s) # {}
                         /\ reNamespace(SubSeq(s, 1, i - 1)) /\ reReference(SubSeq(s, i + 1, Len(s)))
                      THEN [err |-> "nil", ns |-> SubSeq(s, 1, i - 1), ref |-> SubSeq(s, i + 1, Len(s))]
                      ELSE Rejected
  BY Zenon DEF ParseCAIP2
<1> HIDE DEF i
<1>5. i - 1 = Len(ns) /\ i + 1 = Len(ns) + 2
  BY <1>3
<1>6. SubSeq(s, 1, i - 1) = ns /\ SubSeq(s, i + 1, Len(s)) = ref
  BY <1>1, <1>5, JoinedParts, Zenon
<1>7. Colons(s) # {}
  BY <1>2
<1> QED BY <1>1, <1>4, <1>6, <1>7, Zenon

(* Three parts with colons between them.                                   *)
HasThree(j, s, t, u) ==
  /\ Len(j) = Len(s) + Len(t) + Len(u) + 2
  /\ j[Len(s) + Len(t) + 2] = ":"
  /\ SubSeq(j, 1, Len(s)) = s
  /\ SubSeq(j, Len(s) + 2, Len(s) + 1 + Len(t)) = t
  /\ SubSeq(j, Len(s) + Len(t) + 3, Len(j)) = u
  /\ \A i \in 1 .. Len(t) : j[Len(s) + 1 + i] = t[i]

LEMMA InnerParts ==
  ASSUME NEW S, ":" \in S, NEW s \in Seq(S), NEW t \in Seq(S), NEW u \in Seq(S),
         NEW j, j = Joined(s, Joined(t, u))
  PROVE  j \in Seq(S) /\ HasThree(j, s, t, u)
<1>1. PICK h : h = Joined(t, u)
  OBVIOUS
<1>2. h \in Seq(S) /\ HasParts(h, t, u)
  BY <1>1, JoinedIs, Zenon
<1>3. j \in Seq(S) /\ HasParts(j, s, h) /\ SubSeq(j, 1, Len(s)) = s
  BY <1>1, <1>2, JoinedIs, JoinedParts, Zenon
<1>4. /\ Len(h) = Len(t) + 1 + Len(u)
      /\ \A i \in 1 .. Len(t) : h[i] = t[i]
      /\ h[Len(t) + 1] = ":"
      /\ \A i \in 1 .. Len(u) : h[Len(t) + 1 + i] = u[i]
  BY <1>2 DEF HasParts
<1>5. Len(j) = Len(s) + 1 + Len(h) /\ \A i \in 1 .. Len(h) : j[Len(s) + 1 + i] = h[i]
  BY <1>3 DEF HasParts
<1>6. /\ Len(s) \in Nat /\ Len(t) \in Nat /\ Len(u) \in Nat
      /\ Len(j) = Len(s) + Len(t) + Len(u) + 2
  BY <1>4, <1>5
<1>7. \A i \in 1 .. Len(t) : j[Len(s) + 1 + i] = t[i]
  BY <1>4, <1>5, <1>6
<1>8. j[Len(s) + Len(t) + 2] = ":"
  <2>1. j[Len(s) + 1 + (Len(t) + 1)] = ":"
    BY <1>4, <1>5, <1>6
  <2>2. Len(s) + 1 + (Len(t) + 1) = Len(s) + Len(t) + 2
    BY <1>6
  <2> QED BY <2>1, <2>2
<1>9. SubSeq(j, Len(s) + 2, Len(s) + 1 + Len(t)) = t
  <2>1. \A i \in Len(s) + 2 .. Len(s) + 1 + Len(t) : j[i] \in S
    BY <1>3, <1>6
  <2> DEFINE p == SubSeq(j, Len(s) + 2, Len(s) + 1 + Len(t))
  <2>2. /\ p \in Seq(S) /\ Len(p) = Len(t)
        /\ \A i \in 1 .. Len(t) : p[i] = j[Len(s) + 1 + i]
    BY <1>3, <1>6, <2>1
  <2> HIDE DEF p
  <2>3. p = t
    BY <1>7, <2>2, SeqEqual
  <2> QED BY <2>3 DEF p
<1>10. SubSeq(j, Len(s) + Len(t) + 3, Len(j)) = u
  <2>1. \A i \in Len(s) + Len(t) + 3 .. Len(j) : j[i] \in S
    BY <1>3, <1>6
  <2> DEFINE p == SubSeq(j, Len(s) + Len(t) + 3, Len(j))
  <2>2. /\ p \in Seq(S) /\ Len(p) = Len(u)
        /\ \A i \in 1 .. Len(u) : p[i] = j[Len(s) + Len(t) + 2 + i]
    BY <1>3, <1>6, <2>1
  <2> HIDE DEF p
  <2>3. ASSUME NEW i \in 1 .. Len(u) PROVE j[Len(s) + Len(t) + 2 + i] = u[i]
    <3>1. Len(t) + 1 + i \in 1 .. Len(h)
      BY <1>4, <1>6
    <3>2. j[Len(s) + 1 + (Len(t) + 1 + i)] = u[i]
      BY <1>4, <1>5, <3>1
    <3>3. Len(s) + 1 + (Len(t) + 1 + i) = Len(s) + Len(t) + 2 + i
      BY <1>6
    <3> QED BY <3>2, <3>3
  <2>4. p = u
    BY <2>2, <2>3, SeqEqual
  <2> QED BY <2>4 DEF p
<1> QED BY <1>3, <1>6, <1>7, <1>8, <1>9, <1>10 DEF HasThree

(* The second colon is the one behind a first part without colons.         *)
LEMMA SecondColon ==
  ASSUME NEW S, ":" \in S, NEW s \in Seq(S), NEW t \in Seq(S), NEW u \in Seq(S),
         NoColon(s), NoColon(t), NEW j, j = Joined(s, Joined(t, u))
  PROVE  /\ Len(s) + Len(t) + 2 \in Colons(j) \ {Len(s) + 1}
         /\ \A c \in Colons(j) \ {Len(s) + 1} : Len(s) + Len(t) + 2 <= c
<1>1. j \in Seq(S) /\ HasThree(j, s, t, u)
  BY InnerParts, Zenon
<1>2. /\ j \in Seq(S) /\ Len(j) = Len(s) + Len(t) + Len(u) + 2
      /\ j[Len(s) + Len(t) + 2] = ":"
      /\ \A i \in 1 .. Len(t) : j[Len(s) + 1 + i] = t[i]
  BY <1>1, Zenon DEF HasThree
<1>3. Len(s) \in Nat /\ Len(t) \in Nat /\ Len(u) \in Nat
  OBVIOUS
<1>4. Len(s) + Len(t) + 2 \in Colons(j) \ {Len(s) + 1}
  BY <1>2, <1>3 DEF Colons
<1>5. ASSUME NEW c \in Colons(j) \ {Len(s) + 1} PROVE Len(s) + Len(t) + 2 <= c
  <2>1. c \in 1 .. Len(j) /\ j[c] = ":" /\ c # Len(s) + 1
    BY <1>2 DEF Colons
  <2>2. Len(s) + 1 <= c
    <3>1. Joined(t, u) \in Seq(S)
      BY JoinedIs, Zenon
    <3> QED BY <1>5, <3>1, FirstColon
  <2>3. SUFFICES ASSUME c < Len(s) + Len(t) + 2 PROVE FALSE
    BY <1>3, <2>1
  <2>4. PICK i \in 1 .. Len(t) : c = Len(s) + 1 + i
    <3>1. c - (Len(s) + 1) \in 1 .. Len(t) /\ c = Len(s) + 1 + (c - (Len(s) + 1))
      BY <1>3, <2>1, <2>2, <2>3
    <3> QED BY <3>1
  <2>5. t[i] = ":"
    BY <1>2, <2>1, <2>4
  <2> QED BY <2>5 DEF NoColon
<1> QED BY <1>4, <1>5

LEMMA TwoInFinite ==
  ASSUME NEW n \in Nat, NEW C \in SUBSET (1 .. n), NEW x \in C, NEW y \in C \ {x}
  PROVE  Cardinality(C) > 1
<1>1. IsFiniteSet(C)
  <2>1. IsFiniteSet(1 .. n)
    BY FS_Interval
  <2> QED BY <2>1, FS_Subset
<1>2. IsFiniteSet({x}) /\ Cardinality({x}) = 1
  BY FS_Singleton
<1>3. {x} \in SUBSET C /\ {x} # C
  OBVIOUS
<1>4. Cardinality({x}) <= Cardinality(C) /\ Cardinality({x}) # Cardinality(C)
  BY <1>1, <1>3, FS_Subset
<1>5. Cardinality(C) \in Nat
  BY <1>1, FS_CardinalityType
<1> QED BY <1>2, <1>4, <1>5

LEMMA CAIP10Parsed ==
  ASSUME NEW S, ":" \in S, NEW ns \in Seq(S), NEW ref \in Seq(S), NEW addr \in Seq(S),
         NoColon(ns), NoColon(ref)
  PROVE  ParseCAIP10(Joined(ns, Joined(ref, addr))) =
           IF reNamespace(ns) /\ reReference(ref) /\ reAddress(addr)
           THEN [err |-> "nil", ns |-> ns, ref |-> ref, addr |-> addr] ELSE Rejected
<1>1. PICK s : s = Joined(ns, Joined(ref, addr))
  OBVIOUS
<1>2. Joined(ref, addr) \in Seq(S)
  BY JoinedIs, Zenon
<1>3. Colons(s) \in SUBSET Nat /\ Len(ns) + 1 \in Colons(s) /\ \A j \in Colons(s) : Len(ns) + 1 <= j
  BY <1>1, <1>2, FirstColon, Zenon
<1>4. /\ Len(ns) + Len(ref) + 2 \in Colons(s) \ {Len(ns) + 1}
      /\ \A c \in Colons(s) \ {Len(ns) + 1} : Len(ns) + Len(ref) + 2 <= c
  BY <1>1, SecondColon, Zenon
<1>5. s \in Seq(S) /\ HasThree(s, ns, ref, addr)
  BY <1>1, InnerParts, Zenon
<1>6. /\ s \in Seq(S)
      /\ SubSeq(s, 1, Len(ns)) = ns
      /\ SubSeq(s, Len(ns) + 2, Len(ns) + 1 + Len(ref)) = ref
      /\ SubSeq(s, Len(ns) + Len(ref) + 3, Len(s)) = addr
  BY <1>5, Zenon DEF HasThree
<1>7. Cardinality(Colons(s)) > 1
  <2>1. Len(s) \in Nat /\ Colons(s) \in SUBSET (1 .. Len(s))
    BY <1>6 DEF Colons
  <2> DEFINE C == Colons(s)
             x == Len(ns) + 1
             y == Len(ns) + Len(ref) + 2
  <2>2. x \in C /\ y \in C \ {x}
    BY <1>3, <1>4, Zenon
  <2> HIDE DEF C, x, y
  <2>3. Cardinality(C) > 1
    BY <2>1, <2>2, TwoInFinite DEF C
  <2> QED BY <2>3 DEF C
<1> DEFINE i == CHOOSE i \in Colons(s) : \A j \in Colons(s) : i <= j
           k == CHOOSE k \in Colons(s) \ {i} : \A j \in Colons(s) \ {i} : k <= j
<1>8. i = Len(ns) + 1
  BY <1>3, LeastIsChosen, Zenon
<1>9. k = Len(ns) + Len(ref) + 2
  <2>1. Colons(s) \ {Len(ns) + 1} \in SUBSET Nat
    BY <1>3
  <2>2. (CHOOSE c \in Colons(s) \ {Len(ns) + 1} : \A j \in Colons(s) \ {Len(ns) + 1} : c <= j)
          = Len(ns) + Len(ref) + 2
    BY <1>4, <2>1, LeastIsChosen, Zenon
  <2> HIDE DEF i
  <2> QED BY <1>8, <2>2, Zenon
<1>10. ParseCAIP10(s) =
         IF /\ Cardinality(Colons(s)) > 1
            /\ reNamespace(SubSeq(s, 1, i - 1)) /\ reReference(SubSeq(s, i + 1, k - 1))
            /\ reAddress(SubSeq(s, k + 1, Len(s)))
         THEN [err |-> "nil", ns |-> SubSeq(s, 1, i - 1), ref |-> SubSeq(s, i + 1, k - 1),
               addr |-> SubSeq(s, k + 1, Len(s))]
         ELSE Rejected
  BY Zenon DEF ParseCAIP10
<1> HIDE DEF i, k
<1>11. /\ i - 1 = Len(ns) /\ i + 1 = Len(ns) + 2
       /\ k - 1 = Len(ns) + 1 + Len(ref) /\ k + 1 = Len(ns) + Len(ref) + 3
  BY <1>8, <1>9
<1>12. /\ SubSeq(s, 1, i - 1) = ns /\ SubSeq(s, i + 1, k - 1) = ref
       /\ SubSeq(s, k + 1, Len(s)) = addr
  BY <1>6, <1>11, Zenon
<1> QED BY <1>1, <1>7, <1>10, <1>12, Zenon

-----------------------------------------------------------------------------
PartAt(s, t, i) ==
  IF i <= Len(s) THEN s[i] ELSE IF i = Len(s) + 1 THEN ":" ELSE t[i - (Len(s) + 1)]

LEMMA PartsAt ==
  ASSUME NEW j, NEW s, NEW t, Len(s) \in Nat, Len(t) \in Nat, HasParts(j, s, t), NEW i \in 1 .. Len(j)
  PROVE  j[i] = PartAt(s, t, i)
<1>1. CASE i <= Len(s) + 1
  BY <1>1 DEF HasParts, PartAt
<1>2. CASE i > Len(s) + 1
  <2>1. i - (Len(s) + 1) \in 1 .. Len(t) /\ i = Len(s) + 1 + (i - (Len(s) + 1))
    BY <1>2 DEF HasParts
  <2>2. j[Len(s) + 1 + (i - (Len(s) + 1))] = t[i - (Len(s) + 1)]
    BY <2>1, Zenon DEF HasParts
  <2> QED BY <1>2, <2>1, <2>2 DEF PartAt
<1> QED BY <1>1, <1>2

LEMMA JoinedAssociative ==
  ASSUME NEW S, ":" \in S, NEW s \in Seq(S), NEW t \in Seq(S), NEW u \in Seq(S)
  PROVE  Joined(Joined(s, t), u) = Joined(s, Joined(t, u))
<1>1. PICK h, k : h = Joined(s, t) /\ k = Joined(t, u)
  OBVIOUS
<1>2. h \in Seq(S) /\ HasParts(h, s, t) /\ k \in Seq(S) /\ HasParts(k, t, u)
  BY <1>1, JoinedIs, Zenon
<1>3. PICK x, y : x = Joined(h, u) /\ y = Joined(s, k)
  OBVIOUS
<1>4. x \in Seq(S) /\ HasParts(x, h, u) /\ y \in Seq(S) /\ HasParts(y, s, k)
  BY <1>2, <1>3, JoinedIs, Zenon
<1>5. /\ Len(s) \in Nat /\ Len(t) \in Nat /\ Len(u) \in Nat
      /\ Len(h) = Len(s) + 1 + Len(t) /\ Len(k) = Len(t) + 1 + Len(u)
      /\ Len(x) = Len(h) + 1 + Len(u) /\ Len(y) = Len(s) + 1 + Len(k)
  BY <1>2, <1>4 DEF HasParts
<1>6. ASSUME NEW i \in 1 .. Len(x) PROVE x[i] = y[i]
  <2>1. i \in 1 .. Len(y) /\ Len(h) \in Nat /\ Len(k) \in Nat
    BY <1>5
  <2>2. x[i] = PartAt(h, u, i) /\ y[i] = PartAt(s, k, i)
    BY <1>4, <1>5, <2>1, PartsAt, Zenon
  <2>3. CASE i <= Len(h)
    <3>1. i \in 1 .. Len(h)
      BY <2>1, <2>3
    <3>2. h[i] = PartAt(s, t, i)
      BY <1>2, <1>5, <3>1, PartsAt, Zenon
    <3>3. CASE i <= Len(s) + 1
      BY <1>5, <2>2, <2>3, <3>2, <3>3 DEF PartAt
    <3>4. CASE i > Len(s) + 1
      <4>1. PICK n : n = i - (Len(s) + 1)
        OBVIOUS
      <4>2. n \in 1 .. Len(k) /\ n <= Len(t)
        BY <1>5, <2>3, <3>4, <4>1
      <4>3. k[n] = PartAt(t, u, n)
        BY <1>2, <1>5, <4>2, PartsAt, Zenon
      <4>4. x[i] = t[n] /\ y[i] = k[n]
        BY <1>5, <2>2, <2>3, <3>2, <3>4, <4>1 DEF PartAt
      <4> QED BY <4>2, <4>3, <4>4 DEF PartAt
    <3> QED BY <1>5, <3>3, <3>4
  <2>4. CASE i > Len(h)
    <3>1. PICK n : n = i - (Len(s) + 1)
      OBVIOUS
    <3>2. n \in 1 .. Len(k) /\ n > Len(t) /\ n - (Len(t) + 1) = i - (Len(h) + 1)
      BY <1>5, <2>4, <3>1
    <3>3. k[n] = PartAt(t, u, n)
      BY <1>2, <1>5, <3>2, PartsAt, Zenon
    <3>4. y[i] = k[n]
      BY <1>5, <2>2, <2>4, <3>1 DEF PartAt
    <3>5. PICK d : d = i - (Len(h) + 1)
      OBVIOUS
    <3>6. x[i] = IF i = Len(h) + 1 THEN ":" ELSE u[d]
      BY <1>5, <2>2, <2>4, <3>5 DEF PartAt
    <3>7. k[n] = IF n = Len(t) + 1 THEN ":" ELSE u[d]
      BY <1>5, <3>2, <3>3, <3>5 DEF PartAt
    <3>8. n = Len(t) + 1 <=> i = Len(h) + 1
      BY <1>5, <3>1
    <3> QED BY <3>4, <3>6, <3>7, <3>8
  <2> QED BY <1>5, <2>3, <2>4
<1>7. x = y
  <2>1. Len(x) = Len(y)
    BY <1>5
  <2> QED BY <1>4, <1>6, <2>1, SeqEqual, Zenon
<1> QED BY <1>1, <1>3, <1>7

(* The printed forms are the joined ones.                                  *)
LEMMA PrintedJoined ==
  ASSUME NEW S, ":" \in S, NEW a, a.ns \in Seq(S), a.ref \in Seq(S), a.addr \in Seq(S)
  PROVE  /\ CAIP2String(a) = Joined(a.ns, a.ref)
         /\ CAIP10String(a) = Joined(a.ns, Joined(a.ref, a.addr))
<1>1. PICK ns, ref, addr : ns = a.ns /\ ref = a.ref /\ addr = a.addr
  OBVIOUS
<1>2. ns \in Seq(S) /\ ref \in Seq(S) /\ addr \in Seq(S)
  BY <1>1
<1>3. CAIP10String(a) = Joined(Joined(ns, ref), addr) /\ CAIP2String(a) = Joined(ns, ref)
  BY <1>1 DEF CAIP2String, CAIP10String, Joined
<1> QED BY <1>1, <1>2, <1>3, JoinedAssociative

LEMMA NoColonIn ==
  ASSUME NEW S, NEW s \in Seq(S)
  PROVE  reNamespace(s) \/ reReference(s) \/ reAddress(s) => NoColon(s)
<1> SUFFICES ASSUME reNamespace(s) \/ reReference(s) \/ reAddress(s), NEW i \in 1 .. Len(s)
             PROVE  s[i] # ":"
  BY DEF NoColon
<1>1. s[i] \in ToSet(s)
  BY DEF ToSet
<1> QED BY <1>1, ColonAssumption DEF reNamespace, reReference, reAddress

(* A text that has a colon is split at the first.                          *)
LEMMA ColonSplits ==
  ASSUME NEW S, ":" \in S, NEW s \in Seq(S), ~NoColon(s)
  PROVE  \E t \in Seq(S), u \in Seq(S) : NoColon(t) /\ s = Joined(t, u)
<1> DEFINE C == {i \in 1 .. Len(s) : s[i] = ":"}
<1>1. C \in SUBSET Nat /\ C # {}
  BY DEF NoColon
<1>2. PICK p \in C : \A i \in C : p <= i
  BY <1>1, NatHasLeast, Zenon
<1>3. p \in 1 .. Len(s) /\ s[p] = ":" /\ \A i \in 1 .. p - 1 : s[i] # ":"
  BY <1>2
<1> DEFINE t == SubSeq(s, 1, p - 1)
           u == SubSeq(s, p + 1, Len(s))
<1>4. /\ t \in Seq(S) /\ Len(t) = p - 1 /\ \A i \in 1 .. p - 1 : t[i] = s[i]
      /\ u \in Seq(S) /\ Len(u) = Len(s) - p /\ \A i \in 1 .. Len(s) - p : u[i] = s[p + i]
  BY <1>3
<1> HIDE DEF t, u, C
<1>5. NoColon(t)
  BY <1>3, <1>4 DEF NoColon
<1>6. PICK j : j = Joined(t, u)
  OBVIOUS
<1>7. j \in Seq(S) /\ HasParts(j, t, u)
  BY <1>4, <1>6, JoinedIs, Zenon
<1>8. Len(j) = Len(s)
  BY <1>3, <1>4, <1>7 DEF HasParts
<1>9. ASSUME NEW i \in 1 .. Len(s) PROVE j[i] = s[i]
  <2>1. CASE i < p
    BY <1>3, <1>4, <1>7, <2>1 DEF HasParts
  <2>2. CASE i = p
    <3>1. j[Len(t) + 1] = ":" /\ Len(t) + 1 = p
      BY <1>3, <1>4, <1>7 DEF HasParts
    <3> QED BY <1>3, <2>2, <3>1
  <2>3. CASE i > p
    <3>1. PICK k \in 1 .. Len(u) : i = p + k
      <4>1. i - p \in 1 .. Len(u) /\ i = p + (i - p)
        BY <1>3, <1>4, <2>3
      <4> QED BY <4>1
    <3>2. j[Len(t) + 1 + k] = u[k] /\ Len(t) + 1 + k = p + k
      BY <1>3, <1>4, <1>7 DEF HasParts
    <3>3. u[k] = s[p + k]
      BY <1>4
    <3> QED BY <3>1, <3>2, <3>3
  <2> QED BY <1>3, <2>1, <2>2, <2>3
<1>10. j = s
  BY <1>7, <1>8, <1>9, SeqEqual
<1> QED BY <1>4, <1>5, <1>6, <1>10

(* An address is the last part: what has a colon is none.                  *)
LEMMA JoinedIsNoAddress ==
  ASSUME NEW S, ":" \in S, NEW s \in Seq(S), NEW t \in Seq(S)
  PROVE  ~reAddress(Joined(s, t)) /\ ~reReference(Joined(s, t))
<1>1. Joined(s, t) \in Seq(S) /\ HasParts(Joined(s, t), s, t)
  BY JoinedIs, Zenon
<1>2. ~NoColon(Joined(s, t))
  BY <1>1 DEF HasParts, NoColon
<1> QED BY <1>1, <1>2, NoColonIn

(* The stores' text of an account reads back as that account if its parts  *)
(* match caip.go's expressions, and as none if its reference does not:     *)
(* whatever colons the reference brings, they push a colon into the        *)
(* address.                                                                *)
THEOREM AccountTextParses ==
  ASSUME NEW S, ":" \in S, NEW a, a.ns \in Seq(S), a.ref \in Seq(S), a.addr \in Seq(S),
         reNamespace(a.ns), reAddress(a.addr)
  PROVE  IF reReference(a.ref)
         THEN /\ ParseCAIP10(CAIP10String(a)) =
                   [err |-> "nil", ns |-> a.ns, ref |-> a.ref, addr |-> a.addr]
              /\ ParseCAIP2(CAIP2String(a)) = [err |-> "nil", ns |-> a.ns, ref |-> a.ref]
         ELSE ParseCAIP10(CAIP10String(a)) = Rejected /\ ParseCAIP2(CAIP2String(a)) = Rejected
<1>1. PICK ns, ref, addr : ns = a.ns /\ ref = a.ref /\ addr = a.addr
  OBVIOUS
<1>2. ns \in Seq(S) /\ ref \in Seq(S) /\ addr \in Seq(S) /\ reNamespace(ns) /\ reAddress(addr)
  BY <1>1
<1>3. NoColon(ns)
  BY <1>2, NoColonIn
<1>4. CAIP2String(a) = Joined(ns, ref) /\ CAIP10String(a) = Joined(ns, Joined(ref, addr))
  BY <1>1, <1>2, PrintedJoined
<1>5. ParseCAIP2(Joined(ns, ref)) =
        IF reNamespace(ns) /\ reReference(ref)
        THEN [err |-> "nil", ns |-> ns, ref |-> ref] ELSE Rejected
  BY <1>2, <1>3, CAIP2Parsed, Zenon
<1>6. CASE reReference(ref)
  <2>1. NoColon(ref)
    BY <1>2, <1>6, NoColonIn
  <2>2. ParseCAIP10(Joined(ns, Joined(ref, addr))) =
          [err |-> "nil", ns |-> ns, ref |-> ref, addr |-> addr]
    BY <1>2, <1>3, <1>6, <2>1, CAIP10Parsed, Zenon
  <2> QED BY <1>1, <1>2, <1>4, <1>5, <1>6, <2>2, Zenon
<1>7. CASE ~reReference(ref)
  <2>1. ParseCAIP10(Joined(ns, Joined(ref, addr))) = Rejected
    <3>1. CASE NoColon(ref)
      BY <1>2, <1>3, <1>7, <3>1, CAIP10Parsed, Zenon
    <3>2. CASE ~NoColon(ref)
      <4>1. PICK t \in Seq(S), u \in Seq(S) : NoColon(t) /\ ref = Joined(t, u)
        BY <1>2, <3>2, ColonSplits, Zenon
      <4>2. PICK v : v = Joined(u, addr)
        OBVIOUS
      <4>3. v \in Seq(S) /\ ~reAddress(v)
        BY <1>2, <4>1, <4>2, JoinedIs, JoinedIsNoAddress, Zenon
      <4>4. Joined(ref, addr) = Joined(t, v)
        <5>1. Joined(Joined(t, u), addr) = Joined(t, Joined(u, addr))
          BY <1>2, JoinedAssociative
        <5> QED BY <4>1, <4>2, <5>1
      <4>5. ParseCAIP10(Joined(ns, Joined(t, v))) =
              IF reNamespace(ns) /\ reReference(t) /\ reAddress(v)
              THEN [err |-> "nil", ns |-> ns, ref |-> t, addr |-> v] ELSE Rejected
        BY <1>2, <1>3, <4>1, <4>3, CAIP10Parsed, Zenon
      <4> QED BY <4>3, <4>4, <4>5, Zenon
    <3> QED BY <3>1, <3>2
  <2> QED BY <1>1, <1>4, <1>5, <1>7, <2>1, Zenon
<1> QED BY <1>6, <1>7

(* What ParseCAIP10 accepts prints as it was written: no two texts denote  *)
(* one account, so a map keyed by accounts may as well be keyed by texts.  *)
THEOREM ParsedTextPrints ==
  ASSUME NEW S, ":" \in S, NEW s \in Seq(S), ParseCAIP10(s).err = "nil"
  PROVE  CAIP10String(ParseCAIP10(s)) = s
<1>1. Cardinality(Colons(s)) > 1
  BY DEF ParseCAIP10, Rejected
<1>2. ~NoColon(s)
  <2> SUFFICES ASSUME NoColon(s) PROVE FALSE
    OBVIOUS
  <2>1. Colons(s) = {}
    BY DEF Colons, NoColon
  <2>2. Cardinality({}) = 0
    BY FS_EmptySet
  <2> QED BY <1>1, <2>1, <2>2
<1>3. PICK t \in Seq(S), u \in Seq(S) : NoColon(t) /\ s = Joined(t, u)
  BY <1>2, ColonSplits, Zenon
<1>4. ~NoColon(u)
  <2> SUFFICES ASSUME NoColon(u) PROVE FALSE
    OBVIOUS
  <2>1. s \in Seq(S) /\ HasParts(s, t, u)
    BY <1>3, JoinedIs, Zenon
  <2>2. ASSUME NEW c \in Colons(s) PROVE c = Len(t) + 1
    <3>1. c \in 1 .. Len(s) /\ s[c] = ":"
      BY <2>1 DEF Colons
    <3>2. s[c] = PartAt(t, u, c)
      BY <1>3, <2>1, <3>1, PartsAt
    <3>3. CASE c <= Len(t)
      BY <1>3, <3>1, <3>2, <3>3 DEF PartAt, NoColon
    <3>4. CASE c > Len(t) + 1
      <4>1. c - (Len(t) + 1) \in 1 .. Len(u)
        BY <1>3, <2>1, <3>1, <3>4 DEF HasParts
      <4>2. s[c] = u[c - (Len(t) + 1)]
        BY <1>3, <3>1, <3>2, <3>4 DEF PartAt
      <4> QED BY <3>1, <4>1, <4>2 DEF NoColon
    <3> QED BY <1>3, <3>1, <3>3, <3>4
  <2>3. PICK x : x = Len(t) + 1
    OBVIOUS
  <2>4. Colons(s) \in SUBSET {x}
    BY <2>2, <2>3
  <2>5. IsFiniteSet({x}) /\ Cardinality({x}) = 1
    BY FS_Singleton
  <2>6. Cardinality(Colons(s)) <= 1 /\ IsFiniteSet(Colons(s))
    BY <2>4, <2>5, FS_Subset
  <2>7. Cardinality(Colons(s)) \in Nat
    BY <2>6, FS_CardinalityType
  <2> QED BY <1>1, <2>6, <2>7
<1>5. PICK v \in Seq(S), w \in Seq(S) : NoColon(v) /\ u = Joined(v, w)
  BY <1>3, <1>4, ColonSplits, Zenon
<1>6. ParseCAIP10(s) = IF reNamespace(t) /\ reReference(v) /\ reAddress(w)
                       THEN [err |-> "nil", ns |-> t, ref |-> v, addr |-> w] ELSE Rejected
  BY <1>3, <1>5, CAIP10Parsed, Zenon
<1>7. PICK a : a = ParseCAIP10(s)
  OBVIOUS
<1>8. a.ns = t /\ a.ref = v /\ a.addr = w
  BY <1>6, <1>7 DEF Rejected
<1>9. CAIP10String(a) = Joined(t, Joined(v, w))
  BY <1>3, <1>5, <1>8, PrintedJoined
<1> QED BY <1>3, <1>5, <1>7, <1>9

-----------------------------------------------------------------------------
(* The trailer's fold, unrolled: one partial result per line read.         *)
Unrolls(h, s, n) ==
  h = [t \in SUBSET (1 .. n) |-> IF t = {} THEN NoTrailer ELSE ReadTrailer(h[t \ {Max(t)}], s[Max(t)])]

LEMMA GreatestIsMax ==
  ASSUME NEW n \in Nat, NEW t \in SUBSET (1 .. n), n \in t
  PROVE  Max(t) = n
<1>1. \A y \in t : n >= y
  OBVIOUS
<1>2. Max(t) \in t /\ \A y \in t : Max(t) >= y
  BY <1>1 DEF Max
<1>3. PICK m \in t : m = Max(t) /\ \A y \in t : m >= y
  BY <1>2
<1>4. m \in 1 .. n
  OBVIOUS
<1>5. m >= n
  BY <1>3
<1> QED BY <1>3, <1>4, <1>5

LEMMA UnrollsOneMore ==
  ASSUME NEW s, NEW k \in Nat, NEW h, Unrolls(h, s, k)
  PROVE  \E g : Unrolls(g, s, k + 1)
<1> DEFINE Step(x, t) == IF t = {} THEN NoTrailer ELSE ReadTrailer(x[t \ {Max(t)}], s[Max(t)])
<1>1. PICK g : g = [t \in SUBSET (1 .. k + 1) |->
                      IF k + 1 \in t THEN ReadTrailer(h[t \ {k + 1}], s[k + 1]) ELSE h[t]]
  OBVIOUS
<1>2. ASSUME NEW t \in SUBSET (1 .. k) PROVE h[t] = Step(h, t) /\ g[t] = h[t]
  <2>1. h[t] = Step(h, t)
    BY DEF Unrolls
  <2>2. t \in SUBSET (1 .. k + 1) /\ k + 1 \notin t
    OBVIOUS
  <2> QED BY <1>1, <2>1, <2>2
<1>3. ASSUME NEW t \in SUBSET (1 .. k + 1) PROVE g[t] = Step(g, t)
  <2>1. CASE k + 1 \in t
    <3>1. Max(t) = k + 1
      BY <2>1, GreatestIsMax
    <3>2. t \ {k + 1} \in SUBSET (1 .. k)
      OBVIOUS
    <3>3. g[t \ {k + 1}] = h[t \ {k + 1}]
      BY <1>2, <3>2
    <3>4. g[t] = ReadTrailer(h[t \ {k + 1}], s[k + 1])
      BY <1>1, <2>1
    <3>5. t # {}
      BY <2>1
    <3> QED BY <3>1, <3>3, <3>4, <3>5, Zenon
  <2>2. CASE k + 1 \notin t
    <3>1. t \in SUBSET (1 .. k) /\ t \ {Max(t)} \in SUBSET (1 .. k)
      <4>1. \A x \in t : x \in 1 .. k
        BY <2>2
      <4> QED BY <4>1, Zenon
    <3>2. g[t] = Step(h, t) /\ g[t \ {Max(t)}] = h[t \ {Max(t)}]
      BY <1>2, <3>1, Zenon
    <3> QED BY <3>2, Zenon
  <2> QED BY <2>1, <2>2
<1>4. g = [t \in SUBSET (1 .. k + 1) |-> Step(g, t)]
  <2>1. g = [t \in SUBSET (1 .. k + 1) |-> g[t]]
    BY <1>1
  <2> HIDE DEF Step
  <2> QED BY <1>3, <2>1
<1> QED BY <1>4 DEF Unrolls

LEMMA UnrollsAll == ASSUME NEW s, NEW n \in Nat PROVE \E h : Unrolls(h, s, n)
<1> DEFINE T == {k \in Nat : ~ \E h : Unrolls(h, s, k)}
<1> SUFFICES ASSUME n \in T PROVE FALSE
  OBVIOUS
<1>1. T \in SUBSET Nat /\ T # {}
  OBVIOUS
<1>2. PICK k \in T : \A j \in T : k <= j
  BY <1>1, NatHasLeast, Zenon
<1>3. CASE k = 0
  <2>1. PICK h : h = [t \in SUBSET (1 .. 0) |-> NoTrailer]
    OBVIOUS
  <2>2. \A t \in SUBSET (1 .. 0) : t = {}
    OBVIOUS
  <2>3. Unrolls(h, s, 0)
    BY <2>1, <2>2 DEF Unrolls
  <2> QED BY <1>3, <2>3
<1>4. CASE k # 0
  <2>1. k - 1 \in Nat /\ k - 1 \notin T /\ k - 1 + 1 = k
    BY <1>2, <1>4
  <2>2. PICK h : Unrolls(h, s, k - 1)
    BY <2>1
  <2>3. \E g : Unrolls(g, s, k - 1 + 1)
    BY <2>1, <2>2, UnrollsOneMore, Zenon
  <2> QED BY <2>1, <2>3
<1> QED BY <1>3, <1>4

LEMMA TrailerRead ==
  ASSUME NEW S, NEW s \in Seq(S)
  PROVE  \E read : /\ FoldLeft(ReadTrailer, NoTrailer, s) = read[Len(s)]
                   /\ read[0] = NoTrailer
                   /\ \A i \in 1 .. Len(s) : read[i] = ReadTrailer(read[i - 1], s[i])
<1>1. Len(s) \in Nat /\ DOMAIN s = 1 .. Len(s)
  OBVIOUS
<1>2. PICK n : n = Len(s)
  OBVIOUS
<1> DEFINE iter == CHOOSE h : Unrolls(h, s, n)
<1>3. FoldLeft(ReadTrailer, NoTrailer, s) = iter[1 .. n]
  BY <1>1, <1>2 DEF FoldLeft, MapThenFoldSet, Unrolls
<1>4. Unrolls(iter, s, n)
  BY <1>1, <1>2, UnrollsAll
<1> HIDE DEF iter
<1>5. \A t \in SUBSET (1 .. n) :
        iter[t] = IF t = {} THEN NoTrailer ELSE ReadTrailer(iter[t \ {Max(t)}], s[Max(t)])
  BY <1>4 DEF Unrolls
<1>6. PICK read : read = [i \in 0 .. n |-> iter[1 .. i]]
  OBVIOUS
<1>7. read[0] = NoTrailer /\ read[n] = iter[1 .. n]
  <2>1. 0 \in 0 .. n /\ n \in 0 .. n /\ 1 .. 0 = {}
    BY <1>1, <1>2
  <2>2. iter[1 .. 0] = NoTrailer
    BY <1>5, <2>1
  <2> QED BY <1>6, <2>1, <2>2
<1>8. ASSUME NEW i \in 1 .. n PROVE read[i] = ReadTrailer(read[i - 1], s[i])
  <2>1. /\ 1 .. i \in SUBSET (1 .. n) /\ 1 .. i # {} /\ (1 .. i) \ {i} = 1 .. (i - 1)
        /\ i \in 0 .. n /\ i - 1 \in 0 .. n
    BY <1>1, <1>2, SMTT(30)
  <2>2. Max(1 .. i) = i
    BY GreatestIsMax
  <2>3. iter[1 .. i] = ReadTrailer(iter[1 .. (i - 1)], s[i])
    BY <1>5, <2>1, <2>2, Zenon
  <2>4. read[i] = iter[1 .. i] /\ read[i - 1] = iter[1 .. (i - 1)]
    BY <1>6, <2>1
  <2> QED BY <2>3, <2>4, Zenon
<1> QED BY <1>2, <1>3, <1>7, <1>8, Zenon

-----------------------------------------------------------------------------
(* Sequences of lines that are spelt out where they have to be.            *)
IsSeq(s) == \E S : s \in Seq(S)

(* A line with characters where the parser reads them one by one, and with *)
(* something a timestamp can say where it reads one.                       *)
Written(l) == /\ l.label = "text" => IsSeq(l.val) /\ l.val # <<>>
              /\ l.label = "Chain ID" => IsSeq(l.val)
              /\ l.label \in {"Issued At", "Expiration Time", "Not Before"} => IsStamp(l.val)

Lined(ls) == IsSeq(ls) /\ \A i \in 1 .. Len(ls) : Written(ls[i])

LEMMA LinedConcat ==
  ASSUME NEW s, NEW t, Lined(s), Lined(t)
  PROVE  Lined(s \o t)
<1>1. PICK S, T : s \in Seq(S) /\ t \in Seq(T)
  BY DEF Lined, IsSeq
<1>2. PICK U : U = S \union T
  OBVIOUS
<1>3. s \in Seq(U) /\ t \in Seq(U)
  BY <1>1, <1>2, SeqMonotonic
<1>4. PICK j : j = s \o t
  OBVIOUS
<1>5. /\ j \in Seq(U) /\ Len(j) = Len(s) + Len(t)
      /\ \A i \in 1 .. Len(s) + Len(t) : j[i] = IF i <= Len(s) THEN s[i] ELSE t[i - Len(s)]
  BY <1>3, <1>4, ConcatProperties, Zenon
<1>6. ASSUME NEW i \in 1 .. Len(j) PROVE Written(j[i])
  <2>1. CASE i <= Len(s)
    BY <1>3, <1>5, <2>1 DEF Lined
  <2>2. CASE i > Len(s)
    <3>1. PICK k \in 1 .. Len(t) : k = i - Len(s)
      BY <1>3, <1>5, <2>2
    <3>2. j[i] = t[k]
      BY <1>3, <1>5, <2>2, <3>1
    <3> QED BY <3>1, <3>2 DEF Lined
  <2> QED BY <1>3, <1>5, <2>1, <2>2
<1> QED BY <1>4, <1>5, <1>6 DEF Lined, IsSeq

LEMMA LinedPart ==
  ASSUME NEW s, Lined(s), NEW m \in Nat \ {0}, NEW n \in 0 .. Len(s)
  PROVE  Lined(SubSeq(s, m, n))
<1>1. PICK S : s \in Seq(S)
  BY DEF Lined, IsSeq
<1>2. \A i \in m .. n : s[i] \in S
  BY <1>1
<1>3. PICK p : p = SubSeq(s, m, n)
  OBVIOUS
<1>4. /\ p \in Seq(S) /\ Len(p) = IF m <= n THEN n - m + 1 ELSE 0
      /\ \A i \in 1 .. n - m + 1 : p[i] = s[m + i - 1]
  BY <1>1, <1>2, <1>3, SubSeqProperties
<1>5. ASSUME NEW i \in 1 .. Len(p) PROVE Written(p[i])
  <2>1. PICK k \in 1 .. Len(s) : k = m + i - 1
    BY <1>1, <1>4
  <2>2. p[i] = s[k]
    BY <1>1, <1>4, <2>1
  <2> QED BY <2>2 DEF Lined
<1> QED BY <1>3, <1>4, <1>5 DEF Lined, IsSeq

LEMMA LinedFew ==
  /\ Lined(<<>>)
  /\ \A l : Written(l) => Lined(<<l>>)
  /\ \A l, k : Written(l) /\ Written(k) => Lined(<<l, k>>)
<1>1. Lined(<<>>)
  <2>1. <<>> \in Seq({}) /\ Len(<<>>) = 0
    OBVIOUS
  <2> QED BY <2>1 DEF Lined, IsSeq
<1>2. ASSUME NEW l, Written(l) PROVE Lined(<<l>>)
  <2>1. PICK x : x = <<l>>
    OBVIOUS
  <2>2. x \in Seq({l}) /\ Len(x) = 1 /\ x[1] = l
    BY <2>1
  <2>3. ASSUME NEW i \in 1 .. Len(x) PROVE Written(x[i])
    BY <1>2, <2>2
  <2> QED BY <2>1, <2>2, <2>3 DEF Lined, IsSeq
<1>3. ASSUME NEW l, NEW k, Written(l), Written(k) PROVE Lined(<<l, k>>)
  <2>1. PICK x : x = <<l, k>>
    OBVIOUS
  <2>2. x \in Seq({l, k}) /\ Len(x) = 2 /\ x[1] = l /\ x[2] = k
    BY <2>1
  <2>3. ASSUME NEW i \in 1 .. Len(x) PROVE Written(x[i])
    <3>1. i = 1 \/ i = 2
      BY <2>2
    <3> QED BY <1>3, <2>2, <3>1
  <2> QED BY <2>1, <2>2, <2>3 DEF Lined, IsSeq
<1> QED BY <1>1, <1>2, <1>3

LEMMA LinedChanged ==
  ASSUME NEW s, Lined(s), NEW i \in 1 .. Len(s), NEW l, Written(l)
  PROVE  Lined([s EXCEPT ![i] = l])
<1>1. PICK S : s \in Seq(S)
  BY DEF Lined, IsSeq
<1>2. PICK U : U = S \union {l}
  OBVIOUS
<1>3. s \in Seq(U) /\ l \in U
  BY <1>1, <1>2, SeqMonotonic
<1>4. PICK p : p = [s EXCEPT ![i] = l]
  OBVIOUS
<1>5. /\ p \in Seq(U) /\ Len(p) = Len(s)
      /\ \A j \in 1 .. Len(s) : p[j] = IF j = i THEN l ELSE s[j]
  BY <1>3, <1>4
<1> QED BY <1>4, <1>5 DEF Lined, IsSeq

(* TrimRight takes lines away at the end.                                  *)
LEMMA TrimRightLined ==
  ASSUME NEW ls, Lined(ls)
  PROVE  Lined(TrimRight(ls))
<1>1. PICK n : n = Len(ls)
  OBVIOUS
<1>2. n \in Nat
  BY <1>1 DEF Lined, IsSeq
<1> DEFINE I == {i \in 1 .. Len(ls) : ls[i] # Blank}
           last == IF I # {} THEN Max(I) ELSE 0
<1>3. TrimRight(ls) = SubSeq(ls, 1, last)
  BY DEF TrimRight, SelectLastInSeq
<1>4. I # {} => Max(I) \in I
  <2> SUFFICES ASSUME I # {} PROVE Max(I) \in I
    OBVIOUS
  <2> DEFINE D == {n - i : i \in I}
  <2>1. D \in SUBSET Nat /\ D # {}
    BY <1>1, <1>2
  <2>2. PICK d \in D : \A e \in D : d <= e
    BY <2>1, NatHasLeast, Zenon
  <2>3. PICK x \in I : d = n - x
    BY <2>2
  <2>4. ASSUME NEW y \in I PROVE x >= y
    <3>1. n - y \in D
      OBVIOUS
    <3>2. n - x <= n - y
      BY <2>2, <2>3, <3>1
    <3> QED BY <1>1, <1>2, <3>2
  <2>5. \E z \in I : \A y \in I : z >= y
    BY <2>4
  <2> HIDE DEF I, D
  <2> QED BY <2>5 DEF Max
<1>5. last \in 0 .. Len(ls)
  <2>1. CASE I = {}
    BY <1>1, <1>2, <2>1
  <2>2. CASE I # {}
    <3>1. Max(I) \in 1 .. Len(ls)
      BY <1>4, <2>2
    <3> HIDE DEF I
    <3> QED BY <1>1, <1>2, <2>2, <3>1
  <2> QED BY <2>1, <2>2
<1> HIDE DEF last
<1> QED BY <1>3, <1>5, LinedPart

-----------------------------------------------------------------------------
(* What has been read of the lines after the first k.                      *)
Reads(ls, k) == FoldLeft(ReadTrailer, NoTrailer, SubSeq(ls, k + 1, Len(ls)))

LEMMA ReadsNone ==
  ASSUME NEW ls, IsSeq(ls)
  PROVE  Reads(ls, Len(ls)) = NoTrailer
<1>1. PICK S : ls \in Seq(S)
  BY DEF IsSeq
<1>2. PICK s : s = SubSeq(ls, Len(ls) + 1, Len(ls))
  OBVIOUS
<1>3. s \in Seq(S) /\ Len(s) = 0
  BY <1>1, <1>2
<1>4. PICK read : FoldLeft(ReadTrailer, NoTrailer, s) = read[Len(s)] /\ read[0] = NoTrailer
  BY <1>3, TrailerRead
<1> QED BY <1>2, <1>3, <1>4, Zenon DEF Reads

(* Reading goes on where it stopped.                                       *)
Continues(read, p, x) ==
  read[0] = p /\ \A i \in 1 .. Len(x) : read[i] = ReadTrailer(read[i - 1], x[i])

LEMMA ReadsOn ==
  ASSUME NEW ls, IsSeq(ls), NEW x, IsSeq(x), NEW k \in 0 .. Len(ls)
  PROVE  \E read : Continues(read, Reads(ls, k), x) /\ Reads(ls \o x, k) = read[Len(x)]
<1>1. PICK A, B : ls \in Seq(A) /\ x \in Seq(B)
  BY DEF IsSeq
<1>2. PICK S : S = A \union B
  OBVIOUS
<1>3. ls \in Seq(S) /\ x \in Seq(S)
  BY <1>1, <1>2, SeqMonotonic
<1>4. PICK j : j = ls \o x
  OBVIOUS
<1>5. /\ j \in Seq(S) /\ Len(j) = Len(ls) + Len(x)
      /\ \A i \in 1 .. Len(ls) + Len(x) : j[i] = IF i <= Len(ls) THEN ls[i] ELSE x[i - Len(ls)]
  BY <1>3, <1>4, ConcatProperties, Zenon
<1>6. PICK n : n = Len(ls)
  OBVIOUS
<1>7. PICK m : m = Len(x)
  OBVIOUS
<1>8. n = Len(ls) /\ m = Len(x) /\ n \in Nat /\ m \in Nat /\ k \in 0 .. n
  BY <1>3, <1>6, <1>7
<1>9. PICK s : s = SubSeq(ls, k + 1, n)
  OBVIOUS
<1>10. PICK t : t = SubSeq(j, k + 1, n + m)
  OBVIOUS
<1>11. s \in Seq(S) /\ Len(s) = n - k /\ \A i \in 1 .. n - k : s[i] = ls[k + i]
  <2>1. \A i \in k + 1 .. n : ls[i] \in S
    BY <1>3, <1>8
  <2> QED BY <1>3, <1>8, <1>9, <2>1
<1>12. t \in Seq(S) /\ Len(t) = n + m - k /\ \A i \in 1 .. n + m - k : t[i] = j[k + i]
  <2>1. \A i \in k + 1 .. n + m : j[i] \in S
    BY <1>5, <1>8
  <2> QED BY <1>5, <1>8, <1>10, <2>1
<1>13. (\A i \in 1 .. n - k : t[i] = s[i]) /\ (\A i \in 1 .. m : t[n - k + i] = x[i])
  <2>1. ASSUME NEW i \in 1 .. n - k PROVE t[i] = s[i]
    <3>1. k + i \in 1 .. n + m /\ k + i <= n /\ i \in 1 .. n + m - k
      BY <1>8
    <3> QED BY <1>5, <1>8, <1>11, <1>12, <3>1
  <2>2. ASSUME NEW i \in 1 .. m PROVE t[n - k + i] = x[i]
    <3>1. PICK a, c : a = n - k + i /\ c = n + i
      OBVIOUS
    <3>2. /\ c \in 1 .. n + m /\ ~(c <= n) /\ c - n = i
          /\ a \in 1 .. n + m - k /\ k + a = c
      BY <1>8, <3>1
    <3>3. j[c] = x[i]
      BY <1>5, <1>8, <3>2
    <3>4. t[a] = j[c]
      BY <1>12, <3>2
    <3> QED BY <3>1, <3>3, <3>4
  <2> QED BY <2>1, <2>2
<1>14. PICK f : /\ FoldLeft(ReadTrailer, NoTrailer, s) = f[Len(s)]
                /\ f[0] = NoTrailer
                /\ \A i \in 1 .. Len(s) : f[i] = ReadTrailer(f[i - 1], s[i])
  BY <1>11, TrailerRead
<1>15. PICK g : /\ FoldLeft(ReadTrailer, NoTrailer, t) = g[Len(t)]
                /\ g[0] = NoTrailer
                /\ \A i \in 1 .. Len(t) : g[i] = ReadTrailer(g[i - 1], t[i])
  BY <1>12, TrailerRead
<1> DEFINE T == {i \in 0 .. n - k : f[i] # g[i]}
<1>16. T = {}
  <2> SUFFICES ASSUME T # {} PROVE FALSE
    OBVIOUS
  <2>1. T \in SUBSET Nat
    BY <1>8
  <2>2. PICK i \in T : \A h \in T : i <= h
    BY <2>1, NatHasLeast, Zenon
  <2>3. i # 0 /\ f[i] # g[i]
    BY <1>14, <1>15, <2>2
  <2>4. i \in 1 .. n - k /\ i - 1 \in 0 .. n - k /\ ~(i <= i - 1) /\ i \in 1 .. n + m - k
    BY <1>8, <2>2, <2>3
  <2>5. f[i - 1] = g[i - 1] /\ t[i] = s[i]
    BY <1>13, <2>2, <2>4
  <2>6. f[i] = ReadTrailer(f[i - 1], s[i]) /\ g[i] = ReadTrailer(g[i - 1], t[i])
    BY <1>11, <1>12, <1>14, <1>15, <2>4
  <2> QED BY <2>3, <2>5, <2>6, Zenon
<1>17. f[n - k] = g[n - k]
  BY <1>8, <1>16
<1>18. PICK read : read = [i \in 0 .. m |-> g[n - k + i]]
  OBVIOUS
<1>19. read[0] = g[n - k] /\ read[m] = g[n + m - k]
  <2>1. 0 \in 0 .. m /\ m \in 0 .. m /\ n - k + 0 = n - k /\ n - k + m = n + m - k
    BY <1>8
  <2> QED BY <1>18, <2>1
<1>20. ASSUME NEW i \in 1 .. m PROVE read[i] = ReadTrailer(read[i - 1], x[i])
  <2>1. PICK a : a = n - k + i
    OBVIOUS
  <2>2. /\ i \in 0 .. m /\ i - 1 \in 0 .. m /\ a \in 1 .. n + m - k
        /\ n - k + (i - 1) = a - 1
    BY <1>8, <2>1
  <2>3. read[i] = g[a] /\ read[i - 1] = g[a - 1]
    BY <1>18, <2>1, <2>2
  <2>4. \A h \in 1 .. n + m - k : g[h] = ReadTrailer(g[h - 1], t[h])
    BY <1>12, <1>15, Zenon
  <2>5. g[a] = ReadTrailer(g[a - 1], t[a])
    BY <2>2, <2>4, Zenon
  <2>6. t[a] = x[i]
    BY <1>13, <2>1, Zenon
  <2> QED BY <2>3, <2>5, <2>6, Zenon
<1>21. Reads(ls, k) = f[n - k]
  BY <1>8, <1>9, <1>11, <1>14, Zenon DEF Reads
<1>22. Reads(ls \o x, k) = g[n + m - k]
  BY <1>4, <1>5, <1>8, <1>10, <1>12, <1>15, Zenon DEF Reads
<1> QED BY <1>8, <1>17, <1>19, <1>20, <1>21, <1>22, Zenon DEF Continues

LEMMA ReadsOneMore ==
  ASSUME NEW ls, IsSeq(ls), NEW l, NEW k \in 0 .. Len(ls)
  PROVE  Reads(ls \o <<l>>, k) = ReadTrailer(Reads(ls, k), l)
<1>1. PICK x : x = <<l>>
  OBVIOUS
<1>2. x \in Seq({l}) /\ Len(x) = 1 /\ x[1] = l /\ 1 \in 1 .. 1 /\ 1 - 1 = 0
  BY <1>1
<1>3. IsSeq(x)
  BY <1>2 DEF IsSeq
<1>4. PICK read : Continues(read, Reads(ls, k), x) /\ Reads(ls \o x, k) = read[Len(x)]
  BY <1>3, ReadsOn, Zenon
<1>5. read[0] = Reads(ls, k) /\ read[1] = ReadTrailer(read[0], x[1])
  BY <1>2, <1>4 DEF Continues
<1> QED BY <1>1, <1>2, <1>4, <1>5, Zenon

(* A line out of order is never forgiven.                                  *)
LEMMA ReadOK ==
  ASSUME NEW p, DOMAIN p = DOMAIN NoTrailer, NEW l
  PROVE  DOMAIN ReadTrailer(p, l) = DOMAIN NoTrailer /\ (ReadTrailer(p, l).ok => p.ok)
<1>1. DOMAIN p = {"stage", "ok", "exp", "nb", "reqid", "resources"}
      /\ DOMAIN NoTrailer = {"stage", "ok", "exp", "nb", "reqid", "resources"}
  BY Zenon DEF NoTrailer
<1>2. PICK q : q = ReadTrailer(p, l)
  OBVIOUS
<1>3. \/ q = [p EXCEPT !.stage = 1, !.exp = {l.val}]
      \/ q = [p EXCEPT !.stage = 2, !.nb = {l.val}]
      \/ q = [p EXCEPT !.stage = 3, !.reqid = l.val]
      \/ q = [p EXCEPT !.stage = 4]
      \/ q = [p EXCEPT !.resources = Append(@, l.val)]
      \/ q = [p EXCEPT !.ok = FALSE]
  BY <1>2 DEF ReadTrailer
<1>4. DOMAIN q = DOMAIN p
  BY <1>3
<1>5. q.ok => p.ok
  BY <1>1, <1>3
<1> QED BY <1>1, <1>2, <1>4, <1>5, Zenon

(* What has been read is well formed, however long the trailer.            *)
OneStamp(set) == set = {} \/ \E v : set = {v} /\ IsStamp(v) /\ validTimestamp(v)

Partial(p) == /\ DOMAIN p = DOMAIN NoTrailer
              /\ IsSeq(p.resources) /\ OneStamp(p.exp) /\ OneStamp(p.nb)

LEMMA ReadKeeps ==
  ASSUME NEW p, Partial(p), NEW line, Written(line)
  PROVE  Partial(ReadTrailer(p, line))
<1>1. DOMAIN p = {"stage", "ok", "exp", "nb", "reqid", "resources"}
      /\ DOMAIN NoTrailer = {"stage", "ok", "exp", "nb", "reqid", "resources"}
  BY Zenon DEF Partial, NoTrailer
<1>2. PICK q : q = ReadTrailer(p, line)
  OBVIOUS
<1>3. \/ /\ q = [p EXCEPT !.stage = 1, !.exp = {line.val}]
         /\ line.label = "Expiration Time" /\ validTimestamp(line.val)
      \/ /\ q = [p EXCEPT !.stage = 2, !.nb = {line.val}]
         /\ line.label = "Not Before" /\ validTimestamp(line.val)
      \/ q = [p EXCEPT !.stage = 3, !.reqid = line.val]
      \/ q = [p EXCEPT !.stage = 4]
      \/ q = [p EXCEPT !.resources = Append(@, line.val)]
      \/ q = [p EXCEPT !.ok = FALSE]
  BY <1>2 DEF ReadTrailer
<1>4. DOMAIN q = DOMAIN p
  BY <1>3
<1>5. q.resources = p.resources \/ q.resources = Append(p.resources, line.val)
  BY <1>1, <1>3
<1>6. \/ q.exp = p.exp
      \/ q.exp = {line.val} /\ line.label = "Expiration Time" /\ validTimestamp(line.val)
  BY <1>1, <1>3
<1>7. \/ q.nb = p.nb
      \/ q.nb = {line.val} /\ line.label = "Not Before" /\ validTimestamp(line.val)
  BY <1>1, <1>3
<1>8. IsSeq(q.resources)
  <2>1. PICK V : p.resources \in Seq(V)
    BY DEF Partial, IsSeq
  <2>2. PICK U : U = V \union {line.val}
    OBVIOUS
  <2>3. p.resources \in Seq(U) /\ line.val \in U
    BY <2>1, <2>2, SeqMonotonic
  <2>4. Append(p.resources, line.val) \in Seq(U)
    BY <2>3
  <2> QED BY <1>5, <2>3, <2>4 DEF IsSeq
<1>9. OneStamp(q.exp) /\ OneStamp(q.nb)
  <2>1. line.label \in {"Expiration Time", "Not Before"} => IsStamp(line.val)
    BY Zenon DEF Written
  <2>2. /\ line.label = "Expiration Time" => IsStamp(line.val)
        /\ line.label = "Not Before" => IsStamp(line.val)
    BY <2>1, Zenon
  <2>3. OneStamp(p.exp) /\ OneStamp(p.nb)
    BY DEF Partial
  <2> QED BY <1>6, <1>7, <2>2, <2>3, Zenon DEF OneStamp
<1> QED BY <1>1, <1>2, <1>4, <1>8, <1>9, Zenon DEF Partial

LEMMA TrailerOK ==
  ASSUME NEW s, Lined(s)
  PROVE  Partial(FoldLeft(ReadTrailer, NoTrailer, s))
<1>1. PICK S : s \in Seq(S)
  BY DEF Lined, IsSeq
<1>2. PICK read : /\ FoldLeft(ReadTrailer, NoTrailer, s) = read[Len(s)]
                  /\ read[0] = NoTrailer
                  /\ \A i \in 1 .. Len(s) : read[i] = ReadTrailer(read[i - 1], s[i])
  BY <1>1, TrailerRead
<1>3. PICK n : n = Len(s) /\ n \in Nat
  BY <1>1
<1> DEFINE T == {i \in 0 .. n : ~Partial(read[i])}
<1>4. T = {}
  <2> SUFFICES ASSUME T # {} PROVE FALSE
    OBVIOUS
  <2>1. T \in SUBSET Nat
    BY <1>3
  <2>2. PICK k \in T : \A j \in T : k <= j
    BY <2>1, NatHasLeast, Zenon
  <2>3. CASE k = 0
    <3>1. Partial(NoTrailer)
      <4>1. NoTrailer.resources = <<>> /\ NoTrailer.exp = {} /\ NoTrailer.nb = {}
        BY Zenon DEF NoTrailer
      <4>2. <<>> \in Seq({})
        OBVIOUS
      <4> QED BY <4>1, <4>2 DEF Partial, OneStamp, IsSeq
    <3> QED BY <1>2, <2>2, <2>3, <3>1
  <2>4. CASE k # 0
    <3>1. k \in 1 .. n /\ k - 1 \in 0 .. n /\ ~(k <= k - 1)
      BY <1>3, <2>2, <2>4
    <3>2. Partial(read[k - 1])
      BY <2>2, <3>1
    <3>3. Written(s[k])
      BY <1>3, <3>1 DEF Lined
    <3>4. Partial(ReadTrailer(read[k - 1], s[k]))
      BY <3>2, <3>3, ReadKeeps, Zenon
    <3>5. read[k] = ReadTrailer(read[k - 1], s[k])
      BY <1>2, <1>3, <3>1
    <3> QED BY <2>2, <3>4, <3>5, Zenon
  <2> QED BY <2>3, <2>4
<1>5. Partial(read[n])
  BY <1>3, <1>4
<1> QED BY <1>2, <1>3, <1>5

-----------------------------------------------------------------------------
(* The steps of ParseMessage, named.                                       *)
At(ls, i, label) == i <= Len(ls) /\ ls[i].label = label
Stated(ls) == ~At(ls, 4, "") /\ ls[4].label \notin FieldLabels
UriAt(ls) == IF Stated(ls) THEN 6 ELSE 4
NonceAt(ls) == IF At(ls, UriAt(ls) + 2, "Chain ID") THEN UriAt(ls) + 3 ELSE UriAt(ls) + 2
ChainIn(ls) == IF NonceAt(ls) = UriAt(ls) + 3 THEN ls[UriAt(ls) + 2].val ELSE <<>>
TrailerOf(ls) == FoldLeft(ReadTrailer, NoTrailer, SubSeq(ls, NonceAt(ls) + 2, Len(ls)))

HeadRead(ls) == /\ Len(ls) >= 6
                /\ At(ls, 1, "header") /\ ls[1].val # ""
                /\ At(ls, 2, "text") /\ ValidAddress(ls[2].val)
                /\ At(ls, 3, "")
                /\ Stated(ls) => At(ls, 5, "")
FieldsRead(ls, u, n) == /\ At(ls, u, "URI") /\ ls[u].val # ""
                        /\ At(ls, u + 1, "Version") /\ ls[u + 1].val = "1"
                        /\ At(ls, n, "Nonce") /\ ls[n].val.valid
                        /\ At(ls, n + 1, "Issued At") /\ validTimestamp(ls[n + 1].val)
Accepted(t, ls) == /\ Size(t) <= MaxMessageBytes /\ ~t.cr
                   /\ HeadRead(ls) /\ FieldsRead(ls, UriAt(ls), NonceAt(ls))
                   /\ TrailerOf(ls).ok

Message(head, u, n, chain, iat, p) ==
  [domain |-> head[1].val, addr |-> head[2].val,
   statement |-> IF Stated(head) THEN {head[4]} ELSE {},
   uri |-> u, chain |-> IF chain = <<>> THEN <<"mainnet">> ELSE chain,
   nonce |-> n, iat |-> iat, exp |-> p.exp, nb |-> p.nb,
   reqid |-> p.reqid, resources |-> p.resources]
Denoted(ls) == Message(ls, ls[UriAt(ls)].val, ls[NonceAt(ls)].val, ChainIn(ls),
                       ls[NonceAt(ls) + 1].val, TrailerOf(ls))

LEMMA ParseIs ==
  ASSUME NEW t
  PROVE  ParseMessage(t) = IF Accepted(t, TrimRight(t.lines)) THEN {Denoted(TrimRight(t.lines))} ELSE {}
<1> DEFINE lines == TrimRight(t.lines)
           Is(pos, label) == pos <= Len(lines) /\ lines[pos].label = label
           stated == ~Is(4, "") /\ lines[4].label \notin FieldLabels
           uri == IF stated THEN 6 ELSE 4
           nonce == IF Is(uri + 2, "Chain ID") THEN uri + 3 ELSE uri + 2
           chain == IF nonce = uri + 3 THEN lines[uri + 2].val ELSE <<>>
           trailer == FoldLeft(ReadTrailer, NoTrailer, SubSeq(lines, nonce + 2, Len(lines)))
           parsed == [domain |-> lines[1].val, addr |-> lines[2].val,
                      statement |-> IF stated THEN {lines[4]} ELSE {},
                      uri |-> lines[uri].val, chain |-> IF chain = <<>> THEN <<"mainnet">> ELSE chain,
                      nonce |-> lines[nonce].val, iat |-> lines[nonce + 1].val,
                      exp |-> trailer.exp, nb |-> trailer.nb,
                      reqid |-> trailer.reqid, resources |-> trailer.resources]
           accepted == /\ Size(t) <= MaxMessageBytes /\ ~t.cr /\ Len(lines) >= 6
                       /\ Is(1, "header") /\ lines[1].val # ""
                       /\ Is(2, "text") /\ ValidAddress(lines[2].val)
                       /\ Is(3, "")
                       /\ stated => Is(5, "")
                       /\ Is(uri, "URI") /\ lines[uri].val # ""
                       /\ Is(uri + 1, "Version") /\ lines[uri + 1].val = "1"
                       /\ Is(nonce, "Nonce") /\ lines[nonce].val.valid
                       /\ Is(nonce + 1, "Issued At") /\ validTimestamp(lines[nonce + 1].val)
                       /\ trailer.ok
<1>1. ParseMessage(t) = IF accepted THEN {parsed} ELSE {}
  BY Zenon DEF ParseMessage
<1>2. PICK ls : ls = lines
  OBVIOUS
<1> HIDE DEF lines
<1>3. stated = Stated(ls)
  BY <1>2, Zenon DEF Stated, At
<1>4. uri = UriAt(ls)
  <2> HIDE DEF stated
  <2> QED BY <1>3, Zenon DEF UriAt
<1>5. nonce = NonceAt(ls)
  <2> HIDE DEF uri
  <2> QED BY <1>2, <1>4, Zenon DEF NonceAt, At
<1> HIDE DEF stated, uri
<1>6. chain = ChainIn(ls)
  <2> HIDE DEF nonce
  <2> QED BY <1>2, <1>4, <1>5, Zenon DEF ChainIn
<1>7. trailer = TrailerOf(ls)
  <2> HIDE DEF nonce
  <2> QED BY <1>2, <1>5, Zenon DEF TrailerOf
<1> HIDE DEF nonce, chain, trailer
<1>8. parsed = Denoted(ls)
  BY <1>2, <1>3, <1>4, <1>5, <1>6, <1>7, Zenon DEF Denoted, Message
<1>9. accepted <=> Accepted(t, ls)
  BY <1>2, <1>3, <1>4, <1>5, <1>7, Zenon DEF Accepted, HeadRead, FieldsRead, At
<1> HIDE DEF accepted, parsed
<1> QED BY <1>1, <1>2, <1>8, <1>9, Zenon DEF lines

-----------------------------------------------------------------------------
(* What a parsed message holds, whatever was done to its text.             *)
MessageOK(m) ==
  /\ IsSeq(m.addr) /\ m.addr # <<>> /\ IsSeq(m.chain)
  /\ \A l \in m.statement : Written(l)
  /\ IsSeq(m.resources)
  /\ \A v \in Stamps(m) : IsStamp(v)

Legible(t) == DOMAIN t = {"lines", "newlines", "cr"} /\ Lined(t.lines)

(* The text keeps its lines written, whatever happens to it.               *)
SiwsInv == Legible(text)

OneStatement(set) ==
  set = {} \/ \E s : set = {s} /\ s.label # "" /\ s.label \notin FieldLabels

IsMessage(m) ==
  m = [domain |-> m.domain, addr |-> m.addr, statement |-> m.statement,
       uri |-> m.uri, chain |-> m.chain, nonce |-> m.nonce, iat |-> m.iat,
       exp |-> m.exp, nb |-> m.nb, reqid |-> m.reqid, resources |-> m.resources]

(* What the parser demands of every message it returns.                    *)
Parsed(m) ==
  /\ IsMessage(m)
  /\ m.domain # "" /\ ValidAddress(m.addr) /\ OneStatement(m.statement)
  /\ m.uri # "" /\ m.chain # <<>> /\ m.nonce.valid
  /\ validTimestamp(m.iat) /\ OneStamp(m.exp) /\ OneStamp(m.nb)

HasFields(m, head, u, n, chain, iat, p) ==
  /\ m.domain = head[1].val /\ m.addr = head[2].val
  /\ m.statement = (IF Stated(head) THEN {head[4]} ELSE {})
  /\ m.uri = u /\ m.chain = (IF chain = <<>> THEN <<"mainnet">> ELSE chain)
  /\ m.nonce = n /\ m.iat = iat /\ m.exp = p.exp /\ m.nb = p.nb
  /\ m.reqid = p.reqid /\ m.resources = p.resources

LEMMA MessageFields ==
  ASSUME NEW head, NEW u, NEW n, NEW chain, NEW iat, NEW p, NEW m,
         m = Message(head, u, n, chain, iat, p)
  PROVE  IsMessage(m) /\ HasFields(m, head, u, n, chain, iat, p)
<1>1. PICK st, c : st = (IF Stated(head) THEN {head[4]} ELSE {})
                   /\ c = (IF chain = <<>> THEN <<"mainnet">> ELSE chain)
  OBVIOUS
<1>2. m = [domain |-> head[1].val, addr |-> head[2].val, statement |-> st,
           uri |-> u, chain |-> c, nonce |-> n, iat |-> iat, exp |-> p.exp, nb |-> p.nb,
           reqid |-> p.reqid, resources |-> p.resources]
  BY <1>1, Zenon DEF Message
<1>3. /\ m.domain = head[1].val /\ m.addr = head[2].val
      /\ m.statement = st /\ m.uri = u /\ m.chain = c
      /\ m.nonce = n /\ m.iat = iat /\ m.exp = p.exp /\ m.nb = p.nb
      /\ m.reqid = p.reqid /\ m.resources = p.resources
  BY <1>2
<1> QED BY <1>1, <1>2, <1>3, Zenon DEF IsMessage, HasFields

(* Where the fields are.                                                   *)
LEMMA FieldsAt ==
  ASSUME NEW ls, Lined(ls), HeadRead(ls), FieldsRead(ls, UriAt(ls), NonceAt(ls))
  PROVE  /\ UriAt(ls) \in {4, 6} /\ NonceAt(ls) \in {UriAt(ls) + 2, UriAt(ls) + 3}
         /\ Len(ls) \in Nat /\ Len(ls) >= 6 /\ NonceAt(ls) + 1 \in 1 .. Len(ls)
         /\ NonceAt(ls) \in Nat /\ DOMAIN ls = 1 .. Len(ls)
         /\ \A i \in 1 .. Len(ls) : Written(ls[i])
<1>1. PICK S : ls \in Seq(S)
  BY DEF Lined, IsSeq
<1>2. Len(ls) \in Nat /\ DOMAIN ls = 1 .. Len(ls)
  BY <1>1
<1>3. Len(ls) >= 6
  BY Zenon DEF HeadRead
<1>4. UriAt(ls) \in {4, 6}
  BY DEF UriAt
<1>5. NonceAt(ls) \in {UriAt(ls) + 2, UriAt(ls) + 3}
  BY DEF NonceAt
<1>6. NonceAt(ls) + 1 <= Len(ls)
  BY Zenon DEF FieldsRead, At
<1>7. NonceAt(ls) \in Nat /\ NonceAt(ls) + 1 \in 1 .. Len(ls)
  <2>1. PICK u, n : u = UriAt(ls) /\ n = NonceAt(ls)
    OBVIOUS
  <2>2. n \in Nat /\ n + 1 \in 1 .. Len(ls)
    BY <1>2, <1>3, <1>4, <1>5, <1>6, <2>1
  <2> QED BY <2>1, <2>2, Zenon
<1> QED BY <1>2, <1>3, <1>4, <1>5, <1>7 DEF Lined

LEMMA ParsedOK ==
  ASSUME NEW t, Legible(t), NEW m \in ParseMessage(t)
  PROVE  MessageOK(m) /\ Parsed(m)
<1>1. PICK ls : ls = TrimRight(t.lines)
  OBVIOUS
<1>2. Lined(ls)
  BY <1>1, TrimRightLined DEF Legible
<1>3. Accepted(t, ls) /\ m = Denoted(ls)
  <2>1. Accepted(t, ls)
    BY <1>1, ParseIs
  <2> QED BY <1>1, <2>1, ParseIs
<1>4. HeadRead(ls) /\ FieldsRead(ls, UriAt(ls), NonceAt(ls))
  BY <1>3, Zenon DEF Accepted
<1>5. PICK u, n : u = UriAt(ls) /\ n = NonceAt(ls)
  OBVIOUS
<1>6. /\ u \in {4, 6} /\ n \in {u + 2, u + 3} /\ Len(ls) \in Nat /\ Len(ls) >= 6
      /\ n + 1 \in 1 .. Len(ls) /\ n \in Nat
      /\ \A i \in 1 .. Len(ls) : Written(ls[i])
  BY <1>2, <1>4, <1>5, FieldsAt, Zenon
<1>7. PICK c, p : c = ChainIn(ls) /\ p = TrailerOf(ls)
  OBVIOUS
<1>8. m = Message(ls, ls[u].val, ls[n].val, c, ls[n + 1].val, p)
  BY <1>3, <1>5, <1>7, Zenon DEF Denoted
<1>9. PICK x, y, z : x = ls[u].val /\ y = ls[n].val /\ z = ls[n + 1].val
  OBVIOUS
<1>10. m = Message(ls, x, y, c, z, p)
  BY <1>8, <1>9, Zenon
<1>11. /\ m.domain = ls[1].val /\ m.addr = ls[2].val
       /\ m.statement = (IF Stated(ls) THEN {ls[4]} ELSE {})
       /\ m.uri = ls[u].val /\ m.chain = (IF c = <<>> THEN <<"mainnet">> ELSE c)
       /\ m.nonce = ls[n].val /\ m.iat = ls[n + 1].val /\ m.exp = p.exp /\ m.nb = p.nb
       /\ m.resources = p.resources
  <2>1. HasFields(m, ls, x, y, c, z, p)
    BY <1>10, MessageFields, Zenon
  <2> QED BY <1>9, <2>1, Zenon DEF HasFields
<1>12. /\ ls[2].label = "text" /\ ValidAddress(ls[2].val)
       /\ ls[n].val.valid /\ ls[n + 1].label = "Issued At" /\ validTimestamp(ls[n + 1].val)
  BY <1>4, <1>5, Zenon DEF HeadRead, FieldsRead, At
<1>13. IsSeq(m.addr) /\ m.addr # <<>> /\ ValidAddress(m.addr)
  <2>1. Written(ls[2])
    BY <1>6
  <2> QED BY <1>11, <1>12, <2>1, Zenon DEF Written
<1>14. IsSeq(c)
  <2>1. CASE n = u + 3
    <3>1. u + 2 \in 1 .. Len(ls)
      BY <1>6, <2>1
    <3>2. c = ls[u + 2].val
      BY <1>5, <1>7, <2>1, Zenon DEF ChainIn
    <3>3. At(ls, u + 2, "Chain ID")
      <4>1. u + 3 # u + 2
        BY <1>6
      <4> QED BY <1>5, <2>1, <4>1, Zenon DEF NonceAt
    <3> QED BY <1>6, <3>1, <3>2, <3>3, Zenon DEF At, Written
  <2>2. CASE n # u + 3
    <3>1. <<>> \in Seq({})
      OBVIOUS
    <3>2. c = <<>>
      BY <1>5, <1>7, <2>2, Zenon DEF ChainIn
    <3> QED BY <3>1, <3>2 DEF IsSeq
  <2> QED BY <2>1, <2>2
<1>15. IsSeq(m.chain) /\ m.chain # <<>>
  <2>1. PICK w : w = <<"mainnet">>
    OBVIOUS
  <2>2. w \in Seq({"mainnet"}) /\ w # <<>>
    BY <2>1
  <2> QED BY <1>11, <1>14, <2>1, <2>2, Zenon DEF IsSeq
<1>16. Partial(p)
  <2>1. n + 2 \in Nat \ {0} /\ Len(ls) \in 0 .. Len(ls)
    BY <1>6
  <2>2. Lined(SubSeq(ls, n + 2, Len(ls)))
    BY <1>2, <2>1, LinedPart
  <2> QED BY <1>5, <1>7, <2>2, TrailerOK DEF TrailerOf
<1>17. IsSeq(m.resources) /\ OneStamp(m.exp) /\ OneStamp(m.nb)
  BY <1>11, <1>16, Zenon DEF Partial
<1>18. IsStamp(m.iat) /\ validTimestamp(m.iat)
  <2>1. Written(ls[n + 1]) /\ "Issued At" \in {"Issued At", "Expiration Time", "Not Before"}
    BY <1>6
  <2> QED BY <1>11, <1>12, <2>1, Zenon DEF Written
<1>19. \A v \in Stamps(m) : IsStamp(v)
  BY <1>17, <1>18 DEF Stamps, OneStamp
<1>20. (\A l \in m.statement : Written(l)) /\ OneStatement(m.statement)
  <2>1. 4 \in 1 .. Len(ls) /\ 4 <= Len(ls)
    BY <1>6
  <2>2. Written(ls[4])
    BY <1>6, <2>1
  <2>3. Stated(ls) => ls[4].label # "" /\ ls[4].label \notin FieldLabels
    BY <2>1, Zenon DEF Stated, At
  <2>4. m.statement = {} \/ (Stated(ls) /\ m.statement = {ls[4]})
    BY <1>11, Zenon
  <2>5. OneStatement(m.statement)
    BY <2>3, <2>4, Zenon DEF OneStatement
  <2> QED BY <2>2, <2>4, <2>5, Zenon
<1>21. MessageOK(m)
  BY <1>13, <1>15, <1>17, <1>19, <1>20 DEF MessageOK
<1>22. m.domain # "" /\ m.uri # "" /\ m.nonce.valid
  BY <1>4, <1>5, <1>11, Zenon DEF HeadRead, FieldsRead
<1>23. IsMessage(m)
  BY <1>10, MessageFields, Zenon
<1>24. Parsed(m)
  BY <1>13, <1>15, <1>17, <1>18, <1>20, <1>22, <1>23, Zenon DEF Parsed
<1> QED BY <1>21, <1>24

(* Division, with the remainder of Euclid: 0 .. M - 1 for negative numbers *)
(* too.                                                                    *)
LEMMA Small ==
  ASSUME NEW k \in Int, NEW M \in Nat \ {0}, k * M < M, -M < k * M
  PROVE  k = 0
<1>1. CASE k >= 1
  <2>1. k * M >= M
    BY <1>1
  <2> QED BY <2>1
<1>2. CASE k <= -1
  <2>1. k * M <= -M
    BY <1>2
  <2> QED BY <2>1
<1> QED BY <1>1, <1>2

LEMMA DivMod ==
  ASSUME NEW x \in Int, NEW M \in Nat \ {0}
  PROVE  /\ x \div M \in Int /\ x % M \in 0 .. M - 1
         /\ x = M * (x \div M) + (x % M)
  BY Z3

LEMMA DivUnique ==
  ASSUME NEW M \in Nat \ {0}, NEW q \in Int, NEW r \in 0 .. M - 1
  PROVE  (q * M + r) \div M = q /\ (q * M + r) % M = r
<1>1. PICK x \in Int : x = q * M + r
  OBVIOUS
<1>2. PICK p \in Int, s \in 0 .. M - 1 : p = x \div M /\ s = x % M /\ x = M * p + s
  BY DivMod
<1>3. (q - p) * M = s - r
  BY <1>1, <1>2
<1>4. q - p = 0
  BY <1>3, Small
<1> QED BY <1>1, <1>2, <1>3, <1>4

(* A print, piece by piece.                                                *)
Body(m) == <<Line("URI", m.uri), Line("Version", "1"), Line("Chain ID", m.chain),
             Line("Nonce", m.nonce), Line("Issued At", Format(m.iat))>>
Requested(m) == If(m.reqid # "", <<Line("Request ID", m.reqid)>>)
Items(r) == [i \in DOMAIN r |-> Line("item", r[i])]
Listed(m) == If(m.resources # <<>>, <<Line("Resources", "")>> \o Items(m.resources))

ToIat(m) == Headed(m) \o Body(m)
ToExp(m) == ToIat(m) \o Each(m.exp, "Expiration Time")
ToNb(m) == ToExp(m) \o Each(m.nb, "Not Before")
ToReqid(m) == ToNb(m) \o Requested(m)

LEMMA PrintIs ==
  ASSUME NEW m
  PROVE  String(m) = [lines |-> ToReqid(m) \o Listed(m), newlines |-> 1, cr |-> FALSE]
  BY Zenon DEF String, ToReqid, ToNb, ToExp, ToIat, Body, Requested, Listed, Items

(* A print denotes instants, in UTC.                                       *)
LEMMA FormatStamps ==
  ASSUME NEW v, IsStamp(v)
  PROVE  /\ IsStamp(Format(v)) /\ v.t \in Int /\ Format(v).t = v.t - (v.t % Milli)
         /\ Format(v).zone = 0 /\ ~Format(v).garbled
<1>1. v.t \in Int /\ Milli \in Nat \ {0}
  BY ClockAssumption DEF IsStamp
<1>2. v.t % Milli \in Int
  BY <1>1, DivMod
<1>3. PICK x \in Int : x = v.t - (v.t % Milli)
  BY <1>1, <1>2
<1>4. Format(v) = [t |-> x, zone |-> 0, garbled |-> FALSE]
  BY <1>3, Zenon DEF Format, Stamp
<1> QED BY <1>1, <1>3, <1>4 DEF IsStamp

LEMMA UnspeltLabel ==
  ASSUME NEW val, NEW label,
         label \notin {"text", "Chain ID", "Issued At", "Expiration Time", "Not Before"}
  PROVE  Written(Line(label, val))
  BY DEF Written, Line

LEMMA StampLine ==
  ASSUME NEW v, IsStamp(v), NEW label \in {"Issued At", "Expiration Time", "Not Before"}
  PROVE  Written(Line(label, Format(v)))
<1>1. PICK l : l = Line(label, Format(v))
  OBVIOUS
<1>2. l.label = label /\ l.val = Format(v)
  BY <1>1 DEF Line
<1>3. IsStamp(Format(v))
  BY FormatStamps
<1>4. label # "text" /\ label # "Chain ID"
  OBVIOUS
<1> QED BY <1>1, <1>2, <1>3, <1>4, Zenon DEF Written

LEMMA StampPrinted ==
  ASSUME NEW set, \A v \in set : IsStamp(v), NEW label \in {"Expiration Time", "Not Before"}
  PROVE  Lined(Each(set, label))
<1>1. CASE set = {}
  BY <1>1, LinedFew DEF Each, If
<1>2. CASE set # {}
  <2>1. PICK v : v = CHOOSE t \in set : TRUE
    OBVIOUS
  <2>2. v \in set /\ label \in {"Issued At", "Expiration Time", "Not Before"}
    BY <1>2, <2>1
  <2>3. Written(Line(label, Format(v)))
    BY <2>2, StampLine
  <2>4. Lined(<<Line(label, Format(v))>>)
    BY <2>3, LinedFew
  <2> QED BY <1>2, <2>1, <2>4, Zenon DEF Each, If
<1> QED BY <1>1, <1>2

LEMMA ItemsWritten ==
  ASSUME NEW r, IsSeq(r)
  PROVE  /\ Lined(Items(r)) /\ Len(Items(r)) = Len(r) /\ Len(r) \in Nat
         /\ \A i \in 1 .. Len(r) : Items(r)[i] = Line("item", r[i])
<1>1. PICK S : r \in Seq(S)
  BY DEF IsSeq
<1>2. PICK n \in Nat : DOMAIN r = 1 .. n /\ Len(r) = n
  BY <1>1
<1>3. PICK U : U = {Line("item", r[i]) : i \in DOMAIN r}
  OBVIOUS
<1>4. PICK x : x = Items(r)
  OBVIOUS
<1>5. x \in Seq(U) /\ Len(x) = n /\ \A i \in 1 .. n : x[i] = Line("item", r[i])
  BY <1>2, <1>3, <1>4 DEF Items
<1>6. ASSUME NEW i \in 1 .. Len(x) PROVE Written(x[i])
  <2>1. x[i] = Line("item", r[i])
    BY <1>5
  <2> QED BY <2>1, UnspeltLabel
<1>7. Lined(x)
  BY <1>5, <1>6 DEF Lined, IsSeq
<1> QED BY <1>2, <1>4, <1>5, <1>7

(* The print of a message is legible.                                      *)
LEMMA PiecesLined ==
  ASSUME NEW m, MessageOK(m)
  PROVE  /\ Lined(Headed(m)) /\ Lined(Body(m))
         /\ Lined(Each(m.exp, "Expiration Time")) /\ Lined(Each(m.nb, "Not Before"))
         /\ Lined(Requested(m)) /\ Lined(Listed(m))
<1>1. Lined(Headed(m))
  <2>1. Lined(<<Line("header", m.domain), Line("text", m.addr)>>)
    <3>1. Written(Line("header", m.domain)) /\ Written(Line("text", m.addr))
      BY DEF MessageOK, Written, Line
    <3> QED BY <3>1, LinedFew
  <2>2. Written(Blank)
    BY DEF Written, Blank, Line
  <2>3. Lined(If(m.statement # {}, <<Blank, CHOOSE s \in m.statement : TRUE>>))
    <3>1. CASE m.statement = {}
      BY <3>1, LinedFew DEF If
    <3>2. CASE m.statement # {}
      <4>1. PICK s : s = CHOOSE x \in m.statement : TRUE
        OBVIOUS
      <4>2. s \in m.statement
        BY <3>2, <4>1
      <4>3. Written(s)
        BY <4>2 DEF MessageOK
      <4>4. Lined(<<Blank, s>>)
        BY <2>2, <4>3, LinedFew
      <4> QED BY <3>2, <4>1, <4>4 DEF If
    <3> QED BY <3>1, <3>2
  <2>4. Lined(<<Blank>>)
    BY <2>2, LinedFew
  <2> QED BY <2>1, <2>3, <2>4, LinedConcat DEF Headed
<1>2. Lined(Body(m))
  <2>1. PICK f, a, b, c, d, e :
          /\ f = Body(m) /\ a = Line("URI", m.uri) /\ b = Line("Version", "1")
          /\ c = Line("Chain ID", m.chain) /\ d = Line("Nonce", m.nonce)
          /\ e = Line("Issued At", Format(m.iat))
    OBVIOUS
  <2>2. Written(a) /\ Written(b) /\ Written(d)
    BY <2>1, UnspeltLabel
  <2>3. Written(c)
    BY <2>1 DEF Written, Line, MessageOK
  <2>4. Written(e)
    <3>1. IsStamp(m.iat)
      BY DEF MessageOK, Stamps
    <3> QED BY <2>1, <3>1, StampLine
  <2>5. f = <<a, b, c, d, e>>
    BY <2>1, Zenon DEF Body
  <2>6. /\ f \in Seq({a, b, c, d, e}) /\ Len(f) = 5
        /\ f[1] = a /\ f[2] = b /\ f[3] = c /\ f[4] = d /\ f[5] = e
    BY <2>5
  <2>7. ASSUME NEW i \in 1 .. Len(f) PROVE Written(f[i])
    <3>1. i \in {1, 2, 3, 4, 5}
      BY <2>6
    <3> QED BY <2>2, <2>3, <2>4, <2>6, <3>1
  <2>8. Lined(f)
    BY <2>6, <2>7 DEF Lined, IsSeq
  <2> QED BY <2>1, <2>8, Zenon
<1>3. Lined(Each(m.exp, "Expiration Time")) /\ Lined(Each(m.nb, "Not Before"))
  <2>1. (\A v \in m.exp : IsStamp(v)) /\ (\A v \in m.nb : IsStamp(v))
    BY DEF MessageOK, Stamps
  <2> QED BY <2>1, StampPrinted
<1>4. Lined(Requested(m))
  <2>1. Written(Line("Request ID", m.reqid))
    BY UnspeltLabel
  <2>2. Lined(<<Line("Request ID", m.reqid)>>) /\ Lined(<<>>)
    BY <2>1, LinedFew
  <2> QED BY <2>2, Zenon DEF Requested, If
<1>5. Lined(Listed(m))
  <2>1. Lined(Items(m.resources))
    BY ItemsWritten DEF MessageOK
  <2>2. Written(Line("Resources", ""))
    BY UnspeltLabel
  <2>3. Lined(<<Line("Resources", "")>>) /\ Lined(<<>>)
    BY <2>2, LinedFew
  <2>4. Lined(<<Line("Resources", "")>> \o Items(m.resources))
    BY <2>1, <2>3, LinedConcat
  <2> QED BY <2>3, <2>4, Zenon DEF Listed, If
<1> QED BY <1>1, <1>2, <1>3, <1>4, <1>5

LEMMA PrintLined ==
  ASSUME NEW m, MessageOK(m)
  PROVE  /\ Lined(ToIat(m)) /\ Lined(ToExp(m)) /\ Lined(ToNb(m)) /\ Lined(ToReqid(m))
         /\ Lined(ToReqid(m) \o Listed(m))
<1>1. Lined(ToIat(m))
  BY PiecesLined, LinedConcat DEF ToIat
<1>2. Lined(ToExp(m))
  BY <1>1, PiecesLined, LinedConcat DEF ToExp
<1>3. Lined(ToNb(m))
  BY <1>2, PiecesLined, LinedConcat DEF ToNb
<1>4. Lined(ToReqid(m))
  BY <1>3, PiecesLined, LinedConcat DEF ToReqid
<1>5. Lined(ToReqid(m) \o Listed(m))
  BY <1>4, PiecesLined, LinedConcat
<1> QED BY <1>1, <1>2, <1>3, <1>4, <1>5

LEMMA PrintLegible == ASSUME NEW m, MessageOK(m) PROVE Legible(String(m))
<1>1. PICK ls : ls = ToReqid(m) \o Listed(m)
  OBVIOUS
<1>2. String(m) = [lines |-> ls, newlines |-> 1, cr |-> FALSE]
  BY <1>1, PrintIs, Zenon
<1> QED BY <1>1, <1>2, PrintLined DEF Legible

-----------------------------------------------------------------------------
(* A print starts with all that a message must have, and what follows it   *)
(* changes nothing of that.                                                *)
Follows(j, s, t) ==
  /\ IsSeq(j) /\ Len(s) \in Nat /\ Len(t) \in Nat /\ Len(j) = Len(s) + Len(t)
  /\ \A i \in 1 .. Len(s) : j[i] = s[i]
  /\ \A i \in 1 .. Len(t) : j[Len(s) + i] = t[i]

LEMMA Prefixed ==
  ASSUME NEW s, NEW t, IsSeq(s), IsSeq(t)
  PROVE  Follows(s \o t, s, t)
<1>1. PICK S, T : s \in Seq(S) /\ t \in Seq(T)
  BY DEF IsSeq
<1>2. PICK U : U = S \union T
  OBVIOUS
<1>3. s \in Seq(U) /\ t \in Seq(U)
  BY <1>1, <1>2, SeqMonotonic
<1>4. PICK j : j = s \o t
  OBVIOUS
<1>5. /\ j \in Seq(U) /\ Len(j) = Len(s) + Len(t)
      /\ \A i \in 1 .. Len(s) + Len(t) : j[i] = IF i <= Len(s) THEN s[i] ELSE t[i - Len(s)]
  BY <1>3, <1>4, ConcatProperties, Zenon
<1>6. Len(s) \in Nat /\ Len(t) \in Nat
  BY <1>1
<1>7. ASSUME NEW i \in 1 .. Len(s) PROVE j[i] = s[i]
  BY <1>5, <1>6
<1>8. ASSUME NEW i \in 1 .. Len(t) PROVE j[Len(s) + i] = t[i]
  <2>1. PICK k : k = Len(s) + i
    OBVIOUS
  <2>2. k \in 1 .. Len(s) + Len(t) /\ ~(k <= Len(s)) /\ k - Len(s) = i
    BY <1>6, <2>1
  <2> QED BY <1>5, <2>1, <2>2
<1> QED BY <1>4, <1>5, <1>6, <1>7, <1>8, Zenon DEF IsSeq, Follows

HeadLen(m) == IF m.statement = {} THEN 3 ELSE 5

HeadShaped(x, m) ==
  /\ IsSeq(x) /\ Len(x) = HeadLen(m)
  /\ x[1] = Line("header", m.domain) /\ x[2] = Line("text", m.addr) /\ x[3] = Blank
  /\ \A s : m.statement = {s} => x[4] = s /\ x[5] = Blank

LEMMA HeadedShape ==
  ASSUME NEW m, MessageOK(m), OneStatement(m.statement)
  PROVE  HeadShaped(Headed(m), m)
<1>1. PICK x : x = Headed(m)
  OBVIOUS
<1>2. PICK a, b, c : a = Line("header", m.domain) /\ b = Line("text", m.addr) /\ c = Blank
  OBVIOUS
<1>3. CASE m.statement = {}
  <2>1. x = <<a, b>> \o <<>> \o <<c>>
    BY <1>1, <1>2, <1>3, Zenon DEF Headed, If
  <2>2. PICK y, z : y = <<a, b>> /\ z = <<c>>
    OBVIOUS
  <2>3. IsSeq(x) /\ Len(x) = 3 /\ x[1] = a /\ x[2] = b /\ x[3] = c
    <3>1. /\ y \in Seq({a, b}) /\ Len(y) = 2 /\ y[1] = a /\ y[2] = b
          /\ z \in Seq({c}) /\ Len(z) = 1 /\ z[1] = c
      BY <2>2
    <3>2. y \o <<>> = y
      BY <3>1, ConcatEmptySeq, Zenon
    <3>3. Follows(x, y, z)
      BY <2>1, <2>2, <3>1, <3>2, Prefixed, Zenon DEF IsSeq
    <3> QED BY <3>1, <3>3 DEF Follows
  <2>4. \A s : m.statement # {s}
    BY <1>3
  <2> QED BY <1>1, <1>2, <1>3, <2>3, <2>4, Zenon DEF HeadLen, HeadShaped
<1>4. CASE m.statement # {}
  <2>1. PICK s : m.statement = {s}
    BY <1>4, Zenon DEF OneStatement
  <2>2. s = CHOOSE z \in m.statement : TRUE
    BY <2>1
  <2>3. x = <<a, b>> \o <<c, s>> \o <<c>>
    BY <1>1, <1>2, <1>4, <2>2, Zenon DEF Headed, If
  <2>4. PICK y, z, w, u : y = <<a, b>> /\ z = <<c, s>> /\ w = <<c>> /\ u = y \o z
    OBVIOUS
  <2>5. /\ IsSeq(x) /\ Len(x) = 5
        /\ x[1] = a /\ x[2] = b /\ x[3] = c /\ x[4] = s /\ x[5] = c
    <3>1. /\ y \in Seq({a, b}) /\ Len(y) = 2 /\ y[1] = a /\ y[2] = b
          /\ z \in Seq({c, s}) /\ Len(z) = 2 /\ z[1] = c /\ z[2] = s
          /\ w \in Seq({c}) /\ Len(w) = 1 /\ w[1] = c
      BY <2>4
    <3>2. Follows(u, y, z)
      BY <2>4, <3>1, Prefixed, Zenon DEF IsSeq
    <3>3. IsSeq(u) /\ Len(u) = 4 /\ u[1] = a /\ u[2] = b /\ u[3] = c /\ u[4] = s
      BY <3>1, <3>2 DEF Follows
    <3>4. Follows(x, u, w)
      BY <2>3, <2>4, <3>1, <3>3, Prefixed, Zenon DEF IsSeq
    <3> QED BY <3>1, <3>3, <3>4 DEF Follows
  <2>6. \A r : m.statement = {r} => r = s
    BY <2>1
  <2> QED BY <1>1, <1>2, <1>4, <2>5, <2>6, Zenon DEF HeadLen, HeadShaped
<1> QED BY <1>3, <1>4

BodyShaped(x, m) ==
  /\ IsSeq(x) /\ Len(x) = 5
  /\ x[1] = Line("URI", m.uri) /\ x[2] = Line("Version", "1")
  /\ x[3] = Line("Chain ID", m.chain) /\ x[4] = Line("Nonce", m.nonce)
  /\ x[5] = Line("Issued At", Format(m.iat))

LEMMA BodyShape ==
  ASSUME NEW m
  PROVE  BodyShaped(Body(m), m)
<1>1. PICK x : x = Body(m)
  OBVIOUS
<1>2. PICK a, b, c, d, e :
        /\ a = Line("URI", m.uri) /\ b = Line("Version", "1") /\ c = Line("Chain ID", m.chain)
        /\ d = Line("Nonce", m.nonce) /\ e = Line("Issued At", Format(m.iat))
  OBVIOUS
<1>3. x = <<a, b, c, d, e>>
  BY <1>1, <1>2, Zenon DEF Body
<1>4. /\ x \in Seq({a, b, c, d, e}) /\ Len(x) = 5
      /\ x[1] = a /\ x[2] = b /\ x[3] = c /\ x[4] = d /\ x[5] = e
  BY <1>3
<1> QED BY <1>1, <1>2, <1>4, Zenon DEF IsSeq, BodyShaped

(* The lines a print of m starts with, h of them before the URI's.         *)
Begins(ls, m, h) ==
  /\ Len(ls) \in Nat /\ Len(ls) >= h + 5 /\ h = HeadLen(m)
  /\ ls[1] = Line("header", m.domain) /\ ls[2] = Line("text", m.addr) /\ ls[3] = Blank
  /\ \A s : m.statement = {s} => ls[4] = s /\ ls[5] = Blank
  /\ ls[h + 1] = Line("URI", m.uri) /\ ls[h + 2] = Line("Version", "1")
  /\ ls[h + 3] = Line("Chain ID", m.chain) /\ ls[h + 4] = Line("Nonce", m.nonce)
  /\ ls[h + 5] = Line("Issued At", Format(m.iat))

LEMMA IatBegins ==
  ASSUME NEW m, MessageOK(m), OneStatement(m.statement), NEW h, h = HeadLen(m)
  PROVE  Begins(ToIat(m), m, h) /\ IsSeq(ToIat(m)) /\ Len(ToIat(m)) = h + 5 /\ h \in {3, 5}
<1>1. PICK x, y, z : x = Headed(m) /\ y = Body(m) /\ z = x \o y
  OBVIOUS
<1>2. /\ IsSeq(x) /\ Len(x) = h
      /\ x[1] = Line("header", m.domain) /\ x[2] = Line("text", m.addr) /\ x[3] = Blank
      /\ \A s : m.statement = {s} => x[4] = s /\ x[5] = Blank
  BY <1>1, HeadedShape, Zenon DEF HeadShaped
<1>3. /\ IsSeq(y) /\ Len(y) = 5
      /\ y[1] = Line("URI", m.uri) /\ y[2] = Line("Version", "1")
      /\ y[3] = Line("Chain ID", m.chain) /\ y[4] = Line("Nonce", m.nonce)
      /\ y[5] = Line("Issued At", Format(m.iat))
  BY <1>1, BodyShape, Zenon DEF BodyShaped
<1>4. /\ IsSeq(z) /\ Len(z) = h + 5
      /\ \A i \in 1 .. h : z[i] = x[i]
      /\ \A i \in 1 .. 5 : z[h + i] = y[i]
  <2>1. Follows(z, x, y)
    BY <1>1, <1>2, <1>3, Prefixed, Zenon
  <2> QED BY <1>2, <1>3, <2>1 DEF Follows
<1>5. h \in {3, 5} /\ (h = 3 <=> m.statement = {})
  BY DEF HeadLen
<1>6. z[1] = x[1] /\ z[2] = x[2] /\ z[3] = x[3]
  BY <1>4, <1>5
<1>7. ASSUME NEW s, m.statement = {s} PROVE z[4] = s /\ z[5] = Blank
  <2>1. h = 5
    BY <1>5, <1>7
  <2>2. z[4] = x[4] /\ z[5] = x[5]
    BY <1>4, <2>1
  <2> QED BY <1>2, <1>7, <2>2, Zenon
<1>8. z[h + 1] = y[1] /\ z[h + 2] = y[2] /\ z[h + 3] = y[3] /\ z[h + 4] = y[4] /\ z[h + 5] = y[5]
  <2>1. 1 \in 1 .. 5 /\ 2 \in 1 .. 5 /\ 3 \in 1 .. 5 /\ 4 \in 1 .. 5 /\ 5 \in 1 .. 5
    OBVIOUS
  <2> QED BY <1>4, <2>1, Zenon
<1>9. Len(z) \in Nat /\ Len(z) >= h + 5
  BY <1>4, <1>5
<1>10. Begins(z, m, h)
  BY <1>2, <1>3, <1>6, <1>7, <1>8, <1>9, Zenon DEF Begins
<1> QED BY <1>1, <1>4, <1>5, <1>10, Zenon DEF ToIat

LEMMA BeginsMore ==
  ASSUME NEW ls, NEW x, NEW m, NEW h, Begins(ls, m, h), IsSeq(ls), IsSeq(x)
  PROVE  Begins(ls \o x, m, h)
<1>1. PICK z : z = ls \o x
  OBVIOUS
<1>2. h \in {3, 5} /\ (h = 3 <=> m.statement = {}) /\ Len(ls) \in Nat /\ Len(ls) >= h + 5
  <2>1. h = HeadLen(m) /\ Len(ls) \in Nat /\ Len(ls) >= h + 5
    BY Zenon DEF Begins
  <2> QED BY <2>1 DEF HeadLen
<1>3. Len(z) = Len(ls) + Len(x) /\ Len(x) \in Nat /\ \A i \in 1 .. Len(ls) : z[i] = ls[i]
  BY <1>1, Prefixed, Zenon DEF Follows
<1>4. /\ Len(z) \in Nat /\ Len(z) >= h + 5 /\ \A i \in 1 .. 5 : z[i] = ls[i]
      /\ z[h + 1] = ls[h + 1] /\ z[h + 2] = ls[h + 2] /\ z[h + 3] = ls[h + 3]
      /\ z[h + 4] = ls[h + 4] /\ z[h + 5] = ls[h + 5]
  <2>1. PICK n, k : n = Len(ls) /\ k = Len(z)
    OBVIOUS
  <2>2. h \in {3, 5} /\ n \in Nat /\ n >= h + 5 /\ k \in Nat /\ k >= n
    BY <1>2, <1>3, <2>1
  <2>3. \A i \in 1 .. n : z[i] = ls[i]
    BY <1>3, <2>1, Zenon
  <2>4. k >= h + 5 /\ \A i \in 1 .. 5 : i \in 1 .. n
    BY <2>2
  <2>5. /\ h + 1 \in 1 .. n /\ h + 2 \in 1 .. n /\ h + 3 \in 1 .. n
        /\ h + 4 \in 1 .. n /\ h + 5 \in 1 .. n
    BY <2>2
  <2> QED BY <2>1, <2>2, <2>3, <2>4, <2>5, Zenon
<1>5. z[1] = ls[1] /\ z[2] = ls[2] /\ z[3] = ls[3] /\ z[4] = ls[4] /\ z[5] = ls[5]
  BY <1>4
<1> QED BY <1>1, <1>4, <1>5, Zenon DEF Begins

(* What the parser makes of such a start.                                  *)
LEMMA BeginsRead ==
  ASSUME NEW ls, NEW m, NEW h, MessageOK(m), Parsed(m), Begins(ls, m, h)
  PROVE  /\ UriAt(ls) = h + 1 /\ NonceAt(ls) = h + 4 /\ ChainIn(ls) = m.chain
         /\ HeadRead(ls)
         /\ FieldsRead(ls, UriAt(ls), NonceAt(ls)) <=> validTimestamp(Format(m.iat))
         /\ TrailerOf(ls) = Reads(ls, h + 5)
         /\ Denoted(ls) = [domain |-> m.domain, addr |-> m.addr, statement |-> m.statement,
                           uri |-> m.uri, chain |-> m.chain, nonce |-> m.nonce,
                           iat |-> Format(m.iat), exp |-> TrailerOf(ls).exp, nb |-> TrailerOf(ls).nb,
                           reqid |-> TrailerOf(ls).reqid, resources |-> TrailerOf(ls).resources]
<1>1. /\ h \in {3, 5} /\ (h = 3 <=> m.statement = {}) /\ h = HeadLen(m)
      /\ Len(ls) \in Nat /\ Len(ls) >= h + 5
  <2>1. h = HeadLen(m) /\ Len(ls) \in Nat /\ Len(ls) >= h + 5
    BY Zenon DEF Begins
  <2> QED BY <2>1 DEF HeadLen
<1>2. /\ ls[1].label = "header" /\ ls[1].val = m.domain
      /\ ls[2].label = "text" /\ ls[2].val = m.addr
      /\ ls[h + 1].label = "URI" /\ ls[h + 1].val = m.uri
      /\ ls[h + 2].label = "Version" /\ ls[h + 2].val = "1"
      /\ ls[h + 3].label = "Chain ID" /\ ls[h + 3].val = m.chain
      /\ ls[h + 4].label = "Nonce" /\ ls[h + 4].val = m.nonce
      /\ ls[h + 5].label = "Issued At" /\ ls[h + 5].val = Format(m.iat)
  <2>1. \A label, val : Line(label, val).label = label /\ Line(label, val).val = val
    BY DEF Line
  <2>2. /\ ls[1].label = "header" /\ ls[1].val = m.domain
        /\ ls[2].label = "text" /\ ls[2].val = m.addr
        /\ ls[h + 1].label = "URI" /\ ls[h + 1].val = m.uri
    <3>1. /\ ls[1] = Line("header", m.domain) /\ ls[2] = Line("text", m.addr)
          /\ ls[h + 1] = Line("URI", m.uri)
      BY Zenon DEF Begins
    <3> QED BY <2>1, <3>1
  <2>3. /\ ls[h + 2].label = "Version" /\ ls[h + 2].val = "1"
        /\ ls[h + 3].label = "Chain ID" /\ ls[h + 3].val = m.chain
        /\ ls[h + 4].label = "Nonce" /\ ls[h + 4].val = m.nonce
        /\ ls[h + 5].label = "Issued At" /\ ls[h + 5].val = Format(m.iat)
    <3>1. /\ ls[h + 2] = Line("Version", "1") /\ ls[h + 3] = Line("Chain ID", m.chain)
          /\ ls[h + 4] = Line("Nonce", m.nonce) /\ ls[h + 5] = Line("Issued At", Format(m.iat))
      BY Zenon DEF Begins
    <3>2. PICK a, b, c, d : a = ls[h + 2] /\ b = ls[h + 3] /\ c = ls[h + 4] /\ d = ls[h + 5]
      OBVIOUS
    <3>3. /\ a = Line("Version", "1") /\ b = Line("Chain ID", m.chain)
          /\ c = Line("Nonce", m.nonce) /\ d = Line("Issued At", Format(m.iat))
      BY <3>1, <3>2, Zenon
    <3>4. /\ a.label = "Version" /\ a.val = "1" /\ b.label = "Chain ID" /\ b.val = m.chain
          /\ c.label = "Nonce" /\ c.val = m.nonce
          /\ d.label = "Issued At" /\ d.val = Format(m.iat)
      BY <2>1, <3>3
    <3> QED BY <3>2, <3>4, Zenon
  <2> QED BY <2>2, <2>3
<1>3. ls[3].label = "" /\ \A s : m.statement = {s} => ls[4] = s /\ ls[5].label = ""
  <2>1. Blank.label = ""
    BY Zenon DEF Blank, Line
  <2> QED BY <2>1, Zenon DEF Begins
<1>4. 4 <= Len(ls) /\ 5 <= Len(ls) /\ 6 <= Len(ls) /\ 1 <= Len(ls) /\ 2 <= Len(ls) /\ 3 <= Len(ls)
      /\ Len(ls) >= 6
  BY <1>1
<1>5. Stated(ls) <=> m.statement # {}
  <2>1. CASE m.statement = {}
    <3>1. ls[4].label = "URI"
      <4>1. h + 1 = 4
        BY <1>1, <2>1
      <4> QED BY <1>2, <4>1, Zenon
    <3> QED BY <2>1, <3>1 DEF Stated, FieldLabels
  <2>2. CASE m.statement # {}
    <3>1. PICK s : m.statement = {s} /\ s.label # "" /\ s.label \notin FieldLabels
      BY <2>2, Zenon DEF Parsed, OneStatement
    <3> QED BY <1>3, <2>2, <3>1, Zenon DEF Stated, At
  <2> QED BY <2>1, <2>2
<1>6. UriAt(ls) = h + 1
  <2>1. h = (IF m.statement = {} THEN 3 ELSE 5)
    BY <1>1, Zenon DEF HeadLen
  <2> QED BY <1>5, <2>1 DEF UriAt
<1>7. h + 1 + 2 = h + 3 /\ h + 1 + 3 = h + 4 /\ h + 3 <= Len(ls) /\ h + 1 + 1 = h + 2 /\ h + 4 + 1 = h + 5
      /\ h + 1 <= Len(ls) /\ h + 2 <= Len(ls) /\ h + 4 <= Len(ls) /\ h + 5 <= Len(ls) /\ h + 4 + 2 = h + 5 + 1
  BY <1>1
<1>8. NonceAt(ls) = h + 4
  BY <1>2, <1>6, <1>7, Zenon DEF NonceAt, At
<1>9. ChainIn(ls) = m.chain
  BY <1>2, <1>6, <1>7, <1>8, Zenon DEF ChainIn
<1>10. HeadRead(ls)
  <2>1. Stated(ls) => ls[5].label = ""
    <3>1. m.statement # {} => ls[5].label = ""
      BY <1>3, Zenon DEF Parsed, OneStatement
    <3> QED BY <1>5, <3>1, Zenon
  <2>2. m.domain # "" /\ ValidAddress(m.addr)
    BY Zenon DEF Parsed
  <2> QED BY <1>2, <1>3, <1>4, <2>1, <2>2, Zenon DEF HeadRead, At
<1>11. FieldsRead(ls, UriAt(ls), NonceAt(ls)) <=> validTimestamp(Format(m.iat))
  <2>1. m.uri # "" /\ m.nonce.valid
    BY Zenon DEF Parsed
  <2> QED BY <1>2, <1>6, <1>7, <1>8, <2>1, ZenonT(40) DEF FieldsRead, At
<1>12. TrailerOf(ls) = Reads(ls, h + 5)
  BY <1>7, <1>8, Zenon DEF TrailerOf, Reads
<1>13. PICK p : p = TrailerOf(ls)
  OBVIOUS
<1>14. m.statement = (IF Stated(ls) THEN {ls[4]} ELSE {})
  <2>1. CASE m.statement = {}
    BY <1>5, <2>1, Zenon
  <2>2. CASE m.statement # {}
    <3>1. PICK s : m.statement = {s}
      BY <2>2, Zenon DEF Parsed, OneStatement
    <3>2. ls[4] = s
      BY <1>3, <3>1, Zenon
    <3> QED BY <1>5, <2>2, <3>1, <3>2, Zenon
  <2> QED BY <2>1, <2>2
<1>15. m.chain = IF m.chain = <<>> THEN <<"mainnet">> ELSE m.chain
  BY Zenon DEF Parsed
<1>16. Denoted(ls) = Message(ls, m.uri, m.nonce, m.chain, Format(m.iat), p)
  BY <1>2, <1>6, <1>7, <1>8, <1>9, <1>13, Zenon DEF Denoted
<1>17. Message(ls, m.uri, m.nonce, m.chain, Format(m.iat), p) =
         [domain |-> m.domain, addr |-> m.addr, statement |-> m.statement,
          uri |-> m.uri, chain |-> m.chain, nonce |-> m.nonce,
          iat |-> Format(m.iat), exp |-> p.exp, nb |-> p.nb,
          reqid |-> p.reqid, resources |-> p.resources]
  BY <1>2, <1>14, <1>15, Zenon DEF Message
<1> QED BY <1>6, <1>8, <1>9, <1>10, <1>11, <1>12, <1>13, <1>16, <1>17, Zenon

-----------------------------------------------------------------------------
(* A print has no blank line at its end.                                   *)
Ended(ls) == Len(ls) \in Nat \ {0} /\ ls[Len(ls)].label # ""

LEMMA EndedMore ==
  ASSUME NEW ls, NEW x, IsSeq(ls), IsSeq(x), Ended(ls), x = <<>> \/ Ended(x)
  PROVE  Ended(ls \o x)
<1>1. CASE x = <<>>
  <2>1. ls \o x = ls
    BY <1>1, ConcatEmptySeq DEF IsSeq
  <2> QED BY <2>1, Zenon
<1>2. CASE Ended(x)
  <2>1. PICK z : z = ls \o x
    OBVIOUS
  <2>2. Follows(z, ls, x)
    BY <2>1, Prefixed, Zenon
  <2>3. Len(x) \in Nat \ {0} /\ Len(ls) \in Nat /\ Len(z) = Len(ls) + Len(x)
    BY <1>2, <2>2, Zenon DEF Ended, Follows
  <2>4. Len(x) \in 1 .. Len(x) /\ Len(z) \in Nat \ {0}
    BY <2>3
  <2>5. z[Len(z)] = x[Len(x)]
    BY <2>2, <2>3, <2>4, Zenon DEF Follows
  <2> QED BY <1>2, <2>1, <2>4, <2>5, Zenon DEF Ended
<1> QED BY <1>1, <1>2

LEMMA TrimRightEnded ==
  ASSUME NEW ls, Lined(ls), Ended(ls)
  PROVE  TrimRight(ls) = ls
<1>1. PICK n : n = Len(ls)
  OBVIOUS
<1>2. PICK S : ls \in Seq(S)
  BY DEF Lined, IsSeq
<1>3. n \in Nat \ {0} /\ ls[n].label # ""
  BY <1>1, Zenon DEF Ended
<1> DEFINE I == {i \in 1 .. Len(ls) : ls[i] # Blank}
<1>4. TrimRight(ls) = SubSeq(ls, 1, IF I # {} THEN Max(I) ELSE 0)
  BY DEF TrimRight, SelectLastInSeq
<1>5. ls[n] # Blank
  <2>1. Blank.label = ""
    BY Zenon DEF Blank, Line
  <2> QED BY <1>3, <2>1, Zenon
<1>6. n \in I /\ I \in SUBSET (1 .. n)
  <2>1. n \in Nat \ {0}
    BY <1>3, Zenon
  <2> QED BY <1>1, <1>5, <2>1
<1> HIDE DEF I
<1>7. Max(I) = n
  <2>1. n \in Nat
    BY <1>3, Zenon
  <2> QED BY <1>6, <2>1, GreatestIsMax
<1>8. SubSeq(ls, 1, n) = ls
  BY <1>1, <1>2, SubSeqFull
<1>9. I # {}
  BY <1>6
<1> QED BY <1>4, <1>7, <1>8, <1>9, Zenon

LEMMA PrintEnded ==
  ASSUME NEW m, MessageOK(m), OneStatement(m.statement)
  PROVE  Ended(ToReqid(m) \o Listed(m))
<1>1. \A label, val : Line(label, val).label = label
  BY DEF Line
<1>2. \A label, val : label # "" => Ended(<<Line(label, val)>>)
  <2>1. \A l : Len(<<l>>) = 1 /\ <<l>>[1] = l
    OBVIOUS
  <2>2. 1 \in Nat \ {0}
    OBVIOUS
  <2> QED BY <1>1, <2>1, <2>2, Zenon DEF Ended
<1>3. \A label, set : label # "" => (Each(set, label) = <<>> \/ Ended(Each(set, label)))
  BY <1>2, Zenon DEF Each, If
<1>4. "Expiration Time" # "" /\ "Not Before" # "" /\ "Request ID" # "" /\ "Resources" # ""
      /\ "item" # "" /\ "Issued At" # ""
  BY Zenon
<1>5. Ended(ToIat(m))
  <2>1. PICK h, x : h = HeadLen(m) /\ x = ToIat(m)
    OBVIOUS
  <2>2. Begins(x, m, h) /\ Len(x) = h + 5 /\ h \in {3, 5}
    BY <2>1, IatBegins, Zenon
  <2>3. Len(x) \in Nat \ {0}
    BY <2>2
  <2>4. x[Len(x)] = Line("Issued At", Format(m.iat))
    BY <2>2, Zenon DEF Begins
  <2>5. x[Len(x)].label = "Issued At"
    BY <1>1, <2>4, Zenon
  <2> QED BY <1>4, <2>1, <2>3, <2>5, Zenon DEF Ended
<1>6. \A ls : Lined(ls) => IsSeq(ls)
  BY DEF Lined
<1>7. Ended(ToExp(m))
  <2>1. IsSeq(ToIat(m)) /\ IsSeq(Each(m.exp, "Expiration Time"))
    BY <1>6, PiecesLined, PrintLined, Zenon
  <2> QED BY <1>3, <1>4, <1>5, <2>1, EndedMore, Zenon DEF ToExp
<1>8. Ended(ToNb(m))
  <2>1. IsSeq(ToExp(m)) /\ IsSeq(Each(m.nb, "Not Before"))
    BY <1>6, PiecesLined, PrintLined, Zenon
  <2> QED BY <1>3, <1>4, <1>7, <2>1, EndedMore, Zenon DEF ToNb
<1>9. Ended(ToReqid(m))
  <2>1. IsSeq(ToNb(m)) /\ IsSeq(Requested(m))
    BY <1>6, PiecesLined, PrintLined, Zenon
  <2>2. Requested(m) = <<>> \/ Ended(Requested(m))
    BY <1>2, <1>4, Zenon DEF Requested, If
  <2> QED BY <1>8, <2>1, <2>2, EndedMore, Zenon DEF ToReqid
<1>10. Listed(m) = <<>> \/ Ended(Listed(m))
  <2>1. CASE m.resources # <<>>
    <3>1. PICK r, x, y : r = m.resources /\ x = Items(r) /\ y = <<Line("Resources", "")>>
      OBVIOUS
    <3>2. /\ Lined(x) /\ Len(x) = Len(r) /\ Len(r) \in Nat
          /\ \A i \in 1 .. Len(r) : x[i] = Line("item", r[i])
      BY <3>1, ItemsWritten, Zenon DEF MessageOK
    <3>3. PICK S : r \in Seq(S)
      BY <3>1 DEF MessageOK, IsSeq
    <3>4. Len(r) # 0
      <4>1. r # <<>>
        BY <2>1, <3>1, Zenon
      <4> QED BY <3>3, <4>1
    <3>5. Len(x) \in Nat \ {0} /\ Len(x) \in 1 .. Len(r)
      BY <3>2, <3>4
    <3>6. x[Len(x)] = Line("item", r[Len(x)])
      BY <3>2, <3>5, Zenon
    <3>7. x[Len(x)].label = "item"
      BY <1>1, <3>6, Zenon
    <3>8. Ended(x)
      BY <1>4, <3>5, <3>7, Zenon DEF Ended
    <3>9. Ended(y)
      BY <1>2, <1>4, <3>1, Zenon
    <3>10. IsSeq(y)
      <4>1. Written(Line("Resources", ""))
        BY UnspeltLabel
      <4> QED BY <3>1, <4>1, LinedFew, Zenon DEF Lined
    <3>11. Ended(y \o x)
      BY <3>2, <3>8, <3>9, <3>10, EndedMore, Zenon DEF Lined
    <3> QED BY <2>1, <3>1, <3>11, Zenon DEF Listed, If
  <2>2. CASE m.resources = <<>>
    BY <2>2, Zenon DEF Listed, If
  <2> QED BY <2>1, <2>2
<1>11. IsSeq(ToReqid(m)) /\ IsSeq(Listed(m))
  BY <1>6, PiecesLined, PrintLined, Zenon
<1> QED BY <1>9, <1>10, <1>11, EndedMore, Zenon

(* One line of the trailer at a time: p has read exp, nb, reqid and        *)
(* resources and is at most at stage k.                                    *)
Has(p, exp, nb, reqid, resources, k) ==
  /\ DOMAIN p = DOMAIN NoTrailer /\ p.ok /\ p.stage \in 0 .. k
  /\ p.exp = exp /\ p.nb = nb /\ p.reqid = reqid /\ p.resources = resources

LEMMA TrailerFields ==
  DOMAIN NoTrailer = {"stage", "ok", "exp", "nb", "reqid", "resources"}
  BY Zenon DEF NoTrailer

LEMMA ReadExp ==
  ASSUME NEW p, NEW e, NEW n, NEW q, NEW r, Has(p, e, n, q, r, 0), NEW v, validTimestamp(v)
  PROVE  Has(ReadTrailer(p, Line("Expiration Time", v)), {v}, n, q, r, 1)
<1>1. ReadTrailer(p, Line("Expiration Time", v)) = [p EXCEPT !.stage = 1, !.exp = {v}]
  BY DEF ReadTrailer, Line, Later, Has
<1>2. PICK x, y : x = [p EXCEPT !.stage = 1] /\ y = [x EXCEPT !.exp = {v}]
  OBVIOUS
<1>3. DOMAIN p = {"stage", "ok", "exp", "nb", "reqid", "resources"}
  BY TrailerFields, Zenon DEF Has
<1>4. /\ DOMAIN x = DOMAIN p /\ x.stage = 1 /\ x.ok = p.ok /\ x.exp = p.exp /\ x.nb = p.nb
      /\ x.reqid = p.reqid /\ x.resources = p.resources
  BY <1>2, <1>3
<1>5. Has(y, {v}, n, q, r, 1)
  BY <1>2, <1>3, <1>4, TrailerFields DEF Has
<1> QED BY <1>1, <1>2, <1>5, Zenon

LEMMA ReadNb ==
  ASSUME NEW p, NEW e, NEW n, NEW q, NEW r, Has(p, e, n, q, r, 1), NEW v, validTimestamp(v)
  PROVE  Has(ReadTrailer(p, Line("Not Before", v)), e, {v}, q, r, 2)
<1>1. ReadTrailer(p, Line("Not Before", v)) = [p EXCEPT !.stage = 2, !.nb = {v}]
  BY DEF ReadTrailer, Line, Later, Has
<1>2. PICK x, y : x = [p EXCEPT !.stage = 2] /\ y = [x EXCEPT !.nb = {v}]
  OBVIOUS
<1>3. DOMAIN p = {"stage", "ok", "exp", "nb", "reqid", "resources"}
  BY TrailerFields, Zenon DEF Has
<1>4. /\ DOMAIN x = DOMAIN p /\ x.stage = 2 /\ x.ok = p.ok /\ x.exp = p.exp /\ x.nb = p.nb
      /\ x.reqid = p.reqid /\ x.resources = p.resources
  BY <1>2, <1>3
<1>5. Has(y, e, {v}, q, r, 2)
  BY <1>2, <1>3, <1>4, TrailerFields DEF Has
<1> QED BY <1>1, <1>2, <1>5, Zenon

LEMMA ReadReqid ==
  ASSUME NEW p, NEW e, NEW n, NEW q, NEW r, Has(p, e, n, q, r, 2), NEW v
  PROVE  Has(ReadTrailer(p, Line("Request ID", v)), e, n, v, r, 3)
<1>1. ReadTrailer(p, Line("Request ID", v)) = [p EXCEPT !.stage = 3, !.reqid = v]
  BY DEF ReadTrailer, Line, Later, Has
<1>2. PICK x, y : x = [p EXCEPT !.stage = 3] /\ y = [x EXCEPT !.reqid = v]
  OBVIOUS
<1>3. DOMAIN p = {"stage", "ok", "exp", "nb", "reqid", "resources"}
  BY TrailerFields, Zenon DEF Has
<1>4. /\ DOMAIN x = DOMAIN p /\ x.stage = 3 /\ x.ok = p.ok /\ x.exp = p.exp /\ x.nb = p.nb
      /\ x.reqid = p.reqid /\ x.resources = p.resources
  BY <1>2, <1>3
<1>5. Has(y, e, n, v, r, 3)
  BY <1>2, <1>3, <1>4, TrailerFields DEF Has
<1> QED BY <1>1, <1>2, <1>5, Zenon

LEMMA ReadResources ==
  ASSUME NEW p, NEW e, NEW n, NEW q, NEW r, Has(p, e, n, q, r, 3), NEW v
  PROVE  /\ Has(ReadTrailer(p, Line("Resources", v)), e, n, q, r, 4)
         /\ ReadTrailer(p, Line("Resources", v)).stage = 4
<1>1. ReadTrailer(p, Line("Resources", v)) = [p EXCEPT !.stage = 4]
  BY DEF ReadTrailer, Line, Later, Has
<1> QED BY <1>1, TrailerFields DEF Has

LEMMA ReadItem ==
  ASSUME NEW p, NEW e, NEW n, NEW q, NEW r, Has(p, e, n, q, r, 4), p.stage = 4, NEW v
  PROVE  /\ Has(ReadTrailer(p, Line("item", v)), e, n, q, Append(r, v), 4)
         /\ ReadTrailer(p, Line("item", v)).stage = 4
<1>1. ReadTrailer(p, Line("item", v)) = [p EXCEPT !.resources = Append(@, v)]
  BY DEF ReadTrailer, Line
<1> QED BY <1>1, TrailerFields DEF Has

LEMMA ReadBadStamp ==
  ASSUME NEW p, DOMAIN p = DOMAIN NoTrailer, NEW v, ~validTimestamp(v),
         NEW label \in {"Expiration Time", "Not Before"}
  PROVE  ~ReadTrailer(p, Line(label, v)).ok
<1>1. ReadTrailer(p, Line(label, v)) = [p EXCEPT !.ok = FALSE]
  BY DEF ReadTrailer, Line
<1> QED BY <1>1, TrailerFields

LEMMA ReadsPartial ==
  ASSUME NEW ls, Lined(ls), NEW k \in 0 .. Len(ls)
  PROVE  Partial(Reads(ls, k))
<1>1. Len(ls) \in Nat
  BY DEF Lined, IsSeq
<1>2. k + 1 \in Nat \ {0} /\ Len(ls) \in 0 .. Len(ls)
  BY <1>1
<1>3. Lined(SubSeq(ls, k + 1, Len(ls)))
  BY <1>2, LinedPart
<1> QED BY <1>3, TrailerOK, Zenon DEF Reads

LEMMA Stuck ==
  ASSUME NEW ls, Lined(ls), NEW x, Lined(x), NEW k \in 0 .. Len(ls), ~Reads(ls, k).ok
  PROVE  ~Reads(ls \o x, k).ok
<1>1. PICK read : Continues(read, Reads(ls, k), x) /\ Reads(ls \o x, k) = read[Len(x)]
  BY ReadsOn, Zenon DEF Lined
<1>2. PICK n : n = Len(x) /\ n \in Nat
  BY DEF Lined, IsSeq
<1> DEFINE Bad(p) == DOMAIN p = DOMAIN NoTrailer /\ ~p.ok
           T == {i \in 0 .. n : ~Bad(read[i])}
<1>3. Bad(read[0])
  <2>1. Partial(Reads(ls, k))
    BY ReadsPartial
  <2> QED BY <1>1, <2>1, Zenon DEF Continues, Partial
<1>4. ASSUME NEW i \in 1 .. n, Bad(read[i - 1]) PROVE Bad(read[i])
  <2>1. read[i] = ReadTrailer(read[i - 1], x[i])
    BY <1>1, <1>2 DEF Continues
  <2> QED BY <1>4, <2>1, ReadOK, Zenon
<1> HIDE DEF Bad
<1>5. T = {}
  <2> SUFFICES ASSUME T # {} PROVE FALSE
    OBVIOUS
  <2>1. T \in SUBSET Nat
    BY <1>2
  <2>2. PICK i \in T : \A j \in T : i <= j
    BY <2>1, NatHasLeast, Zenon
  <2>3. i # 0
    BY <1>3, <2>2
  <2>4. i \in 1 .. n /\ i - 1 \in 0 .. n /\ ~(i <= i - 1)
    BY <1>2, <2>2, <2>3
  <2>5. Bad(read[i - 1])
    BY <2>2, <2>4
  <2> QED BY <1>4, <2>2, <2>4, <2>5
<1>6. Bad(read[n])
  <2>1. n \in 0 .. n
    BY <1>2
  <2> QED BY <1>5, <2>1
<1> QED BY <1>1, <1>2, <1>6, Zenon DEF Bad

LEMMA Ranks == {0, 1, 2, 3, 4} \subseteq Nat /\ 0 <= 1 /\ 1 <= 2 /\ 2 <= 3 /\ 3 <= 4
  OBVIOUS

LEMMA HasLater ==
  ASSUME NEW p, NEW e, NEW n, NEW q, NEW r, NEW k \in Nat, NEW l \in Nat, k <= l, Has(p, e, n, q, r, k)
  PROVE  Has(p, e, n, q, r, l)
<1>1. p.stage \in 0 .. k
  BY Zenon DEF Has
<1>2. p.stage \in 0 .. l
  BY <1>1
<1> QED BY <1>2, Zenon DEF Has

LEMMA EachOne ==
  ASSUME NEW set, NEW v, set = {v}, NEW label
  PROVE  Each(set, label) = <<Line(label, Format(v))>>
<1>1. (CHOOSE t \in set : TRUE) = v
  OBVIOUS
<1>2. set # {}
  OBVIOUS
<1> QED BY <1>1, <1>2, Zenon DEF Each, If

LEMMA EachNone ==
  ASSUME NEW ls, IsSeq(ls), NEW label
  PROVE  ls \o Each({}, label) = ls
<1>1. Each({}, label) = <<>>
  BY Zenon DEF Each, If
<1> QED BY <1>1, ConcatEmptySeq DEF IsSeq

AllValid(set) == \A v \in set : validTimestamp(Format(v))
InUTC(set) == {Format(v) : v \in set}

LEMMA ReadsExp ==
  ASSUME NEW ls, Lined(ls), NEW k \in 0 .. Len(ls), NEW set, OneStamp(set),
         NEW n, NEW q, NEW r, Has(Reads(ls, k), {}, n, q, r, 0), NEW got,
         got = Reads(ls \o Each(set, "Expiration Time"), k)
  PROVE  IF AllValid(set) THEN Has(got, InUTC(set), n, q, r, 1) ELSE ~got.ok
<1>1. CASE set = {}
  <2>1. got = Reads(ls, k)
    BY <1>1, EachNone, Zenon DEF Lined
  <2>2. AllValid(set) /\ InUTC(set) = {}
    BY <1>1 DEF AllValid, InUTC
  <2>3. Has(got, {}, n, q, r, 1)
    BY <2>1, HasLater, Ranks, Zenon
  <2> QED BY <2>2, <2>3, Zenon
<1>2. CASE set # {}
  <2>1. PICK v : set = {v}
    BY <1>2 DEF OneStamp
  <2>2. got = ReadTrailer(Reads(ls, k), Line("Expiration Time", Format(v)))
    <3>1. IsSeq(ls)
      BY DEF Lined
    <3>2. PICK l : l = Line("Expiration Time", Format(v))
      OBVIOUS
    <3>3. Each(set, "Expiration Time") = <<l>>
      BY <2>1, <3>2, EachOne, Zenon
    <3>4. Reads(ls \o <<l>>, k) = ReadTrailer(Reads(ls, k), l)
      BY <3>1, ReadsOneMore, Zenon
    <3> QED BY <3>2, <3>3, <3>4, Zenon
  <2>3. AllValid(set) <=> validTimestamp(Format(v))
    BY <2>1 DEF AllValid
  <2>4. InUTC(set) = {Format(v)}
    BY <2>1 DEF InUTC
  <2>5. validTimestamp(Format(v)) => Has(got, {Format(v)}, n, q, r, 1)
    BY <2>2, ReadExp, Zenon
  <2>6. ~validTimestamp(Format(v)) => ~got.ok
    <3>1. "Expiration Time" \in {"Expiration Time", "Not Before"}
      OBVIOUS
    <3> QED BY <2>2, <3>1, ReadBadStamp, Zenon DEF Has
  <2> QED BY <2>3, <2>4, <2>5, <2>6, Zenon
<1> QED BY <1>1, <1>2

LEMMA ReadsNb ==
  ASSUME NEW ls, Lined(ls), NEW k \in 0 .. Len(ls), NEW set, OneStamp(set),
         NEW e, NEW q, NEW r, Has(Reads(ls, k), e, {}, q, r, 1), NEW got,
         got = Reads(ls \o Each(set, "Not Before"), k)
  PROVE  IF AllValid(set) THEN Has(got, e, InUTC(set), q, r, 2) ELSE ~got.ok
<1>1. CASE set = {}
  <2>1. got = Reads(ls, k)
    BY <1>1, EachNone, Zenon DEF Lined
  <2>2. AllValid(set) /\ InUTC(set) = {}
    BY <1>1 DEF AllValid, InUTC
  <2>3. Has(got, e, {}, q, r, 2)
    BY <2>1, HasLater, Ranks, Zenon
  <2> QED BY <2>2, <2>3, Zenon
<1>2. CASE set # {}
  <2>1. PICK v : set = {v}
    BY <1>2 DEF OneStamp
  <2>2. got = ReadTrailer(Reads(ls, k), Line("Not Before", Format(v)))
    <3>1. IsSeq(ls)
      BY DEF Lined
    <3>2. PICK l : l = Line("Not Before", Format(v))
      OBVIOUS
    <3>3. Each(set, "Not Before") = <<l>>
      BY <2>1, <3>2, EachOne, Zenon
    <3>4. Reads(ls \o <<l>>, k) = ReadTrailer(Reads(ls, k), l)
      BY <3>1, ReadsOneMore, Zenon
    <3> QED BY <3>2, <3>3, <3>4, Zenon
  <2>3. AllValid(set) <=> validTimestamp(Format(v))
    BY <2>1 DEF AllValid
  <2>4. InUTC(set) = {Format(v)}
    BY <2>1 DEF InUTC
  <2>5. validTimestamp(Format(v)) => Has(got, e, {Format(v)}, q, r, 2)
    BY <2>2, ReadNb, Zenon
  <2>6. ~validTimestamp(Format(v)) => ~got.ok
    <3>1. "Not Before" \in {"Expiration Time", "Not Before"}
      OBVIOUS
    <3> QED BY <2>2, <3>1, ReadBadStamp, Zenon DEF Has
  <2> QED BY <2>3, <2>4, <2>5, <2>6, Zenon
<1> QED BY <1>1, <1>2

LEMMA ReadsItems ==
  ASSUME NEW ls, IsSeq(ls), NEW k \in 0 .. Len(ls), NEW r, IsSeq(r), NEW e, NEW n, NEW q,
         Has(Reads(ls, k), e, n, q, <<>>, 4), Reads(ls, k).stage = 4
  PROVE  Has(Reads(ls \o Items(r), k), e, n, q, r, 4)
<1>1. PICK x : x = Items(r)
  OBVIOUS
<1>2. /\ Lined(x) /\ Len(x) = Len(r) /\ Len(r) \in Nat
      /\ \A i \in 1 .. Len(r) : x[i] = Line("item", r[i])
  BY <1>1, ItemsWritten, Zenon
<1>3. PICK read : Continues(read, Reads(ls, k), x) /\ Reads(ls \o x, k) = read[Len(x)]
  BY <1>2, ReadsOn, ZenonT(40) DEF Lined
<1>4. PICK S : r \in Seq(S)
  BY DEF IsSeq
<1> DEFINE Done(i) == Has(read[i], e, n, q, SubSeq(r, 1, i), 4) /\ read[i].stage = 4
           T == {i \in 0 .. Len(r) : ~Done(i)}
<1>5. Done(0)
  <2>1. SubSeq(r, 1, 0) = <<>>
    BY SubSeqEmpty
  <2> QED BY <1>3, <2>1, Zenon DEF Continues
<1>6. ASSUME NEW i \in 1 .. Len(r), Done(i - 1) PROVE Done(i)
  <2>1. read[i] = ReadTrailer(read[i - 1], Line("item", r[i]))
    BY <1>2, <1>3, Zenon DEF Continues
  <2>2. Append(SubSeq(r, 1, i - 1), r[i]) = SubSeq(r, 1, i)
    <3>1. 1 \in 1 .. Len(r) /\ i \in 1 .. Len(r)
      BY <1>2
    <3>2. SubSeq(r, 1, i) = SubSeq(r, 1, i - 1) \o <<r[i]>>
      BY <1>4, <3>1, SubSeqRecursiveSecond
    <3>3. SubSeq(r, 1, i - 1) \in Seq(S) /\ r[i] \in S
      BY <1>2, <1>4
    <3> QED BY <3>2, <3>3, AppendIsConcat
  <2>3. PICK p, w : p = read[i - 1] /\ w = SubSeq(r, 1, i - 1)
    OBVIOUS
  <2>4. Has(p, e, n, q, w, 4) /\ p.stage = 4
    BY <1>6, <2>3, Zenon
  <2>5. Has(ReadTrailer(p, Line("item", r[i])), e, n, q, Append(w, r[i]), 4)
    BY <2>4, ReadItem, Zenon
  <2>6. ReadTrailer(p, Line("item", r[i])).stage = 4
    BY <2>4, ReadItem, Zenon
  <2> QED BY <2>1, <2>2, <2>3, <2>5, <2>6, Zenon
<1> HIDE DEF Done
<1>7. T = {}
  <2> SUFFICES ASSUME T # {} PROVE FALSE
    OBVIOUS
  <2>1. T \in SUBSET Nat
    BY <1>2
  <2>2. PICK i \in T : \A j \in T : i <= j
    BY <2>1, NatHasLeast, Zenon
  <2>3. i # 0
    BY <1>5, <2>2
  <2>4. i \in 1 .. Len(r) /\ i - 1 \in 0 .. Len(r) /\ ~(i <= i - 1)
    BY <1>2, <2>2, <2>3
  <2>5. Done(i - 1)
    BY <2>2, <2>4
  <2> QED BY <1>6, <2>2, <2>4, <2>5
<1>8. Done(Len(r))
  <2>1. Len(r) \in 0 .. Len(r)
    BY <1>2
  <2> QED BY <1>7, <2>1
<1>9. SubSeq(r, 1, Len(r)) = r
  BY <1>4, SubSeqFull
<1> QED BY <1>1, <1>2, <1>3, <1>8, <1>9, Zenon DEF Done

(* The trailer of a print holds what the message holds.                    *)
LEMMA PrintTrailer ==
  ASSUME NEW m, MessageOK(m), Parsed(m), NEW k, k = HeadLen(m) + 5,
         NEW p, p = Reads(ToReqid(m) \o Listed(m), k)
  PROVE  IF AllValid(m.exp) /\ AllValid(m.nb)
         THEN Has(p, InUTC(m.exp), InUTC(m.nb), m.reqid, m.resources, 4)
         ELSE ~p.ok
<1>1. PICK a, b, c, d, e :
        a = ToIat(m) /\ b = ToExp(m) /\ c = ToNb(m) /\ d = ToReqid(m) /\ e = d \o Listed(m)
  OBVIOUS
<1>2. Lined(a) /\ Lined(b) /\ Lined(c) /\ Lined(d) /\ Lined(e)
  BY <1>1, PrintLined, Zenon
<1>3. IsSeq(a) /\ IsSeq(b) /\ IsSeq(c) /\ IsSeq(d) /\ IsSeq(e)
  BY <1>2, Zenon DEF Lined
<1>4. PICK u, v, w, x : /\ u = Each(m.exp, "Expiration Time") /\ v = Each(m.nb, "Not Before")
                        /\ w = Requested(m) /\ x = Listed(m)
  OBVIOUS
<1>5. Lined(u) /\ Lined(v) /\ Lined(w) /\ Lined(x)
  BY <1>4, PiecesLined, Zenon
<1>6. IsSeq(u) /\ IsSeq(v) /\ IsSeq(w) /\ IsSeq(x)
  BY <1>5, Zenon DEF Lined
<1>7. b = a \o u /\ c = b \o v /\ d = c \o w /\ e = d \o x
  BY <1>1, <1>4, Zenon DEF ToExp, ToNb, ToReqid
<1>8. Follows(b, a, u) /\ Follows(c, b, v) /\ Follows(d, c, w)
  BY <1>3, <1>6, <1>7, Prefixed, Zenon
<1>9. Len(a) = k
  <2>1. OneStatement(m.statement)
    BY Zenon DEF Parsed
  <2> QED BY <1>1, <2>1, IatBegins, Zenon
<1>10. k \in 0 .. Len(a) /\ k \in 0 .. Len(b) /\ k \in 0 .. Len(c) /\ k \in 0 .. Len(d)
  <2>1. /\ Len(a) \in Nat /\ Len(u) \in Nat /\ Len(v) \in Nat /\ Len(w) \in Nat
        /\ Len(b) = Len(a) + Len(u) /\ Len(c) = Len(b) + Len(v) /\ Len(d) = Len(c) + Len(w)
    BY <1>8, Zenon DEF Follows
  <2> QED BY <1>9, <2>1
<1>11. PICK none : none = NoTrailer.reqid
  OBVIOUS
<1>12. Has(Reads(a, k), {}, {}, none, <<>>, 0)
  <2>1. Reads(a, k) = NoTrailer
    BY <1>3, <1>9, ReadsNone, Zenon
  <2>2. 0 \in 0 .. 0
    OBVIOUS
  <2>3. /\ NoTrailer.ok /\ NoTrailer.stage = 0 /\ NoTrailer.exp = {} /\ NoTrailer.nb = {}
        /\ NoTrailer.resources = <<>>
    BY Zenon DEF NoTrailer
  <2> QED BY <1>11, <2>1, <2>2, <2>3, Zenon DEF Has
<1>13. OneStamp(m.exp) /\ OneStamp(m.nb)
  BY Zenon DEF Parsed
<1>14. IF AllValid(m.exp) THEN Has(Reads(b, k), InUTC(m.exp), {}, none, <<>>, 1)
       ELSE ~Reads(b, k).ok
  <2>1. Reads(b, k) = Reads(a \o Each(m.exp, "Expiration Time"), k)
    BY <1>4, <1>7, Zenon
  <2> QED BY <1>2, <1>10, <1>12, <1>13, <2>1, ReadsExp, Zenon
<1>15. AllValid(m.exp) => IF AllValid(m.nb)
                          THEN Has(Reads(c, k), InUTC(m.exp), InUTC(m.nb), none, <<>>, 2)
                          ELSE ~Reads(c, k).ok
  <2>1. Reads(c, k) = Reads(b \o Each(m.nb, "Not Before"), k)
    BY <1>4, <1>7, Zenon
  <2> QED BY <1>2, <1>10, <1>13, <1>14, <2>1, ReadsNb, Zenon
<1>16. ~Reads(b, k).ok => ~Reads(c, k).ok
  BY <1>2, <1>5, <1>7, <1>10, Stuck, Zenon
<1>17. ~Reads(c, k).ok => ~Reads(d, k).ok
  BY <1>2, <1>5, <1>7, <1>10, Stuck, Zenon
<1>18. ~Reads(d, k).ok => ~Reads(e, k).ok
  BY <1>2, <1>5, <1>7, <1>10, Stuck, Zenon
<1>19. ASSUME NEW f, NEW n, Has(Reads(c, k), f, n, none, <<>>, 2)
       PROVE  Has(Reads(d, k), f, n, m.reqid, <<>>, 3)
  <2>1. CASE m.reqid = ""
    <3>1. w = <<>>
      BY <1>4, <2>1, Zenon DEF Requested, If
    <3>2. d = c
      BY <1>3, <1>7, <3>1, ConcatEmptySeq, Zenon DEF IsSeq
    <3>3. none = m.reqid
      BY <1>11, <2>1, Zenon DEF NoTrailer
    <3> QED BY <1>19, <3>2, <3>3, HasLater, Ranks, Zenon
  <2>2. CASE m.reqid # ""
    <3>1. PICK l : l = Line("Request ID", m.reqid)
      OBVIOUS
    <3>2. w = <<l>>
      BY <1>4, <2>2, <3>1, Zenon DEF Requested, If
    <3>3. Reads(d, k) = ReadTrailer(Reads(c, k), l)
      BY <1>3, <1>7, <1>10, <3>2, ReadsOneMore, Zenon
    <3> QED BY <1>19, <3>1, <3>3, ReadReqid, Zenon
  <2> QED BY <2>1, <2>2
<1>20. ASSUME NEW f, NEW n, NEW q, Has(Reads(d, k), f, n, q, <<>>, 3)
       PROVE  Has(Reads(e, k), f, n, q, m.resources, 4)
  <2>1. CASE m.resources = <<>>
    <3>1. x = <<>>
      BY <1>4, <2>1, Zenon DEF Listed, If
    <3>2. e = d
      BY <1>3, <1>7, <3>1, ConcatEmptySeq, Zenon DEF IsSeq
    <3> QED BY <1>20, <2>1, <3>2, HasLater, Ranks, Zenon
  <2>2. CASE m.resources # <<>>
    <3>1. PICK l, y, z, j : /\ l = Line("Resources", "") /\ y = <<l>> /\ z = Items(m.resources)
                            /\ j = d \o y
      OBVIOUS
    <3>2. x = y \o z
      BY <1>4, <2>2, <3>1, Zenon DEF Listed, If
    <3>3. IsSeq(m.resources)
      BY Zenon DEF MessageOK
    <3>4. IsSeq(z)
      BY <3>1, <3>3, ItemsWritten, Zenon DEF Lined
    <3>5. e = j \o z /\ IsSeq(j) /\ k \in 0 .. Len(j)
      <4>1. PICK D, Z : d \in Seq(D) /\ z \in Seq(Z)
        BY <1>3, <3>4 DEF IsSeq
      <4>2. PICK U : U = D \union Z \union {l}
        OBVIOUS
      <4>3. l \in U /\ y = <<l>>
        BY <3>1, <4>2, Zenon
      <4>4. d \in Seq(U) /\ z \in Seq(U) /\ y \in Seq(U)
        BY <4>1, <4>2, <4>3, SeqMonotonic
      <4>5. (d \o y) \o z = d \o (y \o z)
        BY <4>4, ConcatAssociative, SMTT(30)
      <4>6. IsSeq(y)
        BY <4>4 DEF IsSeq
      <4>7. Follows(j, d, y)
        BY <1>3, <3>1, <4>6, Prefixed, Zenon
      <4>8. IsSeq(j) /\ Len(j) = Len(d) + Len(y) /\ Len(d) \in Nat /\ Len(y) \in Nat
        BY <4>7, Zenon DEF Follows
      <4>9. k \in 0 .. Len(j)
        BY <1>10, <4>8
      <4> QED BY <1>7, <3>1, <3>2, <4>5, <4>8, <4>9, Zenon
    <3>6. Reads(j, k) = ReadTrailer(Reads(d, k), l)
      BY <1>3, <1>10, <3>1, ReadsOneMore, Zenon
    <3>7. Has(Reads(j, k), f, n, q, <<>>, 4) /\ Reads(j, k).stage = 4
      BY <1>20, <3>1, <3>6, ReadResources, ZenonT(40)
    <3> QED BY <3>1, <3>3, <3>5, <3>7, ReadsItems, Zenon
  <2> QED BY <2>1, <2>2
<1>21. p = Reads(e, k)
  BY <1>1, Zenon
<1>22. CASE AllValid(m.exp) /\ AllValid(m.nb)
  <2>1. Has(Reads(c, k), InUTC(m.exp), InUTC(m.nb), none, <<>>, 2)
    BY <1>15, <1>22, Zenon
  <2> QED BY <1>19, <1>20, <1>21, <1>22, <2>1, Zenon
<1>23. CASE ~(AllValid(m.exp) /\ AllValid(m.nb))
  <2>1. ~Reads(c, k).ok
    BY <1>14, <1>15, <1>16, <1>23, Zenon
  <2> QED BY <1>17, <1>18, <1>21, <1>23, <2>1, Zenon
<1> QED BY <1>22, <1>23

(* Bringing an instant to UTC milliseconds twice is doing it once.         *)
LEMMA FormatTwice ==
  ASSUME NEW v, IsStamp(v)
  PROVE  Format(Format(v)) = Format(v)
<1>1. PICK M : M = Milli
  OBVIOUS
<1>2. M \in Nat \ {0} /\ v.t \in Int
  BY <1>1, ClockAssumption DEF IsStamp
<1>3. PICK q \in Int, r \in 0 .. M - 1 : q = v.t \div M /\ r = v.t % M /\ v.t = M * q + r
  BY <1>2, DivMod
<1>4. PICK x \in Int : x = v.t - (v.t % M)
  BY <1>2, <1>3
<1>5. x = q * M + 0 /\ 0 \in 0 .. M - 1
  BY <1>2, <1>3, <1>4
<1>6. x % M = 0
  BY <1>2, <1>5, DivUnique
<1>7. x - (x % M) = x
  BY <1>6
<1>8. Format(v).t = x
  BY <1>1, <1>4, FormatStamps
<1> QED BY <1>1, <1>4, <1>7, <1>8, Zenon DEF Format

Again(m) == [m EXCEPT !.iat = Format(@), !.exp = {Format(v) : v \in @},
                      !.nb = {Format(v) : v \in @}]

LEMMA AgainIs ==
  ASSUME NEW m, IsMessage(m)
  PROVE  Again(m) = [domain |-> m.domain, addr |-> m.addr, statement |-> m.statement,
                     uri |-> m.uri, chain |-> m.chain, nonce |-> m.nonce,
                     iat |-> Format(m.iat), exp |-> InUTC(m.exp), nb |-> InUTC(m.nb),
                     reqid |-> m.reqid, resources |-> m.resources]
<1>1. PICK i, e, n : i = Format(m.iat) /\ e = InUTC(m.exp) /\ n = InUTC(m.nb)
  OBVIOUS
<1>2. Again(m) = [m EXCEPT !.iat = i, !.exp = e, !.nb = n]
  BY <1>1, Zenon DEF Again, InUTC
<1>3. PICK d, a, s, u, c, w, t, x, y, q, r :
        /\ d = m.domain /\ a = m.addr /\ s = m.statement /\ u = m.uri /\ c = m.chain
        /\ w = m.nonce /\ t = m.iat /\ x = m.exp /\ y = m.nb /\ q = m.reqid /\ r = m.resources
  OBVIOUS
<1>4. m = [domain |-> d, addr |-> a, statement |-> s, uri |-> u, chain |-> c, nonce |-> w,
           iat |-> t, exp |-> x, nb |-> y, reqid |-> q, resources |-> r]
  BY <1>3, Zenon DEF IsMessage
<1>5. PICK m1 : m1 = [m EXCEPT !.iat = i]
  OBVIOUS
<1>6. m1 = [domain |-> d, addr |-> a, statement |-> s, uri |-> u, chain |-> c, nonce |-> w,
            iat |-> i, exp |-> x, nb |-> y, reqid |-> q, resources |-> r]
  BY <1>4, <1>5
<1>7. PICK m2 : m2 = [m1 EXCEPT !.exp = e]
  OBVIOUS
<1>8. m2 = [domain |-> d, addr |-> a, statement |-> s, uri |-> u, chain |-> c, nonce |-> w,
            iat |-> i, exp |-> e, nb |-> y, reqid |-> q, resources |-> r]
  BY <1>6, <1>7
<1>9. [m2 EXCEPT !.nb = n] =
        [domain |-> d, addr |-> a, statement |-> s, uri |-> u, chain |-> c, nonce |-> w,
         iat |-> i, exp |-> e, nb |-> n, reqid |-> q, resources |-> r]
  BY <1>8
<1> QED BY <1>1, <1>2, <1>3, <1>5, <1>7, <1>9, Zenon

-----------------------------------------------------------------------------
(* A print of a parsed message parses to the message, unless it outgrew    *)
(* the cap or a timestamp left the four-digit years.                       *)
LEMMA PrintParses ==
  ASSUME NEW m, MessageOK(m), Parsed(m)
  PROVE  ParseMessage(String(m)) = IF Prints(m) THEN {Again(m)} ELSE {}
<1>1. PICK t, ls, h : t = String(m) /\ ls = ToReqid(m) \o Listed(m) /\ h = HeadLen(m)
  OBVIOUS
<1>2. t = [lines |-> ls, newlines |-> 1, cr |-> FALSE]
  BY <1>1, PrintIs, Zenon
<1>3. t.lines = ls /\ ~t.cr
  BY <1>2
<1>4. OneStatement(m.statement)
  BY Zenon DEF Parsed
<1>5. Lined(ls) /\ Ended(ls)
  BY <1>1, <1>4, PrintLined, PrintEnded, Zenon
<1>6. TrimRight(ls) = ls
  BY <1>5, TrimRightEnded, Zenon
<1>7. Begins(ls, m, h)
  <2>1. Begins(ToIat(m), m, h)
    BY <1>1, <1>4, IatBegins, Zenon
  <2>2. /\ IsSeq(ToIat(m)) /\ IsSeq(ToExp(m)) /\ IsSeq(ToNb(m)) /\ IsSeq(ToReqid(m))
        /\ IsSeq(Each(m.exp, "Expiration Time")) /\ IsSeq(Each(m.nb, "Not Before"))
        /\ IsSeq(Requested(m)) /\ IsSeq(Listed(m))
    BY PrintLined, PiecesLined, Zenon DEF Lined
  <2>3. Begins(ToExp(m), m, h)
    BY <2>1, <2>2, BeginsMore, Zenon DEF ToExp
  <2>4. Begins(ToNb(m), m, h)
    BY <2>2, <2>3, BeginsMore, Zenon DEF ToNb
  <2>5. Begins(ToReqid(m), m, h)
    BY <2>2, <2>4, BeginsMore, Zenon DEF ToReqid
  <2> QED BY <1>1, <2>2, <2>5, BeginsMore, Zenon
<1>8. PICK p : p = TrailerOf(ls)
  OBVIOUS
<1>9. /\ HeadRead(ls)
      /\ FieldsRead(ls, UriAt(ls), NonceAt(ls)) <=> validTimestamp(Format(m.iat))
      /\ p = Reads(ls, h + 5)
  BY <1>7, <1>8, BeginsRead, Zenon
<1>10. Denoted(ls) = [domain |-> m.domain, addr |-> m.addr, statement |-> m.statement,
                      uri |-> m.uri, chain |-> m.chain, nonce |-> m.nonce,
                      iat |-> Format(m.iat), exp |-> p.exp, nb |-> p.nb,
                      reqid |-> p.reqid, resources |-> p.resources]
  BY <1>7, <1>8, BeginsRead, Zenon
<1>11. IF AllValid(m.exp) /\ AllValid(m.nb)
       THEN Has(p, InUTC(m.exp), InUTC(m.nb), m.reqid, m.resources, 4)
       ELSE ~p.ok
  BY <1>1, <1>9, PrintTrailer, Zenon
<1>12. p.ok <=> AllValid(m.exp) /\ AllValid(m.nb)
  BY <1>11, Zenon DEF Has
<1>13. Prints(m) <=> /\ Size(t) <= MaxMessageBytes /\ validTimestamp(Format(m.iat))
                     /\ AllValid(m.exp) /\ AllValid(m.nb)
  <2>1. (\A v \in Stamps(m) : validTimestamp(Format(v))) <=>
          validTimestamp(Format(m.iat)) /\ AllValid(m.exp) /\ AllValid(m.nb)
    BY Zenon DEF Stamps, AllValid
  <2> QED BY <1>1, <2>1, Zenon DEF Prints
<1>14. Accepted(t, ls) <=> Prints(m)
  BY <1>3, <1>8, <1>9, <1>12, <1>13, Zenon DEF Accepted
<1>15. ASSUME Prints(m) PROVE Denoted(ls) = Again(m)
  <2>1. Has(p, InUTC(m.exp), InUTC(m.nb), m.reqid, m.resources, 4)
    BY <1>11, <1>13, <1>15, Zenon
  <2>2. /\ p.exp = InUTC(m.exp) /\ p.nb = InUTC(m.nb) /\ p.reqid = m.reqid
        /\ p.resources = m.resources
    BY <2>1, Zenon DEF Has
  <2>3. IsMessage(m)
    BY Zenon DEF Parsed
  <2> QED BY <1>10, <2>2, <2>3, AgainIs, Zenon
<1>16. ParseMessage(t) = IF Accepted(t, ls) THEN {Denoted(ls)} ELSE {}
  BY <1>3, <1>6, ParseIs, Zenon
<1> QED BY <1>1, <1>14, <1>15, <1>16, Zenon

LEMMA AgainFields ==
  ASSUME NEW m, IsMessage(m)
  PROVE  /\ Again(m).domain = m.domain /\ Again(m).addr = m.addr
         /\ Again(m).statement = m.statement /\ Again(m).uri = m.uri
         /\ Again(m).chain = m.chain /\ Again(m).nonce = m.nonce
         /\ Again(m).iat = Format(m.iat)
         /\ Again(m).exp = InUTC(m.exp) /\ Again(m).nb = InUTC(m.nb)
         /\ Again(m).reqid = m.reqid /\ Again(m).resources = m.resources
<1>1. PICK i, e, n : i = Format(m.iat) /\ e = InUTC(m.exp) /\ n = InUTC(m.nb)
  OBVIOUS
<1>2. Again(m) = [domain |-> m.domain, addr |-> m.addr, statement |-> m.statement,
                  uri |-> m.uri, chain |-> m.chain, nonce |-> m.nonce, iat |-> i, exp |-> e,
                  nb |-> n, reqid |-> m.reqid, resources |-> m.resources]
  BY <1>1, AgainIs, Zenon
<1> QED BY <1>1, <1>2

LEMMA PrintsSame ==
  ASSUME NEW m, MessageOK(m), Parsed(m)
  PROVE  String(Again(m)) = String(m)
<1>1. PICK n : n = Again(m)
  OBVIOUS
<1>2. /\ n.domain = m.domain /\ n.addr = m.addr /\ n.statement = m.statement
      /\ n.uri = m.uri /\ n.chain = m.chain /\ n.nonce = m.nonce /\ n.iat = Format(m.iat)
      /\ n.exp = InUTC(m.exp) /\ n.nb = InUTC(m.nb)
      /\ n.reqid = m.reqid /\ n.resources = m.resources
  <2>1. IsMessage(m)
    BY Zenon DEF Parsed
  <2> QED BY <1>1, <2>1, AgainFields, Zenon
<1>3. Headed(n) = Headed(m) /\ Requested(n) = Requested(m) /\ Listed(n) = Listed(m)
  BY <1>2, Zenon DEF Headed, Requested, Listed
<1>4. Body(n) = Body(m)
  <2>1. IsStamp(m.iat)
    BY DEF MessageOK, Stamps
  <2>2. Format(n.iat) = Format(m.iat)
    BY <1>2, <2>1, FormatTwice, Zenon
  <2> QED BY <1>2, <2>2, Zenon DEF Body
<1>5. ASSUME NEW set, OneStamp(set), NEW label
      PROVE  Each(InUTC(set), label) = Each(set, label)
  <2>1. CASE set = {}
    <3>1. InUTC(set) = set
      BY <2>1 DEF InUTC
    <3> QED BY <3>1, Zenon
  <2>2. CASE set # {}
    <3>1. PICK v : set = {v} /\ IsStamp(v)
      BY <1>5, <2>2, Zenon DEF OneStamp
    <3>2. InUTC(set) = {Format(v)}
      BY <3>1 DEF InUTC
    <3>3. Each(set, label) = <<Line(label, Format(v))>>
      BY <3>1, EachOne, Zenon
    <3>4. Each(InUTC(set), label) = <<Line(label, Format(Format(v)))>>
      BY <3>2, EachOne, Zenon
    <3> QED BY <3>1, <3>3, <3>4, FormatTwice, Zenon
  <2> QED BY <2>1, <2>2
<1>6. /\ Each(n.exp, "Expiration Time") = Each(m.exp, "Expiration Time")
      /\ Each(n.nb, "Not Before") = Each(m.nb, "Not Before")
  BY <1>2, <1>5, Zenon DEF Parsed
<1>7. ToReqid(n) \o Listed(n) = ToReqid(m) \o Listed(m)
  BY <1>3, <1>4, <1>6, Zenon DEF ToReqid, ToNb, ToExp, ToIat
<1> QED BY <1>1, <1>7, PrintIs, Zenon

LEMMA ParsedRoundTrips == SiwsInv => RoundTrips
<1> SUFFICES ASSUME SiwsInv, NEW m \in ParseMessage(text)
             PROVE  /\ Prints(m) => ParseMessage(String(m)) = {Again(m)}
                    /\ String(Again(m)) = String(m)
  BY Zenon DEF RoundTrips, Again
<1>1. MessageOK(m) /\ Parsed(m)
  BY ParsedOK DEF SiwsInv
<1> QED BY <1>1, PrintParses, PrintsSame, Zenon

-----------------------------------------------------------------------------
(* Outside the millisecond a bound falls into, losing its fraction does    *)
(* not move it to the other side of the clock.                             *)
LEMMA SameSide ==
  ASSUME NEW M \in Nat \ {0}, NEW now \in Int, NEW t \in Int,
         now - (now % M) # t - (t % M)
  PROVE  now < t <=> now < t - (t % M)
<1>1. PICK p \in Int, r \in 0 .. M - 1 : p = now \div M /\ r = now % M /\ now = M * p + r
  BY DivMod
<1>2. PICK q \in Int, s \in 0 .. M - 1 : q = t \div M /\ s = t % M /\ t = M * q + s
  BY DivMod
<1>3. PICK x \in Int, y \in Int : x = M * p /\ y = M * q
  OBVIOUS
<1>4. now = x + r /\ t = y + s /\ t - (t % M) = y /\ now - (now % M) = x
  BY <1>1, <1>2, <1>3
<1>5. x # y
  BY <1>4
<1>6. x <= y - M \/ x >= y + M
  <2>1. p # q
    BY <1>3, <1>5
  <2>2. CASE p <= q - 1
    <3>1. M * p <= M * (q - 1)
      BY <2>2
    <3>2. M * (q - 1) = M * q - M
      OBVIOUS
    <3> QED BY <1>3, <3>1, <3>2
  <2>3. CASE p >= q + 1
    <3>1. M * p >= M * (q + 1)
      BY <2>3
    <3>2. M * (q + 1) = M * q + M
      OBVIOUS
    <3> QED BY <1>3, <3>1, <3>2
  <2> QED BY <2>1, <2>2, <2>3
<1>7. r < M /\ s < M /\ r >= 0 /\ s >= 0 /\ M \in Int /\ r \in Int /\ s \in Int
  OBVIOUS
<1>8. x + r < y + s <=> x + r < y
  BY <1>6, <1>7
<1>9. now < t <=> now < y
  BY <1>4, <1>8, Zenon
<1> QED BY <1>4, <1>9, Zenon

(* The verdict, from its six checks.                                       *)
Judged(malformed, domain, early, late, nonce, signature) ==
  LET failed == SelectSeq(
        <<[err |-> "ErrMalformed", bad |-> malformed],
          [err |-> "ErrDomainMismatch", bad |-> domain],
          [err |-> "ErrNotYetValid", bad |-> early],
          [err |-> "ErrExpired", bad |-> late],
          [err |-> "ErrNonceMismatch", bad |-> nonce],
          [err |-> "ErrBadSignature", bad |-> signature]>>, LAMBDA c : c.bad)
  IN  IF failed = <<>> THEN "nil" ELSE failed[1].err

LEMMA VerdictIs ==
  ASSUME NEW m, NEW t, NEW signed, NEW opts, NEW now
  PROVE  Verdict(m, t, signed, opts, now) =
           Judged(opts.domain = "" \/ opts.nonce = NoNonce, m.domain # opts.domain,
                  \E v \in m.nb : now < v.t, \E v \in m.exp : now >= v.t,
                  m.nonce # opts.nonce, t # signed)
  BY Zenon DEF Verdict, Judged

SameSides(set1, set2, now) ==
  /\ (\E v \in set1 : now < v.t) <=> (\E v \in set2 : now < v.t)
  /\ (\E v \in set1 : now >= v.t) <=> (\E v \in set2 : now >= v.t)

SameClaims(n, m, now) ==
  /\ n.domain = m.domain /\ n.nonce = m.nonce
  /\ SameSides(n.nb, m.nb, now) /\ SameSides(n.exp, m.exp, now)

LEMMA SameVerdict ==
  ASSUME NEW m, NEW n, NEW t, NEW opts, NEW now, SameClaims(n, m, now)
  PROVE  Verdict(n, t, t, opts, now) = Verdict(m, t, t, opts, now)
<1>1. (\E v \in n.nb : now < v.t) = (\E v \in m.nb : now < v.t)
  BY DEF SameClaims, SameSides
<1>2. (\E v \in n.exp : now >= v.t) = (\E v \in m.exp : now >= v.t)
  BY DEF SameClaims, SameSides
<1> QED BY <1>1, <1>2, VerdictIs, Zenon DEF SameClaims

Elsewhere(set, now) == \A v \in set : now - (now % Milli) # v.t - (v.t % Milli)

LEMMA SidesKept ==
  ASSUME NEW set, OneStamp(set), NEW now \in Int,
         Elsewhere(set, now)
  PROVE  SameSides(InUTC(set), set, now)
<1>1. CASE set = {}
  BY <1>1 DEF InUTC, SameSides
<1>2. CASE set # {}
  <2>1. PICK v : set = {v} /\ IsStamp(v)
    BY <1>2, Zenon DEF OneStamp
  <2>2. InUTC(set) = {Format(v)}
    BY <2>1 DEF InUTC
  <2>3. PICK M, t, u : M = Milli /\ t = v.t /\ u = Format(v).t
    OBVIOUS
  <2>4. M \in Nat \ {0} /\ t \in Int /\ u \in Int /\ u = t - (t % M)
    <3>1. u \in Int
      BY <2>1, <2>3, FormatStamps DEF IsStamp
    <3> QED BY <2>1, <2>3, <3>1, FormatStamps, ClockAssumption, Zenon
  <2>5. now - (now % M) # t - (t % M)
    BY <2>1, <2>3 DEF Elsewhere
  <2>6. now < t <=> now < u
    BY <2>4, <2>5, SameSide, Zenon
  <2>7. now >= t <=> now >= u
    BY <2>4, <2>6
  <2> QED BY <2>1, <2>2, <2>3, <2>6, <2>7 DEF SameSides
<1> QED BY <1>1, <1>2

LEMMA VerdictsAgree == SiwsInv => VerifyWithinMillisecond
<1> SUFFICES ASSUME SiwsInv, NEW m \in ParseMessage(text), NEW now \in Instants, NEW o \in Options,
                    Prints(m),
                    ~ \E v \in m.exp \union m.nb : now - (now % Milli) = v.t - (v.t % Milli)
             PROVE  Verify(m, String(m), o, now) = VerifyRaw(String(m), String(m), o, now)
  BY Zenon DEF VerifyWithinMillisecond
<1>1. MessageOK(m) /\ Parsed(m)
  BY ParsedOK DEF SiwsInv
<1>2. PICK n, t : n = Again(m) /\ t = String(m)
  OBVIOUS
<1>3. ParseMessage(t) = {n}
  BY <1>1, <1>2, PrintParses, Zenon
<1>4. (CHOOSE x \in ParseMessage(t) : TRUE) = n /\ ParseMessage(t) # {}
  BY <1>3
<1>5. VerifyRaw(t, t, o, now) = Verdict(n, t, t, o, now)
  BY <1>4, Zenon DEF VerifyRaw
<1>6. Verify(m, t, o, now) = Verdict(m, t, t, o, now)
  BY <1>2, Zenon DEF Verify
<1>7. /\ n.domain = m.domain /\ n.nonce = m.nonce
      /\ n.exp = InUTC(m.exp) /\ n.nb = InUTC(m.nb)
  BY <1>1, <1>2, AgainFields, Zenon DEF Parsed
<1>8. now \in Int
  BY ClockAssumption
<1>9. OneStamp(m.exp) /\ OneStamp(m.nb)
  BY <1>1, Zenon DEF Parsed
<1>10. Elsewhere(m.exp, now) /\ Elsewhere(m.nb, now)
  BY Zenon DEF Elsewhere
<1>11. SameSides(n.nb, m.nb, now) /\ SameSides(n.exp, m.exp, now)
  BY <1>7, <1>8, <1>9, <1>10, SidesKept, Zenon
<1>12. Verdict(n, t, t, o, now) = Verdict(m, t, t, o, now)
  <2>1. SameClaims(n, m, now)
    BY <1>7, <1>11, Zenon DEF SameClaims
  <2> QED BY <2>1, SameVerdict
<1> QED BY <1>2, <1>5, <1>6, <1>12, Zenon

-----------------------------------------------------------------------------
(* The value of a digit string, unrolled: one partial sum per digit.       *)
Shifted(n, b, d) == n * b + d

Sums(h, s, b, n) ==
  h = [t \in SUBSET (1 .. n) |-> IF t = {} THEN 0 ELSE Shifted(h[t \ {Max(t)}], b, s[Max(t)])]

LEMMA SumsOneMore ==
  ASSUME NEW s, NEW b, NEW k \in Nat, NEW h, Sums(h, s, b, k)
  PROVE  \E g : Sums(g, s, b, k + 1)
<1> DEFINE Step(x, t) == IF t = {} THEN 0 ELSE Shifted(x[t \ {Max(t)}], b, s[Max(t)])
<1>1. PICK g : g = [t \in SUBSET (1 .. k + 1) |->
                      IF k + 1 \in t THEN Shifted(h[t \ {k + 1}], b, s[k + 1]) ELSE h[t]]
  OBVIOUS
<1>2. ASSUME NEW t \in SUBSET (1 .. k) PROVE h[t] = Step(h, t) /\ g[t] = h[t]
  <2>1. h[t] = Step(h, t)
    BY DEF Sums
  <2>2. t \in SUBSET (1 .. k + 1) /\ k + 1 \notin t
    OBVIOUS
  <2> QED BY <1>1, <2>1, <2>2
<1>3. ASSUME NEW t \in SUBSET (1 .. k + 1) PROVE g[t] = Step(g, t)
  <2>1. CASE k + 1 \in t
    <3>1. Max(t) = k + 1
      BY <2>1, GreatestIsMax
    <3>2. t \ {k + 1} \in SUBSET (1 .. k)
      OBVIOUS
    <3>3. g[t \ {k + 1}] = h[t \ {k + 1}]
      BY <1>2, <3>2
    <3>4. g[t] = Shifted(h[t \ {k + 1}], b, s[k + 1])
      BY <1>1, <2>1
    <3>5. t # {}
      BY <2>1
    <3> QED BY <3>1, <3>3, <3>4, <3>5, Zenon
  <2>2. CASE k + 1 \notin t
    <3>1. t \in SUBSET (1 .. k) /\ t \ {Max(t)} \in SUBSET (1 .. k)
      <4>1. \A x \in t : x \in 1 .. k
        BY <2>2
      <4> QED BY <4>1, Zenon
    <3>2. g[t] = Step(h, t) /\ g[t \ {Max(t)}] = h[t \ {Max(t)}]
      BY <1>2, <3>1, Zenon
    <3> QED BY <3>2, Zenon
  <2> QED BY <2>1, <2>2
<1>4. g = [t \in SUBSET (1 .. k + 1) |-> Step(g, t)]
  <2>1. g = [t \in SUBSET (1 .. k + 1) |-> g[t]]
    BY <1>1
  <2> HIDE DEF Step
  <2> QED BY <1>3, <2>1
<1> QED BY <1>4 DEF Sums

LEMMA SumsAll == ASSUME NEW s, NEW b, NEW n \in Nat PROVE \E h : Sums(h, s, b, n)
<1> DEFINE T == {k \in Nat : ~ \E h : Sums(h, s, b, k)}
<1> SUFFICES ASSUME n \in T PROVE FALSE
  OBVIOUS
<1>1. T \in SUBSET Nat /\ T # {}
  OBVIOUS
<1>2. PICK k \in T : \A j \in T : k <= j
  BY <1>1, NatHasLeast, Zenon
<1>3. CASE k = 0
  <2>1. PICK h : h = [t \in SUBSET (1 .. 0) |-> 0]
    OBVIOUS
  <2>2. \A t \in SUBSET (1 .. 0) : t = {}
    OBVIOUS
  <2>3. Sums(h, s, b, 0)
    BY <2>1, <2>2 DEF Sums
  <2> QED BY <1>3, <2>3
<1>4. CASE k # 0
  <2>1. k - 1 \in Nat /\ k - 1 \notin T /\ k - 1 + 1 = k
    BY <1>2, <1>4
  <2>2. PICK h : Sums(h, s, b, k - 1)
    BY <2>1
  <2>3. \E g : Sums(g, s, b, k - 1 + 1)
    BY <2>1, <2>2, SumsOneMore, Zenon
  <2> QED BY <2>1, <2>3
<1> QED BY <1>3, <1>4

Counts(read, s, b) ==
  read[0] = 0 /\ \A i \in 1 .. Len(s) : read[i] = Shifted(read[i - 1], b, s[i])

LEMMA ValueRead ==
  ASSUME NEW S, NEW s \in Seq(S), NEW b
  PROVE  \E read : Value(s, b) = read[Len(s)] /\ Counts(read, s, b)
<1>1. Len(s) \in Nat /\ DOMAIN s = 1 .. Len(s)
  OBVIOUS
<1>2. PICK n : n = Len(s)
  OBVIOUS
<1> DEFINE iter == CHOOSE h : Sums(h, s, b, n)
<1>3. Value(s, b) = iter[1 .. n]
  BY <1>1, <1>2 DEF Value, FoldLeft, MapThenFoldSet, Sums, Shifted
<1>4. Sums(iter, s, b, n)
  BY <1>1, <1>2, SumsAll
<1> HIDE DEF iter
<1>5. \A t \in SUBSET (1 .. n) :
        iter[t] = IF t = {} THEN 0 ELSE Shifted(iter[t \ {Max(t)}], b, s[Max(t)])
  BY <1>4 DEF Sums
<1>6. PICK read : read = [i \in 0 .. n |-> iter[1 .. i]]
  OBVIOUS
<1>7. read[0] = 0 /\ read[n] = iter[1 .. n]
  <2>1. 0 \in 0 .. n /\ n \in 0 .. n /\ 1 .. 0 = {}
    BY <1>1, <1>2
  <2>2. iter[1 .. 0] = 0
    BY <1>5, <2>1
  <2> QED BY <1>6, <2>1, <2>2
<1>8. ASSUME NEW i \in 1 .. n PROVE read[i] = Shifted(read[i - 1], b, s[i])
  <2>1. /\ 1 .. i \in SUBSET (1 .. n) /\ 1 .. i # {} /\ (1 .. i) \ {i} = 1 .. (i - 1)
        /\ i \in 0 .. n /\ i - 1 \in 0 .. n
    BY <1>1, <1>2, SMTT(30)
  <2>2. Max(1 .. i) = i
    BY GreatestIsMax
  <2>3. iter[1 .. i] = Shifted(iter[1 .. (i - 1)], b, s[i])
    BY <1>5, <2>1, <2>2, Zenon
  <2>4. read[i] = iter[1 .. i] /\ read[i - 1] = iter[1 .. (i - 1)]
    BY <1>6, <2>1
  <2> QED BY <2>3, <2>4, Zenon
<1> QED BY <1>2, <1>3, <1>7, <1>8, Zenon DEF Counts

-----------------------------------------------------------------------------
(* The digits of a number, unrolled: those of the quotient, and the        *)
(* remainder behind them.                                                  *)
Rests(h, b, n) ==
  h = [k \in 0 .. n |-> IF k = 0 THEN <<>> ELSE Append(h[k \div b], k % b)]

LEMMA Quotient ==
  ASSUME NEW n \in Nat \ {0}, NEW b \in Nat, b > 1
  PROVE  n \div b \in 0 .. n - 1 /\ n % b \in 0 .. b - 1 /\ n = Shifted(n \div b, b, n % b)
<1>1. PICK q \in Int, r \in 0 .. b - 1 : q = n \div b /\ r = n % b /\ n = b * q + r
  BY DivMod
<1>2. q >= 0
  <2>1. CASE q <= -1
    <3>1. b * q <= -b
      BY <2>1
    <3> QED BY <1>1, <3>1
  <2> QED BY <2>1
<1>3. q < n
  <2>1. CASE q = 0
    BY <1>1, <2>1
  <2>2. CASE q >= 1
    <3>1. b * q >= 2 * q
      BY <2>2
    <3> QED BY <1>1, <2>2, <3>1
  <2> QED BY <1>2, <2>1, <2>2
<1>4. n = q * b + r
  BY <1>1
<1> QED BY <1>1, <1>2, <1>3, <1>4 DEF Shifted

LEMMA RestsAt ==
  ASSUME NEW b, NEW n, NEW h, Rests(h, b, n), NEW k \in 0 .. n
  PROVE  h[k] = IF k = 0 THEN <<>> ELSE Append(h[k \div b], k % b)
<1>1. PICK e : e = [j \in 0 .. n |-> IF j = 0 THEN <<>> ELSE Append(h[j \div b], j % b)]
  OBVIOUS
<1>2. e[k] = IF k = 0 THEN <<>> ELSE Append(h[k \div b], k % b)
  BY <1>1, Zenon
<1>3. h = e
  BY <1>1, Zenon DEF Rests
<1> QED BY <1>2, <1>3, Zenon

(* One function per bound, each the continuation of those before.          *)
LEMMA RestsAgree ==
  ASSUME NEW b \in Nat, b > 1, NEW n \in Nat, NEW m \in Nat, NEW g, NEW h,
         Rests(g, b, n), Rests(h, b, m), NEW k \in Nat, k <= n, k <= m
  PROVE  g[k] = h[k]
<1> DEFINE T == {i \in Nat : i <= n /\ i <= m /\ g[i] # h[i]}
<1> SUFFICES ASSUME k \in T PROVE FALSE
  OBVIOUS
<1>1. T \in SUBSET Nat /\ T # {}
  OBVIOUS
<1>2. PICK i \in T : \A j \in T : i <= j
  BY <1>1, NatHasLeast, Zenon
<1>3. /\ g[i] = IF i = 0 THEN <<>> ELSE Append(g[i \div b], i % b)
      /\ h[i] = IF i = 0 THEN <<>> ELSE Append(h[i \div b], i % b)
  <2>1. i \in 0 .. n /\ i \in 0 .. m
    BY <1>2
  <2> QED BY <2>1, RestsAt
<1>4. i # 0
  BY <1>2, <1>3
<1>5. PICK q : q = i \div b
  OBVIOUS
<1>6. q \in 0 .. i - 1
  BY <1>2, <1>4, <1>5, Quotient
<1>7. g[q] = h[q]
  BY <1>2, <1>6
<1> QED BY <1>2, <1>3, <1>4, <1>5, <1>7

LEMMA RestsOneMore ==
  ASSUME NEW b \in Nat, b > 1, NEW n \in Nat, NEW h, Rests(h, b, n)
  PROVE  \E g : Rests(g, b, n + 1)
<1>1. PICK q, r : q = (n + 1) \div b /\ r = (n + 1) % b
  OBVIOUS
<1>2. PICK g : g = [k \in 0 .. n + 1 |-> IF k = n + 1 THEN Append(h[q], r) ELSE h[k]]
  OBVIOUS
<1>3. ASSUME NEW k \in 0 .. n + 1
      PROVE  g[k] = IF k = 0 THEN <<>> ELSE Append(g[k \div b], k % b)
  <2>1. CASE k = 0
    <3>1. h[0] = <<>>
      BY DEF Rests
    <3> QED BY <1>2, <2>1, <3>1
  <2>2. CASE k # 0
    <3>1. PICK p : p = k \div b
      OBVIOUS
    <3>2. p \in 0 .. k - 1
      <4>1. k \in Nat \ {0}
        BY <2>2
      <4> QED BY <3>1, <4>1, Quotient
    <3>3. g[p] = h[p]
      BY <1>2, <3>2
    <3>4. CASE k = n + 1
      BY <1>1, <1>2, <2>2, <3>1, <3>3, <3>4
    <3>5. CASE k # n + 1
      <4>1. k \in 0 .. n
        BY <3>5
      <4>2. h[k] = Append(h[p], k % b)
        BY <2>2, <3>1, <4>1 DEF Rests
      <4>3. g[k] = h[k]
        BY <1>2, <3>5
      <4> QED BY <2>2, <3>1, <3>3, <4>2, <4>3
    <3> QED BY <3>4, <3>5
  <2> QED BY <2>1, <2>2
<1>4. g = [k \in 0 .. n + 1 |-> g[k]]
  BY <1>2
<1>5. g = [k \in 0 .. n + 1 |-> IF k = 0 THEN <<>> ELSE Append(g[k \div b], k % b)]
  BY <1>3, <1>4
<1> QED BY <1>5 DEF Rests

LEMMA RestsAll ==
  ASSUME NEW b \in Nat, b > 1, NEW n \in Nat PROVE \E h : Rests(h, b, n)
<1> DEFINE T == {k \in Nat : ~ \E h : Rests(h, b, k)}
<1> SUFFICES ASSUME n \in T PROVE FALSE
  OBVIOUS
<1>1. T \in SUBSET Nat /\ T # {}
  OBVIOUS
<1>2. PICK k \in T : \A j \in T : k <= j
  BY <1>1, NatHasLeast, Zenon
<1>3. CASE k = 0
  <2>1. PICK h : h = [j \in 0 .. 0 |-> <<>>]
    OBVIOUS
  <2>2. h = [j \in 0 .. 0 |-> IF j = 0 THEN <<>> ELSE Append(h[j \div b], j % b)]
    BY <2>1
  <2> QED BY <1>2, <1>3, <2>2 DEF Rests
<1>4. CASE k # 0
  <2>1. k - 1 \in Nat /\ k - 1 \notin T /\ k - 1 + 1 = k
    BY <1>2, <1>4
  <2>2. PICK h : Rests(h, b, k - 1)
    BY <2>1
  <2>3. \E g : Rests(g, b, k - 1 + 1)
    BY <2>1, <2>2, RestsOneMore
  <2> QED BY <1>2, <2>1, <2>3
<1> QED BY <1>3, <1>4

LEMMA DigitsRead ==
  ASSUME NEW b \in Nat, b > 1, NEW n \in Nat
  PROVE  \E h : Rests(h, b, n) /\ Digits(n, b) = h[n]
<1> DEFINE rest == CHOOSE h : Rests(h, b, n)
<1>1. Digits(n, b) = rest[n]
  BY DEF Digits, Rests
<1>2. Rests(rest, b, n)
  BY RestsAll
<1> HIDE DEF rest
<1> QED BY <1>1, <1>2

LEMMA DigitsStep ==
  ASSUME NEW b \in Nat, b > 1, NEW n \in Nat
  PROVE  Digits(n, b) = IF n = 0 THEN <<>> ELSE Append(Digits(n \div b, b), n % b)
<1>1. PICK h : Rests(h, b, n) /\ Digits(n, b) = h[n]
  BY DigitsRead
<1>2. h[n] = IF n = 0 THEN <<>> ELSE Append(h[n \div b], n % b)
  BY <1>1, RestsAt
<1>3. CASE n = 0
  BY <1>1, <1>2, <1>3
<1>4. CASE n # 0
  <2>1. PICK q : q = n \div b
    OBVIOUS
  <2>2. q \in Nat /\ q <= n
    BY <1>4, <2>1, Quotient
  <2>3. PICK g : Rests(g, b, q) /\ Digits(q, b) = g[q]
    BY <2>2, DigitsRead
  <2>4. g[q] = h[q]
    BY <1>1, <2>2, <2>3, RestsAgree
  <2> QED BY <1>1, <1>2, <1>4, <2>1, <2>3, <2>4
<1> QED BY <1>3, <1>4

SameAt(g, h, k) == g[k] = h[k]

LEMMA CountsAgree ==
  ASSUME NEW b, NEW s, NEW t, NEW g, NEW h, Counts(g, s, b), Counts(h, t, b), NEW k \in Nat,
         Len(s) \in Nat, Len(t) \in Nat, k <= Len(s), k <= Len(t), \A i \in 1 .. k : s[i] = t[i]
  PROVE  SameAt(g, h, k)
<1> DEFINE T == {i \in Nat : i <= k /\ g[i] # h[i]}
<1> SUFFICES ASSUME k \in T PROVE FALSE
  BY DEF SameAt
<1>1. T \in SUBSET Nat /\ T # {}
  OBVIOUS
<1>2. PICK i \in T : \A j \in T : i <= j
  BY <1>1, NatHasLeast, Zenon
<1>3. i # 0
  BY <1>2 DEF Counts
<1>4. i - 1 \in Nat /\ i - 1 \notin T /\ i - 1 <= k /\ i \in 1 .. k
  BY <1>2, <1>3
<1>5. g[i - 1] = h[i - 1] /\ s[i] = t[i]
  BY <1>4
<1>6. i \in 1 .. Len(s) /\ i \in 1 .. Len(t)
  BY <1>4
<1>7. g[i] = Shifted(g[i - 1], b, s[i]) /\ h[i] = Shifted(h[i - 1], b, t[i])
  BY <1>6, Zenon DEF Counts
<1>8. g[i] = h[i]
  BY <1>5, <1>7, Zenon
<1> QED BY <1>2, <1>8

LEMMA ValueEmpty == ASSUME NEW b PROVE Value(<<>>, b) = 0
<1>1. PICK s : s = <<>>
  OBVIOUS
<1>2. s \in Seq(Nat) /\ Len(s) = 0
  BY <1>1
<1>3. PICK g : Value(s, b) = g[Len(s)] /\ Counts(g, s, b)
  BY <1>2, ValueRead, Zenon
<1> QED BY <1>1, <1>2, <1>3 DEF Counts

LEMMA ValueAppend ==
  ASSUME NEW b, NEW S, NEW t \in Seq(S), NEW d \in S
  PROVE  Value(Append(t, d), b) = Shifted(Value(t, b), b, d)
<1>1. PICK s, n : s = Append(t, d) /\ n = Len(t)
  OBVIOUS
<1>2. n \in Nat /\ s \in Seq(S) /\ Len(s) = n + 1 /\ (\A i \in 1 .. n : s[i] = t[i]) /\ s[n + 1] = d
  BY <1>1
<1>3. PICK g : Value(s, b) = g[Len(s)] /\ Counts(g, s, b)
  BY <1>2, ValueRead, Zenon
<1>4. PICK h : Value(t, b) = h[Len(t)] /\ Counts(h, t, b)
  BY ValueRead, Zenon
<1>5. g[n] = h[n]
  <2>1. Len(s) \in Nat /\ Len(t) \in Nat /\ n <= Len(s) /\ n <= Len(t)
    BY <1>1, <1>2
  <2>2. SameAt(g, h, n)
    BY <1>2, <1>3, <1>4, <2>1, CountsAgree, Zenon
  <2> QED BY <2>2 DEF SameAt
<1>6. \A i \in 1 .. Len(s) : g[i] = Shifted(g[i - 1], b, s[i])
  BY <1>3 DEF Counts
<1>7. g[n + 1] = Shifted(g[n], b, s[n + 1])
  <2>1. PICK p : p = n + 1
    OBVIOUS
  <2>2. p \in 1 .. Len(s) /\ p - 1 = n
    BY <1>2, <2>1
  <2>3. g[p] = Shifted(g[p - 1], b, s[p])
    BY <1>6, <2>2, Zenon
  <2> QED BY <2>1, <2>2, <2>3
<1> QED BY <1>1, <1>2, <1>3, <1>4, <1>5, <1>7

(* The digits of a number denote it and have no leading zero.              *)
DigitsOf(ds, n, b) ==
  /\ ds \in Seq(0 .. b - 1) /\ Value(ds, b) = n
  /\ n = 0 => ds = <<>>
  /\ n # 0 => Len(ds) > 0 /\ ds[1] # 0

LEMMA DigitsDenote ==
  ASSUME NEW b \in Nat, b > 1, NEW n \in Nat
  PROVE  DigitsOf(Digits(n, b), n, b)
<1> DEFINE T == {i \in Nat : ~DigitsOf(Digits(i, b), i, b)}
<1> SUFFICES ASSUME n \in T PROVE FALSE
  OBVIOUS
<1>1. T \in SUBSET Nat /\ T # {}
  OBVIOUS
<1>2. PICK k \in T : \A j \in T : k <= j
  BY <1>1, NatHasLeast, Zenon
<1>3. k \in Nat /\ ~DigitsOf(Digits(k, b), k, b)
  BY <1>2
<1>4. CASE k = 0
  <2>1. Digits(k, b) = <<>>
    BY <1>4, DigitsStep
  <2>2. PICK e : e = <<>>
    OBVIOUS
  <2>3. e \in Seq(0 .. b - 1)
    BY <2>2
  <2>4. Value(e, b) = 0
    BY <2>2, ValueEmpty
  <2>5. DigitsOf(e, k, b)
    BY <1>4, <2>2, <2>3, <2>4 DEF DigitsOf
  <2> QED BY <1>3, <2>1, <2>2, <2>5
<1>5. CASE k # 0
  <2>1. PICK q, r : q = k \div b /\ r = k % b
    OBVIOUS
  <2>2. k \in Nat \ {0}
    BY <1>3, <1>5
  <2>3. q \in 0 .. k - 1 /\ r \in 0 .. b - 1 /\ k = Shifted(q, b, r)
    BY <2>1, <2>2, Quotient
  <2>4. q \in Nat /\ q \notin T
    BY <1>2, <2>3
  <2>5. PICK ds : ds = Digits(q, b)
    OBVIOUS
  <2>6. DigitsOf(ds, q, b)
    BY <2>4, <2>5
  <2>7. PICK S : S = 0 .. b - 1
    OBVIOUS
  <2>8. ds \in Seq(S) /\ r \in S
    BY <2>3, <2>6, <2>7 DEF DigitsOf
  <2>9. PICK e : e = Append(ds, r)
    OBVIOUS
  <2>10. Value(e, b) = k
    <3>1. Value(e, b) = Shifted(Value(ds, b), b, r)
      BY <2>8, <2>9, ValueAppend
    <3> QED BY <2>3, <2>6, <3>1 DEF DigitsOf
  <2>11. e \in Seq(S) /\ Len(e) = Len(ds) + 1 /\ (\A i \in 1 .. Len(ds) : e[i] = ds[i])
         /\ e[Len(ds) + 1] = r /\ Len(ds) \in Nat
    BY <2>8, <2>9
  <2>12. e[1] # 0
    <3>1. CASE q = 0
      <4>1. Len(ds) = 0
        BY <2>6, <3>1 DEF DigitsOf
      <4>2. r = k
        BY <2>3, <3>1 DEF Shifted
      <4> QED BY <1>5, <2>11, <4>1, <4>2
    <3>2. CASE q # 0
      <4>1. Len(ds) > 0 /\ ds[1] # 0
        BY <2>6, <3>2 DEF DigitsOf
      <4> QED BY <2>11, <4>1
    <3> QED BY <3>1, <3>2
  <2>13. DigitsOf(e, k, b)
    BY <1>5, <2>7, <2>10, <2>11, <2>12 DEF DigitsOf
  <2>14. e = Digits(k, b)
    <3>1. Digits(k, b) = Append(Digits(q, b), r)
      BY <1>3, <1>5, <2>1, DigitsStep
    <3> QED BY <2>5, <2>9, <3>1
  <2> QED BY <1>3, <2>13, <2>14
<1> QED BY <1>4, <1>5

LEMMA ShiftedBack ==
  ASSUME NEW b \in Nat, b > 1, NEW q \in Nat, NEW r \in 0 .. b - 1
  PROVE  /\ Shifted(q, b, r) \in Nat /\ Shifted(q, b, r) \div b = q /\ Shifted(q, b, r) % b = r
         /\ q # 0 \/ r # 0 => Shifted(q, b, r) # 0
<1>1. b \in Nat \ {0} /\ q \in Int
  OBVIOUS
<1>2. (q * b + r) \div b = q /\ (q * b + r) % b = r
  BY <1>1, DivUnique
<1>3. q * b \in Nat
  OBVIOUS
<1>4. q # 0 \/ r # 0 => q * b + r # 0
  <2>1. CASE q # 0
    <3>1. q * b >= b
      BY <2>1
    <3> QED BY <3>1
  <2>2. CASE q = 0
    BY <2>2
  <2> QED BY <2>1, <2>2
<1> QED BY <1>2, <1>3, <1>4 DEF Shifted

(* Some number z of leading zeros, and behind them a digit that is none.   *)
ZerosFirst(s, zero, z) ==
  /\ z \in 0 .. Len(s) /\ \A i \in 1 .. z : s[i] = zero
  /\ z < Len(s) => s[z + 1] # zero

(* The digits of a digit string's value are its digits without the leading *)
(* zeros.                                                                  *)
From(t, s, z) == /\ t \in Seq(ToSet(s)) /\ Len(t) = Len(s) - z
                 /\ \A i \in 1 .. Len(t) : t[i] = s[z + i]

LEMMA DigitsFound ==
  ASSUME NEW b \in Nat, b > 1, NEW s \in Seq(0 .. b - 1), NEW z, ZerosFirst(s, 0, z)
  PROVE  Value(s, b) \in Nat /\ From(Digits(Value(s, b), b), s, z)
<1>1. PICK n : n = Len(s)
  OBVIOUS
<1>2. /\ n \in Nat /\ z \in 0 .. n /\ \A i \in 1 .. n : s[i] \in 0 .. b - 1 /\ s[i] \in ToSet(s)
      /\ \A i \in 1 .. z : s[i] = 0
      /\ z < n => s[z + 1] # 0
  BY <1>1 DEF ZerosFirst, ToSet
<1>3. PICK v : Value(s, b) = v[n] /\ Counts(v, s, b)
  BY <1>1, ValueRead, Zenon
<1> DEFINE Good(i) ==
      /\ v[i] \in Nat
      /\ i <= z => v[i] = 0
      /\ i > z => v[i] # 0
      /\ Digits(v[i], b) \in Seq(ToSet(s))
      /\ Len(Digits(v[i], b)) = IF i <= z THEN 0 ELSE i - z
      /\ \A j \in 1 .. Len(Digits(v[i], b)) : Digits(v[i], b)[j] = s[z + j]
<1> DEFINE T == {i \in Nat : i <= n /\ ~Good(i)}
<1>4. ASSUME NEW i \in Nat, v[i] = 0, i <= z PROVE Good(i)
  <2>1. PICK e : e = Digits(v[i], b)
    OBVIOUS
  <2>2. e = <<>>
    BY <1>4, <2>1, DigitsStep
  <2>3. e \in Seq(ToSet(s)) /\ Len(e) = 0
    BY <2>2
  <2> QED BY <1>2, <1>4, <2>1, <2>3
<1>5. ASSUME NEW i \in Nat, i <= n PROVE Good(i)
  <2> SUFFICES ASSUME ~Good(i) PROVE FALSE
    OBVIOUS
  <2> HIDE DEF Good
  <2>1. T \in SUBSET Nat /\ T # {}
    BY <1>5
  <2>2. PICK k \in T : \A j \in T : k <= j
    BY <2>1, NatHasLeast, Zenon
  <2>3. k \in Nat /\ k <= n /\ ~Good(k)
    BY <2>2
  <2>4. CASE k = 0
    <3>1. v[0] = 0
      BY <1>3 DEF Counts
    <3> QED BY <1>2, <1>4, <2>3, <2>4, <3>1
  <2>5. CASE k # 0
    <3>1. k - 1 \in Nat /\ k - 1 \notin T /\ k - 1 <= n /\ k \in 1 .. n
      BY <1>2, <2>2, <2>3, <2>5
    <3>2. Good(k - 1)
      BY <3>1
    <3>3. v[k] = Shifted(v[k - 1], b, s[k])
      <4>1. \A j \in 1 .. n : v[j] = Shifted(v[j - 1], b, s[j])
        BY <1>1, <1>3, Zenon DEF Counts
      <4> QED BY <3>1, <4>1, Zenon
    <3>4. PICK q, r : q = v[k - 1] /\ r = s[k]
      OBVIOUS
    <3>5. q \in Nat /\ r \in 0 .. b - 1 /\ v[k] = Shifted(q, b, r) /\ r \in ToSet(s)
      BY <1>2, <3>1, <3>2, <3>3, <3>4 DEF Good
    <3>6. v[k] \in Nat /\ v[k] \div b = q /\ v[k] % b = r /\ (q # 0 \/ r # 0 => v[k] # 0)
      BY <3>5, ShiftedBack
    <3>7. CASE k <= z
      <4>1. q = 0 /\ r = 0
        BY <1>2, <3>1, <3>2, <3>4, <3>7 DEF Good
      <4>2. v[k] = 0
        BY <3>5, <4>1 DEF Shifted
      <4> QED BY <1>4, <2>3, <3>7, <4>2
    <3>8. CASE k > z
      <4>1. v[k] # 0
        <5>1. CASE k = z + 1
          BY <1>2, <3>1, <3>4, <3>6, <5>1
        <5>2. CASE k # z + 1
          <6>1. k - 1 > z
            BY <1>2, <3>1, <3>8, <5>2
          <6> QED BY <3>2, <3>4, <3>6, <6>1 DEF Good
        <5> QED BY <5>1, <5>2
      <4>2. PICK t, e : t = Digits(q, b) /\ e = Append(t, r)
        OBVIOUS
      <4>3. Digits(v[k], b) = e
        BY <3>6, <4>1, <4>2, DigitsStep
      <4>4. /\ t \in Seq(ToSet(s)) /\ Len(t) = k - 1 - z
            /\ \A j \in 1 .. Len(t) : t[j] = s[z + j]
        <5>1. /\ t \in Seq(ToSet(s)) /\ Len(t) = IF k - 1 <= z THEN 0 ELSE k - 1 - z
              /\ \A j \in 1 .. Len(t) : t[j] = s[z + j]
          BY <3>2, <3>4, <4>2 DEF Good
        <5>2. (IF k - 1 <= z THEN 0 ELSE k - 1 - z) = k - 1 - z
          BY <1>2, <3>1, <3>8
        <5> QED BY <5>1, <5>2, Zenon
      <4>5. /\ e \in Seq(ToSet(s)) /\ Len(e) = Len(t) + 1
            /\ (\A j \in 1 .. Len(t) : e[j] = t[j]) /\ e[Len(t) + 1] = r
        BY <3>5, <4>2, <4>4, AppendProperties
      <4>6. Len(e) = k - z /\ \A j \in 1 .. Len(e) : e[j] = s[z + j]
        <5>1. ASSUME NEW j \in 1 .. k - z PROVE e[j] = s[z + j]
          <6>1. CASE j = k - z
            <7>1. j = Len(t) + 1 /\ z + j = k
              BY <1>2, <3>1, <4>4, <6>1
            <7> QED BY <3>4, <4>5, <7>1
          <6>2. CASE j # k - z
            <7>1. j \in 1 .. Len(t)
              BY <1>2, <3>1, <4>4, <6>2
            <7> QED BY <4>4, <4>5, <7>1
          <6> QED BY <6>1, <6>2
        <5> QED BY <1>2, <3>1, <4>4, <4>5, <5>1
      <4>7. Good(k)
        <5>1. ~(k <= z)
          BY <1>2, <3>1, <3>8
        <5> QED BY <3>6, <4>1, <4>3, <4>5, <4>6, <5>1, Zenon DEF Good
      <4> QED BY <2>3, <4>7
    <3> QED BY <1>2, <3>1, <3>7, <3>8
  <2> QED BY <2>4, <2>5
<1>6. n \in Nat /\ n <= n
  BY <1>2
<1>7. Good(n)
  <2> HIDE DEF Good
  <2> QED BY <1>5, <1>6, Zenon
<1>8. PICK x, ds : x = v[n] /\ ds = Digits(x, b)
  OBVIOUS
<1>9. /\ x \in Nat /\ ds \in Seq(ToSet(s))
      /\ Len(ds) = IF n <= z THEN 0 ELSE n - z
      /\ \A j \in 1 .. Len(ds) : ds[j] = s[z + j]
  BY <1>7, <1>8
<1>10. Len(ds) = Len(s) - z
  BY <1>1, <1>2, <1>9
<1>11. x \in Nat /\ From(ds, s, z)
  BY <1>9, <1>10, Zenon DEF From
<1> QED BY <1>3, <1>8, <1>11, Zenon

LEMMA LeadingIs ==
  ASSUME NEW S, NEW s \in Seq(S), NEW zero, NEW z, ZerosFirst(s, zero, z)
  PROVE  Leading(s, zero) = z
<1>1. DOMAIN s = 1 .. Len(s) /\ Len(s) \in Nat
  OBVIOUS
<1>2. /\ z \in 0 .. Len(s) /\ \A i \in 1 .. z : s[i] = zero
      /\ z < Len(s) => s[z + 1] # zero
  BY DEF ZerosFirst
<1>3. {i \in DOMAIN s : \A j \in 1 .. i : s[j] = zero} = 1 .. z
  <2>1. ASSUME NEW i \in 1 .. Len(s), \A j \in 1 .. i : s[j] = zero PROVE i \in 1 .. z
    <3>1. CASE i > z
      <4>1. z + 1 \in 1 .. i /\ z < Len(s)
        BY <1>1, <1>2, <2>1, <3>1
      <4> QED BY <1>2, <2>1, <4>1
    <3> QED BY <1>2, <2>1, <3>1
  <2>2. ASSUME NEW i \in 1 .. z PROVE i \in 1 .. Len(s) /\ \A j \in 1 .. i : s[j] = zero
    BY <1>1, <1>2
  <2> QED BY <1>1, <2>1, <2>2
<1>4. z \in Int /\ Cardinality(1 .. z) = IF 1 > z THEN 0 ELSE z - 1 + 1
  BY <1>2, FS_Interval
<1>5. Leading(s, zero) = Cardinality({i \in DOMAIN s : \A j \in 1 .. i : s[j] = zero})
  BY Zenon DEF Leading
<1>6. Leading(s, zero) = Cardinality(1 .. z)
  BY <1>3, <1>5, Zenon
<1>7. PICK c : c = Cardinality(1 .. z)
  OBVIOUS
<1>8. c = z
  BY <1>2, <1>4, <1>7
<1> QED BY <1>6, <1>7, <1>8, Zenon

LEMMA HasLeading ==
  ASSUME NEW S, NEW s \in Seq(S), NEW zero
  PROVE  \E z : ZerosFirst(s, zero, z)
<1> DEFINE T == {i \in Nat : i <= Len(s) /\ (i < Len(s) => s[i + 1] # zero)}
<1>1. T \in SUBSET Nat /\ T # {}
  <2>1. Len(s) \in T
    OBVIOUS
  <2> QED BY <2>1
<1>2. PICK z \in T : \A j \in T : z <= j
  BY <1>1, NatHasLeast, Zenon
<1>3. ASSUME NEW i \in 1 .. z PROVE s[i] = zero
  <2>1. z \in Nat /\ z <= Len(s) /\ Len(s) \in Nat
    BY <1>2
  <2>2. PICK j : j = i - 1
    OBVIOUS
  <2>3. j \in Nat /\ j < z /\ j < Len(s) /\ j + 1 = i
    BY <2>1, <2>2
  <2>4. j \notin T
    <3> HIDE DEF T
    <3> QED BY <1>2, <2>1, <2>3
  <2> QED BY <2>1, <2>3, <2>4
<1> QED BY <1>2, <1>3 DEF ZerosFirst

LEMMA ZerosAre ==
  ASSUME NEW z \in Nat, NEW zero
  PROVE  /\ Zeros(z, zero) \in Seq({zero}) /\ Len(Zeros(z, zero)) = z
         /\ \A i \in 1 .. z : Zeros(z, zero)[i] = zero
BY DEF Zeros

(* Zeros in front add nothing to the value.                                *)
LEMMA ZerosValue ==
  ASSUME NEW b \in Nat, NEW z \in Nat, NEW t \in Seq(Nat)
  PROVE  Value(Zeros(z, 0) \o t, b) = Value(t, b)
<1>1. PICK o, s, n : o = Zeros(z, 0) /\ s = o \o t /\ n = Len(t)
  OBVIOUS
<1>2. o \in Seq(Nat) /\ Len(o) = z /\ (\A i \in 1 .. z : o[i] = 0)
  <2>1. o \in Seq({0}) /\ Len(o) = z /\ (\A i \in 1 .. z : o[i] = 0)
    BY <1>1, ZerosAre
  <2>2. {0} \subseteq Nat
    OBVIOUS
  <2> QED BY <2>1, <2>2, SeqMonotonic
<1>3. /\ s \in Seq(Nat) /\ Len(s) = z + n /\ n \in Nat
      /\ \A i \in 1 .. z + n : s[i] = IF i <= z THEN 0 ELSE t[i - z]
  <2>1. /\ s \in Seq(Nat) /\ Len(s) = Len(o) + Len(t)
        /\ \A i \in 1 .. Len(o) + Len(t) :
             s[i] = IF i <= Len(o) THEN o[i] ELSE t[i - Len(o)]
    BY <1>1, <1>2, ConcatProperties, Zenon
  <2>2. Len(o) + Len(t) = z + n /\ n \in Nat
    <3>1. n = Len(t) /\ Len(o) = z
      BY <1>1, <1>2
    <3> QED BY <3>1
  <2>3. ASSUME NEW i \in 1 .. z + n PROVE s[i] = IF i <= z THEN 0 ELSE t[i - z]
    BY <1>2, <2>1, <2>2
  <2> QED BY <2>1, <2>2, <2>3
<1>4. PICK g : Value(s, b) = g[Len(s)] /\ Counts(g, s, b)
  BY <1>3, ValueRead, Zenon
<1>5. PICK h : Value(t, b) = h[Len(t)] /\ Counts(h, t, b)
  BY ValueRead, Zenon
<1>6. /\ g[0] = 0 /\ \A i \in 1 .. z + n : g[i] = Shifted(g[i - 1], b, s[i])
      /\ h[0] = 0 /\ \A i \in 1 .. n : h[i] = Shifted(h[i - 1], b, t[i])
  BY <1>1, <1>3, <1>4, <1>5 DEF Counts
<1> DEFINE T == {i \in Nat : i <= z + n /\ g[i] # IF i <= z THEN 0 ELSE h[i - z]}
<1>7. T = {}
  <2> SUFFICES ASSUME T # {} PROVE FALSE
    OBVIOUS
  <2>1. T \in SUBSET Nat
    OBVIOUS
  <2>2. PICK k \in T : \A j \in T : k <= j
    BY <2>1, NatHasLeast, Zenon
  <2>3. k # 0
    BY <1>6, <2>2
  <2>4. k - 1 \in Nat /\ k - 1 \notin T /\ k \in 1 .. z + n
    BY <1>3, <2>2, <2>3
  <2>5. g[k - 1] = IF k - 1 <= z THEN 0 ELSE h[k - 1 - z]
    BY <1>3, <2>4
  <2>6. g[k] = Shifted(g[k - 1], b, s[k]) /\ s[k] = IF k <= z THEN 0 ELSE t[k - z]
    BY <1>3, <1>6, <2>4
  <2>7. CASE k <= z
    <3>1. g[k] = Shifted(0, b, 0)
      BY <2>4, <2>5, <2>6, <2>7
    <3>2. g[k] = 0
      BY <3>1 DEF Shifted
    <3> QED BY <2>2, <2>7, <3>2
  <2>8. CASE k > z
    <3>1. PICK i : i = k - z
      OBVIOUS
    <3>2. i \in 1 .. n /\ k - 1 - z = i - 1
      BY <1>3, <2>4, <2>8, <3>1
    <3>3. g[k - 1] = h[i - 1]
      <4>1. CASE i = 1
        BY <1>6, <2>4, <2>5, <3>1, <4>1
      <4>2. CASE i # 1
        BY <2>4, <2>5, <3>1, <3>2, <4>2
      <4> QED BY <4>1, <4>2
    <3>4. g[k] = Shifted(h[i - 1], b, t[i])
      BY <2>4, <2>6, <2>8, <3>1, <3>3
    <3>5. h[i] = Shifted(h[i - 1], b, t[i])
      BY <1>6, <3>2
    <3> QED BY <2>2, <2>4, <2>8, <3>1, <3>4, <3>5
  <2> QED BY <2>4, <2>7, <2>8
<1>8. g[z + n] = h[n]
  <2>1. PICK p : p = z + n
    OBVIOUS
  <2>2. p \in Nat /\ p <= z + n /\ p \notin T
    BY <1>3, <1>7, <2>1
  <2>3. g[p] = IF p <= z THEN 0 ELSE h[p - z]
    BY <2>2, Zenon
  <2>4. CASE n = 0
    BY <1>6, <2>1, <2>3, <2>4
  <2>5. CASE n # 0
    <3>1. ~(p <= z) /\ p - z = n
      BY <1>3, <2>1, <2>5
    <3> QED BY <2>1, <2>3, <3>1
  <2> QED BY <2>4, <2>5
<1> QED BY <1>1, <1>3, <1>4, <1>5, <1>8

LEMMA AlphabetIndex ==
  ASSUME NEW ch \in ToSet(Alphabet)
  PROVE  /\ alphabetIdx(ch) \in 0 .. Base - 1 /\ Alphabet[alphabetIdx(ch) + 1] = ch
         /\ alphabetIdx(ch) = 0 <=> ch = Alphabet[1]
<1>1. DOMAIN Alphabet = 1 .. Base /\ Base \in Nat /\ Base > 1
  BY Base58Assumption DEF Base
<1>2. \E i \in DOMAIN Alphabet : Alphabet[i] = ch
  BY DEF ToSet
<1>3. PICK i : i = CHOOSE j \in DOMAIN Alphabet : Alphabet[j] = ch
  OBVIOUS
<1>4. i \in 1 .. Base /\ Alphabet[i] = ch
  BY <1>1, <1>2, <1>3
<1>5. Alphabet[1] = Alphabet[i] => i = 1
  <2>1. \A a, b \in DOMAIN Alphabet : Alphabet[a] = Alphabet[b] => a = b
    BY Base58Assumption DEF IsInjective
  <2> QED BY <1>1, <1>4, <2>1
<1>6. alphabetIdx(ch) = i - 1
  BY <1>3 DEF alphabetIdx
<1> QED BY <1>1, <1>4, <1>5, <1>6

(* base58.go's two functions on a string of the alphabet: no character is  *)
(* lost, and a leading '1' comes back as a leading '1'.                    *)
LEMMA DecodedEncodes ==
  ASSUME NEW S, NEW s \in Seq(S), Decodes(s)
  PROVE  EncodeBase58(DecodeBase58(s)) = s
<1>1. PICK one : one = Alphabet[1]
  OBVIOUS
<1>2. PICK n : n = Len(s)
  OBVIOUS
<1>3. n \in Nat /\ DOMAIN s = 1 .. n /\ \A i \in 1 .. n : s[i] \in ToSet(Alphabet)
  BY <1>2 DEF Decodes
<1>4. PICK z : ZerosFirst(s, one, z)
  BY HasLeading, Zenon
<1>5. z \in 0 .. n /\ (\A i \in 1 .. z : s[i] = one) /\ (z < n => s[z + 1] # one)
  BY <1>2, <1>4 DEF ZerosFirst
<1>6. Leading(s, one) = z
  BY <1>4, LeadingIs
<1>7. PICK ds : ds = [i \in DOMAIN s |-> alphabetIdx(s[i])]
  OBVIOUS
<1>8. ASSUME NEW i \in 1 .. n
      PROVE  /\ ds[i] \in 0 .. Base - 1 /\ Alphabet[ds[i] + 1] = s[i]
             /\ ds[i] = 0 <=> s[i] = one
  <2>1. ds[i] = alphabetIdx(s[i]) /\ s[i] \in ToSet(Alphabet)
    BY <1>3, <1>7
  <2>2. PICK ch : ch = s[i]
    OBVIOUS
  <2>3. /\ alphabetIdx(ch) \in 0 .. Base - 1 /\ Alphabet[alphabetIdx(ch) + 1] = ch
        /\ alphabetIdx(ch) = 0 <=> ch = Alphabet[1]
    BY <2>1, <2>2, AlphabetIndex
  <2> QED BY <1>1, <2>1, <2>2, <2>3
<1>9. ds \in Seq(0 .. Base - 1) /\ Len(ds) = n
  BY <1>3, <1>7, <1>8
<1>10. ZerosFirst(ds, 0, z)
  BY <1>3, <1>5, <1>8, <1>9 DEF ZerosFirst
<1>11. Base \in Nat /\ Base > 1 /\ Byte \in Nat /\ Byte > 1
  BY Base58Assumption DEF Base
<1>12. PICK v : v = Value(ds, Base)
  OBVIOUS
<1>13. PICK dt : dt = Digits(v, Base)
  OBVIOUS
<1>14. v \in Nat /\ From(dt, ds, z)
  BY <1>9, <1>10, <1>11, <1>12, <1>13, DigitsFound
<1>15. PICK low : low = Digits(v, Byte)
  OBVIOUS
<1>16. DigitsOf(low, v, Byte)
  BY <1>11, <1>14, <1>15, DigitsDenote
<1>17. /\ low \in Seq(Nat) /\ Value(low, Byte) = v
       /\ v = 0 => Len(low) = 0
       /\ v # 0 => Len(low) > 0 /\ low[1] # 0
  <2>1. 0 .. Byte - 1 \subseteq Nat
    BY <1>11
  <2>2. low = <<>> => Len(low) = 0
    OBVIOUS
  <2>3. low \in Seq(Nat)
    BY <1>16, <2>1, SeqMonotonic, Zenon DEF DigitsOf
  <2> QED BY <1>16, <2>2, <2>3, Zenon DEF DigitsOf
<1>18. PICK o, bytes : o = Zeros(z, 0) /\ bytes = o \o low
  OBVIOUS
<1>19. DecodeBase58(s) = bytes
  BY <1>1, <1>6, <1>7, <1>12, <1>15, <1>18 DEF DecodeBase58
<1>20. z \in Nat /\ o \in Seq(Nat) /\ Len(o) = z /\ \A i \in 1 .. z : o[i] = 0
  <2>1. z \in Nat
    BY <1>5
  <2>2. o \in Seq({0}) /\ Len(o) = z /\ \A i \in 1 .. z : o[i] = 0
    BY <1>18, <2>1, ZerosAre
  <2>3. {0} \subseteq Nat
    OBVIOUS
  <2> QED BY <2>1, <2>2, <2>3, SeqMonotonic
<1>21. bytes \in Seq(Nat) /\ ZerosFirst(bytes, 0, z)
  <2>1. /\ bytes \in Seq(Nat) /\ Len(bytes) = z + Len(low) /\ Len(low) \in Nat
        /\ \A i \in 1 .. z : bytes[i] = 0
    <3>1. /\ bytes \in Seq(Nat) /\ Len(bytes) = Len(o) + Len(low)
          /\ \A i \in 1 .. Len(o) + Len(low) :
               bytes[i] = IF i <= Len(o) THEN o[i] ELSE low[i - Len(o)]
      BY <1>17, <1>18, <1>20, ConcatProperties, Zenon
    <3>2. Len(low) \in Nat
      BY <1>17
    <3> QED BY <1>20, <3>1, <3>2
  <2>2. ASSUME z < Len(bytes) PROVE bytes[z + 1] # 0
    <3>1. Len(low) > 0
      BY <1>20, <2>1, <2>2
    <3>2. low[1] # 0
      BY <1>14, <1>17, <3>1
    <3>3. bytes[z + 1] = low[1]
      BY <1>17, <1>18, <1>20, <3>1
    <3> QED BY <3>2, <3>3
  <2> QED BY <1>20, <2>1, <2>2 DEF ZerosFirst
<1>22. Leading(bytes, 0) = z
  BY <1>21, LeadingIs
<1>23. Value(bytes, Byte) = v
  BY <1>11, <1>17, <1>18, <1>20, ZerosValue
<1>24. PICK ones, chars : /\ ones = Zeros(z, one)
                          /\ chars = [i \in DOMAIN dt |-> Alphabet[dt[i] + 1]]
  OBVIOUS
<1>25. EncodeBase58(bytes) = ones \o chars
  BY <1>1, <1>13, <1>22, <1>23, <1>24 DEF EncodeBase58
<1>26. ones \in Seq({one}) /\ Len(ones) = z /\ \A i \in 1 .. z : ones[i] = one
  BY <1>20, <1>24, ZerosAre
<1>27. Len(dt) = n - z /\ Len(dt) \in Nat /\ DOMAIN dt = 1 .. Len(dt)
       /\ \A i \in 1 .. n - z : dt[i] = ds[z + i]
  BY <1>9, <1>14 DEF From
<1>28. ASSUME NEW i \in 1 .. n - z PROVE chars[i] = s[z + i]
  <2>1. z + i \in 1 .. n
    BY <1>3, <1>5
  <2>2. Alphabet[ds[z + i] + 1] = s[z + i]
    BY <1>8, <2>1
  <2> QED BY <1>24, <1>27, <2>2
<1>29. PICK X : X = {one} \union S
  OBVIOUS
<1>30. chars \in Seq(X) /\ Len(chars) = n - z
  <2>1. \A i \in 1 .. n - z : chars[i] \in X
    <3>1. \A i \in 1 .. n : s[i] \in X
      BY <1>2, <1>29
    <3> QED BY <1>3, <1>5, <1>28, <3>1
  <2> QED BY <1>24, <1>27, <2>1
<1>31. ones \in Seq(X) /\ s \in Seq(X)
  <2>1. {one} \subseteq X /\ S \subseteq X
    BY <1>29
  <2> QED BY <1>26, <2>1, SeqMonotonic, Zenon
<1>32. PICK e : e = ones \o chars
  OBVIOUS
<1>33. /\ e \in Seq(X) /\ Len(e) = n
       /\ \A i \in 1 .. n : e[i] = IF i <= z THEN one ELSE chars[i - z]
  <2>1. /\ e \in Seq(X) /\ Len(e) = Len(ones) + Len(chars)
        /\ \A i \in 1 .. Len(ones) + Len(chars) :
             e[i] = IF i <= Len(ones) THEN ones[i] ELSE chars[i - Len(ones)]
    BY <1>30, <1>31, <1>32, ConcatProperties, Zenon
  <2>2. Len(ones) + Len(chars) = n
    BY <1>3, <1>20, <1>26, <1>30
  <2>3. ASSUME NEW i \in 1 .. n PROVE e[i] = IF i <= z THEN one ELSE chars[i - z]
    BY <1>20, <1>26, <2>1, <2>2
  <2> QED BY <2>1, <2>2, <2>3
<1>34. ASSUME NEW i \in 1 .. n PROVE e[i] = s[i]
  <2>1. CASE i <= z
    BY <1>5, <1>20, <1>33, <2>1
  <2>2. CASE i > z
    <3>1. i - z \in 1 .. n - z /\ z + (i - z) = i
      BY <1>3, <1>5, <2>2
    <3>2. chars[i - z] = s[z + (i - z)]
      BY <1>28, <3>1
    <3>3. e[i] = chars[i - z]
      BY <1>20, <1>33, <2>2
    <3> QED BY <3>1, <3>2, <3>3
  <2> QED BY <1>20, <2>1, <2>2
<1>35. e = s
  BY <1>2, <1>31, <1>33, <1>34, SeqEqual
<1> QED BY <1>19, <1>25, <1>32, <1>35

LEMMA AddressEncodesBack == SiwsInv => OneAddressPerKey
<1> SUFFICES ASSUME SiwsInv, NEW m \in ParseMessage(text)
             PROVE  EncodeBase58(DecodeBase58(m.addr)) = m.addr
  BY DEF OneAddressPerKey
<1>1. MessageOK(m) /\ ValidAddress(m.addr)
  BY ParsedOK DEF SiwsInv, Parsed
<1>2. PICK S : m.addr \in Seq(S)
  BY <1>1 DEF MessageOK, IsSeq
<1>3. Decodes(m.addr)
  BY <1>1 DEF ValidAddress
<1>4. PICK s : s = m.addr
  OBVIOUS
<1> QED BY <1>2, <1>3, <1>4, DecodedEncodes

-----------------------------------------------------------------------------
(* The optional fields of the trailer, in the order of their ranks.        *)
TrailerLabels == {"Expiration Time", "Not Before", "Request ID", "Resources"}

LabelRank(x) == IF x = "Expiration Time" THEN 1
                ELSE IF x = "Not Before" THEN 2 ELSE IF x = "Request ID" THEN 3 ELSE 4

Rank(opt) == IF "Resources" \in opt THEN 4
             ELSE IF "Request ID" \in opt THEN 3
             ELSE IF "Not Before" \in opt THEN 2
             ELSE IF "Expiration Time" \in opt THEN 1 ELSE 0

(* What the parser asks of a timestamp's line.                             *)
StampOK(l) == l.label \in {"Expiration Time", "Not Before"} => validTimestamp(l.val)

(* A field is taken when none of its rank or a later one was, an item once *)
(* the resources have begun.                                               *)
Takes(p, l) ==
  \/ l.label \in TrailerLabels /\ p.stage < LabelRank(l.label) /\ StampOK(l)
  \/ l.label = "item" /\ p.stage = 4

LEMMA Taken ==
  ASSUME NEW p, DOMAIN p = DOMAIN NoTrailer, NEW l
  PROVE  /\ DOMAIN ReadTrailer(p, l) = DOMAIN NoTrailer
         /\ ReadTrailer(p, l).ok <=> Takes(p, l) /\ p.ok
         /\ Takes(p, l) =>
              ReadTrailer(p, l).stage = IF l.label = "item" THEN 4 ELSE LabelRank(l.label)
<1>1. DOMAIN p = {"stage", "ok", "exp", "nb", "reqid", "resources"}
  BY TrailerFields, Zenon
<1>2. PICK q : q = ReadTrailer(p, l)
  OBVIOUS
<1>3. ASSUME Takes(p, l)
      PROVE  /\ DOMAIN q = DOMAIN p /\ q.ok = p.ok
             /\ q.stage = IF l.label = "item" THEN 4 ELSE LabelRank(l.label)
  <2>1. CASE l.label = "Expiration Time"
    <3>1. q = [p EXCEPT !.stage = 1, !.exp = {l.val}]
      BY <1>2, <1>3, <2>1 DEF ReadTrailer, Takes, StampOK, TrailerLabels, LabelRank, Later
    <3> QED BY <1>1, <2>1, <3>1 DEF LabelRank
  <2>2. CASE l.label = "Not Before"
    <3>1. q = [p EXCEPT !.stage = 2, !.nb = {l.val}]
      BY <1>2, <1>3, <2>2 DEF ReadTrailer, Takes, StampOK, TrailerLabels, LabelRank, Later
    <3> QED BY <1>1, <2>2, <3>1 DEF LabelRank
  <2>3. CASE l.label = "Request ID"
    <3>1. q = [p EXCEPT !.stage = 3, !.reqid = l.val]
      BY <1>2, <1>3, <2>3 DEF ReadTrailer, Takes, StampOK, TrailerLabels, LabelRank, Later
    <3> QED BY <1>1, <2>3, <3>1 DEF LabelRank
  <2>4. CASE l.label = "Resources"
    <3>1. q = [p EXCEPT !.stage = 4]
      BY <1>2, <1>3, <2>4 DEF ReadTrailer, Takes, StampOK, TrailerLabels, LabelRank, Later
    <3> QED BY <1>1, <2>4, <3>1 DEF LabelRank
  <2>5. CASE l.label = "item"
    <3>1. q = [p EXCEPT !.resources = Append(@, l.val)] /\ p.stage = 4
      BY <1>2, <1>3, <2>5 DEF ReadTrailer, Takes, StampOK, TrailerLabels
    <3> QED BY <1>1, <2>5, <3>1
  <2> QED BY <1>3, <2>1, <2>2, <2>3, <2>4, <2>5 DEF Takes, TrailerLabels
<1>4. ASSUME ~Takes(p, l) PROVE DOMAIN q = DOMAIN p /\ q.ok = FALSE
  <2>1. q = [p EXCEPT !.ok = FALSE]
    BY <1>2, <1>4 DEF ReadTrailer, Takes, StampOK, TrailerLabels, LabelRank, Later
  <2> QED BY <1>1, <2>1
<1> QED BY <1>2, <1>3, <1>4, Zenon

(* The parts of a trailer, and what the rank of the last one says.         *)
Part(x, opt) == If(x \in opt, <<x>>)

Ranked(opt, r, e, n, q, s) ==
  \/ r = 4 /\ s \in opt
  \/ r = 3 /\ s \notin opt /\ q \in opt
  \/ r = 2 /\ s \notin opt /\ q \notin opt /\ n \in opt
  \/ r = 1 /\ s \notin opt /\ q \notin opt /\ n \notin opt /\ e \in opt
  \/ r = 0 /\ s \notin opt /\ q \notin opt /\ n \notin opt /\ e \notin opt

(* The four labels by name.                                                *)
Labelled(e, n, q, s) ==
  /\ TrailerLabels = {e, n, q, s}
  /\ e # n /\ e # q /\ e # s /\ n # q /\ n # s /\ q # s
  /\ LabelRank(e) = 1 /\ LabelRank(n) = 2 /\ LabelRank(q) = 3 /\ LabelRank(s) = 4
  /\ \A opt : Trailer(opt) = Part(e, opt) \o Part(n, opt) \o Part(q, opt) \o Part(s, opt)
  /\ \A opt : Ranked(opt, Rank(opt), e, n, q, s)

LEMMA LabelsNamed ==
  \E e, n, q, s : /\ e = "Expiration Time" /\ n = "Not Before" /\ q = "Request ID"
                  /\ s = "Resources" /\ Labelled(e, n, q, s)
<1>1. PICK e, n, q, s : /\ e = "Expiration Time" /\ n = "Not Before" /\ q = "Request ID"
                        /\ s = "Resources"
  OBVIOUS
<1>2. TrailerLabels = {e, n, q, s}
  BY <1>1, Zenon DEF TrailerLabels
<1>3. e # n /\ e # q /\ e # s /\ n # q /\ n # s /\ q # s
  BY <1>1, Zenon
<1>4. LabelRank(e) = 1 /\ LabelRank(n) = 2 /\ LabelRank(q) = 3 /\ LabelRank(s) = 4
  BY <1>1, <1>3, Zenon DEF LabelRank
<1>5. \A opt : Trailer(opt) = Part(e, opt) \o Part(n, opt) \o Part(q, opt) \o Part(s, opt)
  BY <1>1, Zenon DEF Trailer, Part
<1>6. ASSUME NEW opt PROVE Ranked(opt, Rank(opt), e, n, q, s)
  BY <1>1, Zenon DEF Rank, Ranked
<1> QED BY <1>1, <1>2, <1>3, <1>4, <1>5, <1>6, Zenon DEF Labelled

LEMMA RankRange ==
  ASSUME NEW opt
  PROVE  Rank(opt) \in 0 .. 4 /\ (Rank(opt) = 4 <=> "Resources" \in opt)
<1>1. PICK e, n, q, s : s = "Resources" /\ Labelled(e, n, q, s)
  BY LabelsNamed, Zenon
<1>2. PICK r : r = Rank(opt)
  OBVIOUS
<1>3. Ranked(opt, r, e, n, q, s)
  BY <1>1, <1>2, Zenon DEF Labelled
<1>4. r \in 0 .. 4 /\ (r = 4 <=> s \in opt)
  BY <1>3 DEF Ranked
<1> QED BY <1>1, <1>2, <1>4, Zenon

LEMMA PartSeq ==
  ASSUME NEW x \in TrailerLabels, NEW opt
  PROVE  /\ Part(x, opt) \in Seq(TrailerLabels)
         /\ x \in opt => Part(x, opt) = <<x>>
         /\ x \notin opt => Part(x, opt) = <<>>
<1>1. PICK L, w : L = TrailerLabels /\ w = <<x>>
  OBVIOUS
<1>2. w \in Seq(L) /\ <<>> \in Seq(L)
  BY <1>1
<1>3. (x \in opt => Part(x, opt) = w) /\ (x \notin opt => Part(x, opt) = <<>>)
  BY <1>1, Zenon DEF Part, If
<1> QED BY <1>1, <1>2, <1>3, Zenon

LEMMA TrailerIsSeq ==
  ASSUME NEW opt
  PROVE  Trailer(opt) \in Seq(TrailerLabels) /\ (Rank(opt) = 0 => Len(Trailer(opt)) = 0)
<1>1. PICK e, n, q, s : Labelled(e, n, q, s)
  BY LabelsNamed, Zenon
<1>2. PICK a, b, c, d : /\ a = Part(e, opt) /\ b = Part(n, opt)
                        /\ c = Part(q, opt) /\ d = Part(s, opt)
  OBVIOUS
<1>3. PICK L : L = TrailerLabels
  OBVIOUS
<1>4. e \in L /\ n \in L /\ q \in L /\ s \in L
  BY <1>1, <1>3, Zenon DEF Labelled
<1>5. a \in Seq(L) /\ b \in Seq(L) /\ c \in Seq(L) /\ d \in Seq(L)
  BY <1>2, <1>3, <1>4, PartSeq, Zenon
<1>6. a \o b \o c \o d \in Seq(L)
  BY <1>5
<1>7. Trailer(opt) = a \o b \o c \o d
  BY <1>1, <1>2, Zenon DEF Labelled
<1>8. ASSUME Rank(opt) = 0 PROVE Len(a \o b \o c \o d) = 0
  <2>1. PICK r : r = Rank(opt)
    OBVIOUS
  <2>2. Ranked(opt, r, e, n, q, s)
    BY <1>1, <2>1, Zenon DEF Labelled
  <2>3. e \notin opt /\ n \notin opt /\ q \notin opt /\ s \notin opt
    BY <1>8, <2>1, <2>2 DEF Ranked
  <2>4. a = <<>> /\ b = <<>> /\ c = <<>> /\ d = <<>>
    BY <1>2, <1>3, <1>4, <2>3, PartSeq, Zenon
  <2> QED BY <2>4
<1> QED BY <1>3, <1>6, <1>7, <1>8

(* A field after all the others goes to the end.                           *)
LEMMA TrailerGrows ==
  ASSUME NEW opt, NEW x \in TrailerLabels, Rank(opt) < LabelRank(x)
  PROVE  /\ Trailer(opt \union {x}) = Trailer(opt) \o <<x>>
         /\ Rank(opt \union {x}) = LabelRank(x)
<1>1. PICK e, n, q, s : Labelled(e, n, q, s)
  BY LabelsNamed, Zenon
<1>2. PICK more : more = opt \union {x}
  OBVIOUS
<1>3. PICK a, b, c, d : /\ a = Part(e, opt) /\ b = Part(n, opt)
                        /\ c = Part(q, opt) /\ d = Part(s, opt)
  OBVIOUS
<1>4. PICK f, g, h, i : /\ f = Part(e, more) /\ g = Part(n, more)
                        /\ h = Part(q, more) /\ i = Part(s, more)
  OBVIOUS
<1>5. Trailer(opt) = a \o b \o c \o d /\ Trailer(more) = f \o g \o h \o i
  BY <1>1, <1>3, <1>4, Zenon DEF Labelled
<1>6. PICK L, w : L = TrailerLabels /\ w = <<x>>
  OBVIOUS
<1>7. e \in L /\ n \in L /\ q \in L /\ s \in L
  BY <1>1, <1>6, Zenon DEF Labelled
<1>8. a \in Seq(L) /\ b \in Seq(L) /\ c \in Seq(L) /\ d \in Seq(L)
  BY <1>3, <1>6, <1>7, PartSeq, Zenon
<1>9. w \in Seq(L) /\ <<>> \in Seq(L)
  BY <1>6
<1>10. PICK r, k : r = Rank(opt) /\ k = LabelRank(x)
  OBVIOUS
<1>11. PICK t : t = Rank(more)
  OBVIOUS
<1>12. Ranked(opt, r, e, n, q, s) /\ Ranked(more, t, e, n, q, s) /\ r < k
  BY <1>1, <1>10, <1>11, Zenon DEF Labelled
<1>13. /\ x = e \/ x = n \/ x = q \/ x = s
       /\ e # n /\ e # q /\ e # s /\ n # q /\ n # s /\ q # s
       /\ (x = e => k = 1) /\ (x = n => k = 2) /\ (x = q => k = 3) /\ (x = s => k = 4)
  <2>1. x \in {e, n, q, s}
    BY <1>1, Zenon DEF Labelled
  <2>2. x = e \/ x = n \/ x = q \/ x = s
    BY <2>1, Zenon
  <2> QED BY <1>1, <1>10, <2>2, Zenon DEF Labelled
<1>14. /\ x \in more /\ (x # e => (e \in more <=> e \in opt))
       /\ x # n => (n \in more <=> n \in opt)
       /\ x # q => (q \in more <=> q \in opt)
       /\ x # s => (s \in more <=> s \in opt)
  BY <1>2, Zenon
<1>15. ASSUME NEW y \in L
       PROVE  /\ y \notin opt => Part(y, opt) = <<>>
              /\ y \notin more => Part(y, more) = <<>>
              /\ (y \in more <=> y \in opt) => Part(y, more) = Part(y, opt)
  BY <1>6, PartSeq, Zenon
<1>16. Part(x, more) = w
  BY <1>6, <1>14, PartSeq, Zenon
<1>17. Trailer(more) = Trailer(opt) \o w /\ t = k
  <2>1. CASE x = e
    <3>1. e \notin opt /\ n \notin opt /\ q \notin opt /\ s \notin opt
      BY <1>12, <1>13, <2>1 DEF Ranked
    <3>2. n \notin more /\ q \notin more /\ s \notin more
      BY <1>13, <1>14, <2>1, <3>1, Zenon
    <3>3. /\ a = <<>> /\ b = <<>> /\ c = <<>> /\ d = <<>>
          /\ f = w /\ g = <<>> /\ h = <<>> /\ i = <<>>
      BY <1>3, <1>4, <1>7, <1>15, <1>16, <2>1, <3>1, <3>2, Zenon
    <3>4. f \o g \o h \o i = w
      BY <1>9, <3>3, ConcatEmptySeq
    <3>5. (a \o b \o c \o d) \o w = w
      BY <1>9, <3>3, ConcatEmptySeq
    <3>6. t = k
      BY <1>12, <1>13, <1>14, <2>1, <3>2 DEF Ranked
    <3> QED BY <1>5, <3>4, <3>5, <3>6, Zenon
  <2>2. CASE x = n
    <3>1. n \notin opt /\ q \notin opt /\ s \notin opt
      BY <1>12, <1>13, <2>2 DEF Ranked
    <3>2. q \notin more /\ s \notin more /\ (e \in more <=> e \in opt)
      BY <1>13, <1>14, <2>2, <3>1, Zenon
    <3>3. b = <<>> /\ c = <<>> /\ d = <<>> /\ f = a /\ g = w /\ h = <<>> /\ i = <<>>
      BY <1>3, <1>4, <1>7, <1>15, <1>16, <2>2, <3>1, <3>2, Zenon
    <3>4. f \o g \o h \o i = a \o w
      BY <1>8, <1>9, <3>3, ConcatEmptySeq
    <3>5. a \o b \o c \o d = a
      BY <1>8, <1>9, <3>3, ConcatEmptySeq
    <3>6. t = k
      BY <1>12, <1>13, <1>14, <2>2, <3>2 DEF Ranked
    <3> QED BY <1>5, <3>4, <3>5, <3>6, Zenon
  <2>3. CASE x = q
    <3>1. q \notin opt /\ s \notin opt
      BY <1>12, <1>13, <2>3 DEF Ranked
    <3>2. s \notin more /\ (e \in more <=> e \in opt) /\ (n \in more <=> n \in opt)
      BY <1>13, <1>14, <2>3, <3>1, Zenon
    <3>3. c = <<>> /\ d = <<>> /\ f = a /\ g = b /\ h = w /\ i = <<>>
      BY <1>3, <1>4, <1>7, <1>15, <1>16, <2>3, <3>1, <3>2, Zenon
    <3>4. f \o g \o h \o i = (a \o b) \o w
      BY <1>8, <1>9, <3>3, ConcatEmptySeq
    <3>5. a \o b \o c \o d = a \o b
      BY <1>8, <1>9, <3>3, ConcatEmptySeq
    <3>6. t = k
      BY <1>12, <1>13, <1>14, <2>3, <3>2 DEF Ranked
    <3> QED BY <1>5, <3>4, <3>5, <3>6, Zenon
  <2>4. CASE x = s
    <3>1. s \notin opt
      BY <1>12, <1>13, <2>4 DEF Ranked
    <3>2. /\ e \in more <=> e \in opt
          /\ n \in more <=> n \in opt
          /\ q \in more <=> q \in opt
      BY <1>13, <1>14, <2>4, <3>1, Zenon
    <3>3. d = <<>> /\ f = a /\ g = b /\ h = c /\ i = w
      BY <1>3, <1>4, <1>7, <1>15, <1>16, <2>4, <3>1, <3>2, Zenon
    <3>4. PICK u : u = a \o b \o c
      OBVIOUS
    <3>5. u \in Seq(L)
      BY <1>8, <3>4
    <3>6. u \o <<>> = u
      BY <3>5, ConcatEmptySeq
    <3>7. t = k
      BY <1>12, <1>13, <1>14, <2>4 DEF Ranked
    <3> QED BY <1>5, <3>3, <3>4, <3>6, <3>7, Zenon
  <2> QED BY <1>13, <2>1, <2>2, <2>3, <2>4, Zenon
<1> QED BY <1>2, <1>6, <1>10, <1>11, <1>17, Zenon

(* Every trailer but the empty one has a last field.                       *)
LEMMA TrailerLast ==
  ASSUME NEW opt \in SUBSET TrailerLabels, Rank(opt) # 0
  PROVE  \E o \in SUBSET TrailerLabels, x \in TrailerLabels :
           opt = o \union {x} /\ Rank(o) < LabelRank(x)
<1>1. PICK e, n, q, s : Labelled(e, n, q, s)
  BY LabelsNamed, Zenon
<1>2. PICK r : r = Rank(opt)
  OBVIOUS
<1>3. Ranked(opt, r, e, n, q, s) /\ r # 0
  BY <1>1, <1>2, Zenon DEF Labelled
<1>4. ASSUME NEW x \in opt,
             NEW k, k = LabelRank(x), \A p : Ranked(opt \ {x}, p, e, n, q, s) => p < k
      PROVE  \E o \in SUBSET TrailerLabels, y \in TrailerLabels :
               opt = o \union {y} /\ Rank(o) < LabelRank(y)
  <2>1. PICK o : o = opt \ {x}
    OBVIOUS
  <2>2. PICK p : p = Rank(o)
    OBVIOUS
  <2>3. Ranked(o, p, e, n, q, s)
    BY <1>1, <2>2, Zenon DEF Labelled
  <2>4. p < k
    BY <1>4, <2>1, <2>3, Zenon
  <2>5. opt = o \union {x} /\ o \in SUBSET TrailerLabels /\ x \in TrailerLabels
    BY <2>1
  <2> QED BY <1>4, <2>2, <2>4, <2>5, Zenon
<1>5. /\ 1 = LabelRank(e) /\ 2 = LabelRank(n) /\ 3 = LabelRank(q) /\ 4 = LabelRank(s)
  BY <1>1, Zenon DEF Labelled
<1>6. CASE s \in opt
  <2>1. \A p : Ranked(opt \ {s}, p, e, n, q, s) => p < 4
    BY DEF Ranked
  <2> QED BY <1>4, <1>5, <1>6, <2>1, Zenon
<1>7. CASE s \notin opt /\ q \in opt
  <2>1. \A p : Ranked(opt \ {q}, p, e, n, q, s) => p < 3
    BY <1>7 DEF Ranked
  <2> QED BY <1>4, <1>5, <1>7, <2>1, Zenon
<1>8. CASE s \notin opt /\ q \notin opt /\ n \in opt
  <2>1. \A p : Ranked(opt \ {n}, p, e, n, q, s) => p < 2
    BY <1>8 DEF Ranked
  <2> QED BY <1>4, <1>5, <1>8, <2>1, Zenon
<1>9. CASE s \notin opt /\ q \notin opt /\ n \notin opt
  <2>1. e \in opt
    BY <1>3, <1>9 DEF Ranked
  <2>2. \A p : Ranked(opt \ {e}, p, e, n, q, s) => p < 1
    BY <1>9 DEF Ranked
  <2> QED BY <1>4, <1>5, <2>1, <2>2, Zenon
<1> QED BY <1>6, <1>7, <1>8, <1>9, Zenon

(* The first i lines of s are a trailer with the fields opt, and items.    *)
Fits(s, i, opt) ==
  /\ Len(Trailer(opt)) <= i
  /\ \A j \in 1 .. i : s[j].label = IF j <= Len(Trailer(opt)) THEN Trailer(opt)[j] ELSE "item"
  /\ "Resources" \in opt \/ i = Len(Trailer(opt))

Stamped(s, i) == \A j \in 1 .. i : StampOK(s[j])

(* What has been read of them.                                             *)
ReadSoFar(p, s, i) ==
  /\ DOMAIN p = DOMAIN NoTrailer
  /\ p.ok <=> Stamped(s, i) /\ \E opt \in SUBSET TrailerLabels : Fits(s, i, opt)
  /\ \A opt \in SUBSET TrailerLabels : Fits(s, i, opt) /\ Stamped(s, i) => p.stage = Rank(opt)

LEMMA ReadsNothing ==
  ASSUME NEW s
  PROVE  ReadSoFar(NoTrailer, s, 0)
<1>1. NoTrailer.ok = TRUE /\ NoTrailer.stage = 0
  BY Zenon DEF NoTrailer
<1>2. Stamped(s, 0)
  BY DEF Stamped
<1>3. Fits(s, 0, {}) /\ Rank({}) = 0
  <2>1. Rank({}) = 0
    BY Zenon DEF Rank
  <2>2. PICK t : t = Trailer({})
    OBVIOUS
  <2>3. Len(t) = 0
    BY <2>1, <2>2, TrailerIsSeq
  <2> QED BY <2>1, <2>2, <2>3 DEF Fits
<1>4. ASSUME NEW opt \in SUBSET TrailerLabels, Fits(s, 0, opt) PROVE Rank(opt) = 0
  <2>1. CASE Rank(opt) # 0
    <3>1. PICK o \in SUBSET TrailerLabels, x \in TrailerLabels :
                 opt = o \union {x} /\ Rank(o) < LabelRank(x)
      BY <2>1, TrailerLast
    <3>2. PICK t, w : t = Trailer(o) /\ w = Trailer(opt)
      OBVIOUS
    <3>3. t \in Seq(TrailerLabels) /\ w = t \o <<x>>
      BY <3>1, <3>2, TrailerIsSeq, TrailerGrows
    <3>4. Len(w) = Len(t) + 1 /\ Len(t) \in Nat
      BY <3>3
    <3>5. Len(w) <= 0
      BY <1>4, <3>2 DEF Fits
    <3> QED BY <3>4, <3>5
  <2> QED BY <2>1
<1>5. {} \in SUBSET TrailerLabels
  OBVIOUS
<1> QED BY <1>1, <1>2, <1>3, <1>4, <1>5, Zenon DEF ReadSoFar

LEMMA LabelRankRange ==
  ASSUME NEW x \in TrailerLabels
  PROVE  LabelRank(x) \in 1 .. 4 /\ x # "item" /\ (LabelRank(x) = 4 <=> x = "Resources")
<1>1. PICK e, n, q, s : s = "Resources" /\ Labelled(e, n, q, s)
  BY LabelsNamed, Zenon
<1>2. PICK k : k = LabelRank(x)
  OBVIOUS
<1>3. (k = 1 /\ x # s) \/ (k = 2 /\ x # s) \/ (k = 3 /\ x # s) \/ (k = 4 /\ x = s)
  BY <1>1, <1>2, Zenon DEF Labelled
<1>4. k \in 1 .. 4 /\ (k = 4 <=> x = s)
  BY <1>3
<1>5. x # "item"
  BY Zenon DEF TrailerLabels
<1> QED BY <1>1, <1>2, <1>4, <1>5, Zenon

(* One line more: it is taken when the lines with it still are a trailer.  *)
LEMMA ReadOneMore ==
  ASSUME NEW s, NEW i \in Nat, NEW p, ReadSoFar(p, s, i), NEW l, l = s[i + 1]
  PROVE  ReadSoFar(ReadTrailer(p, l), s, i + 1)
<1>1. PICK q : q = ReadTrailer(p, l)
  OBVIOUS
<1>2. /\ DOMAIN q = DOMAIN NoTrailer
      /\ q.ok <=> Takes(p, l) /\ p.ok
      /\ Takes(p, l) => q.stage = IF l.label = "item" THEN 4 ELSE LabelRank(l.label)
  <2>1. DOMAIN p = DOMAIN NoTrailer
    BY Zenon DEF ReadSoFar
  <2> QED BY <1>1, <2>1, Taken, Zenon
<1>3. PICK m : m = i + 1
  OBVIOUS
<1>4. m \in Nat /\ m \in 1 .. m /\ l = s[m] /\ 1 .. m = (1 .. i) \union {m} /\ m \notin 1 .. i
  BY <1>3
<1>5. Stamped(s, m) <=> Stamped(s, i) /\ StampOK(l)
  BY <1>4, Zenon DEF Stamped
<1>6. ASSUME q.ok PROVE Stamped(s, m) /\ \E opt \in SUBSET TrailerLabels : Fits(s, m, opt)
  <2>1. Takes(p, l) /\ p.ok
    BY <1>2, <1>6, Zenon
  <2>2. Stamped(s, i)
    BY <2>1, Zenon DEF ReadSoFar
  <2>3. PICK opt \in SUBSET TrailerLabels : Fits(s, i, opt)
    BY <2>1, Zenon DEF ReadSoFar
  <2>4. p.stage = Rank(opt)
    BY <2>2, <2>3, Zenon DEF ReadSoFar
  <2>5. PICK t : t = Trailer(opt)
    OBVIOUS
  <2>6. t \in Seq(TrailerLabels) /\ Len(t) \in Nat
    BY <2>5, TrailerIsSeq
  <2>7. /\ Len(t) <= i
        /\ \A j \in 1 .. i : s[j].label = IF j <= Len(t) THEN t[j] ELSE "item"
        /\ "Resources" \in opt \/ i = Len(t)
    BY <2>3, <2>5, Zenon DEF Fits
  <2>8. CASE l.label \in TrailerLabels /\ p.stage < LabelRank(l.label) /\ StampOK(l)
    <3>1. PICK x \in TrailerLabels : x = l.label
      BY <2>8
    <3>2. Rank(opt) < LabelRank(x)
      BY <2>4, <2>8, <3>1, Zenon
    <3>3. "Resources" \notin opt
      BY <3>2, RankRange, LabelRankRange
    <3>4. PICK more, w : more = opt \union {x} /\ w = Trailer(more)
      OBVIOUS
    <3>5. w = t \o <<x>>
      BY <2>5, <3>2, <3>4, TrailerGrows, Zenon
    <3>6. Len(w) = Len(t) + 1 /\ w[Len(t) + 1] = x /\ \A j \in 1 .. Len(t) : w[j] = t[j]
      BY <2>6, <3>5
    <3>7. i = Len(t)
      BY <2>7, <3>3
    <3>8. Len(w) = m /\ w[m] = x /\ \A j \in 1 .. i : w[j] = t[j]
      BY <1>3, <3>6, <3>7
    <3>9. ASSUME NEW j \in 1 .. m PROVE s[j].label = IF j <= Len(w) THEN w[j] ELSE "item"
      <4>1. CASE j = m
        BY <1>4, <3>1, <3>8, <4>1
      <4>2. CASE j # m
        <5>1. j \in 1 .. i /\ j <= Len(t) /\ j <= Len(w)
          BY <1>3, <3>7, <3>8, <4>2
        <5> QED BY <2>7, <3>8, <5>1
      <4> QED BY <4>1, <4>2
    <3>10. Fits(s, m, more)
      <4>1. Len(w) <= m
        BY <1>4, <3>8
      <4> QED BY <3>4, <3>8, <3>9, <4>1, Zenon DEF Fits
    <3>11. more \in SUBSET TrailerLabels
      BY <3>4
    <3> QED BY <1>5, <2>2, <2>8, <3>10, <3>11, Zenon
  <2>9. CASE l.label = "item" /\ p.stage = 4
    <3>1. "Resources" \in opt
      BY <2>4, <2>9, RankRange
    <3>2. ASSUME NEW j \in 1 .. m PROVE s[j].label = IF j <= Len(t) THEN t[j] ELSE "item"
      <4>1. CASE j = m
        <5>1. ~(j <= Len(t))
          BY <1>3, <2>6, <2>7, <4>1
        <5> QED BY <1>4, <2>9, <4>1, <5>1
      <4>2. CASE j # m
        <5>1. j \in 1 .. i
          BY <1>3, <4>2
        <5> QED BY <2>7, <5>1
      <4> QED BY <4>1, <4>2
    <3>3. Len(t) <= m
      BY <1>3, <2>6, <2>7
    <3>4. Fits(s, m, opt)
      BY <2>5, <3>1, <3>2, <3>3, Zenon DEF Fits
    <3>5. StampOK(l)
      <4>1. "item" \notin {"Expiration Time", "Not Before"}
        BY Zenon
      <4> QED BY <2>9, <4>1, Zenon DEF StampOK
    <3> QED BY <1>5, <2>2, <3>4, <3>5, Zenon
  <2> QED BY <2>1, <2>8, <2>9, Zenon DEF Takes
<1>7. ASSUME NEW opt \in SUBSET TrailerLabels, Fits(s, m, opt), Stamped(s, m)
      PROVE  q.ok /\ q.stage = Rank(opt)
  <2>1. PICK w : w = Trailer(opt)
    OBVIOUS
  <2>2. w \in Seq(TrailerLabels) /\ Len(w) \in Nat
    BY <2>1, TrailerIsSeq
  <2>3. /\ Len(w) <= m
        /\ \A j \in 1 .. m : s[j].label = IF j <= Len(w) THEN w[j] ELSE "item"
        /\ "Resources" \in opt \/ m = Len(w)
    BY <1>7, <2>1, Zenon DEF Fits
  <2>4. Stamped(s, i) /\ StampOK(l)
    BY <1>5, <1>7, Zenon
  <2>5. CASE m # Len(w)
    <3>1. Len(w) <= i /\ "Resources" \in opt /\ ~(m <= Len(w))
      BY <1>3, <2>2, <2>3, <2>5
    <3>2. l.label = "item"
      BY <1>4, <2>3, <3>1
    <3>3. \A j \in 1 .. i : s[j].label = IF j <= Len(w) THEN w[j] ELSE "item"
      BY <1>4, <2>3
    <3>4. Fits(s, i, opt)
      BY <2>1, <3>1, <3>3, Zenon DEF Fits
    <3>5. p.ok /\ p.stage = Rank(opt)
      BY <2>4, <3>4, Zenon DEF ReadSoFar
    <3>6. Rank(opt) = 4
      BY <3>1, RankRange
    <3>7. Takes(p, l)
      BY <3>2, <3>5, <3>6, Zenon DEF Takes
    <3> QED BY <1>2, <3>2, <3>5, <3>6, <3>7, Zenon
  <2>6. CASE m = Len(w)
    <3>1. Rank(opt) # 0
      <4>1. Len(w) # 0
        BY <1>3, <2>6
      <4> QED BY <2>1, <4>1, TrailerIsSeq
    <3>2. PICK o \in SUBSET TrailerLabels, x \in TrailerLabels :
                 opt = o \union {x} /\ Rank(o) < LabelRank(x)
      BY <3>1, TrailerLast
    <3>3. PICK t : t = Trailer(o)
      OBVIOUS
    <3>4. w = t \o <<x>> /\ Rank(opt) = LabelRank(x)
      BY <2>1, <3>2, <3>3, TrailerGrows, Zenon
    <3>5. t \in Seq(TrailerLabels)
      BY <3>3, TrailerIsSeq
    <3>6. /\ Len(w) = Len(t) + 1 /\ w[Len(t) + 1] = x /\ Len(t) \in Nat
          /\ \A j \in 1 .. Len(t) : w[j] = t[j]
      BY <3>4, <3>5
    <3>7. Len(t) = i /\ w[m] = x
      BY <1>3, <2>6, <3>6
    <3>8. l.label = x
      BY <1>4, <2>3, <2>6, <3>7
    <3>9. ASSUME NEW j \in 1 .. i PROVE s[j].label = IF j <= Len(t) THEN t[j] ELSE "item"
      <4>1. j \in 1 .. m /\ j <= Len(w) /\ j \in 1 .. Len(t) /\ j <= Len(t)
        BY <1>3, <2>6, <3>7
      <4> QED BY <2>3, <3>6, <4>1
    <3>10. Len(t) <= i
      BY <3>7
    <3>11. Fits(s, i, o)
      BY <3>3, <3>7, <3>9, <3>10, Zenon DEF Fits
    <3>12. p.ok /\ p.stage = Rank(o)
      BY <2>4, <3>11, Zenon DEF ReadSoFar
    <3>13. Takes(p, l)
      BY <2>4, <3>2, <3>8, <3>12, Zenon DEF Takes
    <3>14. l.label # "item"
      BY <3>8, LabelRankRange, Zenon
    <3> QED BY <1>2, <3>4, <3>8, <3>12, <3>13, <3>14, Zenon
  <2> QED BY <2>5, <2>6
<1>8. ReadSoFar(q, s, m)
  BY <1>2, <1>6, <1>7, Zenon DEF ReadSoFar
<1> QED BY <1>1, <1>3, <1>8, Zenon

(* The trailer's reader accepts the trailers of the grammar.               *)
LEMMA TrailerGrammar ==
  ASSUME NEW S, NEW s \in Seq(S)
  PROVE  FoldLeft(ReadTrailer, NoTrailer, s).ok <=>
           /\ Stamped(s, Len(s))
           /\ \E opt \in SUBSET TrailerLabels : Fits(s, Len(s), opt)
<1>1. PICK read : /\ FoldLeft(ReadTrailer, NoTrailer, s) = read[Len(s)]
                  /\ read[0] = NoTrailer
                  /\ \A i \in 1 .. Len(s) : read[i] = ReadTrailer(read[i - 1], s[i])
  BY TrailerRead
<1>2. PICK n : n = Len(s)
  OBVIOUS
<1>3. n \in Nat
  BY <1>2
<1> DEFINE T == {i \in 0 .. n : ~ReadSoFar(read[i], s, i)}
<1>4. T = {}
  <2> SUFFICES ASSUME T # {} PROVE FALSE
    OBVIOUS
  <2>1. T \in SUBSET Nat
    BY <1>3
  <2>2. PICK k \in T : \A j \in T : k <= j
    BY <2>1, NatHasLeast, Zenon
  <2>3. k \in 0 .. n /\ ~ReadSoFar(read[k], s, k)
    BY <2>2
  <2>4. CASE k = 0
    BY <1>1, <2>3, <2>4, ReadsNothing
  <2>5. CASE k # 0
    <3>1. PICK i : i = k - 1
      OBVIOUS
    <3>2. i \in Nat /\ i \in 0 .. n /\ i < k /\ k = i + 1 /\ k \in 1 .. n
      BY <1>3, <2>3, <2>5, <3>1
    <3>3. i \notin T
      <4> HIDE DEF T
      <4> QED BY <2>2, <2>3, <3>2
    <3>4. ReadSoFar(read[i], s, i)
      BY <3>2, <3>3
    <3>5. PICK l : l = s[k]
      OBVIOUS
    <3>6. read[k] = ReadTrailer(read[i], l)
      BY <1>1, <1>2, <3>1, <3>2, <3>5
    <3>7. l = s[i + 1]
      BY <3>2, <3>5, Zenon
    <3>8. ReadSoFar(ReadTrailer(read[i], l), s, i + 1)
      BY <3>2, <3>4, <3>7, ReadOneMore, Zenon
    <3> QED BY <2>3, <3>2, <3>6, <3>8, Zenon
  <2> QED BY <2>4, <2>5
<1>5. ReadSoFar(read[n], s, n)
  BY <1>3, <1>4
<1> QED BY <1>1, <1>2, <1>5, Zenon DEF ReadSoFar

-----------------------------------------------------------------------------
(* The lines after the first o start with the labels s.                    *)
Matches(ls, o, s) == o + Len(s) <= Len(ls) /\ \A i \in 1 .. Len(s) : ls[o + i].label = s[i]

LEMMA MatchesFew ==
  ASSUME NEW ls, IsSeq(ls), NEW u \in Nat \ {0}, NEW a, NEW b
  PROVE  /\ Matches(ls, u - 1, <<>>) <=> u - 1 <= Len(ls)
         /\ Matches(ls, u - 1, <<a>>) <=> At(ls, u, a)
         /\ Matches(ls, u - 1, <<a, b>>) <=> At(ls, u, a) /\ At(ls, u + 1, b)
<1>1. Len(ls) \in Nat
  BY DEF IsSeq
<1>2. Matches(ls, u - 1, <<>>) <=> u - 1 <= Len(ls)
  BY <1>1 DEF Matches
<1>3. Matches(ls, u - 1, <<a>>) <=> At(ls, u, a)
  <2>1. PICK s : s = <<a>>
    OBVIOUS
  <2>2. Len(s) = 1 /\ s[1] = a
    BY <2>1
  <2>3. \A i : i \in 1 .. 1 <=> i = 1
    OBVIOUS
  <2> QED BY <1>1, <2>1, <2>2, <2>3 DEF Matches, At
<1>4. Matches(ls, u - 1, <<a, b>>) <=> At(ls, u, a) /\ At(ls, u + 1, b)
  <2>1. PICK s : s = <<a, b>>
    OBVIOUS
  <2>2. Len(s) = 2 /\ s[1] = a /\ s[2] = b
    BY <2>1
  <2>3. \A i : i \in 1 .. 2 <=> i = 1 \/ i = 2
    OBVIOUS
  <2> QED BY <1>1, <2>1, <2>2, <2>3 DEF Matches, At
<1> QED BY <1>2, <1>3, <1>4

BothMatch(ls, o, j, s, t) ==
  /\ IsSeq(j) /\ Len(j) = Len(s) + Len(t)
  /\ Matches(ls, o, j) <=> Matches(ls, o, s) /\ Matches(ls, o + Len(s), t)

LEMMA MatchesBoth ==
  ASSUME NEW ls, IsSeq(ls), NEW o \in Nat, NEW s, NEW t, IsSeq(s), IsSeq(t)
  PROVE  BothMatch(ls, o, s \o t, s, t)
<1>1. PICK j : j = s \o t
  OBVIOUS
<1>2. Follows(j, s, t)
  BY <1>1, Prefixed, Zenon
<1>3. PICK a, c, n : a = Len(s) /\ c = Len(t) /\ n = Len(ls)
  OBVIOUS
<1>4. /\ a \in Nat /\ c \in Nat /\ Len(j) = a + c
      /\ \A i \in 1 .. a : j[i] = s[i]
      /\ \A i \in 1 .. c : j[a + i] = t[i]
  BY <1>2, <1>3 DEF Follows
<1>5. n \in Nat
  BY <1>3 DEF IsSeq
<1>6. ASSUME Matches(ls, o, j) PROVE Matches(ls, o, s) /\ Matches(ls, o + a, t)
  <2>1. o + a + c <= n /\ \A i \in 1 .. a + c : ls[o + i].label = j[i]
    BY <1>3, <1>4, <1>6 DEF Matches
  <2>2. \A i \in 1 .. a : ls[o + i].label = s[i]
    BY <1>4, <2>1
  <2>3. ASSUME NEW i \in 1 .. c PROVE ls[o + a + i].label = t[i]
    <3>1. a + i \in 1 .. a + c /\ o + (a + i) = o + a + i
      BY <1>4
    <3>2. ls[o + (a + i)].label = j[a + i] /\ j[a + i] = t[i]
      BY <1>4, <2>1, <3>1
    <3> QED BY <3>1, <3>2
  <2>4. o + a <= n /\ (o + a) + c <= n
    BY <1>4, <1>5, <2>1
  <2> QED BY <1>3, <2>2, <2>3, <2>4 DEF Matches
<1>7. ASSUME Matches(ls, o, s), Matches(ls, o + a, t) PROVE Matches(ls, o, j)
  <2>1. /\ o + a + c <= n
        /\ \A i \in 1 .. a : ls[o + i].label = s[i]
        /\ \A i \in 1 .. c : ls[o + a + i].label = t[i]
    BY <1>3, <1>7 DEF Matches
  <2>2. ASSUME NEW i \in 1 .. a + c PROVE ls[o + i].label = j[i]
    <3>1. CASE i <= a
      BY <1>4, <2>1, <3>1
    <3>2. CASE i > a
      <4>1. PICK k : k = i - a
        OBVIOUS
      <4>2. k \in 1 .. c /\ i = a + k /\ o + i = o + a + k
        BY <1>4, <3>2, <4>1
      <4> QED BY <1>4, <2>1, <4>2
    <3> QED BY <1>4, <3>1, <3>2
  <2>3. o + (a + c) <= n
    BY <1>4, <2>1
  <2> QED BY <1>3, <1>4, <2>2, <2>3 DEF Matches
<1>8. IsSeq(j)
  BY <1>2 DEF Follows
<1> QED BY <1>1, <1>3, <1>4, <1>6, <1>7, <1>8, Zenon DEF BothMatch

(* The layout before the trailer.                                          *)
Before(st, chain) ==
  <<"header", "text", "">> \o st \o <<"URI", "Version">> \o If(chain, <<"Chain ID">>)
    \o <<"Nonce", "Issued At">>

LEMMA LayoutIs ==
  ASSUME NEW st, NEW opt
  PROVE  Layout(st, opt) = Before(st, "Chain ID" \in opt) \o Trailer(opt)
  BY Zenon DEF Layout, Before

(* The URI at line u, the nonce at line k, and what stands before them.    *)
Opened(ls, st, u, chain, k) ==
  /\ At(ls, 1, "header") /\ At(ls, 2, "text") /\ At(ls, 3, "")
  /\ \/ st = <<>> /\ u = 4
     \/ u = 6 /\ \E a : st = <<a, "">> /\ At(ls, 4, a) /\ At(ls, 5, "")
  /\ At(ls, u, "URI") /\ At(ls, u + 1, "Version")
  /\ (chain /\ k = u + 3 /\ At(ls, u + 2, "Chain ID")) \/ (~chain /\ k = u + 2)
  /\ At(ls, k, "Nonce") /\ At(ls, k + 1, "Issued At")

LEMMA MatchesThree ==
  ASSUME NEW ls, IsSeq(ls), NEW a, NEW b, NEW c
  PROVE  /\ Matches(ls, 0, <<a, b, c>>) <=> At(ls, 1, a) /\ At(ls, 2, b) /\ At(ls, 3, c)
         /\ IsSeq(<<a, b, c>>) /\ Len(<<a, b, c>>) = 3
<1>1. Len(ls) \in Nat
  BY DEF IsSeq
<1>2. PICK s : s = <<a, b, c>>
  OBVIOUS
<1>3. s \in Seq({a, b, c}) /\ Len(s) = 3 /\ s[1] = a /\ s[2] = b /\ s[3] = c
  BY <1>2
<1>4. \A i : i \in 1 .. 3 <=> i = 1 \/ i = 2 \/ i = 3
  OBVIOUS
<1>5. Matches(ls, 0, s) <=> At(ls, 1, a) /\ At(ls, 2, b) /\ At(ls, 3, c)
  BY <1>1, <1>3, <1>4 DEF Matches, At
<1> QED BY <1>2, <1>3, <1>5, Zenon DEF IsSeq

LEMMA FewSeq ==
  ASSUME NEW a, NEW b
  PROVE  /\ IsSeq(<<>>) /\ Len(<<>>) = 0
         /\ IsSeq(<<a>>) /\ Len(<<a>>) = 1
         /\ IsSeq(<<a, b>>) /\ Len(<<a, b>>) = 2
<1>1. <<>> \in Seq({a}) /\ <<a>> \in Seq({a}) /\ <<a, b>> \in Seq({a, b})
  OBVIOUS
<1> QED BY <1>1 DEF IsSeq

(* Five parts, of which the second and the fourth may be empty.            *)
AllMatch(ls, x, p, st, q, d, r, u, k) ==
  /\ IsSeq(x) /\ Len(x) = k + 1
  /\ Matches(ls, 0, x) <=>
       /\ Matches(ls, 0, p) /\ Matches(ls, 4 - 1, st) /\ Matches(ls, u - 1, q)
       /\ Matches(ls, (u + 2) - 1, d) /\ Matches(ls, k - 1, r)

LEMMA MatchesParts ==
  ASSUME NEW ls, IsSeq(ls), NEW p, NEW st, NEW q, NEW d, NEW r,
         IsSeq(p), IsSeq(st), IsSeq(q), IsSeq(d), IsSeq(r),
         Len(p) = 3, Len(q) = 2, Len(r) = 2, NEW u, NEW k,
         u = 4 + Len(st), k = u + 2 + Len(d)
  PROVE  AllMatch(ls, p \o st \o q \o d \o r, p, st, q, d, r, u, k)
<1>1. Len(st) \in Nat /\ Len(d) \in Nat
  BY DEF IsSeq
<1>2. PICK e : e = p \o st
  OBVIOUS
<1>3. PICK f : f = e \o q
  OBVIOUS
<1>4. PICK g : g = f \o d
  OBVIOUS
<1>5. PICK x : x = g \o r
  OBVIOUS
<1>6. 0 \in Nat
  OBVIOUS
<1>7. BothMatch(ls, 0, e, p, st)
  BY <1>2, <1>6, MatchesBoth, Zenon
<1>8. BothMatch(ls, 0, f, e, q)
  <2>1. IsSeq(e)
    BY <1>7 DEF BothMatch
  <2> QED BY <1>3, <1>6, <2>1, MatchesBoth, Zenon
<1>9. BothMatch(ls, 0, g, f, d)
  <2>1. IsSeq(f)
    BY <1>8 DEF BothMatch
  <2> QED BY <1>4, <1>6, <2>1, MatchesBoth, Zenon
<1>10. BothMatch(ls, 0, x, g, r)
  <2>1. IsSeq(g)
    BY <1>9 DEF BothMatch
  <2> QED BY <1>5, <1>6, <2>1, MatchesBoth, Zenon
<1>11. /\ 0 + Len(p) = 4 - 1 /\ 0 + Len(e) = u - 1 /\ 0 + Len(f) = (u + 2) - 1
       /\ 0 + Len(g) = k - 1 /\ Len(x) = k + 1
  BY <1>1, <1>7, <1>8, <1>9, <1>10 DEF BothMatch
<1> QED BY <1>2, <1>3, <1>4, <1>5, <1>7, <1>8, <1>9, <1>10, <1>11, Zenon DEF BothMatch, AllMatch
OneLine(st) == st = <<>> \/ \E a : st = <<a, "">>

(* The label sequence before the trailer says where the parser looks.      *)
OpenedOnly(ls, st, chain, u, k) == \A y, o : Opened(ls, st, y, chain, o) => y = u /\ o = k

Opening(ls, x, st, chain, u, k) ==
  /\ u \in {4, 6} /\ k \in {u + 2, u + 3} /\ IsSeq(x) /\ Len(x) = k + 1
  /\ Matches(ls, 0, x) <=> Opened(ls, st, u, chain, k)
  /\ OpenedOnly(ls, st, chain, u, k)

LEMMA BeforeOpened ==
  ASSUME NEW ls, IsSeq(ls), NEW st, OneLine(st), NEW chain
  PROVE  \E u, k : Opening(ls, Before(st, chain), st, chain, u, k)
<1>1. PICK h, t, b, w, v, c, n, i :
         /\ h = "header" /\ t = "text" /\ b = "" /\ w = "URI" /\ v = "Version"
         /\ c = "Chain ID" /\ n = "Nonce" /\ i = "Issued At"
  OBVIOUS
<1>2. PICK p, q, d, r : /\ p = <<h, t, b>> /\ q = <<w, v>> /\ r = <<n, i>>
                        /\ d = If(chain, <<c>>)
  OBVIOUS
<1>3. PICK x : x = Before(st, chain)
  OBVIOUS
<1>4. x = p \o st \o q \o d \o r
  BY <1>1, <1>2, <1>3, Zenon DEF Before
<1>5. /\ IsSeq(p) /\ Len(p) = 3
      /\ Matches(ls, 0, p) <=> At(ls, 1, h) /\ At(ls, 2, t) /\ At(ls, 3, b)
  BY <1>2, MatchesThree, Zenon
<1>6. IsSeq(q) /\ Len(q) = 2 /\ IsSeq(r) /\ Len(r) = 2
  BY <1>2, FewSeq, Zenon
<1>7. \/ st = <<>> /\ IsSeq(st) /\ Len(st) = 0
      \/ \E a : st = <<a, b>> /\ IsSeq(st) /\ Len(st) = 2
  BY <1>1, FewSeq, Zenon DEF OneLine
<1>8. \/ ~chain /\ d = <<>> /\ IsSeq(d) /\ Len(d) = 0
      \/ chain /\ d = <<c>> /\ IsSeq(d) /\ Len(d) = 1
  BY <1>2, FewSeq, Zenon DEF If
<1>9. IsSeq(st) /\ (Len(st) = 0 \/ Len(st) = 2)
  BY <1>7, Zenon
<1>10. IsSeq(d) /\ (Len(d) = 0 \/ Len(d) = 1)
  BY <1>8, Zenon
<1>11. PICK u, y, k, o : u = 4 + Len(st) /\ y = u + 2 /\ k = u + 2 + Len(d) /\ o = 4
  OBVIOUS
<1>12. /\ u \in {4, 6} /\ k \in {u + 2, u + 3}
       /\ o \in Nat \ {0} /\ u \in Nat \ {0} /\ y \in Nat \ {0} /\ k \in Nat \ {0} /\ o + 1 = 5
  <2>1. PICK a, e : a = Len(st) /\ e = Len(d)
    OBVIOUS
  <2>2. a \in {0, 2} /\ e \in {0, 1}
    BY <1>9, <1>10, <2>1, Zenon
  <2>3. u = 4 + a /\ y = u + 2 /\ k = u + 2 + e /\ o = 4
    BY <1>11, <2>1, Zenon
  <2> QED BY <2>2, <2>3
<1>13. AllMatch(ls, x, p, st, q, d, r, u, k)
  BY <1>4, <1>5, <1>6, <1>9, <1>10, <1>11, MatchesParts, Zenon
<1>14. /\ IsSeq(x) /\ Len(x) = k + 1
       /\ Matches(ls, 0, x) <=>
            /\ Matches(ls, 0, p) /\ Matches(ls, o - 1, st) /\ Matches(ls, u - 1, q)
            /\ Matches(ls, y - 1, d) /\ Matches(ls, k - 1, r)
  BY <1>11, <1>13, Zenon DEF AllMatch
<1>15. /\ Matches(ls, u - 1, q) <=> At(ls, u, w) /\ At(ls, u + 1, v)
       /\ Matches(ls, k - 1, r) <=> At(ls, k, n) /\ At(ls, k + 1, i)
  BY <1>2, <1>12, MatchesFew, Zenon
<1>16. \/ /\ st = <<>> /\ u = 4
          /\ Matches(ls, o - 1, st) <=> o - 1 <= Len(ls)
       \/ /\ u = 6
          /\ \E a : /\ st = <<a, b>>
                    /\ Matches(ls, o - 1, st) <=> At(ls, 4, a) /\ At(ls, 5, b)
  <2>1. CASE st = <<>> /\ Len(st) = 0
    <3>1. u = 4
      BY <1>11, <2>1
    <3>2. Matches(ls, o - 1, st) <=> o - 1 <= Len(ls)
      BY <1>12, <2>1, MatchesFew, Zenon
    <3> QED BY <2>1, <3>1, <3>2, Zenon
  <2>2. ASSUME NEW a, st = <<a, b>>, Len(st) = 2
        PROVE  u = 6 /\ (Matches(ls, o - 1, st) <=> At(ls, 4, a) /\ At(ls, 5, b))
    <3>1. u = 6
      <4>1. PICK e : e = Len(st)
        OBVIOUS
      <4>2. e = 2 /\ u = 4 + e
        BY <1>11, <2>2, <4>1, Zenon
      <4> QED BY <4>2
    <3>2. Matches(ls, o - 1, st) <=> At(ls, o, a) /\ At(ls, o + 1, b)
      BY <1>12, <2>2, MatchesFew, Zenon
    <3> QED BY <1>11, <1>12, <3>1, <3>2, Zenon
  <2> QED BY <1>7, <2>1, <2>2, Zenon
<1>17. \/ /\ chain /\ k = u + 3
          /\ Matches(ls, y - 1, d) <=> At(ls, u + 2, c)
       \/ /\ ~chain /\ k = u + 2
          /\ Matches(ls, y - 1, d) <=> y - 1 <= Len(ls)
  <2>1. PICK e : e = Len(d)
    OBVIOUS
  <2>2. CASE ~chain /\ d = <<>> /\ Len(d) = 0
    <3>1. k = u + 2
      <4>1. e = 0 /\ k = u + 2 + e
        BY <1>11, <2>1, <2>2, Zenon
      <4> QED BY <1>12, <4>1
    <3>2. Matches(ls, y - 1, d) <=> y - 1 <= Len(ls)
      BY <1>12, <2>2, MatchesFew, Zenon
    <3> QED BY <2>2, <3>1, <3>2, Zenon
  <2>3. CASE chain /\ d = <<c>> /\ Len(d) = 1
    <3>1. k = u + 3
      <4>1. e = 1 /\ k = u + 2 + e
        BY <1>11, <2>1, <2>3, Zenon
      <4> QED BY <1>12, <4>1
    <3>2. Matches(ls, y - 1, d) <=> At(ls, y, c)
      BY <1>12, <2>3, MatchesFew, Zenon
    <3> QED BY <1>11, <2>3, <3>1, <3>2, Zenon
  <2> QED BY <1>8, <2>2, <2>3, Zenon
<1>18. At(ls, k, n) => o - 1 <= Len(ls) /\ y - 1 <= Len(ls)
  <2>1. Len(ls) \in Nat
    BY DEF IsSeq
  <2> QED BY <1>11, <1>12, <2>1 DEF At
<1>19. Opened(ls, st, u, chain, k) <=>
         /\ At(ls, 1, h) /\ At(ls, 2, t) /\ At(ls, 3, b)
         /\ \/ st = <<>> /\ u = 4
            \/ u = 6 /\ \E a : st = <<a, b>> /\ At(ls, 4, a) /\ At(ls, 5, b)
         /\ At(ls, u, w) /\ At(ls, u + 1, v)
         /\ (chain /\ k = u + 3 /\ At(ls, u + 2, c)) \/ (~chain /\ k = u + 2)
         /\ At(ls, k, n) /\ At(ls, k + 1, i)
  BY <1>1, Zenon DEF Opened
<1>20. u = 4 => u # 6
  OBVIOUS
<1>21. ASSUME Matches(ls, 0, x) PROVE Opened(ls, st, u, chain, k)
  <2>1. /\ At(ls, 1, h) /\ At(ls, 2, t) /\ At(ls, 3, b) /\ At(ls, u, w) /\ At(ls, u + 1, v)
        /\ At(ls, k, n) /\ At(ls, k + 1, i)
        /\ Matches(ls, o - 1, st) /\ Matches(ls, y - 1, d)
    BY <1>5, <1>14, <1>15, <1>21, Zenon
  <2>2. \/ st = <<>> /\ u = 4
        \/ u = 6 /\ \E a : st = <<a, b>> /\ At(ls, 4, a) /\ At(ls, 5, b)
    BY <1>16, <2>1, Zenon
  <2>3. (chain /\ k = u + 3 /\ At(ls, u + 2, c)) \/ (~chain /\ k = u + 2)
    BY <1>17, <2>1, Zenon
  <2> QED BY <1>19, <2>1, <2>2, <2>3, Zenon
<1>22. ASSUME Opened(ls, st, u, chain, k) PROVE Matches(ls, 0, x)
  <2>1. /\ At(ls, 1, h) /\ At(ls, 2, t) /\ At(ls, 3, b)
        /\ At(ls, u, w) /\ At(ls, u + 1, v) /\ At(ls, k, n) /\ At(ls, k + 1, i)
        /\ o - 1 <= Len(ls) /\ y - 1 <= Len(ls)
    BY <1>18, <1>19, <1>22, Zenon
  <2>2. Matches(ls, o - 1, st)
    <3>1. CASE u = 4
      BY <1>16, <1>20, <2>1, <3>1, Zenon
    <3>2. CASE u # 4
      <4>1. PICK a, z : /\ st = <<a, b>> /\ At(ls, 4, a) /\ At(ls, 5, b)
                        /\ st = <<z, b>>
                        /\ Matches(ls, o - 1, st) <=> At(ls, 4, z) /\ At(ls, 5, b)
        BY <1>16, <1>19, <1>22, <3>2, Zenon
      <4>2. a = z
        BY <4>1
      <4> QED BY <4>1, <4>2, Zenon
    <3> QED BY <3>1, <3>2
  <2>3. Matches(ls, y - 1, d)
    BY <1>17, <1>19, <1>22, <2>1, Zenon
  <2> QED BY <1>5, <1>14, <1>15, <2>1, <2>2, <2>3, Zenon
<1>23. ASSUME NEW z, NEW j, Opened(ls, st, z, chain, j) PROVE z = u /\ j = k
  <2>1. /\ (st = <<>> /\ z = 4) \/ (z = 6 /\ \E a : st = <<a, b>>)
        /\ (chain /\ j = z + 3) \/ (~chain /\ j = z + 2)
    BY <1>1, <1>23, Zenon DEF Opened
  <2>2. \A a : st = <<a, b>> => st # <<>>
    OBVIOUS
  <2>3. CASE st = <<>>
    <3>1. z = 4 /\ u = 4
      BY <1>16, <2>1, <2>2, <2>3, Zenon
    <3> QED BY <1>17, <2>1, <3>1, Zenon
  <2>4. CASE st # <<>>
    <3>1. z = 6 /\ u = 6
      BY <1>16, <2>1, <2>4, Zenon
    <3> QED BY <1>17, <2>1, <3>1, Zenon
  <2> QED BY <2>3, <2>4
<1>24. OpenedOnly(ls, st, chain, u, k)
  BY <1>23, Zenon DEF OpenedOnly
<1>25. Opening(ls, x, st, chain, u, k)
  BY <1>12, <1>14, <1>21, <1>22, <1>24, Zenon DEF Opening
<1> QED BY <1>3, <1>25, Zenon
(* The parser looks where the grammar has its fields ...                   *)
LEMMA OpenedWhere ==
  ASSUME NEW ls, NEW st \in Statements(ls), NEW chain, NEW u, NEW k,
         Opened(ls, st, u, chain, k)
  PROVE  u = UriAt(ls) /\ k = NonceAt(ls) /\ (Stated(ls) <=> st # <<>>)
<1>1. PICK h, t, b, w, v, c, n, i :
         /\ h = "header" /\ t = "text" /\ b = "" /\ w = "URI" /\ v = "Version"
         /\ c = "Chain ID" /\ n = "Nonce" /\ i = "Issued At"
  OBVIOUS
<1>2. w # b /\ w \in FieldLabels /\ c # n
  BY <1>1, Zenon DEF FieldLabels
<1>3. /\ \/ st = <<>> /\ u = 4
         \/ u = 6 /\ \E a : st = <<a, b>> /\ At(ls, 4, a) /\ At(ls, 5, b)
      /\ At(ls, u, w)
      /\ (chain /\ k = u + 3 /\ At(ls, u + 2, c)) \/ (~chain /\ k = u + 2)
      /\ At(ls, k, n)
  BY <1>1, Zenon DEF Opened
<1>4. st = <<>> \/ \E a : st = <<a, b>> /\ a \notin FieldLabels /\ a # b
  BY <1>1, Zenon DEF Statements
<1>5. u = UriAt(ls) /\ (Stated(ls) <=> st # <<>>)
  <2>1. CASE st = <<>>
    <3>1. u = 4
      <4>1. \A a : st # <<a, b>>
        BY <2>1
      <4> QED BY <1>3, <4>1, Zenon
    <3>2. ls[4].label \in FieldLabels
      BY <1>2, <1>3, <3>1, Zenon DEF At
    <3>3. ~Stated(ls)
      BY <3>2, Zenon DEF Stated
    <3> QED BY <2>1, <3>1, <3>3, Zenon DEF UriAt
  <2>2. CASE st # <<>>
    <3>1. PICK a : st = <<a, b>> /\ At(ls, 4, a) /\ u = 6
      BY <1>3, <2>2, Zenon
    <3>2. PICK z : st = <<z, b>> /\ z \notin FieldLabels /\ z # b
      BY <1>4, <2>2, Zenon
    <3>3. a = z
      BY <3>1, <3>2
    <3>4. Stated(ls)
      BY <1>1, <3>1, <3>2, <3>3, Zenon DEF Stated, At
    <3> QED BY <2>2, <3>1, <3>4, Zenon DEF UriAt
  <2> QED BY <2>1, <2>2
<1>6. k = NonceAt(ls)
  <2>1. CASE chain
    BY <1>1, <1>3, <1>5, <2>1, Zenon DEF NonceAt
  <2>2. CASE ~chain
    <3>1. ~At(ls, u + 2, c)
      BY <1>2, <1>3, <2>2, Zenon DEF At
    <3> QED BY <1>1, <1>3, <1>5, <2>2, <3>1, Zenon DEF NonceAt
  <2> QED BY <2>1, <2>2
<1> QED BY <1>5, <1>6

(* ... and when the labels it asks for are there, they are the grammar's.  *)
Labels(ls, u, k) ==
  /\ At(ls, 1, "header") /\ At(ls, 2, "text") /\ At(ls, 3, "") /\ (Stated(ls) => At(ls, 5, ""))
  /\ At(ls, u, "URI") /\ At(ls, u + 1, "Version") /\ At(ls, k, "Nonce") /\ At(ls, k + 1, "Issued At")

LEMMA LabelsOpened ==
  ASSUME NEW ls, IsSeq(ls), Labels(ls, UriAt(ls), NonceAt(ls))
  PROVE  \E st \in Statements(ls), chain \in BOOLEAN :
           Opened(ls, st, UriAt(ls), chain, NonceAt(ls))
<1>1. PICK b, c : b = "" /\ c = "Chain ID"
  OBVIOUS
<1>2. PICK u, k, chain : u = UriAt(ls) /\ k = NonceAt(ls) /\ chain = At(ls, u + 2, c)
  OBVIOUS
<1>3. chain \in BOOLEAN
  BY <1>2 DEF At
<1>4. (chain /\ k = u + 3 /\ At(ls, u + 2, c)) \/ (~chain /\ k = u + 2)
  BY <1>1, <1>2, Zenon DEF NonceAt
<1>5. PICK st \in Statements(ls) :
        \/ st = <<>> /\ u = 4
        \/ u = 6 /\ \E a : st = <<a, b>> /\ At(ls, 4, a) /\ At(ls, 5, b)
  <2>1. CASE ~Stated(ls)
    <3>1. u = 4
      BY <1>2, <2>1, Zenon DEF UriAt
    <3>2. <<>> \in Statements(ls)
      BY Zenon DEF Statements
    <3> QED BY <3>1, <3>2, Zenon
  <2>2. CASE Stated(ls)
    <3>1. u = 6 /\ At(ls, 5, b)
      BY <1>1, <1>2, <2>2, Zenon DEF UriAt, Labels
    <3>2. PICK a : a = ls[4].label
      OBVIOUS
    <3>3. 4 <= Len(ls) /\ 4 \in DOMAIN ls
      BY <3>1 DEF At, IsSeq
    <3>4. At(ls, 4, a) /\ a # b /\ a \notin FieldLabels
      BY <1>1, <2>2, <3>2, <3>3, Zenon DEF Stated, At
    <3>5. ls[4] \in ToSet(ls)
      BY <3>3, Zenon DEF ToSet
    <3>6. <<a, b>> \in Statements(ls)
      BY <1>1, <3>2, <3>4, <3>5, Zenon DEF Statements
    <3> QED BY <3>1, <3>4, <3>6, Zenon
  <2> QED BY <2>1, <2>2
<1>6. Opened(ls, st, u, chain, k)
  BY <1>1, <1>2, <1>4, <1>5, Zenon DEF Opened, Labels
<1> QED BY <1>2, <1>3, <1>6, Zenon
(* The lines after the first n.                                            *)
Rest(ls, n) == SubSeq(ls, n + 1, Len(ls))

IsRest(s, ls, n) == IsSeq(s) /\ Len(s) = Len(ls) - n /\ \A j \in 1 .. Len(s) : s[j] = ls[n + j]

LEMMA RestIs ==
  ASSUME NEW ls, IsSeq(ls), NEW a \in Nat, a <= Len(ls)
  PROVE  IsRest(Rest(ls, a), ls, a)
<1>1. PICK S : ls \in Seq(S)
  BY DEF IsSeq
<1>2. PICK n : n = Len(ls)
  OBVIOUS
<1>3. n \in Nat /\ a <= n
  BY <1>1, <1>2
<1>4. \A i \in a + 1 .. n : ls[i] \in S
  BY <1>1, <1>2, <1>3
<1>5. PICK s : s = SubSeq(ls, a + 1, n)
  OBVIOUS
<1>6. s \in Seq(S) /\ Len(s) = n - a /\ \A j \in 1 .. Len(s) : s[j] = ls[a + j]
  BY <1>1, <1>2, <1>3, <1>4, <1>5
<1> QED BY <1>2, <1>5, <1>6, Zenon DEF Rest, IsRest, IsSeq

(* A layout in two parts, of which the second is a trailer.                *)
LEMMA LaidOutParts ==
  ASSUME NEW ls, IsSeq(ls), NEW x, IsSeq(x), NEW opt, NEW s, s = Rest(ls, Len(x))
  PROVE  LaidOut(ls, x \o Trailer(opt))
           /\ ("Resources" \in opt \/ Len(ls) = Len(x \o Trailer(opt)))
         <=> Matches(ls, 0, x) /\ Fits(s, Len(s), opt)
<1>1. PICK t, y, all : t = Trailer(opt) /\ y = x \o t /\ all = ("Resources" \in opt)
  OBVIOUS
<1>2. IsSeq(t)
  BY <1>1, TrailerIsSeq, Zenon DEF IsSeq
<1>3. Follows(y, x, t)
  BY <1>1, <1>2, Prefixed, Zenon
<1>4. PICK a, f, n : a = Len(x) /\ f = Len(t) /\ n = Len(ls)
  OBVIOUS
<1>5. /\ a \in Nat /\ f \in Nat /\ Len(y) = a + f
      /\ \A i \in 1 .. a : y[i] = x[i]
      /\ \A i \in 1 .. f : y[a + i] = t[i]
  BY <1>3, <1>4 DEF Follows
<1>6. n \in Nat /\ DOMAIN ls = 1 .. n
  BY <1>4 DEF IsSeq
<1>7. a <= n => Len(s) = n - a /\ \A j \in 1 .. n - a : s[j] = ls[a + j]
  <2> SUFFICES ASSUME a <= n PROVE Len(s) = n - a /\ \A j \in 1 .. n - a : s[j] = ls[a + j]
    OBVIOUS
  <2>1. IsRest(Rest(ls, a), ls, a)
    BY <1>4, <1>5, RestIs, Zenon
  <2>2. IsRest(s, ls, a)
    BY <1>4, <2>1, Zenon
  <2> QED BY <1>4, <2>2, Zenon DEF IsRest
<1>8. ASSUME LaidOut(ls, y), all \/ n = Len(y)
      PROVE  Matches(ls, 0, x) /\ Fits(s, Len(s), opt)
  <2>1. /\ a + f <= n
        /\ \A i \in 1 .. n : ls[i].label = IF i <= a + f THEN y[i] ELSE "item"
    BY <1>4, <1>5, <1>6, <1>8 DEF LaidOut
  <2>2. a <= n /\ f <= n - a
    BY <1>5, <1>6, <2>1
  <2>3. Matches(ls, 0, x)
    <3>1. ASSUME NEW i \in 1 .. a PROVE ls[0 + i].label = x[i]
      BY <1>5, <1>6, <2>1, <2>2
    <3> QED BY <1>4, <1>5, <1>6, <2>2, <3>1 DEF Matches
  <2>4. ASSUME NEW j \in 1 .. n - a
        PROVE  s[j].label = IF j <= f THEN t[j] ELSE "item"
    <3>1. PICK i : i = a + j
      OBVIOUS
    <3>2. i \in 1 .. n /\ (i <= a + f <=> j <= f)
      BY <1>5, <1>6, <2>2, <3>1
    <3>3. s[j] = ls[i]
      BY <1>7, <2>2, <3>1
    <3>4. ls[i].label = IF j <= f THEN y[i] ELSE "item"
      BY <2>1, <3>2
    <3>5. j <= f => y[i] = t[j]
      BY <1>5, <3>1
    <3> QED BY <3>3, <3>4, <3>5, Zenon
  <2>5. all \/ n - a = f
    BY <1>5, <1>6, <1>8
  <2> QED BY <1>1, <1>4, <1>7, <2>2, <2>3, <2>4, <2>5, Zenon DEF Fits
<1>9. ASSUME Matches(ls, 0, x), Fits(s, Len(s), opt)
      PROVE  LaidOut(ls, y) /\ (all \/ n = Len(y))
  <2>1. a <= n /\ \A i \in 1 .. a : ls[i].label = x[i]
    <3>1. 0 + a <= n /\ \A i \in 1 .. a : ls[0 + i].label = x[i]
      BY <1>4, <1>9, Zenon DEF Matches
    <3> QED BY <1>5, <1>6, <3>1
  <2>2. /\ f <= n - a
        /\ \A j \in 1 .. n - a : s[j].label = IF j <= f THEN t[j] ELSE "item"
        /\ all \/ n - a = f
    <3>1. PICK m : m = Len(s)
      OBVIOUS
    <3>2. /\ f <= m /\ \A j \in 1 .. m : s[j].label = IF j <= f THEN t[j] ELSE "item"
          /\ all \/ m = f
      BY <1>1, <1>4, <1>9, <3>1, Zenon DEF Fits
    <3> QED BY <1>7, <2>1, <3>1, <3>2
  <2>3. ASSUME NEW i \in 1 .. n PROVE ls[i].label = IF i <= a + f THEN y[i] ELSE "item"
    <3>1. CASE i <= a
      BY <1>5, <1>6, <2>1, <3>1
    <3>2. CASE i > a
      <4>1. PICK j : j = i - a
        OBVIOUS
      <4>2. j \in 1 .. n - a /\ i = a + j /\ (i <= a + f <=> j <= f)
        BY <1>5, <1>6, <3>2, <4>1
      <4>3. s[j] = ls[i]
        BY <1>7, <2>1, <4>2
      <4>4. ls[i].label = IF j <= f THEN t[j] ELSE "item"
        BY <2>2, <4>2, <4>3
      <4>5. j <= f => y[i] = t[j]
        BY <1>5, <4>2
      <4> QED BY <4>2, <4>4, <4>5, Zenon
    <3> QED BY <1>5, <3>1, <3>2
  <2>4. a + f <= n /\ (all \/ n = a + f)
    BY <1>5, <1>6, <2>1, <2>2
  <2>5. LaidOut(ls, y)
    BY <1>4, <1>5, <1>6, <2>3, <2>4, Zenon DEF LaidOut
  <2> QED BY <1>5, <2>4, <2>5, Zenon
<1> QED BY <1>1, <1>4, <1>8, <1>9, Zenon
-----------------------------------------------------------------------------
(* What the grammar asks of a line, whatever its place.                    *)
LineOK(l) ==
  /\ l.label = "URI" => l.val # ""
  /\ l.label = "Version" => l.val = "1"
  /\ l.label = "Nonce" => l.val.valid
  /\ l.label \in {"Issued At", "Expiration Time", "Not Before"} => validTimestamp(l.val)

LEMMA LineKinds ==
  ASSUME NEW l
  PROVE  /\ l.label = "Chain ID" \/ l.label \notin FieldLabels => LineOK(l)
         /\ l.label = "URI" => (LineOK(l) <=> l.val # "")
         /\ l.label = "Version" => (LineOK(l) <=> l.val = "1")
         /\ l.label = "Nonce" => (LineOK(l) <=> l.val.valid)
         /\ l.label = "Issued At" => (LineOK(l) <=> validTimestamp(l.val))
         /\ l.label \in TrailerLabels \union {"item"} => (LineOK(l) <=> StampOK(l))
<1>1. l.label = "Chain ID" \/ l.label \notin FieldLabels => LineOK(l)
  BY Zenon DEF LineOK, FieldLabels
<1>2. l.label = "URI" => (LineOK(l) <=> l.val # "")
  BY Zenon DEF LineOK
<1>3. l.label = "Version" => (LineOK(l) <=> l.val = "1")
  BY Zenon DEF LineOK
<1>4. l.label = "Nonce" => (LineOK(l) <=> l.val.valid)
  BY Zenon DEF LineOK
<1>5. l.label = "Issued At" => (LineOK(l) <=> validTimestamp(l.val))
  BY Zenon DEF LineOK
<1>6. l.label \in TrailerLabels \union {"item"} => (LineOK(l) <=> StampOK(l))
  BY Zenon DEF LineOK, StampOK, TrailerLabels
<1> QED BY <1>1, <1>2, <1>3, <1>4, <1>5, <1>6

(* What the parser asks of the lines between the header and the trailer.   *)
Values(ls, u, k) == /\ ls[u].val # "" /\ ls[u + 1].val = "1"
                    /\ ls[k].val.valid /\ validTimestamp(ls[k + 1].val)

(* Only four lines up to the o-th one have something to say.               *)
Fields(ls, u, k, o) ==
  /\ {u, u + 1, k, o} \subseteq 1 .. Len(ls)
  /\ \A i \in 1 .. Len(ls) : i <= o /\ i \notin {u, u + 1, k, o} => LineOK(ls[i])

LEMMA FieldsOpened ==
  ASSUME NEW ls, IsSeq(ls), NEW st \in Statements(ls), NEW chain,
         NEW u, NEW k, u \in {4, 6}, k \in {u + 2, u + 3}, Opened(ls, st, u, chain, k)
  PROVE  Fields(ls, u, k, k + 1)
<1>1. PICK h, t, b, c : h = "header" /\ t = "text" /\ b = "" /\ c = "Chain ID"
  OBVIOUS
<1>2. h \notin FieldLabels /\ t \notin FieldLabels /\ b \notin FieldLabels
  BY <1>1, Zenon DEF FieldLabels
<1>3. Len(ls) \in Nat
  BY DEF IsSeq
<1>4. {u, u + 1, k, k + 1} \subseteq 1 .. Len(ls)
  <2>1. k + 1 <= Len(ls)
    BY Zenon DEF Opened, At
  <2> QED BY <1>3, <2>1
<1>5. ls[1].label = h /\ ls[2].label = t /\ ls[3].label = b
  BY <1>1, Zenon DEF Opened, At
<1>6. u = 6 => ls[4].label \notin FieldLabels /\ ls[5].label \notin FieldLabels
  <2> SUFFICES ASSUME u = 6 PROVE ls[4].label \notin FieldLabels /\ ls[5].label \notin FieldLabels
    OBVIOUS
  <2>1. u # 4
    OBVIOUS
  <2>2. PICK a : st = <<a, b>> /\ ls[4].label = a /\ ls[5].label = b
    BY <1>1, <2>1, Zenon DEF Opened, At
  <2>3. st # <<>>
    BY <2>2
  <2>4. PICK z : st = <<z, b>> /\ z \notin FieldLabels
    BY <1>1, <2>3, Zenon DEF Statements
  <2>5. a = z
    BY <2>2, <2>4
  <2> QED BY <1>2, <2>2, <2>4, <2>5, Zenon
<1>7. k = u + 3 => ls[u + 2].label = c
  <2>1. k = u + 3 => k # u + 2
    OBVIOUS
  <2> QED BY <1>1, <2>1, Zenon DEF Opened, At
<1>8. ASSUME NEW i \in 1 .. Len(ls), i <= k + 1, i \notin {u, u + 1, k, k + 1}
      PROVE  LineOK(ls[i])
  <2>1. i \in {1, 2, 3} \/ (u = 6 /\ i \in {4, 5}) \/ (k = u + 3 /\ i = u + 2)
    BY <1>3, <1>8
  <2>2. ls[i].label = c \/ ls[i].label \notin FieldLabels
    BY <1>2, <1>5, <1>6, <1>7, <2>1
  <2> QED BY <1>1, <2>2, LineKinds, Zenon
<1> QED BY <1>4, <1>8, Zenon DEF Fields

LEMMA FitsLabels ==
  ASSUME NEW s, NEW opt, NEW n \in Nat, Fits(s, n, opt), NEW j \in 1 .. n
  PROVE  s[j].label \in TrailerLabels \union {"item"}
<1>1. PICK t, f, L : t = Trailer(opt) /\ f = Len(t) /\ L = TrailerLabels
  OBVIOUS
<1>2. t \in Seq(L)
  BY <1>1, TrailerIsSeq, Zenon
<1>3. s[j].label = IF j <= f THEN t[j] ELSE "item"
  BY <1>1, Zenon DEF Fits
<1>4. j <= f => t[j] \in L
  BY <1>1, <1>2
<1> QED BY <1>1, <1>3, <1>4, Zenon

LinesOK(ls) == \A i \in DOMAIN ls : LineOK(ls[i])

InOrder(ls, u, k, s) == LinesOK(ls) <=> Values(ls, u, k) /\ Stamped(s, Len(s))

(* Every line is in order when the fields and the trailer are.             *)
LEMMA LinesInOrder ==
  ASSUME NEW ls, IsSeq(ls), NEW st \in Statements(ls), NEW chain,
         NEW u, NEW k, u \in {4, 6}, k \in {u + 2, u + 3}, Opened(ls, st, u, chain, k),
         NEW s, s = Rest(ls, k + 1), NEW opt, Fits(s, Len(s), opt)
  PROVE  InOrder(ls, u, k, s)
<1>1. PICK n, m, o : n = Len(ls) /\ m = Len(s) /\ o = k + 1
  OBVIOUS
<1>2. n \in Nat /\ DOMAIN ls = 1 .. n
  BY <1>1 DEF IsSeq
<1>3. /\ {u, u + 1, k, o} \subseteq 1 .. n
      /\ \A i \in 1 .. n : i <= o /\ i \notin {u, u + 1, k, o} => LineOK(ls[i])
  <2>1. Fields(ls, u, k, k + 1)
    BY FieldsOpened, SMT
  <2> QED BY <1>1, <2>1, Zenon DEF Fields
<1>4. o \in Nat /\ o <= n
  BY <1>1, <1>2, <1>3
<1>5. m = n - o /\ \A j \in 1 .. m : s[j] = ls[o + j]
  <2>1. IsRest(Rest(ls, o), ls, o)
    BY <1>1, <1>4, RestIs, Zenon
  <2>2. IsRest(s, ls, o)
    BY <1>1, <2>1, Zenon
  <2> QED BY <1>1, <2>2, Zenon DEF IsRest
<1>6. m \in Nat
  BY <1>2, <1>4, <1>5
<1>7. \A j \in 1 .. m : LineOK(s[j]) <=> StampOK(s[j])
  <2> TAKE j \in 1 .. m
  <2>1. s[j].label \in TrailerLabels \union {"item"}
    BY <1>1, <1>6, FitsLabels, Zenon
  <2> QED BY <2>1, LineKinds, Zenon
<1>8. /\ LineOK(ls[u]) <=> ls[u].val # ""
      /\ LineOK(ls[u + 1]) <=> ls[u + 1].val = "1"
      /\ LineOK(ls[k]) <=> ls[k].val.valid
      /\ LineOK(ls[o]) <=> validTimestamp(ls[o].val)
  <2>1. /\ ls[u].label = "URI" /\ ls[u + 1].label = "Version"
        /\ ls[k].label = "Nonce" /\ ls[o].label = "Issued At"
    BY <1>1, Zenon DEF Opened, At
  <2> QED BY <2>1, LineKinds, Zenon
<1>9. ASSUME \A i \in 1 .. n : LineOK(ls[i]) PROVE Values(ls, u, k) /\ Stamped(s, m)
  <2>1. LineOK(ls[u]) /\ LineOK(ls[u + 1]) /\ LineOK(ls[k]) /\ LineOK(ls[o])
    BY <1>3, <1>9
  <2>2. Values(ls, u, k)
    BY <1>1, <1>8, <2>1, Zenon DEF Values
  <2>3. ASSUME NEW j \in 1 .. m PROVE StampOK(s[j])
    <3>1. o + j \in 1 .. n
      BY <1>2, <1>4, <1>5
    <3> QED BY <1>5, <1>7, <1>9, <3>1, Zenon
  <2> QED BY <2>2, <2>3, Zenon DEF Stamped
<1>10. ASSUME Values(ls, u, k), Stamped(s, m) PROVE \A i \in 1 .. n : LineOK(ls[i])
  <2>1. LineOK(ls[u]) /\ LineOK(ls[u + 1]) /\ LineOK(ls[k]) /\ LineOK(ls[o])
    BY <1>1, <1>8, <1>10, Zenon DEF Values
  <2>2. ASSUME NEW i \in 1 .. n, i > o PROVE LineOK(ls[i])
    <3>1. PICK j : j = i - o
      OBVIOUS
    <3>2. j \in 1 .. m /\ i = o + j
      BY <1>2, <1>4, <1>5, <2>2, <3>1
    <3>3. StampOK(s[j])
      BY <1>10, <3>2, Zenon DEF Stamped
    <3> QED BY <1>5, <1>7, <3>2, <3>3, Zenon
  <2>3. \A i \in 1 .. n : i <= o \/ i > o
    BY <1>4
  <2>4. \A i : i \in {u, u + 1, k, o} => LineOK(ls[i])
    BY <2>1
  <2> QED BY <1>3, <2>2, <2>3, <2>4, Zenon
<1> QED BY <1>1, <1>2, <1>9, <1>10, Zenon DEF LinesOK, InOrder
(* A trailer only depends on the fields it may have.                       *)
LEMMA TrailerOnly ==
  ASSUME NEW opt
  PROVE  /\ Trailer(opt \cap TrailerLabels) = Trailer(opt)
         /\ \A s, i : Fits(s, i, opt) <=> Fits(s, i, opt \cap TrailerLabels)
<1>1. PICK e, n, q, s : s = "Resources" /\ Labelled(e, n, q, s)
  BY LabelsNamed, Zenon
<1>2. PICK L, few : L = TrailerLabels /\ few = opt \cap L
  OBVIOUS
<1>3. e \in L /\ n \in L /\ q \in L /\ s \in L
  BY <1>1, <1>2, Zenon DEF Labelled
<1>4. ASSUME NEW x \in L PROVE Part(x, few) = Part(x, opt)
  BY <1>2, <1>4, PartSeq, Zenon
<1>5. Trailer(few) = Trailer(opt)
  <2>1. /\ Trailer(few) = Part(e, few) \o Part(n, few) \o Part(q, few) \o Part(s, few)
        /\ Trailer(opt) = Part(e, opt) \o Part(n, opt) \o Part(q, opt) \o Part(s, opt)
    BY <1>1, Zenon DEF Labelled
  <2> QED BY <1>3, <1>4, <2>1, Zenon
<1>6. "Resources" \in opt <=> "Resources" \in few
  BY <1>1, <1>2, <1>3, Zenon
<1> QED BY <1>2, <1>5, <1>6, Zenon DEF Fits

(* The labels of the lines are those of a layout.                          *)
Optional == {"Chain ID", "Expiration Time", "Not Before", "Request ID", "Resources"}

LaidOutWith(ls, st, opt) ==
  /\ LaidOut(ls, Layout(st, opt))
  /\ "Resources" \in opt \/ Len(ls) = Len(Layout(st, opt))

LEMMA WellFormedIs ==
  ASSUME NEW ls
  PROVE  WellFormed(ls) <=>
           /\ \E st \in Statements(ls), opt \in SUBSET Optional : LaidOutWith(ls, st, opt)
           /\ ls[1].val # "" /\ ValidAddress(ls[2].val)
           /\ LinesOK(ls)
  BY Zenon DEF WellFormed, Optional, LaidOutWith, LinesOK, LineOK

LaidOutAt(ls, st, opt, u, k) ==
  /\ u \in {4, 6} /\ k \in {u + 2, u + 3}
  /\ LaidOutWith(ls, st, opt) <=>
       /\ Opened(ls, st, u, "Chain ID" \in opt, k)
       /\ Fits(Rest(ls, k + 1), Len(Rest(ls, k + 1)), opt)
  /\ OpenedOnly(ls, st, "Chain ID" \in opt, u, k)

LEMMA LaidOutOpened ==
  ASSUME NEW ls, IsSeq(ls), NEW st \in Statements(ls), NEW opt
  PROVE  \E u, k : LaidOutAt(ls, st, opt, u, k)
<1>1. PICK chain : chain = ("Chain ID" \in opt)
  OBVIOUS
<1>2. OneLine(st)
  BY Zenon DEF OneLine, Statements
<1>3. PICK x : x = Before(st, chain)
  OBVIOUS
<1>4. PICK u, k : Opening(ls, x, st, chain, u, k)
  BY <1>2, <1>3, BeforeOpened, Zenon
<1>5. Layout(st, opt) = x \o Trailer(opt)
  BY <1>1, <1>3, LayoutIs, Zenon
<1>6. PICK s : s = Rest(ls, Len(x))
  OBVIOUS
<1>7. LaidOut(ls, x \o Trailer(opt)) /\ ("Resources" \in opt \/ Len(ls) = Len(x \o Trailer(opt)))
        <=> Matches(ls, 0, x) /\ Fits(s, Len(s), opt)
  <2>1. IsSeq(x)
    BY <1>4, Zenon DEF Opening
  <2> QED BY <1>6, <2>1, LaidOutParts, Zenon
<1>8. s = Rest(ls, k + 1)
  BY <1>4, <1>6, Zenon DEF Opening
<1>9. LaidOutWith(ls, st, opt) <=> Opened(ls, st, u, chain, k) /\ Fits(s, Len(s), opt)
  BY <1>4, <1>5, <1>7, Zenon DEF LaidOutWith, Opening
<1>10. LaidOutAt(ls, st, opt, u, k)
  BY <1>1, <1>4, <1>8, <1>9, Zenon DEF LaidOutAt, Opening
<1> QED BY <1>10
(* The position-driven parser takes what the grammar allows.               *)
LEMMA TrailerOfRest ==
  ASSUME NEW ls, IsSeq(ls), NEW k \in Nat, k = NonceAt(ls), k + 1 <= Len(ls),
         NEW s, s = Rest(ls, k + 1)
  PROVE  TrailerOf(ls).ok <=> /\ Stamped(s, Len(s))
                              /\ \E opt \in SUBSET TrailerLabels : Fits(s, Len(s), opt)
<1>1. PICK o : o = k + 1
  OBVIOUS
<1>2. o \in Nat /\ o <= Len(ls) /\ o + 1 = k + 2
  BY <1>1
<1>3. s = SubSeq(ls, k + 2, Len(ls))
  BY <1>1, <1>2, Zenon DEF Rest
<1>4. TrailerOf(ls) = FoldLeft(ReadTrailer, NoTrailer, s)
  BY <1>3, Zenon DEF TrailerOf
<1>5. IsRest(Rest(ls, o), ls, o)
  BY <1>2, RestIs, Zenon
<1>6. PICK S : s \in Seq(S)
  BY <1>1, <1>5, Zenon DEF IsRest, IsSeq
<1>7. FoldLeft(ReadTrailer, NoTrailer, s).ok <=>
        /\ Stamped(s, Len(s))
        /\ \E opt \in SUBSET TrailerLabels : Fits(s, Len(s), opt)
  BY <1>6, TrailerGrammar, Zenon
<1> QED BY <1>4, <1>7, Zenon

LEMMA ReadIs ==
  ASSUME NEW ls, NEW u, NEW k
  PROVE  HeadRead(ls) /\ FieldsRead(ls, u, k) <=>
           /\ Len(ls) >= 6 /\ Labels(ls, u, k) /\ Values(ls, u, k)
           /\ ls[1].val # "" /\ ValidAddress(ls[2].val)
  BY Zenon DEF HeadRead, FieldsRead, Labels, Values

LEMMA WellFormedRead ==
  ASSUME NEW ls, IsSeq(ls), WellFormed(ls)
  PROVE  HeadRead(ls) /\ FieldsRead(ls, UriAt(ls), NonceAt(ls)) /\ TrailerOf(ls).ok
<1>1. PICK st \in Statements(ls), opt \in SUBSET Optional : LaidOutWith(ls, st, opt)
  BY WellFormedIs, Zenon
<1>2. /\ ls[1].val # "" /\ ValidAddress(ls[2].val)
      /\ LinesOK(ls)
  BY WellFormedIs, Zenon
<1>3. PICK chain : chain = ("Chain ID" \in opt)
  OBVIOUS
<1>4. PICK u, k : /\ u \in {4, 6} /\ k \in {u + 2, u + 3}
                  /\ Opened(ls, st, u, chain, k)
                  /\ Fits(Rest(ls, k + 1), Len(Rest(ls, k + 1)), opt)
  BY <1>1, <1>3, LaidOutOpened, Zenon DEF LaidOutAt
<1>5. PICK s : s = Rest(ls, k + 1)
  OBVIOUS
<1>6. u = UriAt(ls) /\ k = NonceAt(ls) /\ (Stated(ls) <=> st # <<>>)
  BY <1>4, OpenedWhere, Zenon
<1>7. Labels(ls, u, k)
  BY <1>4, <1>6, Zenon DEF Opened, Labels
<1>8. Values(ls, u, k) /\ Stamped(s, Len(s))
  <2>1. InOrder(ls, u, k, s)
    BY <1>4, <1>5, LinesInOrder, SMT
  <2> QED BY <1>2, <2>1, Zenon DEF InOrder
<1>9. k \in Nat /\ k >= 6
  BY <1>4
<1>10. k + 1 <= Len(ls)
  BY <1>7, Zenon DEF Labels, At
<1>11. Len(ls) >= 6
  BY <1>9, <1>10 DEF IsSeq
<1>12. TrailerOf(ls).ok
  <2>1. Fits(s, Len(s), opt \cap TrailerLabels)
    BY <1>4, <1>5, TrailerOnly, Zenon
  <2>2. opt \cap TrailerLabels \in SUBSET TrailerLabels
    OBVIOUS
  <2> QED BY <1>5, <1>6, <1>8, <1>9, <1>10, <2>1, <2>2, TrailerOfRest, Zenon
<1> QED BY <1>2, <1>6, <1>7, <1>8, <1>11, <1>12, ReadIs, Zenon

LEMMA ReadWellFormed ==
  ASSUME NEW ls, IsSeq(ls), HeadRead(ls), FieldsRead(ls, UriAt(ls), NonceAt(ls)), TrailerOf(ls).ok
  PROVE  WellFormed(ls)
<1>1. PICK u, k : u = UriAt(ls) /\ k = NonceAt(ls)
  OBVIOUS
<1>2. /\ Labels(ls, u, k) /\ Values(ls, u, k)
      /\ ls[1].val # "" /\ ValidAddress(ls[2].val)
  BY <1>1, ReadIs, Zenon
<1>3. u \in {4, 6} /\ k \in {u + 2, u + 3}
  BY <1>1, Zenon DEF UriAt, NonceAt
<1>4. k \in Nat
  BY <1>3
<1>5. k + 1 <= Len(ls)
  BY <1>2, Zenon DEF Labels, At
<1>6. PICK st \in Statements(ls), chain \in BOOLEAN : Opened(ls, st, u, chain, k)
  BY <1>1, <1>2, LabelsOpened, Zenon
<1>7. PICK s : s = Rest(ls, k + 1)
  OBVIOUS
<1>8. Stamped(s, Len(s)) /\ \E few \in SUBSET TrailerLabels : Fits(s, Len(s), few)
  BY <1>1, <1>4, <1>5, <1>7, TrailerOfRest, Zenon
<1>9. PICK few \in SUBSET TrailerLabels : Fits(s, Len(s), few)
  BY <1>8
<1>10. PICK opt \in SUBSET Optional : /\ opt \cap TrailerLabels = few
                                      /\ ("Chain ID" \in opt <=> chain)
  <2>1. PICK c, L : c = "Chain ID" /\ L = TrailerLabels
    OBVIOUS
  <2>2. c \notin L /\ Optional = {c} \union L
    BY <2>1, Zenon DEF TrailerLabels, Optional
  <2>3. PICK set : set = few \union (IF chain THEN {c} ELSE {})
    OBVIOUS
  <2>4. set \in SUBSET Optional /\ set \cap L = few /\ (c \in set <=> chain)
    <3>1. few \in SUBSET L
      BY <2>1, Zenon
    <3>2. CASE chain
      <4>1. set = few \union {c}
        BY <2>3, <3>2, Zenon
      <4> QED BY <2>2, <3>1, <3>2, <4>1
    <3>3. CASE ~chain
      <4>1. set = few
        <5>1. set = few \union {}
          BY <2>3, <3>3, Zenon
        <5> QED BY <5>1
      <4> QED BY <2>2, <3>1, <3>3, <4>1
    <3> QED BY <3>2, <3>3
  <2> QED BY <2>1, <2>4, Zenon
<1>11. Fits(s, Len(s), opt)
  BY <1>9, <1>10, TrailerOnly, Zenon
<1>12. Opened(ls, st, u, "Chain ID" \in opt, k)
  BY <1>6, <1>10, Zenon DEF Opened
<1>13. LaidOutWith(ls, st, opt)
  <2>1. PICK y, o : LaidOutAt(ls, st, opt, y, o)
    BY LaidOutOpened, Zenon
  <2>2. y = u /\ o = k
    BY <1>12, <2>1, Zenon DEF LaidOutAt, OpenedOnly
  <2>3. LaidOutAt(ls, st, opt, u, k)
    BY <2>1, <2>2, Zenon
  <2> QED BY <1>7, <1>11, <1>12, <2>3, Zenon DEF LaidOutAt
<1>14. LinesOK(ls)
  <2>1. InOrder(ls, u, k, s)
    BY <1>3, <1>6, <1>7, <1>11, LinesInOrder, SMT
  <2> QED BY <1>2, <1>8, <2>1, Zenon DEF InOrder
<1> QED BY <1>2, <1>13, <1>14, WellFormedIs, Zenon

LEMMA GrammarAccepted == SiwsInv => AcceptsGrammar
<1> SUFFICES ASSUME SiwsInv PROVE AcceptsGrammar
  OBVIOUS
<1>1. PICK ls : ls = TrimRight(text.lines)
  OBVIOUS
<1>2. IsSeq(ls)
  BY <1>1, TrimRightLined, Zenon DEF SiwsInv, Legible, Lined
<1>3. ParseMessage(text) = IF Accepted(text, ls) THEN {Denoted(ls)} ELSE {}
  BY <1>1, ParseIs, Zenon
<1>4. ParseMessage(text) # {} <=> Accepted(text, ls)
  BY <1>3, Zenon
<1>5. Accepted(text, ls) <=> Size(text) <= MaxMessageBytes /\ ~text.cr /\ WellFormed(ls)
  BY <1>2, WellFormedRead, ReadWellFormed, Zenon DEF Accepted
<1> QED BY <1>1, <1>4, <1>5, Zenon DEF AcceptsGrammar
-----------------------------------------------------------------------------
(* Whatever happens to it, the text keeps its lines written.               *)
LEMMA BecomesLegible ==
  ASSUME NEW lines, SiwsInv, Becomes(lines), Lined(lines)
  PROVE  SiwsInv'
<1>1. DOMAIN text = {"lines", "newlines", "cr"} /\ text' = [text EXCEPT !.lines = lines]
  BY DEF SiwsInv, Legible, Becomes
<1>2. DOMAIN text' = {"lines", "newlines", "cr"} /\ text'.lines = lines
  BY <1>1
<1>3. PICK t : t = text'
  OBVIOUS
<1>4. Legible(t)
  BY <1>2, <1>3 DEF Legible
<1> QED BY <1>3, <1>4 DEF SiwsInv

LEMMA LinedEdits ==
  ASSUME NEW s, Lined(s), NEW i \in DOMAIN s
  PROVE  /\ DOMAIN s = 1 .. Len(s) /\ Len(s) \in Nat
         /\ Written(s[i])
         /\ Lined(RemoveAt(s, i))
         /\ \A l : Written(l) => Lined(InsertAt(s, i, l)) /\ Lined(ReplaceAt(s, i, l))
<1>1. DOMAIN s = 1 .. Len(s) /\ Len(s) \in Nat
  BY DEF Lined, IsSeq
<1>2. /\ i - 1 \in 0 .. Len(s) /\ Len(s) \in 0 .. Len(s) /\ 1 \in Nat \ {0}
      /\ i \in Nat \ {0} /\ i + 1 \in Nat \ {0} /\ i \in 1 .. Len(s)
  BY <1>1
<1>3. Lined(SubSeq(s, 1, i - 1)) /\ Lined(SubSeq(s, i, Len(s))) /\ Lined(SubSeq(s, i + 1, Len(s)))
  BY <1>2, LinedPart
<1>4. Written(s[i])
  BY <1>2 DEF Lined
<1>5. Lined(RemoveAt(s, i))
  BY <1>3, LinedConcat DEF RemoveAt
<1>6. ASSUME NEW l, Written(l) PROVE Lined(InsertAt(s, i, l)) /\ Lined(ReplaceAt(s, i, l))
  <2>1. Lined(<<l>>)
    BY <1>6, LinedFew
  <2>2. Lined(SubSeq(s, 1, i - 1) \o <<l>>)
    BY <1>3, <2>1, LinedConcat
  <2>3. Lined(InsertAt(s, i, l))
    BY <1>3, <2>2, LinedConcat DEF InsertAt
  <2>4. Lined(ReplaceAt(s, i, l))
    BY <1>2, <1>6, LinedChanged, Zenon DEF ReplaceAt
  <2> QED BY <2>3, <2>4
<1> QED BY <1>1, <1>4, <1>5, <1>6

LEMMA SpeltWritten == ASSUME NEW l, Spelt(l) PROVE Written(l)
  BY Zenon DEF Spelt, Written, IsSeq

LEMMA StartLegible == SiwsInit => SiwsInv
<1> SUFFICES ASSUME SiwsInit PROVE SiwsInv
  OBVIOUS
<1>1. PICK m \in Messages : text = String(m)
  BY DEF SiwsInit
<1>2. /\ m.addr \in Seq(STRING) /\ m.addr # <<>> /\ m.chain \in Seq(STRING)
      /\ \A l \in m.statement : Spelt(l)
      /\ m.resources \in Seq(STRING)
      /\ \A v \in Stamps(m) : IsStamp(v)
  BY TextAssumption, Zenon
<1>3. MessageOK(m)
  BY <1>2, SpeltWritten, Zenon DEF MessageOK, IsSeq
<1> QED BY <1>1, <1>3, PrintLegible DEF SiwsInv

LEMMA StaysLegible == SiwsInv /\ [SiwsNext]_siwsVars => SiwsInv'
<1> SUFFICES ASSUME SiwsInv, [SiwsNext]_siwsVars PROVE SiwsInv'
  OBVIOUS
<1>1. Lined(text.lines)
  BY DEF SiwsInv, Legible
<1>2. ASSUME NEW i \in DOMAIN text.lines, DropLine(i) PROVE SiwsInv'
  <2>1. Lined(RemoveAt(text.lines, i))
    BY <1>1, LinedEdits
  <2> QED BY <1>2, <2>1, BecomesLegible DEF DropLine
<1>3. ASSUME NEW i \in DOMAIN text.lines, SwapLines(i) PROVE SiwsInv'
  <2>1. PICK s : s = text.lines
    OBVIOUS
  <2>2. i < Len(s) /\ DOMAIN s = 1 .. Len(s) /\ Len(s) \in Nat /\ i \in 1 .. Len(s)
    BY <1>1, <1>3, <2>1, LinedEdits DEF SwapLines
  <2>3. i + 1 \in 1 .. Len(s)
    BY <2>2
  <2>4. Written(s[i]) /\ Written(s[i + 1])
    BY <1>1, <2>1, <2>2, <2>3 DEF Lined
  <2>5. PICK r : r = [s EXCEPT ![i] = s[i + 1]]
    OBVIOUS
  <2>6. Lined(r)
    BY <1>1, <2>1, <2>2, <2>4, <2>5, LinedChanged, Zenon
  <2>7. Len(r) = Len(s)
    <3>1. PICK S : s \in Seq(S)
      BY <1>1, <2>1 DEF Lined, IsSeq
    <3>2. s[i + 1] \in S
      BY <2>3, <3>1
    <3> QED BY <2>5, <3>1, <3>2
  <2>8. Lined([r EXCEPT ![i + 1] = s[i]])
    BY <2>3, <2>4, <2>6, <2>7, LinedChanged
  <2>9. [s EXCEPT ![i] = s[i + 1], ![i + 1] = s[i]] = [r EXCEPT ![i + 1] = s[i]]
    BY <2>5, Zenon
  <2>10. Becomes([s EXCEPT ![i] = s[i + 1], ![i + 1] = s[i]])
    BY <1>3, <2>1, Zenon DEF SwapLines
  <2> QED BY <2>8, <2>9, <2>10, BecomesLegible
<1>4. ASSUME NEW i \in DOMAIN text.lines, InsertLine(i) PROVE SiwsInv'
  <2>1. PICK l \in Palette \union {text.lines[i]} : Becomes(InsertAt(text.lines, i, l))
    BY <1>4 DEF InsertLine
  <2>2. Written(l)
    BY <1>1, <2>1, LinedEdits, SpeltWritten, TextAssumption
  <2>3. Lined(InsertAt(text.lines, i, l))
    BY <1>1, <2>2, LinedEdits
  <2> QED BY <2>1, <2>3, BecomesLegible
<1>5. ASSUME NEW i \in DOMAIN text.lines, ReplaceLine(i) PROVE SiwsInv'
  <2>1. PICK l \in Palette : Becomes(ReplaceAt(text.lines, i, l))
    BY <1>5 DEF ReplaceLine
  <2>2. Lined(ReplaceAt(text.lines, i, l))
    BY <1>1, <2>1, LinedEdits, SpeltWritten, TextAssumption
  <2> QED BY <2>1, <2>2, BecomesLegible
<1>6. ASSUME NEW i \in DOMAIN text.lines, Respell(i) PROVE SiwsInv'
  <2>1. CASE \E a \in Addresses : Becomes(ReplaceAt(text.lines, i, Line("text", a)))
    <3>1. PICK a \in Addresses : Becomes(ReplaceAt(text.lines, i, Line("text", a)))
      BY <2>1
    <3>2. IsSeq(a) /\ a # <<>>
      BY TextAssumption, Zenon DEF IsSeq
    <3>3. Written(Line("text", a))
      BY <3>2, Zenon DEF Written, Line
    <3>4. Lined(ReplaceAt(text.lines, i, Line("text", a)))
      BY <1>1, <3>3, LinedEdits
    <3> QED BY <3>1, <3>4, BecomesLegible
  <2>2. CASE \E c \in ChainIDs : Becomes(ReplaceAt(text.lines, i, Line("Chain ID", c)))
    <3>1. PICK c \in ChainIDs : Becomes(ReplaceAt(text.lines, i, Line("Chain ID", c)))
      BY <2>2
    <3>2. IsSeq(c)
      BY TextAssumption, Zenon DEF IsSeq
    <3>3. Written(Line("Chain ID", c))
      BY <3>2 DEF Written, Line
    <3>4. Lined(ReplaceAt(text.lines, i, Line("Chain ID", c)))
      BY <1>1, <3>3, LinedEdits
    <3> QED BY <3>1, <3>4, BecomesLegible
  <2> QED BY <1>6, <2>1, <2>2 DEF Respell
<1>7. ASSUME Transport PROVE SiwsInv'
  <2>1. PICK k \in 0 .. 2, cr \in BOOLEAN : text' = [text EXCEPT !.newlines = k, !.cr = cr]
    BY <1>7 DEF Transport
  <2>2. DOMAIN text = {"lines", "newlines", "cr"}
    BY DEF SiwsInv, Legible
  <2>3. DOMAIN text' = {"lines", "newlines", "cr"} /\ text'.lines = text.lines
    BY <2>1, <2>2
  <2> QED BY <1>1, <2>3 DEF SiwsInv, Legible
<1>8. ASSUME Reprint PROVE SiwsInv'
  <2>1. PICK m \in ParseMessage(text) : text' = String(m)
    BY <1>8 DEF Reprint
  <2>2. MessageOK(m)
    BY <2>1, ParsedOK DEF SiwsInv
  <2>3. Legible(String(m))
    BY <2>2, PrintLegible
  <2> QED BY <2>1, <2>3 DEF SiwsInv
<1>9. CASE UNCHANGED siwsVars
  BY <1>9 DEF siwsVars, SiwsInv
<1> QED BY <1>2, <1>3, <1>4, <1>5, <1>6, <1>7, <1>8, <1>9 DEF SiwsNext

(* The address the parser lets through is one caip.go lets through: base58 *)
(* leaves out more characters, and ValidAddress has the same cap.          *)
LEMMA DecodedAddress ==
  ASSUME NEW s, IsSeq(s), s # <<>>, ValidAddress(s)
  PROVE  reAddress(s)
<1>1. PICK S : s \in Seq(S)
  BY DEF IsSeq
<1>2. Len(s) <= MaxBase58Len /\ \A i \in DOMAIN s : s[i] \in ToSet(Alphabet)
  BY DEF ValidAddress, Decodes
<1>3. Len(s) \in 1 .. MaxBase58Len
  BY <1>1, <1>2, Base58Assumption
<1>4. ToSet(s) \subseteq AddrChars
  BY <1>2, AddressAssumption, Zenon DEF ToSet
<1> QED BY <1>3, <1>4, AddressAssumption DEF reAddress

LEMMA AccountReadsBack == SiwsInv => IdentifierReadsBack
<1> SUFFICES ASSUME SiwsInv, NEW m \in ParseMessage(text)
             PROVE  LET a == Account(m)
                        chain == ParseCAIP2(CAIP2String(a))
                    IN  IF reReference(a.ref)
                        THEN /\ ParseCAIP10(CAIP10String(a)) =
                                  [err |-> "nil", ns |-> a.ns, ref |-> a.ref, addr |-> a.addr]
                             /\ chain = [err |-> "nil", ns |-> a.ns, ref |-> a.ref]
                        ELSE ParseCAIP10(CAIP10String(a)) = Rejected /\ chain = Rejected
  BY DEF IdentifierReadsBack
<1>1. MessageOK(m) /\ ValidAddress(m.addr)
  BY ParsedOK DEF SiwsInv, Parsed
<1>2. PICK R, A : m.chain \in Seq(R) /\ m.addr \in Seq(A)
  BY <1>1 DEF MessageOK, IsSeq
<1>3. PICK S : S = R \union A \union {":", "s", "o", "l"}
  OBVIOUS
<1>4. PICK a : a = Account(m)
  OBVIOUS
<1>5. a.ns = <<"s", "o", "l">> /\ a.ref = m.chain /\ a.addr = m.addr
  BY <1>4 DEF Account
<1>6. a.ns \in Seq(S) /\ a.ref \in Seq(S) /\ a.addr \in Seq(S) /\ ":" \in S
  <2>1. <<"s", "o", "l">> \in Seq(S) /\ ":" \in S
    BY <1>3
  <2>2. m.chain \in Seq(S) /\ m.addr \in Seq(S)
    BY <1>2, <1>3, SeqMonotonic
  <2> QED BY <1>5, <2>1, <2>2
<1>7. reNamespace(a.ns) /\ reAddress(a.addr)
  <2>1. reAddress(m.addr)
    BY <1>1, DecodedAddress DEF MessageOK
  <2> QED BY <1>5, <2>1, SolanaAssumption
<1>8. IF reReference(a.ref)
      THEN /\ ParseCAIP10(CAIP10String(a)) =
                [err |-> "nil", ns |-> a.ns, ref |-> a.ref, addr |-> a.addr]
           /\ ParseCAIP2(CAIP2String(a)) = [err |-> "nil", ns |-> a.ns, ref |-> a.ref]
      ELSE ParseCAIP10(CAIP10String(a)) = Rejected /\ ParseCAIP2(CAIP2String(a)) = Rejected
  BY <1>6, <1>7, AccountTextParses, Zenon
<1> QED BY <1>4, <1>8, Zenon

(* However a text was altered on its way, and whatever chain id its signer *)
(* put into it: the account adapter.go:44 makes of a message the parser    *)
(* accepts has a text in the stores (caip.go's String) that reads back as  *)
(* that account or as none, never as another one.                          *)
THEOREM IdentifiersReadBack == SiwsSpec => []IdentifierReadsBack
<1>1. SiwsInit => SiwsInv
  BY StartLegible
<1>2. SiwsInv /\ [SiwsNext]_siwsVars => SiwsInv'
  BY StaysLegible
<1>3. SiwsInv => IdentifierReadsBack
  BY AccountReadsBack
<1> QED BY <1>1, <1>2, <1>3, PTL DEF SiwsSpec

(* "Field order is strict per the SIWS spec: any unknown or out-of-order   *)
(* line returns ErrMalformed" (parse.go:19): the parser, which walks over  *)
(* the lines by position, accepts a text that fits in the cap and has no   *)
(* carriage return if and only if its lines are laid out as the grammar    *)
(* says, with any statement, any number of resources, any optional fields. *)
THEOREM ParserAcceptsGrammar == SiwsSpec => []AcceptsGrammar
<1>1. SiwsInit => SiwsInv
  BY StartLegible
<1>2. SiwsInv /\ [SiwsNext]_siwsVars => SiwsInv'
  BY StaysLegible
<1>3. SiwsInv => AcceptsGrammar
  BY GrammarAccepted
<1> QED BY <1>1, <1>2, <1>3, PTL DEF SiwsSpec

(* If the print String makes of a message ParseMessage returned is within  *)
(* the cap and the four-digit years, it parses into the same message, with *)
(* timestamps in UTC milliseconds; and that message prints the same again. *)
THEOREM PrintsRoundTrip == SiwsSpec => []RoundTrips
<1>1. SiwsInit => SiwsInv
  BY StartLegible
<1>2. SiwsInv /\ [SiwsNext]_siwsVars => SiwsInv'
  BY StaysLegible
<1>3. SiwsInv => RoundTrips
  BY ParsedRoundTrips
<1> QED BY <1>1, <1>2, <1>3, PTL DEF SiwsSpec

(* Whenever, and for whatever a relying party expects: the deprecated      *)
(* Message.Verify, which judges the struct, and VerifyRaw, which judges the *)
(* text that was signed, come to the same error or to none, but in the     *)
(* millisecond of a validity bound, of which the print drops the fraction. *)
THEOREM VerdictsDifferWithinMillisecond == SiwsSpec => []VerifyWithinMillisecond
<1>1. SiwsInit => SiwsInv
  BY StartLegible
<1>2. SiwsInv /\ [SiwsNext]_siwsVars => SiwsInv'
  BY StaysLegible
<1>3. SiwsInv => VerifyWithinMillisecond
  BY VerdictsAgree
<1> QED BY <1>1, <1>2, <1>3, PTL DEF SiwsSpec

(* An address ValidAddress lets through is the one EncodeBase58 gives to the *)
(* key DecodeBase58 reads out of it, for any alphabet and any size of a key: *)
(* a wallet has one account, whatever text it comes in.                    *)
THEOREM AddressesAreKeys == SiwsSpec => []OneAddressPerKey
<1>1. SiwsInit => SiwsInv
  BY StartLegible
<1>2. SiwsInv /\ [SiwsNext]_siwsVars => SiwsInv'
  BY StaysLegible
<1>3. SiwsInv => OneAddressPerKey
  BY AddressEncodesBack
<1> QED BY <1>1, <1>2, <1>3, PTL DEF SiwsSpec
=============================================================================
