---------------------------- MODULE ListingProofs ----------------------------
(***************************************************************************)
(* Listings page by page, for any names, any page size and any number of   *)
(* pages, whatever comes and goes between the pages.                       *)
(***************************************************************************)
EXTENDS MCListing, SequenceTheorems, FiniteSetTheorems, WellFoundedInduction, TLAPS

Text == Seq(Nat)

-----------------------------------------------------------------------------
(* Less is a strict order of all texts. *)

\* A set of numbers that is not empty has a least one.
LEMMA LeastNatural ==
    ASSUME NEW T, T \subseteq Nat, T # {}
    PROVE  \E n \in T : \A m \in T : n <= m
<1> DEFINE R == {ss \in Nat \X Nat : ss[1] < ss[2]}
<1>1. IsWellFoundedOn(R, Nat)
  BY NatLessThanWellFounded DEF OpToRel
<1> HIDE DEF R
<1>2. PICK n \in T : \A m \in T : ~(<<m, n>> \in R)
  BY <1>1, WFMin, Zenon
<1>3. ASSUME NEW m \in T PROVE n <= m
  <2>1. m \in Nat /\ n \in Nat /\ <<m, n>> \notin R
    BY <1>2
  <2>2. ~(<<m, n>>[1] < <<m, n>>[2])
    BY <2>1 DEF R
  <2> QED
    BY <2>1, <2>2
<1> QED
  BY <1>3

\* Where two texts differ first, and how.
LessAt(s, t, i) ==
    /\ i \in 1 .. Len(t)
    /\ \A j \in 1 .. (i - 1) : j <= Len(s) /\ s[j] = t[j]
    /\ i > Len(s) \/ s[i] < t[i]

LEMMA LessIsAt == \A s, t : Less(s, t) <=> \E i : LessAt(s, t, i)
  BY DEF Less, LessAt

LEMMA TextParts ==
    ASSUME NEW s \in Text
    PROVE  Len(s) \in Nat /\ \A i \in 1 .. Len(s) : s[i] \in Nat
  BY LenProperties, ElementOfSeq DEF Text

LEMMA LessIrreflexive == \A s \in Text : ~Less(s, s)
<1> SUFFICES ASSUME NEW s \in Text, NEW i, LessAt(s, s, i) PROVE FALSE
  BY LessIsAt
<1> QED
  BY TextParts DEF LessAt

LEMMA LessTransitive == \A s, t, u \in Text : Less(s, t) /\ Less(t, u) => Less(s, u)
<1> SUFFICES ASSUME NEW s \in Text, NEW t \in Text, NEW u \in Text,
                    NEW i, LessAt(s, t, i), NEW k, LessAt(t, u, k)
             PROVE  \E m : LessAt(s, u, m)
  BY LessIsAt
<1>1. /\ Len(s) \in Nat /\ Len(t) \in Nat /\ Len(u) \in Nat /\ i \in Nat /\ k \in Nat
      /\ i <= Len(t) /\ 1 <= i /\ k <= Len(u) /\ 1 <= k
  BY TextParts DEF LessAt
<1>2. \A j \in 1 .. (i - 1) : j <= Len(s) /\ s[j] = t[j]
  BY DEF LessAt
<1>3. \A j \in 1 .. (k - 1) : j <= Len(t) /\ t[j] = u[j]
  BY DEF LessAt
<1>4. i > Len(s) \/ s[i] < t[i]
  BY DEF LessAt
<1>5. k > Len(t) \/ t[k] < u[k]
  BY DEF LessAt
<1>6. CASE i < k
  <2>1. i \in 1 .. Len(u) /\ i \in 1 .. (k - 1)
    BY <1>1, <1>6
  <2>2. \A j \in 1 .. (i - 1) : j \in 1 .. (k - 1)
    BY <1>1, <1>6
  <2>3. \A j \in 1 .. (i - 1) : j <= Len(s) /\ s[j] = u[j]
    BY <1>2, <1>3, <2>2
  <2>4. t[i] = u[i]
    BY <1>3, <2>1
  <2>5. i > Len(s) \/ s[i] < u[i]
    BY <1>4, <2>4
  <2>6. LessAt(s, u, i)
    BY <2>1, <2>3, <2>5 DEF LessAt
  <2> QED
    BY <2>6
<1>7. CASE k < i
  <2>1. k \in 1 .. Len(u) /\ k \in 1 .. (i - 1) /\ k <= Len(t)
    BY <1>1, <1>7
  <2>2. \A j \in 1 .. (k - 1) : j \in 1 .. (i - 1)
    BY <1>1, <1>7
  <2>3. \A j \in 1 .. (k - 1) : j <= Len(s) /\ s[j] = u[j]
    BY <1>2, <1>3, <2>2
  <2>4. s[k] = t[k]
    BY <1>2, <2>1
  <2>5. ~(k > Len(t))
    BY <1>1, <2>1
  <2>6. s[k] < u[k]
    BY <1>5, <2>4, <2>5
  <2>7. LessAt(s, u, k)
    BY <2>1, <2>3, <2>6 DEF LessAt
  <2> QED
    BY <2>7
<1>8. CASE k = i
  <2>1. \A j \in 1 .. (i - 1) : j <= Len(s) /\ s[j] = u[j]
    BY <1>2, <1>3, <1>8
  <2>2. ~(k > Len(t)) /\ k \in 1 .. Len(t) /\ k \in 1 .. Len(u)
    BY <1>1, <1>8
  <2>3. t[k] < u[k] /\ t[k] \in Nat /\ u[k] \in Nat
    BY <1>5, <2>2, TextParts
  <2>4. ASSUME ~(i > Len(s)) PROVE s[i] < u[i]
    <3>1. s[i] < t[i]
      BY <1>4, <2>4
    <3>2. i \in 1 .. Len(s)
      BY <1>1, <2>4
    <3>3. s[i] \in Nat
      BY <3>2, TextParts
    <3> QED
      BY <1>8, <2>3, <3>1, <3>3
  <2>5. LessAt(s, u, i)
    BY <1>8, <2>1, <2>2, <2>4 DEF LessAt
  <2> QED
    BY <2>5
<1> QED
  BY <1>1, <1>6, <1>7, <1>8

LEMMA LessTotal == \A s, t \in Text : s = t \/ Less(s, t) \/ Less(t, s)
<1> SUFFICES ASSUME NEW s \in Text, NEW t \in Text, s # t PROVE Less(s, t) \/ Less(t, s)
  OBVIOUS
<1>1. Len(s) \in Nat /\ Len(t) \in Nat
  BY TextParts
<1> DEFINE D == {i \in Nat : i > 0 /\ (i > Len(s) \/ i > Len(t) \/ s[i] # t[i])}
<1>2. D # {}
  <2>1. Len(s) + 1 \in D
    BY <1>1
  <2> QED
    BY <2>1
<1>3. PICK i \in D : \A j \in D : i <= j
  <2>1. D \subseteq Nat
    OBVIOUS
  <2> HIDE DEF D
  <2> QED
    BY <1>2, <2>1, LeastNatural
<1>4. i \in Nat /\ i > 0 /\ (i > Len(s) \/ i > Len(t) \/ s[i] # t[i])
  OBVIOUS
<1>5. \A j \in 1 .. (i - 1) : j <= Len(s) /\ j <= Len(t) /\ s[j] = t[j]
  <2> SUFFICES ASSUME NEW j \in 1 .. (i - 1) PROVE j <= Len(s) /\ j <= Len(t) /\ s[j] = t[j]
    OBVIOUS
  <2>1. j \in Nat /\ j > 0 /\ ~(i <= j)
    BY <1>4
  <2>2. j \notin D
    BY <1>3, <2>1
  <2> QED
    BY <1>1, <2>1, <2>2
<1> HIDE DEF D
<1>6. CASE i <= Len(t) /\ (i > Len(s) \/ s[i] < t[i])
  <2>1. LessAt(s, t, i)
    BY <1>1, <1>4, <1>5, <1>6 DEF LessAt
  <2> QED
    BY <2>1, LessIsAt
<1>7. CASE i <= Len(s) /\ (i > Len(t) \/ t[i] < s[i])
  <2>1. LessAt(t, s, i)
    BY <1>1, <1>4, <1>5, <1>7 DEF LessAt
  <2> QED
    BY <2>1, LessIsAt
<1>8. CASE i > Len(s) /\ i > Len(t)
  <2>1. ASSUME Len(s) < Len(t) PROVE FALSE
    <3>1. Len(s) + 1 \in 1 .. (i - 1)
      BY <1>1, <1>4, <1>8, <2>1
    <3> QED
      BY <1>1, <1>5, <3>1
  <2>2. ASSUME Len(t) < Len(s) PROVE FALSE
    <3>1. Len(t) + 1 \in 1 .. (i - 1)
      BY <1>1, <1>4, <1>8, <2>2
    <3> QED
      BY <1>1, <1>5, <3>1
  <2>3. Len(s) = Len(t)
    BY <1>1, <2>1, <2>2
  <2>4. \A j \in 1 .. Len(s) : s[j] = t[j]
    <3>1. \A j \in 1 .. Len(s) : j \in 1 .. (i - 1)
      BY <1>1, <1>4, <1>8
    <3> QED
      BY <1>5, <3>1
  <2>5. s = t
    BY <2>3, <2>4, SeqEqual DEF Text
  <2> QED
    BY <2>5
<1>9. CASE i <= Len(s) /\ i <= Len(t)
  <2>1. i \in 1 .. Len(s) /\ i \in 1 .. Len(t)
    BY <1>1, <1>4, <1>9
  <2>2. s[i] \in Nat /\ t[i] \in Nat
    BY <2>1, TextParts
  <2>3. s[i] # t[i]
    BY <1>1, <1>4, <1>9
  <2>4. s[i] < t[i] \/ t[i] < s[i]
    BY <2>2, <2>3
  <2> QED
    BY <1>6, <1>7, <1>9, <2>4
<1> QED
  BY <1>1, <1>4, <1>6, <1>7, <1>8, <1>9

-----------------------------------------------------------------------------
(***************************************************************************)
(* The rank of a text in a finite set tells where it stands in the order,  *)
(* which is how FirstOf and InOrder are defined.                           *)
(***************************************************************************)
Below(S, s) == {t \in S : Less(t, s)}
Rank(S, s)  == Cardinality(Below(S, s))

FiniteTexts(S) == S \subseteq Text /\ IsFiniteSet(S)

LEMMA RankType ==
    ASSUME NEW S, FiniteTexts(S), NEW s
    PROVE  IsFiniteSet(Below(S, s)) /\ Rank(S, s) \in Nat /\ Rank(S, s) <= Cardinality(S)
           /\ Cardinality(S) \in Nat
<1>1. Below(S, s) \in SUBSET S
  BY DEF Below
<1>2. IsFiniteSet(Below(S, s)) /\ Cardinality(Below(S, s)) <= Cardinality(S)
  BY <1>1, FS_Subset DEF FiniteTexts
<1> QED
  BY <1>2, FS_CardinalityType DEF Rank, FiniteTexts

\* Ranks are in the order of the texts.
LEMMA RankGrows ==
    ASSUME NEW S, FiniteTexts(S), NEW s \in Text, NEW t \in S, Less(t, s)
    PROVE  Rank(S, t) < Rank(S, s)
<1>1. t \in Text
  BY DEF FiniteTexts
<1>2. Below(S, t) \subseteq Below(S, s)
  BY <1>1, LessTransitive DEF Below, FiniteTexts
<1>3. t \in Below(S, s) /\ t \notin Below(S, t)
  BY <1>1, LessIrreflexive DEF Below
<1>4. IsFiniteSet(Below(S, s)) /\ Rank(S, s) \in Nat /\ Rank(S, t) \in Nat
  BY RankType
<1>5. /\ Cardinality(Below(S, t)) <= Cardinality(Below(S, s))
      /\ Cardinality(Below(S, s)) # Cardinality(Below(S, t))
  BY <1>2, <1>3, <1>4, FS_Subset
<1>6. Rank(S, t) <= Rank(S, s) /\ Rank(S, s) # Rank(S, t)
  BY <1>5 DEF Rank
<1> QED
  BY <1>4, <1>6

LEMMA RankBelowSize ==
    ASSUME NEW S, FiniteTexts(S), NEW s \in S
    PROVE  Rank(S, s) < Cardinality(S)
<1>1. Below(S, s) \in SUBSET S /\ s \notin Below(S, s)
  BY LessIrreflexive DEF Below, FiniteTexts
<1>2. Cardinality(Below(S, s)) <= Cardinality(S) /\ Cardinality(S) # Cardinality(Below(S, s))
  BY <1>1, FS_Subset DEF FiniteTexts
<1>3. Rank(S, s) <= Cardinality(S) /\ Cardinality(S) # Rank(S, s)
  BY <1>2 DEF Rank
<1> QED
  BY <1>3, RankType

LEMMA RankOrders ==
    ASSUME NEW S, FiniteTexts(S), NEW s \in S, NEW t \in S
    PROVE  /\ Rank(S, s) < Rank(S, t) => Less(s, t)
           /\ Rank(S, s) = Rank(S, t) => s = t
<1>1. s \in Text /\ t \in Text /\ Rank(S, s) \in Nat /\ Rank(S, t) \in Nat
  BY RankType DEF FiniteTexts
<1>2. CASE s = t
  BY <1>1, <1>2
<1>3. CASE Less(s, t)
  BY <1>1, <1>3, RankGrows
<1>4. CASE Less(t, s)
  BY <1>1, <1>4, RankGrows
<1> QED
  BY <1>1, <1>2, <1>3, <1>4, LessTotal

\* A finite set of texts has a first and a last one.
LEMMA FirstText ==
    ASSUME NEW S, FiniteTexts(S), S # {}
    PROVE  \E s \in S : \A t \in S : ~Less(t, s)
<1> DEFINE T == {Rank(S, s) : s \in S}
<1>1. T \subseteq Nat /\ T # {}
  BY RankType
<1>2. \E n \in T : \A m \in T : n <= m
  <2> HIDE DEF T
  <2> QED
    BY <1>1, LeastNatural
<1>3. PICK s \in S : \A t \in S : Rank(S, s) <= Rank(S, t)
  BY <1>2
<1>4. ASSUME NEW t \in S, Less(t, s) PROVE FALSE
  <2>1. Rank(S, t) < Rank(S, s)
    BY <1>4, RankGrows DEF FiniteTexts
  <2>2. Rank(S, s) <= Rank(S, t) /\ Rank(S, s) \in Nat /\ Rank(S, t) \in Nat
    BY <1>3, RankType
  <2> QED
    BY <2>1, <2>2
<1> QED
  BY <1>4

LEMMA LastText ==
    ASSUME NEW S, FiniteTexts(S), S # {}
    PROVE  \E s \in S : \A t \in S : ~Less(s, t)
<1> DEFINE n == Cardinality(S)
           T == {n - Rank(S, s) : s \in S}
<1>1. n \in Nat /\ \A s \in S : Rank(S, s) \in Nat /\ Rank(S, s) <= n
  BY RankType
<1>2. T \subseteq Nat /\ T # {}
  <2> SUFFICES ASSUME NEW s \in S PROVE n - Rank(S, s) \in Nat
    OBVIOUS
  <2>1. n \in Nat /\ Rank(S, s) \in Nat /\ Rank(S, s) <= n
    BY <1>1
  <2> HIDE DEF n
  <2> QED
    BY <2>1
<1>3. \E k \in T : \A m \in T : k <= m
  <2> HIDE DEF T
  <2> QED
    BY <1>2, LeastNatural
<1>4. PICK s \in S : \A t \in S : n - Rank(S, s) <= n - Rank(S, t)
  BY <1>3
<1>5. ASSUME NEW t \in S, Less(s, t) PROVE FALSE
  <2>1. Rank(S, s) < Rank(S, t)
    BY <1>5, RankGrows DEF FiniteTexts
  <2>2. n - Rank(S, s) <= n - Rank(S, t)
    BY <1>4
  <2> HIDE DEF n
  <2> QED
    BY <1>1, <2>1, <2>2
<1> QED
  BY <1>5

\* The first ones of a set, and what is left.
LEMMA FirstOfParts ==
    ASSUME NEW S, FiniteTexts(S), NEW max \in Nat
    PROVE  /\ FirstOf(S, max) \subseteq S /\ FiniteTexts(FirstOf(S, max))
           /\ \A s \in FirstOf(S, max) : \A t \in S : Less(t, s) => t \in FirstOf(S, max)
           /\ \A s \in FirstOf(S, max) : \A t \in S \ FirstOf(S, max) : Less(s, t)
<1> DEFINE F == FirstOf(S, max)
<1>1. F = {s \in S : Rank(S, s) < max}
  BY DEF FirstOf, Rank, Below
<1>2. F \subseteq S
  BY <1>1
<1>3. FiniteTexts(F)
  BY <1>2, FS_Subset DEF FiniteTexts
<1>4. ASSUME NEW s \in F, NEW t \in S, Less(t, s) PROVE t \in F
  <2>1. Rank(S, t) < Rank(S, s) /\ Rank(S, s) < max
    BY <1>1, <1>4, RankGrows DEF FiniteTexts
  <2>2. Rank(S, t) \in Nat /\ Rank(S, s) \in Nat
    BY RankType
  <2>3. Rank(S, t) < max
    BY <2>1, <2>2
  <2> QED
    BY <1>1, <2>3
<1>5. ASSUME NEW s \in F, NEW t \in S \ F PROVE Less(s, t)
  <2>1. s \in Text /\ t \in Text /\ s # t /\ ~Less(t, s)
    BY <1>2, <1>4, <1>5 DEF FiniteTexts
  <2> QED
    BY <2>1, LessTotal
<1> QED
  BY <1>2, <1>3, <1>4, <1>5

\* Asked for as many as there are, or more than were found, FirstOf returns all.
LEMMA FirstOfAll ==
    ASSUME NEW S, FiniteTexts(S), NEW max \in Nat
    PROVE  /\ Cardinality(S) <= max => FirstOf(S, max) = S
           /\ Cardinality(FirstOf(S, max)) < max => FirstOf(S, max) = S
           /\ max # 0 /\ S # {} => FirstOf(S, max) # {}
<1> DEFINE F == FirstOf(S, max)
<1>1. F = {s \in S : Rank(S, s) < max}
  BY DEF FirstOf, Rank, Below
<1>2. ASSUME Cardinality(S) <= max PROVE F = S
  <2>1. ASSUME NEW s \in S PROVE Rank(S, s) < max
    BY <1>2, RankBelowSize, RankType
  <2> QED
    BY <1>1, <2>1
<1>3. ASSUME Cardinality(F) < max, F # S PROVE FALSE
  <2> DEFINE R == S \ F
  <2>1. R \in SUBSET S /\ R # {}
    BY <1>1, <1>3
  <2>2. FiniteTexts(R)
    BY <2>1, FS_Subset DEF FiniteTexts
  <2>3. PICK s \in R : \A t \in R : ~Less(t, s)
    <3> HIDE DEF R
    <3> QED
      BY <2>1, <2>2, FirstText
  <2>4. Below(S, s) \in SUBSET F
    BY <2>3 DEF Below
  <2>5. FiniteTexts(F)
    BY FirstOfParts
  <2>6. Cardinality(Below(S, s)) <= Cardinality(F) /\ Cardinality(F) \in Nat
    <3> HIDE DEF F
    <3> QED
      BY <2>4, <2>5, FS_Subset, FS_CardinalityType DEF FiniteTexts
  <2>7. Rank(S, s) < max
    <3>1. Rank(S, s) <= Cardinality(F) /\ Rank(S, s) \in Nat
      BY <2>6, RankType DEF Rank
    <3> HIDE DEF F
    <3> QED
      BY <1>3, <2>6, <3>1
  <2> QED
    BY <1>1, <2>7
<1>4. ASSUME max # 0, S # {} PROVE F # {}
  <2>1. PICK s \in S : \A t \in S : ~Less(t, s)
    BY <1>4, FirstText
  <2>2. Below(S, s) = {}
    BY <2>1 DEF Below
  <2>3. Rank(S, s) = 0
    BY <2>2, FS_EmptySet DEF Rank
  <2> QED
    BY <1>1, <1>4, <2>3
<1> QED
  BY <1>2, <1>3, <1>4

-----------------------------------------------------------------------------
(***************************************************************************)
(* Users.  Every text reads back as a text, and what is stored is not      *)
(* empty, so a marker is a text and the empty one is below every row.      *)
(***************************************************************************)
LEMMA ParsedParts ==
    ASSUME NEW s \in Text
    PROVE  ParseUid(s).tenant \in Text /\ ParseUid(s).id \in Text
<1> DEFINE dollars == {i \in DOMAIN s : s[i] = Dollar}
           at == CHOOSE i \in dollars : \A j \in dollars : i <= j
<1>1. Len(s) \in Nat /\ DOMAIN s = 1 .. Len(s) /\ \A i \in 1 .. Len(s) : s[i] \in Nat
  BY LenProperties, TextParts DEF Text
<1>2. CASE dollars = {}
  <2>1. ParseUid(s) = [tenant |-> <<>>, id |-> s]
    BY <1>2 DEF ParseUid
  <2>2. <<>> \in Text
    BY EmptySeq DEF Text
  <2> QED
    BY <2>1, <2>2
<1>3. CASE dollars # {}
  <2>1. dollars \subseteq Nat
    BY <1>1
  <2>2. \E i \in dollars : \A j \in dollars : i <= j
    <3> HIDE DEF dollars
    <3> QED
      BY <1>3, <2>1, LeastNatural
  <2>3. at \in dollars
    BY <2>2
  <2>4. at \in 1 .. Len(s)
    BY <1>1, <2>3
  <2>5. ParseUid(s) = [tenant |-> SubSeq(s, 1, at - 1), id |-> SubSeq(s, at + 1, Len(s))]
    BY <1>3 DEF ParseUid
  <2> HIDE DEF at, dollars
  <2>6. SubSeq(s, 1, at - 1) \in Text /\ SubSeq(s, at + 1, Len(s)) \in Text
    <3>1. \A a, b \in Int : (\A k \in a .. b : s[k] \in Nat) => SubSeq(s, a, b) \in Seq(Nat)
      BY SubSeqProperties DEF Text
    <3>2. /\ at - 1 \in Int /\ at + 1 \in Int /\ Len(s) \in Int /\ 1 \in Int
          /\ \A k \in 1 .. at - 1 : k \in 1 .. Len(s)
          /\ \A k \in at + 1 .. Len(s) : k \in 1 .. Len(s)
      BY <1>1, <2>4
    <3> QED
      BY <1>1, <3>1, <3>2 DEF Text
  <2> QED
    BY <2>5, <2>6
<1> QED
  BY <1>2, <1>3

LEMMA ReadBackIs ==
    ASSUME NEW s \in Text
    PROVE  /\ ReadBack(s) \in Text
           /\ ParseUid(s).id # <<>> => Less(<<>>, ReadBack(s))
<1> DEFINE a == ParseUid(s).tenant
           b == ParseUid(s).id
           t == ReadBack(s)
<1>1. t = IF a = <<>> THEN b ELSE a \o <<Dollar>> \o b
  BY DEF ReadBack, UidText
<1>2. a \in Seq(Nat) /\ b \in Seq(Nat) /\ <<Dollar>> \in Seq(Nat)
  BY ParsedParts, UserListingAssumption DEF Text
<1> HIDE DEF a, b, t
<1>3. t \in Seq(Nat) /\ (b # <<>> => Len(t) # 0)
  <2>1. CASE a = <<>>
    BY <1>1, <1>2, <2>1, EmptySeq
  <2>2. CASE a # <<>>
    <3>1. a \o <<Dollar>> \in Seq(Nat) /\ Len(a) \in Nat /\ Len(b) \in Nat /\ Len(a) # 0
      BY <1>2, <2>2, ConcatProperties, LenProperties, EmptySeq
    <3>2. Len(a \o <<Dollar>>) = Len(a) + Len(<<Dollar>>) /\ Len(<<Dollar>>) = 1
      BY <1>2, ConcatProperties
    <3> DEFINE c == a \o <<Dollar>>
    <3>3. c \in Seq(Nat) /\ Len(c) \in Nat /\ Len(c) # 0
      BY <3>1, <3>2
    <3>4. t = c \o b
      BY <1>1, <2>2
    <3> HIDE DEF c
    <3>5. t \in Seq(Nat) /\ Len(t) = Len(c) + Len(b)
      BY <1>2, <3>3, <3>4, ConcatProperties
    <3> QED
      BY <3>1, <3>3, <3>5
  <2> QED
    BY <2>1, <2>2
<1>4. ASSUME b # <<>> PROVE Less(<<>>, t)
  <2>1. Len(t) \in Nat /\ Len(<<>>) = 0
    BY <1>3, LenProperties
  <2>2. LessAt(<<>>, t, 1)
    BY <1>3, <1>4, <2>1 DEF LessAt
  <2> QED
    BY <2>2, LessIsAt
<1> QED
  BY <1>3, <1>4 DEF a, b, t, Text

\* What is stored: the texts of the ids that are given.
UidTexts == {UidText(ParseUid(s)) : s \in {u \in Uid : UidGiven(u)}}

LEMMA UidTextsAre ==
    ASSUME NEW t \in UidTexts
    PROVE  t \in Text /\ Less(<<>>, t)
<1>1. PICK s \in Uid : UidGiven(s) /\ t = ReadBack(s)
  BY DEF UidTexts, ReadBack
<1>2. s \in Text
  BY UserListingAssumption DEF Text
<1> QED
  BY <1>1, <1>2, ReadBackIs DEF UidGiven

Pager == [pc: {"idle", "listing", "done"}, marker: Text, max: Nat, seen: SUBSET Text,
          steady: SUBSET Text, misread: SUBSET Text]

UsersOK ==
    /\ table \subseteq UidTexts /\ IsFiniteSet(table)
    /\ pager \in Pager /\ pager.steady \subseteq table
    /\ pager.pc = "listing" =>
          \A t \in pager.steady :
             ReadBack(t) \in pager.seen \/ PassedOver(t) \/ Less(pager.marker, t)
    /\ SteadyUsersListed

\* What a page of users holds and where the next one starts.
LEMMA UserPage ==
    ASSUME table \subseteq UidTexts, IsFiniteSet(table), NEW marker \in Text, NEW max \in Nat
    PROVE  LET page == user_list(marker, max)
           IN  /\ {UidText(u) : u \in page.ids} \subseteq Text
               /\ page.truncated \in BOOLEAN
               /\ page.next_marker \in Text /\ page.last \in Text
               /\ page.truncated => page.next_marker = ReadBack(page.last)
               /\ \A t \in table : Less(marker, t) =>
                     \/ ReadBack(t) \in {UidText(u) : u \in page.ids}
                     \/ page.truncated /\ Less(page.last, t)
<1> DEFINE T == {t \in table : Less(marker, t)}
           n == PageSize(max)
           found == FirstOf(T, n + 1)
           rows == FirstOf(found, n)
           last == CHOOSE t \in rows : \A r \in rows : ~Less(t, r)
           page == user_list(marker, max)
<1>1. n \in Nat \ {0}
  BY UserListingAssumption DEF PageSize
<1>2. FiniteTexts(T) /\ T \subseteq UidTexts
  <2>1. T \in SUBSET table
    OBVIOUS
  <2> QED
    BY <2>1, FS_Subset, UidTextsAre DEF FiniteTexts
<1>3. page = PageOfRows(rows, Cardinality(found) > n)
  BY DEF user_list, list_users
<1> HIDE DEF T, n
<1>4. /\ n + 1 \in Nat /\ found \subseteq T /\ FiniteTexts(found)
      /\ \A s \in found : \A t \in T \ found : Less(s, t)
  <2>1. n + 1 \in Nat
    BY <1>1
  <2> QED
    BY <1>2, <2>1, FirstOfParts
<1>5. Cardinality(found) \in Nat
  BY <1>4, FS_CardinalityType DEF FiniteTexts
<1>6. Cardinality(found) < n + 1 => found = T
  BY <1>2, <1>4, FirstOfAll
<1> HIDE DEF found
<1>7. /\ rows \subseteq found /\ FiniteTexts(rows)
      /\ \A s \in rows : \A t \in found \ rows : Less(s, t)
  BY <1>1, <1>4, FirstOfParts
<1>8. /\ Cardinality(found) <= n => rows = found
      /\ found # {} => rows # {}
  BY <1>1, <1>4, FirstOfAll
<1> HIDE DEF rows
<1>9. {UidText(u) : u \in {ParseUid(t) : t \in rows}} = {ReadBack(t) : t \in rows}
  BY DEF ReadBack
<1>10. /\ page.ids = {ParseUid(t) : t \in rows}
       /\ page.truncated = (Cardinality(found) > n)
       /\ page.next_marker = IF Cardinality(found) > n THEN ReadBack(last) ELSE <<>>
       /\ page.last = IF Cardinality(found) > n THEN last ELSE <<>>
  BY <1>3 DEF PageOfRows
<1>11. /\ {UidText(u) : u \in page.ids} = {ReadBack(t) : t \in rows}
       /\ page.truncated \in BOOLEAN
  <2> DEFINE more == Cardinality(found) > n
  <2>1. more \in BOOLEAN
    OBVIOUS
  <2> HIDE DEF page, last
  <2>2. page.truncated = more /\ {UidText(u) : u \in page.ids} = {ReadBack(t) : t \in rows}
    BY <1>9, <1>10
  <2> HIDE DEF more
  <2> QED
    BY <2>1, <2>2
<1>12. /\ {ReadBack(t) : t \in rows} \subseteq Text
       /\ \A t \in table : Less(marker, t) => t \in T
  <2>1. \A t \in rows : t \in Text
    BY <1>2, <1>4, <1>7, UidTextsAre
  <2> QED
    BY <2>1, ReadBackIs DEF T
<1>13. CASE ~(Cardinality(found) > n)
  <2>1. rows = T
    BY <1>1, <1>5, <1>6, <1>8, <1>13
  <2>2. page.next_marker = <<>> /\ page.last = <<>> /\ <<>> \in Text /\ ~page.truncated
    BY <1>10, <1>13, EmptySeq DEF Text
  <2> HIDE DEF page
  <2> QED
    BY <1>11, <1>12, <2>1, <2>2 DEF page
<1>14. CASE Cardinality(found) > n
  <2>1. rows # {}
    <3>1. found # {}
      BY <1>1, <1>14, FS_EmptySet
    <3> QED
      BY <1>8, <3>1
  <2>2. last \in rows /\ \A r \in rows : ~Less(last, r)
    BY <1>7, <2>1, LastText
  <2> HIDE DEF last
  <2>3. last \in Text /\ ReadBack(last) \in Text
    BY <1>2, <1>4, <1>7, <2>2, UidTextsAre, ReadBackIs
  <2>4. page.next_marker = ReadBack(last) /\ page.last = last /\ page.truncated
    BY <1>10, <1>14
  <2>5. \A t \in T : t \in rows \/ Less(last, t)
    BY <1>4, <1>7, <2>2
  <2> HIDE DEF page
  <2> QED
    BY <1>11, <1>12, <2>3, <2>4, <2>5 DEF page
<1> QED
  BY <1>13, <1>14

LEMMA UsersStep ==
    ASSUME UsersOK, UsersNext
    PROVE  UsersOK'
<1>1. /\ table \subseteq UidTexts /\ IsFiniteSet(table)
      /\ pager \in Pager /\ pager.steady \subseteq table /\ table \subseteq Text
  BY UidTextsAre DEF UsersOK
<1>2. ASSUME NEW max \in MaxEntries, BeginUsers(max) PROVE UsersOK'
  <2>1. /\ UNCHANGED table
        /\ pager' = [pc |-> "listing", marker |-> <<>>, max |-> max, seen |-> {}, steady |-> table,
                    misread |-> {}]
    BY <1>2 DEF BeginUsers, NoPager
  <2>2. max \in Nat /\ <<>> \in Text
    BY UserListingAssumption, EmptySeq DEF Text
  <2>3. \A t \in table : Less(<<>>, t)
    BY <1>1, UidTextsAre
  <2> QED
    BY <1>1, <2>1, <2>2, <2>3 DEF UsersOK, Pager, SteadyUsersListed
<1>3. ASSUME FetchUsers PROVE UsersOK'
  <2> DEFINE page == user_list(pager.marker, pager.max)
             shown == {UidText(u) : u \in page.ids}
             odd == {page.last} \ {page.next_marker}
  <2>1. /\ pager.pc = "listing" /\ UNCHANGED table
        /\ pager' = [pager EXCEPT !.seen = @ \cup shown, !.marker = page.next_marker,
                                  !.misread = @ \cup odd,
                                  !.pc = IF page.truncated THEN "listing" ELSE "done"]
    BY <1>3 DEF FetchUsers
  <2>2. pager.marker \in Text /\ pager.max \in Nat
    BY <1>1 DEF Pager
  <2>3. /\ shown \subseteq Text /\ page.truncated \in BOOLEAN
        /\ page.next_marker \in Text /\ page.last \in Text
        /\ page.truncated => page.next_marker = ReadBack(page.last)
        /\ \A t \in table : Less(pager.marker, t) =>
              ReadBack(t) \in shown \/ (page.truncated /\ Less(page.last, t))
    BY <1>1, <2>2, UserPage
  <2>4. \A t \in pager.steady :
           ReadBack(t) \in pager.seen \/ PassedOver(t) \/ Less(pager.marker, t)
    BY <2>1 DEF UsersOK
  <2>5. odd \subseteq Text /\ (page.last # page.next_marker => page.last \in odd)
    BY <2>3
  <2> HIDE DEF page, shown, odd
  <2>6. /\ pager' \in Pager /\ pager'.steady = pager.steady /\ pager'.seen = pager.seen \cup shown
        /\ pager'.marker = page.next_marker /\ pager'.misread = pager.misread \cup odd
        /\ pager'.pc = IF page.truncated THEN "listing" ELSE "done"
    BY <1>1, <2>1, <2>3, <2>5 DEF Pager
  <2>7. ASSUME NEW t \in pager.steady
        PROVE  \/ ReadBack(t) \in pager'.seen \/ PassedOver(t)'
               \/ page.truncated /\ Less(pager'.marker, t)
    <3>1. CASE ReadBack(t) \in pager.seen \/ ReadBack(t) \in shown
      BY <2>6, <3>1
    <3>2. CASE PassedOver(t)
      BY <2>6, <3>2 DEF PassedOver
    <3>3. CASE page.truncated /\ Less(page.last, t)
      <4>1. CASE Less(page.next_marker, t)
        BY <2>6, <3>3, <4>1
      <4>2. CASE ~Less(page.next_marker, t)
        <5>1. page.last \in odd /\ page.next_marker = ReadBack(page.last)
          BY <2>3, <2>5, <3>3, <4>2
        <5>2. page.last \in pager'.misread /\ ~Less(ReadBack(page.last), t)
          BY <2>6, <4>2, <5>1
        <5> QED
          BY <3>3, <5>2 DEF PassedOver
      <4> QED
        BY <4>1, <4>2
    <3> QED
      BY <1>1, <2>3, <2>4, <3>1, <3>2, <3>3
  <2>8. \A t \in pager'.steady :
           \/ ReadBack(t) \in pager'.seen \/ PassedOver(t)'
           \/ page.truncated /\ Less(pager'.marker, t)
    BY <2>6, <2>7
  <2> QED
    BY <1>1, <2>1, <2>6, <2>8 DEF UsersOK, SteadyUsersListed
<1>4. ASSUME NEW s \in Uid, CreateUid(s) PROVE UsersOK'
  <2> DEFINE t == UidText(ParseUid(s))
  <2>1. table' = table \cup {t} /\ UNCHANGED pager /\ t \in UidTexts
    BY <1>4 DEF CreateUid, UidTexts
  <2> HIDE DEF t
  <2>2. IsFiniteSet(table')
    BY <1>1, <2>1, FS_AddElement
  <2> QED
    BY <1>1, <2>1, <2>2 DEF UsersOK, SteadyUsersListed, PassedOver
<1>5. ASSUME NEW s \in Uid, RemoveUid(s) PROVE UsersOK'
  <2> DEFINE t == UidText(ParseUid(s))
  <2>1. table' = table \ {t} /\ pager' = [pager EXCEPT !.steady = @ \ {t}]
    BY <1>5 DEF RemoveUid
  <2> HIDE DEF t
  <2>2. IsFiniteSet(table')
    BY <1>1, <2>1, FS_RemoveElement
  <2>3. /\ pager' \in Pager /\ pager'.steady = pager.steady \ {t} /\ pager'.seen = pager.seen
        /\ pager'.marker = pager.marker /\ pager'.pc = pager.pc
        /\ pager'.misread = pager.misread
    BY <1>1, <2>1 DEF Pager
  <2> QED
    BY <1>1, <2>1, <2>2, <2>3 DEF UsersOK, SteadyUsersListed, PassedOver
<1> QED
  BY <1>2, <1>3, <1>4, <1>5 DEF UsersNext

(***************************************************************************)
(* A finished listing of the users (user_list, list_all_users) has shown   *)
(* every user that was there from its first page to its last, save those   *)
(* passed over from a user whose id is misread, for any ids, any page size *)
(* and any creations and removals between the pages.                       *)
(***************************************************************************)
THEOREM UsersAreListed == MCSpec => []SteadyUsersListed
<1>1. MCInit => UsersOK
  <2> SUFFICES ASSUME MCInit PROVE UsersOK
    OBVIOUS
  <2>1. table = {} /\ pager = NoPager
    BY DEF MCInit, UsersInit
  <2>2. IsFiniteSet(table) /\ <<>> \in Text
    BY <2>1, FS_EmptySet, EmptySeq DEF Text
  <2> QED
    BY <2>1, <2>2 DEF UsersOK, NoPager, Pager, SteadyUsersListed
<1>2. UsersOK /\ [MCNext]_mcVars => UsersOK'
  <2> SUFFICES ASSUME UsersOK, [MCNext]_mcVars PROVE UsersOK'
    OBVIOUS
  <2>1. CASE UNCHANGED userVars
    BY <2>1 DEF userVars, UsersOK, SteadyUsersListed, PassedOver
  <2>2. UsersNext \/ UNCHANGED userVars
    BY DEF MCNext, mcVars
  <2> QED
    BY <2>1, <2>2, UsersStep
<1>3. UsersOK => SteadyUsersListed
  BY DEF UsersOK
<1> QED
  BY <1>1, <1>2, <1>3, PTL DEF MCSpec

-----------------------------------------------------------------------------
(***************************************************************************)
(* Common prefixes.  A cut of a name is a place after the prefix where the *)
(* delimiter ends; the name rolls up into what comes before its first cut. *)
(***************************************************************************)
ParamsOK(p) == p.prefix \in Text /\ p.delimiter \in Text

IsCut(n, k, p) ==
    /\ k \in (Len(p.prefix) + Len(p.delimiter)) .. Len(n)
    /\ \A j \in 1 .. Len(p.delimiter) : n[(k - Len(p.delimiter)) + j] = p.delimiter[j]

FirstCut(n, k, p) ==
    /\ p.delimiter # <<>>
    /\ IsCut(n, k, p)
    /\ \A j : IsCut(n, j, p) => k <= j

\* A part of a text.
LEMMA PartOf ==
    ASSUME NEW n \in Text, NEW a \in Nat \ {0}, NEW b \in Int, b <= Len(n)
    PROVE  /\ SubSeq(n, a, b) \in Text
           /\ Len(SubSeq(n, a, b)) = IF a <= b THEN (b - a) + 1 ELSE 0
           /\ \A i \in 1 .. ((b - a) + 1) : SubSeq(n, a, b)[i] = n[(a + i) - 1]
<1>1. Len(n) \in Nat /\ \A i \in 1 .. Len(n) : n[i] \in Nat
  BY TextParts
<1>2. \A i \in a .. b : i \in 1 .. Len(n)
  BY <1>1
<1>3. a \in Int /\ \A i \in a .. b : n[i] \in Nat
  BY <1>1, <1>2
<1> QED
  BY <1>3, SubSeqProperties DEF Text

\* Where the delimiter starts in a name, as list_page looks for it.
LEMMA DelimitedAre ==
    ASSUME NEW n \in Text, NEW p, ParamsOK(p), p.delimiter # <<>>, NEW i \in Int
    PROVE  i \in Delimited(n, p.delimiter, Len(p.prefix) + 1)
              <=> IsCut(n, (i + Len(p.delimiter)) - 1, p)
<1> DEFINE d == p.delimiter
           a == Len(p.prefix)
           b == Len(d)
           l == Len(n)
           k == (i + b) - 1
           s == SubSeq(n, i, k)
<1>1. a \in Nat /\ b \in Nat /\ l \in Nat /\ b # 0 /\ d \in Text
  BY TextParts, EmptySeq DEF ParamsOK, Text
<1>2. i \in Delimited(n, d, a + 1) <=> i \in (a + 1) .. ((l - b) + 1) /\ s = d
  <2> DEFINE A == (a + 1) .. ((l - b) + 1)
  <2> HIDE DEF a, d
  <2>1. Delimited(n, d, a + 1)
           = {j \in (a + 1) .. ((Len(n) - Len(d)) + 1) : SubSeq(n, j, (j + Len(d)) - 1) = d}
    BY DEF Delimited
  <2>2. Delimited(n, d, a + 1) = {j \in A : SubSeq(n, j, (j + b) - 1) = d}
    BY <2>1
  <2> HIDE DEF A, b, l
  <2>3. i \in Delimited(n, d, a + 1) <=> i \in A /\ SubSeq(n, i, (i + b) - 1) = d
    BY <2>2, Zenon
  <2> QED
    BY <2>3, Zenon DEF A
<1>3. IsCut(n, k, p) <=> k \in (a + b) .. l /\ \A j \in 1 .. b : n[(k - b) + j] = d[j]
  BY DEF IsCut
<1> HIDE DEF a, b, l, d
<1>4. i \in (a + 1) .. ((l - b) + 1) <=> k \in (a + b) .. l
  BY <1>1
<1>5. ASSUME k \in (a + b) .. l PROVE s = d <=> \A j \in 1 .. b : n[(k - b) + j] = d[j]
  <2>1. i \in Nat \ {0} /\ k \in Int /\ k <= l /\ i <= k /\ (k - i) + 1 = b
    BY <1>1, <1>5
  <2>2. s \in Text /\ Len(s) = b /\ \A j \in 1 .. b : s[j] = n[(i + j) - 1]
    <3> HIDE DEF k, s
    <3> QED
      BY <2>1, PartOf DEF s, l
  <2>3. \A j \in 1 .. b : (k - b) + j = (i + j) - 1
    BY <1>1
  <2>4. \A j \in 1 .. b : s[j] = n[(k - b) + j]
    BY <2>2, <2>3
  <2> HIDE DEF s, k
  <2>5. ASSUME \A j \in 1 .. b : n[(k - b) + j] = d[j] PROVE s = d
    <3>1. \A j \in 1 .. Len(s) : s[j] = d[j]
      BY <2>2, <2>4, <2>5
    <3>2. Len(s) = Len(d)
      BY <2>2 DEF b
    <3> QED
      BY <1>1, <2>2, <3>1, <3>2, SeqEqual DEF Text
  <2> QED
    BY <2>4, <2>5
<1> QED
  BY <1>2, <1>3, <1>4, <1>5 DEF d, a, b, l

\* Prefixes, element by element.
LEMMA PrefixIs ==
    ASSUME NEW s \in Text, NEW t \in Text
    PROVE  IsPrefix(s, t) <=> Len(s) <= Len(t) /\ \A i \in 1 .. Len(s) : s[i] = t[i]
<1>1. Len(s) \in Nat /\ Len(t) \in Nat
  BY TextParts
<1> SUFFICES ASSUME Len(s) <= Len(t)
             PROVE  SubSeq(s, 1, Len(s)) = SubSeq(t, 1, Len(s))
                        <=> \A i \in 1 .. Len(s) : s[i] = t[i]
  BY DEF IsPrefix
<1> DEFINE m == Len(s)
           a == SubSeq(s, 1, m)
           b == SubSeq(t, 1, m)
<1>2. m \in Nat /\ m <= Len(s) /\ m <= Len(t) /\ 1 \in Nat \ {0} /\ m \in Int
      /\ (IF 1 <= m THEN (m - 1) + 1 ELSE 0) = m /\ (m - 1) + 1 = m
  BY <1>1
<1> HIDE DEF m
<1>3. a \in Text /\ Len(a) = m /\ \A i \in 1 .. m : a[i] = s[(1 + i) - 1]
  BY <1>2, PartOf
<1>4. b \in Text /\ Len(b) = m /\ \A i \in 1 .. m : b[i] = t[(1 + i) - 1]
  BY <1>2, PartOf
<1>5. \A i \in 1 .. m : (1 + i) - 1 = i
  BY <1>2
<1>6. \A i \in 1 .. m : a[i] = s[i] /\ b[i] = t[i]
  BY <1>3, <1>4, <1>5
<1> HIDE DEF a, b
<1>7. ASSUME \A i \in 1 .. m : s[i] = t[i] PROVE a = b
  <2>1. \A i \in 1 .. Len(a) : a[i] = b[i]
    BY <1>3, <1>6, <1>7
  <2> QED
    BY <1>3, <1>4, <2>1, SeqEqual DEF Text
<1>8. a = b <=> \A i \in 1 .. m : s[i] = t[i]
  BY <1>6, <1>7
<1> QED
  BY <1>8 DEF a, b, m

LEMMA ReverseIs ==
    ASSUME NEW s \in Text
    PROVE  /\ Reverse(s) \in Text /\ Len(Reverse(s)) = Len(s)
           /\ \A i \in 1 .. Len(s) : Reverse(s)[i] = s[(Len(s) - i) + 1]
<1>1. Len(s) \in Nat /\ \A i \in 1 .. Len(s) : s[i] \in Nat
  BY TextParts
<1>2. \A i \in 1 .. Len(s) : (Len(s) - i) + 1 \in 1 .. Len(s)
  BY <1>1
<1>3. \A i \in 1 .. Len(s) : s[(Len(s) - i) + 1] \in Nat
  BY <1>1, <1>2
<1> QED
  BY <1>1, <1>3 DEF Reverse, Text

LEMMA SuffixIs ==
    ASSUME NEW d \in Text, NEW s \in Text, Len(d) <= Len(s)
    PROVE  IsSuffix(d, s) <=> \A j \in 1 .. Len(d) : s[(Len(s) - Len(d)) + j] = d[j]
<1> DEFINE b == Len(d)
           k == Len(s)
           x == Reverse(d)
           y == Reverse(s)
<1>1. b \in Nat /\ k \in Nat /\ b <= k
  BY TextParts
<1>2. x \in Text /\ Len(x) = b /\ \A i \in 1 .. b : x[i] = d[(b - i) + 1]
  BY ReverseIs
<1>3. y \in Text /\ Len(y) = k /\ \A i \in 1 .. k : y[i] = s[(k - i) + 1]
  BY ReverseIs
<1>4. IsSuffix(d, s) <=> IsPrefix(x, y)
  BY DEF IsSuffix
<1> HIDE DEF b, k, x, y
<1>5. IsPrefix(x, y) <=> \A i \in 1 .. b : x[i] = y[i]
  BY <1>1, <1>2, <1>3, PrefixIs
<1>6. \A i \in 1 .. b : i \in 1 .. k /\ (b - i) + 1 \in 1 .. b /\ (b - ((b - i) + 1)) + 1 = i
                          /\ (k - i) + 1 = (k - b) + ((b - i) + 1)
  BY <1>1
<1>7. \A i \in 1 .. b : x[i] = d[(b - i) + 1] /\ y[i] = s[(k - b) + ((b - i) + 1)]
  <2> SUFFICES ASSUME NEW i \in 1 .. b
               PROVE  x[i] = d[(b - i) + 1] /\ y[i] = s[(k - b) + ((b - i) + 1)]
    OBVIOUS
  <2>1. i \in 1 .. k /\ (k - i) + 1 = (k - b) + ((b - i) + 1)
    BY <1>6
  <2>2. y[i] = s[(k - i) + 1]
    BY <1>3, <2>1
  <2>3. x[i] = d[(b - i) + 1]
    BY <1>2
  <2> QED
    BY <2>1, <2>2, <2>3, Zenon
<1>8. ASSUME \A i \in 1 .. b : x[i] = y[i], NEW j \in 1 .. b PROVE s[(k - b) + j] = d[j]
  <2> DEFINE i == (b - j) + 1
  <2>1. i \in 1 .. b /\ (b - i) + 1 = j
    BY <1>6
  <2> HIDE DEF i
  <2>2. x[i] = d[(b - i) + 1] /\ y[i] = s[(k - b) + ((b - i) + 1)] /\ x[i] = y[i]
    BY <1>7, <1>8, <2>1
  <2> QED
    BY <2>1, <2>2
<1>9. ASSUME \A j \in 1 .. b : s[(k - b) + j] = d[j], NEW i \in 1 .. b PROVE x[i] = y[i]
  BY <1>6, <1>7, <1>9, Zenon
<1> QED
  BY <1>4, <1>5, <1>8, <1>9 DEF b, k

\* There is a first cut if there is any.
LEMMA FirstCutExists ==
    ASSUME NEW n \in Text, NEW p, ParamsOK(p), p.delimiter # <<>>, NEW c, IsCut(n, c, p)
    PROVE  \E k : FirstCut(n, k, p)
<1> DEFINE T == {k \in Nat : IsCut(n, k, p)}
<1>0. Len(p.prefix) \in Nat /\ Len(p.delimiter) \in Nat /\ Len(n) \in Nat
  BY TextParts DEF ParamsOK
<1>1. \A k : IsCut(n, k, p) => k \in Nat
  <2>1. \A k : IsCut(n, k, p) => k \in (Len(p.prefix) + Len(p.delimiter)) .. Len(n)
    BY DEF IsCut
  <2>2. (Len(p.prefix) + Len(p.delimiter)) .. Len(n) \subseteq Nat
    <3> DEFINE a == Len(p.prefix)
               b == Len(p.delimiter)
               l == Len(n)
    <3>1. a \in Nat /\ b \in Nat /\ l \in Nat
      BY <1>0
    <3> HIDE DEF a, b, l
    <3>2. (a + b) .. l \subseteq Nat
      BY <3>1
    <3> QED
      BY <3>2 DEF a, b, l
  <2> QED
    BY <2>1, <2>2
<1>2. T \subseteq Nat /\ T # {}
  BY <1>1
<1>3. \E k \in T : \A m \in T : k <= m
  <2> HIDE DEF T
  <2> QED
    BY <1>2, LeastNatural
<1>4. PICK k \in Nat : IsCut(n, k, p) /\ \A m \in T : k <= m
  BY <1>3
<1> QED
  BY <1>1, <1>4 DEF FirstCut

\* What a row is shown as: common_prefix, by cuts.
LEMMA EntryIs ==
    ASSUME NEW n \in Text, NEW p, ParamsOK(p)
    PROVE  /\ \A k : FirstCut(n, k, p) => RollsUp(n, p) /\ Entry(n, p) = SubSeq(n, 1, k)
           /\ (\A k : ~FirstCut(n, k, p)) => ~RollsUp(n, p) /\ Entry(n, p) = n
<1> DEFINE d == p.delimiter
           at == Delimited(n, d, Len(p.prefix) + 1)
           b == Len(d)
<1>0. b \in Nat /\ Len(p.prefix) \in Nat /\ Len(n) \in Nat
  BY TextParts DEF ParamsOK
<1>1. at \subseteq Int
  <2>1. at \subseteq (Len(p.prefix) + 1) .. ((Len(n) - b) + 1)
    BY DEF Delimited
  <2> HIDE DEF at, b
  <2> QED
    BY <1>0, <2>1
<1>2. ASSUME NEW k, FirstCut(n, k, p)
      PROVE  RollsUp(n, p) /\ Entry(n, p) = SubSeq(n, 1, k)
  <2>1. d # <<>> /\ IsCut(n, k, p) /\ \A j : IsCut(n, j, p) => k <= j
    BY <1>2 DEF FirstCut
  <2>2. k \in Int
    BY <1>0, <2>1 DEF IsCut
  <2> DEFINE i == (k - b) + 1
  <2>3. i \in Int /\ (i + b) - 1 = k /\ i + (b - 1) = k
    BY <1>0, <2>2
  <2> HIDE DEF i
  <2>4. i \in at
    BY <2>1, <2>3, DelimitedAre
  <2>5. ASSUME NEW j \in at PROVE i <= j
    <3>1. j \in Int /\ IsCut(n, (j + b) - 1, p)
      BY <1>1, <2>1, <2>5, DelimitedAre
    <3>2. k <= (j + b) - 1
      BY <2>1, <3>1
    <3> HIDE DEF b, at, d
    <3> QED
      BY <1>0, <2>2, <2>3, <3>1, <3>2
  <2>6. Min(at) = i
    <3> DEFINE x == Min(at)
    <3>1. x = CHOOSE y \in at : \A z \in at : y <= z
      BY DEF Min
    <3> HIDE DEF at, x
    <3>2. x \in at /\ \A z \in at : x <= z
      BY <2>4, <2>5, <3>1
    <3>3. x \in Int /\ x <= i /\ i <= x
      BY <1>1, <2>4, <2>5, <3>2
    <3>4. x = i
      BY <2>3, <3>3
    <3> QED
      BY <3>4 DEF x
  <2>7. common_prefix(n, p.prefix, d) = Present(SubSeq(n, 1, Min(at) + (b - 1)))
    <3>1. ~(d = <<>> \/ at = {})
      BY <2>1, <2>4
    <3> QED
      BY <3>1, Zenon DEF common_prefix
  <2>8. common_prefix(n, p.prefix, d) = <<SubSeq(n, 1, k)>>
    BY <2>3, <2>6, <2>7 DEF Present
  <2> DEFINE e == SubSeq(n, 1, k)
             c == common_prefix(n, p.prefix, p.delimiter)
  <2>9. c = <<e>>
    BY <2>8
  <2>10. RollsUp(n, p) <=> c # <<>>
    BY DEF RollsUp, Absent
  <2>11. Entry(n, p) = IF c = <<>> THEN n ELSE c[1]
    BY DEF Entry, Absent
  <2> HIDE DEF c, e
  <2>12. RollsUp(n, p) /\ Entry(n, p) = e
    BY <2>9, <2>10, <2>11
  <2> QED
    BY <2>12 DEF e
<1>3. ASSUME \A k : ~FirstCut(n, k, p) PROVE ~RollsUp(n, p) /\ Entry(n, p) = n
  <2>1. d = <<>> \/ at = {}
    <3> SUFFICES ASSUME d # <<>>, NEW i \in at PROVE FALSE
      OBVIOUS
    <3>1. i \in Int
      BY <1>1
    <3>2. IsCut(n, (i + b) - 1, p)
      BY <3>1, DelimitedAre
    <3> QED
      BY <1>3, <3>2, FirstCutExists
  <2>2. common_prefix(n, p.prefix, d) = Absent
    BY <2>1 DEF common_prefix
  <2> QED
    BY <2>2 DEF RollsUp, Entry
<1> QED
  BY <1>2, <1>3

\* The definition of what is to be shown comes to the same.
LEMMA ShownIsEntry ==
    ASSUME NEW n \in Text, NEW p, ParamsOK(p)
    PROVE  Shown(n, p) = Entry(n, p)
<1> DEFINE d == p.delimiter
           a == Len(p.prefix)
           b == Len(d)
           cuts == {k \in (a + b) .. Len(n) : IsSuffix(d, SubSeq(n, 1, k))}
<1>1. a \in Nat /\ b \in Nat /\ Len(n) \in Nat /\ d \in Text
  BY TextParts DEF ParamsOK
<1>2. Shown(n, p) = IF d = <<>> \/ cuts = {} THEN n ELSE SubSeq(n, 1, Min(cuts))
  BY DEF Shown
<1>3. ASSUME NEW k \in (a + b) .. Len(n) PROVE k \in cuts <=> IsCut(n, k, p)
  <2> DEFINE s == SubSeq(n, 1, k)
  <2>1. k \in Int /\ k <= Len(n) /\ 1 \in Nat \ {0} /\ b <= k
           /\ (IF 1 <= k THEN (k - 1) + 1 ELSE 0) = k /\ (k - 1) + 1 = k
    <3> HIDE DEF a, b
    <3> QED
      BY <1>1
  <2>2. s \in Text /\ Len(s) = k /\ \A i \in 1 .. k : s[i] = n[(1 + i) - 1]
    <3> HIDE DEF b, a
    <3> QED
      BY <2>1, PartOf
  <2>3. IsSuffix(d, s) <=> \A j \in 1 .. b : s[(k - b) + j] = d[j]
    <3> HIDE DEF s
    <3>1. Len(d) <= Len(s)
      BY <2>1, <2>2
    <3>2. IsSuffix(d, s) <=> \A j \in 1 .. Len(d) : s[(Len(s) - Len(d)) + j] = d[j]
      BY <1>1, <2>2, <3>1, SuffixIs
    <3> QED
      BY <2>2, <3>2
  <2>4. \A j \in 1 .. b : s[(k - b) + j] = n[(k - b) + j]
    <3> SUFFICES ASSUME NEW j \in 1 .. b PROVE s[(k - b) + j] = n[(k - b) + j]
      OBVIOUS
    <3> DEFINE i == (k - b) + j
    <3> HIDE DEF s
    <3>1. i \in 1 .. k /\ (1 + i) - 1 = i
      <4> HIDE DEF b
      <4> QED
        BY <1>1, <2>1
    <3> HIDE DEF i
    <3>2. s[i] = n[i]
      BY <2>2, <3>1
    <3> QED
      BY <3>2 DEF i
  <2>5. IsCut(n, k, p) <=> \A j \in 1 .. b : n[(k - b) + j] = d[j]
    BY DEF IsCut
  <2>6. k \in cuts <=> IsSuffix(d, s)
    OBVIOUS
  <2> HIDE DEF s, cuts, b
  <2> QED
    BY <2>3, <2>4, <2>5, <2>6
<1>4. \A k : IsCut(n, k, p) => k \in (a + b) .. Len(n)
  BY DEF IsCut
<1>5. \A k : k \in cuts <=> IsCut(n, k, p)
  BY <1>3, <1>4
<1>6. cuts \subseteq Int
  <2>1. cuts \subseteq (a + b) .. Len(n)
    OBVIOUS
  <2> HIDE DEF cuts, a, b
  <2> QED
    BY <1>1, <2>1
<1> HIDE DEF cuts
<1>7. CASE \E k : FirstCut(n, k, p)
  <2>1. PICK k : FirstCut(n, k, p)
    BY <1>7
  <2>2. d # <<>> /\ k \in cuts /\ \A j \in cuts : k <= j
    BY <1>5, <2>1 DEF FirstCut
  <2>3. Min(cuts) \in cuts /\ \A j \in cuts : Min(cuts) <= j
    BY <2>2 DEF Min
  <2>4. Min(cuts) = k
    <3> DEFINE x == Min(cuts)
    <3>1. x \in Int /\ k \in Int /\ x <= k /\ k <= x
      BY <1>6, <2>2, <2>3
    <3> HIDE DEF x
    <3>2. x = k
      BY <3>1
    <3> QED
      BY <3>2 DEF x
  <2>5. Shown(n, p) = SubSeq(n, 1, k)
    BY <1>2, <2>2, <2>4
  <2> QED
    BY <2>1, <2>5, EntryIs
<1>8. CASE \A k : ~FirstCut(n, k, p)
  <2>1. d = <<>> \/ cuts = {}
    <3> SUFFICES ASSUME d # <<>>, NEW k \in cuts PROVE FALSE
      OBVIOUS
    <3>1. IsCut(n, k, p)
      BY <1>5
    <3> QED
      BY <1>8, <3>1, FirstCutExists
  <2>2. Shown(n, p) = n
    BY <1>2, <2>1
  <2> QED
    BY <1>8, <2>2, EntryIs
<1> QED
  BY <1>7, <1>8

\* Names that agree through the first cut of one of them have the same first cut.
LEMMA CutShared ==
    ASSUME NEW n \in Text, NEW m \in Text, NEW p, ParamsOK(p), NEW k, FirstCut(n, k, p),
           k <= Len(m), \A j \in 1 .. k : m[j] = n[j]
    PROVE  FirstCut(m, k, p)
<1> DEFINE d == p.delimiter
           a == Len(p.prefix)
           b == Len(d)
<1>1. a \in Nat /\ b \in Nat /\ Len(n) \in Nat /\ Len(m) \in Nat
  BY TextParts DEF ParamsOK
<1>2. d # <<>> /\ IsCut(n, k, p) /\ \A j : IsCut(n, j, p) => k <= j
  BY DEF FirstCut
<1>3. k \in (a + b) .. Len(n) /\ \A j \in 1 .. b : n[(k - b) + j] = d[j]
  BY <1>2 DEF IsCut
<1> HIDE DEF a, b, d
<1>4. ASSUME NEW i \in (a + b) .. k, NEW j \in 1 .. b PROVE m[(i - b) + j] = n[(i - b) + j]
  <2>1. (i - b) + j \in 1 .. k
    BY <1>1, <1>3
  <2> QED
    BY <2>1
<1>5. k \in (a + b) .. k /\ k \in (a + b) .. Len(m)
  BY <1>1, <1>3
<1>6. \A j \in 1 .. b : m[(k - b) + j] = d[j]
  BY <1>3, <1>4, <1>5
<1>7. IsCut(m, k, p)
  BY <1>5, <1>6 DEF IsCut, a, b, d
<1>8. ASSUME NEW i, IsCut(m, i, p) PROVE k <= i
  <2>1. i \in (a + b) .. Len(m) /\ \A j \in 1 .. b : m[(i - b) + j] = d[j]
    BY <1>8 DEF IsCut, a, b, d
  <2> SUFFICES ASSUME ~(k <= i) PROVE FALSE
    OBVIOUS
  <2>2. i \in (a + b) .. k /\ i \in (a + b) .. Len(n)
    BY <1>1, <1>3, <2>1
  <2>3. \A j \in 1 .. b : n[(i - b) + j] = d[j]
    BY <1>4, <2>1, <2>2
  <2>4. IsCut(n, i, p)
    BY <2>2, <2>3 DEF IsCut, a, b, d
  <2> QED
    BY <1>2, <2>4
<1> QED
  BY <1>2, <1>7, <1>8 DEF FirstCut, d

Starts(e, n) == Len(e) <= Len(n) /\ \A i \in 1 .. Len(e) : e[i] = n[i]

\* An entry is how its name starts.
LEMMA EntryStarts ==
    ASSUME NEW n \in Text, NEW p, ParamsOK(p)
    PROVE  /\ Entry(n, p) \in Text /\ Starts(Entry(n, p), n)
           /\ ~RollsUp(n, p) => Entry(n, p) = n
           /\ RollsUp(n, p) => FirstCut(n, Len(Entry(n, p)), p)
<1>1. Len(n) \in Nat
  BY TextParts
<1>2. CASE \A k : ~FirstCut(n, k, p)
  BY <1>1, <1>2, EntryIs DEF Starts
<1>3. ASSUME NEW k, FirstCut(n, k, p)
      PROVE  /\ Entry(n, p) \in Text /\ Starts(Entry(n, p), n)
             /\ RollsUp(n, p) /\ Len(Entry(n, p)) = k
  <2> DEFINE a == Len(p.prefix)
             b == Len(p.delimiter)
             e == SubSeq(n, 1, k)
  <2>1. a \in Nat /\ b \in Nat
    BY TextParts DEF ParamsOK
  <2>2. k \in (a + b) .. Len(n)
    BY <1>3 DEF FirstCut, IsCut
  <2>3. RollsUp(n, p) /\ Entry(n, p) = e
    BY <1>3, EntryIs
  <2> HIDE DEF a, b
  <2>4. k \in Nat /\ k <= Len(n) /\ 1 \in Nat \ {0} /\ k \in Int
           /\ (IF 1 <= k THEN (k - 1) + 1 ELSE 0) = k /\ (k - 1) + 1 = k
    BY <1>1, <2>1, <2>2
  <2>5. e \in Text /\ Len(e) = k /\ \A i \in 1 .. k : e[i] = n[(1 + i) - 1]
    BY <2>4, PartOf
  <2>6. \A i \in 1 .. k : (1 + i) - 1 = i
    BY <2>4
  <2>7. \A i \in 1 .. k : e[i] = n[i]
    BY <2>5, <2>6
  <2> HIDE DEF e
  <2>8. Starts(e, n)
    BY <2>4, <2>5, <2>7 DEF Starts
  <2> QED
    BY <2>3, <2>5, <2>8
<1> QED
  BY <1>2, <1>3

\* A name that starts with the prefix another one rolls up into rolls up into it too.
LEMMA EntryShared ==
    ASSUME NEW n \in Text, NEW m \in Text, NEW p, ParamsOK(p), RollsUp(n, p),
           Starts(Entry(n, p), m)
    PROVE  RollsUp(m, p) /\ Entry(m, p) = Entry(n, p)
<1> DEFINE e == Entry(n, p)
           k == Len(e)
<1>1. e \in Text /\ Starts(e, n) /\ FirstCut(n, k, p) /\ Starts(e, m)
  BY EntryStarts
<1> HIDE DEF e
<1>2. k <= Len(m) /\ \A j \in 1 .. k : m[j] = n[j]
  BY <1>1 DEF Starts
<1>3. FirstCut(m, k, p)
  BY <1>1, <1>2, CutShared
<1>4. RollsUp(m, p) /\ Entry(m, p) = SubSeq(m, 1, k)
  BY <1>3, EntryIs
<1>5. FirstCut(m, Len(Entry(m, p)), p) /\ Entry(m, p) \in Text /\ Starts(Entry(m, p), m)
  BY <1>4, EntryStarts
<1> DEFINE f == Entry(m, p)
<1>6. Len(f) \in Nat /\ k \in Nat
  BY <1>1, <1>5, TextParts
<1>7. Len(f) <= k /\ k <= Len(f)
  BY <1>3, <1>5 DEF FirstCut
<1>8. f \in Text /\ Starts(f, m)
  BY <1>5
<1> HIDE DEF f
<1>9. Len(f) = Len(e)
  BY <1>6, <1>7
<1>10. f = e
  <2>1. \A i \in 1 .. Len(f) : f[i] = e[i]
    BY <1>1, <1>8, <1>9 DEF Starts
  <2> QED
    BY <1>1, <1>8, <1>9, <2>1, SeqEqual DEF Text
<1> QED
  BY <1>4, <1>10 DEF e, f

LEMMA StartsAtMost ==
    ASSUME NEW e \in Text, NEW n \in Text, Starts(e, n)
    PROVE  AtMostMarker(e, n)
<1>1. Len(e) \in Nat /\ Len(n) \in Nat /\ Len(e) <= Len(n)
      /\ \A i \in 1 .. Len(e) : e[i] = n[i]
  BY TextParts DEF Starts
<1>2. CASE Len(e) = Len(n)
  <2>1. e = n
    BY <1>1, <1>2, SeqEqual DEF Text
  <2> QED
    BY <2>1 DEF AtMostMarker
<1>3. CASE Len(e) < Len(n)
  <2>1. LessAt(e, n, Len(e) + 1)
    <3>1. Len(e) + 1 \in 1 .. Len(n) /\ Len(e) + 1 > Len(e)
      BY <1>1, <1>3
    <3>2. \A j \in 1 .. ((Len(e) + 1) - 1) : j \in 1 .. Len(e) /\ j <= Len(e)
      BY <1>1
    <3> QED
      BY <1>1, <3>1, <3>2 DEF LessAt
  <2> QED
    BY <2>1, LessIsAt DEF AtMostMarker
<1> QED
  BY <1>1, <1>2, <1>3

\* Entries come in the order of their names.
LEMMA EntriesInOrder ==
    ASSUME NEW m \in Text, NEW n \in Text, NEW p, ParamsOK(p), Less(m, n)
    PROVE  AtMostMarker(Entry(m, p), Entry(n, p))
<1> DEFINE a == Entry(m, p)
           b == Entry(n, p)
<1>1. a \in Text /\ b \in Text /\ Starts(a, m) /\ Starts(b, n)
  BY EntryStarts
<1>2. /\ RollsUp(m, p) /\ Starts(a, n) => b = a
      /\ RollsUp(n, p) /\ Starts(b, m) => a = b
      /\ ~RollsUp(m, p) => a = m
      /\ ~RollsUp(n, p) => b = n
  BY EntryShared, EntryStarts
<1>3. AtMostMarker(a, a)
  BY DEF AtMostMarker
<1> HIDE DEF a, b
<1>4. PICK i : LessAt(m, n, i)
  BY LessIsAt
<1>5. /\ Len(m) \in Nat /\ Len(n) \in Nat /\ Len(a) \in Nat /\ Len(b) \in Nat
      /\ i \in Nat /\ 1 <= i /\ i <= Len(n)
  BY <1>1, <1>4, TextParts DEF LessAt
<1>6. \A j \in 1 .. (i - 1) : j <= Len(m) /\ m[j] = n[j]
  BY <1>4 DEF LessAt
<1>7. Len(a) <= Len(m) /\ \A j \in 1 .. Len(a) : a[j] = m[j]
  BY <1>1 DEF Starts
<1>8. Len(b) <= Len(n) /\ \A j \in 1 .. Len(b) : b[j] = n[j]
  BY <1>1 DEF Starts
<1>9. CASE i > Len(b)
  <2>1. \A j \in 1 .. Len(b) : j \in 1 .. (i - 1)
    BY <1>5, <1>9
  <2>2. \A j \in 1 .. Len(b) : j <= Len(m) /\ b[j] = m[j]
    BY <1>6, <1>8, <2>1
  <2>3. Len(b) <= Len(m)
    <3>1. CASE Len(b) = 0
      BY <1>5, <3>1
    <3>2. CASE Len(b) # 0
      <4>1. Len(b) \in 1 .. Len(b)
        BY <1>5, <3>2
      <4> QED
        BY <2>2, <4>1
    <3> QED
      BY <3>1, <3>2
  <2>4. Starts(b, m)
    BY <2>2, <2>3 DEF Starts
  <2>5. RollsUp(n, p)
    BY <1>2, <1>5, <1>9
  <2>6. a = b
    BY <1>2, <2>4, <2>5
  <2> QED
    BY <1>3, <2>6 DEF a, b
<1>10. CASE ~(i > Len(b)) /\ i > Len(a) /\ RollsUp(m, p)
  <2>1. \A j \in 1 .. Len(a) : j \in 1 .. (i - 1)
    BY <1>5, <1>10
  <2>2. \A j \in 1 .. Len(a) : a[j] = n[j]
    BY <1>6, <1>7, <2>1
  <2>3. Len(a) <= Len(n)
    BY <1>5, <1>10
  <2>4. Starts(a, n)
    BY <2>2, <2>3 DEF Starts
  <2>5. b = a
    BY <1>2, <1>10, <2>4
  <2> QED
    BY <1>3, <2>5 DEF a, b
<1>11. CASE ~(i > Len(b)) /\ (i > Len(a) => ~RollsUp(m, p))
  <2>1. i \in 1 .. Len(b) /\ \A j \in 1 .. (i - 1) : j \in 1 .. Len(b)
    BY <1>5, <1>11
  <2>2. \A j \in 1 .. (i - 1) : j <= Len(a)
    <3>1. CASE i > Len(a)
      <4>1. a = m
        BY <1>2, <1>11, <3>1
      <4> QED
        BY <1>6, <4>1
    <3>2. CASE ~(i > Len(a))
      BY <1>5, <3>2
    <3> QED
      BY <3>1, <3>2
  <2>3. \A j \in 1 .. (i - 1) : j \in 1 .. Len(a)
    BY <1>5, <2>2
  <2>4. \A j \in 1 .. (i - 1) : a[j] = b[j]
    BY <1>6, <1>7, <1>8, <2>1, <2>3
  <2>5. i > Len(a) \/ a[i] < b[i]
    <3> SUFFICES ASSUME ~(i > Len(a)) PROVE a[i] < b[i]
      OBVIOUS
    <3>1. i \in 1 .. Len(a)
      BY <1>5
    <3>2. a[i] = m[i] /\ b[i] = n[i]
      BY <1>7, <1>8, <2>1, <3>1
    <3>3. ~(i > Len(m))
      BY <1>5, <1>7
    <3>4. m[i] < n[i]
      BY <1>4, <3>3 DEF LessAt
    <3> QED
      BY <3>2, <3>4
  <2>6. LessAt(a, b, i)
    BY <2>1, <2>2, <2>4, <2>5 DEF LessAt
  <2> QED
    BY <2>6, LessIsAt DEF AtMostMarker, a, b
<1> QED
  BY <1>9, <1>10, <1>11

-----------------------------------------------------------------------------
(***************************************************************************)
(* A page.  The rows the loop of list_page keeps are the first ones of     *)
(* each entry beyond the marker, so they stand for the entries one by one  *)
(* and in their order.                                                     *)
(***************************************************************************)
LEMMA AtMostIs == \A s, t \in Text : AtMostMarker(s, t) <=> ~Less(t, s)
<1> SUFFICES ASSUME NEW s \in Text, NEW t \in Text PROVE AtMostMarker(s, t) <=> ~Less(t, s)
  OBVIOUS
<1>1. AtMostMarker(s, t) => ~Less(t, s)
  BY LessTransitive, LessIrreflexive DEF AtMostMarker
<1>2. ~Less(t, s) => AtMostMarker(s, t)
  BY LessTotal DEF AtMostMarker
<1> QED
  BY <1>1, <1>2

PageParams(p) == ParamsOK(p) /\ p.marker \in Text /\ FiniteTexts(names)

RowsOf(p) == Rows(p.prefix, p.marker)
KeptOf(p) == {n \in RowsOf(p) : ~Skipped(RowsOf(p), n, p)}

LEMMA RowsAre ==
    ASSUME NEW p, PageParams(p)
    PROVE  /\ FiniteTexts(RowsOf(p))
           /\ \A n \in RowsOf(p) : n \in Text /\ Entry(n, p) \in Text /\ Less(p.marker, n)
<1>1. RowsOf(p) \in SUBSET names /\ \A n \in RowsOf(p) : Less(p.marker, n)
  BY DEF RowsOf, Rows
<1>2. FiniteTexts(RowsOf(p))
  BY <1>1, FS_Subset DEF PageParams, FiniteTexts
<1>3. \A n \in RowsOf(p) : n \in Text
  BY <1>2 DEF FiniteTexts
<1> QED
  BY <1>1, <1>2, <1>3, EntryStarts DEF PageParams

LEMMA KeptAre ==
    ASSUME NEW p, PageParams(p), NEW n \in RowsOf(p)
    PROVE  n \in KeptOf(p) <=> /\ Less(p.marker, Entry(n, p))
                               /\ \A m \in RowsOf(p) : Less(m, n) => Entry(m, p) # Entry(n, p)
<1> DEFINE R == RowsOf(p)
           e == Entry(n, p)
           before == {m \in R : /\ Less(m, n) /\ RollsUp(m, p)
                                /\ ~AtMostMarker(Entry(m, p), p.marker)}
           last == CHOOSE m \in before : \A k \in before : ~Less(m, k)
<1>1. /\ FiniteTexts(R) /\ ParamsOK(p) /\ p.marker \in Text
      /\ \A m \in R : m \in Text /\ Entry(m, p) \in Text /\ Less(p.marker, m)
  BY RowsAre DEF PageParams
<1>2. \A m \in R : ~AtMostMarker(Entry(m, p), p.marker) <=> Less(p.marker, Entry(m, p))
  BY <1>1, AtMostIs
<1>3. n \in KeptOf(p) <=> ~Skipped(R, n, p)
  BY DEF KeptOf
<1>4. Skipped(R, n, p) <=> RollsUp(n, p) /\ (LastPrefix(R, n, p) = <<e>> \/ ~Less(p.marker, e))
  BY <1>2 DEF Skipped, Present
<1>5. LastPrefix(R, n, p) = IF before = {} THEN <<>> ELSE <<Entry(last, p)>>
  BY DEF LastPrefix, Present, Absent
<1>6. before # {} => last \in before /\ \A k \in before : ~Less(last, k)
  <2> SUFFICES ASSUME before # {} PROVE \E m \in before : \A k \in before : ~Less(m, k)
    OBVIOUS
  <2>1. before \in SUBSET R
    OBVIOUS
  <2>2. FiniteTexts(before)
    BY <1>1, <2>1, FS_Subset DEF FiniteTexts
  <2> HIDE DEF before
  <2> QED
    BY <2>2, LastText
<1> HIDE DEF R, last
<1>7. CASE ~RollsUp(n, p)
  <2>1. e = n /\ n \in KeptOf(p)
    BY <1>1, <1>3, <1>4, <1>7, EntryStarts DEF R
  <2>2. ASSUME NEW m \in R, Less(m, n), Entry(m, p) = e PROVE FALSE
    <3>1. Starts(n, m)
      BY <1>1, <2>1, <2>2, EntryStarts
    <3>2. ~Less(m, n)
      BY <1>1, <3>1, StartsAtMost, AtMostIs DEF R
    <3> QED
      BY <2>2, <3>2
  <2> QED
    BY <1>1, <2>1, <2>2 DEF R
<1>8. CASE RollsUp(n, p) /\ ~Less(p.marker, e)
  BY <1>3, <1>4, <1>8
<1>9. CASE RollsUp(n, p) /\ Less(p.marker, e)
  <2>1. ASSUME LastPrefix(R, n, p) = <<e>>
        PROVE  \E m \in R : Less(m, n) /\ Entry(m, p) = e
    <3>1. before # {}
      BY <1>5, <2>1
    <3>2. last \in before /\ LastPrefix(R, n, p) = <<Entry(last, p)>>
      BY <1>5, <1>6, <3>1
    <3>3. Entry(last, p) = e
      <4> DEFINE f == Entry(last, p)
      <4>1. <<f>> = <<e>>
        BY <2>1, <3>2
      <4> HIDE DEF f, e
      <4> QED
        BY <4>1 DEF f
    <3> QED
      BY <3>2, <3>3
  <2>2. ASSUME NEW m \in R, Less(m, n), Entry(m, p) = e
        PROVE  LastPrefix(R, n, p) = <<e>>
    <3>1. n \in Text /\ m \in Text
      BY <1>1 DEF R
    <3>2. Starts(e, m)
      BY <1>1, <2>2, <3>1, EntryStarts
    <3>3. RollsUp(m, p)
      BY <1>1, <1>9, <3>1, <3>2, EntryShared
    <3>4. m \in before
      BY <1>2, <1>9, <2>2, <3>3
    <3>5. last \in before /\ ~Less(last, m)
      BY <1>6, <3>4
    <3>6. last \in R /\ last \in Text /\ Less(last, n)
      BY <1>1, <3>5
    <3>7. last = m \/ Less(m, last)
      BY <3>1, <3>5, <3>6, LessTotal
    <3>8. AtMostMarker(e, Entry(last, p))
      <4>1. CASE last = m
        BY <2>2, <4>1 DEF AtMostMarker
      <4>2. CASE Less(m, last)
        BY <1>1, <2>2, <3>1, <3>6, <4>2, EntriesInOrder
      <4> QED
        BY <3>7, <4>1, <4>2
    <3>9. AtMostMarker(Entry(last, p), e)
      BY <1>1, <3>1, <3>6, EntriesInOrder
    <3>10. e \in Text /\ Entry(last, p) \in Text
      BY <1>1, <3>6 DEF R
    <3>11. Entry(last, p) = e
      BY <3>8, <3>9, <3>10, AtMostIs, LessTotal
    <3> QED
      BY <1>5, <3>4, <3>11
  <2>3. n \in KeptOf(p) <=> ~(LastPrefix(R, n, p) = <<e>>)
    BY <1>3, <1>4, <1>9
  <2>4. n \in KeptOf(p) <=> \A m \in R : Less(m, n) => Entry(m, p) # e
    <3> HIDE DEF e
    <3> QED
      BY <2>1, <2>2, <2>3
  <2> QED
    BY <1>9, <2>4 DEF R
<1> QED
  BY <1>7, <1>8, <1>9

LEMMA KeptEntries ==
    ASSUME NEW p, PageParams(p), NEW q, q.prefix = p.prefix, q.delimiter = p.delimiter
    PROVE  /\ FiniteTexts(KeptOf(p)) /\ Listed(q, p.marker) \subseteq Text
           /\ \A m, n \in KeptOf(p) : Less(m, n) => Less(Entry(m, p), Entry(n, p))
           /\ {Entry(n, p) : n \in KeptOf(p)} = Listed(q, p.marker)
<1> DEFINE R == RowsOf(p)
           K == KeptOf(p)
<1>1. /\ FiniteTexts(R) /\ ParamsOK(p) /\ p.marker \in Text /\ FiniteTexts(names)
      /\ \A m \in R : m \in Text /\ Entry(m, p) \in Text /\ Less(p.marker, m)
  BY RowsAre DEF PageParams
<1>2. K \in SUBSET R
  BY DEF KeptOf
<1>3. FiniteTexts(K)
  BY <1>1, <1>2, FS_Subset DEF FiniteTexts
<1>4. ASSUME NEW m \in K, NEW n \in K, Less(m, n) PROVE Less(Entry(m, p), Entry(n, p))
  <2>1. m \in R /\ n \in R
    BY <1>2
  <2>2. Entry(m, p) # Entry(n, p)
    BY <1>4, <2>1, KeptAre
  <2>3. AtMostMarker(Entry(m, p), Entry(n, p))
    BY <1>1, <1>4, <2>1, EntriesInOrder
  <2> QED
    BY <2>2, <2>3 DEF AtMostMarker
<1>5. \A n \in names : n \in Text /\ Shown(n, q) = Entry(n, p) /\ Shown(n, q) \in Text
                          /\ AtMostMarker(Entry(n, p), n)
  <2> SUFFICES ASSUME NEW n \in names
               PROVE  n \in Text /\ Shown(n, q) = Entry(n, p) /\ Shown(n, q) \in Text
                         /\ AtMostMarker(Entry(n, p), n)
    OBVIOUS
  <2>1. n \in Text
    BY <1>1 DEF FiniteTexts
  <2>2. Shown(n, q) = Shown(n, p)
    BY DEF Shown
  <2>3. Shown(n, p) = Entry(n, p)
    BY <1>1, <2>1, ShownIsEntry
  <2>4. Entry(n, p) \in Text /\ Starts(Entry(n, p), n)
    BY <1>1, <2>1, EntryStarts
  <2>5. AtMostMarker(Entry(n, p), n)
    BY <2>1, <2>4, StartsAtMost
  <2> QED
    BY <2>1, <2>2, <2>3, <2>4, <2>5
<1>6. \A x : x \in Listed(q, p.marker) <=>
          /\ Less(p.marker, x)
          /\ \E n \in names : IsPrefix(p.prefix, n) /\ x = Shown(n, q)
  BY DEF Listed
<1>7. Listed(q, p.marker) \subseteq Text
  BY <1>5, <1>6
<1>8. ASSUME NEW n \in K PROVE Entry(n, p) \in Listed(q, p.marker)
  <2>1. n \in R /\ n \in names /\ IsPrefix(p.prefix, n)
    BY <1>2 DEF RowsOf, Rows
  <2>2. Less(p.marker, Entry(n, p))
    BY <1>8, <2>1, KeptAre
  <2> QED
    BY <1>5, <1>6, <2>1, <2>2
<1>9. ASSUME NEW x \in Listed(q, p.marker) PROVE \E n \in K : x = Entry(n, p)
  <2>1. PICK n \in names : IsPrefix(p.prefix, n) /\ x = Shown(n, q) /\ Less(p.marker, x)
    BY <1>6
  <2>2. x = Entry(n, p) /\ n \in Text /\ x \in Text /\ AtMostMarker(x, n)
    BY <1>5, <2>1
  <2>3. Less(p.marker, n)
    BY <1>1, <2>1, <2>2, LessTransitive DEF AtMostMarker
  <2>4. n \in R
    BY <2>1, <2>3 DEF RowsOf, Rows
  <2> DEFINE S == {m \in R : Entry(m, p) = x}
  <2>5. S \in SUBSET R /\ S # {}
    BY <2>2, <2>4
  <2>6. FiniteTexts(S)
    BY <1>1, <2>5, FS_Subset DEF FiniteTexts
  <2>7. PICK m \in S : \A k \in S : ~Less(k, m)
    <3> HIDE DEF S
    <3> QED
      BY <2>5, <2>6, FirstText
  <2>8. m \in R /\ Entry(m, p) = x /\ \A k \in R : Less(k, m) => Entry(k, p) # Entry(m, p)
    BY <2>7
  <2>9. m \in K
    BY <2>1, <2>8, KeptAre
  <2> QED
    BY <2>8, <2>9
<1>10. {Entry(n, p) : n \in K} = Listed(q, p.marker)
  BY <1>8, <1>9
<1> QED
  BY <1>3, <1>4, <1>7, <1>10

\* A set that corresponds to another one in order has its size, its ranks and its first ones.
LEMMA Carried ==
    ASSUME NEW S, FiniteTexts(S), NEW T, T \subseteq Text, NEW f \in [S -> T],
           \A t \in T : \E s \in S : f[s] = t,
           \A r, s \in S : Less(r, s) => Less(f[r], f[s]), NEW max \in Nat
    PROVE  /\ FiniteTexts(T) /\ Cardinality(T) = Cardinality(S)
           /\ FirstOf(T, max) = {f[s] : s \in FirstOf(S, max)}
<1>1. \A r, s \in S : Less(f[r], f[s]) => Less(r, s)
  <2> SUFFICES ASSUME NEW r \in S, NEW s \in S, Less(f[r], f[s]) PROVE Less(r, s)
    OBVIOUS
  <2>1. r \in Text /\ s \in Text /\ f[r] \in Text /\ f[s] \in Text
    BY DEF FiniteTexts
  <2>2. r # s
    BY <2>1, LessIrreflexive
  <2>3. ~Less(s, r)
    BY <2>1, LessTransitive, LessIrreflexive
  <2> QED
    BY <2>1, <2>2, <2>3, LessTotal
<1>2. \A r, s \in S : f[r] = f[s] => r = s
  <2> SUFFICES ASSUME NEW r \in S, NEW s \in S, f[r] = f[s], r # s PROVE FALSE
    OBVIOUS
  <2>1. r \in Text /\ s \in Text /\ f[r] \in Text /\ f[s] \in Text
    BY DEF FiniteTexts
  <2> QED
    BY <2>1, LessTotal, LessIrreflexive
<1>3. ASSUME NEW A \in SUBSET S, NEW B \in SUBSET T, \A s \in S : s \in A <=> f[s] \in B
      PROVE  IsFiniteSet(B) /\ Cardinality(B) = Cardinality(A)
  <2> DEFINE g == [s \in A |-> f[s]]
  <2>1. IsFiniteSet(A)
    BY FS_Subset DEF FiniteTexts
  <2>2. g \in [A -> B] /\ \A t \in B : \E s \in A : g[s] = t
    BY <1>3
  <2>3. \A r, s \in A : g[r] = g[s] => r = s
    BY <1>2
  <2> HIDE DEF g
  <2>4. g \in Bijection(A, B)
    BY <2>2, <2>3 DEF Bijection, Injection, Surjection, IsInjective
  <2>5. ExistsBijection(A, B)
    BY <2>4 DEF ExistsBijection
  <2> QED
    BY <2>1, <2>5, FS_Bijection
<1>4. IsFiniteSet(T) /\ Cardinality(T) = Cardinality(S)
  BY <1>3
<1>5. ASSUME NEW s \in S PROVE Rank(T, f[s]) = Rank(S, s)
  <2>1. \A r \in S : r \in Below(S, s) <=> f[r] \in Below(T, f[s])
    BY <1>1 DEF Below
  <2>2. Below(S, s) \in SUBSET S /\ Below(T, f[s]) \in SUBSET T
    BY DEF Below
  <2> QED
    BY <1>3, <2>1, <2>2 DEF Rank
<1>6. \A s \in S : s \in FirstOf(S, max) <=> f[s] \in FirstOf(T, max)
  <2>1. /\ FirstOf(S, max) = {s \in S : Rank(S, s) < max}
        /\ FirstOf(T, max) = {t \in T : Rank(T, t) < max}
    BY DEF FirstOf, Rank, Below
  <2> QED
    BY <1>5, <2>1
<1>7. FirstOf(T, max) \subseteq T /\ FirstOf(S, max) \subseteq S
  BY DEF FirstOf
<1>8. FirstOf(T, max) = {f[s] : s \in FirstOf(S, max)}
  BY <1>6, <1>7
<1> QED
  BY <1>4, <1>8 DEF FiniteTexts

\* InOrder puts a set in order.
LEMMA InOrderIs ==
    ASSUME NEW S, FiniteTexts(S)
    PROVE  /\ Cardinality(S) \in Nat
           /\ InOrder(S) \in [1 .. Cardinality(S) -> S]
           /\ \A s \in S : \E i \in 1 .. Cardinality(S) : InOrder(S)[i] = s
           /\ \A i, j \in 1 .. Cardinality(S) : i < j => Less(InOrder(S)[i], InOrder(S)[j])
<1> DEFINE n == Cardinality(S)
           R == {Rank(S, s) : s \in S}
           g == [s \in S |-> Rank(S, s)]
<1>1. n \in Nat /\ \A s \in S : Rank(S, s) \in Nat /\ Rank(S, s) < n
  BY RankType, RankBelowSize, FS_CardinalityType DEF FiniteTexts
<1>2. Cardinality(R) = n
  <2>1. g \in [S -> R] /\ \A k \in R : \E s \in S : g[s] = k
    OBVIOUS
  <2>2. \A r, s \in S : g[r] = g[s] => r = s
    BY RankOrders
  <2> HIDE DEF g, R
  <2>3. g \in Bijection(S, R)
    BY <2>1, <2>2 DEF Bijection, Injection, Surjection, IsInjective
  <2>4. ExistsBijection(S, R)
    BY <2>3 DEF ExistsBijection
  <2> QED
    BY <2>4, FS_Bijection DEF FiniteTexts
<1> HIDE DEF n
<1>3. R \in SUBSET (0 .. (n - 1))
  <2> SUFFICES ASSUME NEW s \in S PROVE Rank(S, s) \in 0 .. (n - 1)
    OBVIOUS
  <2>1. n \in Nat /\ Rank(S, s) \in Nat /\ Rank(S, s) < n
    BY <1>1
  <2> QED
    BY <2>1
<1>4. IsFiniteSet(0 .. (n - 1)) /\ Cardinality(0 .. (n - 1)) = n
  <2>1. 0 \in Int /\ n - 1 \in Int /\ (IF 0 > n - 1 THEN 0 ELSE ((n - 1) - 0) + 1) = n
    BY <1>1
  <2>2. /\ IsFiniteSet(0 .. (n - 1))
        /\ Cardinality(0 .. (n - 1)) = IF 0 > n - 1 THEN 0 ELSE ((n - 1) - 0) + 1
    BY <2>1, FS_Interval
  <2> QED
    BY <2>1, <2>2
<1>5. R = 0 .. (n - 1)
  <2> HIDE DEF R
  <2> QED
    BY <1>2, <1>3, <1>4, FS_Subset
<1> DEFINE at(i) == CHOOSE s \in S : Rank(S, s) = i - 1
<1>6. ASSUME NEW i \in 1 .. n PROVE at(i) \in S /\ Rank(S, at(i)) = i - 1
  <2>1. i - 1 \in 0 .. (n - 1)
    BY <1>1
  <2>2. \E s \in S : Rank(S, s) = i - 1
    BY <1>5, <2>1
  <2> QED
    BY <2>2
<1>7. InOrder(S) = [i \in 1 .. n |-> at(i)]
  BY DEF InOrder, Rank, Below, n
<1>8. ASSUME NEW s \in S PROVE \E i \in 1 .. n : at(i) = s
  <2>1. Rank(S, s) + 1 \in 1 .. n /\ (Rank(S, s) + 1) - 1 = Rank(S, s)
    <3>1. n \in Nat /\ Rank(S, s) \in Nat /\ Rank(S, s) < n
      BY <1>1
    <3> QED
      BY <3>1
  <2> DEFINE i == Rank(S, s) + 1
  <2>2. at(i) \in S /\ Rank(S, at(i)) = Rank(S, s)
    <3> HIDE DEF at
    <3> QED
      BY <1>6, <2>1
  <2>3. at(i) = s
    <3> HIDE DEF at, i
    <3> QED
      BY <2>2, RankOrders
  <2> QED
    BY <2>1, <2>3
<1>9. ASSUME NEW i \in 1 .. n, NEW j \in 1 .. n, i < j PROVE Less(at(i), at(j))
  <2>1. at(i) \in S /\ at(j) \in S /\ Rank(S, at(i)) = i - 1 /\ Rank(S, at(j)) = j - 1
    BY <1>6
  <2>2. i - 1 < j - 1
    BY <1>1, <1>9
  <2> HIDE DEF at
  <2> QED
    BY <2>1, <2>2, RankOrders
<1> HIDE DEF at
<1> QED
  BY <1>1, <1>6, <1>7, <1>8, <1>9 DEF n

(***************************************************************************)
(* list_page: the first max_keys entries after the marker, in order, and   *)
(* the last of them as the next marker when there are more.                *)
(***************************************************************************)
LEMMA PageIs ==
    ASSUME NEW p, PageParams(p), p.max_keys \in Nat \ {0},
           NEW q, q.prefix = p.prefix, q.delimiter = p.delimiter
    PROVE  LET page == list_page(p)
               all  == Listed(q, p.marker)
           IN  /\ FiniteTexts(all)
               /\ page.entries \in Seq(Text)
               /\ ToSet(page.entries) = FirstOf(all, p.max_keys)
               /\ \A i, j \in 1 .. Len(page.entries) :
                      i < j => Less(page.entries[i], page.entries[j])
               /\ page.is_truncated \in BOOLEAN
               /\ page.is_truncated <=> Cardinality(all) > p.max_keys
               /\ page.is_truncated =>
                      /\ page.next_marker \in FirstOf(all, p.max_keys)
                      /\ \A e \in FirstOf(all, p.max_keys) : AtMostMarker(e, page.next_marker)
<1> DEFINE K == KeptOf(p)
           all == Listed(q, p.marker)
           max == p.max_keys
           F == FirstOf(K, max)
           G == FirstOf(all, max)
           o == InOrder(F)
           n == Cardinality(F)
           f == [k \in K |-> Entry(k, p)]
           page == list_page(p)
<1>1. /\ FiniteTexts(K) /\ all \subseteq Text
      /\ \A m, k \in K : Less(m, k) => Less(Entry(m, p), Entry(k, p))
      /\ {Entry(k, p) : k \in K} = all
  BY KeptEntries
<1>2. /\ f \in [K -> all] /\ \A t \in all : \E s \in K : f[s] = t
      /\ \A r, s \in K : Less(r, s) => Less(f[r], f[s])
      /\ \A s \in K : f[s] = Entry(s, p)
  <2> HIDE DEF K, all
  <2> QED
    BY <1>1
<1>3. page = PageOver(K, p)
  BY DEF list_page, KeptOf, RowsOf
<1>4. max \in Nat /\ max # 0
  OBVIOUS
<1> HIDE DEF K, all, f, max
<1>5. /\ FiniteTexts(all) /\ Cardinality(all) = Cardinality(K)
      /\ G = {f[s] : s \in F}
  <2>1. FiniteTexts(K) /\ all \subseteq Text
    BY <1>1
  <2>2. /\ f \in [K -> all] /\ \A t \in all : \E s \in K : f[s] = t
        /\ \A r, s \in K : Less(r, s) => Less(f[r], f[s])
    BY <1>2
  <2>3. max \in Nat
    BY <1>4
  <2>4. /\ FiniteTexts(all) /\ Cardinality(all) = Cardinality(K)
        /\ FirstOf(all, max) = {f[s] : s \in FirstOf(K, max)}
    BY <2>1, <2>2, <2>3, Carried
  <2> QED
    BY <2>4
<1>6. F \subseteq K /\ FiniteTexts(F)
  BY <1>1, <1>4, FirstOfParts
<1>7. G \subseteq all /\ FiniteTexts(G)
  BY <1>4, <1>5, FirstOfParts
<1> HIDE DEF F, G
<1>8. /\ n \in Nat /\ o \in [1 .. n -> F]
      /\ \A s \in F : \E i \in 1 .. n : o[i] = s
      /\ \A i, j \in 1 .. n : i < j => Less(o[i], o[j])
  BY <1>6, InOrderIs
<1>9. /\ page.entries = [i \in DOMAIN o |-> Entry(o[i], p)]
      /\ page.is_truncated = (Cardinality(K) > max)
      /\ page.next_marker = IF o = <<>> THEN <<>> ELSE Entry(o[Len(o)], p)
  BY <1>3 DEF PageOver, F, max
<1>10. o \in Seq(F) /\ Len(o) = n /\ DOMAIN o = 1 .. n
  <2> HIDE DEF o, n
  <2> QED
    BY <1>8
<1> DEFINE es == page.entries
<1>11. es = [i \in 1 .. n |-> f[o[i]]]
  <2>1. \A i \in 1 .. n : o[i] \in K
    BY <1>6, <1>8
  <2> HIDE DEF o, n
  <2> QED
    BY <1>2, <1>9, <1>10, <2>1
<1> HIDE DEF o, n, page
<1>12. \A i \in 1 .. n : f[o[i]] \in G /\ f[o[i]] \in Text
  BY <1>5, <1>7, <1>8 DEF FiniteTexts
<1> HIDE DEF es
<1>13. es \in Seq(Text) /\ Len(es) = n /\ DOMAIN es = 1 .. n /\ \A i \in 1 .. n : es[i] = f[o[i]]
  BY <1>8, <1>11, <1>12
<1>14. ToSet(es) = G
  <2>1. \A x \in G : \E i \in 1 .. n : x = f[o[i]]
    BY <1>5, <1>8
  <2>2. ToSet(es) = {es[i] : i \in 1 .. n}
    BY <1>13 DEF ToSet
  <2> QED
    BY <1>12, <1>13, <2>1, <2>2
<1>15. \A i, j \in 1 .. n : i < j => Less(es[i], es[j])
  BY <1>2, <1>6, <1>8, <1>13
<1>16. page.is_truncated \in BOOLEAN /\ (page.is_truncated <=> Cardinality(all) > max)
  <2> DEFINE more == Cardinality(K) > max
  <2>1. more \in BOOLEAN
    BY <1>1, <1>4, FS_CardinalityType DEF FiniteTexts
  <2>2. page.is_truncated = more
    BY <1>9
  <2>3. more <=> Cardinality(all) > max
    BY <1>5
  <2> HIDE DEF more
  <2> QED
    BY <2>1, <2>2, <2>3, Zenon
<1>17. ASSUME page.is_truncated
       PROVE  page.next_marker \in G /\ \A e \in G : AtMostMarker(e, page.next_marker)
  <2>1. K # {}
    <3>1. Cardinality(K) > max
      BY <1>9, <1>17
    <3> QED
      BY <1>4, <3>1, FS_EmptySet
  <2>2. F # {}
    BY <1>1, <1>4, <2>1, FirstOfAll DEF F
  <2>3. n # 0 /\ n \in 1 .. n
    BY <1>8, <2>2
  <2>4. o # <<>>
    BY <1>10, <2>3
  <2>5. page.next_marker = es[n]
    BY <1>2, <1>6, <1>8, <1>9, <1>10, <1>13, <2>3, <2>4
  <2>6. es[n] \in G
    BY <1>12, <1>13, <2>3
  <2>7. ASSUME NEW e \in G PROVE AtMostMarker(e, es[n])
    <3>1. PICK i \in 1 .. n : e = es[i]
      BY <1>5, <1>8, <1>13
    <3>2. i < n \/ i = n
      BY <1>8
    <3> QED
      BY <1>15, <2>3, <3>1, <3>2 DEF AtMostMarker
  <2> QED
    BY <2>5, <2>6, <2>7
<1> QED
  BY <1>5, <1>13, <1>14, <1>15, <1>16, <1>17 DEF es, page, all, G, max

\* What a page leaves for the pages after it.
LEMMA PageLeaves ==
    ASSUME NEW p, PageParams(p), p.max_keys \in Nat \ {0},
           NEW q, q.prefix = p.prefix, q.delimiter = p.delimiter,
           NEW e \in Listed(q, p.marker)
    PROVE  \/ e \in ToSet(list_page(p).entries)
           \/ list_page(p).is_truncated /\ Less(list_page(p).next_marker, e)
<1> DEFINE page == list_page(p)
           all == Listed(q, p.marker)
           G == FirstOf(all, p.max_keys)
<1>1. /\ FiniteTexts(all) /\ ToSet(page.entries) = G
      /\ page.is_truncated <=> Cardinality(all) > p.max_keys
      /\ page.is_truncated => page.next_marker \in G
  BY PageIs
<1> HIDE DEF page, all
<1>2. p.max_keys \in Nat /\ Cardinality(all) \in Nat
  BY <1>1, FS_CardinalityType DEF FiniteTexts
<1>3. CASE ~page.is_truncated
  <2>1. G = all
    BY <1>1, <1>2, <1>3, FirstOfAll
  <2> QED
    BY <1>1, <2>1 DEF page, all
<1>4. CASE page.is_truncated
  <2>1. \A s \in G : \A t \in all \ G : Less(s, t)
    BY <1>1, <1>2, FirstOfParts
  <2>2. e \in all
    BY DEF all
  <2> QED
    BY <1>1, <1>4, <2>1, <2>2 DEF page
<1> QED
  BY <1>3, <1>4

-----------------------------------------------------------------------------
(***************************************************************************)
(* The client of ListObjects.  While it lists, what it has seen is at or   *)
(* below the marker it holds, and a key that was there all along has been  *)
(* shown or is still above that marker.                                    *)
(***************************************************************************)
QueryOK(q) == q \in ListArgs /\ (q.max_keys # Absent => q.max_keys[1] >= 0)

ToBeShown(n, q) == IsPrefix(q.prefix, n) /\ Less(StartOf(q), Shown(n, q))

Lister == [pc: {"idle", "refused", "listing", "done"}, query: Seq(ListArgs),
           token: Seq(Text), seen: Seq(Text), steady: SUBSET Name]

NamesOK == names \subseteq Name /\ IsFiniteSet(names)

Ordered(s) == \A i, j \in 1 .. Len(s) : i < j => Less(s[i], s[j])

\* A client with query q that holds token t.
HeldOK(q, t, s, st) ==
    /\ t = Absent => s = <<>>
    /\ t # Absent => \A e \in ToSet(s) : AtMostMarker(e, t[1])
    /\ parse_max_keys(q.max_keys) # 0 =>
           \A n \in st : ToBeShown(n, q) =>
               Shown(n, q) \in ToSet(s) \/ Less(MarkerOf(q, t), Shown(n, q))

DoneOK(q, s, st) ==
    parse_max_keys(q.max_keys) # 0 =>
        \A n \in st : ToBeShown(n, q) => Shown(n, q) \in ToSet(s)

ListerOK ==
    /\ NamesOK
    /\ lister \in Lister /\ lister.steady \subseteq names
    /\ Ordered(lister.seen)
    /\ lister.pc \in {"listing", "done"} => lister.query # Absent /\ QueryOK(lister.query[1])
    /\ lister.pc = "listing" =>
           HeldOK(lister.query[1], lister.token, lister.seen, lister.steady)
    /\ lister.pc = "done" => DoneOK(lister.query[1], lister.seen, lister.steady)

\* Names are texts, and the arguments of a query have their types.
LEMMA QueryParts ==
    ASSUME NEW q, QueryOK(q)
    PROVE  /\ q.prefix \in Text /\ q.delimiter \in Text
           /\ StartOf(q) \in Text
           /\ parse_max_keys(q.max_keys) \in Nat
<1>1. q \in ListArgs /\ {q.prefix, q.delimiter} \subseteq Seq(Nat)
  BY ListingAssumption DEF QueryOK
<1>2. StartOf(q) \in Text
  <2>1. <<>> \in Text
    BY EmptySeq DEF Text
  <2>2. q.start = Absent \/ q.start[1] \in Text
    BY <1>1, ListingAssumption DEF Text
  <2> QED
    BY <2>1, <2>2 DEF StartOf
<1>3. parse_max_keys(q.max_keys) \in Nat
  <2> DEFINE v == q.max_keys
             x == v[1]
  <2>1. MAX_KEYS \in Nat /\ (v = Absent \/ (x \in Int /\ x >= 0))
    BY <1>1, ListingAssumption DEF QueryOK
  <2>2. parse_max_keys(v) = IF v = Absent \/ x > MAX_KEYS THEN MAX_KEYS ELSE x
    BY DEF parse_max_keys
  <2> HIDE DEF v, x
  <2>3. parse_max_keys(v) \in Nat
    <3>1. CASE v = Absent
      BY <2>1, <2>2, <3>1
    <3>2. CASE v # Absent
      BY <2>1, <2>2, <3>2
    <3> QED
      BY <3>1, <3>2
  <2> QED
    BY <2>3 DEF v
<1> QED
  BY <1>1, <1>2, <1>3 DEF Text

LEMMA NamesAreTexts == NamesOK => FiniteTexts(names)
  BY ListingAssumption DEF NamesOK, FiniteTexts, Text

(***************************************************************************)
(* What a page does for the client that asked with marker m: it goes on    *)
(* from m in order, and what it leaves is above the marker it hands out.   *)
(***************************************************************************)
LEMMA PageGoesOn ==
    ASSUME NamesOK, NEW q, QueryOK(q), NEW m \in Text
    PROVE  LET page == ListPage(q, m)
               max  == parse_max_keys(q.max_keys)
           IN  /\ max = 0 => page = EmptyPage
               /\ page.entries \in Seq(Text) /\ Ordered(page.entries)
               /\ \A e \in ToSet(page.entries) : e \in Text /\ Less(m, e)
               /\ page.is_truncated \in BOOLEAN
               /\ page.is_truncated =>
                      /\ page.next_marker \in Text /\ Less(m, page.next_marker)
                      /\ \A e \in ToSet(page.entries) : AtMostMarker(e, page.next_marker)
               /\ max # 0 => \A e \in Listed(q, m) :
                      \/ e \in ToSet(page.entries)
                      \/ page.is_truncated /\ Less(page.next_marker, e)
<1> DEFINE max  == parse_max_keys(q.max_keys)
           page == ListPage(q, m)
           p    == [prefix |-> q.prefix, delimiter |-> q.delimiter, marker |-> m,
                    max_keys |-> max]
           all  == Listed(q, m)
           G    == FirstOf(all, max)
<1>1. max \in Nat
  BY QueryParts
<1>2. CASE max = 0
  <2>1. page = EmptyPage
    BY <1>2 DEF ListPage
  <2>2. ToSet(<<>>) = {} /\ <<>> \in Seq(Text) /\ Ordered(<<>>)
    BY EmptySeq DEF ToSet, Ordered
  <2> HIDE DEF page, max
  <2>3. page.entries = <<>> /\ page.is_truncated = FALSE
    BY <2>1 DEF EmptyPage
  <2> QED
    BY <1>2, <2>1, <2>2, <2>3 DEF page, max
<1>3. CASE max # 0
  <2>1. page = list_page(p)
    BY <1>3 DEF ListPage
  <2>2. /\ p.prefix = q.prefix /\ p.delimiter = q.delimiter
        /\ p.marker = m /\ p.max_keys = max
    OBVIOUS
  <2> HIDE DEF p, max
  <2>3. PageParams(p)
    BY <2>2, QueryParts, NamesAreTexts DEF PageParams, ParamsOK
  <2>4. p.max_keys \in Nat \ {0}
    BY <1>1, <1>3, <2>2
  <2>5. /\ FiniteTexts(all)
        /\ page.entries \in Seq(Text)
        /\ ToSet(page.entries) = G
        /\ \A i, j \in 1 .. Len(page.entries) :
               i < j => Less(page.entries[i], page.entries[j])
        /\ page.is_truncated \in BOOLEAN
        /\ page.is_truncated => /\ page.next_marker \in G
                                /\ \A e \in G : AtMostMarker(e, page.next_marker)
    <3> HIDE DEF page
    <3> QED
      BY <2>1, <2>2, <2>3, <2>4, PageIs
  <2>6. \A e \in all : \/ e \in ToSet(page.entries)
                       \/ page.is_truncated /\ Less(page.next_marker, e)
    <3> HIDE DEF page
    <3> QED
      BY <2>1, <2>2, <2>3, <2>4, PageLeaves
  <2>7. \A e \in G : e \in Text /\ Less(m, e)
    <3>1. G \subseteq all
      BY DEF FirstOf
    <3>2. \A e \in all : e \in Text /\ Less(m, e)
      BY <2>5 DEF FiniteTexts, Listed
    <3> QED
      BY <3>1, <3>2
  <2> HIDE DEF page, G
  <2> QED
    BY <1>3, <2>5, <2>6, <2>7 DEF Ordered, page, max
<1> QED
  BY <1>2, <1>3

(***************************************************************************)
(* FetchPage keeps the invariant: the page goes on where the pages before  *)
(* it ended.                                                               *)
(***************************************************************************)
LEMMA FetchKeeps ==
    ASSUME NamesOK, NEW q, QueryOK(q), NEW t \in Seq(Text), NEW s \in Seq(Text),
           NEW st, st \subseteq names, Ordered(s), HeldOK(q, t, s, st)
    PROVE  LET page == ListPage(q, MarkerOf(q, t))
           IN  /\ s \o page.entries \in Seq(Text)
               /\ Ordered(s \o page.entries)
               /\ next_marker(page) \in Seq(Text)
               /\ page.is_truncated => HeldOK(q, next_marker(page), s \o page.entries, st)
               /\ ~page.is_truncated => DoneOK(q, s \o page.entries, st)
<1> DEFINE m    == MarkerOf(q, t)
           page == ListPage(q, m)
           es   == page.entries
           nm   == page.next_marker
           max  == parse_max_keys(q.max_keys)
           u    == s \o es
<1>1. m \in Text
  <2>1. t # <<>> => t[1] \in Text
    OBVIOUS
  <2> QED
    BY <2>1, QueryParts DEF MarkerOf, Absent
<1> HIDE DEF m
<1>2. /\ es \in Seq(Text) /\ Ordered(es)
      /\ \A e \in ToSet(es) : e \in Text /\ Less(m, e)
      /\ page.is_truncated \in BOOLEAN
      /\ page.is_truncated => /\ nm \in Text /\ Less(m, nm)
                              /\ \A e \in ToSet(es) : AtMostMarker(e, nm)
      /\ max # 0 => \A e \in Listed(q, m) :
                      \/ e \in ToSet(es)
                      \/ page.is_truncated /\ Less(nm, e)
  BY <1>1, PageGoesOn
<1> DEFINE more == page.is_truncated
<1>3. next_marker(page) = IF more THEN <<nm>> ELSE <<>>
  BY DEF next_marker, Present, Absent
<1> HIDE DEF page, es, nm, max, more
<1>4. /\ u \in Seq(Text) /\ Len(u) = Len(s) + Len(es)
      /\ Len(s) \in Nat /\ Len(es) \in Nat
      /\ \A i \in 1 .. Len(s) : u[i] = s[i] /\ s[i] \in ToSet(s) /\ s[i] \in Text
      /\ \A i \in 1 .. Len(es) : u[i + Len(s)] = es[i] /\ es[i] \in ToSet(es)
  BY <1>2 DEF ToSet
<1> HIDE DEF u
<1>5. /\ \A x \in ToSet(s) : x \in ToSet(u) /\ x \in Text
      /\ \A x \in ToSet(es) : x \in ToSet(u)
      /\ \A x \in ToSet(u) : x \in ToSet(s) \/ x \in ToSet(es)
  <2> DEFINE a == Len(s)
             b == Len(es)
  <2>1. /\ ToSet(s) = {s[i] : i \in 1 .. a} /\ ToSet(es) = {es[i] : i \in 1 .. b}
        /\ ToSet(u) = {u[i] : i \in 1 .. (a + b)}
    <3>1. DOMAIN s = 1 .. a /\ DOMAIN es = 1 .. b
      BY <1>2
    <3>2. DOMAIN u = 1 .. Len(u) /\ Len(u) = a + b
      BY <1>4
    <3> HIDE DEF a, b
    <3>3. DOMAIN u = 1 .. (a + b)
      BY <3>2, Zenon
    <3> QED
      BY <3>1, <3>3, Zenon DEF ToSet
  <2>2. /\ a \in Nat /\ b \in Nat
        /\ \A i \in 1 .. a : u[i] = s[i] /\ s[i] \in Text
        /\ \A i \in 1 .. b : u[i + a] = es[i]
    BY <1>4
  <2> HIDE DEF a, b
  <2>3. \A i \in 1 .. a : i \in 1 .. (a + b)
    BY <2>2
  <2>4. \A i \in 1 .. b : i + a \in 1 .. (a + b)
    BY <2>2
  <2>5. \A i \in 1 .. (a + b) : i \in 1 .. a \/ (i - a \in 1 .. b /\ (i - a) + a = i)
    BY <2>2
  <2>6. ASSUME NEW x \in ToSet(u) PROVE x \in ToSet(s) \/ x \in ToSet(es)
    <3>1. PICK i \in 1 .. (a + b) : x = u[i]
      BY <2>1
    <3>2. CASE i \in 1 .. a
      BY <2>1, <2>2, <3>1, <3>2
    <3>3. CASE i - a \in 1 .. b /\ (i - a) + a = i
      <4>1. x = es[i - a]
        BY <2>2, <3>1, <3>3
      <4> QED
        BY <2>1, <3>3, <4>1
    <3> QED
      BY <2>5, <3>2, <3>3
  <2> QED
    BY <2>1, <2>2, <2>3, <2>4, <2>6
<1>6. \A x \in ToSet(s) : AtMostMarker(x, m)
  <2>1. CASE t = Absent
    BY <2>1 DEF HeldOK, ToSet
  <2>2. CASE t # Absent
    BY <2>2 DEF HeldOK, m, MarkerOf
  <2> QED
    BY <2>1, <2>2
<1>7. \A x \in ToSet(s) : \A y \in Text : Less(m, y) => Less(x, y)
  BY <1>1, <1>5, <1>6, LessTransitive DEF AtMostMarker
<1>8. Ordered(u)
  <2> DEFINE a == Len(s)
             b == Len(es)
  <2>1. SUFFICES ASSUME NEW i \in 1 .. (a + b), NEW j \in 1 .. (a + b), i < j
                 PROVE  Less(u[i], u[j])
    BY <1>4 DEF Ordered
  <2>2. a \in Nat /\ b \in Nat
    BY <1>4
  <2> HIDE DEF a, b
  <2>3. CASE j <= a
    <3>1. i \in 1 .. a /\ j \in 1 .. a
      BY <2>1, <2>2, <2>3
    <3> QED
      BY <1>4, <2>1, <3>1 DEF Ordered, a
  <2>4. CASE i <= a /\ j > a
    <3>1. i \in 1 .. a /\ j - a \in 1 .. b /\ (j - a) + a = j
      BY <2>1, <2>2, <2>4
    <3>2. u[i] \in ToSet(s) /\ u[j] \in ToSet(es)
      BY <1>4, <3>1 DEF a, b
    <3> QED
      BY <1>2, <1>7, <3>2
  <2>5. CASE i > a
    <3>1. /\ i - a \in 1 .. b /\ (i - a) + a = i
          /\ j - a \in 1 .. b /\ (j - a) + a = j
          /\ i - a < j - a
      BY <2>1, <2>2, <2>5
    <3>2. u[i] = es[i - a] /\ u[j] = es[j - a]
      BY <1>4, <3>1 DEF a, b
    <3> QED
      BY <1>2, <3>1, <3>2 DEF Ordered, b
  <2> QED
    BY <2>1, <2>2, <2>3, <2>4, <2>5
\* A steady name not shown yet is above m, so it is in the bucket and to be listed after m.
<1>9. ASSUME max # 0, NEW n \in st, ToBeShown(n, q)
      PROVE  Shown(n, q) \in ToSet(u) \/ (more /\ Less(nm, Shown(n, q)))
  <2>1. CASE Shown(n, q) \in ToSet(s)
    BY <1>5, <2>1
  <2>2. CASE Less(m, Shown(n, q))
    <3>1. Shown(n, q) \in Listed(q, m)
      BY <1>9, <2>2 DEF Listed, ToBeShown
    <3> QED
      BY <1>2, <1>5, <1>9, <3>1 DEF more
  <2> QED
    BY <1>9, <2>1, <2>2 DEF HeldOK, max, m
<1>10. next_marker(page) \in Seq(Text)
  BY <1>2, <1>3 DEF more
<1>11. ASSUME more PROVE HeldOK(q, next_marker(page), u, st)
  <2>1. next_marker(page) = <<nm>> /\ <<nm>> # Absent /\ <<nm>>[1] = nm
    BY <1>3, <1>11 DEF Absent
  <2>2. MarkerOf(q, <<nm>>) = nm
    BY <2>1 DEF MarkerOf
  <2>3. \A e \in ToSet(u) : AtMostMarker(e, nm)
    BY <1>2, <1>5, <1>7, <1>11 DEF AtMostMarker, more
  <2> QED
    BY <1>9, <2>1, <2>2, <2>3 DEF HeldOK, max
<1>12. ASSUME ~more PROVE DoneOK(q, u, st)
  BY <1>9, <1>12 DEF DoneOK, max
<1> QED
  BY <1>4, <1>8, <1>10, <1>11, <1>12 DEF u, es, more, page, m

LEMMA ListerStarts == MCInit => ListerOK
<1> SUFFICES ASSUME MCInit PROVE ListerOK
  OBVIOUS
<1>1. lister = NotListing /\ NamesOK
  BY FS_EmptySet DEF MCInit, Init, NamesOK
<1>2. lister \in Lister
  BY <1>1, EmptySeq DEF NotListing, Lister, Absent
<1> QED
  BY <1>1, <1>2 DEF ListerOK, NotListing, Ordered

\* A refused client holds nothing; a client that begins has all it is to see ahead of it.
LEMMA BeginKeeps ==
    ASSUME ListerOK, NEW q \in ListArgs, Begin(q)
    PROVE  ListerOK'
<1>1. NamesOK' /\ NamesOK /\ names' = names
  BY DEF ListerOK, NamesOK, Begin
<1>2. CASE q.max_keys # Absent /\ q.max_keys[1] < 0
  <2>1. lister' = [NotListing EXCEPT !.pc = "refused"]
    BY <1>2 DEF Begin
  <2>2. /\ lister'.pc = "refused" /\ lister'.seen = <<>> /\ lister'.steady = {}
        /\ lister' \in Lister
    BY <2>1, EmptySeq DEF NotListing, Lister, Absent
  <2> QED
    BY <1>1, <2>2 DEF ListerOK, Ordered
<1>3. CASE ~(q.max_keys # Absent /\ q.max_keys[1] < 0)
  <2>1. lister' = [NotListing EXCEPT !.pc = "listing", !.query = <<q>>, !.steady = names]
    BY <1>3 DEF Begin, Present
  <2>2. /\ lister'.pc = "listing" /\ lister'.query = <<q>> /\ lister'.token = <<>>
        /\ lister'.seen = <<>> /\ lister'.steady = names
    BY <2>1 DEF NotListing, Absent
  <2>3. lister' \in Lister
    <3>1. <<q>> \in Seq(ListArgs) /\ <<>> \in Seq(Text) /\ names \in SUBSET Name
      BY <1>1, EmptySeq DEF NamesOK
    <3>2. lister' = [pc |-> "listing", query |-> <<q>>, token |-> <<>>, seen |-> <<>>,
                     steady |-> names]
      BY <2>1 DEF NotListing, Absent
    <3> QED
      BY <3>1, <3>2 DEF Lister
  <2>4. QueryOK(q)
    <3>1. q.max_keys = Absent \/ q.max_keys[1] \in Int
      BY ListingAssumption
    <3> QED
      BY <1>3, <3>1 DEF QueryOK
  <2>5. HeldOK(q, <<>>, <<>>, names)
    BY DEF HeldOK, ToBeShown, MarkerOf, Absent
  <2>6. <<q>> # Absent /\ <<q>>[1] = q
    BY DEF Absent
  <2> QED
    BY <1>1, <2>2, <2>3, <2>4, <2>5, <2>6 DEF ListerOK, Ordered
<1> QED
  BY <1>2, <1>3

LEMMA FetchPageKeeps ==
    ASSUME ListerOK, FetchPage
    PROVE  ListerOK'
<1> DEFINE q    == lister.query[1]
           t    == lister.token
           s    == lister.seen
           st   == lister.steady
           page == ListPage(q, MarkerOf(q, t))
           u    == s \o page.entries
           nt   == next_marker(page)
<1>1. /\ NamesOK /\ QueryOK(q) /\ t \in Seq(Text) /\ s \in Seq(Text) /\ st \subseteq names
      /\ Ordered(s) /\ HeldOK(q, t, s, st) /\ lister.query # Absent
      /\ lister \in Lister /\ lister.pc = "listing"
  BY DEF ListerOK, Lister, FetchPage
<1>2. /\ u \in Seq(Text) /\ Ordered(u) /\ nt \in Seq(Text)
      /\ page.is_truncated => HeldOK(q, nt, u, st)
      /\ ~page.is_truncated => DoneOK(q, u, st)
  <2> HIDE DEF q, t, s, st
  <2> QED
    BY <1>1, FetchKeeps
<1>3. /\ lister' = [lister EXCEPT !.seen = u, !.token = nt,
                                  !.pc = IF page.is_truncated THEN "listing" ELSE "done"]
      /\ names' = names
  BY DEF FetchPage
<1> HIDE DEF u, nt, page
<1>4. /\ lister' \in Lister /\ lister'.seen = u /\ lister'.token = nt
      /\ lister'.query = lister.query /\ lister'.steady = st
      /\ lister'.pc = IF page.is_truncated THEN "listing" ELSE "done"
  BY <1>1, <1>2, <1>3 DEF Lister
<1>5. NamesOK'
  BY <1>1, <1>3 DEF NamesOK
<1>6. CASE page.is_truncated
  <2>1. lister'.pc = "listing"
    BY <1>4, <1>6
  <2> QED
    BY <1>1, <1>2, <1>3, <1>4, <1>5, <1>6, <2>1 DEF ListerOK
<1>7. CASE ~page.is_truncated
  <2>1. lister'.pc = "done"
    BY <1>4, <1>7
  <2> QED
    BY <1>1, <1>2, <1>3, <1>4, <1>5, <1>7, <2>1 DEF ListerOK
<1> QED
  BY <1>6, <1>7

LEMMA PutNameKeeps ==
    ASSUME ListerOK, NEW n \in Name, PutName(n)
    PROVE  ListerOK'
<1>1. names' = names \cup {n} /\ lister' = lister
  BY DEF PutName
<1>2. NamesOK'
  BY <1>1, FS_AddElement DEF ListerOK, NamesOK
<1> QED
  BY <1>1, <1>2 DEF ListerOK

LEMMA DeleteNameKeeps ==
    ASSUME ListerOK, NEW n, DeleteName(n)
    PROVE  ListerOK'
<1>1. names' = names \ {n} /\ lister' = [lister EXCEPT !.steady = @ \ {n}]
  BY DEF DeleteName
<1>2. NamesOK'
  BY <1>1, FS_RemoveElement DEF ListerOK, NamesOK
<1>3. /\ lister' \in Lister /\ lister'.pc = lister.pc /\ lister'.query = lister.query
      /\ lister'.token = lister.token /\ lister'.seen = lister.seen
      /\ lister'.steady = lister.steady \ {n}
  BY <1>1 DEF ListerOK, Lister
<1>4. \A q, t, s : HeldOK(q, t, s, lister.steady) => HeldOK(q, t, s, lister.steady \ {n})
  BY DEF HeldOK
<1>5. \A q, s : DoneOK(q, s, lister.steady) => DoneOK(q, s, lister.steady \ {n})
  BY DEF DoneOK
<1> QED
  BY <1>1, <1>2, <1>3, <1>4, <1>5 DEF ListerOK

LEMMA ListerStep == ListerOK /\ [MCNext]_mcVars => ListerOK'
<1> SUFFICES ASSUME ListerOK, [MCNext]_mcVars PROVE ListerOK'
  OBVIOUS
<1>1. Next \/ UNCHANGED vars
  BY DEF MCNext, mcVars
<1>2. CASE UNCHANGED vars
  BY <1>2 DEF vars, ListerOK, NamesOK
<1>3. ASSUME NEW q \in ListArgs, Begin(q) PROVE ListerOK'
  BY <1>3, BeginKeeps
<1>4. CASE FetchPage
  BY <1>4, FetchPageKeeps
<1>5. ASSUME NEW n \in Name, PutName(n) PROVE ListerOK'
  BY <1>5, PutNameKeeps
<1>6. ASSUME NEW n \in names, DeleteName(n) PROVE ListerOK'
  BY <1>6, DeleteNameKeeps
<1> QED
  BY <1>1, <1>2, <1>3, <1>4, <1>5, <1>6 DEF Next

LEMMA ListerInvariant == MCSpec => []ListerOK
  BY ListerStarts, ListerStep, PTL DEF MCSpec

(***************************************************************************)
(* Every page a client of ListObjects may be given holds the first         *)
(* max-keys entries after its marker and says rightly whether there are    *)
(* more, for any names, prefix, delimiter, marker and page size: the one   *)
(* pass of list_page, with its skipping of prefixes already shown, finds   *)
(* exactly the entries that the definition of a listing names.             *)
(***************************************************************************)
THEOREM PagesHoldFirstEntries == MCSpec => []PageHoldsFirstEntries
<1>1. ListerOK => PageHoldsFirstEntries
  <2> SUFFICES ASSUME ListerOK, lister.pc = "listing",
                      parse_max_keys(lister.query[1].max_keys) > 0
               PROVE  LET q == lister.query[1]
                          m == MarkerOf(q, lister.token)
                          max == parse_max_keys(q.max_keys)
                          all == Listed(q, m)
                          page == ListPage(q, m)
                      IN  /\ ToSet(page.entries) = FirstOf(all, max)
                          /\ page.is_truncated <=> Cardinality(all) > max
    BY DEF PageHoldsFirstEntries
  <2> DEFINE q   == lister.query[1]
             t   == lister.token
             m   == MarkerOf(q, t)
             max == parse_max_keys(q.max_keys)
             p   == [prefix |-> q.prefix, delimiter |-> q.delimiter, marker |-> m,
                     max_keys |-> max]
  <2>1. NamesOK /\ QueryOK(q) /\ t \in Seq(Text)
    BY DEF ListerOK, Lister
  <2>2. m \in Text
    <3>1. t # <<>> => t[1] \in Text
      BY <2>1
    <3> QED
      BY <2>1, <3>1, QueryParts DEF MarkerOf, Absent
  <2>3. max \in Nat \ {0}
    BY <2>1, QueryParts
  <2>4. ListPage(q, m) = list_page(p)
    BY <2>3 DEF ListPage
  <2>5. /\ p.prefix = q.prefix /\ p.delimiter = q.delimiter
        /\ p.marker = m /\ p.max_keys = max
    OBVIOUS
  <2> HIDE DEF p, max, m, q, t
  <2>6. PageParams(p) /\ p.max_keys \in Nat \ {0}
    BY <2>1, <2>2, <2>3, <2>5, QueryParts, NamesAreTexts DEF PageParams, ParamsOK
  <2>7. /\ ToSet(list_page(p).entries) = FirstOf(Listed(q, p.marker), p.max_keys)
        /\ list_page(p).is_truncated <=> Cardinality(Listed(q, p.marker)) > p.max_keys
    BY <2>5, <2>6, PageIs
  <2> QED
    BY <2>4, <2>5, <2>7 DEF max, m, q, t
<1> QED
  BY <1>1, ListerInvariant, PTL

(***************************************************************************)
(* Over all its pages a ListObjects client is shown keys and common        *)
(* prefixes in order, each one once, whatever is put and deleted between   *)
(* the pages.                                                              *)
(***************************************************************************)
THEOREM ListingsInOrder == MCSpec => []ListedInOrderOnce
<1>1. ListerOK => ListedInOrderOnce
  <2> SUFFICES ASSUME ListerOK PROVE ListedInOrderOnce
    OBVIOUS
  <2>1. lister.seen \in Seq(Text) /\ Ordered(lister.seen)
    BY DEF ListerOK, Lister
  <2> QED
    BY <2>1 DEF ListedInOrderOnce, Ordered
<1> QED
  BY <1>1, ListerInvariant, PTL

(***************************************************************************)
(* A finished listing has shown every key that was there all along, as     *)
(* itself or as its common prefix: no page boundary loses one.             *)
(***************************************************************************)
THEOREM SteadyKeysAreListed == MCSpec => []SteadyKeysListed
<1>1. ListerOK => SteadyKeysListed
  <2> SUFFICES ASSUME ListerOK, lister.pc = "done",
                      parse_max_keys(lister.query[1].max_keys) > 0,
                      NEW n \in lister.steady, ToBeShown(n, lister.query[1])
               PROVE  Shown(n, lister.query[1]) \in ToSet(lister.seen)
    BY DEF SteadyKeysListed, ToBeShown
  <2>1. DoneOK(lister.query[1], lister.seen, lister.steady)
    BY DEF ListerOK
  <2> QED
    BY <2>1 DEF DoneOK
<1> QED
  BY <1>1, ListerInvariant, PTL

(***************************************************************************)
(* A truncated page hands out a marker beyond the one it was asked with.   *)
(***************************************************************************)
THEOREM MarkersDoAdvance == MCSpec => MarkersAdvance
<1> DEFINE Advances == lister.token # Absent /\ lister'.token # Absent /\ UNCHANGED names =>
                           Less(lister.token[1], lister'.token[1])
<1>1. ListerOK /\ [MCNext]_mcVars => [Advances]_vars
  <2> SUFFICES ASSUME ListerOK, Next, lister.token # Absent, lister'.token # Absent,
                      names' = names
               PROVE  Less(lister.token[1], lister'.token[1])
    BY DEF MCNext, mcVars
  <2>1. ASSUME NEW q \in ListArgs, Begin(q) PROVE FALSE
    BY <2>1 DEF Begin, NotListing
  <2>2. ASSUME NEW n \in Name \ names, PutName(n) PROVE FALSE
    BY <2>2 DEF PutName
  <2>3. ASSUME NEW n \in names, DeleteName(n) PROVE FALSE
    BY <2>3 DEF DeleteName
  <2>4. FetchPage
    BY <2>1, <2>2, <2>3 DEF Next
  <2> DEFINE q    == lister.query[1]
             m    == lister.token[1]
             page == ListPage(q, MarkerOf(q, lister.token))
  <2>5. NamesOK /\ QueryOK(q) /\ lister.token \in Seq(Text) /\ lister \in Lister
    BY <2>4 DEF ListerOK, Lister, FetchPage
  <2>6. m \in Text /\ MarkerOf(q, lister.token) = m
    BY <2>5 DEF MarkerOf, Absent
  <2>7. page.is_truncated => Less(m, page.next_marker)
    <3> HIDE DEF q, m
    <3> QED
      BY <2>5, <2>6, PageGoesOn
  <2>8. lister'.token = next_marker(page)
    BY <2>4, <2>5 DEF FetchPage, Lister
  <2> HIDE DEF page
  <2>9. page.is_truncated /\ lister'.token = <<page.next_marker>>
    BY <2>8 DEF next_marker, Present
  <2> QED
    BY <2>7, <2>9
<1> QED
  BY <1>1, ListerInvariant, PTL DEF MCSpec, MarkersAdvance

=============================================================================
