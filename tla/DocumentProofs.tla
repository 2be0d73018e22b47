--------------------------- MODULE DocumentProofs ---------------------------
(***************************************************************************)
(* What the server makes of the documents it is sent and of those it       *)
(* stores: the capabilities of a user, and the list of a DeleteObjects     *)
(* request, for every string, every document and every place where a body  *)
(* breaks off.                                                             *)
(***************************************************************************)
EXTENDS InputProofs

(***************************************************************************)
(* Capabilities.  A map that can be stored has known types and no entry    *)
(* without bits; such a map is determined by the bits it gives each type,  *)
(* and every operation is a union or a difference of them.                 *)
(***************************************************************************)
Perms == {p \in SUBSET ALL : p # {}}

Good == UNION {[D -> Perms] : D \in SUBSET VALID_CAP_TYPES}

LEMMA PermsAre == \A p : p \in Perms <=> p \subseteq ALL /\ p # {}
  BY DEF Perms

LEMMA GoodIs ==
    ASSUME NEW c
    PROVE  c \in Good <=> DOMAIN c \subseteq VALID_CAP_TYPES /\ c \in [DOMAIN c -> Perms]
  BY DEF Good

LEMMA NotInvalid ==
    /\ Invalid \notin Perms
    /\ Unreadable \notin Good
<1>1. \A p \in Perms : "invalid" \notin p
  BY DEF Perms, ALL, READ, WRITE
<1>2. Invalid \notin Perms
  BY <1>1 DEF Invalid
<1>3. ASSUME Unreadable \in Good PROVE FALSE
  <2>1. Unreadable \in [DOMAIN Unreadable -> Perms]
    BY <1>3, GoodIs
  <2>2. 0 \in DOMAIN Unreadable /\ Unreadable[0] = Invalid
    BY DEF Unreadable
  <2>3. Unreadable[0] \in Perms
    BY <2>1, <2>2
  <2> QED
    BY <1>2, <2>2, <2>3
<1> QED
  BY <1>2, <1>3

LEMMA EmptyIs == Empty \in Good /\ DOMAIN Empty = {} /\ \A u : Perm(Empty, u) = {}
<1>1. DOMAIN Empty = {} /\ Empty \in [{} -> Perms]
  BY DEF Empty
<1> QED
  BY <1>1, GoodIs DEF Perm

\* The bits of a map are its entries.
LEMMA PermIs ==
    ASSUME NEW c \in Good, NEW u
    PROVE  /\ Perm(c, u) \subseteq ALL
           /\ u \in DOMAIN c <=> Perm(c, u) # {}
           /\ u \in DOMAIN c => Perm(c, u) = c[u] /\ c[u] \in Perms /\ u \in VALID_CAP_TYPES
<1>1. DOMAIN c \subseteq VALID_CAP_TYPES /\ c \in [DOMAIN c -> Perms]
  BY GoodIs
<1>2. u \in DOMAIN c => c[u] \in Perms
  BY <1>1
<1>3. u \in DOMAIN c => c[u] # {} /\ c[u] \subseteq ALL
  BY <1>2, PermsAre
<1> QED
  BY <1>1, <1>2, <1>3 DEF Perm

LEMMA SamePerms ==
    ASSUME NEW c \in Good, NEW d \in Good, \A u : Perm(c, u) = Perm(d, u)
    PROVE  c = d
<1>1. \A u : u \in DOMAIN c <=> u \in DOMAIN d
  BY PermIs
<1>2. DOMAIN c = DOMAIN d
  BY <1>1
<1>3. \A u \in DOMAIN c : c[u] = d[u]
  BY <1>2, PermIs
<1>4. c \in [DOMAIN c -> Perms] /\ d \in [DOMAIN d -> Perms]
  BY GoodIs
<1> QED
  BY <1>2, <1>3, <1>4

LEMMA AddIs ==
    ASSUME NEW c \in Good, NEW t, NEW p \in Perms \cup {Invalid}
    PROVE  /\ add(c, t, p) \in Good \cup {Unreadable}
           /\ add(Unreadable, t, p) = Unreadable
           /\ t \in VALID_CAP_TYPES /\ p \in Perms =>
                 /\ add(c, t, p) \in Good
                 /\ \A u : Perm(add(c, t, p), u) = Perm(c, u) \cup (IF u = t THEN p ELSE {})
<1>1. add(Unreadable, t, p) = Unreadable
  BY DEF add
<1>2. ASSUME t \notin VALID_CAP_TYPES \/ p = Invalid PROVE add(c, t, p) = Unreadable
  BY <1>2 DEF add
<1>3. ASSUME t \in VALID_CAP_TYPES, p \in Perms
      PROVE  /\ add(c, t, p) \in Good
             /\ \A u : Perm(add(c, t, p), u) = Perm(c, u) \cup (IF u = t THEN p ELSE {})
  <2> DEFINE q == Perm(c, t) \cup p
             a == [u \in DOMAIN c \cup {t} |-> IF u = t THEN q ELSE c[u]]
  <2>1. c # Unreadable /\ p # Invalid
    BY <1>3, NotInvalid
  <2>2. add(c, t, p) = a
    BY <1>3, <2>1 DEF add
  <2>3. q \in Perms
    BY <1>3, PermIs DEF Perms
  <2>4. DOMAIN c \subseteq VALID_CAP_TYPES /\ \A u \in DOMAIN c : c[u] \in Perms
    BY GoodIs
  <2>5. a \in [DOMAIN c \cup {t} -> Perms] /\ DOMAIN a = DOMAIN c \cup {t}
    <3> HIDE DEF q
    <3> QED
      BY <2>3, <2>4
  <2>6. a \in Good
    <3> HIDE DEF a
    <3> QED
      BY <1>3, <2>4, <2>5, GoodIs
  <2>7. ASSUME NEW u PROVE Perm(a, u) = Perm(c, u) \cup (IF u = t THEN p ELSE {})
    <3>1. CASE u = t
      <4>1. Perm(a, u) = q
        BY <2>5, <3>1 DEF Perm
      <4> QED
        BY <3>1, <4>1
    <3>2. CASE u # t /\ u \in DOMAIN c
      BY <2>5, <3>2 DEF Perm
    <3>3. CASE u # t /\ u \notin DOMAIN c
      BY <2>5, <3>3 DEF Perm
    <3> QED
      BY <3>1, <3>2, <3>3
  <2> HIDE DEF a
  <2> QED
    BY <2>2, <2>6, <2>7
<1> QED
  BY <1>1, <1>2, <1>3

LEMMA RemoveIs ==
    ASSUME NEW c \in Good, NEW t, NEW p
    PROVE  /\ remove(c, t, p) \in Good
           /\ \A u : Perm(remove(c, t, p), u) = Perm(c, u) \ (IF u = t THEN p ELSE {})
<1> DEFINE left == Perm(c, t) \ p
<1>1. DOMAIN c \subseteq VALID_CAP_TYPES /\ c \in [DOMAIN c -> Perms]
  BY GoodIs
<1>2. CASE left = {}
  <2> DEFINE a == [u \in DOMAIN c \ {t} |-> c[u]]
  <2>1. remove(c, t, p) = a
    BY <1>2 DEF remove
  <2>2. a \in [DOMAIN c \ {t} -> Perms] /\ DOMAIN a = DOMAIN c \ {t}
    BY <1>1
  <2>3. a \in Good
    <3> HIDE DEF a
    <3> QED
      BY <1>1, <2>2, GoodIs
  <2>4. ASSUME NEW u PROVE Perm(a, u) = Perm(c, u) \ (IF u = t THEN p ELSE {})
    <3>1. CASE u = t
      BY <1>2, <2>2, <3>1 DEF Perm
    <3>2. CASE u # t /\ u \in DOMAIN c
      BY <2>2, <3>2 DEF Perm
    <3>3. CASE u # t /\ u \notin DOMAIN c
      BY <2>2, <3>3 DEF Perm
    <3> QED
      BY <3>1, <3>2, <3>3
  <2> HIDE DEF a
  <2> QED
    BY <2>1, <2>3, <2>4
<1>3. CASE left # {}
  <2> DEFINE a == [c EXCEPT ![t] = left]
  <2>1. remove(c, t, p) = a
    BY <1>3 DEF remove
  <2>2. t \in DOMAIN c /\ left \in Perms
    BY <1>3, PermIs DEF Perm, Perms
  <2>3. /\ a \in [DOMAIN c -> Perms] /\ DOMAIN a = DOMAIN c
        /\ \A u \in DOMAIN c : a[u] = IF u = t THEN left ELSE c[u]
    <3> HIDE DEF left
    <3> QED
      BY <1>1, <2>2
  <2>4. a \in Good
    <3> HIDE DEF a
    <3> QED
      BY <1>1, <2>3, GoodIs
  <2> HIDE DEF a
  <2>5. ASSUME NEW u PROVE Perm(a, u) = Perm(c, u) \ (IF u = t THEN p ELSE {})
    <3>1. CASE u = t
      BY <2>2, <2>3, <3>1 DEF Perm
    <3>2. CASE u # t /\ u \in DOMAIN c
      BY <2>3, <3>2 DEF Perm
    <3>3. CASE u # t /\ u \notin DOMAIN c
      BY <2>3, <3>3 DEF Perm
    <3> QED
      BY <3>1, <3>2, <3>3
  <2> QED
    BY <2>1, <2>4, <2>5
<1> QED
  BY <1>2, <1>3

\* A permission that is parsed has bits, or it is refused; one that is displayed is parsed back.
LEMMA ParseIs ==
    ASSUME NEW parts \in Seq(STRING), parts # <<>>
    PROVE  parse(parts) \in Perms \cup {Invalid}
<1>1. 1 \in DOMAIN parts
  <2>1. Len(parts) \in Nat /\ DOMAIN parts = 1 .. Len(parts) /\ Len(parts) # 0
    BY EmptySeq, LenProperties
  <2> QED
    BY <2>1
<1> DEFINE bits == UNION {Word(parts[i]) : i \in DOMAIN parts}
<1>2. \A i : Word(parts[i]) \in {ALL, READ, WRITE, Invalid}
  BY DEF Word
<1>3. bits \subseteq ALL \cup Invalid
  BY <1>2 DEF ALL, Invalid
<1>4. bits # {}
  <2>1. Word(parts[1]) # {}
    BY <1>2 DEF ALL, READ, WRITE, Invalid
  <2> QED
    BY <1>1, <2>1
<1>5. parse(parts) = IF Invalid \subseteq bits THEN Invalid ELSE bits
  BY DEF parse
<1> HIDE DEF bits
<1> QED
  BY <1>3, <1>4, <1>5, PermsAre DEF Invalid

LEMMA ParseDisplayed ==
    ASSUME NEW p \in Perms
    PROVE  parse(Displayed(p)) = p
<1>1. p = ALL \/ p = READ \/ p = WRITE
  <2>1. p \subseteq {"r", "w"} /\ p # {}
    BY PermsAre DEF ALL, READ, WRITE
  <2> QED
    BY <2>1 DEF ALL, READ, WRITE
<1>2. ALL # READ /\ ALL # WRITE /\ READ # WRITE /\ "invalid" \notin ALL
  BY DEF ALL, READ, WRITE
<1>3. ASSUME NEW w, Word(w) = p PROVE parse(<<w>>) = p
  <2>1. UNION {Word(<<w>>[i]) : i \in DOMAIN <<w>>} = p
    <3>1. DOMAIN <<w>> = {1} /\ <<w>>[1] = w
      OBVIOUS
    <3> QED
      BY <1>3, <3>1
  <2>2. ~(Invalid \subseteq p)
    BY <1>2, PermsAre DEF Invalid
  <2> QED
    BY <2>1, <2>2 DEF parse
<1>4. Word("*") = ALL /\ Word("read") = READ /\ Word("write") = WRITE
  BY DEF Word
<1>5. /\ p = ALL => Displayed(p) = <<"*">>
      /\ p = READ => Displayed(p) = <<"read">>
      /\ p = WRITE => Displayed(p) = <<"write">>
  BY <1>2 DEF Displayed
<1> QED
  BY <1>1, <1>3, <1>4, <1>5

\* Every finite set of numbers can be put in order.
LEMMA OrderExists ==
    ASSUME NEW n \in Nat
    PROVE  \A S : S \subseteq Nat /\ IsFiniteSet(S) /\ Cardinality(S) = n =>
              \E o \in [1 .. n -> S] : \A i, j \in 1 .. n : i < j => o[i] < o[j]
<1> DEFINE P(m) == \A S : S \subseteq Nat /\ IsFiniteSet(S) /\ Cardinality(S) = m =>
                      \E o \in [1 .. m -> S] : \A i, j \in 1 .. m : i < j => o[i] < o[j]
           T == {m \in Nat : ~P(m)}
<1>1. T = {}
  <2>0. SUFFICES ASSUME T # {} PROVE FALSE
    OBVIOUS
  <2>1. PICK m \in T : \A k \in T : m <= k
    <3>1. T \subseteq Nat
      OBVIOUS
    <3> HIDE DEF T
    <3> QED
      BY <2>0, <3>1, LeastNatural
  <2>2. m \in Nat /\ ~P(m) /\ \A k \in Nat : k < m => P(k)
    BY <2>1
  <2>3. PICK S : /\ S \subseteq Nat /\ IsFiniteSet(S) /\ Cardinality(S) = m
                 /\ ~\E o \in [1 .. m -> S] : \A i, j \in 1 .. m : i < j => o[i] < o[j]
    BY <2>2
  <2>4. m # 0
    <3>1. ASSUME m = 0 PROVE FALSE
      <4>1. 1 .. m = {}
        BY <3>1
      <4> DEFINE o == [i \in 1 .. m |-> 0]
      <4>2. o \in [1 .. m -> S] /\ \A i, j \in 1 .. m : i < j => o[i] < o[j]
        BY <4>1
      <4> QED
        BY <2>3, <4>2
    <3> QED
      BY <3>1
  <2>5. PICK s \in S : \A t \in S : s <= t
    <3>1. S # {}
      BY <2>3, <2>4, FS_EmptySet
    <3> QED
      BY <2>3, <3>1, LeastNatural
  <2> DEFINE R == S \ {s}
             l == m - 1
  <2>6. R \subseteq Nat /\ IsFiniteSet(R) /\ Cardinality(R) = l /\ l \in Nat /\ l < m
    BY <2>2, <2>3, <2>4, FS_RemoveElement
  <2>7. PICK q \in [1 .. l -> R] : \A i, j \in 1 .. l : i < j => q[i] < q[j]
    <3>1. P(l)
      BY <2>2, <2>6
    <3> HIDE DEF R, l
    <3> QED
      BY <2>6, <3>1
  <2> DEFINE o == [i \in 1 .. m |-> IF i = 1 THEN s ELSE q[i - 1]]
  <2>8. \A i \in 1 .. m : i # 1 => i - 1 \in 1 .. l
    BY <2>2
  <2>9. \A i \in 1 .. m : i # 1 => q[i - 1] \in R /\ s < q[i - 1]
    <3>1. \A t \in R : s < t
      <4>1. \A t \in R : s \in Nat /\ t \in Nat /\ s <= t /\ t # s
        BY <2>3, <2>5
      <4> QED
        BY <4>1
    <3> HIDE DEF R, l
    <3> QED
      BY <2>7, <2>8, <3>1
  <2>10. o \in [1 .. m -> S]
    <3>1. R \subseteq S
      OBVIOUS
    <3> HIDE DEF R, l
    <3> QED
      BY <2>5, <2>9, <3>1
  <2>11. ASSUME NEW i \in 1 .. m, NEW j \in 1 .. m, i < j PROVE o[i] < o[j]
    <3>1. j # 1 /\ j - 1 \in 1 .. l
      BY <2>2, <2>8, <2>11
    <3>2. CASE i = 1
      BY <2>9, <3>1, <3>2
    <3>3. CASE i # 1
      <4>1. i - 1 \in 1 .. l /\ i - 1 < j - 1
        BY <2>2, <2>8, <2>11, <3>3
      <4>2. q[i - 1] < q[j - 1]
        BY <2>7, <3>1, <4>1
      <4> QED
        BY <3>1, <3>3, <4>2
    <3> QED
      BY <3>2, <3>3
  <2> HIDE DEF o
  <2> QED
    BY <2>3, <2>10, <2>11
<1>2. P(n)
  BY <1>1
<1> QED
  BY <1>2

LEMMA InOrderIs ==
    ASSUME NEW S \in SUBSET VALID_CAP_TYPES
    PROVE  /\ Cardinality(S) \in Nat
           /\ InOrder(S) \in [1 .. Cardinality(S) -> S]
           /\ \A i, j \in 1 .. Cardinality(S) : i # j => InOrder(S)[i] # InOrder(S)[j]
           /\ \A t \in S : \E i \in 1 .. Cardinality(S) : InOrder(S)[i] = t
<1> DEFINE n == Cardinality(S)
           o == InOrder(S)
<1>1. S \subseteq Nat /\ IsFiniteSet(S) /\ n \in Nat
  BY CapsAssumption, FS_Subset, FS_CardinalityType
<1>2. o \in [1 .. n -> S] /\ \A i, j \in 1 .. n : i < j => o[i] < o[j]
  <2>1. \E e \in [1 .. n -> S] : \A i, j \in 1 .. n : i < j => e[i] < e[j]
    BY <1>1, OrderExists
  <2> QED
    BY <2>1 DEF InOrder
<1> HIDE DEF n, o
<1>3. ASSUME NEW i \in 1 .. n, NEW j \in 1 .. n, i # j PROVE o[i] # o[j]
  <2>1. o[i] \in Nat /\ o[j] \in Nat
    BY <1>1, <1>2
  <2>2. i < j \/ j < i
    BY <1>1, <1>3
  <2>3. o[i] < o[j] \/ o[j] < o[i]
    BY <1>2, <2>2
  <2> QED
    BY <2>1, <2>3
<1>4. o \in Injection(1 .. n, S)
  BY <1>2, <1>3 DEF Injection, IsInjective
<1>5. Cardinality(1 .. n) = n
  <2>1. Cardinality(1 .. n) = IF 1 > n THEN 0 ELSE n - 1 + 1
    BY <1>1, FS_Interval
  <2> QED
    BY <1>1, <2>1
<1>6. o \in Surjection(1 .. n, S)
  BY <1>1, <1>4, <1>5, FS_Injection DEF n
<1> QED
  BY <1>1, <1>2, <1>3, <1>6 DEF Surjection, n, o

\* What add_from_string makes of a string is a map that can be stored, or an error.
LEMMA ParseCapsIs ==
    ASSUME NEW items \in CapsString
    PROVE  parse_caps(items) \in Good \cup {Unreadable}
<1> DEFINE n == Len(items)
           S == Good \cup {Unreadable}
           next(i, c) == IF items[i].equals THEN add(c, items[i].type, parse(items[i].perm))
                         ELSE Unreadable
           turn == [q \in (1 .. n) \X S |-> next(q[1], q[2])]
           g == CHOOSE e : e = [i \in 0 .. n |-> IF i = 0 THEN Empty ELSE next(i, e[i - 1])]
<1>1. items \in Seq(Item) /\ n \in Nat /\ DOMAIN items = 1 .. n
  BY CapsAssumption, LenProperties
<1>2. ASSUME NEW i \in 1 .. n, NEW c \in S PROVE next(i, c) \in S
  <2>1. items[i] \in Item
    BY <1>1, ElementOfSeq
  <2>2. items[i].equals => parse(items[i].perm) \in Perms \cup {Invalid}
    <3>1. items[i].perm \in Seq(STRING) /\ (items[i].equals => items[i].perm # <<>>)
      BY <1>1, <2>1, CapsAssumption DEF Item
    <3> QED
      BY <3>1, ParseIs
  <2> QED
    BY <2>2, AddIs, EmptyIs
<1>3. parse_caps(items) = g[n]
  BY DEF parse_caps
<1> HIDE DEF next, S
<1>4. turn \in [(1 .. n) \X S -> S] /\ Empty \in S
  BY <1>2, EmptyIs DEF S
<1>5. \A i \in 1 .. n, c \in S : turn[<<i, c>>] = next(i, c)
  OBVIOUS
<1> HIDE DEF turn, n
<1>6. PICK f : IsLoop(f, turn, Empty, n, S)
  BY <1>1, <1>4, LoopExists
<1>7. f \in [0 .. n -> S] /\ f[0] = Empty /\ \A i \in 1 .. n : f[i] = next(i, f[i - 1])
  <2>1. f \in [0 .. n -> S] /\ f[0] = Empty /\ \A i \in 1 .. n : f[i] = turn[<<i, f[i - 1]>>]
    BY <1>6 DEF IsLoop
  <2>2. \A i \in 1 .. n : i - 1 \in 0 .. n
    BY <1>1
  <2> QED
    BY <1>5, <2>1, <2>2
<1>8. f = [i \in 0 .. n |-> IF i = 0 THEN Empty ELSE next(i, f[i - 1])]
  <2>1. \A i \in 0 .. n : f[i] = IF i = 0 THEN Empty ELSE next(i, f[i - 1])
    BY <1>1, <1>7
  <2> QED
    BY <1>7, <2>1
<1>9. g = [i \in 0 .. n |-> IF i = 0 THEN Empty ELSE next(i, g[i - 1])]
  BY <1>8
<1> HIDE DEF g
<1>10. g[0] = Empty /\ \A i \in 1 .. n : g[i] = next(i, g[i - 1])
  <2>1. 0 \in 0 .. n /\ \A i \in 1 .. n : i \in 0 .. n /\ i # 0
    BY <1>1
  <2> QED
    BY <1>9, <2>1
<1> DEFINE T == {i \in 0 .. n : g[i] \notin S}
<1>11. T = {}
  <2>0. SUFFICES ASSUME T # {} PROVE FALSE
    OBVIOUS
  <2>1. PICK i \in T : \A k \in T : i <= k
    <3>1. T \subseteq Nat
      BY <1>1
    <3> HIDE DEF T
    <3> QED
      BY <2>0, <3>1, LeastNatural
  <2>2. i \in 1 .. n /\ i - 1 \in 0 .. n /\ ~(i <= i - 1) /\ g[i] \notin S
    BY <1>1, <1>4, <1>10, <2>1
  <2>3. g[i - 1] \in S
    BY <2>1, <2>2
  <2> QED
    BY <1>2, <1>10, <2>2, <2>3
<1>12. g[n] \in S
  BY <1>1, <1>11
<1> QED
  BY <1>3, <1>12 DEF S

\* Adding the entries of a map one by one adds its bits.
LEMMA AddLoop ==
    ASSUME NEW b \in Good, NEW d \in Good, NEW g,
           g[0] = b, \A i \in 1 .. Cardinality(DOMAIN d) :
                        g[i] = add(g[i - 1], InOrder(DOMAIN d)[i], d[InOrder(DOMAIN d)[i]])
    PROVE  /\ g[Cardinality(DOMAIN d)] \in Good
           /\ \A u : Perm(g[Cardinality(DOMAIN d)], u) = Perm(b, u) \cup Perm(d, u)
<1> DEFINE n == Cardinality(DOMAIN d)
           o == InOrder(DOMAIN d)
           Bits(u, i) == IF \E j \in 1 .. i : o[j] = u THEN d[u] ELSE {}
           P(i) == g[i] \in Good /\ \A u : Perm(g[i], u) = Perm(b, u) \cup Bits(u, i)
           T == {i \in 0 .. n : ~P(i)}
<1>1. DOMAIN d \in SUBSET VALID_CAP_TYPES /\ \A t \in DOMAIN d : d[t] \in Perms
  BY GoodIs
<1>2. /\ n \in Nat /\ o \in [1 .. n -> DOMAIN d]
      /\ \A t \in DOMAIN d : \E i \in 1 .. n : o[i] = t
  BY <1>1, InOrderIs
<1>3. g[0] = b /\ \A i \in 1 .. n : g[i] = add(g[i - 1], o[i], d[o[i]])
  OBVIOUS
<1> HIDE DEF n, o
<1>4. T = {}
  <2>0. SUFFICES ASSUME T # {} PROVE FALSE
    OBVIOUS
  <2>1. PICK i \in T : \A k \in T : i <= k
    <3>1. T \subseteq Nat
      BY <1>2
    <3> HIDE DEF T
    <3> QED
      BY <2>0, <3>1, LeastNatural
  <2>2. i \in 0 .. n /\ ~P(i)
    BY <2>1
  <2>3. P(0)
    <3>1. \A u : Bits(u, 0) = {}
      OBVIOUS
    <3> HIDE DEF Bits
    <3> QED
      BY <1>3, <3>1
  <2>4. i \in 1 .. n /\ i - 1 \in 0 .. n /\ ~(i <= i - 1)
    <3>1. i # 0
      BY <2>2, <2>3
    <3> QED
      BY <1>2, <2>2, <3>1
  <2>5. P(i - 1)
    BY <2>1, <2>4
  <2> DEFINE t == o[i]
             c == g[i - 1]
             x == add(c, t, d[t])
  <2>6. t \in VALID_CAP_TYPES /\ d[t] \in Perms /\ g[i] = x
    BY <1>1, <1>2, <1>3, <2>4
  <2>7. c \in Good /\ \A u : Perm(c, u) = Perm(b, u) \cup Bits(u, i - 1)
    BY <2>5
  <2>8. x \in Good /\ \A u : Perm(x, u) = Perm(c, u) \cup (IF u = t THEN d[t] ELSE {})
    <3> HIDE DEF t, c
    <3> QED
      BY <2>6, <2>7, AddIs
  <2>9. ASSUME NEW u PROVE Bits(u, i) = Bits(u, i - 1) \cup (IF u = t THEN d[t] ELSE {})
    <3>1. \A j \in 1 .. i : j = i \/ j \in 1 .. i - 1
      BY <1>2, <2>4
    <3>2. i \in 1 .. i /\ \A j \in 1 .. i - 1 : j \in 1 .. i
      BY <1>2, <2>4
    <3>3. (\E j \in 1 .. i : o[j] = u) <=> (u = t \/ \E j \in 1 .. i - 1 : o[j] = u)
      BY <3>1, <3>2
    <3>4. CASE u = t
      BY <3>3, <3>4
    <3>5. CASE u # t
      BY <3>3, <3>5
    <3> QED
      BY <3>4, <3>5
  <2>10. P(i)
    <3> HIDE DEF x, Bits, t, c
    <3>1. ASSUME NEW u PROVE Perm(x, u) = Perm(b, u) \cup Bits(u, i)
      BY <2>7, <2>8, <2>9
    <3> QED
      BY <2>6, <2>8, <3>1
  <2> QED
    BY <2>2, <2>10
<1>5. P(n)
  BY <1>2, <1>4
<1>6. ASSUME NEW u PROVE Bits(u, n) = Perm(d, u)
  <2>1. (\E j \in 1 .. n : o[j] = u) <=> u \in DOMAIN d
    BY <1>2
  <2> QED
    BY <2>1 DEF Perm
<1> HIDE DEF Bits
<1>7. g[n] \in Good /\ \A u : Perm(g[n], u) = Perm(b, u) \cup Perm(d, u)
  BY <1>5, <1>6
<1> QED
  BY <1>7 DEF n

\* Taking the entries of a map away one by one takes its bits away.
LEMMA RemoveLoop ==
    ASSUME NEW b \in Good, NEW d \in Good, NEW g,
           g[0] = b, \A i \in 1 .. Cardinality(DOMAIN d) :
                        g[i] = remove(g[i - 1], InOrder(DOMAIN d)[i], d[InOrder(DOMAIN d)[i]])
    PROVE  /\ g[Cardinality(DOMAIN d)] \in Good
           /\ \A u : Perm(g[Cardinality(DOMAIN d)], u) = Perm(b, u) \ Perm(d, u)
<1> DEFINE n == Cardinality(DOMAIN d)
           o == InOrder(DOMAIN d)
           Bits(u, i) == IF \E j \in 1 .. i : o[j] = u THEN d[u] ELSE {}
           P(i) == g[i] \in Good /\ \A u : Perm(g[i], u) = Perm(b, u) \ Bits(u, i)
           T == {i \in 0 .. n : ~P(i)}
<1>1. DOMAIN d \in SUBSET VALID_CAP_TYPES
  BY GoodIs
<1>2. /\ n \in Nat /\ o \in [1 .. n -> DOMAIN d]
      /\ \A t \in DOMAIN d : \E i \in 1 .. n : o[i] = t
  BY <1>1, InOrderIs
<1>3. g[0] = b /\ \A i \in 1 .. n : g[i] = remove(g[i - 1], o[i], d[o[i]])
  OBVIOUS
<1> HIDE DEF n, o
<1>4. T = {}
  <2>0. SUFFICES ASSUME T # {} PROVE FALSE
    OBVIOUS
  <2>1. PICK i \in T : \A k \in T : i <= k
    <3>1. T \subseteq Nat
      BY <1>2
    <3> HIDE DEF T
    <3> QED
      BY <2>0, <3>1, LeastNatural
  <2>2. i \in 0 .. n /\ ~P(i)
    BY <2>1
  <2>3. P(0)
    <3>1. \A u : Bits(u, 0) = {}
      OBVIOUS
    <3> HIDE DEF Bits
    <3> QED
      BY <1>3, <3>1
  <2>4. i \in 1 .. n /\ i - 1 \in 0 .. n /\ ~(i <= i - 1)
    <3>1. i # 0
      BY <2>2, <2>3
    <3> QED
      BY <1>2, <2>2, <3>1
  <2>5. P(i - 1)
    BY <2>1, <2>4
  <2> DEFINE t == o[i]
             c == g[i - 1]
             x == remove(c, t, d[t])
  <2>6. g[i] = x
    BY <1>3, <2>4
  <2>7. c \in Good /\ \A u : Perm(c, u) = Perm(b, u) \ Bits(u, i - 1)
    BY <2>5
  <2>8. x \in Good /\ \A u : Perm(x, u) = Perm(c, u) \ (IF u = t THEN d[t] ELSE {})
    <3> HIDE DEF t, c
    <3> QED
      BY <2>7, RemoveIs
  <2>9. ASSUME NEW u PROVE Bits(u, i) = Bits(u, i - 1) \cup (IF u = t THEN d[t] ELSE {})
    <3>1. \A j \in 1 .. i : j = i \/ j \in 1 .. i - 1
      BY <1>2, <2>4
    <3>2. i \in 1 .. i /\ \A j \in 1 .. i - 1 : j \in 1 .. i
      BY <1>2, <2>4
    <3>3. (\E j \in 1 .. i : o[j] = u) <=> (u = t \/ \E j \in 1 .. i - 1 : o[j] = u)
      BY <3>1, <3>2
    <3>4. CASE u = t
      BY <3>3, <3>4
    <3>5. CASE u # t
      BY <3>3, <3>5
    <3> QED
      BY <3>4, <3>5
  <2>10. P(i)
    <3> HIDE DEF x, Bits, t, c
    <3>1. ASSUME NEW u PROVE Perm(x, u) = Perm(b, u) \ Bits(u, i)
      BY <2>7, <2>8, <2>9
    <3> QED
      BY <2>6, <2>8, <3>1
  <2> QED
    BY <2>2, <2>10
<1>5. P(n)
  BY <1>2, <1>4
<1>6. ASSUME NEW u PROVE Bits(u, n) = Perm(d, u)
  <2>1. (\E j \in 1 .. n : o[j] = u) <=> u \in DOMAIN d
    BY <1>2
  <2> QED
    BY <2>1 DEF Perm
<1> HIDE DEF Bits
<1>7. g[n] \in Good /\ \A u : Perm(g[n], u) = Perm(b, u) \ Perm(d, u)
  BY <1>5, <1>6
<1> QED
  BY <1>7 DEF n

LEMMA AddAllIs ==
    ASSUME NEW b \in Good, NEW d \in Good
    PROVE  AddAll(b, d) \in Good /\ \A u : Perm(AddAll(b, d), u) = Perm(b, u) \cup Perm(d, u)
<1> DEFINE n == Cardinality(DOMAIN d)
           o == InOrder(DOMAIN d)
           next(i, c) == add(c, o[i], d[o[i]])
           turn == [q \in (1 .. n) \X Good |-> next(q[1], q[2])]
           g == CHOOSE e : e = [i \in 0 .. n |-> IF i = 0 THEN b ELSE next(i, e[i - 1])]
<1>1. AddAll(b, d) = g[n]
  BY DEF AddAll
<1>2. DOMAIN d \in SUBSET VALID_CAP_TYPES /\ \A t \in DOMAIN d : d[t] \in Perms
  BY GoodIs
<1>3. n \in Nat /\ o \in [1 .. n -> DOMAIN d]
  BY <1>2, InOrderIs
<1>4. ASSUME NEW i \in 1 .. n, NEW c \in Good PROVE next(i, c) \in Good
  <2>1. o[i] \in VALID_CAP_TYPES /\ d[o[i]] \in Perms
    <3> HIDE DEF n, o
    <3> QED
      BY <1>2, <1>3
  <2> HIDE DEF o
  <2> QED
    BY <2>1, AddIs
<1>5. \A i, c : next(i, c) = add(c, o[i], d[o[i]])
  OBVIOUS
<1> HIDE DEF next, o
<1>6. turn \in [(1 .. n) \X Good -> Good] /\ \A i \in 1 .. n, c \in Good : turn[<<i, c>>] = next(i, c)
  BY <1>4
<1> HIDE DEF turn, n
<1>7. PICK f : IsLoop(f, turn, b, n, Good)
  BY <1>3, <1>6, LoopExists
<1>8. f \in [0 .. n -> Good] /\ f[0] = b /\ \A i \in 1 .. n : f[i] = next(i, f[i - 1])
  <2>1. f \in [0 .. n -> Good] /\ f[0] = b /\ \A i \in 1 .. n : f[i] = turn[<<i, f[i - 1]>>]
    BY <1>7 DEF IsLoop
  <2>2. \A i \in 1 .. n : i - 1 \in 0 .. n
    BY <1>3
  <2> QED
    BY <1>6, <2>1, <2>2
<1>9. f = [i \in 0 .. n |-> IF i = 0 THEN b ELSE next(i, f[i - 1])]
  <2>1. \A i \in 0 .. n : f[i] = IF i = 0 THEN b ELSE next(i, f[i - 1])
    BY <1>3, <1>8
  <2> QED
    BY <1>8, <2>1
<1>10. g = [i \in 0 .. n |-> IF i = 0 THEN b ELSE next(i, g[i - 1])]
  BY <1>9
<1> HIDE DEF g
<1>11. g[0] = b /\ \A i \in 1 .. n : g[i] = next(i, g[i - 1])
  <2>1. 0 \in 0 .. n /\ \A i \in 1 .. n : i \in 0 .. n /\ i # 0
    BY <1>3
  <2> QED
    BY <1>10, <2>1
<1>12. g[n] \in Good /\ \A u : Perm(g[n], u) = Perm(b, u) \cup Perm(d, u)
  BY <1>5, <1>11, AddLoop DEF n, o
<1> QED
  BY <1>1, <1>12

LEMMA RemoveAllIs ==
    ASSUME NEW b \in Good, NEW d \in Good
    PROVE  RemoveAll(b, d) \in Good /\ \A u : Perm(RemoveAll(b, d), u) = Perm(b, u) \ Perm(d, u)
<1> DEFINE n == Cardinality(DOMAIN d)
           o == InOrder(DOMAIN d)
           next(i, c) == remove(c, o[i], d[o[i]])
           turn == [q \in (1 .. n) \X Good |-> next(q[1], q[2])]
           g == CHOOSE e : e = [i \in 0 .. n |-> IF i = 0 THEN b ELSE next(i, e[i - 1])]
<1>1. RemoveAll(b, d) = g[n]
  BY DEF RemoveAll
<1>2. n \in Nat
  BY GoodIs, InOrderIs
<1>3. ASSUME NEW i \in 1 .. n, NEW c \in Good PROVE next(i, c) \in Good
  <2> HIDE DEF o
  <2> QED
    BY RemoveIs
<1>4. \A i, c : next(i, c) = remove(c, o[i], d[o[i]])
  OBVIOUS
<1> HIDE DEF next, o
<1>5. turn \in [(1 .. n) \X Good -> Good] /\ \A i \in 1 .. n, c \in Good : turn[<<i, c>>] = next(i, c)
  BY <1>3
<1> HIDE DEF turn, n
<1>6. PICK f : IsLoop(f, turn, b, n, Good)
  BY <1>2, <1>5, LoopExists
<1>7. f \in [0 .. n -> Good] /\ f[0] = b /\ \A i \in 1 .. n : f[i] = next(i, f[i - 1])
  <2>1. f \in [0 .. n -> Good] /\ f[0] = b /\ \A i \in 1 .. n : f[i] = turn[<<i, f[i - 1]>>]
    BY <1>6 DEF IsLoop
  <2>2. \A i \in 1 .. n : i - 1 \in 0 .. n
    BY <1>2
  <2> QED
    BY <1>5, <2>1, <2>2
<1>8. f = [i \in 0 .. n |-> IF i = 0 THEN b ELSE next(i, f[i - 1])]
  <2>1. \A i \in 0 .. n : f[i] = IF i = 0 THEN b ELSE next(i, f[i - 1])
    BY <1>2, <1>7
  <2> QED
    BY <1>7, <2>1
<1>9. g = [i \in 0 .. n |-> IF i = 0 THEN b ELSE next(i, g[i - 1])]
  BY <1>8
<1> HIDE DEF g
<1>10. g[0] = b /\ \A i \in 1 .. n : g[i] = next(i, g[i - 1])
  <2>1. 0 \in 0 .. n /\ \A i \in 1 .. n : i \in 0 .. n /\ i # 0
    BY <1>2
  <2> QED
    BY <1>9, <2>1
<1>11. g[n] \in Good /\ \A u : Perm(g[n], u) = Perm(b, u) \ Perm(d, u)
  BY <1>4, <1>10, RemoveLoop DEF n, o
<1> QED
  BY <1>1, <1>11

\* A list that was stored reads back as the map it was made from.
LEMMA ReadBack ==
    ASSUME NEW d \in Good
    PROVE  deserialize(serialize(d)) = d
<1> DEFINE n == Cardinality(DOMAIN d)
           o == InOrder(DOMAIN d)
           w == serialize(d)
           next(i, c) == add(c, w[i].cap_type, parse(w[i].perm))
           turn == [q \in (1 .. n) \X Good |-> next(q[1], q[2])]
           g == CHOOSE e : e = [i \in 0 .. Len(w) |-> IF i = 0 THEN Empty ELSE next(i, e[i - 1])]
<1>1. deserialize(w) = g[Len(w)]
  BY DEF deserialize
<1>2. DOMAIN d \in SUBSET VALID_CAP_TYPES /\ \A t \in DOMAIN d : d[t] \in Perms
  BY GoodIs
<1>3. n \in Nat /\ o \in [1 .. n -> DOMAIN d]
  BY <1>2, InOrderIs
<1>4. w = [i \in 1 .. n |-> [cap_type |-> o[i], perm |-> Displayed(d[o[i]])]]
  BY DEF serialize
<1>5. Len(w) = n /\ \A i \in 1 .. n : w[i].cap_type = o[i] /\ w[i].perm = Displayed(d[o[i]])
  <2> HIDE DEF n, o
  <2>1. w \in Seq({w[i] : i \in 1 .. n}) /\ Len(w) = n
    <3> HIDE DEF w
    <3> QED
      BY <1>3, <1>4
  <2>2. \A i \in 1 .. n : w[i] = [cap_type |-> o[i], perm |-> Displayed(d[o[i]])]
    BY <1>4
  <2> QED
    BY <2>1, <2>2
<1>6. ASSUME NEW i \in 1 .. n, NEW c PROVE next(i, c) = add(c, o[i], d[o[i]])
  <2>1. d[o[i]] \in Perms
    <3> HIDE DEF n, o
    <3> QED
      BY <1>2, <1>3
  <2>2. parse(w[i].perm) = d[o[i]] /\ w[i].cap_type = o[i]
    BY <1>5, <2>1, ParseDisplayed
  <2> QED
    BY <2>2
<1> HIDE DEF next, o, w
<1>7. ASSUME NEW i \in 1 .. n, NEW c \in Good PROVE next(i, c) \in Good
  <2>1. o[i] \in VALID_CAP_TYPES /\ d[o[i]] \in Perms
    <3> HIDE DEF n
    <3> QED
      BY <1>2, <1>3
  <2> QED
    BY <1>6, <2>1, AddIs
<1>8. turn \in [(1 .. n) \X Good -> Good] /\ \A i \in 1 .. n, c \in Good : turn[<<i, c>>] = next(i, c)
  BY <1>7
<1> HIDE DEF turn, n
<1>9. PICK f : IsLoop(f, turn, Empty, n, Good)
  BY <1>3, <1>8, EmptyIs, LoopExists
<1>10. f \in [0 .. n -> Good] /\ f[0] = Empty /\ \A i \in 1 .. n : f[i] = next(i, f[i - 1])
  <2>1. f \in [0 .. n -> Good] /\ f[0] = Empty /\ \A i \in 1 .. n : f[i] = turn[<<i, f[i - 1]>>]
    BY <1>9 DEF IsLoop
  <2>2. \A i \in 1 .. n : i - 1 \in 0 .. n
    BY <1>3
  <2> QED
    BY <1>8, <2>1, <2>2
<1>11. f = [i \in 0 .. Len(w) |-> IF i = 0 THEN Empty ELSE next(i, f[i - 1])]
  <2>1. \A i \in 0 .. n : f[i] = IF i = 0 THEN Empty ELSE next(i, f[i - 1])
    BY <1>3, <1>10
  <2> QED
    BY <1>5, <1>10, <2>1
<1>12. g = [i \in 0 .. Len(w) |-> IF i = 0 THEN Empty ELSE next(i, g[i - 1])]
  BY <1>11
<1> HIDE DEF g
<1>13. g[0] = Empty /\ \A i \in 1 .. n : g[i] = next(i, g[i - 1])
  <2>1. 0 \in 0 .. n /\ \A i \in 1 .. n : i \in 0 .. n /\ i # 0
    BY <1>3
  <2> QED
    BY <1>5, <1>12, <2>1
<1>14. \A i \in 1 .. n : g[i] = add(g[i - 1], o[i], d[o[i]])
  BY <1>6, <1>13
<1>15. g[n] \in Good /\ \A u : Perm(g[n], u) = Perm(Empty, u) \cup Perm(d, u)
  BY <1>13, <1>14, AddLoop, EmptyIs DEF n, o
<1>16. \A u : Perm(g[n], u) = Perm(d, u)
  BY <1>15, EmptyIs
<1>17. g[n] = d
  BY <1>15, <1>16, SamePerms
<1> QED
  BY <1>1, <1>5, <1>17 DEF w

LEMMA PairsAre ==
    ASSUME NEW c \in Good
    PROVE  PairsOf(c) = {pair \in VALID_CAP_TYPES \X ALL : pair[2] \in Perm(c, pair[1])}
<1>1. DOMAIN c \subseteq VALID_CAP_TYPES
  BY GoodIs
<1>2. ASSUME NEW t, NEW x PROVE <<t, x>> \in PairsOf(c) <=>
                                /\ t \in VALID_CAP_TYPES /\ x \in ALL /\ x \in Perm(c, t)
  BY <1>1 DEF PairsOf, Perm
<1>3. PairsOf(c) \subseteq VALID_CAP_TYPES \X ALL
  BY <1>1 DEF PairsOf
<1> QED
  BY <1>2, <1>3

(***************************************************************************)
(* The stored list is that of a map without empty entries, and the pairs   *)
(* are those of the same map.                                              *)
(***************************************************************************)
CapsInv == \E c \in Good : record = serialize(c) /\ pairs = PairsOf(c)

LEMMA CapsStep == CapsInv /\ CapsNext => CapsInv'
<1> SUFFICES ASSUME CapsInv, CapsNext PROVE CapsInv'
  OBVIOUS
<1>1. PICK c \in Good : record = serialize(c) /\ pairs = PairsOf(c)
  BY DEF CapsInv
<1>2. deserialize(record) = c
  BY <1>1, ReadBack
<1>3. CASE caps_add
  <2>1. PICK items \in CapsString :
            /\ Usable(items)
            /\ record' = serialize(AddAll(deserialize(record), parse_caps(items)))
            /\ pairs' = pairs \cup PairsOf(parse_caps(items))
    BY <1>3 DEF caps_add
  <2> DEFINE d == parse_caps(items)
             a == AddAll(c, d)
  <2>2. d \in Good
    BY <2>1, ParseCapsIs DEF Usable
  <2>3. record' = serialize(a) /\ pairs' = PairsOf(c) \cup PairsOf(d)
    BY <1>1, <1>2, <2>1
  <2>4. a \in Good /\ \A u : Perm(a, u) = Perm(c, u) \cup Perm(d, u)
    <3> HIDE DEF d
    <3> QED
      BY <2>2, AddAllIs
  <2> HIDE DEF a, d
  <2>5. PairsOf(a) = PairsOf(c) \cup PairsOf(d)
    BY <1>1, <2>2, <2>4, PairsAre
  <2> QED
    BY <2>3, <2>4, <2>5 DEF CapsInv
<1>4. CASE caps_remove
  <2>1. PICK items \in CapsString :
            /\ Usable(items)
            /\ record' = serialize(RemoveAll(deserialize(record), parse_caps(items)))
            /\ pairs' = pairs \ PairsOf(parse_caps(items))
    BY <1>4 DEF caps_remove
  <2> DEFINE d == parse_caps(items)
             a == RemoveAll(c, d)
  <2>2. d \in Good
    BY <2>1, ParseCapsIs DEF Usable
  <2>3. record' = serialize(a) /\ pairs' = PairsOf(c) \ PairsOf(d)
    BY <1>1, <1>2, <2>1
  <2>4. a \in Good /\ \A u : Perm(a, u) = Perm(c, u) \ Perm(d, u)
    <3> HIDE DEF d
    <3> QED
      BY <2>2, RemoveAllIs
  <2> HIDE DEF a, d
  <2>5. PairsOf(a) = PairsOf(c) \ PairsOf(d)
    BY <1>1, <2>2, <2>4, PairsAre
  <2> QED
    BY <2>3, <2>4, <2>5 DEF CapsInv
<1> QED
  BY <1>3, <1>4 DEF CapsNext

LEMMA CapsInitOK == CapsInit => CapsInv
<1> SUFFICES ASSUME CapsInit PROVE CapsInv
  OBVIOUS
<1>1. record = <<>> /\ pairs = {}
  BY DEF CapsInit
<1>2. Cardinality(DOMAIN Empty) = 0
  BY EmptyIs, FS_EmptySet
<1>3. serialize(Empty) = <<>>
  <2>1. 1 .. Cardinality(DOMAIN Empty) = {}
    BY <1>2
  <2> QED
    BY <2>1 DEF serialize
<1>4. PairsOf(Empty) = {}
  BY EmptyIs DEF PairsOf
<1> QED
  BY <1>1, <1>3, <1>4, EmptyIs DEF CapsInv

(***************************************************************************)
(* The stored capabilities of a user can always be read again and grant    *)
(* what the grants and removals so far add up to, for any number of types, *)
(* strings of any length and any sequence of requests (UserCaps and its    *)
(* serialized form, caps_add, caps_remove).                                *)
(***************************************************************************)
THEOREM CapsReadBack == Spec => []CapsReadBackAsPairs
<1>1. Init => CapsInv
  BY CapsInitOK DEF Init
<1>2. CapsInv /\ [Next]_vars => CapsInv'
  <2> SUFFICES ASSUME CapsInv, [Next]_vars PROVE CapsInv'
    OBVIOUS
  <2>1. UNCHANGED capsVars \/ CapsNext
    BY DEF Next, vars
  <2>2. CASE UNCHANGED capsVars
    BY <2>2 DEF CapsInv, capsVars
  <2> QED
    BY <2>1, <2>2, CapsStep
<1>3. CapsInv => CapsReadBackAsPairs
  <2> SUFFICES ASSUME CapsInv PROVE CapsReadBackAsPairs
    OBVIOUS
  <2>1. PICK c \in Good : record = serialize(c) /\ pairs = PairsOf(c)
    BY DEF CapsInv
  <2>2. deserialize(record) = c /\ c # Unreadable
    BY <2>1, ReadBack, NotInvalid
  <2>3. ASSUME NEW t \in VALID_CAP_TYPES, NEW p \in {READ, WRITE, ALL}
        PROVE  check_cap(c, t, p) <=> {t} \X p \subseteq pairs
    <3>1. p # {} /\ p \subseteq ALL
      BY DEF READ, WRITE, ALL
    <3>2. check_cap(c, t, p) <=> p \subseteq Perm(c, t)
      BY <3>1, PermIs DEF check_cap, Perm
    <3>3. ({t} \X p \subseteq pairs) <=> p \subseteq Perm(c, t)
      <4>1. \A x : <<t, x>> \in pairs <=> x \in ALL /\ x \in Perm(c, t)
        BY <2>1, PairsAre
      <4>2. {t} \X p \subseteq pairs <=> \A x \in p : <<t, x>> \in pairs
        OBVIOUS
      <4> QED
        BY <3>1, <4>1, <4>2
    <3> QED
      BY <3>2, <3>3
  <2> QED
    BY <2>2, <2>3 DEF CapsReadBackAsPairs
<1> QED
  BY <1>1, <1>2, <1>3, PTL DEF Spec

-----------------------------------------------------------------------------
(* Sequences of names *)

LEMMA FrontAppend ==
    ASSUME NEW S, NEW s \in Seq(S), NEW e \in S
    PROVE  Front(Append(s, e)) = s
<1> DEFINE x == Append(s, e)
           y == SubSeq(x, 1, Len(s))
<1>1. /\ x \in Seq(S) /\ Len(x) = Len(s) + 1 /\ Len(s) \in Nat
      /\ \A i \in 1 .. Len(s) : x[i] = s[i]
  BY AppendProperties, LenProperties
<1> HIDE DEF x
<1>2. Front(x) = y
  BY <1>1 DEF Front
<1>3. y \in Seq(S) /\ Len(y) = Len(s) /\ \A i \in 1 .. Len(s) : y[i] = x[i]
  BY <1>1
<1> HIDE DEF y
<1>4. y = s
  BY <1>1, <1>3, SeqEqual
<1> QED
  BY <1>2, <1>4 DEF x

LEMMA TwoNames ==
    ASSUME NEW S, NEW a \in S, NEW b \in S
    PROVE  /\ Append(<<>>, a) = <<a>> /\ Append(<<a>>, b) = <<a, b>>
           /\ Front(<<a>>) = <<>> /\ Front(<<a, b>>) = <<a>>
           /\ 1 = Len(<<a>>) /\ 2 = Len(<<a, b>>)
           /\ <<a>> \in Seq(S) /\ <<a, b>> \in Seq(S)
<1>1. <<>> \in Seq(S) /\ <<a>> \in Seq(S) /\ <<a, b>> \in Seq(S)
  OBVIOUS
<1>2. Len(<<a>>) = 1 /\ Len(<<a, b>>) = 2
  OBVIOUS
<1>3. Append(<<>>, a) = <<a>>
  OBVIOUS
<1>4. Append(<<a>>, b) = <<a, b>>
  <2> DEFINE x == Append(<<a>>, b)
             y == <<a, b>>
  <2>1. x \in Seq(S) /\ Len(x) = 2 /\ x[1] = a /\ x[2] = b
    OBVIOUS
  <2>2. y \in Seq(S) /\ Len(y) = 2 /\ y[1] = a /\ y[2] = b
    OBVIOUS
  <2> HIDE DEF x, y
  <2>3. \A i \in 1 .. Len(x) : x[i] = y[i]
    BY <2>1, <2>2
  <2>4. x = y
    BY <2>1, <2>2, <2>3, SeqEqual
  <2> QED
    BY <2>4 DEF x, y
<1>5. Front(<<a>>) = <<>>
  BY <1>1, <1>3, FrontAppend
<1>6. Front(<<a, b>>) = <<a>>
  BY <1>1, <1>4, FrontAppend
<1> QED
  BY <1>1, <1>2, <1>3, <1>4, <1>5, <1>6

LEMMA ThreeNames ==
    ASSUME NEW S, NEW a \in S, NEW b \in S, NEW c \in S
    PROVE  /\ Append(<<a, b>>, c) = <<a, b, c>>
           /\ Front(<<a, b, c>>) = <<a, b>>
           /\ 2 = Len(<<a, b>>)
<1>1. <<a, b>> \in Seq(S) /\ 2 = Len(<<a, b>>)
  OBVIOUS
<1>2. Append(<<a, b>>, c) = <<a, b, c>>
  <2> DEFINE x == Append(<<a, b>>, c)
             y == <<a, b, c>>
  <2>1. x \in Seq(S) /\ Len(x) = 3 /\ x[1] = a /\ x[2] = b /\ x[3] = c
    OBVIOUS
  <2>2. y \in Seq(S) /\ Len(y) = 3 /\ y[1] = a /\ y[2] = b /\ y[3] = c
    OBVIOUS
  <2> HIDE DEF x, y
  <2>3. \A i \in 1 .. Len(x) : x[i] = y[i]
    BY <2>1, <2>2
  <2>4. x = y
    BY <2>1, <2>2, <2>3, SeqEqual
  <2> QED
    BY <2>4 DEF x, y
<1>3. Front(<<a, b, c>>) = <<a, b>>
  BY <1>1, <1>2, FrontAppend
<1> QED
  BY <1>1, <1>2, <1>3

-----------------------------------------------------------------------------
(***************************************************************************)
(* Delete lists.  Run is parse_delete_request over a list of events; once  *)
(* it has stopped, further events change nothing.                          *)
(***************************************************************************)
\* Every text, the names the parser looks for among them.
Str == STRING \cup {Space, "Delete", "Object", "Key", "VersionId", "Quiet"}

EventKinds == {"Start", "Empty", "End", "Text", "CData", "Ref", "Comment"}
EventType  == [kind: EventKinds, text: Str]
MaybeText  == Seq(Str) \cup {NoKey}
ObjectType == [key: MaybeText, version_id: MaybeText]

ParserType ==
    [path: Seq(Str), content: Seq(Str), key: MaybeText, version_id: MaybeText,
     saw_root: BOOLEAN, objects: Seq(ObjectType), quiet: BOOLEAN,
     code: {"reading", "MalformedXML"}]

Taken(p, e) == IF p.code = "reading" THEN AfterEvent(p, e) ELSE p

Run(p, es) ==
    LET r[i \in 0 .. Len(es)] == IF i = 0 THEN p ELSE Taken(r[i - 1], es[i])
    IN  r[Len(es)]

LEMMA OpenedType ==
    ASSUME NEW p \in ParserType, NEW n \in Str
    PROVE  Opened(p, n) \in ParserType
<1>1. Stopped(p) \in ParserType
  BY DEF Stopped, ParserType
<1>2. Append(p.path, n) \in Seq(Str) /\ <<>> \in Seq(Str) /\ NoKey \in MaybeText
  BY DEF ParserType, MaybeText
<1> QED
  BY <1>1, <1>2 DEF Opened, ParserType

LEMMA ClosedType ==
    ASSUME NEW p \in ParserType
    PROVE  Closed(p) \in ParserType
<1>1. Stopped(p) \in ParserType
  BY DEF Stopped, ParserType
<1>2. Front(p.path) \in Seq(Str) /\ <<>> \in Seq(Str) /\ NoKey \in MaybeText
  BY DEF ParserType, MaybeText, Front
<1>3. p.content \in MaybeText
  BY DEF ParserType, MaybeText
<1> DEFINE o == [key |-> p.key, version_id |-> p.version_id]
<1>4. Append(p.objects, o) \in Seq(ObjectType)
  BY DEF ParserType, ObjectType
<1>5. IsTrue(p.content) \in BOOLEAN
  BY DEF IsTrue
<1> HIDE DEF o
<1> DEFINE q == [p EXCEPT !.path = Front(@), !.content = <<>>]
<1>6. q \in ParserType
  BY <1>2 DEF ParserType
<1> HIDE DEF q
<1>7. [q EXCEPT !.key = p.content] \in ParserType
  BY <1>3, <1>6 DEF ParserType
<1>8. [q EXCEPT !.version_id = p.content] \in ParserType
  BY <1>3, <1>6 DEF ParserType
<1>9. [q EXCEPT !.quiet = IsTrue(p.content)] \in ParserType
  BY <1>5, <1>6 DEF ParserType
<1>10. [q EXCEPT !.objects = Append(@, o), !.key = NoKey, !.version_id = NoKey] \in ParserType
  <2>1. q.objects = p.objects
    BY DEF q, ParserType
  <2> QED
    BY <1>2, <1>4, <1>6, <2>1 DEF ParserType
<1> QED
  BY <1>1, <1>6, <1>7, <1>8, <1>9, <1>10 DEF Closed, q, o

LEMMA TakenType ==
    ASSUME NEW p \in ParserType, NEW e \in EventType
    PROVE  Taken(p, e) \in ParserType
<1>1. e.text \in Str /\ e.kind \in EventKinds
  BY DEF EventType
<1>2. Opened(p, e.text) \in ParserType
  BY <1>1, OpenedType
<1>3. Closed(p) \in ParserType /\ Closed(Opened(p, e.text)) \in ParserType
  BY <1>2, ClosedType
<1>4. [p EXCEPT !.content = Append(@, e.text)] \in ParserType /\ Stopped(p) \in ParserType
  <2>1. Append(p.content, e.text) \in Seq(Str)
    BY <1>1 DEF ParserType
  <2> QED
    BY <2>1 DEF ParserType, Stopped
<1> QED
  BY <1>1, <1>2, <1>3, <1>4 DEF Taken, AfterEvent, EventKinds

LEMMA RunIs ==
    ASSUME NEW p \in ParserType, NEW es \in Seq(EventType)
    PROVE  \E f \in [0 .. Len(es) -> ParserType] :
              /\ f[0] = p
              /\ \A i \in 1 .. Len(es) : f[i] = Taken(f[i - 1], es[i])
              /\ Run(p, es) = f[Len(es)]
<1> DEFINE n == Len(es)
           turn == [q \in (1 .. n) \X ParserType |-> Taken(q[2], es[q[1]])]
           g == CHOOSE e : e = [i \in 0 .. n |-> IF i = 0 THEN p ELSE Taken(e[i - 1], es[i])]
<1>1. Run(p, es) = g[n]
  BY DEF Run
<1>2. n \in Nat /\ \A i \in 1 .. n : es[i] \in EventType
  BY LenProperties, ElementOfSeq
<1>3. /\ turn \in [(1 .. n) \X ParserType -> ParserType]
      /\ \A i \in 1 .. n, q \in ParserType : turn[<<i, q>>] = Taken(q, es[i])
  <2> HIDE DEF n
  <2> QED
    BY <1>2, TakenType
<1> HIDE DEF turn, n
<1>4. PICK f : IsLoop(f, turn, p, n, ParserType)
  BY <1>2, <1>3, LoopExists
<1>5. f \in [0 .. n -> ParserType] /\ f[0] = p /\ \A i \in 1 .. n : f[i] = Taken(f[i - 1], es[i])
  <2>1. f \in [0 .. n -> ParserType] /\ f[0] = p /\ \A i \in 1 .. n : f[i] = turn[<<i, f[i - 1]>>]
    BY <1>4 DEF IsLoop
  <2>2. \A i \in 1 .. n : i - 1 \in 0 .. n
    BY <1>2
  <2> QED
    BY <1>3, <2>1, <2>2
<1>6. f = [i \in 0 .. n |-> IF i = 0 THEN p ELSE Taken(f[i - 1], es[i])]
  <2>1. \A i \in 0 .. n : f[i] = IF i = 0 THEN p ELSE Taken(f[i - 1], es[i])
    BY <1>2, <1>5
  <2> QED
    BY <1>5, <2>1
<1>7. g = [i \in 0 .. n |-> IF i = 0 THEN p ELSE Taken(g[i - 1], es[i])]
  BY <1>6
<1> HIDE DEF g
<1>8. g[0] = p /\ \A i \in 1 .. n : g[i] = Taken(g[i - 1], es[i])
  <2>1. 0 \in 0 .. n /\ \A i \in 1 .. n : i \in 0 .. n /\ i # 0
    BY <1>2
  <2> QED
    BY <1>7, <2>1
<1>9. g \in [0 .. n -> ParserType]
  <2> DEFINE T == {i \in 0 .. n : g[i] \in ParserType}
  <2>1. 0 \in T
    BY <1>2, <1>8
  <2>2. ASSUME NEW i \in 1 .. n, i - 1 \in T PROVE i \in T
    <3>1. i \in 0 .. n
      BY <1>2
    <3> QED
      BY <1>2, <1>8, <2>2, <3>1, TakenType
  <2> HIDE DEF T
  <2>3. \A i \in 0 .. n : i \in T
    BY <1>2, <2>1, <2>2, CountUp
  <2>4. \A i \in 0 .. n : g[i] \in ParserType
    BY <2>3 DEF T
  <2> QED
    BY <1>7, <2>4
<1> QED
  BY <1>1, <1>8, <1>9 DEF n

\* Any loop over the events ends where Run does.
LEMMA RunUnique ==
    ASSUME NEW p \in ParserType, NEW es \in Seq(EventType),
           NEW f \in [0 .. Len(es) -> ParserType], f[0] = p,
           \A i \in 1 .. Len(es) : f[i] = Taken(f[i - 1], es[i])
    PROVE  Run(p, es) = f[Len(es)]
<1> DEFINE n == Len(es)
<1>1. n \in Nat
  BY LenProperties
<1>2. PICK g \in [0 .. n -> ParserType] :
         g[0] = p /\ (\A i \in 1 .. n : g[i] = Taken(g[i - 1], es[i])) /\ Run(p, es) = g[n]
  BY RunIs
<1> DEFINE T == {i \in 0 .. n : f[i] = g[i]}
<1>3. 0 \in T
  BY <1>1, <1>2
<1>4. ASSUME NEW i \in 1 .. n, i - 1 \in T PROVE i \in T
  <2>1. i \in 0 .. n /\ f[i - 1] = g[i - 1]
    BY <1>1, <1>4
  <2> QED
    BY <1>2, <2>1
<1> HIDE DEF T
<1>5. \A i \in 0 .. n : i \in T
  BY <1>1, <1>3, <1>4, CountUp
<1>6. n \in T
  BY <1>1, <1>5
<1> QED
  BY <1>2, <1>6 DEF T

LEMMA RunType ==
    ASSUME NEW p \in ParserType, NEW es \in Seq(EventType)
    PROVE  Run(p, es) \in ParserType
<1>1. Len(es) \in 0 .. Len(es)
  BY LenProperties
<1> QED
  BY <1>1, RunIs

LEMMA RunNone ==
    ASSUME NEW p \in ParserType
    PROVE  Run(p, <<>>) = p
<1> DEFINE es == <<>>
<1>1. es \in Seq(EventType) /\ Len(es) = 0
  OBVIOUS
<1> HIDE DEF es
<1>2. PICK f \in [0 .. Len(es) -> ParserType] : f[0] = p /\ Run(p, es) = f[Len(es)]
  BY <1>1, RunIs, ZenonT(40)
<1>3. Run(p, es) = p
  BY <1>1, <1>2
<1> QED
  BY <1>3 DEF es

LEMMA RunOne ==
    ASSUME NEW p \in ParserType, NEW e \in EventType
    PROVE  Run(p, <<e>>) = Taken(p, e)
<1>1. <<e>> \in Seq(EventType) /\ Len(<<e>>) = 1 /\ <<e>>[1] = e
  OBVIOUS
<1>2. PICK f \in [0 .. 1 -> ParserType] :
         f[0] = p /\ (\A i \in 1 .. 1 : f[i] = Taken(f[i - 1], <<e>>[i])) /\ Run(p, <<e>>) = f[1]
  BY <1>1, RunIs, ZenonT(40)
<1>3. f[1] = Taken(f[1 - 1], <<e>>[1])
  BY <1>2
<1>4. 1 - 1 = 0
  OBVIOUS
<1> QED
  BY <1>1, <1>2, <1>3, <1>4

LEMMA RunConcat ==
    ASSUME NEW p \in ParserType, NEW s \in Seq(EventType), NEW t \in Seq(EventType)
    PROVE  Run(p, s \o t) = Run(Run(p, s), t)
<1> DEFINE m == Len(s)
           n == Len(t)
           u == s \o t
<1>1. m \in Nat /\ n \in Nat
  BY LenProperties
<1>2. /\ u \in Seq(EventType) /\ Len(u) = m + n
      /\ \A i \in 1 .. m : u[i] = s[i]
      /\ \A i \in m + 1 .. m + n : u[i] = t[i - m]
  <2>1. /\ u \in Seq(EventType) /\ Len(u) = m + n
        /\ \A i \in 1 .. m + n : u[i] = IF i <= m THEN s[i] ELSE t[i - m]
    BY ConcatProperties
  <2> HIDE DEF u, m, n
  <2> QED
    BY <1>1, <2>1
<1>3. PICK f \in [0 .. m -> ParserType] :
         f[0] = p /\ (\A i \in 1 .. m : f[i] = Taken(f[i - 1], s[i])) /\ Run(p, s) = f[m]
  BY RunIs
<1>4. f[m] \in ParserType
  BY <1>1, <1>3
<1>5. PICK g \in [0 .. n -> ParserType] :
         g[0] = f[m] /\ (\A i \in 1 .. n : g[i] = Taken(g[i - 1], t[i])) /\ Run(f[m], t) = g[n]
  BY <1>4, RunIs
<1> HIDE DEF m, n, u
<1> DEFINE h == [i \in 0 .. m + n |-> IF i <= m THEN f[i] ELSE g[i - m]]
<1>6. ASSUME NEW i \in 0 .. m + n
      PROVE  /\ h[i] \in ParserType
             /\ i <= m => h[i] = f[i]
             /\ i >= m => h[i] = g[i - m]
  <2>1. i <= m => i \in 0 .. m
    BY <1>1
  <2>2. ~(i <= m) => i - m \in 0 .. n
    BY <1>1
  <2>3. i = m => i - m = 0
    BY <1>1
  <2>4. i >= m => i = m \/ ~(i <= m)
    BY <1>1
  <2> QED
    BY <1>3, <1>5, <2>1, <2>2, <2>3, <2>4
<1>7. h \in [0 .. m + n -> ParserType]
  BY <1>6
<1> HIDE DEF h
<1>8. h[0] = p /\ h[m + n] = g[n]
  <2>1. 0 \in 0 .. m + n /\ m + n \in 0 .. m + n /\ 0 <= m /\ m + n >= m /\ (m + n) - m = n
    BY <1>1
  <2> QED
    BY <1>3, <1>6, <2>1
<1>9. ASSUME NEW i \in 1 .. m + n PROVE h[i] = Taken(h[i - 1], u[i])
  <2>1. i \in 0 .. m + n /\ i - 1 \in 0 .. m + n
    BY <1>1
  <2>2. CASE i <= m
    <3>1. i \in 1 .. m /\ i - 1 <= m
      BY <1>1, <2>2
    <3> QED
      BY <1>2, <1>3, <1>6, <2>1, <2>2, <3>1
  <2>3. CASE ~(i <= m)
    <3>1. i \in m + 1 .. m + n /\ i - m \in 1 .. n /\ i - 1 >= m /\ i >= m /\ (i - 1) - m = (i - m) - 1
      BY <1>1, <2>3
    <3>2. g[i - m] = Taken(g[(i - m) - 1], t[i - m])
      BY <1>5, <3>1
    <3>3. h[i] = g[i - m] /\ h[i - 1] = g[(i - m) - 1] /\ u[i] = t[i - m]
      BY <1>2, <1>6, <2>1, <3>1
    <3> QED
      BY <3>2, <3>3
  <2> QED
    BY <2>2, <2>3
<1>10. Run(p, u) = h[m + n]
  <2>1. h \in [0 .. Len(u) -> ParserType] /\ \A i \in 1 .. Len(u) : h[i] = Taken(h[i - 1], u[i])
    BY <1>2, <1>7, <1>9
  <2>2. Run(p, u) = h[Len(u)]
    BY <1>2, <1>8, <2>1, RunUnique
  <2> QED
    BY <1>2, <2>2
<1> QED
  BY <1>3, <1>5, <1>8, <1>10 DEF u

\* The events of several elements, one element after the other.
LEMMA RunEach ==
    ASSUME NEW p \in ParserType, NEW ss \in Seq(Seq(EventType))
    PROVE  \E g \in [0 .. Len(ss) -> ParserType] :
              /\ g[0] = p
              /\ \A i \in 1 .. Len(ss) : g[i] = Run(g[i - 1], ss[i])
              /\ Run(p, FlattenSeq(ss)) = g[Len(ss)]
<1> DEFINE n == Len(ss)
           turn == [q \in (1 .. n) \X ParserType |-> Run(q[2], ss[q[1]])]
<1>1. n \in Nat /\ n \in 0 .. n /\ \A i \in 1 .. n : ss[i] \in Seq(EventType)
  BY LenProperties, ElementOfSeq
<1>2. PICK f : IsFlat(f, ss, n, EventType)
  BY <1>1, FlatExists
<1>3. FlattenSeq(ss) = f[n]
  BY <1>2, FlattenIs
<1> HIDE DEF n
<1>4. /\ turn \in [(1 .. n) \X ParserType -> ParserType]
      /\ \A i \in 1 .. n, q \in ParserType : turn[<<i, q>>] = Run(q, ss[i])
  BY <1>1, RunType
<1> HIDE DEF turn
<1>5. PICK g : IsLoop(g, turn, p, n, ParserType)
  BY <1>1, <1>4, LoopExists
<1>6. g \in [0 .. n -> ParserType] /\ g[0] = p /\ \A i \in 1 .. n : g[i] = Run(g[i - 1], ss[i])
  <2>1. g \in [0 .. n -> ParserType] /\ g[0] = p /\ \A i \in 1 .. n : g[i] = turn[<<i, g[i - 1]>>]
    BY <1>5 DEF IsLoop
  <2>2. \A i \in 1 .. n : i - 1 \in 0 .. n
    BY <1>1
  <2> QED
    BY <1>4, <2>1, <2>2
<1> DEFINE T == {i \in 0 .. n : Run(p, f[i]) = g[i]}
<1>7. 0 \in T
  <2>1. f[0] = <<>> /\ 0 \in 0 .. n
    BY <1>1, <1>2 DEF IsFlat
  <2>2. Run(p, <<>>) = p
    BY RunNone
  <2> QED
    BY <1>6, <2>1, <2>2
<1>8. ASSUME NEW i \in 1 .. n, i - 1 \in T PROVE i \in T
  <2>1. i \in 0 .. n /\ i - 1 \in 0 .. n /\ Run(p, f[i - 1]) = g[i - 1]
    BY <1>1, <1>8
  <2>2. f[i] = f[i - 1] \o ss[i] /\ f[i - 1] \in Seq(EventType)
    BY <1>2, <2>1 DEF IsFlat
  <2>3. Run(p, f[i]) = Run(Run(p, f[i - 1]), ss[i])
    BY <1>1, <2>2, RunConcat
  <2> QED
    BY <1>6, <2>1, <2>3
<1> HIDE DEF T
<1>9. n \in T
  BY <1>1, <1>7, <1>8, CountUp
<1>10. Run(p, FlattenSeq(ss)) = g[n]
  BY <1>3, <1>9 DEF T
<1> QED
  BY <1>6, <1>10 DEF n

\* A parser that has stopped takes no further event.
LEMMA RunStopped ==
    ASSUME NEW p \in ParserType, NEW es \in Seq(EventType), p.code # "reading"
    PROVE  Run(p, es) = p
<1> DEFINE f == [i \in 0 .. Len(es) |-> p]
<1>1. Len(es) \in Nat
  BY LenProperties
<1>2. f \in [0 .. Len(es) -> ParserType] /\ f[0] = p /\ f[Len(es)] = p
  BY <1>1
<1>3. \A i \in 1 .. Len(es) : f[i] = Taken(f[i - 1], es[i])
  <2>1. \A i \in 1 .. Len(es) : i \in 0 .. Len(es) /\ i - 1 \in 0 .. Len(es)
    BY <1>1
  <2> QED
    BY <2>1 DEF Taken
<1> HIDE DEF f
<1> QED
  BY <1>2, <1>3, RunUnique

\* The objects a parser has read are not taken back.
Extends(x, y) == \E o \in Seq(ObjectType) : y = x \o o

LEMMA ExtendsItself ==
    ASSUME NEW x \in Seq(ObjectType)
    PROVE  Extends(x, x)
<1>1. <<>> \in Seq(ObjectType) /\ x \o <<>> = x
  BY ConcatEmptySeq
<1> QED
  BY <1>1 DEF Extends

LEMMA ExtendsOn ==
    ASSUME NEW x \in Seq(ObjectType), NEW y, NEW z, Extends(x, y), Extends(y, z)
    PROVE  Extends(x, z)
<1>1. PICK a \in Seq(ObjectType) : y = x \o a
  BY DEF Extends
<1>2. PICK b \in Seq(ObjectType) : z = y \o b
  BY DEF Extends
<1>3. a \o b \in Seq(ObjectType)
  BY ConcatProperties
<1>4. (x \o a) \o b = x \o (a \o b)
  BY ConcatAssociative
<1> QED
  BY <1>1, <1>2, <1>3, <1>4 DEF Extends

LEMMA TakenGrows ==
    ASSUME NEW p \in ParserType, NEW e \in EventType
    PROVE  \E o \in Seq(ObjectType) : Taken(p, e).objects = p.objects \o o
<1>1. p.objects \in Seq(ObjectType) /\ <<>> \in Seq(ObjectType) /\ p.objects \o <<>> = p.objects
  BY ConcatEmptySeq DEF ParserType
<1>2. ASSUME NEW n \in Str PROVE Opened(p, n).objects = p.objects
  BY DEF Opened, Stopped, ParserType
<1>3. ASSUME NEW q \in ParserType, q.objects = p.objects
      PROVE  \E o \in Seq(ObjectType) : Closed(q).objects = p.objects \o o
  <2> DEFINE o == [key |-> q.key, version_id |-> q.version_id]
  <2>1. o \in ObjectType
    BY DEF ObjectType, ParserType
  <2> HIDE DEF o
  <2>2. <<o>> \in Seq(ObjectType) /\ Append(p.objects, o) = p.objects \o <<o>>
    BY <1>1, <2>1, AppendIsConcat
  <2>3. Closed(q).objects \in {p.objects, Append(p.objects, o)}
    BY <1>3 DEF Closed, ParserType, Stopped, o
  <2> QED
    BY <1>1, <2>2, <2>3
<1>4. e.text \in Str /\ e.kind \in EventKinds
  BY DEF EventType
<1>5. Opened(p, e.text) \in ParserType /\ Opened(p, e.text).objects = p.objects
  BY <1>2, <1>4, OpenedType
<1>6. \E o \in Seq(ObjectType) : Closed(Opened(p, e.text)).objects = p.objects \o o
  BY <1>3, <1>5
<1>7. \E o \in Seq(ObjectType) : Closed(p).objects = p.objects \o o
  BY <1>3
<1>8. CASE e.kind \in {"Start", "Empty", "End"} /\ p.code = "reading"
  BY <1>1, <1>5, <1>6, <1>7, <1>8 DEF Taken, AfterEvent
<1>9. CASE e.kind \in {"Text", "CData", "Ref", "Comment"} \/ p.code # "reading"
  <2>1. Taken(p, e).objects = p.objects
    BY <1>9 DEF Taken, AfterEvent, ParserType, Stopped
  <2> QED
    BY <1>1, <2>1
<1> QED
  BY <1>4, <1>8, <1>9 DEF EventKinds

LEMMA RunGrows ==
    ASSUME NEW p \in ParserType, NEW es \in Seq(EventType)
    PROVE  \E o \in Seq(ObjectType) : Run(p, es).objects = p.objects \o o
<1> DEFINE n == Len(es)
<1>1. n \in Nat /\ \A i \in 1 .. n : es[i] \in EventType
  BY LenProperties, ElementOfSeq
<1>2. PICK f \in [0 .. n -> ParserType] :
         f[0] = p /\ (\A i \in 1 .. n : f[i] = Taken(f[i - 1], es[i])) /\ Run(p, es) = f[n]
  BY RunIs
<1>3. p.objects \in Seq(ObjectType)
  BY DEF ParserType
<1> DEFINE T == {i \in 0 .. n : Extends(p.objects, f[i].objects)}
<1>4. 0 \in T
  BY <1>1, <1>2, <1>3, ExtendsItself
<1>5. ASSUME NEW i \in 1 .. n, i - 1 \in T PROVE i \in T
  <2>1. i \in 0 .. n /\ i - 1 \in 0 .. n
    BY <1>1
  <2>2. Extends(p.objects, f[i - 1].objects)
    BY <1>5
  <2>3. f[i - 1] \in ParserType /\ es[i] \in EventType /\ f[i] = Taken(f[i - 1], es[i])
    BY <1>1, <1>2, <2>1
  <2>4. Extends(f[i - 1].objects, f[i].objects)
    BY <2>3, TakenGrows, ZenonT(40) DEF Extends
  <2> QED
    BY <1>3, <2>1, <2>2, <2>4, ExtendsOn
<1> HIDE DEF T
<1>6. n \in T
  <2>1. \A i \in 0 .. n : i \in T
    BY <1>1, <1>4, <1>5, CountUp
  <2> QED
    BY <1>1, <2>1
<1> QED
  BY <1>2, <1>6 DEF T, Extends

-----------------------------------------------------------------------------
(* One element *)

LEMMA EventIs ==
    ASSUME NEW k \in EventKinds, NEW t \in Str
    PROVE  Event(k, t) \in EventType /\ Event(k, t).kind = k /\ Event(k, t).text = t
<1>1. Event(k, t) = [kind |-> k, text |-> t]
  BY DEF Event
<1> QED
  BY <1>1 DEF EventType

LEMMA Literals ==
    /\ Space \in Str /\ "Delete" \in Str /\ "Object" \in Str /\ "Key" \in Str
    /\ "VersionId" \in Str /\ "Quiet" \in Str
BY DEF Str

\* What is around an element is dropped when the element opens.
LEMMA OpenedAround ==
    ASSUME NEW d \in DocumentType, NEW n \in Str, NEW p \in ParserType, p.code = "reading"
    PROVE  /\ Around(d) \in Seq(EventType)
           /\ Run(p, Around(d)) \in ParserType
           /\ Run(p, Around(d)).code = "reading"
           /\ Run(p, Around(d)).objects = p.objects
           /\ Opened(Run(p, Around(d)), n).code = Opened(p, n).code
           /\ Opened(p, n).code = "reading" => Opened(Run(p, Around(d)), n) = Opened(p, n)
<1>1. CASE ~d.pad
  <2>1. Around(d) = <<>>
    BY <1>1 DEF Around
  <2> QED
    BY <2>1, RunNone
<1>2. CASE d.pad
  <2> DEFINE e == Event("Text", Space)
  <2>1. e \in EventType /\ e.kind = "Text" /\ e.text = Space
    BY Literals, EventIs DEF EventKinds
  <2> HIDE DEF e
  <2>2. Around(d) = <<e>>
    BY <1>2 DEF Around, e
  <2>3. <<e>> \in Seq(EventType) /\ Run(p, <<e>>) = Taken(p, e) /\ Taken(p, e) \in ParserType
    BY <2>1, RunOne, TakenType
  <2> DEFINE q == [p EXCEPT !.content = Append(@, Space)]
  <2>4. Taken(p, e) = q
    BY <2>1 DEF Taken, AfterEvent
  <2>5. q.code = "reading" /\ q.objects = p.objects /\ q.path = p.path /\ q.saw_root = p.saw_root
    BY DEF ParserType
  <2>6. Opened(q, n).code = Opened(p, n).code
    BY <2>5 DEF Opened, Stopped, ParserType
  <2>7. Opened(p, n).code = "reading" => Opened(q, n) = Opened(p, n)
    <3>1. SUFFICES ASSUME Opened(p, n).code = "reading" PROVE Opened(q, n) = Opened(p, n)
      OBVIOUS
    <3>2. ~(p.path = <<>> /\ (n # "Delete" \/ p.saw_root))
      BY <3>1 DEF Opened, Stopped, ParserType
    <3> QED
      BY <3>2, <2>5 DEF Opened, ParserType
  <2> HIDE DEF q
  <2> QED
    BY <2>2, <2>3, <2>4, <2>5, <2>6, <2>7
<1> QED
  BY <1>1, <1>2

LEMMA ElementIs ==
    ASSUME NEW d \in DocumentType, NEW n \in Str, NEW inner \in Seq(EventType),
           NEW p \in ParserType, p.code = "reading"
    PROVE  /\ Element(d, n, inner) \in Seq(EventType)
           /\ Opened(p, n).code = "reading" =>
                 Run(p, Element(d, n, inner)) =
                    IF Run(Opened(p, n), inner).code = "reading"
                    THEN Closed(Run(Opened(p, n), inner)) ELSE Run(Opened(p, n), inner)
           /\ Opened(p, n).code # "reading" =>
                 /\ Run(p, Element(d, n, inner)).code # "reading"
                 /\ Run(p, Element(d, n, inner)).objects = p.objects
<1> DEFINE a == Around(d)
           q == Run(p, a)
           o == Opened(q, n)
           b == IF inner = <<>> /\ d.short THEN <<Event("Empty", n)>>
                ELSE <<Event("Start", n)>> \o inner \o <<Event("End", n)>>
           r == Run(o, inner)
<1>1. /\ a \in Seq(EventType) /\ q \in ParserType /\ q.code = "reading" /\ q.objects = p.objects
      /\ o.code = Opened(p, n).code
      /\ Opened(p, n).code = "reading" => o = Opened(p, n)
  BY OpenedAround
<1> HIDE DEF a, q
<1>2. o \in ParserType /\ r \in ParserType
  BY <1>1, OpenedType, RunType
<1>3. /\ Event("Empty", n) \in EventType /\ Event("Empty", n).kind = "Empty"
      /\ Event("Start", n) \in EventType /\ Event("Start", n).kind = "Start"
      /\ Event("End", n) \in EventType /\ Event("End", n).kind = "End"
      /\ Event("Start", n).text = n /\ Event("Empty", n).text = n
  BY EventIs DEF EventKinds
<1>4. b \in Seq(EventType) /\ Run(q, b) = IF r.code = "reading" THEN Closed(r) ELSE r
  <2>1. CASE inner = <<>> /\ d.short
    <3>1. b = <<Event("Empty", n)>>
      BY <2>1
    <3>2. b \in Seq(EventType) /\ Run(q, b) = Taken(q, Event("Empty", n))
      <4> HIDE DEF b
      <4>1. <<Event("Empty", n)>> \in Seq(EventType)
        BY <1>3
      <4>2. Run(q, <<Event("Empty", n)>>) = Taken(q, Event("Empty", n))
        BY <1>1, <1>3, RunOne
      <4> QED
        BY <3>1, <4>1, <4>2
    <3>3. Taken(q, Event("Empty", n)) = IF o.code = "reading" THEN Closed(o) ELSE o
      <4> DEFINE e == Event("Empty", n)
      <4>1. e.kind = "Empty" /\ e.text = n
        BY <1>3
      <4> HIDE DEF e
      <4>2. Taken(q, e) = AfterEvent(q, e)
        BY <1>1 DEF Taken
      <4>3. AfterEvent(q, e) = IF o.code = "reading" THEN Closed(o) ELSE o
        BY <4>1 DEF AfterEvent
      <4> QED
        BY <4>2, <4>3 DEF e
    <3>4. r = o
      BY <1>2, <2>1, RunNone
    <3> QED
      BY <3>2, <3>3, <3>4
  <2>2. CASE ~(inner = <<>> /\ d.short)
    <3> DEFINE s == <<Event("Start", n)>>
               t == <<Event("End", n)>>
    <3>1. b = s \o inner \o t
      BY <2>2
    <3>2. s \in Seq(EventType) /\ t \in Seq(EventType)
      BY <1>3
    <3>3. Run(q, s) = o
      <4>1. Run(q, s) = Taken(q, Event("Start", n))
        BY <1>1, <1>3, RunOne
      <4> QED
        BY <1>1, <1>3, <4>1 DEF Taken, AfterEvent
    <3>4. Run(r, t) = IF r.code = "reading" THEN Closed(r) ELSE r
      <4>1. Run(r, t) = Taken(r, Event("End", n))
        BY <1>2, <1>3, RunOne
      <4> QED
        BY <1>3, <4>1 DEF Taken, AfterEvent
    <3> HIDE DEF s, t, b
    <3>5. s \o inner \in Seq(EventType) /\ b \in Seq(EventType)
      BY <3>1, <3>2, ConcatProperties
    <3>6. Run(q, s \o inner) = r
      <4>1. Run(q, s \o inner) = Run(Run(q, s), inner)
        BY <1>1, <3>2, RunConcat
      <4> QED
        BY <3>3, <4>1
    <3>7. Run(q, b) = Run(r, t)
      <4>1. Run(q, (s \o inner) \o t) = Run(Run(q, s \o inner), t)
        BY <1>1, <3>2, <3>5, RunConcat
      <4> QED
        BY <3>1, <3>6, <4>1
    <3> QED
      BY <3>4, <3>5, <3>7
  <2> QED
    BY <2>1, <2>2
<1>5. Element(d, n, inner) = a \o b
  BY DEF Element, a
<1> HIDE DEF b
<1>6. Element(d, n, inner) \in Seq(EventType) /\ Run(p, Element(d, n, inner)) = Run(q, b)
  <2>1. a \o b \in Seq(EventType) /\ Run(p, a \o b) = Run(Run(p, a), b)
    BY <1>1, <1>4, ConcatProperties, RunConcat
  <2> QED
    BY <1>5, <2>1 DEF q
<1>7. ASSUME o.code # "reading" PROVE r = o /\ o.objects = p.objects
  <2>1. r = o
    BY <1>2, <1>7, RunStopped
  <2>2. o.objects = q.objects
    BY <1>1 DEF Opened, Stopped, ParserType
  <2> QED
    BY <1>1, <2>1, <2>2
<1> HIDE DEF o, r
<1>8. Opened(p, n).code = "reading" => r = Run(Opened(p, n), inner)
  BY <1>1 DEF r
<1>9. Opened(p, n).code # "reading" => Run(q, b) = o /\ o.code # "reading" /\ o.objects = p.objects
  BY <1>1, <1>4, <1>7
<1> QED
  BY <1>4, <1>6, <1>8, <1>9

-----------------------------------------------------------------------------
(* Text *)

Spoken(pieces) ==
    [i \in DOMAIN pieces |-> IF pieces[i].kind = "Comment" THEN <<>> ELSE <<pieces[i].text>>]

LEMMA TextsType ==
    ASSUME NEW S, NEW K, NEW pieces \in Seq([kind: K, text: S])
    PROVE  /\ Spoken(pieces) \in Seq(Seq(S)) /\ Len(Spoken(pieces)) = Len(pieces)
           /\ \A i \in 1 .. Len(pieces) :
                 Spoken(pieces)[i] = IF pieces[i].kind = "Comment" THEN <<>> ELSE <<pieces[i].text>>
           /\ Texts(pieces) = FlattenSeq(Spoken(pieces))
           /\ Texts(pieces) \in Seq(S)
<1> DEFINE n == Len(pieces)
<1>1. n \in Nat /\ DOMAIN pieces = 1 .. n /\ \A i \in 1 .. n : pieces[i] \in [kind: K, text: S]
  BY LenProperties, ElementOfSeq
<1> HIDE DEF n
<1> DEFINE said(i) == IF pieces[i].kind = "Comment" THEN <<>> ELSE <<pieces[i].text>>
<1>2. \A i \in 1 .. n : said(i) \in Seq(S)
  <2> TAKE i \in 1 .. n
  <2>1. pieces[i].text \in S
    BY <1>1
  <2>2. <<pieces[i].text>> \in Seq(S) /\ <<>> \in Seq(S)
    BY <2>1
  <2> QED
    BY <2>2
<1>3. Spoken(pieces) = [i \in 1 .. n |-> said(i)]
  BY <1>1 DEF Spoken
<1> HIDE DEF said
<1>4. /\ Spoken(pieces) \in Seq(Seq(S)) /\ Len(Spoken(pieces)) = n
      /\ \A i \in 1 .. n : Spoken(pieces)[i] = said(i)
  BY <1>1, <1>2, <1>3
<1>5. Texts(pieces) = FlattenSeq(Spoken(pieces))
  BY DEF Texts, Spoken
<1>6. Texts(pieces) \in Seq(S)
  BY <1>4, <1>5, FlattenType
<1> QED
  BY <1>4, <1>5, <1>6 DEF n, said

\* What pieces of text leave alone.
SameButText(p, q) ==
    /\ q.path = p.path /\ q.key = p.key /\ q.version_id = p.version_id /\ q.saw_root = p.saw_root
    /\ q.objects = p.objects /\ q.quiet = p.quiet

PieceKinds == {"Text", "CData", "Ref", "Comment"}

\* Pieces of text are added to the buffer, and a reference that is none ends the reading.
LEMMA PiecesRead ==
    ASSUME NEW p \in ParserType, p.code = "reading", NEW pieces \in Seq(Piece)
    PROVE  /\ pieces \in Seq(EventType)
           /\ Run(p, pieces) \in ParserType
           /\ SameButText(p, Run(p, pieces))
           /\ Texts(pieces) \in Seq(STRING)
           /\ Run(p, pieces).code = "reading" <=> \A i \in DOMAIN pieces : PieceOK(pieces[i])
           /\ Run(p, pieces).code = "reading" => Run(p, pieces).content = p.content \o Texts(pieces)
<1> DEFINE n == Len(pieces)
<1>1. n \in Nat /\ DOMAIN pieces = 1 .. n /\ \A i \in 1 .. n : pieces[i] \in Piece
  BY LenProperties, ElementOfSeq
<1>2. Piece = [kind: PieceKinds, text: STRING]
  BY DEF Piece, PieceKinds
<1>3. \A e \in Piece : e \in EventType /\ e.kind \in PieceKinds /\ e.text \in Str
  <2>1. STRING \subseteq Str /\ PieceKinds \subseteq EventKinds
    BY DEF Str, PieceKinds, EventKinds
  <2>2. ASSUME NEW S, S \subseteq Str, NEW e \in [kind: PieceKinds, text: S]
        PROVE  e \in EventType /\ e.kind \in PieceKinds /\ e.text \in Str
    BY <2>1, <2>2 DEF EventType
  <2> QED
    BY <1>2, <2>1, <2>2
<1>4. pieces \in Seq(EventType)
  BY <1>3, SeqMonotonic
<1>5. /\ Texts(pieces) \in Seq(STRING)
      /\ Spoken(pieces) \in Seq(Seq(Str)) /\ Len(Spoken(pieces)) = n
      /\ \A i \in 1 .. n :
            Spoken(pieces)[i] = IF pieces[i].kind = "Comment" THEN <<>> ELSE <<pieces[i].text>>
      /\ Texts(pieces) = FlattenSeq(Spoken(pieces))
  <2>1. Texts(pieces) \in Seq(STRING)
    BY <1>2, TextsType
  <2>2. EventType = [kind: EventKinds, text: Str]
    BY DEF EventType
  <2>3. pieces \in Seq([kind: EventKinds, text: Str])
    BY <1>4, <2>2
  <2> QED
    BY <2>1, <2>3, TextsType
<1>6. PICK f : IsFlat(f, Spoken(pieces), n, Str)
  <2>1. n \in 0 .. Len(Spoken(pieces))
    BY <1>1, <1>5
  <2> QED
    BY <1>5, <2>1, FlatExists
<1>7. Texts(pieces) = f[n]
  BY <1>5, <1>6, FlattenIs
<1>8. PICK g \in [0 .. n -> ParserType] :
         g[0] = p /\ (\A i \in 1 .. n : g[i] = Taken(g[i - 1], pieces[i])) /\ Run(p, pieces) = g[n]
  BY <1>4, RunIs
<1> DEFINE P(i) == /\ SameButText(p, g[i])
                   /\ g[i].code = "reading" <=> \A j \in 1 .. i : PieceOK(pieces[j])
                   /\ g[i].code = "reading" => g[i].content = p.content \o f[i]
           T == {i \in 0 .. n : P(i)}
<1>9. 0 \in T
  <2>1. f[0] = <<>> /\ p.content \in Seq(Str)
    BY <1>6 DEF IsFlat, ParserType
  <2>2. p.content \o f[0] = p.content
    BY <2>1, ConcatEmptySeq
  <2>3. SameButText(p, g[0])
    BY <1>8 DEF SameButText
  <2>4. 0 \in 0 .. n /\ \A j : j \notin 1 .. 0
    BY <1>1
  <2> QED
    BY <1>8, <2>2, <2>3, <2>4
<1>10. ASSUME NEW i \in 1 .. n, i - 1 \in T PROVE i \in T
  <2>1. i \in 0 .. n /\ i - 1 \in 0 .. n /\ P(i - 1)
    BY <1>1, <1>10
  <2> DEFINE q == g[i - 1]
             e == pieces[i]
  <2>2. q \in ParserType /\ g[i] = Taken(q, e) /\ e \in EventType /\ e.kind \in PieceKinds /\ e.text \in Str
    BY <1>1, <1>3, <1>8, <2>1
  <2>3. /\ f[i - 1] \in Seq(Str)
        /\ f[i] = f[i - 1] \o (IF e.kind = "Comment" THEN <<>> ELSE <<e.text>>)
    BY <1>5, <1>6, <2>1 DEF IsFlat
  <2>4. (\A j \in 1 .. i : PieceOK(pieces[j])) <=> (\A j \in 1 .. i - 1 : PieceOK(pieces[j])) /\ PieceOK(e)
    <3>1. \A j : j \in 1 .. i <=> j \in 1 .. i - 1 \/ j = i
      BY <1>1
    <3> QED
      BY <3>1
  <2>5. /\ SameButText(p, q)
        /\ q.code = "reading" <=> \A j \in 1 .. i - 1 : PieceOK(pieces[j])
        /\ q.code = "reading" => q.content = p.content \o f[i - 1]
    BY <2>1
  <2> HIDE DEF q, e, P
  <2>6. CASE q.code # "reading"
    <3>1. g[i] = q
      BY <2>2, <2>6 DEF Taken
    <3>2. P(i)
      BY <2>4, <2>5, <2>6, <3>1 DEF P
    <3> QED
      BY <2>1, <3>2
  <2>7. CASE q.code = "reading" /\ ~PieceOK(e)
    <3>1. g[i] = Stopped(q)
      BY <2>2, <2>7 DEF Taken, AfterEvent, PieceOK
    <3>2. SameButText(q, g[i]) /\ g[i].code # "reading"
      BY <2>2, <3>1 DEF SameButText, Stopped, ParserType
    <3>3. SameButText(p, g[i])
      BY <2>5, <3>2 DEF SameButText
    <3>4. P(i)
      BY <2>4, <2>7, <3>2, <3>3 DEF P
    <3> QED
      BY <2>1, <3>4
  <2>8. CASE q.code = "reading" /\ PieceOK(e)
    <3>1. p.content \in Seq(Str)
      BY DEF ParserType
    <3>2. /\ SameButText(q, g[i]) /\ g[i].code = "reading"
          /\ g[i].content = IF e.kind = "Comment" THEN q.content ELSE Append(q.content, e.text)
      <4>1. e.kind = "Comment" => g[i] = q
        BY <2>2, <2>8 DEF Taken, AfterEvent
      <4>2. e.kind # "Comment" => g[i] = [q EXCEPT !.content = Append(@, e.text)]
        BY <2>2, <2>8 DEF Taken, AfterEvent, PieceOK, PieceKinds
      <4>3. CASE e.kind = "Comment"
        BY <2>8, <4>1, <4>3 DEF SameButText
      <4>4. CASE e.kind # "Comment"
        BY <2>2, <2>8, <4>2, <4>4 DEF SameButText, ParserType
      <4> QED
        BY <4>3, <4>4
    <3>3. SameButText(p, g[i])
      BY <2>5, <3>2 DEF SameButText
    <3>4. g[i].content = p.content \o f[i]
      <4> DEFINE c == p.content
                 x == f[i - 1]
                 t == e.text
      <4>1. c \in Seq(Str) /\ x \in Seq(Str) /\ t \in Str /\ q.content = c \o x
        BY <2>2, <2>3, <2>5, <2>8, <3>1
      <4> HIDE DEF c, x, t
      <4>2. c \o x \in Seq(Str) /\ <<t>> \in Seq(Str)
        BY <4>1, ConcatProperties
      <4>3. Append(c \o x, t) = (c \o x) \o <<t>>
        BY <4>1, <4>2, AppendIsConcat
      <4>4. (c \o x) \o <<t>> = c \o (x \o <<t>>)
        BY <4>1, <4>2, ConcatAssociative, SMTT(30)
      <4>5. x \o <<>> = x
        BY <4>1, ConcatEmptySeq
      <4>6. e.kind = "Comment" => g[i].content = c \o x /\ f[i] = x
        BY <2>3, <3>2, <4>1, <4>5 DEF x
      <4>7. e.kind # "Comment" => g[i].content = Append(c \o x, t) /\ f[i] = x \o <<t>>
        BY <2>3, <3>2, <4>1 DEF x, t
      <4>8. g[i].content = c \o f[i]
        BY <4>3, <4>4, <4>6, <4>7
      <4> QED
        BY <4>8 DEF c
    <3>5. P(i)
      BY <2>4, <2>5, <2>8, <3>2, <3>3, <3>4 DEF P
    <3> QED
      BY <2>1, <3>5
  <2> QED
    BY <2>6, <2>7, <2>8
<1> HIDE DEF T
<1>11. n \in T
  <2>1. \A i \in 0 .. n : i \in T
    BY <1>1, <1>9, <1>10, CountUp
  <2> QED
    BY <1>1, <2>1
<1>12. P(n)
  BY <1>11 DEF T
<1>13. g[n] \in ParserType
  BY <1>1
<1> QED
  BY <1>1, <1>4, <1>5, <1>7, <1>8, <1>12, <1>13

-----------------------------------------------------------------------------
(* Of several elements with one name, the last has the word *)

\* v is the value of the last of the first i elements that is named n, or v0 if there is none.
LastOf(v, v0, es, n, val, i) ==
    /\ (\A j \in 1 .. i : es[j].name # n) => v = v0
    /\ \A j \in 1 .. i :
          es[j].name = n /\ (\A k \in 1 .. i : es[k].name = n => k <= j) => v = val[j]

LEMMA LastOfNone ==
    ASSUME NEW v0, NEW es, NEW n, NEW val
    PROVE  LastOf(v0, v0, es, n, val, 0)
BY DEF LastOf

LEMMA LastOfNext ==
    ASSUME NEW i \in Nat, i > 0, NEW v, NEW v0, NEW es, NEW n, NEW val, NEW w,
           LastOf(v, v0, es, n, val, i - 1),
           es[i].name = n => w = val[i], es[i].name # n => w = v
    PROVE  LastOf(w, v0, es, n, val, i)
<1>1. \A j : j \in 1 .. i <=> j \in 1 .. i - 1 \/ j = i
  OBVIOUS
<1>2. \A j \in 1 .. i - 1 : ~(i <= j)
  OBVIOUS
<1>3. i <= i
  OBVIOUS
<1> DEFINE named(j) == es[j].name = n
<1>4. CASE named(i)
  <2>1. ~ \A j \in 1 .. i : ~named(j)
    BY <1>1, <1>4
  <2>2. \A j \in 1 .. i : named(j) /\ (\A k \in 1 .. i : named(k) => k <= j) => j = i
    BY <1>1, <1>2, <1>4
  <2>3. w = val[i]
    BY <1>4
  <2> QED
    BY <2>1, <2>2, <2>3 DEF LastOf
<1>5. CASE ~named(i)
  <2>1. w = v
    BY <1>5
  <2>2. (\A j \in 1 .. i : ~named(j)) <=> (\A j \in 1 .. i - 1 : ~named(j))
    BY <1>1, <1>5
  <2>3. \A j \in 1 .. i : named(j) => j \in 1 .. i - 1
    BY <1>1, <1>5
  <2>4. \A j \in 1 .. i - 1 :
           (\A k \in 1 .. i : named(k) => k <= j) => (\A k \in 1 .. i - 1 : named(k) => k <= j)
    BY <1>1
  <2>5. /\ (\A j \in 1 .. i - 1 : ~named(j)) => v = v0
        /\ \A j \in 1 .. i - 1 :
              named(j) /\ (\A k \in 1 .. i - 1 : named(k) => k <= j) => v = val[j]
    BY DEF LastOf
  <2> HIDE DEF named
  <2>6. /\ (\A j \in 1 .. i : ~named(j)) => w = v0
        /\ \A j \in 1 .. i : named(j) /\ (\A k \in 1 .. i : named(k) => k <= j) => w = val[j]
    BY <2>1, <2>2, <2>3, <2>4, <2>5
  <2> QED
    BY <2>6 DEF LastOf, named
<1> QED
  BY <1>4, <1>5

LEMMA LastExists ==
    ASSUME NEW m \in Nat, NEW es, NEW n, NEW j0 \in 1 .. m, es[j0].name = n
    PROVE  \E j \in 1 .. m : es[j].name = n /\ \A k \in 1 .. m : es[k].name = n => k <= j
<1> DEFINE named(j) == es[j].name = n
           B == {m - j : j \in {k \in 1 .. m : named(k)}}
<1>1. B \subseteq Nat
  OBVIOUS
<1>2. m - j0 \in B
  OBVIOUS
<1>3. PICK b \in B : \A c \in B : b <= c
  <2> HIDE DEF B
  <2> QED
    BY <1>1, <1>2, LeastNatural
<1>4. PICK j \in 1 .. m : named(j) /\ b = m - j
  BY <1>3
<1>5. ASSUME NEW k \in 1 .. m, named(k) PROVE k <= j
  <2>1. m - k \in B
    BY <1>5
  <2>2. m - j <= m - k
    BY <1>3, <1>4, <2>1
  <2> QED
    BY <2>2
<1> QED
  BY <1>4, <1>5

\* At the end, that is the text the tree gives.
LEMMA LastOfAll ==
    ASSUME NEW es, NEW m \in Nat, DOMAIN es = 1 .. m, NEW n, NEW v,
           LastOf(v, NoKey, es, n, [j \in 1 .. m |-> Texts(es[j].text)], m)
    PROVE  v = LastText(es, n)
<1> DEFINE val == [j \in 1 .. m |-> Texts(es[j].text)]
<1>1. CASE \A j \in 1 .. m : es[j].name # n
  BY <1>1 DEF LastText, LastOf
<1>2. CASE \E j \in 1 .. m : es[j].name = n
  <2> DEFINE c == CHOOSE i \in DOMAIN es : IsLastNamed(es, n, i)
  <2>1. \E i \in DOMAIN es : IsLastNamed(es, n, i)
    BY <1>2, LastExists DEF IsLastNamed
  <2>2. c \in DOMAIN es /\ IsLastNamed(es, n, c)
    BY <2>1
  <2>3. LastText(es, n) = Texts(es[c].text)
    BY <1>2 DEF LastText
  <2> HIDE DEF c
  <2>4. v = val[c]
    BY <2>2 DEF LastOf, IsLastNamed
  <2> QED
    BY <2>2, <2>3, <2>4
<1> QED
  BY <1>1, <1>2

-----------------------------------------------------------------------------
(* The third level: what an element of an element says *)

LEMMA PathsApart ==
    ASSUME NEW a \in Str, NEW b \in Str, NEW c \in Str, NEW x \in Str, NEW y \in Str, NEW z \in Str
    PROVE  /\ <<a>> # <<>> /\ <<a, b>> # <<>> /\ <<a, b, c>> # <<>>
           /\ <<a>> # <<x, y>> /\ <<a>> # <<x, y, z>> /\ <<a, b>> # <<x, y, z>> /\ <<a, b, c>> # <<x, y>>
           /\ <<a, b>> = <<x, y>> <=> a = x /\ b = y
           /\ <<a, b, c>> = <<x, y, z>> <=> a = x /\ b = y /\ c = z
<1>1. /\ Len(<<>>) = 0 /\ Len(<<a>>) = 1 /\ Len(<<a, b>>) = 2 /\ Len(<<a, b, c>>) = 3
      /\ Len(<<x, y>>) = 2 /\ Len(<<x, y, z>>) = 3
  OBVIOUS
<1>2. <<a, b>> = <<x, y>> <=> a = x /\ b = y
  OBVIOUS
<1>3. <<a, b, c>> = <<x, y, z>> <=> a = x /\ b = y /\ c = z
  OBVIOUS
<1>4. 0 # 1 /\ 0 # 2 /\ 0 # 3 /\ 1 # 2 /\ 1 # 3 /\ 2 # 3
  OBVIOUS
<1>5. <<a>> # <<>> /\ <<a, b>> # <<>> /\ <<a, b, c>> # <<>>
  BY <1>1, <1>4
<1>6. <<a>> # <<x, y>> /\ <<a>> # <<x, y, z>>
  BY <1>1, <1>4
<1>7. <<a, b>> # <<x, y, z>> /\ <<a, b, c>> # <<x, y>>
  BY <1>1, <1>4
<1> QED
  BY <1>2, <1>3, <1>5, <1>6, <1>7

LeafOK(leaf) == \A j \in DOMAIN leaf.text : PieceOK(leaf.text[j])

\* What an element inside an element leaves alone.
SameOutside(p, q) ==
    /\ q.path = p.path /\ q.saw_root = p.saw_root /\ q.quiet = p.quiet /\ q.objects = p.objects

LEMMA LeafRead ==
    ASSUME NEW d \in DocumentType, NEW p \in ParserType, p.code = "reading",
           NEW n \in Str, p.path = <<"Delete", n>>, NEW leaf \in Leaf
    PROVE  /\ LeafEvents(d, leaf) \in Seq(EventType)
           /\ Run(p, LeafEvents(d, leaf)) \in ParserType
           /\ Run(p, LeafEvents(d, leaf)).objects = p.objects
           /\ Run(p, LeafEvents(d, leaf)).code = "reading" <=> LeafOK(leaf)
           /\ LeafOK(leaf) =>
                 /\ SameOutside(p, Run(p, LeafEvents(d, leaf)))
                 /\ Run(p, LeafEvents(d, leaf)).content = <<>>
                 /\ n = "Object" =>
                       /\ Run(p, LeafEvents(d, leaf)).key =
                             IF leaf.name = "Key" THEN Texts(leaf.text) ELSE p.key
                       /\ Run(p, LeafEvents(d, leaf)).version_id =
                             IF leaf.name = "VersionId" THEN Texts(leaf.text) ELSE p.version_id
<1> DEFINE m == leaf.name
           o == Opened(p, m)
           x == Run(o, leaf.text)
           r == Run(p, LeafEvents(d, leaf))
<1>1. m \in Str /\ leaf.text \in Seq(Piece)
  BY DEF Leaf, Str
<1>2. "Delete" \in Str /\ "Object" \in Str /\ "Key" \in Str /\ "VersionId" \in Str /\ "Quiet" \in Str
  BY Literals
<1> HIDE DEF m
<1>3. /\ o \in ParserType /\ o.code = "reading" /\ o.path = <<"Delete", n, m>> /\ o.content = <<>>
      /\ o.key = p.key /\ o.version_id = p.version_id /\ o.saw_root = p.saw_root
      /\ o.objects = p.objects /\ o.quiet = p.quiet
  <2>1. Append(<<"Delete", n>>, m) = <<"Delete", n, m>> /\ Len(<<"Delete", n>>) = 2
    BY <1>1, <1>2, ThreeNames
  <2>2. <<"Delete", n>> # <<>>
    BY <1>1, <1>2, PathsApart
  <2>3. p.path # <<>> /\ Len(p.path) # 1
    BY <2>1, <2>2
  <2>4. o = [p EXCEPT !.path = Append(@, m), !.content = <<>>, !.saw_root = @ \/ p.path = <<>>,
                      !.key = @, !.version_id = @]
    BY <2>3 DEF Opened
  <2>5. p.saw_root \in BOOLEAN
    BY DEF ParserType
  <2>6. o.saw_root = p.saw_root
    BY <2>3, <2>4, <2>5 DEF ParserType
  <2> HIDE DEF o
  <2>7. /\ o.code = "reading" /\ o.path = Append(p.path, m) /\ o.content = <<>>
        /\ o.key = p.key /\ o.version_id = p.version_id /\ o.objects = p.objects /\ o.quiet = p.quiet
    BY <2>4 DEF ParserType
  <2>8. o \in ParserType
    BY <1>1, OpenedType DEF o
  <2> QED
    BY <2>1, <2>6, <2>7, <2>8
<1> HIDE DEF o
<1>4. /\ leaf.text \in Seq(EventType) /\ x \in ParserType /\ SameButText(o, x)
      /\ x.code = "reading" <=> LeafOK(leaf)
      /\ x.code = "reading" => x.content = Texts(leaf.text)
  <2>1. /\ leaf.text \in Seq(EventType) /\ x \in ParserType /\ SameButText(o, x)
        /\ x.code = "reading" <=> \A i \in DOMAIN leaf.text : PieceOK(leaf.text[i])
        /\ x.code = "reading" => x.content = o.content \o Texts(leaf.text)
        /\ Texts(leaf.text) \in Seq(STRING)
    BY <1>1, <1>3, PiecesRead
  <2>2. <<>> \o Texts(leaf.text) = Texts(leaf.text)
    BY <2>1, ConcatEmptySeq
  <2> QED
    BY <1>3, <2>1, <2>2 DEF LeafOK
<1>5. /\ LeafEvents(d, leaf) \in Seq(EventType)
      /\ r = IF x.code = "reading" THEN Closed(x) ELSE x
  <2>1. LeafEvents(d, leaf) = Element(d, m, leaf.text)
    BY DEF LeafEvents, m
  <2> QED
    BY <1>1, <1>3, <1>4, <2>1, ElementIs DEF o
<1> HIDE DEF x, r
<1>6. x.objects = p.objects /\ x.path = <<"Delete", n, m>>
  BY <1>3, <1>4 DEF SameButText
<1>7. CASE ~LeafOK(leaf)
  BY <1>4, <1>5, <1>6, <1>7 DEF r
<1>8. CASE LeafOK(leaf)
  <2>1. x.code = "reading" /\ r = Closed(x) /\ x.content = Texts(leaf.text)
    BY <1>4, <1>5, <1>8
  <2>2. /\ x.path = <<"Delete", "Object", "Key">> <=> n = "Object" /\ m = "Key"
        /\ x.path = <<"Delete", "Object", "VersionId">> <=> n = "Object" /\ m = "VersionId"
        /\ x.path # <<"Delete", "Object">> /\ x.path # <<"Delete", "Quiet">>
        /\ Front(x.path) = p.path
    <3>1. /\ <<"Delete", n, m>> = <<"Delete", "Object", "Key">> <=> n = "Object" /\ m = "Key"
          /\ <<"Delete", n, m>> # <<"Delete", "Object">>
      BY <1>1, <1>2, PathsApart
    <3>2. /\ <<"Delete", n, m>> = <<"Delete", "Object", "VersionId">> <=> n = "Object" /\ m = "VersionId"
          /\ <<"Delete", n, m>> # <<"Delete", "Quiet">>
      BY <1>1, <1>2, PathsApart
    <3>3. Front(<<"Delete", n, m>>) = <<"Delete", n>>
      BY <1>1, <1>2, ThreeNames
    <3> QED
      BY <1>6, <3>1, <3>2, <3>3
  <2> DEFINE q == [x EXCEPT !.path = Front(@), !.content = <<>>]
  <2>3. /\ q \in ParserType /\ q.path = p.path /\ q.content = <<>> /\ q.code = "reading"
        /\ q.key = x.key /\ q.version_id = x.version_id /\ q.saw_root = x.saw_root
        /\ q.objects = x.objects /\ q.quiet = x.quiet
    <3>1. /\ p.path \in Seq(Str)
          /\ <<>> \in Seq(Str)
      <4>1. <<"Delete", n>> \in Seq(Str)
        BY <1>2, TwoNames
      <4> QED
        BY <4>1
    <3>2. Front(x.path) \in Seq(Str) /\ Front(x.path) = p.path
      BY <2>2, <3>1
    <3> QED
      BY <1>4, <2>1, <3>1, <3>2 DEF ParserType
  <2>4. r = IF n = "Object" /\ m = "Key" THEN [q EXCEPT !.key = x.content]
            ELSE IF n = "Object" /\ m = "VersionId" THEN [q EXCEPT !.version_id = x.content]
            ELSE q
    BY <2>1, <2>2 DEF Closed
  <2> HIDE DEF q
  <2>5. /\ r.path = p.path /\ r.content = <<>> /\ r.code = "reading" /\ r.saw_root = x.saw_root
        /\ r.objects = x.objects /\ r.quiet = x.quiet
        /\ n = "Object" => /\ r.key = IF m = "Key" THEN x.content ELSE x.key
                           /\ r.version_id = IF m = "VersionId" THEN x.content ELSE x.version_id
    BY <2>3, <2>4 DEF ParserType
  <2>6. /\ x.saw_root = p.saw_root /\ x.quiet = p.quiet /\ x.key = p.key
        /\ x.version_id = p.version_id /\ x.objects = p.objects
    BY <1>3, <1>4 DEF SameButText
  <2>7. r \in ParserType
    BY <1>4, <2>1, ClosedType
  <2>8. SameOutside(p, r)
    BY <2>5, <2>6 DEF SameOutside
  <2> QED
    BY <1>5, <1>8, <2>1, <2>5, <2>6, <2>7, <2>8 DEF r, m
<1> QED
  BY <1>7, <1>8

LeavesEvents(d, leaves) == [i \in DOMAIN leaves |-> LeafEvents(d, leaves[i])]

LEMMA LeavesRead ==
    ASSUME NEW d \in DocumentType, NEW p \in ParserType, p.code = "reading",
           NEW n \in Str, p.path = <<"Delete", n>>, NEW leaves \in Seq(Leaf),
           NEW r, r = Run(p, FlattenSeq(LeavesEvents(d, leaves)))
    PROVE  /\ FlattenSeq(LeavesEvents(d, leaves)) \in Seq(EventType)
           /\ r \in ParserType
           /\ r.objects = p.objects
           /\ r.code = "reading" <=> \A i \in DOMAIN leaves : LeafOK(leaves[i])
           /\ r.code = "reading" =>
                 /\ SameOutside(p, r)
                 /\ r.content = IF leaves = <<>> THEN p.content ELSE <<>>
                 /\ n = "Object" /\ p.key = NoKey /\ p.version_id = NoKey =>
                       r.key = LastText(leaves, "Key") /\ r.version_id = LastText(leaves, "VersionId")
<1> DEFINE m == Len(leaves)
           ss == LeavesEvents(d, leaves)
           val == [j \in 1 .. m |-> Texts(leaves[j].text)]
<1>1. m \in Nat /\ DOMAIN leaves = 1 .. m /\ \A i \in 1 .. m : leaves[i] \in Leaf
  BY LenProperties, ElementOfSeq
<1> HIDE DEF m
<1>2. \A i \in 1 .. m : LeafEvents(d, leaves[i]) \in Seq(EventType)
  BY <1>1, LeafRead
<1>3. /\ ss \in Seq(Seq(EventType)) /\ Len(ss) = m
      /\ \A i \in 1 .. m : ss[i] = LeafEvents(d, leaves[i])
  <2>1. ss = [i \in 1 .. m |-> LeafEvents(d, leaves[i])]
    BY <1>1 DEF LeavesEvents
  <2> HIDE DEF ss
  <2> QED
    BY <1>1, <1>2, <2>1
<1> HIDE DEF ss
<1>4. PICK g \in [0 .. m -> ParserType] :
         g[0] = p /\ (\A i \in 1 .. m : g[i] = Run(g[i - 1], ss[i])) /\ Run(p, FlattenSeq(ss)) = g[m]
  BY <1>3, RunEach
<1> DEFINE P(i) ==
             /\ g[i].objects = p.objects
             /\ g[i].code = "reading" <=> \A j \in 1 .. i : LeafOK(leaves[j])
             /\ g[i].code = "reading" =>
                   /\ SameOutside(p, g[i])
                   /\ g[i].content = IF i = 0 THEN p.content ELSE <<>>
                   /\ n = "Object" =>
                         /\ LastOf(g[i].key, p.key, leaves, "Key", val, i)
                         /\ LastOf(g[i].version_id, p.version_id, leaves, "VersionId", val, i)
           T == {i \in 0 .. m : P(i)}
<1>5. 0 \in T
  <2>1. SameOutside(p, p)
    BY DEF SameOutside
  <2>2. 0 \in 0 .. m /\ \A j : j \notin 1 .. 0
    BY <1>1
  <2>3. /\ LastOf(p.key, p.key, leaves, "Key", val, 0)
        /\ LastOf(p.version_id, p.version_id, leaves, "VersionId", val, 0)
    BY LastOfNone
  <2> HIDE DEF val
  <2>4. P(0)
    BY <1>4, <2>1, <2>2, <2>3
  <2> QED
    BY <2>2, <2>4
<1>6. ASSUME NEW i \in 1 .. m, i - 1 \in T PROVE i \in T
  <2> DEFINE q == g[i - 1]
             leaf == leaves[i]
             u == g[i]
  <2>1. i \in 0 .. m /\ i - 1 \in 0 .. m /\ P(i - 1)
    <3>1. i \in 0 .. m /\ i - 1 \in 0 .. m
      BY <1>1
    <3> HIDE DEF P
    <3> QED
      BY <1>6, <3>1
  <2>2. i \in Nat /\ i > 0
    BY <1>1
  <2>3. leaf \in Leaf /\ q \in ParserType /\ u = Run(q, LeafEvents(d, leaf))
    BY <1>1, <1>3, <1>4, <2>1
  <2>4. /\ q.objects = p.objects
        /\ q.code = "reading" <=> \A j \in 1 .. i - 1 : LeafOK(leaves[j])
        /\ q.code = "reading" =>
              /\ SameOutside(p, q)
              /\ n = "Object" =>
                    /\ LastOf(q.key, p.key, leaves, "Key", val, i - 1)
                    /\ LastOf(q.version_id, p.version_id, leaves, "VersionId", val, i - 1)
    BY <2>1
  <2>5. (\A j \in 1 .. i : LeafOK(leaves[j])) <=> (\A j \in 1 .. i - 1 : LeafOK(leaves[j])) /\ LeafOK(leaf)
    <3>1. \A j : j \in 1 .. i <=> j \in 1 .. i - 1 \/ j = i
      BY <2>2
    <3> QED
      BY <3>1
  <2>6. val[i] = Texts(leaf.text)
    OBVIOUS
  <2> HIDE DEF val, P, q, u
  <2>7. CASE q.code # "reading"
    <3>1. u = q
      <4>1. LeafEvents(d, leaf) \in Seq(EventType)
        BY <1>2
      <4> QED
        BY <2>3, <2>7, <4>1, RunStopped
    <3>2. u.objects = p.objects /\ u.code # "reading" /\ ~(\A j \in 1 .. i : LeafOK(leaves[j]))
      BY <2>4, <2>5, <2>7, <3>1
    <3>3. P(i)
      BY <3>2 DEF P, u
    <3> QED
      BY <2>1, <3>3
  <2>8. CASE q.code = "reading"
    <3>1. SameOutside(p, q)
      BY <2>4, <2>8
    <3>2. q.path = <<"Delete", n>>
      BY <3>1 DEF SameOutside
    <3>3. /\ u.objects = q.objects
          /\ u.code = "reading" <=> LeafOK(leaf)
          /\ LeafOK(leaf) =>
                /\ SameOutside(q, u)
                /\ u.content = <<>>
                /\ n = "Object" =>
                      /\ u.key = IF leaf.name = "Key" THEN Texts(leaf.text) ELSE q.key
                      /\ u.version_id = IF leaf.name = "VersionId" THEN Texts(leaf.text) ELSE q.version_id
      BY <2>3, <2>8, <3>2, LeafRead
    <3>4. CASE ~LeafOK(leaf)
      <4>1. u.objects = p.objects /\ u.code # "reading" /\ ~(\A j \in 1 .. i : LeafOK(leaves[j]))
        BY <2>4, <2>5, <3>3, <3>4
      <4>2. P(i)
        BY <4>1 DEF P, u
      <4> QED
        BY <2>1, <4>2
    <3>5. CASE LeafOK(leaf)
      <4>1. SameOutside(q, u) /\ u.content = <<>> /\ u.code = "reading"
        BY <3>3, <3>5
      <4>2. SameOutside(p, u)
        BY <3>1, <4>1 DEF SameOutside
      <4>3. ASSUME n = "Object"
            PROVE  /\ LastOf(u.key, p.key, leaves, "Key", val, i)
                   /\ LastOf(u.version_id, p.version_id, leaves, "VersionId", val, i)
        <5>1. /\ leaves[i].name = "Key" => u.key = val[i]
              /\ leaves[i].name # "Key" => u.key = q.key
              /\ leaves[i].name = "VersionId" => u.version_id = val[i]
              /\ leaves[i].name # "VersionId" => u.version_id = q.version_id
          BY <2>6, <3>3, <3>5, <4>3
        <5>2. LastOf(u.key, p.key, leaves, "Key", val, i)
          BY <2>2, <2>4, <2>8, <4>3, <5>1, LastOfNext
        <5>3. LastOf(u.version_id, p.version_id, leaves, "VersionId", val, i)
          BY <2>2, <2>4, <2>8, <4>3, <5>1, LastOfNext
        <5> QED
          BY <5>2, <5>3
      <4>4. u.objects = p.objects /\ \A j \in 1 .. i : LeafOK(leaves[j])
        BY <2>4, <2>5, <2>8, <3>3, <3>5
      <4>5. i # 0
        BY <2>2
      <4>6. P(i)
        BY <4>1, <4>2, <4>3, <4>4, <4>5 DEF P, u
      <4> QED
        BY <2>1, <4>6
    <3> QED
      BY <3>4, <3>5
  <2> QED
    BY <2>7, <2>8
<1> HIDE DEF T
<1>7. m \in T
  <2>1. \A i \in 0 .. m : i \in T
    BY <1>1, <1>5, <1>6, CountUp
  <2> QED
    BY <1>1, <2>1
<1>8. P(m)
  BY <1>7 DEF T
<1>9. g[m] \in ParserType /\ r = g[m]
  BY <1>1, <1>4 DEF ss
<1>10. FlattenSeq(ss) \in Seq(EventType)
  BY <1>3, FlattenType
<1>11. m = 0 <=> leaves = <<>>
  BY EmptySeq DEF m
<1>12. n = "Object" /\ p.key = NoKey /\ p.version_id = NoKey /\ r.code = "reading" =>
          r.key = LastText(leaves, "Key") /\ r.version_id = LastText(leaves, "VersionId")
  <2> SUFFICES ASSUME n = "Object" /\ p.key = NoKey /\ p.version_id = NoKey /\ r.code = "reading"
               PROVE  r.key = LastText(leaves, "Key") /\ r.version_id = LastText(leaves, "VersionId")
    OBVIOUS
  <2>1. /\ LastOf(r.key, NoKey, leaves, "Key", val, m)
        /\ LastOf(r.version_id, NoKey, leaves, "VersionId", val, m)
    BY <1>8, <1>9
  <2> QED
    BY <1>1, <2>1, LastOfAll
<1> HIDE DEF val
<1> QED
  BY <1>1, <1>8, <1>9, <1>10, <1>11, <1>12 DEF ss

-----------------------------------------------------------------------------
(* The second level: the objects and the Quiet element *)

KidPiecesOK(kid) ==
    /\ \A j \in DOMAIN kid.text : PieceOK(kid.text[j])
    /\ \A k \in DOMAIN kid.leaves : LeafOK(kid.leaves[k])

Wanted(kid) ==
    [key |-> LastText(kid.leaves, "Key"), version_id |-> LastText(kid.leaves, "VersionId")]

KidOK(kid) == KidPiecesOK(kid) /\ (kid.name = "Object" => Wanted(kid).key # NoKey)

QuietSaid(kid) == kid.leaves = <<>> /\ IsTrue(Texts(kid.text))

LEMMA KidRead ==
    ASSUME NEW d \in DocumentType, NEW p \in ParserType, p.code = "reading",
           p.path = <<"Delete">>, NEW kid \in Kid, NEW r, r = Run(p, KidEvents(d, kid))
    PROVE  /\ KidEvents(d, kid) \in Seq(EventType)
           /\ r \in ParserType
           /\ r.code = "reading" <=> KidOK(kid)
           /\ r.objects = IF KidOK(kid) /\ kid.name = "Object"
                          THEN Append(p.objects, Wanted(kid)) ELSE p.objects
           /\ KidOK(kid) => /\ r.path = p.path /\ r.saw_root = p.saw_root
                            /\ r.quiet = IF kid.name = "Quiet" THEN QuietSaid(kid) ELSE p.quiet
<1> DEFINE n == kid.name
           o == Opened(p, n)
           x == Run(o, kid.text)
           es == FlattenSeq(LeavesEvents(d, kid.leaves))
           y == Run(x, es)
<1>1. n \in Str /\ kid.text \in Seq(Piece) /\ kid.leaves \in Seq(Leaf)
  BY DEF Kid, Str
<1>2. "Delete" \in Str /\ "Object" \in Str /\ "Key" \in Str /\ "VersionId" \in Str /\ "Quiet" \in Str
  BY Literals
<1> HIDE DEF n
<1>3. /\ o \in ParserType /\ o.code = "reading" /\ o.path = <<"Delete", n>> /\ o.content = <<>>
      /\ n = "Object" => o.key = NoKey /\ o.version_id = NoKey
      /\ o.saw_root = p.saw_root /\ o.objects = p.objects /\ o.quiet = p.quiet
  <2>1. Append(<<"Delete">>, n) = <<"Delete", n>> /\ Len(<<"Delete">>) = 1
    BY <1>1, <1>2, TwoNames
  <2>2. <<"Delete">> # <<>>
    BY <1>1, <1>2, PathsApart
  <2>3. p.path # <<>> /\ Len(p.path) = 1
    BY <2>1, <2>2
  <2>4. o = [p EXCEPT !.path = Append(@, n), !.content = <<>>, !.saw_root = @ \/ p.path = <<>>,
                      !.key = IF n = "Object" THEN NoKey ELSE @,
                      !.version_id = IF n = "Object" THEN NoKey ELSE @]
    BY <2>3 DEF Opened
  <2>5. p.saw_root \in BOOLEAN
    BY DEF ParserType
  <2>6. o.saw_root = p.saw_root
    BY <2>3, <2>4, <2>5 DEF ParserType
  <2> HIDE DEF o
  <2>7. /\ o.code = "reading" /\ o.path = Append(p.path, n) /\ o.content = <<>>
        /\ n = "Object" => o.key = NoKey /\ o.version_id = NoKey
        /\ o.objects = p.objects /\ o.quiet = p.quiet
    BY <2>4 DEF ParserType
  <2>8. o \in ParserType
    BY <1>1, OpenedType DEF o
  <2> QED
    BY <2>1, <2>6, <2>7, <2>8
<1> HIDE DEF o
<1>4. /\ kid.text \in Seq(EventType) /\ x \in ParserType /\ SameButText(o, x)
      /\ x.code = "reading" <=> \A i \in DOMAIN kid.text : PieceOK(kid.text[i])
      /\ x.code = "reading" => x.content = Texts(kid.text)
  <2>1. /\ kid.text \in Seq(EventType) /\ x \in ParserType /\ SameButText(o, x)
        /\ x.code = "reading" <=> \A i \in DOMAIN kid.text : PieceOK(kid.text[i])
        /\ x.code = "reading" => x.content = o.content \o Texts(kid.text)
        /\ Texts(kid.text) \in Seq(STRING)
    BY <1>1, <1>3, PiecesRead
  <2>2. <<>> \o Texts(kid.text) = Texts(kid.text)
    BY <2>1, ConcatEmptySeq
  <2> QED
    BY <1>3, <2>1, <2>2
<1> HIDE DEF x
<1>5. /\ x.path = <<"Delete", n>> /\ x.objects = p.objects /\ x.saw_root = p.saw_root /\ x.quiet = p.quiet
      /\ n = "Object" => x.key = NoKey /\ x.version_id = NoKey
  BY <1>3, <1>4 DEF SameButText
<1>6. /\ es \in Seq(EventType) /\ y \in ParserType /\ y.objects = p.objects
      /\ y.code = "reading" <=> KidPiecesOK(kid)
      /\ y.code = "reading" =>
            /\ SameOutside(x, y)
            /\ y.content = IF kid.leaves = <<>> THEN Texts(kid.text) ELSE <<>>
            /\ n = "Object" => /\ y.key = LastText(kid.leaves, "Key")
                               /\ y.version_id = LastText(kid.leaves, "VersionId")
  <2>1. es \in Seq(EventType)
    <3>1. FlattenSeq(LeavesEvents(d, kid.leaves)) \in Seq(EventType)
      <4>1. PICK w : w = Run(o, FlattenSeq(LeavesEvents(d, kid.leaves)))
        OBVIOUS
      <4> QED
        BY <1>1, <1>3, <4>1, LeavesRead
    <3> QED
      BY <3>1
  <2>2. CASE x.code # "reading"
    <3>1. y = x
      BY <1>4, <2>1, <2>2, RunStopped
    <3> QED
      BY <1>4, <1>5, <2>1, <2>2, <3>1 DEF KidPiecesOK
  <2>3. CASE x.code = "reading"
    <3>1. /\ y \in ParserType
          /\ y.objects = x.objects
          /\ y.code = "reading" <=> \A i \in DOMAIN kid.leaves : LeafOK(kid.leaves[i])
          /\ y.code = "reading" =>
                /\ SameOutside(x, y)
                /\ y.content = IF kid.leaves = <<>> THEN x.content ELSE <<>>
                /\ n = "Object" /\ x.key = NoKey /\ x.version_id = NoKey =>
                      /\ y.key = LastText(kid.leaves, "Key")
                      /\ y.version_id = LastText(kid.leaves, "VersionId")
      BY <1>1, <1>4, <1>5, <2>3, LeavesRead
    <3> HIDE DEF y, es
    <3> QED
      BY <1>4, <1>5, <2>1, <2>3, <3>1 DEF KidPiecesOK
  <2> QED
    BY <2>2, <2>3
<1>7. /\ KidEvents(d, kid) \in Seq(EventType)
      /\ r = IF y.code = "reading" THEN Closed(y) ELSE y
  <2> DEFINE inner == kid.text \o es
  <2>1. KidEvents(d, kid) = Element(d, n, inner)
    BY DEF KidEvents, n, LeavesEvents
  <2>2. inner \in Seq(EventType) /\ Run(o, inner) = y
    <3>1. Run(o, kid.text \o es) = Run(Run(o, kid.text), es)
      BY <1>3, <1>4, <1>6, RunConcat
    <3>2. kid.text \o es \in Seq(EventType)
      BY <1>4, <1>6, ConcatProperties
    <3> QED
      BY <3>1, <3>2 DEF x
  <2> HIDE DEF inner, y, es
  <2>3. /\ Element(d, n, inner) \in Seq(EventType)
        /\ Opened(p, n).code = "reading" =>
              Run(p, Element(d, n, inner)) =
                 IF Run(Opened(p, n), inner).code = "reading"
                 THEN Closed(Run(Opened(p, n), inner)) ELSE Run(Opened(p, n), inner)
    BY <1>1, <2>2, ElementIs
  <2> QED
    BY <1>3, <2>1, <2>2, <2>3 DEF o
<1> HIDE DEF y
<1>8. CASE ~KidPiecesOK(kid)
  BY <1>6, <1>7, <1>8 DEF KidOK
<1>9. CASE KidPiecesOK(kid)
  <2>1. y.code = "reading" /\ r = Closed(y)
    BY <1>6, <1>7, <1>9
  <2>2. /\ y.path = <<"Delete", n>> /\ y.saw_root = p.saw_root /\ y.quiet = p.quiet
        /\ y.objects = p.objects
        /\ y.content = IF kid.leaves = <<>> THEN Texts(kid.text) ELSE <<>>
        /\ n = "Object" => y.key = Wanted(kid).key /\ y.version_id = Wanted(kid).version_id
    <3>1. Wanted(kid).key = LastText(kid.leaves, "Key")
      BY DEF Wanted
    <3>2. Wanted(kid).version_id = LastText(kid.leaves, "VersionId")
      BY DEF Wanted
    <3> QED
      BY <1>5, <1>6, <2>1, <3>1, <3>2 DEF SameOutside
  <2>3. /\ y.path = <<"Delete", "Object">> <=> n = "Object"
        /\ y.path = <<"Delete", "Quiet">> <=> n = "Quiet"
        /\ y.path # <<"Delete", "Object", "Key">> /\ y.path # <<"Delete", "Object", "VersionId">>
        /\ Front(y.path) = <<"Delete">>
    <3>1. /\ <<"Delete", n>> = <<"Delete", "Object">> <=> n = "Object"
          /\ <<"Delete", n>> # <<"Delete", "Object", "Key">>
      BY <1>1, <1>2, PathsApart
    <3>2. /\ <<"Delete", n>> = <<"Delete", "Quiet">> <=> n = "Quiet"
          /\ <<"Delete", n>> # <<"Delete", "Object", "VersionId">>
      BY <1>1, <1>2, PathsApart
    <3>3. Front(<<"Delete", n>>) = <<"Delete">>
      BY <1>1, <1>2, TwoNames
    <3> QED
      BY <2>2, <3>1, <3>2, <3>3
  <2> DEFINE q == [y EXCEPT !.path = Front(@), !.content = <<>>]
             w == [key |-> y.key, version_id |-> y.version_id]
  <2>4. /\ q \in ParserType /\ q.path = p.path /\ q.code = "reading" /\ q.saw_root = p.saw_root
        /\ q.objects = p.objects /\ q.quiet = p.quiet
    <3>1. /\ p.path \in Seq(Str)
          /\ <<>> \in Seq(Str)
      <4>1. <<"Delete">> \in Seq(Str)
        BY <1>2, TwoNames
      <4> QED
        BY <4>1
    <3>2. Front(y.path) \in Seq(Str) /\ Front(y.path) = p.path
      BY <2>3, <3>1
    <3> QED
      BY <1>6, <2>1, <2>2, <3>1, <3>2 DEF ParserType
  <2>5. r \in ParserType
    BY <1>6, <2>1, ClosedType
  <2>6. CASE n = "Object" /\ Wanted(kid).key = NoKey
    <3>1. r = Stopped(y)
      BY <2>1, <2>2, <2>3, <2>6 DEF Closed
    <3>2. r.code # "reading" /\ r.objects = p.objects
      BY <1>6, <3>1 DEF Stopped, ParserType
    <3> QED
      BY <1>7, <2>5, <2>6, <3>2 DEF KidOK, n
  <2>7. CASE n = "Object" /\ Wanted(kid).key # NoKey
    <3>1. r = [q EXCEPT !.objects = Append(@, w), !.key = NoKey, !.version_id = NoKey]
      BY <2>1, <2>2, <2>3, <2>7 DEF Closed
    <3>2. w = Wanted(kid)
      BY <2>2, <2>7 DEF Wanted
    <3> HIDE DEF q, w
    <3>3. /\ r.code = "reading" /\ r.objects = Append(p.objects, w) /\ r.path = p.path
          /\ r.saw_root = p.saw_root /\ r.quiet = p.quiet
      BY <2>4, <3>1 DEF ParserType
    <3> QED
      BY <1>7, <1>9, <2>5, <2>7, <3>2, <3>3 DEF KidOK, n
  <2>8. CASE n = "Quiet"
    <3>1. r = [q EXCEPT !.quiet = IsTrue(y.content)]
      BY <2>1, <2>3, <2>8 DEF Closed
    <3>2. IsTrue(y.content) = QuietSaid(kid)
      <4>1. ~IsTrue(<<>>)
        BY DEF IsTrue
      <4>2. IsTrue(y.content) \in BOOLEAN /\ QuietSaid(kid) \in BOOLEAN
        BY DEF IsTrue, QuietSaid
      <4> QED
        BY <2>2, <4>1, <4>2 DEF QuietSaid
    <3> HIDE DEF q
    <3>3. /\ r.code = "reading" /\ r.objects = p.objects /\ r.path = p.path
          /\ r.saw_root = p.saw_root /\ r.quiet = IsTrue(y.content)
      BY <2>4, <3>1 DEF ParserType
    <3> QED
      BY <1>7, <1>9, <2>5, <2>8, <3>2, <3>3 DEF KidOK, n
  <2>9. CASE n # "Object" /\ n # "Quiet"
    <3>1. r = q
      BY <2>1, <2>3, <2>9 DEF Closed
    <3> HIDE DEF q
    <3> QED
      BY <1>7, <1>9, <2>4, <2>5, <2>9, <3>1 DEF KidOK, n
  <2> QED
    BY <2>6, <2>7, <2>8, <2>9
<1> QED
  BY <1>8, <1>9

LEMMA WantedType ==
    ASSUME NEW kid \in Kid
    PROVE  Wanted(kid) \in ObjectType
<1>1. ASSUME NEW n PROVE LastText(kid.leaves, n) \in MaybeText
  <2> DEFINE es == kid.leaves
             c == CHOOSE i \in DOMAIN es : IsLastNamed(es, n, i)
  <2>1. kid.leaves \in Seq(Leaf)
    BY DEF Kid
  <2>2. PICK m \in Nat : DOMAIN es = 1 .. m /\ \A i \in 1 .. m : es[i] \in Leaf
    BY <2>1, LenProperties, ElementOfSeq
  <2> HIDE DEF es
  <2>3. CASE \E i \in DOMAIN es : es[i].name = n
    <3>1. \E i \in DOMAIN es : IsLastNamed(es, n, i)
      BY <2>2, <2>3, LastExists DEF IsLastNamed
    <3>2. c \in DOMAIN es
      BY <3>1
    <3>3. LastText(es, n) = Texts(es[c].text)
      BY <2>3 DEF LastText
    <3> HIDE DEF c
    <3>4. es[c].text \in Seq(Piece)
      BY <2>2, <3>2 DEF Leaf
    <3>5. Texts(es[c].text) \in Seq(STRING)
      <4>1. Piece = [kind: PieceKinds, text: STRING]
        BY DEF Piece, PieceKinds
      <4> QED
        BY <3>4, <4>1, TextsType
    <3>6. Seq(STRING) \subseteq Seq(Str)
      <4>1. STRING \subseteq Str
        BY DEF Str
      <4> QED
        BY <4>1, SeqMonotonic
    <3> QED
      BY <3>3, <3>5, <3>6 DEF MaybeText, es
  <2>4. CASE ~ \E i \in DOMAIN es : es[i].name = n
    <3>1. LastText(es, n) = NoKey
      BY <2>4 DEF LastText
    <3> QED
      BY <3>1 DEF MaybeText, es
  <2> QED
    BY <2>3, <2>4
<1>2. Wanted(kid) = [key |-> LastText(kid.leaves, "Key"), version_id |-> LastText(kid.leaves, "VersionId")]
  BY DEF Wanted
<1> QED
  BY <1>1, <1>2 DEF ObjectType

AskedParts(kids) == [i \in DOMAIN kids |-> IF kids[i].name = "Object" THEN <<Wanted(kids[i])>> ELSE <<>>]

LEMMA AskedPartsAre ==
    ASSUME NEW kids \in Seq(Kid)
    PROVE  /\ AskedParts(kids) \in Seq(Seq(ObjectType)) /\ Len(AskedParts(kids)) = Len(kids)
           /\ \A i \in 1 .. Len(kids) :
                 AskedParts(kids)[i] = IF kids[i].name = "Object" THEN <<Wanted(kids[i])>> ELSE <<>>
<1> DEFINE n == Len(kids)
           part_of(i) == IF kids[i].name = "Object" THEN <<Wanted(kids[i])>> ELSE <<>>
<1>1. n \in Nat /\ DOMAIN kids = 1 .. n /\ \A i \in 1 .. n : Wanted(kids[i]) \in ObjectType
  BY LenProperties, ElementOfSeq, WantedType
<1> HIDE DEF n
<1>2. ASSUME NEW i \in 1 .. n PROVE part_of(i) \in Seq(ObjectType)
  <2>1. <<Wanted(kids[i])>> \in Seq(ObjectType) /\ <<>> \in Seq(ObjectType)
    BY <1>1
  <2> QED
    BY <2>1
<1>3. AskedParts(kids) = [i \in 1 .. n |-> part_of(i)]
  BY <1>1 DEF AskedParts
<1> HIDE DEF part_of
<1>4. /\ AskedParts(kids) \in Seq(Seq(ObjectType)) /\ Len(AskedParts(kids)) = n
      /\ \A i \in 1 .. n : AskedParts(kids)[i] = part_of(i)
  BY <1>1, <1>2, <1>3
<1> QED
  BY <1>4 DEF n, part_of

\* Every object the document lists has a key, or some Object element has none.
LEMMA AskedKeys ==
    ASSUME NEW kids \in Seq(Kid), NEW f, IsFlat(f, AskedParts(kids), Len(kids), ObjectType)
    PROVE  (\A x \in 1 .. Len(f[Len(kids)]) : f[Len(kids)][x].key # NoKey)
              <=> \A i \in 1 .. Len(kids) : kids[i].name = "Object" => Wanted(kids[i]).key # NoKey
<1> DEFINE n == Len(kids)
           L(i) == \A x \in 1 .. Len(f[i]) : f[i][x].key # NoKey
           R(i) == \A j \in 1 .. i : kids[j].name = "Object" => Wanted(kids[j]).key # NoKey
           T == {i \in 0 .. n : L(i) <=> R(i)}
<1>1. n \in Nat
  BY LenProperties
<1>2. /\ f[0] = <<>>
      /\ \A i \in 0 .. n : f[i] \in Seq(ObjectType)
      /\ \A i \in 1 .. n :
            f[i] = f[i - 1] \o (IF kids[i].name = "Object" THEN <<Wanted(kids[i])>> ELSE <<>>)
      /\ \A i \in 1 .. n : Wanted(kids[i]) \in ObjectType
  <2>1. \A i \in 1 .. n : Wanted(kids[i]) \in ObjectType
    BY ElementOfSeq, WantedType
  <2> QED
    BY <2>1, AskedPartsAre DEF IsFlat
<1> HIDE DEF n
<1>3. 0 \in T
  <2>1. L(0)
    <3>1. Len(<<>>) = 0 /\ \A x : x \notin 1 .. 0
      OBVIOUS
    <3> QED
      BY <1>2, <3>1
  <2>2. R(0) /\ 0 \in 0 .. n
    BY <1>1
  <2> HIDE DEF L, R
  <2> QED
    BY <2>1, <2>2
<1>4. ASSUME NEW i \in 1 .. n, i - 1 \in T PROVE i \in T
  <2>1. i \in 0 .. n /\ i - 1 \in 0 .. n /\ (L(i - 1) <=> R(i - 1))
    BY <1>1, <1>4
  <2>2. R(i) <=> R(i - 1) /\ (kids[i].name = "Object" => Wanted(kids[i]).key # NoKey)
    <3>1. \A j : j \in 1 .. i <=> j \in 1 .. i - 1 \/ j = i
      BY <1>1
    <3> QED
      BY <3>1
  <2>3. CASE kids[i].name # "Object"
    <3>1. f[i] = f[i - 1] \o <<>> /\ f[i - 1] \in Seq(ObjectType)
      BY <1>2, <2>1, <2>3
    <3>2. f[i] = f[i - 1]
      BY <3>1, ConcatEmptySeq
    <3>3. L(i) <=> L(i - 1)
      BY <3>2
    <3> HIDE DEF L, R
    <3> QED
      BY <2>1, <2>2, <2>3, <3>3
  <2>4. CASE kids[i].name = "Object"
    <3> DEFINE w == Wanted(kids[i])
               s == f[i - 1]
               l == Len(s)
    <3>1. f[i] = s \o <<w>> /\ s \in Seq(ObjectType) /\ w \in ObjectType
      BY <1>2, <2>1, <2>4
    <3> HIDE DEF w, s, l
    <3>2. l \in Nat /\ <<w>> \in Seq(ObjectType) /\ Append(s, w) = s \o <<w>>
      BY <3>1, LenProperties, AppendIsConcat DEF l
    <3>3. /\ Len(f[i]) = l + 1 /\ f[i][l + 1] = w
          /\ \A x \in 1 .. l : f[i][x] = s[x]
      BY <3>1, <3>2, AppendProperties DEF l
    <3>4. \A x : x \in 1 .. l + 1 <=> x \in 1 .. l \/ x = l + 1
      BY <3>2
    <3>5. L(i) <=> (\A x \in 1 .. l : s[x].key # NoKey) /\ w.key # NoKey
      BY <3>3, <3>4
    <3>6. L(i) <=> L(i - 1) /\ w.key # NoKey
      BY <3>5 DEF s, l
    <3> HIDE DEF L, R
    <3> QED
      BY <2>1, <2>2, <2>4, <3>6 DEF w
  <2> QED
    BY <2>3, <2>4
<1> HIDE DEF T
<1>5. n \in T
  <2>1. \A i \in 0 .. n : i \in T
    BY <1>1, <1>3, <1>4, CountUp
  <2> QED
    BY <1>1, <2>1
<1> QED
  BY <1>5 DEF T, n

LEMMA PrefixIs ==
    ASSUME NEW S, NEW s \in Seq(S), NEW t \in Seq(S), Len(s) <= Len(t),
           \A x \in 1 .. Len(s) : t[x] = s[x]
    PROVE  IsPrefix(s, t)
<1>1. Len(s) \in Nat /\ Len(t) \in Nat
  BY LenProperties
<1> DEFINE a == SubSeq(s, 1, Len(s))
           b == SubSeq(t, 1, Len(s))
<1>2. a \in Seq(S) /\ Len(a) = Len(s) /\ \A x \in 1 .. Len(s) : a[x] = s[x]
  BY <1>1
<1>3. b \in Seq(S) /\ Len(b) = Len(s) /\ \A x \in 1 .. Len(s) : b[x] = t[x]
  BY <1>1
<1> HIDE DEF a, b
<1>4. a = b
  BY <1>2, <1>3, SeqEqual
<1> QED
  BY <1>4 DEF IsPrefix, a, b

LEMMA QuietIs ==
    ASSUME NEW root, NEW m \in Nat, DOMAIN root.kids = 1 .. m, NEW v \in BOOLEAN,
           LastOf(v, FALSE, root.kids, "Quiet", [j \in 1 .. m |-> QuietSaid(root.kids[j])], m)
    PROVE  v = AskedQuiet(root)
<1> DEFINE es == root.kids
           val == [j \in 1 .. m |-> QuietSaid(es[j])]
<1>1. AskedQuiet(root) <=> \E i \in 1 .. m : IsLastNamed(es, "Quiet", i) /\ QuietSaid(es[i])
  BY DEF AskedQuiet, QuietSaid
<1>2. AskedQuiet(root) \in BOOLEAN
  BY DEF AskedQuiet
<1>3. /\ (\A j \in 1 .. m : es[j].name # "Quiet") => v = FALSE
      /\ \A j \in 1 .. m : IsLastNamed(es, "Quiet", j) => v = QuietSaid(es[j])
  BY DEF LastOf, IsLastNamed
<1>4. CASE \A j \in 1 .. m : es[j].name # "Quiet"
  BY <1>1, <1>2, <1>3, <1>4 DEF IsLastNamed
<1>5. CASE \E j \in 1 .. m : es[j].name = "Quiet"
  <2>1. PICK j \in 1 .. m : IsLastNamed(es, "Quiet", j)
    BY <1>5, LastExists DEF IsLastNamed
  <2>2. ASSUME NEW i \in 1 .. m, IsLastNamed(es, "Quiet", i) PROVE i = j
    <3>1. i <= j /\ j <= i
      BY <2>1, <2>2 DEF IsLastNamed
    <3> QED
      BY <3>1
  <2>3. AskedQuiet(root) <=> QuietSaid(es[j])
    BY <1>1, <2>1, <2>2
  <2>4. v = QuietSaid(es[j])
    BY <1>3, <2>1
  <2>5. QuietSaid(es[j]) \in BOOLEAN
    BY DEF QuietSaid
  <2> HIDE DEF es
  <2> QED
    BY <1>2, <2>3, <2>4, <2>5
<1> QED
  BY <1>4, <1>5

NothingYet(p) == p.objects = <<>> /\ p.quiet = FALSE

KidsEvents(d, kids) == [i \in DOMAIN kids |-> KidEvents(d, kids[i])]

\* The elements of a Delete list: every object in order, until one is not as it should be.
LEMMA KidsRead ==
    ASSUME NEW d \in DocumentType, NEW p \in ParserType, p.code = "reading", p.path = <<"Delete">>,
           NothingYet(p), NEW root \in Root,
           NEW r, r = Run(p, FlattenSeq(KidsEvents(d, root.kids)))
    PROVE  /\ FlattenSeq(KidsEvents(d, root.kids)) \in Seq(EventType)
           /\ r \in ParserType
           /\ r.code = "reading" <=> \A i \in DOMAIN root.kids : KidOK(root.kids[i])
           /\ IsPrefix(r.objects, Asked(root))
           /\ r.code = "reading" =>
                 /\ r.path = p.path /\ r.saw_root = p.saw_root
                 /\ r.objects = Asked(root) /\ r.quiet = AskedQuiet(root)
<1> DEFINE kids == root.kids
           m == Len(kids)
           ss == KidsEvents(d, kids)
           val == [j \in 1 .. m |-> QuietSaid(kids[j])]
<1>0. root.kids \in Seq(Kid)
  BY DEF Root
<1> HIDE DEF kids
<1>1. kids \in Seq(Kid) /\ m \in Nat /\ DOMAIN kids = 1 .. m /\ \A i \in 1 .. m : kids[i] \in Kid
  BY <1>0, LenProperties, ElementOfSeq DEF kids
<1> HIDE DEF m
<1>2. \A i \in 1 .. m : KidEvents(d, kids[i]) \in Seq(EventType)
  BY <1>1, KidRead
<1>3. /\ ss \in Seq(Seq(EventType)) /\ Len(ss) = m
      /\ \A i \in 1 .. m : ss[i] = KidEvents(d, kids[i])
  <2>1. ss = [i \in 1 .. m |-> KidEvents(d, kids[i])]
    BY <1>1 DEF KidsEvents
  <2> HIDE DEF ss
  <2> QED
    BY <1>1, <1>2, <2>1
<1> HIDE DEF ss
<1>4. PICK g \in [0 .. m -> ParserType] :
         g[0] = p /\ (\A i \in 1 .. m : g[i] = Run(g[i - 1], ss[i])) /\ Run(p, FlattenSeq(ss)) = g[m]
  BY <1>3, RunEach
<1> DEFINE ap == AskedParts(kids)
<1>5. /\ ap \in Seq(Seq(ObjectType)) /\ Len(ap) = m
      /\ \A i \in 1 .. m : ap[i] = IF kids[i].name = "Object" THEN <<Wanted(kids[i])>> ELSE <<>>
  BY <1>1, AskedPartsAre DEF m
<1>6. Asked(root) = FlattenSeq(ap)
  BY DEF Asked, AskedParts, Wanted, kids
<1> HIDE DEF ap
<1>7. PICK f : IsFlat(f, ap, m, ObjectType)
  <2>1. m \in 0 .. Len(ap)
    BY <1>1, <1>5
  <2> QED
    BY <1>5, <2>1, FlatExists
<1>8. FlattenSeq(ap) = f[m]
  BY <1>5, <1>7, FlattenIs
<1>9. f[0] = <<>> /\ \A i \in 0 .. m : f[i] \in Seq(ObjectType)
  BY <1>7 DEF IsFlat
<1> DEFINE P(i) ==
             /\ \E k \in 0 .. i : g[i].objects = f[k]
             /\ g[i].code = "reading" <=> \A j \in 1 .. i : KidOK(kids[j])
             /\ g[i].code = "reading" =>
                   /\ g[i].path = p.path /\ g[i].saw_root = p.saw_root /\ g[i].objects = f[i]
                   /\ LastOf(g[i].quiet, FALSE, kids, "Quiet", val, i)
           T == {i \in 0 .. m : P(i)}
<1>10. 0 \in T
  <2>1. 0 \in 0 .. m /\ 0 \in 0 .. 0 /\ \A j : j \notin 1 .. 0
    BY <1>1
  <2>2. LastOf(FALSE, FALSE, kids, "Quiet", val, 0)
    BY LastOfNone
  <2> HIDE DEF val
  <2>3. P(0)
    BY <1>4, <1>9, <2>1, <2>2 DEF NothingYet
  <2> QED
    BY <2>1, <2>3
<1>11. ASSUME NEW i \in 1 .. m, i - 1 \in T PROVE i \in T
  <2> DEFINE q == g[i - 1]
             kid == kids[i]
             u == g[i]
  <2>1. i \in 0 .. m /\ i - 1 \in 0 .. m /\ P(i - 1)
    <3>1. i \in 0 .. m /\ i - 1 \in 0 .. m
      BY <1>1
    <3> HIDE DEF P
    <3> QED
      BY <1>11, <3>1
  <2>2. i \in Nat /\ i > 0 /\ i \in 0 .. i /\ \A k \in 0 .. i - 1 : k \in 0 .. i
    BY <1>1
  <2>3. kid \in Kid /\ q \in ParserType /\ u = Run(q, KidEvents(d, kid))
    BY <1>1, <1>3, <1>4, <2>1
  <2>4. /\ \E k \in 0 .. i - 1 : q.objects = f[k]
        /\ q.code = "reading" <=> \A j \in 1 .. i - 1 : KidOK(kids[j])
        /\ q.code = "reading" =>
              /\ q.path = p.path /\ q.saw_root = p.saw_root /\ q.objects = f[i - 1]
              /\ LastOf(q.quiet, FALSE, kids, "Quiet", val, i - 1)
    BY <2>1
  <2>5. (\A j \in 1 .. i : KidOK(kids[j])) <=> (\A j \in 1 .. i - 1 : KidOK(kids[j])) /\ KidOK(kid)
    <3>1. \A j : j \in 1 .. i <=> j \in 1 .. i - 1 \/ j = i
      BY <2>2
    <3> QED
      BY <3>1
  <2>6. val[i] = QuietSaid(kid)
    OBVIOUS
  <2> HIDE DEF val, P, q, u
  <2>7. ASSUME u.objects = q.objects, u.code # "reading", ~(\A j \in 1 .. i : KidOK(kids[j]))
        PROVE  i \in T
    <3>1. \E k \in 0 .. i : u.objects = f[k]
      BY <2>2, <2>4, <2>7
    <3>2. P(i)
      BY <2>7, <3>1 DEF P, u
    <3> QED
      BY <2>1, <3>2
  <2>8. CASE q.code # "reading"
    <3>1. u = q
      <4>1. KidEvents(d, kid) \in Seq(EventType)
        BY <1>2
      <4> QED
        BY <2>3, <2>8, <4>1, RunStopped
    <3> QED
      BY <2>4, <2>5, <2>7, <2>8, <3>1
  <2>9. CASE q.code = "reading"
    <3>1. q.path = <<"Delete">> /\ q.objects = f[i - 1]
      BY <2>4, <2>9
    <3>2. /\ u.code = "reading" <=> KidOK(kid)
          /\ u.objects = IF KidOK(kid) /\ kid.name = "Object"
                         THEN Append(q.objects, Wanted(kid)) ELSE q.objects
          /\ KidOK(kid) => /\ u.path = q.path /\ u.saw_root = q.saw_root
                           /\ u.quiet = IF kid.name = "Quiet" THEN QuietSaid(kid) ELSE q.quiet
      BY <2>3, <2>9, <3>1, KidRead
    <3>3. CASE ~KidOK(kid)
      BY <2>5, <2>7, <3>2, <3>3
    <3>4. CASE KidOK(kid)
      <4>1. /\ u.code = "reading" /\ u.path = p.path /\ u.saw_root = p.saw_root
            /\ \A j \in 1 .. i : KidOK(kids[j])
        BY <2>4, <2>5, <2>9, <3>2, <3>4
      <4>2. u.objects = f[i]
        <5>1. f[i] = f[i - 1] \o ap[i] /\ f[i - 1] \in Seq(ObjectType)
          BY <1>7, <1>9, <2>1 DEF IsFlat
        <5>2. Wanted(kid) \in ObjectType
          BY <2>3, WantedType
        <5>3. kid.name = "Object" => ap[i] = <<Wanted(kid)>>
          BY <1>5
        <5>4. kid.name # "Object" => ap[i] = <<>>
          BY <1>5
        <5>5. Append(f[i - 1], Wanted(kid)) = f[i - 1] \o <<Wanted(kid)>>
          <6> DEFINE a == f[i - 1]
                     w == Wanted(kid)
          <6>1. a \in Seq(ObjectType) /\ w \in ObjectType
            BY <5>1, <5>2
          <6> HIDE DEF a, w
          <6>2. Append(a, w) = a \o <<w>>
            BY <6>1, AppendIsConcat
          <6> QED
            BY <6>2 DEF a, w
        <5>6. f[i - 1] \o <<>> = f[i - 1]
          BY <5>1, ConcatEmptySeq
        <5>7. CASE kid.name = "Object"
          BY <3>1, <3>2, <3>4, <5>1, <5>3, <5>5, <5>7
        <5>8. CASE kid.name # "Object"
          BY <3>1, <3>2, <3>4, <5>1, <5>4, <5>6, <5>8
        <5> QED
          BY <5>7, <5>8
      <4>3. LastOf(u.quiet, FALSE, kids, "Quiet", val, i)
        <5>1. /\ kids[i].name = "Quiet" => u.quiet = val[i]
              /\ kids[i].name # "Quiet" => u.quiet = q.quiet
          BY <2>6, <3>2, <3>4
        <5> QED
          BY <2>2, <2>4, <2>9, <5>1, LastOfNext
      <4>4. P(i)
        BY <2>2, <4>1, <4>2, <4>3 DEF P, u
      <4> QED
        BY <2>1, <4>4
    <3> QED
      BY <3>3, <3>4
  <2> QED
    BY <2>8, <2>9
<1> HIDE DEF T
<1>12. m \in T
  <2>1. \A i \in 0 .. m : i \in T
    BY <1>1, <1>10, <1>11, CountUp
  <2> QED
    BY <1>1, <2>1
<1>13. P(m)
  BY <1>12 DEF T
<1>14. g[m] \in ParserType /\ r = g[m]
  BY <1>1, <1>4 DEF ss, kids
<1>15. FlattenSeq(ss) \in Seq(EventType)
  BY <1>3, FlattenType
<1>16. IsPrefix(r.objects, f[m])
  <2>1. PICK k \in 0 .. m : r.objects = f[k]
    BY <1>13, <1>14
  <2>2. m \in k .. m /\ m <= Len(ap)
    BY <1>1, <1>5
  <2>3. Len(f[k]) <= Len(f[m]) /\ \A x \in 1 .. Len(f[k]) : f[m][x] = f[k][x]
    BY <1>1, <1>5, <1>7, <2>2, FlatGrows
  <2>4. f[k] \in Seq(ObjectType) /\ f[m] \in Seq(ObjectType)
    BY <1>1, <1>9
  <2> QED
    BY <2>1, <2>3, <2>4, PrefixIs
<1>17. r.code = "reading" => r.quiet = AskedQuiet(root)
  <2>1. SUFFICES ASSUME r.code = "reading" PROVE r.quiet = AskedQuiet(root)
    OBVIOUS
  <2>2. LastOf(r.quiet, FALSE, kids, "Quiet", val, m)
    BY <1>13, <1>14, <2>1
  <2>3. r.quiet \in BOOLEAN
    BY <1>14 DEF ParserType
  <2>4. DOMAIN root.kids = 1 .. m
    BY <1>1 DEF kids
  <2> QED
    BY <1>1, <2>2, <2>3, <2>4, QuietIs DEF kids
<1> HIDE DEF val
<1> QED
  BY <1>1, <1>6, <1>8, <1>13, <1>14, <1>15, <1>16, <1>17 DEF ss, kids

-----------------------------------------------------------------------------
(* The document *)

LEMMA RootElement ==
    ASSUME NEW d \in DocumentType, NEW p \in ParserType, p.code = "reading", p.path = <<>>,
           NEW root \in Root, NEW r, r = Run(p, RootEvents(d, root))
    PROVE  /\ RootEvents(d, root) \in Seq(EventType)
           /\ Opened(p, root.name).code = "reading" =>
                 r = IF Run(Opened(p, root.name), FlattenSeq(KidsEvents(d, root.kids))).code = "reading"
                     THEN Closed(Run(Opened(p, root.name), FlattenSeq(KidsEvents(d, root.kids))))
                     ELSE Run(Opened(p, root.name), FlattenSeq(KidsEvents(d, root.kids)))
           /\ Opened(p, root.name).code # "reading" => r.code # "reading" /\ r.objects = p.objects
<1> DEFINE n == root.name
           inner == FlattenSeq(KidsEvents(d, root.kids))
           o == Opened(p, n)
           y == Run(o, inner)
<1>1. n \in Str
  BY DEF Root, Str
<1>2. "Delete" \in Str /\ "Object" \in Str /\ "Key" \in Str /\ "VersionId" \in Str /\ "Quiet" \in Str
  BY Literals
<1>3. inner \in Seq(EventType)
  <2> DEFINE ks == root.kids
             ss == KidsEvents(d, ks)
  <2>1. ks \in Seq(Kid)
    BY DEF Root
  <2> HIDE DEF ks
  <2>2. PICK m \in Nat : DOMAIN ks = 1 .. m /\ \A i \in 1 .. m : ks[i] \in Kid
    BY <2>1, LenProperties, ElementOfSeq
  <2>3. \A i \in 1 .. m : KidEvents(d, ks[i]) \in Seq(EventType)
    <3>1. [path |-> <<"Delete">>, content |-> <<>>, key |-> NoKey, version_id |-> NoKey,
           saw_root |-> FALSE, objects |-> <<>>, quiet |-> FALSE, code |-> "reading"] \in ParserType
      <4>1. <<"Delete">> \in Seq(Str) /\ <<>> \in Seq(Str) /\ <<>> \in Seq(ObjectType) /\ NoKey \in MaybeText
        BY <1>2, TwoNames DEF MaybeText
      <4> QED
        BY <4>1 DEF ParserType
    <3>2. PICK z \in ParserType : z.code = "reading" /\ z.path = <<"Delete">>
      BY <3>1
    <3> QED
      BY <2>2, <3>2, KidRead
  <2>4. ss \in Seq(Seq(EventType))
    <3>1. ss = [i \in 1 .. m |-> KidEvents(d, ks[i])]
      BY <2>2 DEF KidsEvents
    <3> HIDE DEF ss
    <3> QED
      BY <2>2, <2>3, <3>1
  <2> HIDE DEF ss
  <2>5. FlattenSeq(ss) \in Seq(EventType)
    BY <2>4, FlattenType
  <2> QED
    BY <2>5 DEF ss, ks
<1>4. RootEvents(d, root) = Element(d, n, inner)
  BY DEF RootEvents, KidsEvents
<1> HIDE DEF inner, n
<1>5. /\ RootEvents(d, root) \in Seq(EventType)
      /\ o.code = "reading" => r = IF y.code = "reading" THEN Closed(y) ELSE y
      /\ o.code # "reading" => r.code # "reading" /\ r.objects = p.objects
  BY <1>1, <1>3, <1>4, ElementIs
<1> QED
  BY <1>5 DEF n, inner

\* A root that is no Delete element, or a second one, ends the reading.
LEMMA RootStops ==
    ASSUME NEW d \in DocumentType, NEW p \in ParserType, p.code = "reading", p.path = <<>>,
           NEW root \in Root, NEW r, r = Run(p, RootEvents(d, root)),
           root.name # "Delete" \/ p.saw_root = TRUE
    PROVE  r.code # "reading" /\ r.objects = p.objects
<1> DEFINE o == Opened(p, root.name)
<1>1. o = Stopped(p)
  BY DEF Opened
<1>2. o.code # "reading"
  BY <1>1 DEF Stopped, ParserType
<1> HIDE DEF o
<1> QED
  BY <1>2, RootElement DEF o

Unopened(p) == p.saw_root = FALSE /\ NothingYet(p)

LEMMA RootRead ==
    ASSUME NEW d \in DocumentType, NEW p \in ParserType, p.code = "reading", p.path = <<>>,
           NEW root \in Root, NEW r, r = Run(p, RootEvents(d, root)),
           root.name = "Delete", Unopened(p)
    PROVE  /\ r.code = "reading" <=> \A i \in DOMAIN root.kids : KidOK(root.kids[i])
           /\ IsPrefix(r.objects, Asked(root))
           /\ r.code = "reading" => /\ r.path = <<>> /\ r.saw_root = TRUE
                                    /\ r.objects = Asked(root) /\ r.quiet = AskedQuiet(root)
<1> DEFINE n == root.name
           inner == FlattenSeq(KidsEvents(d, root.kids))
           o == Opened(p, n)
           y == Run(o, inner)
<1>1. n \in Str
  BY DEF Root, Str
<1>2. "Delete" \in Str /\ "Object" \in Str /\ "Key" \in Str /\ "VersionId" \in Str /\ "Quiet" \in Str
  BY Literals
<1>3. o.code = "reading" => r = IF y.code = "reading" THEN Closed(y) ELSE y
  BY RootElement
<1>4. n = "Delete"
  OBVIOUS
<1> HIDE DEF n, inner
<1>5. /\ o \in ParserType /\ o.code = "reading" /\ o.path = <<"Delete">> /\ o.saw_root = TRUE
      /\ NothingYet(o)
  <2>1. Append(<<>>, "Delete") = <<"Delete">> /\ Len(<<>>) = 0
    BY <1>2, TwoNames
  <2>2. o = [p EXCEPT !.path = Append(@, "Delete"), !.content = <<>>, !.saw_root = TRUE,
                      !.key = @, !.version_id = @]
    BY <1>4, <2>1 DEF Opened, Unopened
  <2>3. o \in ParserType
    BY <1>1, OpenedType
  <2> HIDE DEF o
  <2> QED
    BY <1>4, <2>1, <2>2, <2>3 DEF ParserType, Unopened, NothingYet
<1> HIDE DEF o
<1>6. /\ y \in ParserType
      /\ y.code = "reading" <=> \A i \in DOMAIN root.kids : KidOK(root.kids[i])
      /\ IsPrefix(y.objects, Asked(root))
      /\ y.code = "reading" =>
            /\ y.path = o.path /\ y.saw_root = o.saw_root
            /\ y.objects = Asked(root) /\ y.quiet = AskedQuiet(root)
  BY <1>5, KidsRead DEF inner
<1> HIDE DEF y
<1>7. CASE y.code # "reading"
  BY <1>3, <1>5, <1>6, <1>7
<1>8. CASE y.code = "reading"
  <2>1. r = Closed(y) /\ y.path = <<"Delete">> /\ y.saw_root = TRUE
    BY <1>3, <1>5, <1>6, <1>8
  <2>2. /\ y.path # <<"Delete", "Object">> /\ y.path # <<"Delete", "Quiet">>
        /\ y.path # <<"Delete", "Object", "Key">> /\ y.path # <<"Delete", "Object", "VersionId">>
    <3>1. <<"Delete">> # <<"Delete", "Object">> /\ <<"Delete">> # <<"Delete", "Object", "Key">>
      BY <1>2, PathsApart
    <3>2. <<"Delete">> # <<"Delete", "Quiet">> /\ <<"Delete">> # <<"Delete", "Object", "VersionId">>
      BY <1>2, PathsApart
    <3> QED
      BY <2>1, <3>1, <3>2
  <2>3. Front(<<"Delete">>) = <<>>
    BY <1>2, TwoNames
  <2>4. r = [y EXCEPT !.path = Front(@), !.content = <<>>]
    BY <2>1, <2>2 DEF Closed
  <2>5. /\ r.code = "reading" /\ r.path = Front(y.path) /\ r.saw_root = TRUE /\ r.objects = y.objects
        /\ r.quiet = y.quiet
    BY <1>6, <1>8, <2>1, <2>4 DEF ParserType
  <2> QED
    BY <1>6, <1>8, <2>1, <2>3, <2>5
<1> QED
  BY <1>7, <1>8

LEMMA FreshType == Fresh \in ParserType
<1>1. <<>> \in Seq(Str) /\ <<>> \in Seq(ObjectType) /\ NoKey \in MaybeText
  BY DEF MaybeText
<1> QED
  BY <1>1 DEF Fresh, ParserType

LEMMA AskedType ==
    ASSUME NEW root \in Root
    PROVE  Asked(root) \in Seq(ObjectType)
<1>1. root.kids \in Seq(Kid)
  BY DEF Root
<1>2. Asked(root) = FlattenSeq(AskedParts(root.kids))
  BY DEF Asked, AskedParts, Wanted
<1> QED
  BY <1>1, <1>2, AskedPartsAre, FlattenType

RootsEvents(d) == [i \in DOMAIN d.roots |-> RootEvents(d, d.roots[i])]

\* A whole document.
LEMMA WholeRead ==
    ASSUME NEW d \in DocumentType, NEW r, r = Run(Fresh, Events(d))
    PROVE  /\ Events(d) \in Seq(EventType)
           /\ r \in ParserType
           /\ r.code = "reading" => r.path = <<>>
           /\ d.roots = <<>> => r.saw_root = FALSE /\ r.objects = <<>>
           /\ d.roots # <<>> =>
                 /\ r.code = "reading" <=>
                       /\ Len(d.roots) = 1 /\ d.roots[1].name = "Delete"
                       /\ \A i \in DOMAIN d.roots[1].kids : KidOK(d.roots[1].kids[i])
                 /\ IsPrefix(r.objects, Asked(d.roots[1]))
                 /\ r.code = "reading" => /\ r.saw_root = TRUE /\ r.objects = Asked(d.roots[1])
                                          /\ r.quiet = AskedQuiet(d.roots[1])
<1> DEFINE roots == d.roots
           m == Len(roots)
           ss == RootsEvents(d)
           c == Event("Comment", Space)
<1>1. /\ Fresh.code = "reading" /\ Fresh.path = <<>> /\ Fresh.saw_root = FALSE
      /\ Fresh.objects = <<>> /\ Unopened(Fresh)
  BY DEF Fresh, Unopened, NothingYet
<1>2. c \in EventType /\ c.kind = "Comment"
  BY Literals, EventIs DEF EventKinds
<1>3. Run(Fresh, <<c>>) = Fresh
  <2> HIDE DEF c
  <2>1. Run(Fresh, <<c>>) = Taken(Fresh, c)
    BY <1>2, FreshType, RunOne
  <2>2. Taken(Fresh, c) = Fresh
    BY <1>1, <1>2 DEF Taken, AfterEvent
  <2> QED
    BY <2>1, <2>2
<1>4. roots \in Seq(Root)
  BY DEF DocumentType
<1> HIDE DEF roots, c
<1>5. m \in Nat /\ DOMAIN roots = 1 .. m /\ (\A i \in 1 .. m : roots[i] \in Root) /\ (m = 0 <=> roots = <<>>)
  BY <1>4, LenProperties, ElementOfSeq, EmptySeq
<1> HIDE DEF m
<1>6. \A i \in 1 .. m : RootEvents(d, roots[i]) \in Seq(EventType)
  BY <1>1, <1>5, FreshType, RootElement
<1>7. /\ ss \in Seq(Seq(EventType)) /\ Len(ss) = m
      /\ \A i \in 1 .. m : ss[i] = RootEvents(d, roots[i])
  <2>1. ss = [i \in 1 .. m |-> RootEvents(d, roots[i])]
    BY <1>5 DEF RootsEvents, roots
  <2> HIDE DEF ss
  <2> QED
    BY <1>5, <1>6, <2>1
<1>8. Events(d) = <<c>> \o FlattenSeq(ss)
  BY DEF Events, RootsEvents, c
<1> HIDE DEF ss
<1>9. FlattenSeq(ss) \in Seq(EventType) /\ <<c>> \in Seq(EventType)
  BY <1>2, <1>7, FlattenType
<1>10. Events(d) \in Seq(EventType)
  BY <1>8, <1>9, ConcatProperties
<1>11. r = Run(Fresh, FlattenSeq(ss)) /\ r \in ParserType
  <2>1. Run(Fresh, <<c>> \o FlattenSeq(ss)) = Run(Run(Fresh, <<c>>), FlattenSeq(ss))
    BY <1>9, FreshType, RunConcat
  <2> QED
    BY <1>3, <1>8, <1>9, <2>1, FreshType, RunType
<1>12. PICK g \in [0 .. m -> ParserType] :
         /\ g[0] = Fresh
         /\ \A i \in 1 .. m : g[i] = Run(g[i - 1], ss[i])
         /\ Run(Fresh, FlattenSeq(ss)) = g[m]
  BY <1>7, FreshType, RunEach
<1>13. r = g[m]
  BY <1>11, <1>12
<1>14. CASE m = 0
  <2>1. r = Fresh /\ roots = <<>>
    BY <1>5, <1>12, <1>13, <1>14
  <2> QED
    BY <1>1, <1>10, <1>11, <2>1 DEF roots
<1>15. CASE m # 0
  <2> DEFINE root == roots[1]
             u == g[1]
             ok == root.name = "Delete" /\ \A i \in DOMAIN root.kids : KidOK(root.kids[i])
  <2>1. 1 \in 1 .. m /\ 1 \in 0 .. m /\ 1 - 1 = 0
    BY <1>5, <1>15
  <2>2. root \in Root /\ u \in ParserType /\ u = Run(Fresh, RootEvents(d, root))
    <3>1. u = Run(g[1 - 1], ss[1]) /\ ss[1] = RootEvents(d, root)
      BY <1>7, <1>12, <2>1
    <3> QED
      BY <1>5, <1>12, <2>1, <3>1
  <2> HIDE DEF root, u
  <2>3. /\ u.code = "reading" <=> ok
        /\ IsPrefix(u.objects, Asked(root))
        /\ u.code = "reading" => /\ u.path = <<>> /\ u.saw_root = TRUE
                                 /\ u.objects = Asked(root) /\ u.quiet = AskedQuiet(root)
    <3>1. CASE root.name = "Delete"
      BY <1>1, <2>2, <3>1, FreshType, RootRead, ZenonT(40)
    <3>2. CASE root.name # "Delete"
      <4>1. u.code # "reading" /\ u.objects = <<>>
        BY <1>1, <2>2, <3>2, FreshType, RootStops
      <4>2. IsPrefix(<<>>, Asked(root))
        <5> DEFINE e == <<>>
        <5>1. e \in Seq(ObjectType) /\ Len(e) = 0 /\ Asked(root) \in Seq(ObjectType)
          BY <2>2, AskedType
        <5>2. Len(Asked(root)) \in Nat
          BY <5>1, LenProperties
        <5> HIDE DEF e
        <5>3. Len(e) <= Len(Asked(root)) /\ \A x \in 1 .. Len(e) : Asked(root)[x] = e[x]
          BY <5>1, <5>2
        <5>4. IsPrefix(e, Asked(root))
          BY <5>1, <5>3, PrefixIs
        <5> QED
          BY <5>4 DEF e
      <4> QED
        BY <3>2, <4>1, <4>2
    <3> QED
      BY <3>1, <3>2
  <2> DEFINE P(i) == \/ i = 0 \/ (i = 1 /\ g[i] = u)
                    \/ (i > 1 /\ g[i].objects = u.objects /\ g[i].code # "reading")
             T == {i \in 0 .. m : P(i)}
  <2>4. 0 \in T
    BY <1>5
  <2>5. ASSUME NEW i \in 1 .. m, i - 1 \in T PROVE i \in T
    <3>1. i \in 0 .. m /\ i - 1 \in 0 .. m /\ P(i - 1)
      BY <1>5, <2>5
    <3>2. CASE i = 1
      BY <3>1, <3>2 DEF u
    <3>3. CASE i # 1
      <4> DEFINE q == g[i - 1]
                 e == RootEvents(d, roots[i])
      <4>1. i > 1 /\ i - 1 # 0
        BY <1>5, <3>3
      <4>2. q.objects = u.objects /\ (q = u \/ q.code # "reading")
        BY <3>1, <4>1
      <4>3. /\ q \in ParserType /\ e \in Seq(EventType) /\ roots[i] \in Root
            /\ g[i] = Run(q, e)
        BY <1>5, <1>6, <1>7, <1>12, <3>1
      <4> HIDE DEF q, T
      <4>4. g[i].objects = u.objects /\ g[i].code # "reading"
        <5>1. CASE q.code # "reading"
          <6>1. g[i] = q
            BY <4>3, <5>1, RunStopped
          <6> QED
            BY <4>2, <5>1, <6>1
        <5>2. CASE q.code = "reading"
          <6>1. q = u /\ q.path = <<>> /\ q.saw_root = TRUE
            BY <2>3, <4>2, <5>2
          <6>2. g[i].code # "reading" /\ g[i].objects = q.objects
            <7> DEFINE w == g[i]
                       root_i == roots[i]
            <7>1. /\ q \in ParserType /\ q.code = "reading" /\ q.path = <<>> /\ root_i \in Root
                  /\ w = Run(q, RootEvents(d, root_i)) /\ q.saw_root = TRUE
              BY <4>3, <5>2, <6>1
            <7> HIDE DEF w, root_i
            <7>2. w.code # "reading" /\ w.objects = q.objects
              BY <7>1, RootStops, ZenonT(30)
            <7> QED
              BY <7>2 DEF w
          <6> QED
            BY <6>1, <6>2
        <5> QED
          BY <5>1, <5>2
      <4> QED
        BY <3>1, <4>1, <4>4 DEF T
    <3> QED
      BY <3>2, <3>3
  <2> HIDE DEF T
  <2>6. m \in T
    <3>1. \A i \in 0 .. m : i \in T
      BY <1>5, <2>4, <2>5, CountUp
    <3> QED
      BY <1>5, <3>1
  <2>7. (m = 1 /\ r = u) \/ (m > 1 /\ r.objects = u.objects /\ r.code # "reading")
    BY <1>13, <1>15, <2>6 DEF T
  <2>8. m > 1 => m # 1
    BY <1>5
  <2>9. roots # <<>>
    BY <1>5, <1>15
  <2>10. /\ r.code = "reading" <=> m = 1 /\ ok
         /\ IsPrefix(r.objects, Asked(root))
         /\ r.code = "reading" => /\ r.path = <<>> /\ r.saw_root = TRUE
                                  /\ r.objects = Asked(root) /\ r.quiet = AskedQuiet(root)
    <3> HIDE DEF ok
    <3>1. CASE m = 1 /\ r = u
      BY <2>3, <3>1
    <3>2. CASE m > 1 /\ r.objects = u.objects /\ r.code # "reading"
      BY <2>3, <2>8, <3>2
    <3> QED
      BY <2>7, <3>1, <3>2
  <2> QED
    BY <1>10, <1>11, <2>9, <2>10 DEF roots, root, m
<1> QED
  BY <1>14, <1>15

\* A document is valid when its elements are: the objects it lists are its Object elements.
LEMMA ValidIs ==
    ASSUME NEW d \in DocumentType, d.roots # <<>>
    PROVE  Valid(d) <=>
              /\ Len(d.roots) = 1 /\ d.roots[1].name = "Delete"
              /\ \A i \in DOMAIN d.roots[1].kids : KidOK(d.roots[1].kids[i])
              /\ Len(Asked(d.roots[1])) \in 1 .. MAX_MULTI_DELETE
<1> DEFINE root == d.roots[1]
           kids == root.kids
           m == Len(kids)
<1>1. root \in Root
  <2> DEFINE roots == d.roots
  <2>1. roots \in Seq(Root)
    BY DEF DocumentType
  <2> HIDE DEF roots
  <2>2. /\ Len(roots) \in Nat /\ (Len(roots) = 0 <=> roots = <<>>)
        /\ \A i \in 1 .. Len(roots) : roots[i] \in Root
    BY <2>1, LenProperties, ElementOfSeq, EmptySeq
  <2>3. roots # <<>>
    BY DEF roots
  <2>4. 1 \in 1 .. Len(roots)
    BY <2>2, <2>3
  <2> QED
    BY <2>2, <2>4 DEF roots
<1> HIDE DEF root
<1>2. kids \in Seq(Kid)
  BY <1>1 DEF Root
<1>3. DOMAIN kids = 1 .. m /\ m \in Nat
  BY <1>2, LenProperties
<1>4. PICK f : IsFlat(f, AskedParts(kids), m, ObjectType)
  <2>1. AskedParts(kids) \in Seq(Seq(ObjectType)) /\ Len(AskedParts(kids)) = m
    BY <1>2, AskedPartsAre
  <2>2. m \in 0 .. Len(AskedParts(kids))
    BY <1>3, <2>1
  <2> QED
    BY <2>1, <2>2, FlatExists
<1>5. Asked(root) = f[m]
  <2>1. Asked(root) = FlattenSeq(AskedParts(kids))
    BY DEF Asked, AskedParts, Wanted
  <2> QED
    BY <1>2, <1>4, <2>1, AskedPartsAre, FlattenIs
<1>6. DOMAIN Asked(root) = 1 .. Len(Asked(root))
  BY <1>1, AskedType, LenProperties
<1>7. (\A x \in DOMAIN Asked(root) : Asked(root)[x].key # NoKey)
         <=> \A i \in DOMAIN kids : kids[i].name = "Object" => Wanted(kids[i]).key # NoKey
  <2>1. (\A x \in 1 .. Len(f[m]) : f[m][x].key # NoKey)
           <=> \A i \in 1 .. m : kids[i].name = "Object" => Wanted(kids[i]).key # NoKey
    BY <1>2, <1>4, AskedKeys
  <2> QED
    BY <1>3, <1>5, <1>6, <2>1
<1>8. PiecesOK(root) <=> \A i \in DOMAIN kids : KidPiecesOK(kids[i])
  BY DEF PiecesOK, KidPiecesOK, LeafOK
<1>9. (\A i \in DOMAIN kids : KidOK(kids[i])) <=>
         PiecesOK(root) /\ \A x \in DOMAIN Asked(root) : Asked(root)[x].key # NoKey
  BY <1>7, <1>8 DEF KidOK
<1> HIDE DEF kids
<1>10. Valid(d) <=>
          /\ Len(d.roots) = 1 /\ root.name = "Delete" /\ PiecesOK(root)
          /\ Len(Asked(root)) \in 1 .. MAX_MULTI_DELETE
          /\ \A x \in DOMAIN Asked(root) : Asked(root)[x].key # NoKey
  BY DEF Valid, root
<1> QED
  BY <1>9, <1>10 DEF root, kids

LEMMA NoRootsInvalid ==
    ASSUME NEW d \in DocumentType, Valid(d)
    PROVE  d.roots # <<>>
<1>1. Len(d.roots) = 1
  BY DEF Valid
<1>2. Len(<<>>) = 0 /\ 0 # 1
  OBVIOUS
<1> QED
  BY <1>1, <1>2

LEMMA StoppedEarly ==
    ASSUME NEW d \in DocumentType, NEW done \in Seq(EventType), NEW rest \in Seq(EventType),
           Events(d) = done \o rest, Run(Fresh, done).code # "reading"
    PROVE  ~Valid(d)
<1> DEFINE r == Run(Fresh, Events(d))
<1>1. r = Run(Fresh, done)
  <2>1. Run(Fresh, done \o rest) = Run(Run(Fresh, done), rest)
    BY FreshType, RunConcat
  <2>2. Run(Run(Fresh, done), rest) = Run(Fresh, done)
    BY FreshType, RunType, RunStopped
  <2> QED
    BY <2>1, <2>2
<1>2. r.code # "reading"
  BY <1>1
<1> HIDE DEF r
<1>3. d.roots # <<>> => (r.code = "reading" <=>
                           /\ Len(d.roots) = 1 /\ d.roots[1].name = "Delete"
                           /\ \A i \in DOMAIN d.roots[1].kids : KidOK(d.roots[1].kids[i]))
  BY WholeRead DEF r
<1> QED
  BY <1>2, <1>3, NoRootsInvalid, ValidIs

LEMMA EndIs ==
    ASSUME NEW d \in DocumentType, NEW p, p = Run(Fresh, Events(d)), p.code = "reading"
    PROVE  /\ p.path = <<>>
           /\ Valid(d) <=> ~(~p.saw_root \/ p.objects = <<>> \/ Len(p.objects) > MAX_MULTI_DELETE)
           /\ Valid(d) => p.objects = Asked(d.roots[1]) /\ p.quiet = AskedQuiet(d.roots[1])
<1>1. p \in ParserType /\ p.path = <<>>
  BY WholeRead
<1>2. CASE d.roots = <<>>
  <2>1. p.saw_root = FALSE
    BY <1>2, WholeRead
  <2>2. ~Valid(d)
    BY <1>2, NoRootsInvalid
  <2> QED
    BY <1>1, <2>1, <2>2
<1>3. CASE d.roots # <<>>
  <2> DEFINE a == Asked(d.roots[1])
             ok == /\ Len(d.roots) = 1 /\ d.roots[1].name = "Delete"
                   /\ \A i \in DOMAIN d.roots[1].kids : KidOK(d.roots[1].kids[i])
  <2>1. ok /\ p.saw_root = TRUE /\ p.objects = a /\ p.quiet = AskedQuiet(d.roots[1])
    BY <1>3, WholeRead
  <2>2. Valid(d) <=> ok /\ Len(a) \in 1 .. MAX_MULTI_DELETE
    BY <1>3, ValidIs
  <2>3. p.objects \in Seq(ObjectType)
    BY <1>1 DEF ParserType
  <2> HIDE DEF a, ok
  <2>4. a \in Seq(ObjectType)
    BY <2>1, <2>3
  <2>5. Len(a) \in Nat /\ (a = <<>> <=> Len(a) = 0)
    BY <2>4, LenProperties, EmptySeq
  <2>6. Len(a) \in 1 .. MAX_MULTI_DELETE <=> ~(a = <<>> \/ Len(a) > MAX_MULTI_DELETE)
    <3>1. MAX_MULTI_DELETE \in Nat
      BY DeleteAssumption
    <3> QED
      BY <2>5, <3>1
  <2>7. Valid(d) <=> ~(a = <<>> \/ Len(a) > MAX_MULTI_DELETE)
    BY <2>1, <2>2, <2>6
  <2>8. Valid(d) <=> ~(~p.saw_root \/ p.objects = <<>> \/ Len(p.objects) > MAX_MULTI_DELETE)
    BY <2>1, <2>7
  <2> QED
    BY <1>1, <2>1, <2>8 DEF a
<1> QED
  BY <1>2, <1>3

LEMMA NamedSoFar ==
    ASSUME NEW d \in DocumentType, NEW done \in Seq(EventType), NEW rest \in Seq(EventType),
           Events(d) = done \o rest, NEW p, p = Run(Fresh, done), p.objects # <<>>
    PROVE  IsPrefix(p.objects, Asked(d.roots[1]))
<1> DEFINE r == Run(Fresh, Events(d))
           s == p.objects
           t == Asked(d.roots[1])
<1>1. p \in ParserType /\ s \in Seq(ObjectType)
  BY FreshType, RunType DEF ParserType
<1>2. r = Run(p, rest)
  BY FreshType, RunConcat
<1>3. PICK o \in Seq(ObjectType) : r.objects = s \o o
  BY <1>1, <1>2, RunGrows
<1> HIDE DEF s
<1>4. s # <<>>
  BY DEF s
<1>5. s \o o # <<>>
  BY <1>1, <1>4, ConcatEqualIffEmpty
<1>6. r.objects # <<>>
  BY <1>3, <1>5
<1> HIDE DEF r
<1>7. d.roots # <<>>
  BY <1>6, WholeRead DEF r
<1>8. IsPrefix(r.objects, t)
  BY <1>7, WholeRead DEF r
<1>9. t \in Seq(ObjectType)
  <2>1. d.roots[1] \in Root
    <3> DEFINE roots == d.roots
    <3>1. roots \in Seq(Root)
      BY DEF DocumentType
    <3>2. roots # <<>>
      BY <1>7
    <3> HIDE DEF roots
    <3>3. /\ Len(roots) \in Nat /\ (Len(roots) = 0 <=> roots = <<>>)
          /\ \A i \in 1 .. Len(roots) : roots[i] \in Root
      BY <3>1, LenProperties, ElementOfSeq, EmptySeq
    <3>4. 1 \in 1 .. Len(roots)
      BY <3>2, <3>3
    <3> QED
      BY <3>3, <3>4 DEF roots
  <2> QED
    BY <2>1, AskedType
<1> HIDE DEF t
<1> DEFINE u == s \o o
<1>10. /\ u \in Seq(ObjectType) /\ Len(u) = Len(s) + Len(o) /\ Len(s) \in Nat /\ Len(o) \in Nat
       /\ Len(t) \in Nat
       /\ \A x \in 1 .. Len(s) : u[x] = s[x]
  <2>1. /\ u \in Seq(ObjectType) /\ Len(u) = Len(s) + Len(o) /\ Len(s) \in Nat /\ Len(o) \in Nat
        /\ Len(t) \in Nat
        /\ \A x \in 1 .. Len(s) + Len(o) : u[x] = IF x <= Len(s) THEN s[x] ELSE o[x - Len(s)]
    BY <1>1, <1>9, ConcatProperties, LenProperties
  <2> HIDE DEF u
  <2>2. \A x \in 1 .. Len(s) : x \in 1 .. Len(s) + Len(o) /\ x <= Len(s)
    BY <2>1
  <2> QED
    BY <2>1, <2>2
<1>11. IsPrefix(u, t)
  BY <1>3, <1>8
<1> HIDE DEF u
<1>12. Len(u) <= Len(t) /\ \A x \in 1 .. Len(u) : t[x] = u[x]
  <2>1. Len(u) <= Len(t) /\ SubSeq(u, 1, Len(u)) = SubSeq(t, 1, Len(u))
    BY <1>11 DEF IsPrefix
  <2>2. \A x \in 1 .. Len(u) : SubSeq(u, 1, Len(u))[x] = u[x]
    BY <1>10
  <2>3. \A x \in 1 .. Len(u) : SubSeq(t, 1, Len(u))[x] = t[x]
    BY <1>9, <1>10, <2>1
  <2> QED
    BY <2>1, <2>2, <2>3
<1>13. Len(s) <= Len(t) /\ \A x \in 1 .. Len(s) : t[x] = s[x]
  <2>1. \A x \in 1 .. Len(s) : x \in 1 .. Len(u)
    BY <1>10
  <2>2. Len(s) <= Len(t)
    BY <1>10, <1>12
  <2> QED
    BY <1>10, <1>12, <2>1, <2>2
<1> QED
  BY <1>1, <1>9, <1>13, PrefixIs DEF s, t

-----------------------------------------------------------------------------
(***************************************************************************)
(* While the parser reads it is where the events handed over have brought  *)
(* it; what is left of them is what the body still holds, unless it broke  *)
(* off.                                                                    *)
(***************************************************************************)
Handed(d, done, rest) ==
    done \in Seq(EventType) /\ rest \in Seq(EventType) /\ Events(d) = done \o rest

ReadingInv ==
    /\ document \in DocumentType
    /\ part # "delete" => Reading
    /\ part = "delete" /\ Reading =>
          \E done, rest : /\ Handed(document, done, rest)
                          /\ parser = Run(Fresh, done)
                          /\ cut => events = <<>>
                          /\ ~cut => events = rest
    /\ DeleteReadAsWritten
    /\ CutDeletesOnlyNamed

LEMMA ReadingInitOK == Init => ReadingInv
<1> SUFFICES ASSUME Init PROVE ReadingInv
  OBVIOUS
<1>1. Fresh.code = "reading"
  BY DEF Fresh
<1>2. parser = Fresh /\ cut = FALSE
  BY DEF Init, DeleteInit, DeleteStill
<1>3. Reading /\ parser.code # "Ok"
  BY <1>1, <1>2 DEF Reading
<1>4. DeleteReadAsWritten /\ CutDeletesOnlyNamed
  BY <1>3 DEF DeleteReadAsWritten, CutDeletesOnlyNamed
<1>5. document \in DocumentType
  <2>1. NoDocument \in DocumentType
    <3>1. <<>> \in Seq(Root)
      OBVIOUS
    <3> QED
      BY <3>1 DEF NoDocument, DocumentType
  <2>2. document = NoDocument \/ document \in Document
    BY DEF Init, DeleteInit, DeleteStill
  <2> QED
    BY <2>1, <2>2, DeleteAssumption
<1>6. ASSUME part = "delete"
      PROVE  Handed(document, <<>>, events) /\ parser = Run(Fresh, <<>>)
  <2>1. events = Events(document)
    BY <1>6 DEF Init, DeleteInit
  <2>2. Events(document) \in Seq(EventType)
    <3>1. PICK r : r = Run(Fresh, Events(document))
      OBVIOUS
    <3> QED
      BY <1>5, <3>1, WholeRead
  <2>3. <<>> \in Seq(EventType) /\ <<>> \o Events(document) = Events(document)
    BY <2>2, ConcatEmptySeq
  <2>4. Run(Fresh, <<>>) = Fresh
    BY FreshType, RunNone
  <2> QED
    BY <1>2, <2>1, <2>2, <2>3, <2>4 DEF Handed
<1> QED
  BY <1>2, <1>3, <1>4, <1>5, <1>6 DEF ReadingInv

LEMMA ReadEventStep ==
    ASSUME ReadingInv, part = "delete", part' = part, ReadEvent
    PROVE  ReadingInv'
<1>1. Reading /\ events # <<>> /\ document' = document /\ cut' = cut
  BY DEF ReadEvent
<1>2. PICK done, rest : /\ Handed(document, done, rest)
                        /\ parser = Run(Fresh, done)
                        /\ cut => events = <<>>
                        /\ ~cut => events = rest
  BY <1>1 DEF ReadingInv
<1>3. ~cut /\ events = rest /\ rest # <<>> /\ document \in DocumentType
  BY <1>1, <1>2 DEF ReadingInv
<1> DEFINE e == Head(rest)
           t == Tail(rest)
           more == done \o <<e>>
<1>4. done \in Seq(EventType) /\ rest \in Seq(EventType) /\ Events(document) = done \o rest
  BY <1>2 DEF Handed
<1>5. e \in EventType /\ t \in Seq(EventType) /\ rest = <<e>> \o t
  <2>1. e \in EventType /\ t \in Seq(EventType)
    BY <1>3, <1>4, HeadTailProperties
  <2>2. rest = <<e>> \o t
    <3>1. <<e>> \in Seq(EventType) /\ Len(<<e>>) = 1 /\ <<e>>[1] = e
      BY <2>1
    <3>2. Len(rest) \in Nat /\ Len(rest) > 0
      BY <1>3, <1>4, LenProperties, EmptySeq
    <3>3. Len(t) = Len(rest) - 1 /\ \A i \in 1 .. Len(t) : t[i] = rest[i + 1]
      BY <1>3, <1>4, HeadTailProperties
    <3>4. e = rest[1]
      BY <1>3, <1>4
    <3> DEFINE b == <<e>>
               u == b \o t
    <3>5. b \in Seq(EventType) /\ Len(b) = 1 /\ b[1] = e
      BY <3>1
    <3> HIDE DEF e, t, b
    <3>6. /\ u \in Seq(EventType) /\ Len(u) = 1 + Len(t)
          /\ \A i \in 1 .. 1 + Len(t) : u[i] = IF i <= 1 THEN b[i] ELSE t[i - 1]
      <4>1. /\ b \o t \in Seq(EventType) /\ Len(b \o t) = Len(b) + Len(t)
            /\ \A i \in 1 .. Len(b) + Len(t) :
                  (b \o t)[i] = IF i <= Len(b) THEN b[i] ELSE t[i - Len(b)]
        BY <2>1, <3>5, ConcatProperties
      <4> QED
        BY <3>5, <4>1
    <3> HIDE DEF u
    <3>7. Len(u) = Len(rest)
      BY <3>2, <3>3, <3>6
    <3>8. ASSUME NEW i \in 1 .. Len(rest) PROVE rest[i] = u[i]
      <4>1. i \in 1 .. 1 + Len(t)
        BY <3>6, <3>7
      <4>2. CASE i <= 1
        <5>1. i = 1
          BY <3>2, <4>2
        <5> QED
          BY <3>4, <3>5, <3>6, <4>1, <5>1
      <4>3. CASE ~(i <= 1)
        <5>1. i - 1 \in 1 .. Len(t) /\ (i - 1) + 1 = i
          BY <3>2, <3>3, <4>3
        <5>2. t[i - 1] = rest[(i - 1) + 1]
          BY <3>3, <5>1
        <5> QED
          BY <3>6, <4>1, <4>3, <5>1, <5>2
      <4> QED
        BY <4>2, <4>3
    <3>9. rest = u
      BY <1>4, <3>6, <3>7, <3>8, SeqEqual
    <3> QED
      BY <3>9 DEF u, b
  <2> QED
    BY <2>1, <2>2
<1>6. parser' = AfterEvent(parser, e) /\ events' = t
  BY <1>3 DEF ReadEvent
<1> HIDE DEF e, t
<1>7. Handed(document, more, t)
  <2>1. <<e>> \in Seq(EventType)
    BY <1>5
  <2>2. more \in Seq(EventType)
    BY <1>4, <2>1, ConcatProperties
  <2>3. more \o t = done \o (<<e>> \o t)
    BY <1>4, <1>5, <2>1, ConcatAssociative
  <2> QED
    BY <1>4, <1>5, <2>2, <2>3 DEF Handed
<1>8. parser' = Run(Fresh, more)
  <2>1. <<e>> \in Seq(EventType)
    BY <1>5
  <2>2. Run(Fresh, more) = Run(Run(Fresh, done), <<e>>)
    BY <1>4, <2>1, FreshType, RunConcat
  <2>3. Run(Run(Fresh, done), <<e>>) = Taken(Run(Fresh, done), e)
    BY <1>4, <1>5, FreshType, RunType, RunOne
  <2>4. Taken(parser, e) = AfterEvent(parser, e)
    BY <1>1 DEF Taken, Reading
  <2> QED
    BY <1>2, <1>6, <2>2, <2>3, <2>4
<1> HIDE DEF more
<1>9. parser'.code # "Ok"
  <2>1. Run(Fresh, more) \in ParserType
    BY <1>7, FreshType, RunType DEF Handed
  <2> QED
    BY <1>8, <2>1 DEF ParserType
<1>10. CutDeletesOnlyNamed'
  BY <1>9 DEF CutDeletesOnlyNamed
<1>11. DeleteReadAsWritten'
  <2>1. parser'.code # "reading" => ~Valid(document)
    BY <1>3, <1>7, <1>8, StoppedEarly DEF Handed
  <2>2. parser'.code # "reading" => ~Valid(document')
    BY <1>1, <2>1
  <2> QED
    BY <1>9, <2>2 DEF DeleteReadAsWritten, Reading
<1> QED
  BY <1>1, <1>3, <1>6, <1>7, <1>8, <1>10, <1>11 DEF ReadingInv

LEMMA EndOfEventsStep ==
    ASSUME ReadingInv, part = "delete", part' = part, EndOfEvents
    PROVE  ReadingInv'
<1>1. Reading /\ events = <<>> /\ document' = document /\ cut' = cut
  BY DEF EndOfEvents
<1>2. PICK done, rest : /\ Handed(document, done, rest)
                        /\ parser = Run(Fresh, done)
                        /\ ~cut => events = rest
  BY <1>1 DEF ReadingInv
<1>3. /\ done \in Seq(EventType) /\ rest \in Seq(EventType) /\ Events(document) = done \o rest
      /\ document \in DocumentType
  BY <1>2 DEF Handed, ReadingInv
<1> DEFINE bad == ~parser.saw_root \/ parser.objects = <<>> \/ Len(parser.objects) > MAX_MULTI_DELETE
<1>4. parser \in ParserType
  BY <1>2, <1>3, FreshType, RunType
<1>5. /\ parser'.code = IF bad THEN "MalformedXML" ELSE "Ok"
      /\ parser'.objects = parser.objects /\ parser'.quiet = parser.quiet
  <2>1. parser' = [parser EXCEPT !.code = IF bad THEN "MalformedXML" ELSE "Ok"]
    BY DEF EndOfEvents
  <2> HIDE DEF bad
  <2> QED
    BY <1>4, <2>1 DEF ParserType
<1>6. ~Reading'
  <2>1. parser'.code # "reading"
    BY <1>5
  <2> QED
    BY <2>1 DEF Reading
<1>7. CutDeletesOnlyNamed'
  <2>1. ASSUME parser'.code = "Ok" PROVE IsPrefix(parser.objects, Asked(document.roots[1]))
    <3>1. parser.objects # <<>>
      BY <1>5, <2>1
    <3> QED
      BY <1>2, <1>3, <3>1, NamedSoFar
  <2> QED
    BY <1>1, <1>5, <2>1 DEF CutDeletesOnlyNamed
<1>8. DeleteReadAsWritten'
  <2>1. CASE cut
    <3>1. cut'
      BY <1>1, <2>1
    <3> QED
      BY <3>1 DEF DeleteReadAsWritten
  <2>2. CASE ~cut
    <3>1. rest = <<>>
      BY <1>1, <1>2, <2>2
    <3>2. parser = Run(Fresh, Events(document))
      <4>1. done \o <<>> = done
        BY <1>3, ConcatEmptySeq
      <4> QED
        BY <1>2, <1>3, <3>1, <4>1
    <3>3. /\ Valid(document) <=> ~bad
          /\ Valid(document) => /\ parser.objects = Asked(document.roots[1])
                                /\ parser.quiet = AskedQuiet(document.roots[1])
      BY <1>1, <1>3, <3>2, EndIs DEF Reading
    <3> HIDE DEF bad
    <3>4. /\ (parser'.code = "Ok") <=> Valid(document)
          /\ parser'.code = "Ok" => /\ parser'.objects = Asked(document.roots[1])
                                    /\ parser'.quiet = AskedQuiet(document.roots[1])
      BY <1>5, <3>3
    <3> QED
      BY <1>1, <3>4 DEF DeleteReadAsWritten
  <2> QED
    BY <2>1, <2>2
<1> QED
  BY <1>1, <1>3, <1>6, <1>7, <1>8 DEF ReadingInv

LEMMA ReaderErrorStep ==
    ASSUME ReadingInv, part = "delete", part' = part, ReaderError
    PROVE  ReadingInv'
<1>1. Reading /\ events = <<>> /\ parser.path # <<>> /\ document' = document /\ cut' = cut
  BY DEF ReaderError
<1>2. PICK done, rest : /\ Handed(document, done, rest)
                        /\ parser = Run(Fresh, done)
                        /\ ~cut => events = rest
  BY <1>1 DEF ReadingInv
<1>3. /\ done \in Seq(EventType) /\ rest \in Seq(EventType) /\ Events(document) = done \o rest
      /\ document \in DocumentType
  BY <1>2 DEF Handed, ReadingInv
<1>4. parser \in ParserType
  BY <1>2, <1>3, FreshType, RunType
<1>5. parser'.code = "MalformedXML"
  <2>1. parser' = Stopped(parser)
    BY DEF ReaderError
  <2> QED
    BY <1>4, <2>1 DEF ParserType, Stopped
<1>6. cut
  <2> SUFFICES ASSUME ~cut PROVE FALSE
    OBVIOUS
  <2>1. done \o <<>> = done
    BY <1>3, ConcatEmptySeq
  <2>2. parser = Run(Fresh, Events(document))
    BY <1>1, <1>2, <1>3, <2>1
  <2> QED
    BY <1>1, <1>3, <2>2, EndIs DEF Reading
<1>7. CutDeletesOnlyNamed' /\ ~Reading'
  <2>1. parser'.code # "Ok" /\ parser'.code # "reading"
    BY <1>5
  <2> QED
    BY <2>1 DEF CutDeletesOnlyNamed, Reading
<1>8. DeleteReadAsWritten'
  <2>1. cut'
    BY <1>1, <1>6
  <2> QED
    BY <2>1 DEF DeleteReadAsWritten
<1> QED
  BY <1>1, <1>3, <1>7, <1>8 DEF ReadingInv

LEMMA BreakOffStep ==
    ASSUME ReadingInv, part = "delete", part' = part, BreakOff
    PROVE  ReadingInv'
<1>1. Reading /\ document' = document /\ parser' = parser /\ cut' = TRUE /\ events' = <<>>
  BY DEF BreakOff
<1>2. PICK done, rest : Handed(document, done, rest) /\ parser = Run(Fresh, done)
  BY <1>1 DEF ReadingInv
<1>3. Reading' /\ CutDeletesOnlyNamed' /\ DeleteReadAsWritten'
  <2>1. parser'.code = "reading" /\ parser'.code # "Ok"
    BY <1>1 DEF Reading
  <2> QED
    BY <2>1 DEF Reading, CutDeletesOnlyNamed, DeleteReadAsWritten
<1>4. document \in DocumentType
  BY DEF ReadingInv
<1> QED
  BY <1>1, <1>2, <1>3, <1>4 DEF ReadingInv

LEMMA ReadingStep == ReadingInv /\ [Next]_vars => ReadingInv'
<1> SUFFICES ASSUME ReadingInv, [Next]_vars PROVE ReadingInv'
  OBVIOUS
<1>1. CASE part = "delete" /\ DeleteNext /\ part' = part
  BY <1>1, ReadEventStep, EndOfEventsStep, ReaderErrorStep, BreakOffStep DEF DeleteNext
<1>2. CASE UNCHANGED <<part, deleteVars>>
  <2>1. document' = document /\ events' = events /\ cut' = cut /\ parser' = parser /\ part' = part
    BY <1>2 DEF deleteVars
  <2>2. Reading' <=> Reading
    BY <2>1 DEF Reading
  <2>3. DeleteReadAsWritten' /\ CutDeletesOnlyNamed'
    BY <2>1 DEF ReadingInv, DeleteReadAsWritten, CutDeletesOnlyNamed, Reading
  <2> QED
    BY <2>1, <2>2, <2>3 DEF ReadingInv
<1>3. (part = "delete" /\ DeleteNext /\ part' = part) \/ UNCHANGED <<part, deleteVars>>
  BY DEF Next, vars
<1> QED
  BY <1>1, <1>2, <1>3

(***************************************************************************)
(* A document that arrives whole is accepted exactly when it is a Delete   *)
(* list of one to MAX_MULTI_DELETE objects with a key each, and is read as *)
(* its tree says (xml.rs parse_delete_request), for every document.        *)
(***************************************************************************)
THEOREM DeleteListsRead == Spec => []DeleteReadAsWritten
<1>1. ReadingInv => DeleteReadAsWritten
  BY DEF ReadingInv
<1> QED
  BY <1>1, ReadingInitOK, ReadingStep, PTL DEF Spec

(***************************************************************************)
(* Wherever the body of a DeleteObjects request breaks off, the objects    *)
(* the parser hands over are the first ones the whole document asks for.   *)
(***************************************************************************)
THEOREM CutListsDelete == Spec => []CutDeletesOnlyNamed
<1>1. ReadingInv => CutDeletesOnlyNamed
  BY DEF ReadingInv
<1> QED
  BY <1>1, ReadingInitOK, ReadingStep, PTL DEF Spec

=============================================================================
