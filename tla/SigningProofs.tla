---------------------------- MODULE SigningProofs ----------------------------
(***************************************************************************)
(* What a signature says: an accepted request is handled as its client     *)
(* meant it, and every spelling of what the client meant is accepted, for  *)
(* any intents, any number of query parameters and texts of any length.    *)
(***************************************************************************)
EXTENDS InputProofs

-----------------------------------------------------------------------------
(***************************************************************************)
(* Signed requests.  Split is a loop over the tokens; a string that was    *)
(* joined from parts splits into them.                                     *)
(***************************************************************************)
Tokens == Seq(WireToken)
TokenLists  == Seq(Tokens) \ {<<>>}

Amp == Raw("&")
Equals == Raw("=")

\* The parts after one token more.
AfterToken(ps, t, sep) ==
    IF t = sep THEN Append(ps, <<>>) ELSE [ps EXCEPT ![Len(ps)] = Append(@, t)]

\* A text of tokens is an array of them.
LEMMA TokensAre ==
    /\ Amp \in WireToken /\ Equals \in WireToken /\ Amp # Equals
    /\ \A t \in WireToken : t = [esc |-> t.esc, c |-> t.c] /\ t.c \in Char /\ t.esc \in BOOLEAN
    /\ \A c \in Char : Raw(c) \in WireToken /\ Esc(c) \in WireToken
<1>1. "&" \in Char /\ "=" \in Char /\ "&" # "="
  BY DEF Char
<1>2. \A c \in Char : Raw(c) \in WireToken /\ Esc(c) \in WireToken /\ Raw(c).c = c
  BY DEF Raw, Esc, WireToken
<1>3. \A t \in WireToken : t = [esc |-> t.esc, c |-> t.c] /\ t.c \in Char /\ t.esc \in BOOLEAN
  BY DEF WireToken
<1>4. Amp \in WireToken /\ Equals \in WireToken /\ Amp.c = "&" /\ Equals.c = "="
  BY <1>1, <1>2 DEF Amp, Equals
<1> QED
  BY <1>1, <1>2, <1>3, <1>4

\* One turn of the splitting loop leaves a list of texts.
LEMMA AfterTokenIs ==
    ASSUME NEW ps \in TokenLists, NEW t \in WireToken, NEW sep
    PROVE  /\ Len(ps) \in Nat /\ Len(ps) >= 1 /\ ps[Len(ps)] \in Tokens
           /\ AfterToken(ps, t, sep) \in TokenLists
           /\ t = sep => AfterToken(ps, t, sep) = Append(ps, <<>>)
           /\ t # sep => /\ Len(AfterToken(ps, t, sep)) = Len(ps)
                         /\ \A i \in 1 .. Len(ps) - 1 : AfterToken(ps, t, sep)[i] = ps[i]
                         /\ AfterToken(ps, t, sep)[Len(ps)] = Append(ps[Len(ps)], t)
<1> DEFINE l == Len(ps)
           e == Append(ps[l], t)
           qs == [ps EXCEPT ![l] = e]
<1>1. ps \in Seq(Tokens) /\ l \in Nat /\ l >= 1
  BY LenProperties, EmptySeq DEF TokenLists
<1>2. l \in 1 .. l /\ ps[l] \in Tokens
  BY <1>1, ElementOfSeq
<1>3. e \in Tokens
  BY <1>2, AppendProperties DEF Tokens
<1> HIDE DEF e
<1>4. /\ qs \in Seq(Tokens) /\ Len(qs) = l
      /\ \A j \in 1 .. l : qs[j] = IF j = l THEN e ELSE ps[j]
  BY <1>1, <1>2, <1>3, ExceptSeq
<1>5. qs \in TokenLists
  BY <1>1, <1>4, EmptySeq DEF TokenLists
<1>6. Append(ps, <<>>) \in TokenLists
  <2>1. <<>> \in Tokens
    BY DEF Tokens
  <2> DEFINE o == Append(ps, <<>>)
  <2>2. o \in Seq(Tokens) /\ Len(o) = l + 1
    BY <1>1, <2>1, AppendProperties
  <2> HIDE DEF o
  <2>3. o # <<>>
    BY <1>1, <2>2, EmptySeq
  <2> QED
    BY <2>2, <2>3 DEF o, TokenLists
<1>7. AfterToken(ps, t, sep) = IF t = sep THEN Append(ps, <<>>) ELSE qs
  BY DEF AfterToken, e
<1> HIDE DEF qs
<1>8. \A j \in 1 .. l - 1 : j \in 1 .. l /\ j # l
  BY <1>1
<1> HIDE DEF l
<1>9. t # sep => /\ Len(AfterToken(ps, t, sep)) = l
                 /\ \A i \in 1 .. l - 1 : AfterToken(ps, t, sep)[i] = ps[i]
                 /\ AfterToken(ps, t, sep)[l] = e
  BY <1>2, <1>4, <1>7, <1>8
<1> QED
  BY <1>1, <1>2, <1>5, <1>6, <1>7, <1>9 DEF l, e

\* Split is a loop over the tokens.
LEMMA SplitIs ==
    ASSUME NEW ts \in Tokens, NEW sep
    PROVE  \E f \in [0 .. Len(ts) -> TokenLists] :
              /\ f[0] = <<<<>>>>
              /\ \A i \in 1 .. Len(ts) : f[i] = AfterToken(f[i - 1], ts[i], sep)
              /\ Split(ts, sep) = f[Len(ts)]
<1> DEFINE n == Len(ts)
           b == <<<<>>>>
           turn == [q \in (1 .. n) \X TokenLists |-> AfterToken(q[2], ts[q[1]], sep)]
           g == CHOOSE e : e = [i \in 0 .. n |-> IF i = 0 THEN b ELSE AfterToken(e[i - 1], ts[i], sep)]
<1>1. Split(ts, sep) = g[n]
  BY DEF Split, AfterToken
<1>2. n \in Nat /\ \A i \in 1 .. n : ts[i] \in WireToken
  BY LenProperties, ElementOfSeq DEF Tokens
<1>3. b \in TokenLists
  BY DEF TokenLists, Tokens
<1>4. /\ turn \in [(1 .. n) \X TokenLists -> TokenLists]
      /\ \A i \in 1 .. n, q \in TokenLists : turn[<<i, q>>] = AfterToken(q, ts[i], sep)
  <2> HIDE DEF n
  <2> QED
    BY <1>2, AfterTokenIs
<1> HIDE DEF turn, n, b
<1>5. PICK f : IsLoop(f, turn, b, n, TokenLists)
  BY <1>2, <1>3, <1>4, LoopExists
<1>6. /\ f \in [0 .. n -> TokenLists] /\ f[0] = b
      /\ \A i \in 1 .. n : f[i] = AfterToken(f[i - 1], ts[i], sep)
  <2>1. f \in [0 .. n -> TokenLists] /\ f[0] = b /\ \A i \in 1 .. n : f[i] = turn[<<i, f[i - 1]>>]
    BY <1>5 DEF IsLoop
  <2>2. \A i \in 1 .. n : i - 1 \in 0 .. n
    BY <1>2
  <2> QED
    BY <1>4, <2>1, <2>2
<1>7. f = [i \in 0 .. n |-> IF i = 0 THEN b ELSE AfterToken(f[i - 1], ts[i], sep)]
  <2>1. \A i \in 0 .. n : f[i] = IF i = 0 THEN b ELSE AfterToken(f[i - 1], ts[i], sep)
    BY <1>2, <1>6
  <2> QED
    BY <1>6, <2>1
<1>8. g = [i \in 0 .. n |-> IF i = 0 THEN b ELSE AfterToken(g[i - 1], ts[i], sep)]
  BY <1>7
<1> HIDE DEF g
<1>9. g[0] = b /\ \A i \in 1 .. n : g[i] = AfterToken(g[i - 1], ts[i], sep)
  <2>1. 0 \in 0 .. n /\ \A i \in 1 .. n : i \in 0 .. n /\ i # 0
    BY <1>2
  <2> QED
    BY <1>8, <2>1
<1>10. g \in [0 .. n -> TokenLists]
  <2> DEFINE T == {i \in 0 .. n : g[i] \in TokenLists}
  <2>1. 0 \in T
    BY <1>2, <1>3, <1>9
  <2>2. ASSUME NEW i \in 1 .. n, i - 1 \in T PROVE i \in T
    <3>1. i \in 0 .. n
      BY <1>2
    <3> QED
      BY <1>2, <1>9, <2>2, <3>1, AfterTokenIs
  <2> HIDE DEF T
  <2>3. \A i \in 0 .. n : i \in T
    BY <1>2, <2>1, <2>2, CountUp
  <2>4. \A i \in 0 .. n : g[i] \in TokenLists
    BY <2>3 DEF T
  <2> QED
    BY <1>8, <2>4
<1> QED
  BY <1>1, <1>9, <1>10 DEF n, b

\* Whatever runs like that loop computes what Split does.
LEMMA SplitUnique ==
    ASSUME NEW ts \in Tokens, NEW sep, NEW f, f[0] = <<<<>>>>,
           \A i \in 1 .. Len(ts) : f[i] = AfterToken(f[i - 1], ts[i], sep)
    PROVE  Split(ts, sep) = f[Len(ts)]
<1> DEFINE n == Len(ts)
<1>1. n \in Nat
  BY LenProperties DEF Tokens
<1>2. PICK g \in [0 .. n -> TokenLists] :
         /\ g[0] = <<<<>>>> /\ (\A i \in 1 .. n : g[i] = AfterToken(g[i - 1], ts[i], sep))
         /\ Split(ts, sep) = g[n]
  BY SplitIs
<1> DEFINE T == {i \in 0 .. n : f[i] = g[i]}
<1>3. 0 \in T
  BY <1>1, <1>2
<1>4. ASSUME NEW i \in 1 .. n, i - 1 \in T PROVE i \in T
  <2>1. i \in 0 .. n /\ f[i - 1] = g[i - 1]
    BY <1>1, <1>4
  <2> QED
    BY <1>2, <2>1
<1> HIDE DEF T
<1>5. \A i \in 0 .. n : i \in T
  BY <1>1, <1>3, <1>4, CountUp
<1>6. n \in T
  BY <1>1, <1>5
<1> QED
  BY <1>2, <1>6 DEF T

\* Split gives one text at least.
LEMMA SplitType ==
    ASSUME NEW ts \in Tokens, NEW sep
    PROVE  Split(ts, sep) \in TokenLists
<1>1. PICK f \in [0 .. Len(ts) -> TokenLists] : Split(ts, sep) = f[Len(ts)]
  BY SplitIs
<1>2. Len(ts) \in 0 .. Len(ts)
  BY LenProperties DEF Tokens
<1> QED
  BY <1>1, <1>2

\* Nothing splits into one empty text.
LEMMA SplitNone == \A sep : Split(<<>>, sep) = <<<<>>>>
<1> TAKE sep
<1> DEFINE ts == <<>>
<1>1. ts \in Tokens /\ Len(ts) = 0
  BY DEF Tokens
<1> HIDE DEF ts
<1>2. PICK f \in [0 .. Len(ts) -> TokenLists] : f[0] = <<<<>>>> /\ Split(ts, sep) = f[Len(ts)]
  BY <1>1, SplitIs, ZenonT(40)
<1> QED
  BY <1>1, <1>2 DEF ts

\* Split of a text with one token more.
LEMMA SplitAppend ==
    ASSUME NEW ts \in Tokens, NEW t \in WireToken, NEW sep
    PROVE  Split(Append(ts, t), sep) = AfterToken(Split(ts, sep), t, sep)
<1> DEFINE n == Len(ts)
           us == Append(ts, t)
<1>1. n \in Nat
  BY LenProperties DEF Tokens
<1>2. us \in Tokens /\ Len(us) = n + 1 /\ us[n + 1] = t /\ \A i \in 1 .. n : us[i] = ts[i]
  BY AppendProperties DEF Tokens
<1> HIDE DEF us, n
<1>3. PICK f \in [0 .. n + 1 -> TokenLists] :
         /\ f[0] = <<<<>>>> /\ (\A i \in 1 .. n + 1 : f[i] = AfterToken(f[i - 1], us[i], sep))
         /\ Split(us, sep) = f[n + 1]
  <2>1. \E f \in [0 .. Len(us) -> TokenLists] :
           /\ f[0] = <<<<>>>> /\ (\A i \in 1 .. Len(us) : f[i] = AfterToken(f[i - 1], us[i], sep))
           /\ Split(us, sep) = f[Len(us)]
    BY <1>2, SplitIs, ZenonT(40)
  <2>2. Len(us) = n + 1
    BY <1>2
  <2> QED
    BY ONLY <2>1, <2>2
<1>4. \A i \in 1 .. n : i \in 1 .. n + 1
  BY <1>1
<1>5. \A i \in 1 .. n : f[i] = AfterToken(f[i - 1], ts[i], sep)
  BY <1>2, <1>3, <1>4
<1>6. Split(ts, sep) = f[n]
  BY <1>3, <1>5, SplitUnique, ZenonT(40) DEF n
<1>7. n + 1 \in 1 .. n + 1 /\ (n + 1) - 1 = n
  BY <1>1
<1>8. f[n + 1] = AfterToken(f[n], t, sep)
  BY <1>2, <1>3, <1>7
<1> QED
  BY <1>3, <1>6, <1>8 DEF us

\* The last element of a list, appended to.
LEMMA AppendLast ==
    ASSUME NEW S, NEW s \in Seq(S), NEW k \in 1 .. Len(s)
    PROVE  /\ SubSeq(s, 1, k - 1) \in Seq(S) /\ s[k] \in S
           /\ SubSeq(s, 1, k) = Append(SubSeq(s, 1, k - 1), s[k])
<1>1. Len(s) \in Nat /\ k \in Nat /\ k >= 1 /\ k - 1 \in 0 .. Len(s)
  BY LenProperties
<1>2. s[k] \in S
  BY ElementOfSeq
<1>3. SubSeq(s, 1, k - 1) \in Seq(S)
  <2>1. \A i \in 1 .. k - 1 : s[i] \in S
    BY <1>1, ElementOfSeq
  <2> QED
    BY <1>1, <2>1, SubSeqProperties
<1>4. SubSeq(s, 1, k) = SubSeq(s, 1, k - 1) \o <<s[k]>>
  <2>1. 1 \in 1 .. Len(s) /\ k \in 1 .. Len(s)
    BY <1>1
  <2> QED
    BY <2>1, SubSeqRecursiveSecond
<1> QED
  BY <1>2, <1>3, <1>4, AppendIsConcat

\* Appending to a text that ends another one.
LEMMA ConcatAppend ==
    ASSUME NEW S, NEW a \in Seq(S), NEW p \in Seq(S), NEW t \in S
    PROVE  /\ a \o p \in Seq(S)
           /\ a \o Append(p, t) = Append(a \o p, t)
<1>1. a \o p \in Seq(S)
  BY ConcatProperties
<1>2. <<t>> \in Seq(S)
  OBVIOUS
<1>3. Append(p, t) = p \o <<t>>
  BY AppendIsConcat
<1>4. Append(a \o p, t) = (a \o p) \o <<t>>
  BY <1>1, AppendIsConcat
<1>5. (a \o p) \o <<t>> = a \o (p \o <<t>>)
  BY <1>2, ConcatAssociative
<1> QED
  BY <1>1, <1>3, <1>4, <1>5

\* qs is ps with x at the end of its last part.
LastGrows(ps, qs, x) ==
    /\ Len(qs) = Len(ps)
    /\ \A i \in 1 .. Len(ps) - 1 : qs[i] = ps[i]
    /\ qs[Len(ps)] = ps[Len(ps)] \o x

\* What holds no separator belongs to the last part.
LEMMA SplitConcat ==
    ASSUME NEW a \in Tokens, NEW b \in Tokens, NEW sep, \A i \in 1 .. Len(b) : b[i] # sep
    PROVE  LastGrows(Split(a, sep), Split(a \o b, sep), b)
<1> DEFINE n == Len(b)
           s == Split(a, sep)
           x(k) == SubSeq(b, 1, k)
           T == {k \in 0 .. n : LastGrows(s, Split(a \o x(k), sep), x(k))}
<1>1. n \in Nat /\ s \in TokenLists /\ Len(s) \in Nat /\ Len(s) >= 1 /\ s[Len(s)] \in Tokens
  <2>1. n \in Nat /\ s \in TokenLists
    BY LenProperties, SplitType DEF Tokens
  <2> HIDE DEF s
  <2>2. PICK t \in WireToken : t = Amp
    BY TokensAre
  <2>3. Len(s) \in Nat /\ Len(s) >= 1 /\ s[Len(s)] \in Tokens
    BY <2>1, <2>2, AfterTokenIs
  <2> QED
    BY <2>1, <2>3
<1> HIDE DEF s
<1>2. 0 \in T
  <2>1. x(0) = <<>>
    BY SubSeqEmpty
  <2>2. a \o <<>> = a /\ s[Len(s)] \o <<>> = s[Len(s)]
    BY <1>1, ConcatEmptySeq DEF Tokens
  <2>3. Split(a \o x(0), sep) = s
    BY <2>1, <2>2 DEF s
  <2>4. LastGrows(s, s, <<>>)
    BY <2>2 DEF LastGrows
  <2> HIDE DEF x
  <2> QED
    BY <1>1, <2>1, <2>3, <2>4
<1>3. ASSUME NEW k \in 1 .. n, k - 1 \in T PROVE k \in T
  <2>1. k \in 0 .. n
    BY <1>1
  <2>2. x(k - 1) \in Tokens /\ b[k] \in WireToken /\ x(k) = Append(x(k - 1), b[k])
    BY AppendLast DEF Tokens
  <2>3. LastGrows(s, Split(a \o x(k - 1), sep), x(k - 1))
    BY <1>3
  <2> DEFINE y == x(k - 1)
             t == b[k]
             r == Split(a \o y, sep)
             q == Split(a \o x(k), sep)
  <2> HIDE DEF x, T
  <2>4. a \o y \in Tokens /\ a \o x(k) = Append(a \o y, t)
    <3>1. y \in Seq(WireToken) /\ t \in WireToken /\ a \in Seq(WireToken)
      BY <2>2 DEF Tokens
    <3>2. x(k) = Append(y, t)
      BY <2>2
    <3> HIDE DEF y, t
    <3>3. a \o y \in Seq(WireToken) /\ a \o Append(y, t) = Append(a \o y, t)
      BY <3>1, ConcatAppend
    <3> QED
      BY <3>2, <3>3, Zenon DEF Tokens
  <2>5. q = AfterToken(r, t, sep) /\ r \in TokenLists /\ t \in WireToken
    <3>1. Split(Append(a \o y, t), sep) = AfterToken(Split(a \o y, sep), t, sep)
      <4> HIDE DEF y, t
      <4> QED
        BY <2>2, <2>4, SplitAppend DEF y, t
    <3>2. r \in TokenLists
      BY <2>4, SplitType
    <3> QED
      BY <2>2, <2>4, <3>1, <3>2
  <2>6. t # sep
    OBVIOUS
  <2>7. LastGrows(s, r, y) /\ y \in Tokens /\ x(k) = Append(y, t)
    BY <2>2, <2>3
  <2> HIDE DEF y, t, r, q
  <2>8. /\ Len(q) = Len(r) /\ q[Len(r)] = Append(r[Len(r)], t)
        /\ \A i \in 1 .. Len(r) - 1 : q[i] = r[i]
    BY <2>5, <2>6, AfterTokenIs
  <2>9. s[Len(s)] \o Append(y, t) = Append(s[Len(s)] \o y, t)
    <3> DEFINE e == s[Len(s)]
    <3>1. e \in Seq(WireToken) /\ y \in Seq(WireToken) /\ t \in WireToken
      BY <1>1, <2>5, <2>7 DEF Tokens
    <3> HIDE DEF e
    <3>2. e \o Append(y, t) = Append(e \o y, t)
      BY <3>1, ConcatAppend
    <3> QED
      BY <3>2 DEF e
  <2>10. LastGrows(s, q, x(k))
    BY <2>7, <2>8, <2>9 DEF LastGrows
  <2> QED
    BY <2>1, <2>10 DEF T, q
<1> HIDE DEF T
<1>4. \A k \in 0 .. n : k \in T
  BY <1>1, <1>2, <1>3, CountUp
<1>5. n \in T
  BY <1>1, <1>4
<1>6. x(n) = b
  BY SubSeqFull DEF Tokens
<1> QED
  BY <1>5, <1>6 DEF T, s

\* The tokens that the part i of a string joined from ps adds to it.
PartOf(ps, i) == (IF i > 1 THEN <<Amp>> ELSE <<>>) \o ps[i]

\* Join as the loop over its parts.
LEMMA JoinIs ==
    ASSUME NEW ps \in Seq(Tokens)
    PROVE  \E f \in [0 .. Len(ps) -> Tokens] :
              /\ f[0] = <<>>
              /\ \A i \in 1 .. Len(ps) : f[i] = f[i - 1] \o PartOf(ps, i)
              /\ Join(ps) = f[Len(ps)]
<1> DEFINE n == Len(ps)
           s == [i \in DOMAIN ps |-> PartOf(ps, i)]
<1>1. n \in Nat /\ DOMAIN ps = 1 .. n /\ \A i \in 1 .. n : ps[i] \in Tokens
  BY LenProperties, ElementOfSeq
<1>2. <<Amp>> \in Tokens /\ <<>> \in Tokens
  BY TokensAre DEF Tokens
<1>3. \A i \in 1 .. n : PartOf(ps, i) \in Tokens
  <2> TAKE i \in 1 .. n
  <2> DEFINE c == IF i > 1 THEN <<Amp>> ELSE <<>>
  <2>1. c \in Seq(WireToken) /\ ps[i] \in Seq(WireToken)
    BY <1>1, <1>2 DEF Tokens
  <2> HIDE DEF c
  <2>2. c \o ps[i] \in Seq(WireToken)
    BY <2>1, ConcatProperties
  <2> QED
    BY <2>2 DEF Tokens, PartOf, c
<1>4. s \in Seq(Tokens) /\ Len(s) = n /\ \A i \in 1 .. n : s[i] = PartOf(ps, i)
  BY <1>1, <1>3
<1>5. Join(ps) = FlattenSeq(s)
  BY DEF Join, PartOf, Amp
<1> HIDE DEF s, n
<1>6. PICK f : IsFlat(f, s, n, WireToken)
  <2>1. n \in 0 .. Len(s) /\ s \in Seq(Seq(WireToken))
    BY <1>1, <1>4 DEF Tokens
  <2> QED
    BY <2>1, FlatExists
<1>7. FlattenSeq(s) = f[n]
  <2>1. s \in Seq(Seq(WireToken)) /\ IsFlat(f, s, Len(s), WireToken)
    BY <1>4, <1>6 DEF Tokens
  <2>2. FlattenSeq(s) = f[Len(s)]
    BY <2>1, FlattenIs
  <2> QED
    BY <1>4, <2>2
<1>8. /\ f \in [0 .. n -> Tokens] /\ f[0] = <<>>
      /\ \A i \in 1 .. n : f[i] = f[i - 1] \o PartOf(ps, i)
  BY <1>4, <1>6 DEF IsFlat, Tokens
<1> QED
  BY <1>5, <1>7, <1>8 DEF n

\* What was joined from parts without a separator splits into these parts.
LEMMA SplitJoin ==
    ASSUME NEW ps \in TokenLists,
           \A i \in 1 .. Len(ps) : \A j \in 1 .. Len(ps[i]) : ps[i][j] # Amp
    PROVE  Join(ps) \in Tokens /\ Split(Join(ps), Amp) = ps
<1> DEFINE n == Len(ps)
<1>1. n \in Nat /\ n >= 1 /\ ps \in Seq(Tokens) /\ \A i \in 1 .. n : ps[i] \in Tokens
  BY LenProperties, ElementOfSeq, EmptySeq DEF TokenLists
<1>2. PICK f \in [0 .. n -> Tokens] :
         /\ f[0] = <<>>
         /\ \A i \in 1 .. n : f[i] = f[i - 1] \o PartOf(ps, i)
         /\ Join(ps) = f[n]
  BY <1>1, JoinIs
<1> DEFINE R(k) == /\ Len(Split(f[k], Amp)) = k
                   /\ \A i \in 1 .. k : Split(f[k], Amp)[i] = ps[i]
           T == {k \in 0 .. n : k = 0 \/ R(k)}
<1>3. 0 \in T
  BY <1>1
<1>4. ASSUME NEW k \in 1 .. n, k - 1 \in T PROVE k \in T
  <2> DEFINE e == ps[k]
             a == f[k - 1]
             r == Split(a, Amp)
  <2>1. k \in 0 .. n /\ k - 1 \in 0 .. n /\ k \in Nat
    BY <1>1
  <2>2. e \in Tokens /\ a \in Tokens /\ f[k] = a \o PartOf(ps, k)
    BY <1>1, <1>2, <2>1
  <2>3. r \in TokenLists
    BY <2>2, SplitType
  <2>4. \A i \in 1 .. Len(e) : e[i] # Amp
    OBVIOUS
  <2>5. CASE k = 1
    <3>1. a = <<>> /\ PartOf(ps, k) = <<>> \o e
      BY <1>2, <2>5 DEF PartOf
    <3>2. <<>> \o e = e
      BY <2>2, ConcatEmptySeq DEF Tokens
    <3>3. f[k] = a \o e
      BY <2>2, <3>1, <3>2
    <3> HIDE DEF e, a
    <3>4. LastGrows(r, Split(f[k], Amp), e)
      BY <2>2, <2>4, <3>3, SplitConcat
    <3>5. r = <<<<>>>>
      BY <3>1, SplitNone
    <3> DEFINE q == Split(f[k], Amp)
    <3> HIDE DEF q, r
    <3>6. Len(q) = 1 /\ q[1] = <<>> \o e
      <4>1. Len(r) = 1 /\ r[1] = <<>>
        BY <3>5
      <4>2. Len(q) = Len(r) /\ q[Len(r)] = r[Len(r)] \o e
        BY <3>4 DEF LastGrows, q
      <4> QED
        BY ONLY <4>1, <4>2
    <3>7. R(k)
      <4>1. \A i \in 1 .. k : q[i] = ps[i]
        BY <2>5, <3>2, <3>6 DEF e
      <4> QED
        BY <2>5, <3>6, <4>1 DEF q
    <3> QED
      BY <2>1, <3>7
  <2>6. CASE k # 1
    <3>1. R(k - 1)
      BY <1>4, <2>1, <2>6
    <3>2. PartOf(ps, k) = <<Amp>> \o e
      <4>1. (IF k > 1 THEN <<Amp>> ELSE <<>>) = <<Amp>>
        BY <2>1, <2>6
      <4>2. PartOf(ps, k) = (IF k > 1 THEN <<Amp>> ELSE <<>>) \o ps[k]
        BY DEF PartOf
      <4> QED
        BY ONLY <4>1, <4>2
    <3> DEFINE b == Append(a, Amp)
    <3>3. Amp \in WireToken
      BY TokensAre
    <3>4. b \in Tokens /\ b = a \o <<Amp>>
      BY <2>2, <3>3, AppendProperties, AppendIsConcat DEF Tokens
    <3> HIDE DEF e, a
    <3>5. f[k] = b \o e
      <4>1. a \in Seq(WireToken) /\ <<Amp>> \in Seq(WireToken) /\ e \in Seq(WireToken)
        BY <2>2, <3>3 DEF Tokens
      <4>2. (a \o <<Amp>>) \o e = a \o (<<Amp>> \o e)
        BY <4>1, ConcatAssociative
      <4> QED
        BY <2>2, <3>2, <3>4, <4>2
    <3> DEFINE s == Split(b, Amp)
               q == Split(f[k], Amp)
    <3>6. s = Append(r, <<>>)
      <4>1. s = AfterToken(r, Amp, Amp)
        BY <2>2, <3>3, SplitAppend
      <4> QED
        BY <2>3, <3>3, <4>1, AfterTokenIs
    <3> HIDE DEF b
    <3>7. LastGrows(s, q, e)
      BY <2>2, <2>4, <3>4, <3>5, SplitConcat
    <3>8. Len(r) = k - 1 /\ \A i \in 1 .. k - 1 : r[i] = ps[i]
      BY <3>1 DEF a
    <3> HIDE DEF q, r, s
    <3>9. Len(s) = k /\ s[k] = <<>> /\ \A i \in 1 .. k - 1 : s[i] = ps[i]
      <4>1. r \in Seq(Tokens) /\ <<>> \in Tokens
        BY <2>3 DEF TokenLists, Tokens
      <4>2. Len(s) = Len(r) + 1 /\ s[Len(r) + 1] = <<>> /\ \A i \in 1 .. Len(r) : s[i] = r[i]
        BY <3>6, <4>1, AppendProperties
      <4>3. Len(r) + 1 = k
        BY <2>1, <3>8
      <4> QED
        BY <3>8, <4>2, <4>3
    <3>10. Len(q) = k /\ q[k] = <<>> \o e /\ \A i \in 1 .. k - 1 : q[i] = ps[i]
      BY <3>7, <3>9 DEF LastGrows
    <3>11. <<>> \o e = e
      BY <2>2, ConcatEmptySeq DEF Tokens
    <3>12. \A i \in 1 .. k : q[i] = ps[i]
      <4>1. \A i \in 1 .. k : i = k \/ i \in 1 .. k - 1
        BY <2>1
      <4> QED
        BY <3>10, <3>11, <4>1 DEF e
    <3>13. R(k)
      BY <3>10, <3>12 DEF q
    <3> QED
      BY <2>1, <3>13
  <2> QED
    BY <2>5, <2>6
<1> HIDE DEF T
<1>5. \A k \in 0 .. n : k \in T
  BY <1>1, <1>3, <1>4, CountUp
<1> DEFINE q == Split(f[n], Amp)
<1>6. n \in 0 .. n
  BY <1>1
<1>7. R(n)
  BY <1>1, <1>5, <1>6 DEF T
<1>8. f[n] \in Tokens
  BY <1>2, <1>6
<1>9. q \in Seq(Tokens)
  BY <1>8, SplitType DEF TokenLists
<1>10. q = ps
  <2>1. Len(q) = Len(ps) /\ \A i \in 1 .. Len(ps) : q[i] = ps[i]
    BY <1>7
  <2> HIDE DEF q, n
  <2> QED
    BY <1>1, <1>9, <2>1, SeqEqual
<1> QED
  BY <1>2, <1>8, <1>10

-----------------------------------------------------------------------------
(* Sorting *)

\* pi leads every element of s to its place in t.
Moves(pi, s, t) ==
    /\ Len(t) = Len(s)
    /\ pi \in [1 .. Len(s) -> 1 .. Len(s)]
    /\ \A i, j \in 1 .. Len(s) : pi[i] = pi[j] => i = j
    /\ \A j \in 1 .. Len(s) : \E i \in 1 .. Len(s) : pi[i] = j
    /\ \A i \in 1 .. Len(s) : t[pi[i]] = s[i]

\* Placed puts one element between the first n and the others.
LEMMA PlacedIs ==
    ASSUME NEW S, NEW s \in Seq(S), NEW p \in S
    PROVE  /\ Placed(p, s) \in Seq(S)
           /\ \E n \in 0 .. Len(s) :
                 Placed(p, s) = [i \in 1 .. Len(s) + 1 |->
                                   IF i <= n THEN s[i] ELSE IF i = n + 1 THEN p ELSE s[i - 1]]
<1> DEFINE m == Len(s)
           R == {i \in DOMAIN s : ~PairBefore(p, s[i])}
           n == Cardinality(R)
           q == [i \in 1 .. m + 1 |-> IF i <= n THEN s[i] ELSE IF i = n + 1 THEN p ELSE s[i - 1]]
<1>1. m \in Nat /\ DOMAIN s = 1 .. m /\ \A i \in 1 .. m : s[i] \in S
  BY LenProperties, ElementOfSeq
<1>2. n \in 0 .. m
  <2>1. IsFiniteSet(1 .. m) /\ Cardinality(1 .. m) = m
    <3>1. 1 \in Int /\ m \in Int
      BY <1>1
    <3>2. IsFiniteSet(1 .. m) /\ Cardinality(1 .. m) = IF 1 > m THEN 0 ELSE m - 1 + 1
      BY <3>1, FS_Interval
    <3> QED
      BY <1>1, <3>2
  <2>2. R \in SUBSET (1 .. m)
    BY <1>1
  <2> HIDE DEF R, m
  <2>3. IsFiniteSet(R) /\ Cardinality(R) <= Cardinality(1 .. m)
    BY <2>1, <2>2, FS_Subset
  <2>4. Cardinality(R) \in Nat
    BY <2>3, FS_CardinalityType
  <2> QED
    BY <1>1, <2>1, <2>3, <2>4
<1>3. Placed(p, s) = q
  BY DEF Placed
<1> HIDE DEF n, m
<1>4. \A i \in 1 .. m + 1 : q[i] \in S
  <2> TAKE i \in 1 .. m + 1
  <2>1. i <= n => i \in 1 .. m
    BY <1>1, <1>2
  <2>2. i > n /\ i # n + 1 => i - 1 \in 1 .. m
    BY <1>1, <1>2
  <2> QED
    BY <1>1, <1>2, <2>1, <2>2
<1>5. q \in Seq(S)
  BY <1>1, <1>4
<1> QED
  BY <1>2, <1>3, <1>5 DEF m

\* Placed as a rearrangement: of s with p at its end.
LEMMA PlacedMoves ==
    ASSUME NEW S, NEW r \in Seq(S), NEW s \in Seq(S), NEW p \in S, NEW pi, Moves(pi, r, s)
    PROVE  \E po : Moves(po, Append(r, p), Placed(p, s))
<1> DEFINE m == Len(r)
           t == Append(r, p)
           q == Placed(p, s)
<1>1. m \in Nat /\ Len(s) = m /\ Len(t) = m + 1 /\ t[m + 1] = p /\ \A i \in 1 .. m : t[i] = r[i]
  BY LenProperties, AppendProperties DEF Moves
<1>2. PICK n \in 0 .. m :
         q = [i \in 1 .. m + 1 |-> IF i <= n THEN s[i] ELSE IF i = n + 1 THEN p ELSE s[i - 1]]
  <2>1. \E n \in 0 .. Len(s) :
           q = [i \in 1 .. Len(s) + 1 |-> IF i <= n THEN s[i] ELSE IF i = n + 1 THEN p ELSE s[i - 1]]
    BY PlacedIs
  <2> HIDE DEF q, m
  <2> QED
    BY <1>1, <2>1
<1>3. /\ pi \in [1 .. m -> 1 .. m]
      /\ \A i, j \in 1 .. m : pi[i] = pi[j] => i = j
      /\ \A j \in 1 .. m : \E i \in 1 .. m : pi[i] = j
      /\ \A i \in 1 .. m : s[pi[i]] = r[i]
  BY DEF Moves
<1> DEFINE po == [i \in 1 .. m + 1 |->
                    IF i = m + 1 THEN n + 1 ELSE IF pi[i] <= n THEN pi[i] ELSE pi[i] + 1]
<1>4. Len(q) = m + 1
  BY <1>1, <1>2, LenProperties
<1> HIDE DEF m, q, t
<1>5. \A i \in 1 .. m + 1 : i = m + 1 \/ i \in 1 .. m
  BY <1>1
<1>6. \A i \in 1 .. m : pi[i] \in 1 .. m /\ i \in 1 .. m + 1 /\ i # m + 1
  BY <1>1, <1>3
<1>7. /\ po[m + 1] = n + 1
      /\ \A i \in 1 .. m : po[i] = IF pi[i] <= n THEN pi[i] ELSE pi[i] + 1
  <2>1. m + 1 \in 1 .. m + 1
    BY <1>1
  <2> QED
    BY <1>6, <2>1
<1> HIDE DEF po
<1>8. \A i \in 1 .. m + 1 : po[i] \in 1 .. m + 1
  BY <1>1, <1>5, <1>6, <1>7
<1>9. po \in [1 .. m + 1 -> 1 .. m + 1]
  BY <1>8 DEF po
<1>10. \A i, j \in 1 .. m + 1 : po[i] = po[j] => i = j
  <2> TAKE i, j \in 1 .. m + 1
  <2> HAVE po[i] = po[j]
  <2>1. CASE i \in 1 .. m /\ j \in 1 .. m
    <3>1. pi[i] = pi[j]
      BY <1>1, <1>6, <1>7, <2>1
    <3> QED
      BY <1>3, <2>1, <3>1
  <2>2. CASE i = m + 1 /\ j \in 1 .. m
    <3>1. po[i] = n + 1 /\ po[j] = (IF pi[j] <= n THEN pi[j] ELSE pi[j] + 1)
      BY <1>7, <2>2
    <3>2. n \in Int /\ pi[j] \in Int
      BY <1>1, <1>6, <2>2
    <3>3. (IF pi[j] <= n THEN pi[j] ELSE pi[j] + 1) # n + 1
      BY ONLY <3>2
    <3> QED
      BY <3>1, <3>3
  <2>3. CASE i \in 1 .. m /\ j = m + 1
    <3>1. po[j] = n + 1 /\ po[i] = (IF pi[i] <= n THEN pi[i] ELSE pi[i] + 1)
      BY <1>7, <2>3
    <3>2. n \in Int /\ pi[i] \in Int
      BY <1>1, <1>6, <2>3
    <3>3. (IF pi[i] <= n THEN pi[i] ELSE pi[i] + 1) # n + 1
      BY ONLY <3>2
    <3> QED
      BY <3>1, <3>3
  <2> QED
    BY <1>5, <2>1, <2>2, <2>3
<1>11. \A j \in 1 .. m + 1 : \E i \in 1 .. m + 1 : po[i] = j
  <2> TAKE j \in 1 .. m + 1
  <2>1. CASE j = n + 1
    BY <1>1, <1>7, <2>1
  <2>2. CASE j # n + 1
    <3> DEFINE e == IF j <= n THEN j ELSE j - 1
    <3>1. e \in 1 .. m /\ (j <= n => e = j) /\ (j > n => e = j - 1 /\ e > n)
      BY <1>1, <2>2
    <3>2. PICK i \in 1 .. m : pi[i] = e
      BY <1>3, <3>1
    <3>3. po[i] = j
      BY <1>1, <1>7, <3>1, <3>2
    <3> QED
      BY <1>6, <3>2, <3>3
  <2> QED
    BY <2>1, <2>2
<1>12. \A i \in 1 .. m + 1 : q[po[i]] = t[i]
  <2> TAKE i \in 1 .. m + 1
  <2>1. CASE i = m + 1
    <3>1. n + 1 \in 1 .. m + 1 /\ ~(n + 1 <= n)
      BY <1>1
    <3>2. q[n + 1] = p
      BY <1>2, <3>1
    <3> QED
      BY <1>1, <1>7, <2>1, <3>2
  <2>2. CASE i \in 1 .. m
    <3> DEFINE e == pi[i]
    <3>1. e \in 1 .. m /\ s[e] = r[i] /\ t[i] = r[i]
      BY <1>1, <1>3, <1>6, <2>2
    <3>2. po[i] = IF e <= n THEN e ELSE e + 1
      BY <1>7, <2>2
    <3> HIDE DEF e
    <3>3. CASE e <= n
      <4>1. e \in 1 .. m + 1
        BY <1>1, <3>1
      <4>2. q[e] = s[e]
        BY <1>2, <3>3, <4>1
      <4> QED
        BY <3>1, <3>2, <3>3, <4>2
    <3>4. CASE ~(e <= n)
      <4>1. e + 1 \in 1 .. m + 1 /\ ~(e + 1 <= n) /\ e + 1 # n + 1 /\ (e + 1) - 1 = e
        BY <1>1, <3>1, <3>4
      <4>2. q[e + 1] = s[(e + 1) - 1]
        BY <1>2, <4>1
      <4> QED
        BY <3>1, <3>2, <3>4, <4>1, <4>2
    <3> QED
      BY <3>3, <3>4
  <2> QED
    BY <1>5, <2>1, <2>2
<1>13. Moves(po, t, q)
  <2>1. Len(t) = m + 1
    BY <1>1
  <2> QED
    BY <1>4, <1>9, <1>10, <1>11, <1>12, <2>1 DEF Moves
<1> QED
  BY <1>13 DEF t, q

\* Sorted rearranges.
LEMMA SortedIs ==
    ASSUME NEW S, NEW ps \in Seq(S)
    PROVE  Sorted(ps) \in Seq(S) /\ \E pi : Moves(pi, ps, Sorted(ps))
<1> DEFINE n == Len(ps)
           b == <<>>
           turn == [q \in (1 .. n) \X Seq(S) |-> Placed(ps[q[1]], q[2])]
           g == CHOOSE e : e = [i \in 0 .. n |-> IF i = 0 THEN b ELSE Placed(ps[i], e[i - 1])]
<1>1. Sorted(ps) = g[n]
  BY DEF Sorted
<1>2. n \in Nat /\ \A i \in 1 .. n : ps[i] \in S
  BY LenProperties, ElementOfSeq
<1>3. b \in Seq(S)
  OBVIOUS
<1>4. \A i \in 1 .. n, q \in Seq(S) : Placed(ps[i], q) \in Seq(S)
  BY <1>2, PlacedIs
<1>5. /\ turn \in [(1 .. n) \X Seq(S) -> Seq(S)]
      /\ \A i \in 1 .. n, q \in Seq(S) : turn[<<i, q>>] = Placed(ps[i], q)
  <2> HIDE DEF n
  <2> QED
    BY <1>4
<1> HIDE DEF turn, n, b
<1>6. PICK f : IsLoop(f, turn, b, n, Seq(S))
  BY <1>2, <1>3, <1>5, LoopExists
<1>7. /\ f \in [0 .. n -> Seq(S)] /\ f[0] = b
      /\ \A i \in 1 .. n : f[i] = Placed(ps[i], f[i - 1])
  <2>1. f \in [0 .. n -> Seq(S)] /\ f[0] = b /\ \A i \in 1 .. n : f[i] = turn[<<i, f[i - 1]>>]
    BY <1>6 DEF IsLoop
  <2>2. \A i \in 1 .. n : i - 1 \in 0 .. n
    BY <1>2
  <2> QED
    BY <1>5, <2>1, <2>2
<1>8. f = [i \in 0 .. n |-> IF i = 0 THEN b ELSE Placed(ps[i], f[i - 1])]
  <2>1. \A i \in 0 .. n : f[i] = IF i = 0 THEN b ELSE Placed(ps[i], f[i - 1])
    BY <1>2, <1>7
  <2> QED
    BY <1>7, <2>1
<1>9. g = [i \in 0 .. n |-> IF i = 0 THEN b ELSE Placed(ps[i], g[i - 1])]
  BY <1>8
<1> HIDE DEF g
<1>10. g[0] = b /\ \A i \in 1 .. n : g[i] = Placed(ps[i], g[i - 1])
  <2>1. 0 \in 0 .. n /\ \A i \in 1 .. n : i \in 0 .. n /\ i # 0
    BY <1>2
  <2> QED
    BY <1>9, <2>1
<1> DEFINE T == {i \in 0 .. n : g[i] \in Seq(S) /\ \E pi : Moves(pi, SubSeq(ps, 1, i), g[i])}
<1>11. 0 \in T
  <2>1. SubSeq(ps, 1, 0) = <<>>
    BY SubSeqEmpty
  <2>2. \E pi : Moves(pi, <<>>, <<>>)
    <3> DEFINE pi == [i \in 1 .. 0 |-> i]
    <3>1. Len(<<>>) = 0
      OBVIOUS
    <3>2. \A i : ~(i \in 1 .. 0)
      OBVIOUS
    <3>3. pi \in [1 .. 0 -> 1 .. 0]
      OBVIOUS
    <3> HIDE DEF pi
    <3>4. Moves(pi, <<>>, <<>>)
      BY <3>1, <3>2, <3>3 DEF Moves
    <3> QED
      BY <3>4
  <2>3. g[0] \in Seq(S) /\ g[0] = <<>>
    BY <1>3, <1>10 DEF b
  <2> QED
    <3>1. \E pi : Moves(pi, SubSeq(ps, 1, 0), g[0])
      BY ONLY <2>1, <2>2, <2>3
    <3>2. 0 \in 0 .. n
      BY <1>2
    <3> QED
      BY ONLY <2>3, <3>1, <3>2, Zenon DEF T
<1>12. ASSUME NEW i \in 1 .. n, i - 1 \in T PROVE i \in T
  <2> DEFINE r == SubSeq(ps, 1, i - 1)
             h == g[i - 1]
             p == ps[i]
  <2>1. h \in Seq(S) /\ i \in 0 .. n
    BY <1>2, <1>12
  <2>2. r \in Seq(S) /\ p \in S /\ SubSeq(ps, 1, i) = Append(r, p)
    BY AppendLast DEF n
  <2>3. PICK pi : Moves(pi, r, h)
    BY <1>12
  <2>4. g[i] = Placed(p, h)
    BY <1>10
  <2> HIDE DEF r, h, p, T
  <2>5. g[i] \in Seq(S)
    BY <2>1, <2>2, <2>4, PlacedIs
  <2>6. \E po : Moves(po, Append(r, p), Placed(p, h))
    BY <2>1, <2>2, <2>3, PlacedMoves
  <2> QED
    BY <2>1, <2>2, <2>4, <2>5, <2>6 DEF T
<1> HIDE DEF T
<1>13. \A i \in 0 .. n : i \in T
  BY <1>2, <1>11, <1>12, CountUp
<1>14. n \in T
  BY <1>2, <1>13
<1>15. SubSeq(ps, 1, n) = ps
  BY SubSeqFull DEF n
<1> QED
  BY <1>1, <1>14, <1>15 DEF T

-----------------------------------------------------------------------------
(* Queries *)

TokenPair == [name: Tokens, value: Tokens]

\* The first sign that separates a name from a value, or the end of the part.
FirstEquals(word, k) ==
    /\ k \in 1 .. Len(word) + 1
    /\ k = Len(word) + 1 \/ word[k] = Equals
    /\ \A j \in 1 .. k - 1 : word[j] # Equals

\* SplitPair cuts at that sign.
LEMMA SplitPairAt ==
    ASSUME NEW word \in Tokens, NEW k, FirstEquals(word, k)
    PROVE  SplitPair(word) = [name |-> SubSeq(word, 1, k - 1),
                              value |-> SubSeq(word, k + 1, Len(word))]
<1> DEFINE n == Len(word)
           at == CHOOSE i \in 1 .. n + 1 :
                    /\ i = n + 1 \/ word[i] = Raw("=")
                    /\ \A j \in 1 .. i - 1 : word[j] # Raw("=")
<1>1. n \in Nat /\ k \in Nat
  BY LenProperties DEF Tokens, FirstEquals
<1>2. FirstEquals(word, at)
  BY DEF FirstEquals, Equals
<1>3. SplitPair(word) = [name |-> SubSeq(word, 1, at - 1), value |-> SubSeq(word, at + 1, n)]
  BY DEF SplitPair
<1> HIDE DEF at, n
<1>4. /\ at \in 1 .. n + 1 /\ (at = n + 1 \/ word[at] = Equals)
      /\ \A j \in 1 .. at - 1 : word[j] # Equals
  BY <1>2 DEF FirstEquals, n
<1>5. /\ k \in 1 .. n + 1 /\ (k = n + 1 \/ word[k] = Equals)
      /\ \A j \in 1 .. k - 1 : word[j] # Equals
  BY DEF FirstEquals, n
<1>6. ~(k < at) /\ ~(at < k)
  <2>1. ASSUME k < at PROVE FALSE
    <3>1. k \in 1 .. at - 1 /\ k # n + 1
      BY <1>1, <1>4, <1>5, <2>1
    <3> QED
      BY <1>4, <1>5, <3>1
  <2>2. ASSUME at < k PROVE FALSE
    <3>1. at \in 1 .. k - 1 /\ at # n + 1
      BY <1>1, <1>4, <1>5, <2>2
    <3> QED
      BY <1>4, <1>5, <3>1
  <2> QED
    BY <2>1, <2>2
<1>7. k = at
  BY <1>1, <1>4, <1>5, <1>6
<1> QED
  BY <1>3, <1>7 DEF n

\* SplitPair gives two texts.
LEMMA SplitPairType ==
    ASSUME NEW word \in Tokens
    PROVE  SplitPair(word) \in TokenPair /\ \E k : FirstEquals(word, k)
<1> DEFINE n == Len(word)
           T == {i \in 1 .. n + 1 : i = n + 1 \/ word[i] = Equals}
<1>1. n \in Nat /\ \A i \in 1 .. n : word[i] \in WireToken
  BY LenProperties, ElementOfSeq DEF Tokens
<1>2. T \subseteq Nat /\ T # {}
  <2>1. n + 1 \in T
    BY <1>1
  <2> QED
    BY <1>1, <2>1
<1>3. PICK k \in T : \A m \in T : k <= m
  <2> HIDE DEF T
  <2> QED
    BY <1>2, LeastNatural
<1>4. \A j \in 1 .. k - 1 : word[j] # Equals
  <2> TAKE j \in 1 .. k - 1
  <2>1. j \in 1 .. n + 1 /\ ~(k <= j)
    BY <1>1, <1>3
  <2> QED
    BY <1>3, <2>1
<1>5. FirstEquals(word, k)
  BY <1>3, <1>4 DEF FirstEquals
<1>6. k \in Nat /\ k >= 1 /\ k <= n + 1
  BY <1>1, <1>3
<1>7. SubSeq(word, 1, k - 1) \in Tokens /\ SubSeq(word, k + 1, n) \in Tokens
  <2> HIDE DEF n, T
  <2>1. \A i \in 1 .. k - 1 : word[i] \in WireToken
    BY <1>1, <1>6
  <2>2. \A i \in k + 1 .. n : word[i] \in WireToken
    BY <1>1, <1>6
  <2>3. 1 \in Int /\ k - 1 \in Int /\ k + 1 \in Int /\ n \in Int
    BY <1>1, <1>6
  <2>4. SubSeq(word, 1, k - 1) \in Seq(WireToken)
    BY <2>1, <2>3, SubSeqProperties
  <2>5. SubSeq(word, k + 1, n) \in Seq(WireToken)
    BY <2>2, <2>3, SubSeqProperties
  <2> QED
    BY <2>4, <2>5 DEF Tokens
<1>8. SplitPair(word) = [name |-> SubSeq(word, 1, k - 1), value |-> SubSeq(word, k + 1, n)]
  BY <1>5, SplitPairAt
<1> HIDE DEF n, T
<1>9. SplitPair(word) \in TokenPair
  BY <1>7, <1>8 DEF TokenPair
<1> QED
  BY <1>5, <1>9

\* Two sequences with one element between them.
LEMMA Between ==
    ASSUME NEW S, NEW a \in Seq(S), NEW b \in Seq(S), NEW x \in S
    PROVE  /\ a \o <<x>> \o b \in Seq(S)
           /\ Len(a \o <<x>> \o b) = Len(a) + 1 + Len(b)
           /\ \A i \in 1 .. Len(a) : (a \o <<x>> \o b)[i] = a[i]
           /\ (a \o <<x>> \o b)[Len(a) + 1] = x
           /\ \A i \in 1 .. Len(b) : (a \o <<x>> \o b)[Len(a) + 1 + i] = b[i]
<1> DEFINE n == Len(a)
           m == Len(b)
           c == a \o <<x>>
           p == c \o b
<1>1. n \in Nat /\ m \in Nat
  BY LenProperties
<1>2. c \in Seq(S) /\ Len(c) = n + 1 /\ c[n + 1] = x /\ \A i \in 1 .. n : c[i] = a[i]
  <2> DEFINE e == <<x>>
  <2>1. e \in Seq(S) /\ Len(e) = 1 /\ e[1] = x
    OBVIOUS
  <2>2. c = a \o e
    OBVIOUS
  <2> HIDE DEF e, c
  <2>3. /\ c \in Seq(S) /\ Len(c) = n + Len(e)
        /\ \A i \in 1 .. n + Len(e) : c[i] = IF i <= n THEN a[i] ELSE e[i - n]
    BY <1>1, <2>1, <2>2, ConcatProperties
  <2>4. \A i \in 1 .. n + 1 : c[i] = IF i <= n THEN a[i] ELSE e[i - n]
    BY <2>1, <2>3
  <2>5. n + 1 \in 1 .. n + 1 /\ ~(n + 1 <= n) /\ (n + 1) - n = 1
    BY <1>1
  <2>6. c[n + 1] = x
    BY <2>1, <2>4, <2>5
  <2>7. \A i \in 1 .. n : c[i] = a[i]
    BY <1>1, <2>4
  <2> QED
    BY <2>1, <2>3, <2>6, <2>7
<1> HIDE DEF c
<1>3. /\ p \in Seq(S) /\ Len(p) = (n + 1) + m
      /\ \A i \in 1 .. (n + 1) + m : p[i] = IF i <= n + 1 THEN c[i] ELSE b[i - (n + 1)]
  <2>1. /\ p \in Seq(S) /\ Len(p) = Len(c) + m
        /\ \A i \in 1 .. Len(c) + m : p[i] = IF i <= Len(c) THEN c[i] ELSE b[i - Len(c)]
    BY <1>1, <1>2, ConcatProperties
  <2>2. Len(c) = n + 1
    BY <1>2
  <2> HIDE DEF p, n, m
  <2> QED
    BY ONLY <2>1, <2>2
<1> HIDE DEF p, n, m
<1>4. p[n + 1] = x /\ \A i \in 1 .. n : p[i] = a[i]
  <2>1. \A i \in 1 .. n + 1 : i \in 1 .. (n + 1) + m /\ i <= n + 1
    BY <1>1
  <2>2. \A i \in 1 .. n + 1 : p[i] = c[i]
    BY <1>3, <2>1
  <2>3. n + 1 \in 1 .. n + 1 /\ \A i \in 1 .. n : i \in 1 .. n + 1
    BY <1>1
  <2> QED
    BY <1>2, <2>2, <2>3
<1>5. \A i \in 1 .. m : p[(n + 1) + i] = b[i]
  <2> TAKE i \in 1 .. m
  <2>1. (n + 1) + i \in 1 .. (n + 1) + m /\ ~((n + 1) + i <= n + 1) /\ ((n + 1) + i) - (n + 1) = i
    BY <1>1
  <2> QED
    BY <1>3, <2>1
<1> QED
  BY <1>3, <1>4, <1>5 DEF p, c, n, m

\* A name without the sign and a value read back.
LEMMA SplitPairCoded ==
    ASSUME NEW a \in Tokens, NEW b \in Tokens, \A i \in 1 .. Len(a) : a[i] # Equals
    PROVE  /\ a \o <<Raw("=")>> \o b \in Tokens
           /\ SplitPair(a \o <<Raw("=")>> \o b) = [name |-> a, value |-> b]
           /\ Len(a \o <<Raw("=")>> \o b) = Len(a) + 1 + Len(b)
           /\ \A i \in 1 .. Len(a) : (a \o <<Raw("=")>> \o b)[i] = a[i]
           /\ (a \o <<Raw("=")>> \o b)[Len(a) + 1] = Equals
           /\ \A i \in 1 .. Len(b) : (a \o <<Raw("=")>> \o b)[Len(a) + 1 + i] = b[i]
<1> DEFINE n == Len(a)
           m == Len(b)
           word == a \o <<Equals>> \o b
<1>1. n \in Nat /\ m \in Nat /\ a \in Seq(WireToken) /\ b \in Seq(WireToken) /\ Equals \in WireToken
  BY TokensAre, LenProperties DEF Tokens
<1>2. /\ word \in Seq(WireToken) /\ Len(word) = n + 1 + m
      /\ \A i \in 1 .. n : word[i] = a[i]
      /\ word[n + 1] = Equals
      /\ \A i \in 1 .. m : word[n + 1 + i] = b[i]
  BY <1>1, Between
<1> HIDE DEF word, n, m
<1>3. word \in Seq(WireToken) /\ Len(word) = (n + 1) + m
  BY <1>1, <1>2
<1>4. word[n + 1] = Equals /\ \A i \in 1 .. n : word[i] = a[i]
  BY <1>2
<1>5. \A i \in 1 .. m : word[(n + 1) + i] = b[i]
  BY <1>2
<1>6. FirstEquals(word, n + 1)
  <2>1. n + 1 \in 1 .. Len(word) + 1 /\ (n + 1) - 1 = n
    BY <1>1, <1>3
  <2>2. \A j \in 1 .. n : word[j] # Equals
    BY <1>4 DEF n
  <2> QED
    BY <1>4, <2>1, <2>2 DEF FirstEquals
<1>7. SplitPair(word) = [name |-> SubSeq(word, 1, (n + 1) - 1),
                         value |-> SubSeq(word, (n + 1) + 1, Len(word))]
  BY <1>3, <1>6, SplitPairAt DEF Tokens
<1>8. SubSeq(word, 1, (n + 1) - 1) = a
  <2> DEFINE s == SubSeq(word, 1, n)
  <2>1. \A i \in 1 .. n : word[i] \in WireToken
    BY <1>1, <1>4, ElementOfSeq DEF n
  <2>2. 1 \in Int /\ n \in Int /\ n - 1 + 1 = n /\ (1 <= n \/ n = 0) /\ (n + 1) - 1 = n
    BY <1>1
  <2>3. /\ s \in Seq(WireToken) /\ Len(s) = IF 1 <= n THEN n - 1 + 1 ELSE 0
        /\ \A i \in 1 .. n - 1 + 1 : s[i] = word[1 + i - 1]
    BY <2>1, <2>2, SubSeqProperties
  <2> HIDE DEF s
  <2>4. Len(s) = n /\ \A i \in 1 .. n : s[i] = a[i]
    BY <1>4, <2>2, <2>3
  <2>5. s = a
    BY <1>1, <2>3, <2>4, SeqEqual DEF n
  <2> QED
    BY <2>2, <2>5 DEF s
<1>9. SubSeq(word, (n + 1) + 1, Len(word)) = b
  <2> DEFINE lo == (n + 1) + 1
             hi == (n + 1) + m
             s == SubSeq(word, lo, hi)
  <2>1. \A i \in lo .. hi : word[i] \in WireToken
    BY <1>1, <1>3, ElementOfSeq
  <2>2. lo \in Int /\ hi \in Int /\ hi - lo + 1 = m /\ (lo <= hi \/ m = 0)
    BY <1>1
  <2>3. \A i \in 1 .. m : lo + i - 1 = (n + 1) + i
    BY <1>1
  <2> HIDE DEF lo, hi
  <2>4. /\ s \in Seq(WireToken) /\ Len(s) = IF lo <= hi THEN hi - lo + 1 ELSE 0
        /\ \A i \in 1 .. hi - lo + 1 : s[i] = word[lo + i - 1]
    BY <2>1, <2>2, SubSeqProperties
  <2> HIDE DEF s
  <2>5. Len(s) = m /\ \A i \in 1 .. m : s[i] = b[i]
    <3>1. Len(s) = m
      BY <1>1, <2>2, <2>4
    <3>2. \A i \in 1 .. m : s[i] = word[lo + i - 1]
      BY <2>2, <2>4
    <3> QED
      BY <1>5, <2>3, <3>1, <3>2
  <2>6. s = b
    BY <1>1, <2>4, <2>5, SeqEqual DEF m
  <2> QED
    BY <1>3, <2>6 DEF s, lo, hi
<1> QED
  BY <1>2, <1>3, <1>7, <1>8, <1>9 DEF word, n, m, Equals, Tokens

\* What an encoded name or value is made of.
Code == WireToken \ {Amp, Equals}
CodePair == [name: Seq(Code), value: Seq(Code)]
Pair == [name: String, value: String]

\* How uri_encode writes a character.
CodedAs(c, slash) == IF c \in Unreserved \/ (c = "/" /\ ~slash) THEN Raw(c) ELSE Esc(c)

\* An encoded character is no separator and decodes to itself.
LEMMA CodedAsIs ==
    ASSUME NEW c \in Char, NEW slash \in BOOLEAN
    PROVE  CodedAs(c, slash) \in Code /\ CodedAs(c, slash).c = c
<1>1. Raw(c) \in WireToken /\ Esc(c) \in WireToken /\ Raw(c).c = c /\ Esc(c).c = c
  BY DEF Raw, Esc, WireToken
<1>2. Esc(c).esc # Amp.esc /\ Esc(c).esc # Equals.esc /\ Amp.c = "&" /\ Equals.c = "="
  BY DEF Raw, Esc, Amp, Equals
<1>3. Esc(c) # Amp /\ Esc(c) # Equals
  BY <1>2
<1>4. ASSUME c \in Unreserved \/ c = "/" PROVE Raw(c) # Amp /\ Raw(c) # Equals
  <2>1. c # "&" /\ c # "="
    BY <1>4 DEF Unreserved
  <2> QED
    BY <1>1, <1>2, <2>1
<1>5. \/ CodedAs(c, slash) = Raw(c) /\ (c \in Unreserved \/ c = "/")
      \/ CodedAs(c, slash) = Esc(c)
  BY DEF CodedAs
<1> QED
  BY <1>1, <1>3, <1>4, <1>5 DEF Code

\* Encoding goes character by character.
LEMMA EncodeIs ==
    ASSUME NEW s \in String, NEW slash \in BOOLEAN
    PROVE  /\ uri_encode(s, slash) \in Seq(Code) /\ uri_encode(s, slash) \in Tokens
           /\ Decoded(uri_encode(s, slash)) = s
           /\ Len(uri_encode(s, slash)) = Len(s)
           /\ \A i \in 1 .. Len(s) : uri_encode(s, slash)[i] = CodedAs(s[i], slash)
<1> DEFINE n == Len(s)
           e == uri_encode(s, slash)
<1>1. n \in Nat /\ DOMAIN s = 1 .. n /\ s \in [1 .. n -> Char] /\ \A i \in 1 .. n : s[i] \in Char
  BY LenProperties, ElementOfSeq DEF String
<1>2. e = [i \in 1 .. n |-> CodedAs(s[i], slash)]
  BY <1>1 DEF uri_encode, CodedAs
<1> HIDE DEF e, n
<1>3. \A i \in 1 .. n : e[i] \in Code /\ e[i].c = s[i] /\ e[i] = CodedAs(s[i], slash)
  BY <1>1, <1>2, CodedAsIs
<1>4. e \in Seq(Code) /\ Len(e) = n /\ DOMAIN e = 1 .. n
  BY <1>1, <1>2, <1>3
<1>5. e \in Tokens
  BY <1>1, <1>2, <1>3 DEF Code, Tokens
<1>6. Decoded(e) = s
  <2>1. Decoded(e) = [i \in 1 .. n |-> e[i].c]
    BY <1>4 DEF Decoded
  <2>2. [i \in 1 .. n |-> e[i].c] = [i \in 1 .. n |-> s[i]]
    BY <1>3
  <2> QED
    BY <1>1, <2>1, <2>2
<1> QED
  BY <1>3, <1>4, <1>5, <1>6 DEF e, n

\* Decoding gives a string of as many characters.
LEMMA DecodedIs ==
    ASSUME NEW ts \in Tokens
    PROVE  /\ Decoded(ts) \in String /\ Len(Decoded(ts)) = Len(ts)
           /\ \A i \in 1 .. Len(ts) : Decoded(ts)[i] = ts[i].c
<1>1. Len(ts) \in Nat /\ DOMAIN ts = 1 .. Len(ts) /\ \A i \in 1 .. Len(ts) : ts[i] \in WireToken
  BY LenProperties, ElementOfSeq DEF Tokens
<1>2. \A i \in 1 .. Len(ts) : ts[i].c \in Char
  BY <1>1, TokensAre
<1>3. Decoded(ts) = [i \in 1 .. Len(ts) |-> ts[i].c]
  BY <1>1 DEF Decoded
<1> QED
  BY <1>1, <1>2, <1>3 DEF String

\* Reading a plus as a space leaves a text of tokens.
LEMMA PlusType ==
    ASSUME NEW ts \in Tokens
    PROVE  /\ PlusIsSpace(ts) \in Tokens /\ Len(PlusIsSpace(ts)) = Len(ts)
           /\ \A i \in 1 .. Len(ts) :
                 PlusIsSpace(ts)[i] = IF ts[i] = Raw("+") THEN Esc(" ") ELSE ts[i]
<1>1. Len(ts) \in Nat /\ DOMAIN ts = 1 .. Len(ts) /\ \A i \in 1 .. Len(ts) : ts[i] \in WireToken
  BY LenProperties, ElementOfSeq DEF Tokens
<1>2. Esc(" ") \in WireToken
  BY TokensAre DEF Char
<1> DEFINE e == PlusIsSpace(ts)
           c(i) == IF ts[i] = Raw("+") THEN Esc(" ") ELSE ts[i]
<1>3. e = [i \in 1 .. Len(ts) |-> c(i)]
  BY <1>1 DEF PlusIsSpace
<1>4. \A i \in 1 .. Len(ts) : c(i) \in WireToken
  BY <1>1, <1>2
<1> HIDE DEF e, c
<1>5. e \in Seq(WireToken) /\ Len(e) = Len(ts)
  BY <1>1, <1>3, <1>4
<1>6. \A i \in 1 .. Len(ts) : e[i] = IF ts[i] = Raw("+") THEN Esc(" ") ELSE ts[i]
  BY <1>3 DEF c
<1> QED
  BY <1>5, <1>6 DEF e, Tokens

\* A query reads as pairs of texts.
LEMMA SplitPairsType ==
    ASSUME NEW ts \in Tokens
    PROVE  SplitPairs(ts) \in Seq(TokenPair)
<1> DEFINE ps == Split(ts, Raw("&"))
           s == [i \in DOMAIN ps |-> IF ps[i] = <<>> THEN <<>> ELSE <<SplitPair(ps[i])>>]
<1>1. SplitPairs(ts) = FlattenSeq(s)
  BY DEF SplitPairs
<1>2. ps \in Seq(Tokens)
  BY SplitType DEF TokenLists
<1> HIDE DEF ps
<1>3. Len(ps) \in Nat /\ DOMAIN ps = 1 .. Len(ps) /\ \A i \in 1 .. Len(ps) : ps[i] \in Tokens
  BY <1>2, LenProperties, ElementOfSeq
<1>4. \A i \in 1 .. Len(ps) : SplitPair(ps[i]) \in TokenPair
  BY <1>3, SplitPairType
<1>5. \A i \in 1 .. Len(ps) : (IF ps[i] = <<>> THEN <<>> ELSE <<SplitPair(ps[i])>>) \in Seq(TokenPair)
  <2> TAKE i \in 1 .. Len(ps)
  <2> DEFINE e == SplitPair(ps[i])
  <2>1. e \in TokenPair
    BY <1>4
  <2> HIDE DEF e
  <2>2. <<e>> \in Seq(TokenPair) /\ <<>> \in Seq(TokenPair)
    BY <2>1
  <2> QED
    BY <2>2 DEF e
<1>6. s \in Seq(Seq(TokenPair))
  BY <1>3, <1>5
<1> QED
  BY <1>1, <1>6, FlattenType

\* The joined string tells the sorted pairs.
LEMMA JoinedTells ==
    ASSUME NEW es \in Seq(CodePair)
    PROVE  /\ Joined(es) \in Tokens
           /\ es = <<>> => Joined(es) = <<>>
           /\ es # <<>> => /\ Len(Split(Joined(es), Amp)) = Len(es)
                           /\ Len(Sorted(es)) = Len(es) /\ Sorted(es) \in Seq(CodePair)
                           /\ \A i \in 1 .. Len(es) :
                                 /\ SplitPair(Split(Joined(es), Amp)[i]) = Sorted(es)[i]
                                 /\ Split(Joined(es), Amp)[i] # <<>>
<1> DEFINE r == Sorted(es)
           n == Len(es)
           ps == [i \in DOMAIN r |-> r[i].name \o <<Raw("=")>> \o r[i].value]
<1>1. n \in Nat /\ r \in Seq(CodePair) /\ Len(r) = n
  BY SortedIs, LenProperties DEF Moves
<1>2. Joined(es) = Join(ps)
  BY DEF Joined
<1> HIDE DEF r, n
<1>3. DOMAIN r = 1 .. n /\ \A i \in 1 .. n : r[i] \in CodePair
  BY <1>1, LenProperties, ElementOfSeq
<1> DEFINE c(i) == r[i].name \o <<Raw("=")>> \o r[i].value
<1>4. \A i \in 1 .. n : /\ c(i) \in Tokens /\ SplitPair(c(i)) = r[i] /\ c(i) # <<>>
                        /\ \A j \in 1 .. Len(c(i)) : c(i)[j] # Amp
  <2> TAKE i \in 1 .. n
  <2> DEFINE a == r[i].name
             b == r[i].value
             w == a \o <<Raw("=")>> \o b
  <2>1. a \in Seq(Code) /\ b \in Seq(Code) /\ r[i] = [name |-> a, value |-> b]
    BY <1>3 DEF CodePair
  <2>2. w = c(i)
    OBVIOUS
  <2> HIDE DEF a, b, c
  <2>3. \A j \in 1 .. Len(a) : a[j] \in Code
    BY <2>1, ElementOfSeq
  <2>4. \A j \in 1 .. Len(b) : b[j] \in Code
    BY <2>1, ElementOfSeq
  <2>5. a \in Tokens /\ b \in Tokens /\ Len(a) \in Nat /\ Len(b) \in Nat
    BY <2>1 DEF Tokens, Code
  <2>6. /\ w \in Tokens /\ SplitPair(w) = [name |-> a, value |-> b]
        /\ Len(w) = Len(a) + 1 + Len(b)
        /\ \A j \in 1 .. Len(a) : w[j] = a[j]
        /\ w[Len(a) + 1] = Equals
        /\ \A j \in 1 .. Len(b) : w[Len(a) + 1 + j] = b[j]
    <3>1. \A j \in 1 .. Len(a) : a[j] # Equals
      BY <2>3 DEF Code
    <3> QED
      BY <2>5, <3>1, SplitPairCoded
  <2> HIDE DEF w
  <2>7. w # <<>>
    BY <2>5, <2>6
  <2>8. \A j \in 1 .. Len(w) : w[j] # Amp
    <3> TAKE j \in 1 .. Len(w)
    <3>1. CASE j \in 1 .. Len(a)
      BY <2>3, <2>6, <3>1 DEF Code
    <3>2. CASE j = Len(a) + 1
      BY <2>6, <3>2, TokensAre
    <3>3. CASE j > Len(a) + 1
      <4> DEFINE k == j - (Len(a) + 1)
      <4>1. k \in 1 .. Len(b) /\ Len(a) + 1 + k = j
        BY <2>5, <2>6, <3>3
      <4> HIDE DEF k
      <4>2. w[j] = b[k]
        BY <2>6, <4>1
      <4> QED
        BY <2>4, <4>1, <4>2 DEF Code
    <3> QED
      BY <2>5, <2>6, <3>1, <3>2, <3>3
  <2> QED
    BY <2>1, <2>2, <2>6, <2>7, <2>8
<1>5. ps = [i \in 1 .. n |-> c(i)]
  BY <1>3
<1> HIDE DEF ps, c
<1>6. ps \in Seq(Tokens) /\ Len(ps) = n /\ \A i \in 1 .. n : ps[i] = c(i)
  BY <1>1, <1>4, <1>5
<1>7. CASE es = <<>>
  <2>1. n = 0
    BY <1>7 DEF n
  <2>2. PICK f \in [0 .. Len(ps) -> Tokens] : f[0] = <<>> /\ Join(ps) = f[Len(ps)]
    BY <1>6, JoinIs
  <2>3. Join(ps) = <<>>
    BY <1>6, <2>1, <2>2
  <2> QED
    BY <1>2, <1>7, <2>3 DEF Tokens
<1>8. CASE es # <<>>
  <2>1. n # 0
    BY <1>8, EmptySeq DEF n
  <2>2. ps \in TokenLists
    <3>1. ps # <<>>
      BY <1>6, <2>1
    <3> QED
      BY <1>6, <3>1 DEF TokenLists
  <2>3. \A i \in 1 .. Len(ps) : \A j \in 1 .. Len(ps[i]) : ps[i][j] # Amp
    BY <1>4, <1>6
  <2>4. Join(ps) \in Tokens /\ Split(Join(ps), Amp) = ps
    BY <2>2, <2>3, SplitJoin
  <2>5. \A i \in 1 .. n : SplitPair(ps[i]) = r[i] /\ ps[i] # <<>>
    BY <1>4, <1>6
  <2> QED
    BY <1>1, <1>2, <1>6, <1>8, <2>4, <2>5 DEF n, r
<1> QED
  BY <1>7, <1>8

\* How often x occurs in s.
Count(s, x) == Cardinality({i \in 1 .. Len(s) : s[i] = x})

\* A rearrangement keeps the times an element occurs.
LEMMA MovesCount ==
    ASSUME NEW s, NEW t, NEW pi, Len(s) \in Nat, Moves(pi, s, t), NEW x
    PROVE  Count(s, x) = Count(t, x)
<1> DEFINE n == Len(s)
           A == {i \in 1 .. n : s[i] = x}
           B == {i \in 1 .. n : t[i] = x}
           po == [i \in A |-> pi[i]]
<1>1. /\ n \in Nat /\ Len(t) = n
      /\ \A i \in 1 .. n : pi[i] \in 1 .. n /\ t[pi[i]] = s[i]
      /\ \A i, j \in 1 .. n : pi[i] = pi[j] => i = j
      /\ \A j \in 1 .. n : \E i \in 1 .. n : pi[i] = j
  BY DEF Moves
<1> HIDE DEF n
<1>2. IsFiniteSet(A)
  <2>1. IsFiniteSet(1 .. n)
    BY <1>1, FS_Interval
  <2>2. A \in SUBSET (1 .. n)
    OBVIOUS
  <2> QED
    BY <2>1, <2>2, FS_Subset
<1>3. po \in [A -> B] /\ \A i \in A : po[i] = pi[i] /\ i \in 1 .. n /\ s[i] = x
  BY <1>1
<1>4. \A b \in B : \E a \in A : po[a] = b
  <2> TAKE b \in B
  <2>1. b \in 1 .. n /\ t[b] = x
    OBVIOUS
  <2>2. PICK a \in 1 .. n : pi[a] = b
    BY <1>1, <2>1
  <2>3. a \in A
    BY <1>1, <2>1, <2>2
  <2> QED
    BY <1>3, <2>2, <2>3
<1> HIDE DEF po, A, B
<1>5. \A a, b \in A : po[a] = po[b] => a = b
  <2> TAKE a, b \in A
  <2>1. po[a] = pi[a] /\ po[b] = pi[b] /\ a \in 1 .. n /\ b \in 1 .. n
    BY <1>3
  <2> QED
    BY <1>1, <2>1
<1>6. po \in Bijection(A, B)
  <2>1. po \in Injection(A, B)
    BY <1>3, <1>5 DEF Injection, IsInjective
  <2>2. po \in Surjection(A, B)
    BY <1>3, <1>4 DEF Surjection
  <2> QED
    BY <2>1, <2>2 DEF Bijection
<1>7. ExistsBijection(A, B)
  BY <1>6 DEF ExistsBijection
<1>8. Cardinality(A) = Cardinality(B)
  BY <1>2, <1>7, FS_Bijection
<1> QED
  BY <1>1, <1>8 DEF A, B, n, Count

DecodedPair(p) == [name |-> Decoded(p.name), value |-> Decoded(p.value)]
DecodedPairs(es) == [i \in 1 .. Len(es) |-> DecodedPair(es[i])]

\* A rearrangement of pairs rearranges what they decode to.
LEMMA DecodedMoves ==
    ASSUME NEW s, NEW t, NEW pi, Len(s) \in Nat, Moves(pi, s, t)
    PROVE  Moves(pi, DecodedPairs(s), DecodedPairs(t)) /\ Len(DecodedPairs(s)) = Len(s)
<1> DEFINE n == Len(s)
           d(x) == DecodedPair(x)
           a == [i \in 1 .. n |-> d(s[i])]
           b == [i \in 1 .. n |-> d(t[i])]
<1>1. /\ n \in Nat /\ Len(t) = n
      /\ \A i \in 1 .. n : pi[i] \in 1 .. n /\ t[pi[i]] = s[i]
      /\ pi \in [1 .. n -> 1 .. n]
      /\ \A i, j \in 1 .. n : pi[i] = pi[j] => i = j
      /\ \A j \in 1 .. n : \E i \in 1 .. n : pi[i] = j
  BY DEF Moves
<1>2. DecodedPairs(s) = a /\ DecodedPairs(t) = b
  BY <1>1 DEF DecodedPairs
<1> HIDE DEF n, d
<1>3. Len(a) = n /\ Len(b) = n
  BY <1>1
<1>4. \A i \in 1 .. n : b[pi[i]] = a[i]
  BY <1>1
<1> HIDE DEF a, b
<1>5. Moves(pi, a, b)
  BY <1>1, <1>3, <1>4 DEF Moves
<1> QED
  BY <1>2, <1>3, <1>5 DEF n

\* Whoever joins to the same string decodes to the same pairs.
LEMMA JoinedCounts ==
    ASSUME NEW es \in Seq(CodePair), NEW fs \in Seq(CodePair), Joined(es) = Joined(fs)
    PROVE  /\ Len(DecodedPairs(es)) = Len(es) /\ Len(DecodedPairs(fs)) = Len(fs)
           /\ \A x : Count(DecodedPairs(es), x) = Count(DecodedPairs(fs), x)
<1>1. Len(es) \in Nat /\ Len(fs) \in Nat
  BY LenProperties
<1>2. PICK pi : Moves(pi, es, Sorted(es))
  BY SortedIs
<1>3. PICK po : Moves(po, fs, Sorted(fs))
  BY SortedIs
<1>4. Sorted(es) = Sorted(fs)
  <2>1. CASE es = <<>> /\ fs = <<>>
    BY <2>1
  <2>2. CASE es # <<>> /\ fs # <<>>
    <3> DEFINE ps == Split(Joined(es), Amp)
    <3>1. /\ Len(ps) = Len(es) /\ Len(Sorted(es)) = Len(es) /\ Sorted(es) \in Seq(CodePair)
          /\ \A i \in 1 .. Len(es) : SplitPair(ps[i]) = Sorted(es)[i]
      BY <2>2, JoinedTells
    <3>2. /\ Len(ps) = Len(fs) /\ Len(Sorted(fs)) = Len(fs) /\ Sorted(fs) \in Seq(CodePair)
          /\ \A i \in 1 .. Len(fs) : SplitPair(ps[i]) = Sorted(fs)[i]
      BY <2>2, JoinedTells
    <3> HIDE DEF ps
    <3>3. /\ Len(Sorted(es)) = Len(Sorted(fs))
          /\ \A i \in 1 .. Len(Sorted(es)) : Sorted(es)[i] = Sorted(fs)[i]
      BY <3>1, <3>2
    <3> QED
      BY <3>1, <3>2, <3>3, SeqEqual
  <2>3. ASSUME NEW as \in Seq(CodePair), NEW bs \in Seq(CodePair), Joined(as) = Joined(bs),
               as = <<>>, bs # <<>>
        PROVE  FALSE
    <3> DEFINE ps == Split(Joined(bs), Amp)
    <3>1. Joined(as) = <<>>
      BY <2>3, JoinedTells
    <3>2. Joined(bs) = <<>>
      BY <2>3, <3>1
    <3>3. ps = <<<<>>>>
      BY <3>2, SplitNone
    <3>4. Len(bs) \in Nat /\ Len(bs) # 0
      BY <2>3, LenProperties, EmptySeq
    <3>5. \A i \in 1 .. Len(bs) : ps[i] # <<>>
      BY <2>3, JoinedTells
    <3> HIDE DEF ps
    <3>6. 1 \in 1 .. Len(bs)
      BY <3>4
    <3>7. ps[1] # <<>>
      BY <3>5, <3>6
    <3>8. ps[1] = <<>>
      BY <3>3
    <3> QED
      BY <3>7, <3>8
  <2> QED
    BY <2>1, <2>2, <2>3
<1>5. Moves(pi, DecodedPairs(es), DecodedPairs(Sorted(es))) /\ Len(DecodedPairs(es)) = Len(es)
  BY <1>1, <1>2, DecodedMoves
<1>6. Moves(po, DecodedPairs(fs), DecodedPairs(Sorted(es))) /\ Len(DecodedPairs(fs)) = Len(fs)
  BY <1>1, <1>3, <1>4, DecodedMoves
<1> DEFINE a == DecodedPairs(es)
           b == DecodedPairs(fs)
           c == DecodedPairs(Sorted(es))
<1> HIDE DEF a, b, c
<1>7. ASSUME NEW x
      PROVE  Count(a, x) = Count(b, x)
  <2>1. Moves(pi, a, c) /\ Moves(po, b, c) /\ Len(a) \in Nat /\ Len(b) \in Nat
    BY <1>1, <1>5, <1>6 DEF a, b, c
  <2>2. Count(a, x) = Count(c, x)
    BY <2>1, MovesCount
  <2>3. Count(b, x) = Count(c, x)
    BY <2>1, MovesCount
  <2> QED
    BY <2>2, <2>3
<1> QED
  BY <1>5, <1>6, <1>7 DEF a, b

\* The encoded pairs of a signer decode to what they mean.
EncodedPairs(ps) == [i \in DOMAIN ps |-> [name |-> uri_encode(ps[i].name, TRUE),
                                          value |-> uri_encode(ps[i].value, TRUE)]]

LEMMA EncodedPairsAre ==
    ASSUME NEW ps \in Seq(Pair)
    PROVE  /\ EncodedPairs(ps) \in Seq(CodePair) /\ Len(EncodedPairs(ps)) = Len(ps)
           /\ DecodedPairs(EncodedPairs(ps)) = ps
<1> DEFINE n == Len(ps)
           c(i) == [name |-> uri_encode(ps[i].name, TRUE), value |-> uri_encode(ps[i].value, TRUE)]
           e == EncodedPairs(ps)
<1>1. n \in Nat /\ DOMAIN ps = 1 .. n /\ ps \in [1 .. n -> Pair] /\ \A i \in 1 .. n : ps[i] \in Pair
  BY LenProperties, ElementOfSeq
<1>2. e = [i \in 1 .. n |-> c(i)]
  BY <1>1 DEF EncodedPairs
<1>3. \A i \in 1 .. n : c(i) \in CodePair /\ DecodedPair(c(i)) = ps[i]
  <2> TAKE i \in 1 .. n
  <2>1. ps[i].name \in String /\ ps[i].value \in String
        /\ ps[i] = [name |-> ps[i].name, value |-> ps[i].value]
    BY <1>1 DEF Pair
  <2> DEFINE a == uri_encode(ps[i].name, TRUE)
             b == uri_encode(ps[i].value, TRUE)
  <2>2. /\ a \in Seq(Code) /\ Decoded(a) = ps[i].name
        /\ b \in Seq(Code) /\ Decoded(b) = ps[i].value
    BY <2>1, EncodeIs
  <2> HIDE DEF a, b
  <2>3. [name |-> a, value |-> b] \in CodePair
    BY <2>2 DEF CodePair
  <2>4. DecodedPair([name |-> a, value |-> b]) = [name |-> ps[i].name, value |-> ps[i].value]
    BY <2>2 DEF DecodedPair
  <2> QED
    BY <2>1, <2>3, <2>4 DEF a, b
<1> HIDE DEF e, c, n
<1>4. e \in Seq(CodePair) /\ Len(e) = n /\ \A i \in 1 .. n : e[i] = c(i)
  BY <1>1, <1>2, <1>3
<1>5. DecodedPairs(e) = [i \in 1 .. n |-> ps[i]]
  <2>1. DecodedPairs(e) = [i \in 1 .. n |-> DecodedPair(e[i])]
    BY <1>4 DEF DecodedPairs
  <2>2. \A i \in 1 .. n : DecodedPair(e[i]) = ps[i]
    BY <1>3, <1>4
  <2> QED
    BY <2>1, <2>2
<1>6. ps = [i \in 1 .. n |-> ps[i]]
  BY <1>1
<1> QED
  BY <1>4, <1>5, <1>6 DEF e, n

\* The middleware and the handlers read the same pairs.
LEMMA QueryRead ==
    ASSUME NEW ts \in Tokens
    PROVE  /\ Args(ts) \in Seq(Pair)
           /\ canonical_query(ts) = Joined(EncodedPairs(Args(ts)))
<1> DEFINE tp == SplitPairs(PlusIsSpace(ts))
           n == Len(tp)
           c(i) == DecodedPair(tp[i])
           a == Args(ts)
           es == [i \in DOMAIN tp |-> [name |-> uri_recode(tp[i].name, TRUE),
                                       value |-> uri_recode(tp[i].value, TRUE)]]
<1>1. tp \in Seq(TokenPair)
  BY PlusType, SplitPairsType
<1>2. canonical_query(ts) = Joined(es)
  BY DEF canonical_query
<1>3. a = [i \in DOMAIN tp |-> [name |-> Decoded(tp[i].name), value |-> Decoded(tp[i].value)]]
  BY DEF Args
<1> HIDE DEF tp, a
<1>4. n \in Nat /\ DOMAIN tp = 1 .. n /\ \A i \in 1 .. n : tp[i] \in TokenPair
  BY <1>1, LenProperties, ElementOfSeq
<1>5. a = [i \in 1 .. n |-> c(i)]
  BY <1>3, <1>4 DEF DecodedPair
<1>6. \A i \in 1 .. n : c(i) \in Pair
  <2> TAKE i \in 1 .. n
  <2>1. tp[i].name \in Tokens /\ tp[i].value \in Tokens
    BY <1>4 DEF TokenPair
  <2>2. Decoded(tp[i].name) \in String /\ Decoded(tp[i].value) \in String
    BY <2>1, DecodedIs
  <2> QED
    BY <2>2 DEF DecodedPair, Pair
<1>7. \A i \in 1 .. n : c(i).name = Decoded(tp[i].name) /\ c(i).value = Decoded(tp[i].value)
  BY DEF DecodedPair
<1> HIDE DEF c, n
<1>8. a \in Seq(Pair) /\ DOMAIN a = 1 .. n /\ \A i \in 1 .. n : a[i] = c(i)
  BY <1>4, <1>5, <1>6
<1> DEFINE r(i) == [name |-> uri_encode(a[i].name, TRUE), value |-> uri_encode(a[i].value, TRUE)]
           u(i) == [name |-> uri_recode(tp[i].name, TRUE), value |-> uri_recode(tp[i].value, TRUE)]
<1>9. EncodedPairs(a) = [i \in 1 .. n |-> r(i)] /\ es = [i \in 1 .. n |-> u(i)]
  BY <1>4, <1>8 DEF EncodedPairs
<1>10. \A i \in 1 .. n : r(i) = u(i)
  BY <1>7, <1>8 DEF uri_recode
<1> HIDE DEF es, r, u
<1>11. es = EncodedPairs(a)
  BY <1>9, <1>10
<1> QED
  BY <1>2, <1>8, <1>11 DEF a

\* A query that signs like that of an intent gives the handlers the same pairs.
LEMMA QueryHandled ==
    ASSUME NEW ts \in Tokens, NEW ps \in Seq(Pair),
           canonical_query(ts) = Joined(EncodedPairs(ps))
    PROVE  SameBag(Args(ts), ps)
<1> DEFINE a == Args(ts)
<1>1. a \in Seq(Pair) /\ Joined(EncodedPairs(a)) = Joined(EncodedPairs(ps))
  BY QueryRead
<1> HIDE DEF a
<1>2. EncodedPairs(a) \in Seq(CodePair) /\ DecodedPairs(EncodedPairs(a)) = a
  BY <1>1, EncodedPairsAre
<1>3. EncodedPairs(ps) \in Seq(CodePair) /\ DecodedPairs(EncodedPairs(ps)) = ps
  BY EncodedPairsAre
<1>4. \A x : Count(DecodedPairs(EncodedPairs(a)), x) = Count(DecodedPairs(EncodedPairs(ps)), x)
  BY <1>1, <1>2, <1>3, JoinedCounts
<1>5. \A x : Count(a, x) = Count(ps, x)
  BY <1>2, <1>3, <1>4
<1>6. DOMAIN a = 1 .. Len(a) /\ DOMAIN ps = 1 .. Len(ps)
  BY <1>1, LenProperties
<1>7. SameBag(a, ps)
  BY <1>5, <1>6 DEF SameBag, Count
<1> QED
  BY <1>7 DEF a

-----------------------------------------------------------------------------
(* Paths *)

Slash == Raw("/")

\* The first slash that is written as one, or the end of the path.
FirstSlash(path, k) ==
    /\ k \in 1 .. Len(path) + 1
    /\ k = Len(path) + 1 \/ path[k] = Slash
    /\ \A j \in 1 .. k - 1 : path[j] # Slash

\* The router cuts a path there.
LEMMA RouteAt ==
    ASSUME NEW path \in Tokens
    PROVE  \E k : /\ FirstSlash(path, k)
                  /\ Route(path) = [bucket |-> Decoded(SubSeq(path, 1, k - 1)),
                                    key |-> Decoded(SubSeq(path, k + 1, Len(path)))]
<1> DEFINE n == Len(path)
           T == {i \in DOMAIN path : path[i] = Slash}
           least == CHOOSE i \in T : \A j \in T : i <= j
           k == IF T = {} THEN n + 1 ELSE least
<1>1. n \in Nat /\ DOMAIN path = 1 .. n
  BY LenProperties DEF Tokens
<1>2. Route(path) = [bucket |-> Decoded(SubSeq(path, 1, k - 1)),
                     key |-> Decoded(SubSeq(path, k + 1, Len(path)))]
  BY DEF Route, Slash
<1>3. ASSUME T # {} PROVE least \in T /\ \A j \in T : least <= j
  <2>1. T \subseteq Nat
    BY <1>1
  <2> HIDE DEF T
  <2>2. \E i \in T : \A j \in T : i <= j
    BY <1>3, <2>1, LeastNatural
  <2> QED
    BY <2>2
<1>4. FirstSlash(path, k)
  <2>1. CASE T = {}
    <3>1. k = n + 1
      BY <2>1
    <3>2. \A j \in 1 .. n : path[j] # Slash
      BY <1>1, <2>1
    <3> HIDE DEF k, T
    <3> QED
      BY <1>1, <3>1, <3>2 DEF FirstSlash
  <2>2. CASE T # {}
    <3>1. k \in T /\ \A j \in T : k <= j
      BY <1>3, <2>2
    <3> HIDE DEF k
    <3>2. k \in 1 .. n /\ path[k] = Slash
      BY <1>1, <3>1
    <3>3. \A j \in 1 .. k - 1 : path[j] # Slash
      <4> TAKE j \in 1 .. k - 1
      <4>1. j \in 1 .. n /\ ~(k <= j)
        BY <1>1, <3>2
      <4> QED
        BY <1>1, <3>1, <4>1
    <3> QED
      BY <1>1, <3>2, <3>3 DEF FirstSlash
  <2> QED
    BY <2>1, <2>2
<1> QED
  BY <1>2, <1>4

\* The path of an intent, character by character.
LEMMA PathIs ==
    ASSUME NEW b \in String, NEW k \in String
    PROVE  /\ b \o <<"/">> \o k \in String
           /\ Len(b \o <<"/">> \o k) = Len(b) + 1 + Len(k)
           /\ \A i \in 1 .. Len(b) : (b \o <<"/">> \o k)[i] = b[i]
           /\ (b \o <<"/">> \o k)[Len(b) + 1] = "/"
           /\ \A i \in 1 .. Len(k) : (b \o <<"/">> \o k)[Len(b) + 1 + i] = k[i]
<1>1. "/" \in Char /\ b \in Seq(Char) /\ k \in Seq(Char)
  BY DEF Char, String
<1> QED
  BY <1>1, Between DEF String

\* Decoding a part of a text.
LEMMA DecodedSub ==
    ASSUME NEW ts \in Tokens, NEW lo \in Nat, NEW hi \in Nat, lo >= 1, hi <= Len(ts), lo <= hi + 1
    PROVE  /\ Decoded(SubSeq(ts, lo, hi)) \in String
           /\ Len(Decoded(SubSeq(ts, lo, hi))) = hi - lo + 1
           /\ \A i \in 1 .. hi - lo + 1 : Decoded(SubSeq(ts, lo, hi))[i] = ts[lo + i - 1].c
<1> DEFINE s == SubSeq(ts, lo, hi)
<1>1. Len(ts) \in Nat /\ \A i \in 1 .. Len(ts) : ts[i] \in WireToken
  BY LenProperties, ElementOfSeq DEF Tokens
<1>2. lo \in Int /\ hi \in Int /\ \A i \in lo .. hi : ts[i] \in WireToken
  BY <1>1
<1>3. /\ s \in Seq(WireToken) /\ Len(s) = IF lo <= hi THEN hi - lo + 1 ELSE 0
      /\ \A i \in 1 .. hi - lo + 1 : s[i] = ts[lo + i - 1]
  BY <1>2, SubSeqProperties
<1> HIDE DEF s
<1>4. s \in Tokens /\ Len(s) = hi - lo + 1
  BY <1>3 DEF Tokens
<1>5. /\ Decoded(s) \in String /\ Len(Decoded(s)) = Len(s)
      /\ \A i \in 1 .. Len(s) : Decoded(s)[i] = s[i].c
  BY <1>4, DecodedIs
<1>6. \A i \in 1 .. hi - lo + 1 : Decoded(s)[i] = s[i].c
  BY ONLY <1>4, <1>5
<1> QED
  BY <1>3, <1>4, <1>5, <1>6 DEF s

\* A path that signs like that of a bucket and a key leads there, or to no bucket.
LEMMA PathHandled ==
    ASSUME NEW path \in Tokens, NEW b \in Seq(Char \ {"/"}), NEW k \in String,
           canonical_uri(path) = uri_encode(b \o <<"/">> \o k, FALSE)
    PROVE  \/ Route(path) = [bucket |-> b, key |-> k]
           \/ "/" \in ToSet(Route(path).bucket)
<1> DEFINE P == b \o <<"/">> \o k
           n == Len(b)
           m == Len(k)
<1>1. /\ b \in String /\ k \in String /\ n \in Nat /\ m \in Nat
      /\ (\A i \in 1 .. n : b[i] # "/") /\ b \in Seq(Char) /\ k \in Seq(Char)
  BY LenProperties, ElementOfSeq DEF String
<1>2. /\ P \in String /\ Len(P) = n + 1 + m /\ P[n + 1] = "/"
      /\ \A i \in 1 .. n : P[i] = b[i]
      /\ \A i \in 1 .. m : P[n + 1 + i] = k[i]
  BY <1>1, PathIs
<1> HIDE DEF P, n, m
<1>3. Decoded(path) = P
  <2>1. Decoded(path) \in String
    BY DecodedIs
  <2>2. Decoded(uri_encode(Decoded(path), FALSE)) = Decoded(path)
    BY <2>1, EncodeIs
  <2>3. Decoded(uri_encode(P, FALSE)) = P
    BY <1>2, EncodeIs
  <2>4. uri_encode(Decoded(path), FALSE) = uri_encode(P, FALSE)
    BY DEF canonical_uri, uri_recode, P
  <2> QED
    BY <2>2, <2>3, <2>4
<1>4. Len(path) = n + 1 + m /\ \A i \in 1 .. n + 1 + m : path[i].c = P[i]
  <2>1. Len(P) = Len(path) /\ \A i \in 1 .. Len(path) : P[i] = path[i].c
    BY <1>3, DecodedIs
  <2> QED
    BY <1>2, <2>1
<1>5. PICK at : /\ FirstSlash(path, at)
                /\ Route(path) = [bucket |-> Decoded(SubSeq(path, 1, at - 1)),
                                  key |-> Decoded(SubSeq(path, at + 1, Len(path)))]
  BY RouteAt
<1>6. /\ at \in 1 .. (n + 1 + m) + 1
      /\ at = (n + 1 + m) + 1 \/ path[at] = Slash
  BY <1>4, <1>5 DEF FirstSlash
<1>7. at \in Nat /\ at >= 1
  BY <1>6
<1> DEFINE u == Decoded(SubSeq(path, 1, at - 1))
           v == Decoded(SubSeq(path, at + 1, Len(path)))
<1>8. u \in String /\ Len(u) = at - 1 /\ \A i \in 1 .. at - 1 : u[i] = path[i].c
  <2>1. 1 \in Nat /\ at - 1 \in Nat /\ 1 >= 1 /\ at - 1 <= Len(path) /\ 1 <= (at - 1) + 1
    BY <1>1, <1>4, <1>6, <1>7
  <2> DEFINE w == at - 1
  <2>2. w \in Nat /\ w <= Len(path) /\ 1 <= w + 1 /\ w - 1 + 1 = w /\ \A i \in 1 .. w : 1 + i - 1 = i
    BY <2>1
  <2> HIDE DEF w, n, m, P
  <2>3. /\ Decoded(SubSeq(path, 1, w)) \in String
        /\ Len(Decoded(SubSeq(path, 1, w))) = w - 1 + 1
        /\ \A i \in 1 .. w - 1 + 1 : Decoded(SubSeq(path, 1, w))[i] = path[1 + i - 1].c
    BY <2>1, <2>2, DecodedSub
  <2>4. \A i \in 1 .. w : Decoded(SubSeq(path, 1, w))[i] = path[i].c
    BY <2>2, <2>3
  <2> QED
    BY <2>2, <2>3, <2>4 DEF w
<1> HIDE DEF u, v
<1>9. Route(path) = [bucket |-> u, key |-> v]
  BY <1>5 DEF u, v
<1>10. CASE at <= n
  <2>1. at \in 1 .. n /\ at \in 1 .. n + 1 + m /\ at # (n + 1 + m) + 1
    BY <1>1, <1>7, <1>10
  <2>2. Slash.c = "/"
    BY DEF Slash, Raw
  <2>3. b[at] = "/"
    BY <1>2, <1>4, <1>6, <2>1, <2>2
  <2> QED
    BY <1>1, <2>1, <2>3
<1>11. CASE at = n + 1
  <2>1. u = b
    <3>1. \A i \in 1 .. n : u[i] = b[i]
      <4> TAKE i \in 1 .. n
      <4>1. i \in 1 .. at - 1 /\ i \in 1 .. n + 1 + m
        BY <1>1, <1>11
      <4> QED
        BY <1>2, <1>4, <1>8, <4>1
    <3>2. Len(u) = n
      BY <1>1, <1>8, <1>11
    <3>3. u \in Seq(Char)
      BY <1>8 DEF String
    <3> QED
      BY <1>1, <3>1, <3>2, <3>3, SeqEqual DEF n
  <2>2. v = k
    <3> DEFINE lo == at + 1
               hi == n + 1 + m
    <3>1. lo \in Nat /\ hi \in Nat /\ lo >= 1 /\ hi <= Len(path) /\ lo <= hi + 1 /\ hi - lo + 1 = m
      BY <1>1, <1>4, <1>11
    <3>2. v = Decoded(SubSeq(path, lo, hi))
      BY <1>4 DEF v
    <3>3. \A i \in 1 .. m : lo + i - 1 = n + 1 + i /\ n + 1 + i \in 1 .. n + 1 + m
      BY <1>1, <1>11
    <3> HIDE DEF lo, hi
    <3>4. /\ v \in String /\ Len(v) = hi - lo + 1
          /\ \A i \in 1 .. hi - lo + 1 : v[i] = path[lo + i - 1].c
      BY <3>1, <3>2, DecodedSub
    <3>5. Len(v) = m /\ \A i \in 1 .. m : v[i] = path[lo + i - 1].c
      BY <3>1, <3>4
    <3>6. \A i \in 1 .. m : v[i] = k[i]
      BY <1>2, <1>4, <3>3, <3>5
    <3>7. v \in Seq(Char)
      BY <3>4 DEF String
    <3> QED
      BY <1>1, <3>5, <3>6, <3>7, SeqEqual DEF m
  <2> QED
    BY <1>9, <2>1, <2>2
<1>12. CASE at > n + 1
  <2>1. n + 1 \in 1 .. at - 1 /\ n + 1 \in 1 .. n + 1 + m
    BY <1>1, <1>6, <1>12
  <2>2. u[n + 1] = "/"
    BY <1>2, <1>4, <1>8, <2>1
  <2>3. DOMAIN u = 1 .. at - 1
    BY <1>8, LenProperties DEF String
  <2>4. "/" \in ToSet(u)
    BY <2>1, <2>2, <2>3 DEF ToSet
  <2> QED
    BY <1>9, <2>4
<1> QED
  BY <1>1, <1>7, <1>10, <1>11, <1>12

-----------------------------------------------------------------------------
(* Headers, and what is on the wire *)

\* Two pieces flattened.
LEMMA FlattenOne ==
    ASSUME NEW S, NEW s \in Seq(S)
    PROVE  FlattenSeq(<<s>>) = s
<1> DEFINE w == <<s>>
           f == [i \in 0 .. 1 |-> IF i = 0 THEN <<>> ELSE s]
<1>1. w \in Seq(Seq(S)) /\ Len(w) = 1 /\ w[1] = s
  OBVIOUS
<1>2. <<>> \o s = s
  BY ConcatEmptySeq
<1>3. f \in [0 .. 1 -> Seq(S)] /\ f[0] = <<>> /\ f[1] = s
  OBVIOUS
<1> HIDE DEF w, f
<1>4. IsFlat(f, w, 1, S)
  <2>1. \A i \in 1 .. 1 : i = 1 /\ i - 1 = 0
    OBVIOUS
  <2>2. \A i \in 1 .. 1 : f[i] = f[i - 1] \o w[i]
    BY <1>1, <1>2, <1>3, <2>1
  <2> QED
    BY <1>3, <2>2 DEF IsFlat
<1>5. IsFlat(f, w, Len(w), S)
  BY <1>1, <1>4
<1>6. FlattenSeq(w) = f[Len(w)]
  BY <1>1, <1>5, FlattenIs
<1> QED
  BY <1>1, <1>3, <1>6 DEF w

LEMMA FlattenTwo ==
    ASSUME NEW S, NEW s \in Seq(S), NEW t \in Seq(S)
    PROVE  FlattenSeq(<<s, t>>) = s \o t
<1> DEFINE w == <<s, t>>
           f == [i \in 0 .. 2 |-> IF i = 0 THEN <<>> ELSE IF i = 1 THEN s ELSE s \o t]
<1>1. w \in Seq(Seq(S)) /\ Len(w) = 2 /\ w[1] = s /\ w[2] = t
  OBVIOUS
<1>2. <<>> \o s = s /\ s \o t \in Seq(S)
  BY ConcatEmptySeq, ConcatProperties
<1>3. f \in [0 .. 2 -> Seq(S)] /\ f[0] = <<>> /\ f[1] = s /\ f[2] = s \o t
  <2> DEFINE e == s \o t
             g == [i \in 0 .. 2 |-> IF i = 0 THEN <<>> ELSE IF i = 1 THEN s ELSE e]
  <2>1. e \in Seq(S) /\ <<>> \in Seq(S)
    BY <1>2
  <2> HIDE DEF e
  <2>2. g \in [0 .. 2 -> Seq(S)] /\ g[0] = <<>> /\ g[1] = s /\ g[2] = e
    BY <2>1
  <2> QED
    BY <2>2 DEF e
<1> HIDE DEF w, f
<1>4. IsFlat(f, w, 2, S)
  <2>1. \A i \in 1 .. 2 : i = 1 \/ i = 2
    OBVIOUS
  <2>2. f[1] = f[0] \o w[1] /\ f[2] = f[1] \o w[2]
    BY <1>1, <1>2, <1>3
  <2>3. 1 - 1 = 0 /\ 2 - 1 = 1
    OBVIOUS
  <2>4. \A i \in 1 .. 2 : f[i] = f[i - 1] \o w[i]
    BY <2>1, <2>2, <2>3
  <2> QED
    BY <1>3, <2>4 DEF IsFlat
<1>5. IsFlat(f, w, Len(w), S)
  BY <1>1, <1>4
<1>6. FlattenSeq(w) = f[Len(w)]
  BY <1>1, <1>5, FlattenIs
<1> QED
  BY <1>1, <1>3, <1>6 DEF w

\* Headers that sign like those of an intent say the same.
LEMMA HeadersHandled ==
    ASSUME NEW w, NEW n, w.signed = n.signed, n.signed \in {<<"host">>, <<"host", "type">>},
           canonical_headers(w) =
              [i \in DOMAIN n.signed |->
                 <<n.signed[i], Collapsed(IF n.signed[i] = "host" THEN <<n.host>> ELSE n.type)>>]
    PROVE  \A h \in ToSet(n.signed) :
              Collapsed(HeaderLines(w, h)) = Collapsed(IF h = "host" THEN <<n.host>> ELSE n.type)
<1> DEFINE said(h) == Collapsed(IF h = "host" THEN <<n.host>> ELSE n.type)
           read(h) == Collapsed(HeaderLines(w, h))
           one(h) == IF HeaderLines(w, h) = <<>> THEN <<>> ELSE <<<<h, read(h)>>>>
           S == {<<"host", read("host")>>, <<"type", read("type")>>}
<1>1. \A h : Collapsed(IF h = "host" THEN <<n.host>> ELSE n.type) = said(h)
  OBVIOUS
<1>2. canonical_headers(w) = FlattenSeq([i \in DOMAIN n.signed |-> one(n.signed[i])])
  BY DEF canonical_headers
<1>3. canonical_headers(w) = [i \in DOMAIN n.signed |-> <<n.signed[i], said(n.signed[i])>>]
  OBVIOUS
<1>4. one("host") \in Seq(S) /\ one("type") \in Seq(S)
  <2> HIDE DEF read
  <2>1. <<"host", read("host")>> \in S /\ <<"type", read("type")>> \in S
    OBVIOUS
  <2> HIDE DEF S
  <2>2. <<<<"host", read("host")>>>> \in Seq(S) /\ <<<<"type", read("type")>>>> \in Seq(S) /\ <<>> \in Seq(S)
    BY <2>1
  <2> QED
    BY <2>2
<1>5. \A h : one(h) = <<>> \/ one(h) = <<<<h, read(h)>>>>
  OBVIOUS
<1> HIDE DEF said, read, one, S
<1>6. CASE n.signed = <<"host">>
  <2>1. DOMAIN n.signed = 1 .. 1 /\ n.signed[1] = "host" /\ ToSet(n.signed) = {"host"}
    BY <1>6 DEF ToSet
  <2>2. [i \in DOMAIN n.signed |-> one(n.signed[i])] = <<one("host")>>
    BY <2>1
  <2>3. [i \in DOMAIN n.signed |-> <<n.signed[i], said(n.signed[i])>>] = <<<<"host", said("host")>>>>
    BY <2>1
  <2>4. FlattenSeq(<<one("host")>>) = one("host")
    BY <1>4, FlattenOne
  <2>5. one("host") = <<<<"host", said("host")>>>>
    BY <1>2, <1>3, <2>2, <2>3, <2>4
  <2> DEFINE x == <<"host", read("host")>>
             y == <<"host", said("host")>>
  <2>6. x = y
    <3>1. (one("host") = <<>> \/ one("host") = <<x>>) /\ one("host") = <<y>>
      BY <1>5, <2>5
    <3> HIDE DEF x, y
    <3>2. <<y>> # <<>> /\ (<<x>> = <<y>> => x = y)
      OBVIOUS
    <3> QED
      BY ONLY <3>1, <3>2
  <2>7. read("host") = said("host")
    BY <2>6
  <2> QED
    BY <1>1, <2>1, <2>7 DEF read
<1>7. CASE n.signed = <<"host", "type">>
  <2>1. /\ DOMAIN n.signed = 1 .. 2 /\ n.signed[1] = "host" /\ n.signed[2] = "type"
        /\ ToSet(n.signed) = {"host", "type"}
    BY <1>7 DEF ToSet
  <2>2. [i \in DOMAIN n.signed |-> one(n.signed[i])] = <<one("host"), one("type")>>
    BY <2>1
  <2>3. [i \in DOMAIN n.signed |-> <<n.signed[i], said(n.signed[i])>>]
          = <<<<"host", said("host")>>, <<"type", said("type")>>>>
    BY <2>1
  <2>4. FlattenSeq(<<one("host"), one("type")>>) = one("host") \o one("type")
    BY <1>4, FlattenTwo
  <2>5. one("host") \o one("type") = <<<<"host", said("host")>>, <<"type", said("type")>>>>
    BY <1>2, <1>3, <2>2, <2>3, <2>4
  <2> DEFINE a == one("host")
             b == one("type")
             c == a \o b
  <2>6. a \in Seq(S) /\ b \in Seq(S) /\ c = <<<<"host", said("host")>>, <<"type", said("type")>>>>
    BY <1>4, <2>5
  <2>7. Len(c) = 2 /\ c[1] = <<"host", said("host")>> /\ c[2] = <<"type", said("type")>>
    <3> DEFINE x == <<"host", said("host")>>
               y == <<"type", said("type")>>
    <3>1. c = <<x, y>>
      BY <2>6
    <3> HIDE DEF c, x, y
    <3>2. Len(c) = 2 /\ c[1] = x /\ c[2] = y
      BY <3>1
    <3> QED
      BY <3>2 DEF x, y
  <2>8. (a = <<>> \/ a = <<<<"host", read("host")>>>>) /\ (b = <<>> \/ b = <<<<"type", read("type")>>>>)
    BY <1>5
  <2> HIDE DEF a, b, c
  <2>9. /\ Len(c) = Len(a) + Len(b)
        /\ \A i \in 1 .. Len(a) + Len(b) : c[i] = IF i <= Len(a) THEN a[i] ELSE b[i - Len(a)]
    BY <2>6, ConcatProperties DEF c
  <2>10. a = <<<<"host", read("host")>>>> /\ b = <<<<"type", read("type")>>>>
    <3>1. (a = <<>> => Len(a) = 0) /\ (b = <<>> => Len(b) = 0)
      OBVIOUS
    <3>2. Len(a) \in {0, 1} /\ Len(b) \in {0, 1}
      BY <2>8
    <3>3. Len(a) + Len(b) = 2
      BY <2>7, <2>9
    <3> QED
      BY <2>8, <3>1, <3>2, <3>3
  <2>11. Len(a) = 1 /\ Len(b) = 1 /\ a[1] = <<"host", read("host")>> /\ b[1] = <<"type", read("type")>>
    BY <2>10
  <2>12. c[1] = a[1] /\ c[2] = b[1]
    <3>1. 1 \in 1 .. Len(a) + Len(b) /\ 2 \in 1 .. Len(a) + Len(b)
      BY <2>11
    <3>2. c[1] = (IF 1 <= Len(a) THEN a[1] ELSE b[1 - Len(a)])
      BY <2>9, <3>1
    <3>3. c[2] = (IF 2 <= Len(a) THEN a[2] ELSE b[2 - Len(a)])
      BY <2>9, <3>1
    <3>4. 1 <= Len(a) /\ ~(2 <= Len(a)) /\ 2 - Len(a) = 1
      BY <2>11
    <3> QED
      BY <3>2, <3>3, <3>4
  <2>13. read("host") = said("host") /\ read("type") = said("type")
    BY <2>7, <2>11, <2>12
  <2> QED
    BY <1>1, <2>1, <2>13 DEF read
<1> QED
  BY <1>6, <1>7

\* One token lost, added or replaced leaves a text of tokens.
LEMMA EditsType ==
    ASSUME NEW ts \in Tokens
    PROVE  Edits(ts) \subseteq Tokens
<1> DEFINE n == Len(ts)
<1>1. n \in Nat /\ DOMAIN ts = 1 .. n /\ ts \in Seq(WireToken) /\ \A i \in 1 .. n : ts[i] \in WireToken
  BY LenProperties, ElementOfSeq DEF Tokens
<1> HIDE DEF n
<1>2. ASSUME NEW lo \in Nat, NEW hi \in Int, lo >= 1, hi <= n
      PROVE  SubSeq(ts, lo, hi) \in Seq(WireToken)
  <2>1. lo \in Int /\ \A i \in lo .. hi : ts[i] \in WireToken
    BY <1>1, <1>2
  <2> QED
    BY <2>1, SubSeqProperties
<1>3. ASSUME NEW i \in 1 .. n PROVE RemoveAt(ts, i) \in Seq(WireToken)
  <2>1. SubSeq(ts, 1, i - 1) \in Seq(WireToken) /\ SubSeq(ts, i + 1, n) \in Seq(WireToken)
    BY <1>1, <1>2
  <2> DEFINE a == SubSeq(ts, 1, i - 1)
             b == SubSeq(ts, i + 1, n)
  <2> HIDE DEF a, b
  <2>2. a \o b \in Seq(WireToken)
    BY <2>1, ConcatProperties DEF a, b
  <2> QED
    BY <2>2 DEF a, b, RemoveAt, n
<1>4. ASSUME NEW i \in 1 .. n + 1, NEW t \in WireToken PROVE InsertAt(ts, i, t) \in Seq(WireToken)
  <2>1. SubSeq(ts, 1, i - 1) \in Seq(WireToken) /\ SubSeq(ts, i, n) \in Seq(WireToken)
    BY <1>1, <1>2
  <2> DEFINE a == SubSeq(ts, 1, i - 1)
             b == SubSeq(ts, i, n)
             c == a \o <<t>>
  <2> HIDE DEF a, b
  <2>2. a \in Seq(WireToken) /\ b \in Seq(WireToken) /\ <<t>> \in Seq(WireToken)
    BY <2>1 DEF a, b
  <2>3. c \in Seq(WireToken)
    BY <2>2, ConcatProperties
  <2> HIDE DEF c
  <2>4. c \o b \in Seq(WireToken)
    BY <2>2, <2>3, ConcatProperties
  <2> QED
    BY <2>4 DEF a, b, c, InsertAt, n
<1>5. ASSUME NEW i \in 1 .. n, NEW t \in WireToken PROVE ReplaceAt(ts, i, t) \in Seq(WireToken)
  <2>1. i \in 1 .. Len(ts)
    BY DEF n
  <2> QED
    BY <1>1, <2>1, ExceptSeq DEF ReplaceAt
<1>6. ASSUME NEW e \in Edits(ts) PROVE e \in Seq(WireToken)
  <2>1. \/ \E i \in 1 .. n : e = RemoveAt(ts, i)
        \/ \E i \in 1 .. n + 1, t \in WireToken : e = InsertAt(ts, i, t)
        \/ \E i \in 1 .. n, t \in WireToken : e = ReplaceAt(ts, i, t)
    BY <1>1, <1>6 DEF Edits, n
  <2> QED
    BY <1>3, <1>4, <1>5, <2>1
<1> QED
  BY <1>6 DEF Tokens

\* How an intent may be spelled.
LEMMA SpellingsType ==
    ASSUME NEW s \in String, NEW special
    PROVE  Spellings(s, special) \subseteq Tokens /\ QuerySpellings(s, special) \subseteq Tokens
<1>1. Len(s) \in Nat /\ DOMAIN s = 1 .. Len(s)
  BY LenProperties DEF String
<1>2. Spellings(s, special) \subseteq Tokens
  <2>1. Spellings(s, special) \subseteq [1 .. Len(s) -> WireToken]
    BY <1>1 DEF Spellings
  <2>2. [1 .. Len(s) -> WireToken] \subseteq Tokens
    BY <1>1 DEF Tokens
  <2> QED
    BY <2>1, <2>2
<1>3. ASSUME NEW ts \in Spellings(s, special)
      PROVE  [i \in DOMAIN s |-> IF s[i] = " " THEN Raw("+") ELSE ts[i]] \in Tokens
  <2> DEFINE c(i) == IF s[i] = " " THEN Raw("+") ELSE ts[i]
  <2>1. Raw("+") \in WireToken /\ ts \in [DOMAIN s -> WireToken]
    BY TokensAre DEF Char, Spellings
  <2>2. \A i \in 1 .. Len(s) : c(i) \in WireToken
    BY <1>1, <2>1
  <2> HIDE DEF c
  <2>3. [i \in 1 .. Len(s) |-> c(i)] \in Seq(WireToken)
    BY <1>1, <2>2
  <2> QED
    BY <1>1, <2>3 DEF c, Tokens
<1>4. QuerySpellings(s, special) \subseteq Tokens
  BY <1>2, <1>3 DEF QuerySpellings
<1> QED
  BY <1>2, <1>4

\* How a pair may be spelled.
LEMMA PairSpellingsType ==
    ASSUME NEW p \in Pair
    PROVE  PairSpellings(p) \subseteq Tokens
<1> DEFINE A == QuerySpellings(p.name, {"&", "=", "+"})
           B == QuerySpellings(p.value, {"&", "+"})
<1>1. A \subseteq Tokens /\ B \subseteq Tokens
  BY SpellingsType DEF Pair
<1> HIDE DEF A, B
<1>2. ASSUME NEW a \in A, NEW b \in B PROVE a \o <<Raw("=")>> \o b \in Tokens
  <2> DEFINE c == a \o <<Raw("=")>>
  <2>1. a \in Seq(WireToken) /\ b \in Seq(WireToken) /\ <<Raw("=")>> \in Seq(WireToken)
    BY <1>1, TokensAre DEF Tokens, Equals
  <2>2. c \in Seq(WireToken)
    BY <2>1, ConcatProperties
  <2> HIDE DEF c
  <2>3. c \o b \in Seq(WireToken)
    BY <2>1, <2>2, ConcatProperties
  <2> QED
    BY <2>3 DEF c, Tokens
<1>3. PairSpellings(p) \subseteq {a \o <<Raw("=")>> \o b : a \in A, b \in B} \cup A
  BY DEF PairSpellings, A, B
<1> DEFINE both(a, b) == a \o <<Raw("=")>> \o b
<1> HIDE DEF both
<1>4. ASSUME NEW e \in PairSpellings(p) PROVE e \in Tokens
  <2>1. e \in A \/ \E a \in A, b \in B : e = both(a, b)
    BY <1>3 DEF both
  <2>2. \A a \in A, b \in B : both(a, b) \in Tokens
    BY <1>2 DEF both
  <2> QED
    BY <1>1, <2>1, <2>2
<1> QED
  BY <1>4

\* What a client writes are texts of tokens.
LEMMA WireType ==
    ASSUME NEW n \in IntentType
    PROVE  Paths(n) \subseteq Tokens /\ Queries(n) \subseteq Tokens
<1>1. n.bucket \in String /\ n.key \in String /\ n.pairs \in Seq(Pair)
  <2>1. n.bucket \in Seq(Char \ {"/"}) /\ n.key \in String
        /\ n.pairs \in Seq([name: String \ {<<"alg">>}, value: String])
    BY DEF IntentType
  <2>2. n.bucket \in String
    BY <2>1 DEF String
  <2>3. n.pairs \in Seq(Pair)
    <3> DEFINE s == n.pairs
    <3> HIDE DEF s
    <3>1. s \in Seq([name: String \ {<<"alg">>}, value: String])
      BY <2>1 DEF s
    <3>2. [name: String \ {<<"alg">>}, value: String] \subseteq Pair
      BY DEF Pair
    <3>3. Len(s) \in Nat /\ s \in [1 .. Len(s) -> [name: String \ {<<"alg">>}, value: String]]
      BY <3>1, LenProperties
    <3>4. s \in [1 .. Len(s) -> Pair]
      BY <3>2, <3>3
    <3>5. s \in Seq(Pair)
      BY <3>3, <3>4
    <3> QED
      BY <3>5 DEF s
  <2> QED
    BY <2>1, <2>2, <2>3
<1>2. Paths(n) \subseteq Tokens
  <2>1. Spellings(n.bucket, {}) \subseteq Tokens /\ Spellings(n.key, {}) \subseteq Tokens
    BY <1>1, SpellingsType
  <2>2. ASSUME NEW b \in Spellings(n.bucket, {}), NEW k \in Spellings(n.key, {})
        PROVE  b \o <<Raw("/")>> \o k \in Tokens
    <3> DEFINE c == b \o <<Raw("/")>>
    <3>1. "/" \in Char
      BY DEF Char
    <3>2. b \in Seq(WireToken) /\ k \in Seq(WireToken) /\ <<Raw("/")>> \in Seq(WireToken)
      BY <2>1, <3>1, TokensAre DEF Tokens
    <3>3. c \in Seq(WireToken)
      BY <3>2, ConcatProperties
    <3> HIDE DEF c
    <3>4. c \o k \in Seq(WireToken)
      BY <3>2, <3>3, ConcatProperties
    <3> QED
      BY <3>4 DEF c, Tokens
  <2> DEFINE both(b, k) == b \o <<Raw("/")>> \o k
             A == Spellings(n.bucket, {})
             B == Spellings(n.key, {})
  <2>3. \A b \in A, k \in B : both(b, k) \in Tokens
    BY <2>2
  <2>4. Paths(n) = {both(b, k) : b \in A, k \in B}
    BY DEF Paths
  <2> HIDE DEF both, A, B
  <2> QED
    BY <2>3, <2>4
<1>3. Queries(n) \subseteq Tokens
  <2> DEFINE ps == n.pairs
             spelled == UNION {PairSpellings(ps[i]) : i \in DOMAIN ps}
  <2>1. Len(ps) \in Nat /\ DOMAIN ps = 1 .. Len(ps) /\ \A i \in 1 .. Len(ps) : ps[i] \in Pair
    BY <1>1, LenProperties, ElementOfSeq
  <2>2. spelled \subseteq Tokens
    BY <2>1, PairSpellingsType
  <2>3. Queries(n) \subseteq {Join(p) : p \in [DOMAIN ps -> spelled]}
    BY DEF Queries
  <2> HIDE DEF ps, spelled
  <2>4. ASSUME NEW p \in [DOMAIN ps -> spelled] PROVE Join(p) \in Tokens
    <3>1. p \in Seq(Tokens)
      BY <2>1, <2>2
    <3>2. PICK f \in [0 .. Len(p) -> Tokens] : Join(p) = f[Len(p)]
      BY <3>1, JoinIs
    <3>3. Len(p) \in 0 .. Len(p)
      BY <3>1, LenProperties
    <3> QED
      BY <3>2, <3>3
  <2> QED
    BY <2>3, <2>4
<1> QED
  BY <1>2, <1>3

(***************************************************************************)
(* What is signed is the intent; what arrives stays tokens, whatever the   *)
(* wire did to it; an accepted request is handled as it was signed.        *)
(***************************************************************************)
SignedInv ==
    /\ intent \in Intent
    /\ {"path", "query", "signature"} \subseteq DOMAIN wire
    /\ wire.path \in Tokens /\ wire.query \in Tokens
    /\ wire.signature = SignedTerm(intent)
    /\ HandledAsSigned

\* What an intent consists of.
LEMMA IntentIs ==
    ASSUME NEW n \in Intent
    PROVE  /\ n \in IntentType /\ n.bucket \in Seq(Char \ {"/"}) /\ n.key \in String
           /\ n.pairs \in Seq(Pair) /\ n.signed \in {<<"host">>, <<"host", "type">>}
<1>1. n \in IntentType
  BY SigV4Assumption
<1>2. /\ n.bucket \in Seq(Char \ {"/"}) /\ n.key \in String
      /\ n.signed \in {<<"host">>, <<"host", "type">>}
      /\ n.pairs \in Seq([name: String \ {<<"alg">>}, value: String])
  BY <1>1 DEF IntentType
<1> DEFINE s == n.pairs
           P == [name: String \ {<<"alg">>}, value: String]
<1>3. s \in Seq(P) /\ P \subseteq Pair
  BY <1>2 DEF Pair
<1> HIDE DEF s, P
<1>4. Len(s) \in Nat /\ s \in [1 .. Len(s) -> P]
  BY <1>3, LenProperties
<1>5. s \in [1 .. Len(s) -> Pair]
  BY <1>3, <1>4
<1>6. s \in Seq(Pair)
  BY <1>4, <1>5
<1> QED
  BY <1>1, <1>2, <1>6 DEF s

LEMMA SignedInitOK == SigInit => SignedInv
<1> SUFFICES ASSUME SigInit PROVE SignedInv
  OBVIOUS
<1>1. intent \in Intent /\ intent \in IntentType /\ step = "sent"
  BY IntentIs DEF SigInit
<1>2. /\ {"path", "query", "signature"} \subseteq DOMAIN wire
      /\ wire.path \in Paths(intent) /\ wire.query \in Queries(intent)
      /\ wire.signature \in {SignedTerm(intent)}
  BY DEF SigInit, Wires
<1>3. wire.path \in Tokens /\ wire.query \in Tokens
  BY <1>1, <1>2, WireType
<1>4. HandledAsSigned
  BY <1>1 DEF HandledAsSigned
<1> QED
  BY <1>1, <1>2, <1>3, <1>4 DEF SignedInv

\* The signature of the server is that of the client only for a request that means the same.
LEMMA SignatureTells ==
    ASSUME NEW n \in Intent, NEW w, w.path \in Tokens, w.query \in Tokens,
           NEW scope, NEW time, SignedTerm(n) = Signature(Key, scope, time, canonical_request(w))
    PROVE  /\ w.method = n.method
           /\ \/ Route(w.path) = [bucket |-> n.bucket, key |-> n.key]
              \/ "/" \in ToSet(Route(w.path).bucket)
           /\ SameBag(Args(w.query), n.pairs)
           /\ w.hash = n.hash
           /\ \A h \in ToSet(n.signed) :
                 Collapsed(HeaderLines(w, h)) = Collapsed(IF h = "host" THEN <<n.host>> ELSE n.type)
<1> DEFINE uri == uri_encode(Path(n), FALSE)
           query == Joined([i \in DOMAIN n.pairs |->
                              [name |-> uri_encode(n.pairs[i].name, TRUE),
                               value |-> uri_encode(n.pairs[i].value, TRUE)]])
           headers == [i \in DOMAIN n.signed |->
                        <<n.signed[i],
                          Collapsed(IF n.signed[i] = "host" THEN <<n.host>> ELSE n.type)>>]
           creq == [method |-> n.method, uri |-> uri, query |-> query, headers |-> headers,
                    signed |-> n.signed, hash |-> n.hash]
<1>1. SignedTerm(n).creq = creq
  BY DEF SignedTerm, Signature
<1>2. SignedTerm(n).creq = canonical_request(w)
  BY DEF Signature
<1>3. creq = canonical_request(w)
  BY <1>1, <1>2
<1>4. query = Joined(EncodedPairs(n.pairs))
  BY DEF EncodedPairs
<1>5. uri = uri_encode(n.bucket \o <<"/">> \o n.key, FALSE)
  BY DEF Path
<1> HIDE DEF uri, query, headers
<1>7. /\ w.method = n.method /\ canonical_uri(w.path) = uri /\ canonical_query(w.query) = query
      /\ canonical_headers(w) = headers /\ w.signed = n.signed /\ w.hash = n.hash
  <2> DEFINE a == canonical_uri(w.path)
             b == canonical_query(w.query)
             c == canonical_headers(w)
  <2>1. creq = [method |-> w.method, uri |-> a, query |-> b, headers |-> c,
                signed |-> w.signed, hash |-> w.hash]
    BY <1>3 DEF canonical_request
  <2> HIDE DEF a, b, c
  <2>2. w.method = n.method /\ a = uri /\ b = query /\ c = headers /\ w.signed = n.signed /\ w.hash = n.hash
    BY <2>1
  <2> QED
    BY <2>2 DEF a, b, c
<1>8. /\ n.bucket \in Seq(Char \ {"/"}) /\ n.key \in String /\ n.pairs \in Seq(Pair)
      /\ n.signed \in {<<"host">>, <<"host", "type">>}
  BY IntentIs
<1>9. \/ Route(w.path) = [bucket |-> n.bucket, key |-> n.key]
      \/ "/" \in ToSet(Route(w.path).bucket)
  <2> DEFINE b == n.bucket
             k == n.key
             path == w.path
  <2>1. /\ b \in Seq(Char \ {"/"}) /\ k \in String /\ path \in Tokens
        /\ canonical_uri(path) = uri_encode(b \o <<"/">> \o k, FALSE)
    BY <1>5, <1>7, <1>8
  <2> HIDE DEF b, k, path
  <2>2. Route(path) = [bucket |-> b, key |-> k] \/ "/" \in ToSet(Route(path).bucket)
    BY <2>1, PathHandled
  <2> QED
    BY <2>2 DEF b, k, path
<1>10. SameBag(Args(w.query), n.pairs)
  BY <1>4, <1>7, <1>8, QueryHandled
<1>11. \A h \in ToSet(n.signed) :
          Collapsed(HeaderLines(w, h)) = Collapsed(IF h = "host" THEN <<n.host>> ELSE n.type)
  BY <1>7, <1>8, HeadersHandled DEF headers
<1> QED
  BY <1>7, <1>9, <1>10, <1>11

\* No step breaks it.
LEMMA SignedStep ==
    ASSUME SignedInv, SigNext
    PROVE  SignedInv'
<1>1. CASE Receive
  <2>1. UNCHANGED <<intent, wire>>
    BY <1>1 DEF Receive
  <2>2. step' # "accepted"
    BY <1>1 DEF Receive, request_time
  <2>3. HandledAsSigned'
    BY <2>2 DEF HandledAsSigned
  <2> QED
    BY <2>1, <2>3 DEF SignedInv
<1>2. CASE Verify
  <2>1. UNCHANGED <<intent, wire>>
    BY <1>2 DEF Verify
  <2>2. CASE step' # "accepted"
    <3>1. HandledAsSigned'
      BY <2>2 DEF HandledAsSigned
    <3> QED
      BY <2>1, <3>1 DEF SignedInv
  <2>3. CASE step' = "accepted"
    <3>1. wire.signature = Signature(Key, ScopeOf(wire), TimeOf(wire), canonical_request(wire))
      BY <1>2, <2>3 DEF Verify
    <3>2. intent \in Intent /\ wire.path \in Tokens /\ wire.query \in Tokens
          /\ SignedTerm(intent) = Signature(Key, ScopeOf(wire), TimeOf(wire), canonical_request(wire))
      BY <3>1 DEF SignedInv
    <3> DEFINE n == intent
               w == wire
    <3>3. /\ w.method = n.method
          /\ \/ Route(w.path) = [bucket |-> n.bucket, key |-> n.key]
             \/ "/" \in ToSet(Route(w.path).bucket)
          /\ SameBag(Args(w.query), n.pairs)
          /\ w.hash = n.hash
          /\ \A h \in ToSet(n.signed) :
                Collapsed(HeaderLines(w, h)) = Collapsed(IF h = "host" THEN <<n.host>> ELSE n.type)
      BY <3>2, SignatureTells
    <3>5. HandledAsSigned'
      BY <2>1, <3>3 DEF HandledAsSigned, HeaderLines
    <3> QED
      BY <2>1, <3>5 DEF SignedInv
  <2> QED
    BY <2>2, <2>3
<1>3. CASE Tamper
  <2>1. intent' = intent /\ step' = step /\ step = "sent"
    BY <1>3 DEF Tamper
  <2>2. /\ {"path", "query", "signature"} \subseteq DOMAIN wire'
        /\ wire'.signature = wire.signature
        /\ wire'.path = wire.path \/ wire'.path \in Edits(wire.path)
        /\ wire'.query = wire.query \/ wire'.query \in Edits(wire.query)
    BY <1>3 DEF Tamper, SignedInv
  <2>3. wire'.path \in Tokens /\ wire'.query \in Tokens
    BY <2>2, EditsType DEF SignedInv
  <2>4. HandledAsSigned'
    BY <2>1 DEF HandledAsSigned
  <2> QED
    BY <2>1, <2>2, <2>3, <2>4 DEF SignedInv
<1>4. CASE Redeliver
  <2>1. UNCHANGED <<intent, wire>> /\ step' = "sent"
    BY <1>4 DEF Redeliver
  <2>2. HandledAsSigned'
    BY <2>1 DEF HandledAsSigned
  <2> QED
    BY <2>1, <2>2 DEF SignedInv
<1>5. CASE UNCHANGED <<intent, wire, step>>
  <2>1. HandledAsSigned'
    BY <1>5 DEF SignedInv, HandledAsSigned, HeaderLines
  <2> QED
    BY <1>5, <2>1 DEF SignedInv
<1>6. CASE Tick
  BY <1>5, <1>6 DEF Tick
<1>7. CASE Revoke
  BY <1>5, <1>7 DEF Revoke
<1> QED
  BY <1>1, <1>2, <1>3, <1>4, <1>6, <1>7 DEF SigNext

(***************************************************************************)
(* An accepted request makes the handlers do what its client signed, for   *)
(* every key, every query of any length and every single change on the     *)
(* way: verify's canonical request (sigv4.rs) tells apart whatever the     *)
(* router and Args::parse (args.rs) tell apart.                            *)
(***************************************************************************)
THEOREM AcceptedAsSigned == Spec => []HandledAsSigned
<1> DEFINE Inv == IF part = "sigv4" THEN SignedInv ELSE step = "sent"
<1>1. Init => Inv
  BY SignedInitOK DEF Init, SigStill
<1>2. Inv /\ [Next]_vars => Inv'
  <2> SUFFICES ASSUME Inv, [Next]_vars PROVE Inv'
    OBVIOUS
  <2>1. CASE UNCHANGED sigVars /\ UNCHANGED part
    <3>1. HandledAsSigned => HandledAsSigned'
      BY <2>1 DEF sigVars, HandledAsSigned, HeaderLines
    <3> QED
      BY <2>1, <3>1 DEF sigVars, SignedInv
  <2>2. CASE part = "sigv4" /\ SigNext /\ UNCHANGED part
    BY <2>2, SignedStep
  <2>3. \/ UNCHANGED sigVars /\ UNCHANGED part
        \/ part = "sigv4" /\ SigNext /\ UNCHANGED part
    BY DEF Next, vars
  <2> QED
    BY <2>1, <2>2, <2>3
<1>3. Inv => HandledAsSigned
  BY DEF SignedInv, HandledAsSigned
<1> QED
  BY <1>1, <1>2, <1>3, PTL DEF Spec

-----------------------------------------------------------------------------
(* Spellings *)

\* A spelled name or value: what the handlers make of it, and what it does not hold.
LEMMA SpelledIs ==
    ASSUME NEW s \in String, NEW special, {"&", "+"} \subseteq special,
           NEW ts \in QuerySpellings(s, special)
    PROVE  /\ ts \in Tokens /\ PlusIsSpace(ts) \in Tokens
           /\ Decoded(PlusIsSpace(ts)) = s
           /\ Len(ts) = Len(s) /\ Len(PlusIsSpace(ts)) = Len(s)
           /\ \A i \in 1 .. Len(s) :
                 /\ ts[i] # Amp /\ PlusIsSpace(ts)[i] # Amp
                 /\ "=" \in special => ts[i] # Equals /\ PlusIsSpace(ts)[i] # Equals
                 /\ ts[i].c = s[i] \/ ts[i].c = "+"
<1> DEFINE n == Len(s)
           us == PlusIsSpace(ts)
<1>1. n \in Nat /\ DOMAIN s = 1 .. n /\ s \in [1 .. n -> Char] /\ \A i \in 1 .. n : s[i] \in Char
  BY LenProperties, ElementOfSeq DEF String
<1> HIDE DEF n
<1>2. ts \in Tokens
  BY SpellingsType
<1>3. PICK os \in Spellings(s, special) :
         \/ ts = os
         \/ ts = [i \in DOMAIN s |-> IF s[i] = " " THEN Raw("+") ELSE os[i]]
  BY DEF QuerySpellings
<1>4. /\ os \in [1 .. n -> WireToken]
      /\ \A i \in 1 .. n : os[i].c = s[i] /\ (s[i] \in special \cup {" "} => os[i].esc)
  BY <1>1, <1>3 DEF Spellings
<1>5. \A i \in 1 .. n : ts[i] = os[i] \/ (s[i] = " " /\ ts[i] = Raw("+"))
  BY <1>1, <1>3
<1>6. DOMAIN ts = 1 .. n
  BY <1>1, <1>3, <1>4
<1>7. Len(ts) = n
  <2>1. DOMAIN ts = 1 .. Len(ts) /\ Len(ts) \in Nat
    BY <1>2, LenProperties DEF Tokens
  <2> QED
    BY <1>1, <1>6, <2>1
<1>8. /\ us \in Tokens /\ Len(us) = n
      /\ \A i \in 1 .. n : us[i] = IF ts[i] = Raw("+") THEN Esc(" ") ELSE ts[i]
  <2>1. /\ us \in Tokens /\ Len(us) = Len(ts)
        /\ \A i \in 1 .. Len(ts) : us[i] = IF ts[i] = Raw("+") THEN Esc(" ") ELSE ts[i]
    BY <1>2, PlusType
  <2> HIDE DEF us
  <2> QED
    BY ONLY <1>7, <2>1
<1> HIDE DEF us
<1>9. ASSUME NEW i \in 1 .. n
      PROVE  /\ us[i].c = s[i] /\ ts[i] # Amp /\ us[i] # Amp
             /\ "=" \in special => ts[i] # Equals /\ us[i] # Equals
             /\ ts[i].c = s[i] \/ ts[i].c = "+"
  <2>1. /\ Amp.esc = FALSE /\ Amp.c = "&" /\ Equals.esc = FALSE /\ Equals.c = "="
        /\ Raw("+").esc = FALSE /\ Raw("+").c = "+" /\ Esc(" ").esc = TRUE /\ Esc(" ").c = " "
    BY DEF Amp, Equals, Raw, Esc
  <2>2. CASE ts[i] = Raw("+") /\ s[i] = " "
    <3>1. us[i] = Esc(" ")
      BY <1>8, <2>2
    <3> QED
      BY <2>1, <2>2, <3>1
  <2>3. CASE ts[i] = os[i]
    <3>1. /\ ts[i].c = s[i] /\ (s[i] = "+" => ts[i].esc) /\ (s[i] = "&" => ts[i].esc)
          /\ ("=" \in special /\ s[i] = "=" => ts[i].esc)
      BY <1>4, <2>3
    <3>2. ts[i] # Raw("+") /\ ts[i] # Amp /\ ("=" \in special => ts[i] # Equals)
      BY <2>1, <3>1
    <3>3. us[i] = ts[i]
      BY <1>8, <3>2
    <3> QED
      BY <3>1, <3>2, <3>3
  <2> QED
    BY <1>5, <2>2, <2>3
<1>10. Decoded(us) = s
  <2>1. Decoded(us) \in Seq(Char) /\ Len(Decoded(us)) = n
    BY <1>8, DecodedIs DEF String
  <2>2. \A i \in 1 .. n : Decoded(us)[i] = s[i]
    <3>1. \A i \in 1 .. Len(us) : Decoded(us)[i] = us[i].c
      BY <1>8, DecodedIs
    <3>2. \A i \in 1 .. n : Decoded(us)[i] = us[i].c
      BY <1>8, <3>1
    <3> QED
      BY <1>9, <3>2
  <2>3. s \in Seq(Char)
    BY DEF String
  <2> QED
    BY <2>1, <2>2, <2>3, SeqEqual DEF n
<1> QED
  BY <1>2, <1>7, <1>8, <1>9, <1>10 DEF us, n

\* Only the empty text decodes to the empty string.
LEMMA DecodedNone ==
    /\ <<>> \in Tokens /\ PlusIsSpace(<<>>) = <<>> /\ Decoded(<<>>) = <<>>
    /\ <<>> \in String /\ Len(<<>>) = 0
<1>1. <<>> \in Tokens /\ <<>> \in String /\ Len(<<>>) = 0
  BY DEF Tokens, String
<1>2. \A ts \in Tokens : ts = <<>> => Decoded(ts) = <<>> /\ PlusIsSpace(ts) = <<>>
  <2> TAKE ts \in Tokens
  <2> HAVE ts = <<>>
  <2>1. Len(ts) = 0
    OBVIOUS
  <2>2. Decoded(ts) \in Seq(Char) /\ Len(Decoded(ts)) = 0
    BY <2>1, DecodedIs DEF String
  <2>3. PlusIsSpace(ts) \in Seq(WireToken) /\ Len(PlusIsSpace(ts)) = 0
    BY <2>1, PlusType DEF Tokens
  <2> QED
    BY <2>2, <2>3, EmptySeq
<1> QED
  BY <1>1, <1>2

\* A spelled pair.
LEMMA PairRead ==
    ASSUME NEW p \in Pair, NEW w \in PairSpellings(p)
    PROVE  /\ w \in Tokens /\ PlusIsSpace(w) \in Tokens
           /\ w # <<>> /\ PlusIsSpace(w) # <<>>
           /\ \A i \in 1 .. Len(w) : w[i] # Amp /\ PlusIsSpace(w)[i] # Amp
           /\ DecodedPair(SplitPair(PlusIsSpace(w))) = p
           /\ p.name # <<"alg">> => Decoded(SplitPair(w).name) # <<"alg">>
<1> DEFINE A == QuerySpellings(p.name, {"&", "=", "+"})
           B == QuerySpellings(p.value, {"&", "+"})
           u == PlusIsSpace(w)
           m == Len(p.name)
           l == Len(p.value)
<1>1. /\ p.name \in String /\ p.value \in String /\ p = [name |-> p.name, value |-> p.value]
      /\ m \in Nat /\ l \in Nat
  BY LenProperties DEF Pair, String
<1>2. ASSUME NEW a \in A
      PROVE  /\ a \in Tokens /\ PlusIsSpace(a) \in Tokens /\ Decoded(PlusIsSpace(a)) = p.name
             /\ Len(a) = m /\ Len(PlusIsSpace(a)) = m
             /\ \A i \in 1 .. m : /\ a[i] # Amp /\ PlusIsSpace(a)[i] # Amp
                                  /\ a[i] # Equals /\ PlusIsSpace(a)[i] # Equals
                                  /\ a[i].c = p.name[i] \/ a[i].c = "+"
             /\ p.name # <<"alg">> => Decoded(a) # <<"alg">>
  <2> DEFINE special == {"&", "=", "+"}
  <2>1. {"&", "+"} \subseteq special /\ "=" \in special
    OBVIOUS
  <2>2. a \in QuerySpellings(p.name, special)
    OBVIOUS
  <2> HIDE DEF special, A
  <2>3. /\ a \in Tokens /\ PlusIsSpace(a) \in Tokens /\ Decoded(PlusIsSpace(a)) = p.name
        /\ Len(a) = m /\ Len(PlusIsSpace(a)) = m
        /\ \A i \in 1 .. m : /\ a[i] # Amp /\ PlusIsSpace(a)[i] # Amp
                             /\ a[i] # Equals /\ PlusIsSpace(a)[i] # Equals
                             /\ a[i].c = p.name[i] \/ a[i].c = "+"
    BY <1>1, <2>1, <2>2, SpelledIs
  <2>4. ASSUME Decoded(a) = <<"alg">> PROVE p.name = <<"alg">>
    <3> DEFINE s == p.name
               d == Decoded(a)
    <3>1. Len(d) = Len(a) /\ \A i \in 1 .. Len(a) : d[i] = a[i].c
      BY <2>3, DecodedIs
    <3>2. Len(d) = 1 /\ d[1] = "alg"
      BY <2>4
    <3>3. m = 1 /\ a[1].c = "alg"
      BY <2>3, <3>1, <3>2
    <3>4. s[1] = "alg" /\ Len(s) = 1 /\ s \in Seq(Char)
      BY <1>1, <2>3, <3>3 DEF String
    <3> HIDE DEF s
    <3>5. s = <<"alg">>
      BY <3>4
    <3> QED
      BY <3>5 DEF s
  <2> QED
    BY <2>3, <2>4
<1>3. ASSUME NEW b \in B
      PROVE  /\ b \in Tokens /\ PlusIsSpace(b) \in Tokens /\ Decoded(PlusIsSpace(b)) = p.value
             /\ Len(b) = l /\ Len(PlusIsSpace(b)) = l
             /\ \A i \in 1 .. l : b[i] # Amp /\ PlusIsSpace(b)[i] # Amp
  <2> DEFINE special == {"&", "+"}
  <2>1. {"&", "+"} \subseteq special /\ b \in QuerySpellings(p.value, special)
    OBVIOUS
  <2> HIDE DEF special, B
  <2> QED
    BY <1>1, <2>1, SpelledIs
<1> HIDE DEF m, l
<1>4. ASSUME NEW a \in A, NEW b \in B, w = a \o <<Raw("=")>> \o b
      PROVE  /\ w \in Tokens /\ u \in Tokens /\ w # <<>> /\ u # <<>>
             /\ \A i \in 1 .. Len(w) : w[i] # Amp /\ u[i] # Amp
             /\ SplitPair(w).name = a
             /\ SplitPair(u) = [name |-> PlusIsSpace(a), value |-> PlusIsSpace(b)]
  <2> DEFINE c == PlusIsSpace(a)
             d == PlusIsSpace(b)
             v == c \o <<Raw("=")>> \o d
  <2>1. /\ a \in Tokens /\ c \in Tokens /\ Len(a) = m /\ Len(c) = m
        /\ \A i \in 1 .. m : a[i] # Amp /\ c[i] # Amp /\ a[i] # Equals /\ c[i] # Equals
    BY <1>2
  <2>2. /\ b \in Tokens /\ d \in Tokens /\ Len(b) = l /\ Len(d) = l
        /\ \A i \in 1 .. l : b[i] # Amp /\ d[i] # Amp
    BY <1>3
  <2>3. /\ \A i \in 1 .. m : c[i] = IF a[i] = Raw("+") THEN Esc(" ") ELSE a[i]
        /\ \A i \in 1 .. l : d[i] = IF b[i] = Raw("+") THEN Esc(" ") ELSE b[i]
    <3>1. \A i \in 1 .. Len(a) : c[i] = IF a[i] = Raw("+") THEN Esc(" ") ELSE a[i]
      BY <2>1, PlusType
    <3>2. \A i \in 1 .. Len(b) : d[i] = IF b[i] = Raw("+") THEN Esc(" ") ELSE b[i]
      BY <2>2, PlusType
    <3> QED
      BY <2>1, <2>2, <3>1, <3>2
  <2> HIDE DEF c, d
  <2>4. /\ w \in Tokens /\ SplitPair(w) = [name |-> a, value |-> b] /\ Len(w) = m + 1 + l
        /\ \A i \in 1 .. m : w[i] = a[i]
        /\ w[m + 1] = Equals
        /\ \A i \in 1 .. l : w[m + 1 + i] = b[i]
    <3>1. \A i \in 1 .. Len(a) : a[i] # Equals
      BY <2>1
    <3>2. /\ w \in Tokens /\ SplitPair(w) = [name |-> a, value |-> b] /\ Len(w) = Len(a) + 1 + Len(b)
          /\ \A i \in 1 .. Len(a) : w[i] = a[i]
          /\ w[Len(a) + 1] = Equals
          /\ \A i \in 1 .. Len(b) : w[Len(a) + 1 + i] = b[i]
      <4> DEFINE x == a \o <<Raw("=")>> \o b
      <4>1. /\ x \in Tokens /\ SplitPair(x) = [name |-> a, value |-> b] /\ Len(x) = Len(a) + 1 + Len(b)
            /\ \A i \in 1 .. Len(a) : x[i] = a[i]
            /\ x[Len(a) + 1] = Equals
            /\ \A i \in 1 .. Len(b) : x[Len(a) + 1 + i] = b[i]
        BY <2>1, <2>2, <3>1, SplitPairCoded
      <4>2. w = x
        BY <1>4
      <4> HIDE DEF x
      <4> QED
        BY <4>1, <4>2
    <3>3. Len(a) = m /\ Len(b) = l
      BY <2>1, <2>2
    <3> QED
      BY ONLY <3>2, <3>3
  <2>5. /\ v \in Tokens /\ SplitPair(v) = [name |-> c, value |-> d] /\ Len(v) = m + 1 + l
        /\ \A i \in 1 .. m : v[i] = c[i]
        /\ v[m + 1] = Equals
        /\ \A i \in 1 .. l : v[m + 1 + i] = d[i]
    <3>1. \A i \in 1 .. Len(c) : c[i] # Equals
      BY <2>1
    <3>2. /\ v \in Tokens /\ SplitPair(v) = [name |-> c, value |-> d] /\ Len(v) = Len(c) + 1 + Len(d)
          /\ \A i \in 1 .. Len(c) : v[i] = c[i]
          /\ v[Len(c) + 1] = Equals
          /\ \A i \in 1 .. Len(d) : v[Len(c) + 1 + i] = d[i]
      BY <2>1, <2>2, <3>1, SplitPairCoded
    <3>3. Len(c) = m /\ Len(d) = l
      BY <2>1, <2>2
    <3> HIDE DEF v
    <3> QED
      BY ONLY <3>2, <3>3
  <2>6. /\ u \in Tokens /\ Len(u) = m + 1 + l
        /\ \A i \in 1 .. m + 1 + l : u[i] = IF w[i] = Raw("+") THEN Esc(" ") ELSE w[i]
    <3>1. /\ u \in Tokens /\ Len(u) = Len(w)
          /\ \A i \in 1 .. Len(w) : u[i] = IF w[i] = Raw("+") THEN Esc(" ") ELSE w[i]
      BY <2>4, PlusType
    <3>2. Len(w) = m + 1 + l
      BY <2>4
    <3> HIDE DEF u
    <3> QED
      BY ONLY <3>1, <3>2
  <2> HIDE DEF u, v
  <2>7. Equals # Raw("+") /\ Equals # Amp
    BY DEF Equals, Raw, Amp
  <2>8. \A i \in 1 .. m + 1 + l :
           \/ i \in 1 .. m
           \/ i = m + 1
           \/ \E j \in 1 .. l : i = m + 1 + j
    <3> TAKE i \in 1 .. m + 1 + l
    <3>1. i > m + 1 => i - (m + 1) \in 1 .. l /\ i = m + 1 + (i - (m + 1))
      BY <1>1 DEF m, l
    <3> QED
      BY <1>1, <3>1 DEF m, l
  <2>9. \A i \in 1 .. m + 1 + l : u[i] = v[i] /\ w[i] # Amp /\ v[i] # Amp
    <3> TAKE i \in 1 .. m + 1 + l
    <3>1. CASE i \in 1 .. m
      <4>1. w[i] = a[i] /\ v[i] = c[i]
        BY <2>4, <2>5, <3>1
      <4>2. c[i] = (IF a[i] = Raw("+") THEN Esc(" ") ELSE a[i]) /\ a[i] # Amp /\ c[i] # Amp
        BY <2>1, <2>3, <3>1
      <4>3. u[i] = IF w[i] = Raw("+") THEN Esc(" ") ELSE w[i]
        BY <2>6
      <4> QED
        BY ONLY <4>1, <4>2, <4>3
    <3>2. CASE i = m + 1
      BY <2>4, <2>5, <2>6, <2>7, <3>2
    <3>3. CASE \E j \in 1 .. l : i = m + 1 + j
      <4>1. PICK j \in 1 .. l : i = m + 1 + j
        BY <3>3
      <4>2. w[i] = b[j] /\ v[i] = d[j]
        BY <2>4, <2>5, <4>1
      <4>3. d[j] = (IF b[j] = Raw("+") THEN Esc(" ") ELSE b[j]) /\ b[j] # Amp /\ d[j] # Amp
        BY <2>2, <2>3, <4>1
      <4>4. u[i] = IF w[i] = Raw("+") THEN Esc(" ") ELSE w[i]
        BY <2>6
      <4> QED
        BY ONLY <4>2, <4>3, <4>4
    <3> QED
      BY <2>8, <3>1, <3>2, <3>3
  <2>10. u = v
    BY <2>5, <2>6, <2>9, SeqEqual DEF Tokens
  <2>11. m + 1 + l # 0
    BY <1>1 DEF m, l
  <2> QED
    BY <2>4, <2>5, <2>9, <2>10, <2>11 DEF c, d
<1>5. ASSUME w \in A, p.value = <<>>, p.name # <<>>
      PROVE  /\ w \in Tokens /\ u \in Tokens /\ w # <<>> /\ u # <<>>
             /\ \A i \in 1 .. Len(w) : w[i] # Amp /\ u[i] # Amp
             /\ SplitPair(w).name = w
             /\ SplitPair(u) = [name |-> u, value |-> <<>>]
  <2>1. /\ w \in Tokens /\ u \in Tokens /\ Len(w) = m /\ Len(u) = m
        /\ \A i \in 1 .. m : w[i] # Amp /\ u[i] # Amp /\ w[i] # Equals /\ u[i] # Equals
    BY <1>2, <1>5
  <2>2. m # 0
    BY <1>1, <1>5, EmptySeq DEF m, String
  <2>3. ASSUME NEW t \in Tokens, Len(t) = m, \A i \in 1 .. m : t[i] # Equals
        PROVE  SplitPair(t) = [name |-> t, value |-> <<>>] /\ t # <<>>
    <3>1. FirstEquals(t, m + 1)
      <4>1. m + 1 \in 1 .. Len(t) + 1 /\ m + 1 = Len(t) + 1 /\ (m + 1) - 1 = m
        BY <1>1, <2>3 DEF m
      <4> QED
        BY <2>3, <4>1 DEF FirstEquals
    <3>2. SplitPair(t) = [name |-> SubSeq(t, 1, (m + 1) - 1), value |-> SubSeq(t, (m + 1) + 1, Len(t))]
      BY <2>3, <3>1, SplitPairAt
    <3>3. (m + 1) - 1 = Len(t)
      BY <1>1, <2>3 DEF m
    <3>4. SubSeq(t, 1, Len(t)) = t
      BY <2>3, SubSeqFull DEF Tokens
    <3>5. (m + 1) + 1 \in Int /\ Len(t) \in Int /\ Len(t) < (m + 1) + 1
      BY <1>1, <2>3 DEF m
    <3>6. SubSeq(t, (m + 1) + 1, Len(t)) = <<>>
      BY <3>5, SubSeqEmpty
    <3>7. t # <<>>
      BY <2>2, <2>3
    <3> QED
      BY <3>2, <3>3, <3>4, <3>6, <3>7
  <2>4. SplitPair(w) = [name |-> w, value |-> <<>>] /\ w # <<>>
    BY <2>1, <2>3
  <2>5. SplitPair(u) = [name |-> u, value |-> <<>>] /\ u # <<>>
    BY <2>1, <2>3
  <2> HIDE DEF u
  <2> QED
    BY <2>1, <2>4, <2>5
<1> DEFINE both(a, b) == a \o <<Raw("=")>> \o b
<1>6. \/ \E a \in A, b \in B : w = both(a, b)
      \/ w \in A /\ p.value = <<>> /\ p.name # <<>>
  BY DEF PairSpellings
<1>7. CASE \E a \in A, b \in B : w = both(a, b)
  <2>1. PICK a \in A, b \in B : w = a \o <<Raw("=")>> \o b
    BY <1>7
  <2>2. /\ w \in Tokens /\ u \in Tokens /\ w # <<>> /\ u # <<>>
        /\ \A i \in 1 .. Len(w) : w[i] # Amp /\ u[i] # Amp
        /\ SplitPair(w).name = a
        /\ SplitPair(u) = [name |-> PlusIsSpace(a), value |-> PlusIsSpace(b)]
    BY <1>4, <2>1
  <2>3. DecodedPair(SplitPair(u)) = p
    <3>1. Decoded(PlusIsSpace(a)) = p.name /\ Decoded(PlusIsSpace(b)) = p.value
      BY <1>2, <1>3
    <3> QED
      BY <1>1, <2>2, <3>1 DEF DecodedPair
  <2>4. p.name # <<"alg">> => Decoded(SplitPair(w).name) # <<"alg">>
    BY <1>2, <2>2
  <2> QED
    BY <2>2, <2>3, <2>4 DEF u
<1>8. CASE w \in A /\ p.value = <<>> /\ p.name # <<>>
  <2>1. /\ w \in Tokens /\ u \in Tokens /\ w # <<>> /\ u # <<>>
        /\ \A i \in 1 .. Len(w) : w[i] # Amp /\ u[i] # Amp
        /\ SplitPair(w).name = w
        /\ SplitPair(u) = [name |-> u, value |-> <<>>]
    BY <1>5, <1>8
  <2>2. DecodedPair(SplitPair(u)) = p
    <3>1. Decoded(u) = p.name /\ Decoded(<<>>) = p.value
      BY <1>2, <1>8, DecodedNone
    <3> HIDE DEF u
    <3> QED
      BY <1>1, <2>1, <3>1 DEF DecodedPair
  <2>3. p.name # <<"alg">> => Decoded(SplitPair(w).name) # <<"alg">>
    BY <1>2, <1>8, <2>1
  <2> QED
    BY <2>1, <2>2, <2>3 DEF u
<1> QED
  BY <1>6, <1>7, <1>8

\* A plus is read as a space in either part of a text.
LEMMA PlusConcat ==
    ASSUME NEW a \in Tokens, NEW b \in Tokens
    PROVE  PlusIsSpace(a \o b) = PlusIsSpace(a) \o PlusIsSpace(b)
<1> DEFINE n == Len(a)
           m == Len(b)
           c == PlusIsSpace(a)
           d == PlusIsSpace(b)
           w == a \o b
           u == PlusIsSpace(w)
           v == c \o d
           spaced(t) == IF t = Raw("+") THEN Esc(" ") ELSE t
<1>1. n \in Nat /\ m \in Nat /\ a \in Seq(WireToken) /\ b \in Seq(WireToken)
  BY LenProperties DEF Tokens
<1>2. c \in Seq(WireToken) /\ Len(c) = n /\ \A i \in 1 .. n : c[i] = spaced(a[i])
  BY PlusType DEF Tokens
<1>3. d \in Seq(WireToken) /\ Len(d) = m /\ \A i \in 1 .. m : d[i] = spaced(b[i])
  BY PlusType DEF Tokens
<1> HIDE DEF c, d, spaced
<1>4. /\ w \in Seq(WireToken) /\ Len(w) = n + m
      /\ \A i \in 1 .. n + m : w[i] = IF i <= n THEN a[i] ELSE b[i - n]
  BY <1>1, ConcatProperties
<1>5. /\ v \in Seq(WireToken) /\ Len(v) = n + m
      /\ \A i \in 1 .. n + m : v[i] = IF i <= n THEN c[i] ELSE d[i - n]
  <2>1. /\ v \in Seq(WireToken) /\ Len(v) = Len(c) + Len(d)
        /\ \A i \in 1 .. Len(c) + Len(d) : v[i] = IF i <= Len(c) THEN c[i] ELSE d[i - Len(c)]
    <3>1. c \in Seq(WireToken) /\ d \in Seq(WireToken)
      BY <1>2, <1>3
    <3> QED
      BY ONLY <3>1, ConcatProperties DEF v
  <2>2. Len(c) = n /\ Len(d) = m
    BY <1>2, <1>3
  <2> HIDE DEF v, n, m
  <2> QED
    BY ONLY <2>1, <2>2
<1>6. u \in Seq(WireToken) /\ Len(u) = n + m /\ \A i \in 1 .. n + m : u[i] = spaced(w[i])
  <2>1. u \in Seq(WireToken) /\ Len(u) = Len(w) /\ \A i \in 1 .. Len(w) : u[i] = spaced(w[i])
    BY <1>4, PlusType DEF Tokens, spaced
  <2> HIDE DEF u, w
  <2> QED
    BY <1>4, <2>1
<1> HIDE DEF u, v, w, n, m
<1>7. \A i \in 1 .. n + m : u[i] = v[i]
  <2> TAKE i \in 1 .. n + m
  <2>1. (i <= n => i \in 1 .. n) /\ (~(i <= n) => i - n \in 1 .. m)
    BY <1>1
  <2>2. CASE i <= n
    BY <1>2, <1>4, <1>5, <1>6, <2>1, <2>2
  <2>3. CASE ~(i <= n)
    BY <1>3, <1>4, <1>5, <1>6, <2>1, <2>3
  <2> QED
    BY <2>2, <2>3
<1>8. u = v
  BY <1>5, <1>6, <1>7, SeqEqual
<1> QED
  BY <1>8 DEF u, v, w, c, d

\* And in each part of a query.
LEMMA PlusJoin ==
    ASSUME NEW ps \in Seq(Tokens)
    PROVE  PlusIsSpace(Join(ps)) = Join([i \in 1 .. Len(ps) |-> PlusIsSpace(ps[i])])
<1> DEFINE n == Len(ps)
           qs == [i \in 1 .. n |-> PlusIsSpace(ps[i])]
<1>1. n \in Nat /\ \A i \in 1 .. n : ps[i] \in Tokens
  BY LenProperties, ElementOfSeq
<1>2. \A i \in 1 .. n : PlusIsSpace(ps[i]) \in Tokens
  BY <1>1, PlusType
<1>3. qs \in Seq(Tokens) /\ Len(qs) = n /\ \A i \in 1 .. n : qs[i] = PlusIsSpace(ps[i])
  BY <1>1, <1>2
<1>4. PICK f \in [0 .. n -> Tokens] :
         /\ f[0] = <<>>
         /\ \A i \in 1 .. n : f[i] = f[i - 1] \o PartOf(ps, i)
         /\ Join(ps) = f[n]
  BY JoinIs
<1> HIDE DEF qs, n
<1>5. PICK g \in [0 .. n -> Tokens] :
         /\ g[0] = <<>>
         /\ \A i \in 1 .. n : g[i] = g[i - 1] \o PartOf(qs, i)
         /\ Join(qs) = g[n]
  <2>1. \E g \in [0 .. Len(qs) -> Tokens] :
         /\ g[0] = <<>>
         /\ \A i \in 1 .. Len(qs) : g[i] = g[i - 1] \o PartOf(qs, i)
         /\ Join(qs) = g[Len(qs)]
    BY <1>3, JoinIs
  <2>2. Len(qs) = n
    BY <1>3
  <2> QED
    BY ONLY <2>1, <2>2
<1>6. \A i \in 1 .. n : /\ PartOf(ps, i) \in Tokens
                        /\ PlusIsSpace(PartOf(ps, i)) = PartOf(qs, i)
  <2> TAKE i \in 1 .. n
  <2> DEFINE c == IF i > 1 THEN <<Amp>> ELSE <<>>
             e == ps[i]
  <2>1. e \in Tokens /\ qs[i] = PlusIsSpace(e)
    BY <1>1, <1>3
  <2>2. c \in Tokens
    BY TokensAre DEF Tokens
  <2>3. PlusIsSpace(c) = c
    <3>1. PlusIsSpace(<<Amp>>) = <<Amp>>
      <4> DEFINE a == <<Amp>>
                 d == PlusIsSpace(a)
                 spaced(t) == IF t = Raw("+") THEN Esc(" ") ELSE t
      <4>1. a \in Tokens /\ Len(a) = 1 /\ a[1] = Amp
        BY TokensAre DEF Tokens
      <4>2. spaced(Amp) = Amp
        BY DEF Amp, Raw
      <4> HIDE DEF a, spaced
      <4>3. d \in Seq(WireToken) /\ Len(d) = Len(a) /\ \A j \in 1 .. Len(a) : d[j] = spaced(a[j])
        BY <4>1, PlusType DEF Tokens, spaced
      <4> HIDE DEF d
      <4>4. \A j \in 1 .. Len(d) : d[j] = a[j]
        <5>1. Len(d) = 1 /\ \A j \in 1 .. 1 : j = 1
          BY <4>1, <4>3
        <5>2. 1 \in 1 .. Len(a)
          BY <4>1
        <5>3. d[1] = a[1]
          BY <4>1, <4>2, <4>3, <5>2
        <5> QED
          BY ONLY <5>1, <5>3
      <4>5. d = a
        BY <4>1, <4>3, <4>4, SeqEqual DEF Tokens
      <4> QED
        BY <4>5 DEF d, a
    <3>2. PlusIsSpace(<<>>) = <<>>
      BY DecodedNone
    <3>3. c = <<Amp>> \/ c = <<>>
      OBVIOUS
    <3> HIDE DEF c
    <3> QED
      BY ONLY <3>1, <3>2, <3>3
  <2>4. PartOf(ps, i) = c \o e /\ PartOf(qs, i) = c \o qs[i]
    BY DEF PartOf
  <2> HIDE DEF c, e
  <2>5. c \o e \in Tokens
    BY <2>1, <2>2, ConcatProperties DEF Tokens
  <2>6. PlusIsSpace(c \o e) = PlusIsSpace(c) \o PlusIsSpace(e)
    BY <2>1, <2>2, PlusConcat
  <2> QED
    BY ONLY <2>1, <2>3, <2>4, <2>5, <2>6
<1> DEFINE T == {k \in 0 .. n : PlusIsSpace(f[k]) = g[k]}
<1>7. 0 \in T
  BY <1>1, <1>4, <1>5, DecodedNone
<1>8. ASSUME NEW k \in 1 .. n, k - 1 \in T PROVE k \in T
  <2>1. k \in 0 .. n /\ k - 1 \in 0 .. n
    BY <1>1
  <2>2. f[k - 1] \in Tokens /\ f[k] = f[k - 1] \o PartOf(ps, k) /\ g[k] = g[k - 1] \o PartOf(qs, k)
    BY <1>4, <1>5, <2>1
  <2>3. PlusIsSpace(f[k - 1] \o PartOf(ps, k)) = PlusIsSpace(f[k - 1]) \o PlusIsSpace(PartOf(ps, k))
    BY <1>6, <2>2, PlusConcat
  <2>4. PlusIsSpace(f[k - 1]) = g[k - 1] /\ PlusIsSpace(PartOf(ps, k)) = PartOf(qs, k)
    BY <1>6, <1>8
  <2>5. PlusIsSpace(f[k]) = g[k]
    BY ONLY <2>2, <2>3, <2>4
  <2> QED
    BY <2>1, <2>5
<1> HIDE DEF T
<1>9. n \in T
  <2>1. \A k \in 0 .. n : k \in T
    BY <1>1, <1>7, <1>8, CountUp
  <2> QED
    BY <1>1, <2>1
<1> QED
  BY <1>4, <1>5, <1>9 DEF T, qs, n

\* Elements flattened one by one.
LEMMA Singles ==
    ASSUME NEW S, NEW x \in Seq(S)
    PROVE  FlattenSeq([i \in 1 .. Len(x) |-> <<x[i]>>]) = x
<1> DEFINE n == Len(x)
           w == [i \in 1 .. n |-> <<x[i]>>]
           f == [k \in 0 .. n |-> SubSeq(x, 1, k)]
<1>1. n \in Nat /\ \A i \in 1 .. n : x[i] \in S
  BY LenProperties, ElementOfSeq
<1>2. w \in Seq(Seq(S)) /\ Len(w) = n /\ \A i \in 1 .. n : w[i] = <<x[i]>>
  <2>1. \A i \in 1 .. n : <<x[i]>> \in Seq(S)
    BY <1>1
  <2> HIDE DEF n
  <2> QED
    BY <1>1, <2>1
<1>3. \A i \in 1 .. n : /\ SubSeq(x, 1, i - 1) \in Seq(S) /\ SubSeq(x, 1, i) \in Seq(S)
                        /\ SubSeq(x, 1, i) = SubSeq(x, 1, i - 1) \o <<x[i]>>
  <2> TAKE i \in 1 .. n
  <2> DEFINE a == SubSeq(x, 1, i - 1)
             e == x[i]
  <2>1. a \in Seq(S) /\ e \in S /\ SubSeq(x, 1, i) = Append(a, e)
    BY AppendLast
  <2> HIDE DEF a, e
  <2>2. Append(a, e) \in Seq(S) /\ Append(a, e) = a \o <<e>>
    BY <2>1, AppendProperties, AppendIsConcat
  <2> QED
    BY <2>1, <2>2 DEF a, e
<1>4. SubSeq(x, 1, 0) = <<>> /\ SubSeq(x, 1, n) = x
  BY SubSeqEmpty, SubSeqFull
<1> HIDE DEF w, n
<1>5. f \in [0 .. n -> Seq(S)]
  <2>1. \A k \in 0 .. n : k = 0 \/ k \in 1 .. n
    BY <1>1
  <2>2. \A k \in 0 .. n : SubSeq(x, 1, k) \in Seq(S)
    <3> TAKE k \in 0 .. n
    <3>1. CASE k = 0
      <4>1. <<>> \in Seq(S)
        OBVIOUS
      <4> QED
        BY <1>4, <3>1, <4>1
    <3>2. CASE k \in 1 .. n
      BY <1>3, <3>2
    <3> QED
      BY <2>1, <3>1, <3>2
  <2> QED
    BY <2>2
<1>6. f[0] = <<>> /\ f[n] = x /\ \A i \in 1 .. n : f[i] = f[i - 1] \o w[i]
  <2>1. \A k \in 0 .. n : f[k] = SubSeq(x, 1, k)
    OBVIOUS
  <2>2. 0 \in 0 .. n /\ n \in 0 .. n /\ \A i \in 1 .. n : i \in 0 .. n /\ i - 1 \in 0 .. n
    BY <1>1
  <2> HIDE DEF f
  <2> QED
    BY <1>2, <1>3, <1>4, <2>1, <2>2
<1> HIDE DEF f
<1>7. IsFlat(f, w, Len(w), S)
  BY <1>2, <1>5, <1>6 DEF IsFlat
<1>8. FlattenSeq(w) = f[Len(w)]
  BY <1>2, <1>7, FlattenIs
<1> QED
  BY <1>2, <1>6, <1>8 DEF w, n

\* However an intent spells its query, the handlers read its pairs, and it is not presigned.
LEMMA QueryMeans ==
    ASSUME NEW n \in Intent, NEW q \in Queries(n)
    PROVE  q \in Tokens /\ Args(q) = n.pairs /\ ~Presigned(q)
<1> DEFINE ps == n.pairs
           m == Len(ps)
           spelled == UNION {PairSpellings(ps[i]) : i \in DOMAIN ps}
<1>1. /\ m \in Nat /\ DOMAIN ps = 1 .. m /\ ps \in Seq(Pair)
      /\ \A i \in 1 .. m : ps[i] \in Pair /\ ps[i].name # <<"alg">>
  <2>1. n \in IntentType
    BY IntentIs
  <2>2. ps \in Seq([name: String \ {<<"alg">>}, value: String])
    BY <2>1 DEF IntentType
  <2>3. ps \in Seq(Pair)
    BY IntentIs
  <2> HIDE DEF ps
  <2>4. m \in Nat /\ DOMAIN ps = 1 .. m /\ \A i \in 1 .. m : ps[i] \in [name: String \ {<<"alg">>}, value: String]
    BY <2>2, LenProperties, ElementOfSeq
  <2> QED
    BY <2>3, <2>4 DEF Pair
<1>2. PICK ws \in [DOMAIN ps -> spelled] :
         q = Join(ws) /\ \A i \in DOMAIN ws : ws[i] \in PairSpellings(ps[i])
  BY DEF Queries
<1> HIDE DEF ps, m, spelled
<1>3. DOMAIN ws = 1 .. m /\ ws = [i \in 1 .. m |-> ws[i]]
  BY <1>1, <1>2
<1>4. \A i \in 1 .. m :
         /\ ws[i] \in Tokens /\ PlusIsSpace(ws[i]) \in Tokens
         /\ ws[i] # <<>> /\ PlusIsSpace(ws[i]) # <<>>
         /\ \A j \in 1 .. Len(ws[i]) : ws[i][j] # Amp /\ PlusIsSpace(ws[i])[j] # Amp
         /\ DecodedPair(SplitPair(PlusIsSpace(ws[i]))) = ps[i]
         /\ Decoded(SplitPair(ws[i]).name) # <<"alg">>
  <2> TAKE i \in 1 .. m
  <2> DEFINE pr == ps[i]
             w == ws[i]
  <2>1. pr \in Pair /\ pr.name # <<"alg">> /\ w \in PairSpellings(pr)
    BY <1>1, <1>2, <1>3
  <2> HIDE DEF pr, w
  <2>2. /\ w \in Tokens /\ PlusIsSpace(w) \in Tokens
        /\ w # <<>> /\ PlusIsSpace(w) # <<>>
        /\ \A j \in 1 .. Len(w) : w[j] # Amp /\ PlusIsSpace(w)[j] # Amp
        /\ DecodedPair(SplitPair(PlusIsSpace(w))) = pr
        /\ Decoded(SplitPair(w).name) # <<"alg">>
    BY <2>1, PairRead
  <2> QED
    BY <2>2 DEF pr, w
<1>5. ws \in Seq(Tokens) /\ Len(ws) = m
  BY <1>1, <1>3, <1>4
<1> DEFINE us == [i \in 1 .. m |-> PlusIsSpace(ws[i])]
<1>6. us \in Seq(Tokens) /\ Len(us) = m /\ \A i \in 1 .. m : us[i] = PlusIsSpace(ws[i])
  BY <1>1, <1>4
<1>7. PlusIsSpace(q) = Join(us)
  <2>1. PlusIsSpace(Join(ws)) = Join([i \in 1 .. Len(ws) |-> PlusIsSpace(ws[i])])
    BY <1>5, PlusJoin
  <2>2. [i \in 1 .. Len(ws) |-> PlusIsSpace(ws[i])] = us
    BY <1>5
  <2> QED
    BY <1>2, <2>1, <2>2
<1> HIDE DEF us
<1>8. \A i \in 1 .. m : Len(PlusIsSpace(ws[i])) = Len(ws[i])
  BY <1>4, PlusType
<1>9. \A i \in 1 .. m : \A j \in 1 .. Len(us[i]) : us[i][j] # Amp
  BY <1>4, <1>6, <1>8
<1> DEFINE a == Split(q, Amp)
           b == Split(PlusIsSpace(q), Amp)
<1>10. ASSUME m = 0 PROVE q = <<>> /\ PlusIsSpace(q) = <<>> /\ a = <<<<>>>> /\ b = <<<<>>>>
  <2>1. PICK f \in [0 .. Len(ws) -> Tokens] : f[0] = <<>> /\ Join(ws) = f[Len(ws)]
    BY <1>5, JoinIs
  <2>2. q = <<>>
    BY <1>2, <1>5, <1>10, <2>1
  <2>3. PlusIsSpace(q) = <<>>
    BY <2>2, DecodedNone
  <2> QED
    BY <2>2, <2>3, SplitNone
<1>11. ASSUME m # 0 PROVE q \in Tokens /\ a = ws /\ b = us
  <2>1. ws \in TokenLists /\ us \in TokenLists
    <3>1. ws # <<>> /\ us # <<>>
      BY <1>5, <1>6, <1>11
    <3> QED
      BY <1>5, <1>6, <3>1 DEF TokenLists
  <2>2. \A i \in 1 .. Len(ws) : \A j \in 1 .. Len(ws[i]) : ws[i][j] # Amp
    BY <1>4, <1>5
  <2>3. \A i \in 1 .. Len(us) : \A j \in 1 .. Len(us[i]) : us[i][j] # Amp
    BY <1>6, <1>9
  <2>4. Join(ws) \in Tokens /\ Split(Join(ws), Amp) = ws
    BY <2>1, <2>2, SplitJoin
  <2>5. Split(Join(us), Amp) = us
    BY <2>1, <2>3, SplitJoin
  <2> QED
    BY <1>2, <1>7, <2>4, <2>5
<1>12. q \in Tokens
  BY <1>10, <1>11, DecodedNone
<1> HIDE DEF a, b
<1>13. ~Presigned(q)
  <2>1. Presigned(q) <=> \E i \in DOMAIN a : Decoded(SplitPair(a[i]).name) = <<"alg">>
    BY DEF Presigned, a, Amp
  <2>2. CASE m = 0
    <3>1. DOMAIN a = {1} /\ a[1] = <<>>
      BY <1>10, <2>2
    <3>2. FirstEquals(<<>>, 1)
      <4> DEFINE t == <<>>
      <4>1. Len(t) = 0 /\ \A j \in 1 .. 1 - 1 : FALSE
        OBVIOUS
      <4> HIDE DEF t
      <4>2. FirstEquals(t, 1)
        BY <4>1 DEF FirstEquals
      <4> QED
        BY <4>2 DEF t
    <3>3. SplitPair(<<>>).name = SubSeq(<<>>, 1, 1 - 1)
      <4> DEFINE t == <<>>
                 y == SubSeq(t, 1, 1 - 1)
                 z == SubSeq(t, 1 + 1, Len(t))
      <4>1. t \in Tokens /\ FirstEquals(t, 1)
        BY <3>2, DecodedNone
      <4> HIDE DEF t
      <4>2. SplitPair(t) = [name |-> y, value |-> z]
        BY <4>1, SplitPairAt
      <4> HIDE DEF y, z
      <4>3. SplitPair(t).name = y
        BY <4>2
      <4> QED
        BY <4>3 DEF t, y
    <3>4. SubSeq(<<>>, 1, 1 - 1) = <<>>
      BY SubSeqEmpty
    <3>5. Decoded(SplitPair(a[1]).name) = <<>>
      BY <3>1, <3>3, <3>4, DecodedNone
    <3>6. <<>> # <<"alg">>
      OBVIOUS
    <3> QED
      BY <2>1, <3>1, <3>5, <3>6
  <2>3. CASE m # 0
    <3>1. DOMAIN a = 1 .. m /\ \A i \in 1 .. m : a[i] = ws[i]
      BY <1>3, <1>11, <2>3
    <3> QED
      BY <1>4, <2>1, <3>1
  <2> QED
    BY <2>2, <2>3
<1>14. Args(q) = ps
  <2> DEFINE tp == SplitPairs(PlusIsSpace(q))
             w == [i \in DOMAIN b |-> IF b[i] = <<>> THEN <<>> ELSE <<SplitPair(b[i])>>]
  <2>1. tp = FlattenSeq(w)
    BY DEF SplitPairs, b, Amp
  <2>2. Args(q) = [i \in DOMAIN tp |-> DecodedPair(tp[i])]
    BY DEF Args, DecodedPair
  <2> HIDE DEF tp
  <2>3. CASE m = 0
    <3>1. DOMAIN b = {1} /\ b[1] = <<>>
      BY <1>10, <2>3
    <3>2. w = <<<<>>>>
      BY <3>1
    <3>3. FlattenSeq(<<<<>>>>) = <<>>
      <4> DEFINE e == <<>>
      <4>1. e \in Seq(Pair)
        OBVIOUS
      <4> HIDE DEF e
      <4>2. FlattenSeq(<<e>>) = e
        BY <4>1, FlattenOne
      <4> QED
        BY <4>2 DEF e
    <3>4. tp = <<>>
      BY <2>1, <3>2, <3>3
    <3>5. Args(q) \in Seq(Pair)
      BY <1>12, QueryRead
    <3>6. DOMAIN Args(q) = {}
      BY <2>2, <3>4
    <3> DEFINE r == Args(q)
    <3> HIDE DEF r, w
    <3>7. r \in Seq(Pair) /\ DOMAIN r = 1 .. Len(r) /\ Len(r) \in Nat /\ DOMAIN r = {}
      BY <3>5, <3>6, LenProperties DEF r
    <3>8. Len(r) = 0
      BY <3>7
    <3>9. r = <<>> /\ ps = <<>>
      BY <1>1, <2>3, <3>7, <3>8, EmptySeq DEF m
    <3> QED
      BY <3>9 DEF r
  <2>4. CASE m # 0
    <3> DEFINE x == [i \in 1 .. m |-> SplitPair(us[i])]
    <3>1. x \in Seq(TokenPair) /\ Len(x) = m /\ DOMAIN x = 1 .. m /\ \A i \in 1 .. m : x[i] = SplitPair(us[i])
      <4>1. \A i \in 1 .. m : SplitPair(us[i]) \in TokenPair
        BY <1>4, <1>6, SplitPairType
      <4> QED
        BY <1>1, <4>1
    <3>2. DOMAIN b = 1 .. m /\ \A i \in 1 .. m : b[i] = us[i] /\ us[i] # <<>>
      <4>1. DOMAIN us = 1 .. m
        BY DEF us
      <4> QED
        BY <1>4, <1>6, <1>11, <2>4, <4>1
    <3> HIDE DEF x
    <3>3. w = [i \in 1 .. Len(x) |-> <<x[i]>>]
      <4>1. \A i \in 1 .. m : (IF b[i] = <<>> THEN <<>> ELSE <<SplitPair(b[i])>>) = <<x[i]>>
        BY <3>1, <3>2
      <4> QED
        BY <3>1, <3>2, <4>1
    <3>4. tp = x
      BY <2>1, <3>1, <3>3, Singles
    <3>5. \A i \in 1 .. m : DecodedPair(x[i]) = ps[i]
      BY <1>4, <1>6, <3>1
    <3>6. Args(q) = [i \in 1 .. m |-> ps[i]]
      BY <2>2, <3>1, <3>4, <3>5
    <3>7. ps = [i \in 1 .. m |-> ps[i]]
      BY <1>1, LenProperties DEF m
    <3> QED
      BY <3>6, <3>7
  <2> QED
    BY <2>3, <2>4
<1> QED
  BY <1>12, <1>13, <1>14 DEF ps

\* However it spells its path.
LEMMA PathMeans ==
    ASSUME NEW n \in Intent, NEW path \in Paths(n)
    PROVE  canonical_uri(path) = uri_encode(Path(n), FALSE)
<1> DEFINE both(b, k) == b \o <<Raw("/")>> \o k
           A == Spellings(n.bucket, {})
           B == Spellings(n.key, {})
           u == n.bucket
           v == n.key
<1>1. u \in String /\ v \in String
  BY IntentIs DEF String
<1>2. \E b \in A, k \in B : path = both(b, k)
  BY DEF Paths
<1>3. PICK b \in A, k \in B : path = both(b, k)
  BY <1>2
<1>4. ASSUME NEW s \in String, NEW ts \in Spellings(s, {})
      PROVE  ts \in Seq(WireToken) /\ Len(ts) = Len(s) /\ \A i \in 1 .. Len(s) : ts[i].c = s[i]
  <2>1. Len(s) \in Nat /\ DOMAIN s = 1 .. Len(s)
    BY LenProperties DEF String
  <2>2. ts \in [1 .. Len(s) -> WireToken] /\ \A i \in 1 .. Len(s) : ts[i].c = s[i]
    BY <2>1 DEF Spellings
  <2> QED
    BY <2>1, <2>2
<1> DEFINE l == Len(u)
           m == Len(v)
           x == u \o <<"/">> \o v
           d == Decoded(path)
<1>5. /\ b \in Seq(WireToken) /\ Len(b) = l /\ \A i \in 1 .. l : b[i].c = u[i]
      /\ k \in Seq(WireToken) /\ Len(k) = m /\ \A i \in 1 .. m : k[i].c = v[i]
  BY <1>1, <1>3, <1>4
<1>6. /\ x \in String /\ Len(x) = l + 1 + m /\ x[l + 1] = "/" /\ l \in Nat /\ m \in Nat
      /\ \A i \in 1 .. l : x[i] = u[i]
      /\ \A i \in 1 .. m : x[l + 1 + i] = v[i]
  BY <1>1, PathIs, LenProperties DEF String
<1> HIDE DEF A, B, u, v
<1>7. /\ path \in Seq(WireToken) /\ Len(path) = l + 1 + m /\ path[l + 1] = Raw("/")
      /\ \A i \in 1 .. l : path[i] = b[i]
      /\ \A i \in 1 .. m : path[l + 1 + i] = k[i]
  <2>1. Raw("/") \in WireToken
    BY TokensAre DEF Char
  <2>2. path = b \o <<Raw("/")>> \o k
    BY <1>3
  <2>3. b \in Seq(WireToken) /\ k \in Seq(WireToken)
    BY <1>5
  <2>4. /\ path \in Seq(WireToken) /\ Len(path) = Len(b) + 1 + Len(k) /\ path[Len(b) + 1] = Raw("/")
        /\ \A i \in 1 .. Len(b) : path[i] = b[i]
        /\ \A i \in 1 .. Len(k) : path[Len(b) + 1 + i] = k[i]
    BY <2>1, <2>2, <2>3, Between
  <2>5. Len(b) = l /\ Len(k) = m
    BY <1>5
  <2> HIDE DEF l, m
  <2> QED
    BY ONLY <2>4, <2>5
<1>8. d \in String /\ Len(d) = l + 1 + m /\ \A i \in 1 .. l + 1 + m : d[i] = path[i].c
  <2>1. d \in String /\ Len(d) = Len(path) /\ \A i \in 1 .. Len(path) : d[i] = path[i].c
    BY <1>7, DecodedIs DEF Tokens
  <2>2. Len(path) = l + 1 + m
    BY <1>7
  <2> HIDE DEF d, l, m
  <2> QED
    BY ONLY <2>1, <2>2
<1> HIDE DEF d, x, l, m
<1>9. \A i \in 1 .. l + 1 + m : d[i] = x[i]
  <2> TAKE i \in 1 .. l + 1 + m
  <2>1. CASE i \in 1 .. l
    BY <1>5, <1>6, <1>7, <1>8, <2>1
  <2>2. CASE i = l + 1
    <3>1. Raw("/").c = "/"
      BY DEF Raw
    <3> QED
      BY <1>6, <1>7, <1>8, <2>2, <3>1
  <2>3. CASE i > l + 1
    <3> DEFINE j == i - (l + 1)
    <3>1. j \in 1 .. m /\ l + 1 + j = i
      BY <1>6, <2>3
    <3> HIDE DEF j
    <3>2. k[j].c = v[j]
      BY <1>5, <3>1
    <3>3. x[i] = v[j] /\ path[i] = k[j]
      BY <1>6, <1>7, <3>1
    <3>4. d[i] = path[i].c
      BY <1>8
    <3> QED
      BY <3>2, <3>3, <3>4
  <2> QED
    BY <1>6, <2>1, <2>2, <2>3
<1>10. d = x
  <2>1. d \in Seq(Char) /\ x \in Seq(Char) /\ Len(d) = Len(x) /\ \A i \in 1 .. Len(d) : d[i] = x[i]
    BY <1>6, <1>8, <1>9 DEF String
  <2> QED
    BY <2>1, SeqEqual
<1> QED
  BY <1>10 DEF canonical_uri, uri_recode, Path, d, x, u, v

\* The headers of an intent sign as it says.
LEMMA HeadersMean ==
    ASSUME NEW n \in Intent, NEW w, w.signed = n.signed,
           HeaderLines(w, "host") = <<n.host>>, HeaderLines(w, "type") = n.type
    PROVE  canonical_headers(w) =
              [i \in DOMAIN n.signed |->
                 <<n.signed[i], Collapsed(IF n.signed[i] = "host" THEN <<n.host>> ELSE n.type)>>]
<1> DEFINE said(h) == <<h, Collapsed(IF h = "host" THEN <<n.host>> ELSE n.type)>>
           one(h) == IF HeaderLines(w, h) = <<>> THEN <<>> ELSE <<<<h, Collapsed(HeaderLines(w, h))>>>>
           s == n.signed
           x == [i \in DOMAIN s |-> said(s[i])]
           S == {said("host"), said("type")}
<1>1. /\ s = <<"host">> \/ s = <<"host", "type">>
      /\ s = <<"host", "type">> => n.type # <<>>
  BY IntentIs, SigV4Assumption
<1>2. canonical_headers(w) = FlattenSeq([i \in DOMAIN s |-> one(s[i])])
  BY DEF canonical_headers
<1>3. one("host") = <<said("host")>>
  <2>1. <<n.host>> # <<>>
    OBVIOUS
  <2> QED
    BY <2>1
<1>4. ASSUME n.type # <<>> PROVE one("type") = <<said("type")>>
  BY <1>4
<1> HIDE DEF said, one, s
<1>5. \A i \in DOMAIN s : one(s[i]) = <<said(s[i])>> /\ s[i] \in {"host", "type"}
  <2>1. CASE s = <<"host">>
    <3>1. \A i \in DOMAIN s : s[i] = "host"
      BY <2>1
    <3> QED
      BY <1>3, <3>1
  <2>2. CASE s = <<"host", "type">>
    <3>1. \A i \in DOMAIN s : s[i] = "host" \/ s[i] = "type"
      BY <2>2
    <3> QED
      BY <1>1, <1>3, <1>4, <2>2, <3>1
  <2> QED
    BY <1>1, <2>1, <2>2
<1>6. Len(s) \in Nat /\ DOMAIN s = 1 .. Len(s)
  BY <1>1
<1>7. x \in Seq(S) /\ Len(x) = Len(s) /\ \A i \in 1 .. Len(s) : x[i] = said(s[i])
  <2>1. \A i \in DOMAIN s : said(s[i]) \in S
    BY <1>5
  <2> HIDE DEF S
  <2> QED
    BY <1>6, <2>1
<1>8. [i \in DOMAIN s |-> one(s[i])] = [i \in 1 .. Len(x) |-> <<x[i]>>]
  BY <1>5, <1>6, <1>7
<1> HIDE DEF x, S
<1>9. FlattenSeq([i \in 1 .. Len(x) |-> <<x[i]>>]) = x
  BY <1>7, Singles
<1>10. canonical_headers(w) = x
  BY <1>2, <1>8, <1>9
<1> QED
  BY <1>10 DEF x, s, said

\* The scope of a credential, however many slashes the key has.
LEMMA CredentialIs ==
    ASSUME NEW day, NEW w, w.credential = Key \o <<day, "region", "s3", "aws4_request">>
    PROVE  /\ Len(w.credential) >= 5 /\ KeyOf(w) = Key
           /\ ScopeOf(w) = <<day, "region", "s3", "aws4_request">>
           /\ ScopeOf(w)[1] = day /\ ScopeOf(w)[3] = "s3" /\ ScopeOf(w)[4] = "aws4_request"
<1> DEFINE S == STRING \cup {day, "region", "s3", "aws4_request"}
           s == <<day, "region", "s3", "aws4_request">>
           k == Len(Key)
           c == Key \o s
<1>1. k \in Nat /\ k # 0 /\ Key \in Seq(STRING)
  BY SigV4Assumption, LenProperties, EmptySeq
<1>2. Key \in Seq(S)
  <2>1. \A i \in 1 .. k : Key[i] \in STRING
    BY <1>1, ElementOfSeq
  <2>2. Key \in [1 .. k -> S]
    BY <1>1, <2>1, LenProperties
  <2> QED
    BY <1>1, <2>2
<1>3. s \in Seq(S) /\ Len(s) = 4 /\ s[1] = day /\ s[3] = "s3" /\ s[4] = "aws4_request"
  <2> DEFINE e1 == "region"
             e2 == "s3"
             e3 == "aws4_request"
             t == <<day, e1, e2, e3>>
  <2>1. day \in S /\ e1 \in S /\ e2 \in S /\ e3 \in S
    OBVIOUS
  <2> HIDE DEF e1, e2, e3, S
  <2>2. t \in Seq(S) /\ Len(t) = 4 /\ t[1] = day /\ t[3] = e2 /\ t[4] = e3
    BY <2>1
  <2> QED
    BY <2>2 DEF e1, e2, e3
<1> HIDE DEF s, S, k
<1>4. /\ c \in Seq(S) /\ Len(c) = k + 4
      /\ \A i \in 1 .. k + 4 : c[i] = IF i <= k THEN Key[i] ELSE s[i - k]
  <2>1. /\ c \in Seq(S) /\ Len(c) = Len(Key) + Len(s)
        /\ \A i \in 1 .. Len(Key) + Len(s) : c[i] = IF i <= Len(Key) THEN Key[i] ELSE s[i - Len(Key)]
    BY <1>2, <1>3, ConcatProperties
  <2>2. Len(s) = 4 /\ Len(Key) = k
    BY <1>3 DEF k
  <2> HIDE DEF c
  <2> QED
    BY ONLY <2>1, <2>2
<1>5. w.credential = c
  BY DEF s
<1> HIDE DEF c
<1>6. \A i \in 1 .. k + 4 : c[i] \in S
  BY <1>4, ElementOfSeq
<1>7. KeyOf(w) = Key
  <2> DEFINE a == SubSeq(c, 1, k)
  <2>1. 1 \in Int /\ k \in Int /\ 1 <= k /\ k - 1 + 1 = k /\ \A i \in 1 .. k : c[i] \in S /\ 1 + i - 1 = i
    BY <1>1, <1>6
  <2>2. /\ a \in Seq(S) /\ Len(a) = IF 1 <= k THEN k - 1 + 1 ELSE 0
        /\ \A i \in 1 .. k - 1 + 1 : a[i] = c[1 + i - 1]
    BY <2>1, SubSeqProperties
  <2>3. KeyOf(w) = a
    <3>1. Len(w.credential) - 4 = k
      BY <1>1, <1>4, <1>5
    <3> QED
      BY <1>5, <3>1 DEF KeyOf
  <2> HIDE DEF a
  <2>4. Len(a) = k /\ \A i \in 1 .. k : a[i] = c[i]
    BY <2>1, <2>2
  <2>5. \A i \in 1 .. k : c[i] = Key[i]
    BY <1>1, <1>4
  <2>6. a = Key
    BY <1>2, <2>2, <2>4, <2>5, SeqEqual DEF k
  <2> QED
    BY <2>3, <2>6
<1>8. ScopeOf(w) = s
  <2> DEFINE lo == k + 1
             hi == k + 4
             a == SubSeq(c, lo, hi)
  <2>1. lo \in Int /\ hi \in Int /\ lo <= hi /\ hi - lo + 1 = 4 /\ \A i \in lo .. hi : c[i] \in S
    BY <1>1, <1>6
  <2>2. ScopeOf(w) = a
    <3>1. Len(w.credential) - 3 = lo /\ Len(w.credential) = hi
      BY <1>1, <1>4, <1>5
    <3> QED
      BY <1>5, <3>1 DEF ScopeOf
  <2>3. \A i \in 1 .. 4 : /\ lo + i - 1 = k + i /\ k + i \in 1 .. k + 4
                          /\ ~(k + i <= k) /\ (k + i) - k = i
    BY <1>1
  <2> HIDE DEF lo, hi
  <2>4. /\ a \in Seq(S) /\ Len(a) = IF lo <= hi THEN hi - lo + 1 ELSE 0
        /\ \A i \in 1 .. hi - lo + 1 : a[i] = c[lo + i - 1]
    BY <2>1, SubSeqProperties
  <2> HIDE DEF a
  <2>5. Len(a) = 4 /\ \A i \in 1 .. 4 : a[i] = c[lo + i - 1]
    BY <2>1, <2>4
  <2>6. \A i \in 1 .. 4 : a[i] = s[i]
    BY <1>4, <2>3, <2>5
  <2>7. a = s
    BY <1>3, <2>4, <2>5, <2>6, SeqEqual
  <2> QED
    BY <2>2, <2>7
<1>9. ScopeOf(w)[1] = day /\ ScopeOf(w)[3] = "s3" /\ ScopeOf(w)[4] = "aws4_request"
  BY <1>3, <1>8
<1>10. ScopeOf(w) = <<day, "region", "s3", "aws4_request">>
  BY <1>8 DEF s
<1> QED
  BY <1>1, <1>4, <1>5, <1>7, <1>9, <1>10

\* An untouched request carries the signature the server computes.
LEMMA WireMeans ==
    ASSUME NEW n \in Intent, NEW w \in Wires(n)
    PROVE  /\ ~Presigned(w.query)
           /\ w.scheme = "AWS4-HMAC-SHA256" /\ FieldsOK(w.fields)
           /\ CredentialOK(w) /\ KeyOf(w) = Key /\ SignedHeadersOK(w.signed)
           /\ TimeOf(w) = n.time /\ n.time \in Nat
           /\ ScopeOf(w) = Scope(n.time) /\ ScopeOf(w)[1] = DayOf(n.time)
           /\ w.hash # "none"
           /\ w.signature = Signature(Key, Scope(n.time), n.time, canonical_request(w))
<1>1. /\ w.method = n.method /\ w.path \in Paths(n) /\ w.query \in Queries(n)
      /\ w.headers = [h \in Header |-> IF h = "type" THEN n.type
                                       ELSE IF n.http2 THEN <<>> ELSE <<n.host>>]
      /\ w.authority = IF n.http2 THEN <<n.host>> ELSE <<>>
      /\ w.amz_date = IF n.dated = "x-amz-date" THEN n.time ELSE NoDate
      /\ w.date = n.time /\ w.hash = n.hash /\ w.scheme = "AWS4-HMAC-SHA256"
      /\ w.fields = <<"Credential", "SignedHeaders", "Signature">>
      /\ w.credential = Key \o Scope(n.time)
      /\ w.signed = n.signed /\ w.signature = SignedTerm(n)
  BY DEF Wires
<1>2. n.hash \in {"h", "i"} /\ n.time \in Nat /\ 1 + n.time \div Day \in DOMAIN Dates
  BY SigV4Assumption, IntentIs DEF IntentType
<1>3. FieldsOK(w.fields)
  <2> DEFINE s == w.fields
  <2>1. /\ Len(s) = 3 /\ DOMAIN s = 1 .. 3
        /\ s[1] = "Credential" /\ s[2] = "SignedHeaders" /\ s[3] = "Signature"
    BY <1>1
  <2> HIDE DEF s
  <2>2. \A i \in 1 .. 3 : i = 1 \/ i = 2 \/ i = 3
    OBVIOUS
  <2>3. ToSet(s) \subseteq {"Credential", "SignedHeaders", "Signature"}
    BY <2>1, <2>2 DEF ToSet
  <2>4. {"Credential", "SignedHeaders", "Signature"} \subseteq ToSet(s)
    BY <2>1 DEF ToSet
  <2>5. Field \ {"bogus"} = {"Credential", "SignedHeaders", "Signature"}
    BY DEF Field
  <2>6. FieldsOK(s)
    BY <2>1, <2>3, <2>4, <2>5 DEF FieldsOK
  <2> QED
    BY <2>6 DEF s
<1>4. /\ Len(w.credential) >= 5 /\ KeyOf(w) = Key
      /\ ScopeOf(w) = Scope(n.time)
      /\ ScopeOf(w)[1] = DayOf(n.time) /\ ScopeOf(w)[3] = "s3" /\ ScopeOf(w)[4] = "aws4_request"
  <2> DEFINE day == DayOf(n.time)
             c == w.credential
  <2>1. c = Key \o <<day, "region", "s3", "aws4_request">>
    BY <1>1 DEF Scope
  <2> HIDE DEF day
  <2>2. w.credential = Key \o <<day, "region", "s3", "aws4_request">>
    BY <2>1
  <2> HIDE DEF c
  <2>3. /\ Len(w.credential) >= 5 /\ KeyOf(w) = Key
        /\ ScopeOf(w) = <<day, "region", "s3", "aws4_request">>
        /\ ScopeOf(w)[1] = day /\ ScopeOf(w)[3] = "s3" /\ ScopeOf(w)[4] = "aws4_request"
    BY ONLY <2>2, CredentialIs, SigV4Assumption
  <2> QED
    BY <2>3 DEF day, Scope
<1>5. CredentialOK(w)
  <2>1. DayOf(n.time) \in ToSet(Dates)
    BY <1>2 DEF DayOf, ToSet
  <2>2. Key # <<"">>
    BY SigV4Assumption
  <2> QED
    BY <1>4, <2>1, <2>2 DEF CredentialOK
<1>6. SignedHeadersOK(w.signed)
  <2>1. w.signed = <<"host">> \/ w.signed = <<"host", "type">>
    BY <1>1, IntentIs
  <2>2. CASE w.signed = <<"host">>
    BY <2>2 DEF SignedHeadersOK, ToSet
  <2>3. CASE w.signed = <<"host", "type">>
    <3> DEFINE s == w.signed
    <3>1. Len(s) = 2 /\ s[1] = "host" /\ s[2] = "type" /\ DOMAIN s = 1 .. 2 /\ s # <<>>
      BY <2>3
    <3> HIDE DEF s
    <3>2. \A i \in 1 .. Len(s) - 1 : i = 1
      BY <3>1
    <3>3. \A i \in 1 .. Len(s) - 1 : s[i] = "host" /\ s[i + 1] = "type"
      BY <3>1, <3>2
    <3>4. "host" \in ToSet(s)
      BY <3>1 DEF ToSet
    <3> QED
      BY <3>1, <3>3, <3>4 DEF SignedHeadersOK, s
  <2> QED
    BY <2>1, <2>2, <2>3
<1>7. TimeOf(w) = n.time
  BY <1>1, <1>2 DEF TimeOf, NoDate
<1>8. w.query \in Tokens /\ Args(w.query) = n.pairs /\ ~Presigned(w.query)
  BY <1>1, QueryMeans
<1>9. canonical_query(w.query) = Joined(EncodedPairs(n.pairs))
  BY <1>8, QueryRead
<1>10. canonical_uri(w.path) = uri_encode(Path(n), FALSE)
  BY <1>1, PathMeans
<1>11. HeaderLines(w, "host") = <<n.host>> /\ HeaderLines(w, "type") = n.type
  <2>1. /\ w.headers["type"] = n.type
        /\ w.headers["host"] = IF n.http2 THEN <<>> ELSE <<n.host>>
    BY <1>1 DEF Header
  <2>2. <<n.host>> # <<>>
    OBVIOUS
  <2> QED
    BY <1>1, <2>1, <2>2 DEF HeaderLines
<1>12. canonical_headers(w) =
          [i \in DOMAIN n.signed |->
             <<n.signed[i], Collapsed(IF n.signed[i] = "host" THEN <<n.host>> ELSE n.type)>>]
  BY <1>1, <1>11, HeadersMean
<1>13. SignedTerm(n) = Signature(Key, Scope(n.time), n.time, canonical_request(w))
  <2> DEFINE uri == uri_encode(Path(n), FALSE)
             query == Joined(EncodedPairs(n.pairs))
             headers == canonical_headers(w)
  <2>1. canonical_request(w) = [method |-> n.method, uri |-> uri, query |-> query,
                                headers |-> headers, signed |-> n.signed, hash |-> n.hash]
    BY <1>1, <1>9, <1>10 DEF canonical_request
  <2>2. SignedTerm(n) = Signature(Key, Scope(n.time), n.time,
                                  [method |-> n.method, uri |-> uri, query |-> query,
                                   headers |-> headers, signed |-> n.signed, hash |-> n.hash])
    BY <1>12 DEF SignedTerm, EncodedPairs
  <2> QED
    BY <2>1, <2>2
<1> QED
  BY <1>1, <1>2, <1>3, <1>4, <1>5, <1>6, <1>7, <1>8, <1>13

\* Until the wire changes it, a request is a spelling of its intent.
SpeltInv == intent \in Intent /\ (~touched => wire \in Wires(intent))

\* What a step of SpellingsAccepted may do.
Accepts ==
    ~touched /\ UnderWay /\ ~UnderWay' /\ step' # "accepted"
       => account # "active" \/ MaxSkew < Apart(now, intent.time)

\* No step breaks it or turns an untouched request away for another reason.
LEMMA SpeltStep ==
    ASSUME SpeltInv, SigNext
    PROVE  SpeltInv' /\ Accepts
<1>1. CASE ~touched /\ Receive
  <2> DEFINE n == intent
             w == wire
  <2>1. n \in Intent /\ w \in Wires(n)
    BY <1>1 DEF SpeltInv
  <2>2. /\ ~Presigned(w.query)
        /\ w.scheme = "AWS4-HMAC-SHA256" /\ FieldsOK(w.fields)
        /\ CredentialOK(w) /\ SignedHeadersOK(w.signed)
        /\ TimeOf(w) = n.time /\ n.time \in Nat /\ ScopeOf(w)[1] = DayOf(n.time)
    BY <2>1, WireMeans
  <2>3. request_time(w) = "Ok" \/ Apart(now, n.time) > MaxSkew
    BY <2>2 DEF request_time
  <2>4. step' = IF request_time(w) # "Ok" THEN request_time(w) ELSE "lookup"
    BY <1>1, <2>2 DEF Receive
  <2>5. CASE request_time(w) = "Ok"
    <3>1. UnderWay'
      BY <2>4, <2>5 DEF UnderWay
    <3> QED
      BY <1>1, <3>1 DEF Accepts, Receive, SpeltInv
  <2>6. CASE Apart(now, n.time) > MaxSkew
    <3>1. MaxSkew < Apart(now, intent.time)
      BY <2>6
    <3> QED
      BY <1>1, <3>1 DEF Accepts, Receive, SpeltInv
  <2> QED
    BY <2>3, <2>5, <2>6
<1>2. CASE ~touched /\ Verify
  <2> DEFINE n == intent
             w == wire
  <2>1. n \in Intent /\ w \in Wires(n)
    BY <1>2 DEF SpeltInv
  <2>2. /\ KeyOf(w) = Key /\ TimeOf(w) = n.time /\ ScopeOf(w) = Scope(n.time) /\ w.hash # "none"
        /\ w.signature = Signature(Key, Scope(n.time), n.time, canonical_request(w))
    BY <2>1, WireMeans
  <2>3. w.signature = Signature(Key, ScopeOf(w), TimeOf(w), canonical_request(w))
    BY <2>2
  <2>4. account = "active" => step' = "accepted"
    BY <1>2, <2>2, <2>3 DEF Verify
  <2> QED
    BY <1>2, <2>4 DEF Accepts, Verify, SpeltInv
<1>3. CASE touched /\ (Receive \/ Verify)
  BY <1>3 DEF Receive, Verify, SpeltInv, Accepts
<1>4. CASE Tamper
  <2>1. touched' /\ step' = step /\ intent' = intent
    BY <1>4 DEF Tamper
  <2> QED
    BY <2>1 DEF SpeltInv, Accepts, UnderWay
<1>5. CASE Redeliver
  BY <1>5 DEF Redeliver, SpeltInv, Accepts
<1>6. CASE Tick \/ Revoke
  <2>1. UNCHANGED <<intent, wire, touched, step>>
    BY <1>6 DEF Tick, Revoke
  <2> QED
    BY <2>1 DEF SpeltInv, Accepts, UnderWay
<1> QED
  BY <1>1, <1>2, <1>3, <1>4, <1>5, <1>6 DEF SigNext

(***************************************************************************)
(* No spelling of an intent is turned away but for its date or its user:   *)
(* canonical_query and canonical_uri (sigv4.rs) undo every escape, plus    *)
(* and bare name a client may write, and put the pairs in the order in     *)
(* which the client signed them.                                           *)
(***************************************************************************)
THEOREM SpellingsAreAccepted == Spec => SpellingsAccepted
<1> DEFINE Inv == IF part = "sigv4" THEN SpeltInv ELSE step = "sent"
<1>1. Init => Inv
  BY DEF Init, SigInit, SigStill, SpeltInv
<1>2. Inv /\ [Next]_vars => Inv' /\ [Accepts]_sigVars
  <2> SUFFICES ASSUME Inv, [Next]_vars PROVE Inv' /\ [Accepts]_sigVars
    OBVIOUS
  <2>1. CASE UNCHANGED sigVars /\ UNCHANGED part
    BY <2>1 DEF sigVars, SpeltInv
  <2>2. CASE part = "sigv4" /\ SigNext /\ UNCHANGED part
    BY <2>2, SpeltStep
  <2>3. \/ UNCHANGED sigVars /\ UNCHANGED part
        \/ part = "sigv4" /\ SigNext /\ UNCHANGED part
    BY DEF Next, vars
  <2> QED
    BY <2>1, <2>2, <2>3
<1> QED
  BY <1>1, <1>2, PTL DEF Spec, SpellingsAccepted, Accepts

=============================================================================
