---------------------------- MODULE InputProofs ----------------------------
(***************************************************************************)
(* What the server makes of what it is sent, for every header, request and *)
(* body.  Induction over data goes through LeastNatural, applied to the    *)
(* set of counterexamples.                                                 *)
(***************************************************************************)
EXTENDS MCInputs, SequenceTheorems, FiniteSetTheorems, WellFoundedInduction, TLAPS


\* parse_range yields no range, or a ByteRange whose end, if any, is not before its start.
LEMMA ParsedRange ==
    ASSUME NEW h \in RangeHeader, parse_range(h) # NoRange
    PROVE  /\ parse_range(h) \in ByteRange
           /\ \/ parse_range(h).kind = "Suffix"
              \/ parse_range(h).end = Open
              \/ parse_range(h).start <= parse_range(h).end
BY DEF parse_range, RangeHeader, Token, ByteRange, Absolute, Suffix, NoRange, IsNum,
       Blank, Junk, Open

(***************************************************************************)
(* HEAD reports the range GET serves: on every range the parser lets       *)
(* through, the S3 layer and the driver resolve to the same bytes or both  *)
(* refuse (object.rs get_object, both resolve_range functions).            *)
(***************************************************************************)
THEOREM HeadAgreesWithGet ==
    ASSUME NEW h \in RangeHeader, NEW n \in Nat, parse_range(h) # NoRange
    PROVE  s3_resolve_range(parse_range(h), n) = driver_resolve_range(parse_range(h), n)
<1> DEFINE r == parse_range(h)
<1>1. /\ r \in ByteRange
      /\ r.kind = "Suffix" \/ r.end = Open \/ r.start <= r.end
  BY ParsedRange
<1> HIDE DEF r
<1> SUFFICES s3_resolve_range(r, n) = driver_resolve_range(r, n)
  BY DEF r
<1> QED
  BY <1>1 DEF s3_resolve_range, driver_resolve_range, ByteRange, AtMost, Open

(***************************************************************************)
(* The driver refuses a range exactly when it selects no byte of the       *)
(* object, and otherwise resolves it to an interval inside the object that *)
(* holds exactly the selected bytes (the contract on Driver::get_object).  *)
(***************************************************************************)
THEOREM ResolvedIsSelected ==
    ASSUME NEW r \in ByteRange, NEW n \in Nat
    PROVE  LET resolved == driver_resolve_range(r, n)
           IN  \/ /\ resolved = Unsatisfiable
                  /\ Selected(r, n) = {}
               \/ /\ resolved \in Nat \X Nat
                  /\ resolved[1] <= resolved[2] /\ resolved[2] < n
                  /\ Selected(r, n) = resolved[1] .. resolved[2]
                  /\ Substr(substr_args(resolved, n), n) = Selected(r, n)
<1> DEFINE resolved == driver_resolve_range(r, n)
           last == n - 1
           end  == IF r.end = Open THEN last ELSE AtMost(r.end, last)
<1>0. r.start \in Nat /\ (r.end \in Nat \/ r.end = Open) /\ r.kind \in {"Absolute", "Suffix"}
  BY DEF ByteRange
<1>1. CASE n = 0
  BY <1>1 DEF driver_resolve_range, Unsatisfiable, Selected
<1>2. CASE n # 0 /\ r.kind = "Absolute" /\ (r.start > last \/ end < r.start)
  <2>1. resolved = Unsatisfiable
    BY <1>2 DEF driver_resolve_range
  <2>2. Selected(r, n) = {}
    BY <1>0, <1>2 DEF Selected, AtMost, Open
  <2> QED
    BY <2>1, <2>2
<1>3. CASE n # 0 /\ r.kind = "Absolute" /\ ~(r.start > last \/ end < r.start)
  <2>1. resolved = <<r.start, end>>
    BY <1>3 DEF driver_resolve_range
  <2>2. end \in Nat /\ r.start <= end /\ end < n
    BY <1>0, <1>3 DEF AtMost, Open
  <2>3. Selected(r, n) = r.start .. end
    BY <1>0, <1>3 DEF Selected, AtMost, Open
  <2>4. substr_args(resolved, n) = [from |-> r.start + 1, len |-> end - r.start + 1]
    BY <2>1 DEF substr_args, Unsatisfiable
  <2>5. Substr(substr_args(resolved, n), n) = r.start .. end
    BY <1>0, <2>2, <2>4 DEF Substr
  <2> QED
    BY <1>0, <2>1, <2>2, <2>3, <2>5
<1>4. CASE n # 0 /\ r.kind = "Suffix" /\ r.start = 0
  <2>1. resolved = Unsatisfiable
    BY <1>4 DEF driver_resolve_range
  <2>2. Selected(r, n) = {}
    BY <1>4 DEF Selected
  <2> QED
    BY <2>1, <2>2
<1>5. CASE n # 0 /\ r.kind = "Suffix" /\ r.start # 0
  <2> DEFINE first == n - AtMost(r.start, n)
  <2>1. resolved = <<first, last>>
    BY <1>5 DEF driver_resolve_range
  <2>2. first \in Nat /\ last \in Nat /\ first <= last /\ last < n
    BY <1>0, <1>5 DEF AtMost
  <2>3. Selected(r, n) = first .. last
    BY <1>0, <1>5 DEF Selected, AtMost
  <2>4. substr_args(resolved, n) = [from |-> first + 1, len |-> last - first + 1]
    BY <2>1 DEF substr_args, Unsatisfiable
  <2> HIDE DEF first, last
  <2>5. Substr(substr_args(resolved, n), n) = first .. last
    BY <2>2, <2>4 DEF Substr
  <2> QED
    BY <2>1, <2>2, <2>3, <2>5
<1> QED
  BY <1>0, <1>1, <1>2, <1>3, <1>4, <1>5

\* What GET has served is what it computes from the header and the object.
RangeInv ==
    /\ header \in RangeHeader
    /\ size \in Nat
    /\ \/ served = Pending
       \/ /\ served.range = parse_range(header)
          /\ served.range # NoRange =>
                /\ served.resolved = driver_resolve_range(served.range, size)
                /\ served.bytes = IF served.resolved = Unsatisfiable THEN {}
                                  ELSE Substr(substr_args(served.resolved, size), size)

LEMMA RangeInitOK == Init => RangeInv
<1>1. RangeInit => RangeInv
  <2>1. MCToken \subseteq Token /\ 0 .. MaxSize \subseteq Nat
    BY InputsAssumption DEF MCToken, Token
  <2> QED
    BY <2>1 DEF RangeInit, RangeInv, RangeHeader
<1>2. RangeStill => RangeInv
  BY DEF RangeStill, NoHeader, RangeInv, RangeHeader, Token
<1> QED
  BY <1>1, <1>2 DEF Init

LEMMA RangeStep == RangeInv /\ [Next]_vars => RangeInv'
<1> SUFFICES ASSUME RangeInv, [Next]_vars PROVE RangeInv'
  OBVIOUS
<1>1. CASE UNCHANGED rangeVars
  BY <1>1 DEF rangeVars, RangeInv
<1>2. CASE Serve
  <2>1. UNCHANGED <<header, size>>
    BY <1>2 DEF Serve
  <2>2. /\ served'.range = parse_range(header)
        /\ served'.range # NoRange =>
              /\ served'.resolved = driver_resolve_range(served'.range, size)
              /\ served'.bytes = IF served'.resolved = Unsatisfiable THEN {}
                                 ELSE Substr(substr_args(served'.resolved, size), size)
    BY <1>2 DEF Serve
  <2> QED
    BY <2>1, <2>2 DEF RangeInv
<1>3. UNCHANGED rangeVars \/ Serve
  BY DEF Next, vars
<1> QED
  BY <1>1, <1>2, <1>3

(***************************************************************************)
(* HEAD reports the range a GET of the same object serves, for every Range *)
(* header and every object (object.rs get_object).                         *)
(***************************************************************************)
THEOREM HeadReports == Spec => []HeadReportsWhatGetServes
<1>1. RangeInv => HeadReportsWhatGetServes
  BY HeadAgreesWithGet DEF RangeInv, HeadReportsWhatGetServes, Pending
<1> QED
  BY <1>1, RangeInitOK, RangeStep, PTL DEF Spec

(***************************************************************************)
(* get_object reads exactly the bytes the header selects, and refuses a    *)
(* range only when it selects none (the contract on Driver::get_object).   *)
(***************************************************************************)
THEOREM BytesServed == Spec => []ServesSelectedBytes
<1>1. RangeInv => ServesSelectedBytes
  <2> SUFFICES ASSUME RangeInv, served.done, served.range # NoRange
               PROVE  /\ served.bytes = Selected(served.range, size)
                      /\ served.resolved = Unsatisfiable <=> Selected(served.range, size) = {}
    BY DEF ServesSelectedBytes
  <2> DEFINE r == served.range
             resolved == driver_resolve_range(r, size)
  <2>1. /\ r \in ByteRange /\ size \in Nat /\ served.resolved = resolved
        /\ served.bytes = IF resolved = Unsatisfiable THEN {}
                          ELSE Substr(substr_args(resolved, size), size)
    BY ParsedRange DEF RangeInv, Pending
  <2>2. \/ /\ resolved = Unsatisfiable
           /\ Selected(r, size) = {}
        \/ /\ resolved \in Nat \X Nat
           /\ resolved[1] <= resolved[2] /\ resolved[2] < size
           /\ Selected(r, size) = resolved[1] .. resolved[2]
           /\ Substr(substr_args(resolved, size), size) = Selected(r, size)
    BY <2>1, ResolvedIsSelected
  <2> HIDE DEF resolved, r
  <2>3. CASE resolved = Unsatisfiable
    BY <2>1, <2>2, <2>3 DEF Unsatisfiable, r
  <2>4. CASE resolved # Unsatisfiable
    <3>1. resolved[1] \in Selected(r, size)
      BY <2>2, <2>4
    <3> QED
      BY <2>1, <2>2, <2>4, <3>1 DEF r
  <2> QED
    BY <2>3, <2>4
<1> QED
  BY <1>1, RangeInitOK, RangeStep, PTL DEF Spec

-----------------------------------------------------------------------------
(***************************************************************************)
(* Replays.  Nothing on the wire can change what was signed; a request on  *)
(* its way through verify has been within max_skew of the clock since the  *)
(* clock last moved.                                                       *)
(***************************************************************************)
SigInv ==
    /\ intent.time \in Nat /\ now \in Nat
    /\ "signature" \in DOMAIN wire /\ wire.signature = SignedTerm(intent)
    /\ step = "lookup" => ~(Apart(now, TimeOf(wire)) > MaxSkew)
    /\ \A s \in accepted : s \in Nat /\ ~(Apart(s, intent.time) > MaxSkew)

LEMMA SigInitOK == SigInit => SigInv
<1> SUFFICES ASSUME SigInit PROVE SigInv
  OBVIOUS
<1>1. intent.time \in Nat
  BY SigV4Assumption DEF SigInit, IntentType
<1>2. "signature" \in DOMAIN wire /\ wire.signature \in {SignedTerm(intent)}
  BY DEF SigInit, Wires
<1> QED
  BY <1>1, <1>2 DEF SigInit, SigInv

LEMMA SigStep ==
    ASSUME SigInv, SigNext
    PROVE  SigInv'
<1>1. CASE Receive
  <2>1. UNCHANGED <<intent, wire, now, accepted>>
    BY <1>1 DEF Receive
  <2>2. step' = "lookup" => request_time(wire) = "Ok" \/ request_time(wire) = "lookup"
    BY <1>1 DEF Receive
  <2>3. step' = "lookup" => ~(Apart(now, TimeOf(wire)) > MaxSkew)
    BY <2>2 DEF request_time
  <2> QED
    BY <2>1, <2>3 DEF SigInv, TimeOf
<1>2. CASE Verify
  <2>1. UNCHANGED <<intent, wire, now>> /\ step = "lookup" /\ step' # "lookup"
    BY <1>2 DEF Verify
  <2>2. CASE step' # "accepted"
    BY <1>2, <2>1, <2>2 DEF Verify, SigInv
  <2>3. CASE step' = "accepted"
    <3>1. wire.signature = Signature(Key, ScopeOf(wire), TimeOf(wire), canonical_request(wire))
      BY <1>2, <2>3 DEF Verify
    <3>2. TimeOf(wire) = intent.time
      <4>1. wire.signature.time = TimeOf(wire)
        BY <3>1 DEF Signature
      <4>2. wire.signature.time = intent.time
        BY DEF SigInv, SignedTerm, Signature
      <4> QED
        BY <4>1, <4>2
    <3>3. accepted' = accepted \cup {now}
      BY <1>2, <2>3 DEF Verify
    <3> QED
      BY <2>1, <3>2, <3>3 DEF SigInv
  <2> QED
    BY <2>2, <2>3
<1>3. CASE Tamper
  <2>1. UNCHANGED <<intent, now, step, accepted>> /\ step = "sent"
    BY <1>3 DEF Tamper
  <2>2. "signature" \in DOMAIN wire' /\ wire'.signature = wire.signature
    BY <1>3 DEF Tamper, SigInv
  <2> QED
    BY <2>1, <2>2 DEF SigInv
<1>4. CASE Redeliver
  BY <1>4 DEF Redeliver, SigInv
<1>5. CASE Tick
  BY <1>5 DEF Tick, SigInv
<1>6. CASE Revoke
  BY <1>6 DEF Revoke, SigInv, TimeOf
<1> QED
  BY <1>1, <1>2, <1>3, <1>4, <1>5, <1>6 DEF SigNext

(***************************************************************************)
(* However often a request is delivered and whatever date is put into it,  *)
(* the server accepts it only within max_skew of the time it was signed    *)
(* at (request_time, and the time in the string to sign).                  *)
(***************************************************************************)
THEOREM ReplaysExpire == Spec => []ReplayWindow
<1> DEFINE Inv == IF part = "sigv4" THEN SigInv ELSE accepted = {}
<1>1. Init => Inv
  BY SigInitOK DEF Init, SigStill
<1>2. Inv /\ [Next]_vars => Inv'
  <2> SUFFICES ASSUME Inv, [Next]_vars PROVE Inv'
    OBVIOUS
  <2>1. CASE UNCHANGED sigVars /\ UNCHANGED part
    BY <2>1 DEF sigVars, SigInv, TimeOf
  <2>2. CASE part = "sigv4" /\ SigNext /\ UNCHANGED part
    BY <2>2, SigStep
  <2>3. \/ UNCHANGED sigVars /\ UNCHANGED part
        \/ part = "sigv4" /\ SigNext /\ UNCHANGED part
    BY DEF Next, vars
  <2> QED
    BY <2>1, <2>2, <2>3
<1>3. Inv => ReplayWindow
  <2>1. MaxSkew \in Nat
    BY SigV4Assumption
  <2>2. \A s, t \in Nat : Apart(s, t) \in Int
    BY DEF Apart
  <2> QED
    BY <2>1, <2>2 DEF SigInv, ReplayWindow
<1> QED
  BY <1>1, <1>2, <1>3, PTL DEF Spec

-----------------------------------------------------------------------------
(***************************************************************************)
(* Bucket names.  The part of a name around a byte lies between the last   *)
(* dot before it and the first one after it.                               *)
(***************************************************************************)
\* A set of numbers that is not empty has a least one.
LEMMA LeastNatural ==
    ASSUME NEW T, T \subseteq Nat, T # {}
    PROVE  \E n \in T : \A m \in T : n <= m
<1> DEFINE R == {ss \in Nat \X Nat : ss[1] < ss[2]}
<1>1. IsWellFoundedOn(R, Nat)
  BY NatLessThanWellFounded DEF OpToRel
<1> HIDE DEF R
<1>2. PICK n \in T : \A m \in T : ~(<<m, n>> \in R)
  BY <1>1, WFMin, Zenon
<1>3. ASSUME NEW m \in T PROVE n <= m
  <2>1. m \in Nat /\ n \in Nat /\ <<m, n>> \notin R
    BY <1>2
  <2>2. ~(<<m, n>>[1] < <<m, n>>[2])
    BY <2>1 DEF R
  <2> QED
    BY <2>1, <2>2
<1> QED
  BY <1>3

\* Counting up.
LEMMA CountUp ==
    ASSUME NEW n \in Nat, NEW T, 0 \in T, \A i \in 1 .. n : i - 1 \in T => i \in T
    PROVE  \A i \in 0 .. n : i \in T
<1> DEFINE B == {i \in 0 .. n : i \notin T}
<1> SUFFICES ASSUME B # {} PROVE FALSE
  OBVIOUS
<1>1. B \subseteq Nat
  OBVIOUS
<1> HIDE DEF B
<1>2. PICK i \in B : \A j \in B : i <= j
  BY <1>1, LeastNatural
<1>3. i \in 0 .. n /\ i \notin T
  BY <1>2 DEF B
<1>4. i # 0
  BY <1>3
<1>5. i \in 1 .. n /\ i - 1 \in 0 .. n /\ ~(i <= i - 1)
  BY <1>3, <1>4
<1>6. i - 1 \notin B
  BY <1>2, <1>5
<1> QED
  BY <1>3, <1>5, <1>6 DEF B

\* The positions of the dots, with the two ends of the name.
LEMMA DotsAre ==
    ASSUME name \in Seq(Kind)
    PROVE  /\ Len(name) \in Nat /\ DOMAIN name = 1 .. Len(name)
           /\ Dots \subseteq 0 .. Len(name) + 1
           /\ 0 \in Dots /\ Len(name) + 1 \in Dots
           /\ \A i \in 1 .. Len(name) : i \in Dots <=> name[i] = "."
  BY DEF Dots

\* A part is what lies strictly between its two dots.
LEMMA PartIs ==
    ASSUME name \in Seq(Kind), NEW p \in Parts
    PROVE  /\ p[1] \in Dots /\ p[2] \in Dots /\ p[1] < p[2]
           /\ \A k \in Dots : ~(p[1] < k /\ k < p[2])
           /\ Part(p) \in Seq(Kind)
           /\ Len(Part(p)) = p[2] - p[1] - 1
           /\ \A k \in 1 .. Len(Part(p)) : Part(p)[k] = name[p[1] + k]
<1>1. /\ p[1] \in Dots /\ p[2] \in Dots /\ p[1] < p[2]
      /\ \A k \in Dots : ~(p[1] < k /\ k < p[2])
  BY DEF Parts
<1>2. p[1] \in 0 .. Len(name) + 1 /\ p[2] \in 0 .. Len(name) + 1 /\ Len(name) \in Nat
  BY <1>1, DotsAre
<1>3. /\ Part(p) \in Seq(Kind)
      /\ Len(Part(p)) = p[2] - p[1] - 1
      /\ \A k \in 1 .. Len(Part(p)) : Part(p)[k] = name[p[1] + k]
  <2> DEFINE i == p[1]
             j == p[2]
  <2>1. i \in Nat /\ j \in Nat /\ i + 1 \in Int /\ j - 1 \in Int /\ i <= j - 1
    BY <1>1, <1>2
  <2>2. \A k \in i + 1 .. j - 1 : name[k] \in Kind
    BY <1>2, ElementOfSeq
  <2>3. Part(p) = SubSeq(name, i + 1, j - 1)
    BY DEF Part
  <2> HIDE DEF i, j
  <2>4. /\ SubSeq(name, i + 1, j - 1) \in Seq(Kind)
        /\ Len(SubSeq(name, i + 1, j - 1)) =
              IF i + 1 <= j - 1 THEN (j - 1) - (i + 1) + 1 ELSE 0
        /\ \A k \in 1 .. (j - 1) - (i + 1) + 1 :
              SubSeq(name, i + 1, j - 1)[k] = name[(i + 1) + k - 1]
    BY <2>1, <2>2, SubSeqProperties
  <2>5. Len(Part(p)) = j - i - 1
    BY <2>1, <2>3, <2>4
  <2>6. ASSUME NEW k \in 1 .. Len(Part(p)) PROVE Part(p)[k] = name[i + k]
    <3>1. k \in 1 .. (j - 1) - (i + 1) + 1 /\ (i + 1) + k - 1 = i + k
      BY <2>1, <2>5
    <3> QED
      BY <2>3, <2>4, <3>1
  <2> QED
    BY <2>3, <2>4, <2>5, <2>6 DEF i, j
<1> QED
  BY <1>1, <1>3

\* Every byte that is no dot lies in a part.
LEMMA PartAround ==
    ASSUME name \in Seq(Kind), NEW m \in 1 .. Len(name), name[m] # "."
    PROVE  \E p \in Parts : p[1] < m /\ m < p[2]
<1>1. /\ Len(name) \in Nat /\ Dots \subseteq 0 .. Len(name) + 1
      /\ 0 \in Dots /\ Len(name) + 1 \in Dots /\ m \notin Dots /\ m \in Nat
  BY DotsAre
<1>0. 0 < m /\ m < Len(name) + 1
  BY <1>1
<1> DEFINE Above == {d \in Dots : m < d}
           Below == {m - d : d \in {e \in Dots : e < m}}
<1>2. Above \subseteq Nat /\ Above # {}
  <2>1. Len(name) + 1 \in Above
    BY <1>0, <1>1
  <2>2. Dots \subseteq Nat
    BY <1>1
  <2>3. Above \subseteq Dots
    OBVIOUS
  <2> HIDE DEF Above
  <2> QED
    BY <2>1, <2>2, <2>3
<1>3. PICK after \in Above : \A d \in Above : after <= d
  <2> HIDE DEF Above
  <2> QED
    BY <1>2, LeastNatural
<1>4. Below \subseteq Nat /\ Below # {}
  <2>1. \A d \in {e \in Dots : e < m} : m - d \in Nat
    BY <1>1
  <2>2. 0 \in {e \in Dots : e < m}
    BY <1>1
  <2> QED
    BY <2>1, <2>2
<1>5. PICK back \in Below : \A d \in Below : back <= d
  <2> HIDE DEF Below
  <2> QED
    BY <1>4, LeastNatural
<1>6. PICK before \in Dots : before < m /\ back = m - before
  BY <1>5
<1>7. \A d \in Dots : d < m => d <= before
  <2> SUFFICES ASSUME NEW d \in Dots, d < m PROVE d <= before
    OBVIOUS
  <2>1. m - d \in Below
    OBVIOUS
  <2>2. back <= m - d
    BY <1>5, <2>1
  <2> QED
    BY <1>1, <1>6, <2>2
<1>8. after \in Dots /\ m < after /\ \A d \in Dots : m < d => after <= d
  BY <1>3
<1>9. <<before, after>> \in Parts
  <2>1. before < after
    BY <1>1, <1>6, <1>8
  <2>2. ASSUME NEW k \in Dots, before < k, k < after PROVE FALSE
    <3>1. k \in Nat /\ k # m /\ before \in Nat /\ after \in Nat
      BY <1>1, <1>6, <1>8
    <3> QED
      BY <1>1, <1>7, <1>8, <2>2, <3>1
  <2> QED
    BY <1>6, <1>8, <2>1, <2>2 DEF Parts
<1> QED
  BY <1>6, <1>8, <1>9

\* The checks of a name, byte by byte.
BytesFit ==
    /\ Alnum(name[1])
    /\ Alnum(name[Len(name)])
    /\ \A i \in DOMAIN name :
          CASE name[i] \in {"a", "0", "-"} -> TRUE
            [] name[i] = "." -> DotFits(i)
            [] OTHER -> FALSE

LEMMA BytesMakeLabels ==
    ASSUME name \in Seq(Kind), Len(name) >= 3, BytesFit, NEW p \in Parts
    PROVE  IsLabel(Part(p))
<1> DEFINE n == Len(name)
           i == p[1]
           j == p[2]
<1>1. /\ n \in Nat /\ DOMAIN name = 1 .. n /\ i \in 0 .. n + 1 /\ j \in 0 .. n + 1 /\ i < j
      /\ \A k \in 1 .. n : k \in Dots <=> name[k] = "."
      /\ i \in Dots /\ j \in Dots
  BY DotsAre, PartIs
<1>2. \A k \in 1 .. n : /\ name[k] # "." => name[k] \in {"a", "0", "-"}
                        /\ name[k] = "." => /\ name[k - 1] # "-"
                                            /\ name[k + 1] # "." /\ name[k + 1] # "-"
  BY <1>1 DEF BytesFit, DotFits
<1>3. name[1] \in {"a", "0"} /\ name[n] \in {"a", "0"}
  BY DEF BytesFit, Alnum
<1>4. j # i + 1
  <2> SUFFICES ASSUME j = i + 1 PROVE FALSE
    OBVIOUS
  <2>1. CASE i = 0
    BY <1>1, <1>3, <2>1
  <2>2. CASE i # 0 /\ i = n
    BY <1>1, <1>3, <2>2
  <2>3. CASE i # 0 /\ i # n
    <3>1. i \in 1 .. n /\ i + 1 \in 1 .. n
      BY <1>1, <2>3
    <3> QED
      BY <1>1, <1>2, <3>1
  <2> QED
    BY <2>1, <2>2, <2>3
<1>5. Part(p) # <<>> /\ DOMAIN Part(p) = 1 .. j - i - 1 /\ Len(Part(p)) = j - i - 1
  BY <1>1, <1>4, PartIs
<1>6. ASSUME NEW k \in 1 .. j - i - 1
      PROVE  Alnum(Part(p)[k]) \/ (Part(p)[k] = "-" /\ k \notin {1, Len(Part(p))})
  <2>1. i + k \in 1 .. n /\ i < i + k /\ i + k < j
    BY <1>1
  <2>2. name[i + k] \in {"a", "0", "-"}
    BY <1>1, <1>2, <2>1, PartIs
  <2>3. Part(p)[k] = name[i + k]
    BY <1>5, PartIs
  <2>4. k = 1 => name[i + k] # "-"
    <3>1. CASE i = 0
      BY <1>3, <3>1
    <3>2. CASE i # 0
      <4>1. i \in 1 .. n
        BY <1>1, <2>1, <3>2
      <4> QED
        BY <1>1, <1>2, <4>1
    <3> QED
      BY <3>1, <3>2
  <2>5. k = j - i - 1 => name[i + k] # "-"
    <3>0. k = j - i - 1 => i + k = j - 1
      BY <1>1
    <3>1. CASE j = n + 1
      <4>1. j - 1 = n
        BY <1>1, <3>1
      <4> QED
        BY <1>3, <3>0, <4>1
    <3>2. CASE j # n + 1
      <4>1. j \in 1 .. n
        BY <1>1, <2>1, <3>2
      <4> QED
        BY <1>1, <1>2, <3>0, <4>1
    <3> QED
      BY <3>1, <3>2
  <2> QED
    BY <1>5, <2>2, <2>3, <2>4, <2>5 DEF Alnum
<1> QED
  BY <1>5, <1>6 DEF IsLabel

\* The bytes of a label, at its place in the name.
LEMMA LabelBytes ==
    ASSUME name \in Seq(Kind), NEW p \in Parts, IsLabel(Part(p)),
           NEW m \in 1 .. Len(name), p[1] < m, m < p[2]
    PROVE  \/ Alnum(name[m])
           \/ name[m] = "-" /\ m # p[1] + 1 /\ m # p[2] - 1
<1>1. /\ p[1] \in Nat /\ p[2] \in Nat /\ Len(Part(p)) = p[2] - p[1] - 1
      /\ Part(p) \in Seq(Kind)
  BY PartIs, DotsAre
<1> DEFINE k == m - p[1]
<1>2. k \in 1 .. Len(Part(p)) /\ p[1] + k = m
  BY <1>1
<1>3. Part(p)[k] = name[m]
  BY <1>2, PartIs
<1>4. k \in DOMAIN Part(p)
  BY <1>1, <1>2, LenProperties
<1>5. Alnum(name[m]) \/ (name[m] = "-" /\ k # 1 /\ k # Len(Part(p)))
  BY <1>3, <1>4 DEF IsLabel
<1> QED
  BY <1>1, <1>5

\* No two dots are neighbours, and none is at an end.
LEMMA DotsApart ==
    ASSUME name \in Seq(Kind), \A p \in Parts : IsLabel(Part(p)),
           NEW i \in Dots, NEW j \in Dots, j = i + 1
    PROVE  FALSE
<1>1. i \in Nat /\ j \in Nat
  BY DotsAre
<1>2. <<i, j>> \in Parts
  <2>1. \A k \in Dots : ~(i < k /\ k < j)
    BY <1>1, DotsAre
  <2> QED
    BY <1>1, <2>1 DEF Parts
<1>3. Part(<<i, j>>) \in Seq(Kind) /\ Len(Part(<<i, j>>)) = j - i - 1
  BY <1>2, PartIs
<1>4. Part(<<i, j>>) = <<>>
  BY <1>1, <1>3, EmptySeq
<1> QED
  BY <1>2, <1>4 DEF IsLabel

LEMMA LabelsMakeBytes ==
    ASSUME name \in Seq(Kind), Len(name) >= 3, \A p \in Parts : IsLabel(Part(p))
    PROVE  BytesFit
<1> DEFINE n == Len(name)
<1>1. /\ n \in Nat /\ DOMAIN name = 1 .. n /\ Dots \subseteq 0 .. n + 1
      /\ 0 \in Dots /\ n + 1 \in Dots
      /\ \A i \in 1 .. n : i \in Dots <=> name[i] = "."
  BY DotsAre
<1>2. \A m \in 1 .. n : name[m] # "." => name[m] \in {"a", "0", "-"}
  <2> SUFFICES ASSUME NEW m \in 1 .. n, name[m] # "." PROVE name[m] \in {"a", "0", "-"}
    OBVIOUS
  <2>1. PICK p \in Parts : p[1] < m /\ m < p[2]
    BY PartAround
  <2> QED
    BY <2>1, LabelBytes DEF Alnum
<1>3. ASSUME NEW d \in Dots, d < n, d + 1 \in 1 .. n PROVE Alnum(name[d + 1])
  <2>1. d \in Nat /\ d + 1 \notin Dots
    BY <1>1, DotsApart
  <2>2. name[d + 1] # "."
    BY <1>1, <1>3, <2>1
  <2>3. PICK p \in Parts : p[1] < d + 1 /\ d + 1 < p[2]
    BY <1>3, <2>2, PartAround
  <2>4. p[1] \in Nat /\ p[2] \in Nat /\ ~(p[1] < d /\ d < p[2])
    <3>1. p[1] \in Dots /\ p[2] \in Dots /\ ~(p[1] < d /\ d < p[2])
      BY PartIs
    <3>2. Dots \subseteq Nat
      BY <1>1
    <3> QED
      BY <3>1, <3>2
  <2>5. d + 1 = p[1] + 1
    BY <2>1, <2>3, <2>4
  <2> QED
    BY <1>3, <2>3, <2>5, LabelBytes
<1>4. ASSUME NEW d \in Dots, 1 < d, d - 1 \in 1 .. n PROVE Alnum(name[d - 1])
  <2>1. d \in Nat /\ d - 1 \notin Dots
    <3>1. d \in Nat /\ d = (d - 1) + 1
      BY <1>1
    <3> QED
      BY <3>1, DotsApart
  <2>2. name[d - 1] # "."
    BY <1>1, <1>4, <2>1
  <2>3. PICK p \in Parts : p[1] < d - 1 /\ d - 1 < p[2]
    BY <1>4, <2>2, PartAround
  <2>4. p[1] \in Nat /\ p[2] \in Nat /\ ~(p[1] < d /\ d < p[2])
    <3>1. p[1] \in Dots /\ p[2] \in Dots /\ ~(p[1] < d /\ d < p[2])
      BY PartIs
    <3>2. Dots \subseteq Nat
      BY <1>1
    <3> QED
      BY <3>1, <3>2
  <2>5. d - 1 = p[2] - 1
    BY <2>1, <2>3, <2>4
  <2> QED
    BY <1>4, <2>3, <2>5, LabelBytes
<1>5. Alnum(name[1]) /\ Alnum(name[n])
  <2>1. 0 + 1 \in 1 .. n /\ 0 + 1 = 1 /\ 0 < n /\ (n + 1) - 1 \in 1 .. n /\ (n + 1) - 1 = n
           /\ 1 < n + 1
    BY <1>1
  <2>2. Alnum(name[0 + 1]) /\ Alnum(name[(n + 1) - 1])
    BY <1>1, <1>3, <1>4, <2>1
  <2> QED
    BY <2>1, <2>2
<1>6. ASSUME NEW m \in 1 .. n, name[m] = "." PROVE DotFits(m)
  <2>1. m \in Dots /\ m # 1 /\ m # n
    BY <1>1, <1>5, <1>6 DEF Alnum
  <2>2. m < n /\ m + 1 \in 1 .. n /\ 1 < m /\ m - 1 \in 1 .. n
    <3>1. n \in Nat /\ m \in 1 .. n /\ m # 1 /\ m # n
      BY <1>1, <2>1
    <3> HIDE DEF n
    <3> QED
      BY <3>1
  <2>3. Alnum(name[m + 1]) /\ Alnum(name[m - 1])
    BY <1>3, <1>4, <2>1, <2>2
  <2> QED
    BY <2>3 DEF DotFits, Alnum
<1> QED
  BY <1>1, <1>2, <1>5, <1>6 DEF BytesFit

(***************************************************************************)
(* validate_bucket_name accepts a name of any length exactly when it has   *)
(* the length, its labels are DNS labels and it is not four numbers.       *)
(***************************************************************************)
THEOREM NamesChecked == Spec => []NamesAreLabels
<1>1. Init => name \in Seq(Kind)
  <2>1. Init => name = <<>>
    BY DEF Init, NameInit
  <2> QED
    BY <2>1, EmptySeq
<1>2. name \in Seq(Kind) /\ [Next]_vars => (name \in Seq(Kind))'
  <2> SUFFICES ASSUME name \in Seq(Kind), UNCHANGED name \/ Extend PROVE name' \in Seq(Kind)
    BY DEF Next, vars
  <2> QED
    BY AppendProperties DEF Extend
<1>3. name \in Seq(Kind) => NamesAreLabels
  <2> SUFFICES ASSUME name \in Seq(Kind) PROVE NamesAreLabels
    OBVIOUS
  <2>1. Len(name) \in 3 .. MaxName => (BytesFit <=> \A p \in Parts : IsLabel(Part(p)))
    BY NameAssumption, LenProperties, BytesMakeLabels, LabelsMakeBytes
  <2>2. ASSUME NEW p \in Parts PROVE Digits(Part(p)) <=> ToSet(Part(p)) = {"0"}
    <3>1. Part(p) \in Seq(Kind)
      BY PartIs
    <3>2. Part(p) = <<>> <=> DOMAIN Part(p) = {}
      BY <3>1, LenProperties, EmptySeq
    <3>3. ToSet(Part(p)) = {Part(p)[i] : i \in DOMAIN Part(p)}
      BY DEF ToSet
    <3> QED
      BY <3>2, <3>3 DEF Digits
  <2>3. looks_like_ipv4 <=> Cardinality(Parts) = 4 /\ \A p \in Parts : ToSet(Part(p)) = {"0"}
    BY <2>2 DEF looks_like_ipv4
  <2> QED
    BY <2>1, <2>3 DEF NamesAreLabels, validate_bucket_name, BytesFit
<1> QED
  BY <1>1, <1>2, <1>3, PTL DEF Spec

-----------------------------------------------------------------------------
(***************************************************************************)
(* A loop over n items.  Its body is a function, turn, from the number of  *)
(* the item and the value so far to the next value; f[i] is the value      *)
(* after i items.                                                          *)
(***************************************************************************)
IsLoop(f, turn, b, m, S) ==
    /\ f \in [0 .. m -> S]
    /\ f[0] = b
    /\ \A i \in 1 .. m : f[i] = turn[<<i, f[i - 1]>>]

LEMMA LoopExists ==
    ASSUME NEW S, NEW b \in S, NEW n \in Nat, NEW turn \in [(1 .. n) \X S -> S]
    PROVE  \E f : IsLoop(f, turn, b, n, S)
<1> DEFINE T == {m \in 0 .. n : ~ \E f : IsLoop(f, turn, b, m, S)}
<1>0. SUFFICES ASSUME T # {} PROVE FALSE
  <2>1. n \in 0 .. n
    OBVIOUS
  <2> QED
    BY <1>0, <2>1
<1>1. PICK m \in T : \A k \in T : m <= k
  <2>1. T \subseteq Nat
    OBVIOUS
  <2> HIDE DEF T
  <2> QED
    BY <1>0, <2>1, LeastNatural
<1>2. m \in 0 .. n /\ ~ \E f : IsLoop(f, turn, b, m, S)
  BY <1>1
<1>3. CASE m = 0
  <2> DEFINE f == [i \in 0 .. 0 |-> b]
  <2>1. f \in [0 .. 0 -> S] /\ f[0] = b
    OBVIOUS
  <2>2. IsLoop(f, turn, b, 0, S)
    <3> HIDE DEF f
    <3> QED
      BY <2>1 DEF IsLoop
  <2> QED
    BY <1>2, <1>3, <2>2
<1>4. CASE m # 0
  <2>1. m - 1 \in 0 .. n /\ ~(m <= m - 1) /\ m \in 1 .. n /\ m - 1 \in 0 .. m - 1
    BY <1>2, <1>4
  <2>2. m - 1 \notin T
    BY <1>1, <2>1
  <2>3. PICK f : IsLoop(f, turn, b, m - 1, S)
    BY <2>1, <2>2
  <2>4. f[m - 1] \in S
    BY <2>1, <2>3 DEF IsLoop
  <2> DEFINE x == turn[<<m, f[m - 1]>>]
             g == [i \in 0 .. m |-> IF i = m THEN x ELSE f[i]]
  <2>5. \A i \in 0 .. m - 1 : f[i] \in S
    BY <2>3 DEF IsLoop
  <2>6. x \in S
    <3>1. <<m, f[m - 1]>> \in (1 .. n) \X S
      BY <2>1, <2>4
    <3> QED
      BY <3>1
  <2> HIDE DEF x
  <2>7. \A i \in 0 .. m : i # m => i \in 0 .. m - 1
    BY <2>1
  <2>8. g \in [0 .. m -> S]
    BY <2>5, <2>6, <2>7
  <2>9. g[0] = b
    BY <2>1, <2>3 DEF IsLoop
  <2>10. ASSUME NEW i \in 1 .. m PROVE g[i] = turn[<<i, g[i - 1]>>]
    <3>1. i \in 0 .. m /\ i - 1 \in 0 .. m /\ i - 1 # m
      BY <2>1
    <3>2. g[i - 1] = f[i - 1]
      BY <3>1
    <3>3. CASE i = m
      BY <3>1, <3>2, <3>3 DEF x
    <3>4. CASE i # m
      <4>1. i \in 1 .. m - 1
        BY <2>1, <3>4
      <4>2. f[i] = turn[<<i, f[i - 1]>>]
        BY <2>3, <4>1 DEF IsLoop
      <4> QED
        BY <3>1, <3>2, <3>4, <4>2
    <3> QED
      BY <3>3, <3>4
  <2> HIDE DEF g
  <2>11. IsLoop(g, turn, b, m, S)
    BY <2>8, <2>9, <2>10 DEF IsLoop
  <2> QED
    BY <1>2, <2>11
<1> QED
  BY <1>3, <1>4

-----------------------------------------------------------------------------
(***************************************************************************)
(* Payloads.  FlattenSeq adds one sequence after the other: f[i] is what   *)
(* the first i of them make.                                               *)
(***************************************************************************)
IsFlat(f, s, m, S) ==
    /\ f \in [0 .. m -> Seq(S)]
    /\ f[0] = <<>>
    /\ \A i \in 1 .. m : f[i] = f[i - 1] \o s[i]

LEMMA FlatExists ==
    ASSUME NEW S, NEW s \in Seq(Seq(S))
    PROVE  \A m \in 0 .. Len(s) : \E f : IsFlat(f, s, m, S)
<1> DEFINE T == {m \in 0 .. Len(s) : ~ \E f : IsFlat(f, s, m, S)}
<1> SUFFICES ASSUME T # {} PROVE FALSE
  OBVIOUS
<1>0. Len(s) \in Nat
  BY LenProperties
<1>1. PICK m \in T : \A k \in T : m <= k
  <2>1. T \subseteq Nat
    BY <1>0
  <2> HIDE DEF T
  <2> QED
    BY <2>1, LeastNatural
<1>2. m \in 0 .. Len(s) /\ ~ \E f : IsFlat(f, s, m, S)
  BY <1>1
<1>3. CASE m = 0
  <2> DEFINE f == [i \in 0 .. 0 |-> <<>>]
  <2>1. f \in [0 .. 0 -> Seq(S)] /\ f[0] = <<>>
    BY EmptySeq
  <2>2. IsFlat(f, s, 0, S)
    <3> HIDE DEF f
    <3> QED
      BY <2>1 DEF IsFlat
  <2> QED
    BY <1>2, <1>3, <2>2
<1>4. CASE m # 0
  <2>1. m - 1 \in 0 .. Len(s) /\ ~(m <= m - 1) /\ m \in 1 .. Len(s)
    BY <1>0, <1>2, <1>4
  <2>2. m - 1 \notin T
    BY <1>1, <2>1
  <2>3. PICK f : IsFlat(f, s, m - 1, S)
    BY <2>1, <2>2
  <2>4. s[m] \in Seq(S)
    BY <2>1, ElementOfSeq
  <2>5. f[m - 1] \in Seq(S)
    <3>1. m - 1 \in 0 .. m - 1
      BY <2>1
    <3> QED
      BY <2>3, <3>1 DEF IsFlat
  <2>6. f[m - 1] \o s[m] \in Seq(S)
    BY <2>4, <2>5, ConcatProperties
  <2> DEFINE x == f[m - 1] \o s[m]
             g == [i \in 0 .. m |-> IF i = m THEN x ELSE f[i]]
  <2>7. \A i \in 0 .. m - 1 : f[i] \in Seq(S)
    BY <2>3 DEF IsFlat
  <2>8. x \in Seq(S)
    BY <2>6
  <2> HIDE DEF x
  <2>9. \A i \in 0 .. m : i # m => i \in 0 .. m - 1
    BY <2>1
  <2>10. g \in [0 .. m -> Seq(S)]
    BY <2>7, <2>8, <2>9
  <2>11. g[0] = <<>>
    BY <2>1, <2>3 DEF IsFlat
  <2>12. ASSUME NEW i \in 1 .. m PROVE g[i] = g[i - 1] \o s[i]
    <3>1. i \in 0 .. m /\ i - 1 \in 0 .. m /\ i - 1 # m
      BY <2>1
    <3>2. g[i - 1] = f[i - 1]
      BY <3>1
    <3>3. CASE i = m
      BY <3>1, <3>2, <3>3 DEF x
    <3>4. CASE i # m
      <4>1. i \in 1 .. m - 1
        BY <2>1, <3>4
      <4>2. f[i] = f[i - 1] \o s[i]
        BY <2>3, <4>1 DEF IsFlat
      <4> QED
        BY <3>1, <3>2, <3>4, <4>2
    <3> QED
      BY <3>3, <3>4
  <2> HIDE DEF g
  <2>13. IsFlat(g, s, m, S)
    BY <2>10, <2>11, <2>12 DEF IsFlat
  <2> QED
    BY <1>2, <2>13
<1> QED
  BY <1>3, <1>4

LEMMA FlattenIs ==
    ASSUME NEW S, NEW s \in Seq(Seq(S)), NEW f, IsFlat(f, s, Len(s), S)
    PROVE  FlattenSeq(s) = f[Len(s)]
<1> DEFINE n == Len(s)
<1>0. n \in Nat
  BY LenProperties
<1>1. CASE n = 0
  <2>1. s = <<>>
    BY <1>1, EmptySeq
  <2> QED
    BY <1>1, <2>1 DEF FlattenSeq, IsFlat
<1>2. CASE n # 0
  <2> DEFINE h == [i \in 1 .. n |-> f[i]]
             g == CHOOSE e : e = [i \in 1 .. n |-> IF i = 1 THEN s[i] ELSE e[i - 1] \o s[i]]
  <2>1. FlattenSeq(s) = g[n]
    BY <1>2 DEF FlattenSeq
  <2>2. h = [i \in 1 .. n |-> IF i = 1 THEN s[i] ELSE h[i - 1] \o s[i]]
    <3>1. ASSUME NEW i \in 1 .. n PROVE f[i] = IF i = 1 THEN s[i] ELSE h[i - 1] \o s[i]
      <4>1. f[i] = f[i - 1] \o s[i]
        BY DEF IsFlat
      <4>2. CASE i = 1
        <5>1. s[i] \in Seq(S) /\ f[i - 1] = <<>>
          BY <4>2, ElementOfSeq DEF IsFlat
        <5> QED
          BY <4>1, <4>2, <5>1, ConcatEmptySeq
      <4>3. CASE i # 1
        <5>1. i - 1 \in 1 .. n
          BY <1>0, <4>3
        <5>2. h[i - 1] = f[i - 1]
          BY <5>1
        <5> QED
          BY <4>1, <4>3, <5>2
      <4> QED
        BY <4>2, <4>3
    <3> QED
      BY <3>1
  <2>3. g = [i \in 1 .. n |-> IF i = 1 THEN s[i] ELSE g[i - 1] \o s[i]]
    <3> HIDE DEF h
    <3> QED
      BY <2>2
  <2> HIDE DEF g
  <2> DEFINE T == {i \in 1 .. n : g[i] # f[i]}
  <2>4. T = {}
    <3> SUFFICES ASSUME T # {} PROVE FALSE
      OBVIOUS
    <3>1. PICK i \in T : \A k \in T : i <= k
      <4>1. T \subseteq Nat
        OBVIOUS
      <4> HIDE DEF T
      <4> QED
        BY <4>1, LeastNatural
    <3>2. i \in 1 .. n /\ g[i] # f[i]
      BY <3>1
    <3>3. f[i] = f[i - 1] \o s[i] /\ f[0] = <<>>
      BY <3>2 DEF IsFlat
    <3>4. CASE i = 1
      <4>1. s[i] \in Seq(S)
        BY <3>2, ElementOfSeq
      <4>2. g[i] = s[i]
        BY <2>3, <3>2, <3>4
      <4>3. f[i] = <<>> \o s[i]
        <5>1. i - 1 = 0
          BY <3>4
        <5> QED
          BY <3>3, <5>1, Zenon
      <4> QED
        BY <3>2, <4>1, <4>2, <4>3, ConcatEmptySeq
    <3>5. CASE i # 1
      <4>1. i - 1 \in 1 .. n /\ ~(i <= i - 1)
        BY <1>0, <3>2, <3>5
      <4>2. g[i - 1] = f[i - 1]
        BY <3>1, <4>1
      <4>3. g[i] = g[i - 1] \o s[i]
        BY <2>3, <3>2, <3>5
      <4> QED
        BY <3>2, <3>3, <4>2, <4>3
    <3> QED
      BY <3>4, <3>5
  <2>5. n \in 1 .. n
    BY <1>0, <1>2
  <2>6. g[n] = f[n]
    BY <2>4, <2>5
  <2> QED
    BY <2>1, <2>6
<1> QED
  BY <1>1, <1>2

\* What a sequence of sequences flattens to is a sequence over the same elements.
LEMMA FlattenType ==
    ASSUME NEW S, NEW s \in Seq(Seq(S))
    PROVE  FlattenSeq(s) \in Seq(S)
<1>1. Len(s) \in 0 .. Len(s)
  BY LenProperties
<1>2. PICK f : IsFlat(f, s, Len(s), S)
  BY <1>1, FlatExists
<1>3. FlattenSeq(s) = f[Len(s)]
  BY <1>2, FlattenIs
<1> QED
  BY <1>1, <1>2, <1>3 DEF IsFlat

\* The units of a payload.
LEMMA BytesAre ==
    ASSUME NEW S, NEW d \in Seq(S)
    PROVE  /\ Bytes(d) \in Seq([kind: {"byte"}, byte: S])
           /\ Len(Bytes(d)) = Len(d)
           /\ \A i \in 1 .. Len(d) : Bytes(d)[i] = Datum(d[i])
<1>1. Len(d) \in Nat /\ DOMAIN d = 1 .. Len(d) /\ \A i \in 1 .. Len(d) : d[i] \in S
  BY LenProperties, ElementOfSeq
<1>2. Bytes(d) = [i \in 1 .. Len(d) |-> Datum(d[i])]
  BY <1>1 DEF Bytes
<1>3. \A i \in 1 .. Len(d) : Datum(d[i]) \in [kind: {"byte"}, byte: S]
  BY <1>1 DEF Datum
<1> QED
  BY <1>1, <1>2, <1>3

LEMMA BytesConcat ==
    ASSUME NEW S, NEW a \in Seq(S), NEW b \in Seq(S)
    PROVE  Bytes(a \o b) = Bytes(a) \o Bytes(b)
<1> DEFINE U == [kind: {"byte"}, byte: S]
           x == Bytes(a \o b)
           y == Bytes(a) \o Bytes(b)
<1>1. /\ a \o b \in Seq(S) /\ Len(a \o b) = Len(a) + Len(b)
      /\ \A i \in 1 .. Len(a) + Len(b) : (a \o b)[i] = IF i <= Len(a) THEN a[i] ELSE b[i - Len(a)]
      /\ Len(a) \in Nat /\ Len(b) \in Nat
  BY ConcatProperties, LenProperties
<1>2. /\ Bytes(a) \in Seq(U) /\ Len(Bytes(a)) = Len(a)
      /\ \A i \in 1 .. Len(a) : Bytes(a)[i] = Datum(a[i])
  BY BytesAre
<1>3. /\ Bytes(b) \in Seq(U) /\ Len(Bytes(b)) = Len(b)
      /\ \A i \in 1 .. Len(b) : Bytes(b)[i] = Datum(b[i])
  BY BytesAre
<1>4. /\ x \in Seq(U) /\ Len(x) = Len(a) + Len(b)
      /\ \A i \in 1 .. Len(a) + Len(b) : x[i] = Datum((a \o b)[i])
  BY <1>1, BytesAre
<1> HIDE DEF U
<1>5. /\ y \in Seq(U) /\ Len(y) = Len(a) + Len(b)
      /\ \A i \in 1 .. Len(a) + Len(b) :
            y[i] = IF i <= Len(a) THEN Bytes(a)[i] ELSE Bytes(b)[i - Len(a)]
  <2> DEFINE s == Bytes(a)
             t == Bytes(b)
  <2>1. s \in Seq(U) /\ t \in Seq(U) /\ Len(s) = Len(a) /\ Len(t) = Len(b)
    BY <1>2, <1>3
  <2> HIDE DEF s, t
  <2>2. /\ s \o t \in Seq(U) /\ Len(s \o t) = Len(s) + Len(t)
        /\ \A i \in 1 .. Len(s) + Len(t) :
              (s \o t)[i] = IF i <= Len(s) THEN s[i] ELSE t[i - Len(s)]
    BY <2>1, ConcatProperties
  <2>3. y = s \o t
    BY DEF s, t
  <2> HIDE DEF y
  <2>4. /\ y \in Seq(U) /\ Len(y) = Len(a) + Len(b)
        /\ \A i \in 1 .. Len(a) + Len(b) : y[i] = IF i <= Len(a) THEN s[i] ELSE t[i - Len(a)]
    BY <2>1, <2>2, <2>3
  <2> QED
    BY <2>4 DEF s, t
<1> HIDE DEF x, y
<1>6. ASSUME NEW i \in 1 .. Len(x) PROVE x[i] = y[i]
  <2>1. i \in 1 .. Len(a) + Len(b)
    BY <1>4
  <2>2. CASE i <= Len(a)
    <3>1. i \in 1 .. Len(a)
      BY <1>1, <2>1, <2>2
    <3> QED
      BY <1>1, <1>2, <1>4, <1>5, <2>1, <2>2, <3>1
  <2>3. CASE ~(i <= Len(a))
    <3>1. i - Len(a) \in 1 .. Len(b)
      BY <1>1, <2>1, <2>3
    <3> QED
      BY <1>1, <1>3, <1>4, <1>5, <2>1, <2>3, <3>1
  <2> QED
    BY <2>2, <2>3
<1>7. x = y
  BY <1>4, <1>5, <1>6, SeqEqual
<1> QED
  BY <1>7 DEF x, y

\* What can be part of the body of a signed request, however it is disturbed.
ByteUnit == [kind: {"byte"}, byte: Byte]

UnitOf(r) ==
    {CRLF, Seal, Trailer(Bytes(Whole(r)))} \cup ByteUnit
        \cup {Size(Len(ChunkAt(r, i)), Chain(r, i)) : i \in 1 .. Len(r.chunks) + 1}

LEMMA RequestParts ==
    ASSUME NEW r \in Request
    PROVE  /\ r \in RequestType /\ r.chunks \in Seq(Seq(Byte)) /\ Len(r.chunks) \in Nat
           /\ \A i \in 1 .. Len(r.chunks) : r.chunks[i] \in Seq(Byte) /\ Len(r.chunks[i]) # 0
<1>1. r \in RequestType /\ \A i \in DOMAIN r.chunks : r.chunks[i] # <<>>
  BY PayloadAssumption
<1>2. r.chunks \in Seq(Seq(Byte))
  BY <1>1 DEF RequestType
<1>3. Len(r.chunks) \in Nat /\ DOMAIN r.chunks = 1 .. Len(r.chunks)
  BY <1>2, LenProperties
<1>4. \A i \in 1 .. Len(r.chunks) : r.chunks[i] \in Seq(Byte)
  BY <1>2, ElementOfSeq
<1>5. \A i \in 1 .. Len(r.chunks) : Len(r.chunks[i]) # 0
  BY <1>1, <1>3, <1>4, EmptySeq
<1> QED
  BY <1>1, <1>2, <1>3, <1>4, <1>5

\* The chunks of a request and the chain of them.
LEMMA ChunkParts ==
    ASSUME NEW r \in Request, NEW i \in 0 .. Len(r.chunks) + 1
    PROVE  /\ i # 0 => /\ ChunkAt(r, i) \in Seq(Byte)
                       /\ Len(ChunkAt(r, i)) \in Nat
                       /\ Len(ChunkAt(r, i)) = 0 <=> i = Len(r.chunks) + 1
                       /\ i # Len(r.chunks) + 1 => ChunkAt(r, i) = r.chunks[i]
           /\ Chain(r, i) \in Seq(Seq(ByteUnit))
           /\ Len(Chain(r, i)) = i
           /\ \A j \in 1 .. i : Chain(r, i)[j] = Bytes(ChunkAt(r, j))
<1> DEFINE n == Len(r.chunks)
<1>1. /\ n \in Nat /\ \A k \in 1 .. n : r.chunks[k] \in Seq(Byte) /\ Len(r.chunks[k]) # 0
  BY RequestParts
<1>2. ASSUME NEW k \in 1 .. n + 1
      PROVE  /\ ChunkAt(r, k) \in Seq(Byte)
             /\ Len(ChunkAt(r, k)) \in Nat
             /\ Len(ChunkAt(r, k)) = 0 <=> k = n + 1
             /\ k # n + 1 => ChunkAt(r, k) = r.chunks[k]
  <2>1. CASE k = n + 1
    <3>1. ChunkAt(r, k) = <<>>
      BY <1>1, <2>1 DEF ChunkAt
    <3> QED
      BY <2>1, <3>1, EmptySeq
  <2>2. CASE k # n + 1
    <3>1. k \in 1 .. n
      BY <1>1, <2>2
    <3>2. ChunkAt(r, k) = r.chunks[k]
      BY <1>1, <3>1 DEF ChunkAt
    <3> QED
      BY <1>1, <2>2, <3>1, <3>2, LenProperties
  <2> QED
    BY <2>1, <2>2
<1>3. ASSUME NEW k \in 1 .. i PROVE Bytes(ChunkAt(r, k)) \in Seq(ByteUnit)
  <2>1. k \in 1 .. n + 1
    BY <1>1
  <2> QED
    BY <1>2, <2>1, BytesAre DEF ByteUnit
<1>4. i \in Nat /\ Chain(r, i) = [j \in 1 .. i |-> Bytes(ChunkAt(r, j))]
  BY <1>1 DEF Chain
<1>5. Chain(r, i) \in Seq(Seq(ByteUnit)) /\ Len(Chain(r, i)) = i
  BY <1>3, <1>4
<1>6. i # 0 => i \in 1 .. n + 1
  BY <1>1
<1> QED
  BY <1>2, <1>4, <1>5, <1>6

LEMMA WholeType ==
    ASSUME NEW r \in Request
    PROVE  Whole(r) \in Seq(Byte)
  BY RequestParts, FlattenType DEF Whole

LEMMA FrameType ==
    ASSUME NEW r \in Request, r.mode \in Signed, NEW i \in 1 .. Len(r.chunks) + 1
    PROVE  Frame(r, i) \in Seq(UnitOf(r))
<1>0. Len(r.chunks) \in Nat
  BY RequestParts
<1>1. ChunkAt(r, i) \in Seq(Byte)
  <2>1. i \in 0 .. Len(r.chunks) + 1 /\ i # 0
    BY <1>0
  <2> QED
    BY <2>1, ChunkParts
<1>2. Bytes(ChunkAt(r, i)) \in Seq(UnitOf(r))
  <2>1. Bytes(ChunkAt(r, i)) \in Seq(ByteUnit)
    BY <1>1, BytesAre DEF ByteUnit
  <2>2. ByteUnit \subseteq UnitOf(r)
    BY DEF UnitOf
  <2> QED
    BY <2>1, <2>2, SeqMonotonic
<1> DEFINE head == Size(Len(ChunkAt(r, i)), Chain(r, i))
<1>3. head \in UnitOf(r) /\ CRLF \in UnitOf(r)
  BY DEF UnitOf
<1>4. Frame(r, i) = <<head, CRLF>> \o Bytes(ChunkAt(r, i))
                        \o (IF i <= Len(r.chunks) THEN <<CRLF>> ELSE <<>>)
  BY DEF Frame
<1> HIDE DEF head
<1>5. <<head, CRLF>> \in Seq(UnitOf(r)) /\ <<CRLF>> \in Seq(UnitOf(r)) /\ <<>> \in Seq(UnitOf(r))
  BY <1>3
<1>6. <<head, CRLF>> \o Bytes(ChunkAt(r, i)) \in Seq(UnitOf(r))
  BY <1>2, <1>5, ConcatProperties
<1> QED
  BY <1>4, <1>5, <1>6, ConcatProperties

LEMMA SentType ==
    ASSUME NEW r \in Request, r.mode \in Signed
    PROVE  Sent(r) \in Seq(UnitOf(r))
<1> DEFINE U == UnitOf(r)
           frames == [i \in 1 .. Len(r.chunks) + 1 |-> Frame(r, i)]
           trailer == IF r.checksum THEN <<Trailer(Bytes(Whole(r))), CRLF>> ELSE <<>>
           seal == IF r.sealed THEN <<Seal, CRLF>> ELSE <<>>
           blank == IF r.blank THEN <<CRLF>> ELSE <<>>
<1>0. Len(r.chunks) \in Nat
  BY RequestParts
<1>1. frames \in Seq(Seq(U))
  BY <1>0, FrameType
<1>2. FlattenSeq(frames) \in Seq(U)
  <2> HIDE DEF frames, U
  <2> QED
    BY <1>1, FlattenType
<1>3. trailer \in Seq(U) /\ seal \in Seq(U) /\ blank \in Seq(U)
  <2>1. CRLF \in U /\ Seal \in U /\ Trailer(Bytes(Whole(r))) \in U
    BY DEF UnitOf
  <2> HIDE DEF U
  <2> QED
    BY <2>1
<1>4. Sent(r) = FlattenSeq(frames) \o trailer \o seal \o blank
  BY DEF Sent, Encoded, Streaming
<1> HIDE DEF frames, U, trailer, seal, blank
<1>5. FlattenSeq(frames) \o trailer \in Seq(U)
  BY <1>2, <1>3, ConcatProperties
<1>6. (FlattenSeq(frames) \o trailer) \o seal \in Seq(U)
  BY <1>3, <1>5, ConcatProperties
<1>7. Sent(r) \in Seq(U)
  BY <1>3, <1>4, <1>6, ConcatProperties
<1> QED
  BY <1>7 DEF U

\* The payload after each chunk.
FlatOf(r) == CHOOSE f : IsFlat(f, r.chunks, Len(r.chunks), Byte)

LEMMA FlatOfIs ==
    ASSUME NEW r \in Request
    PROVE  /\ IsFlat(FlatOf(r), r.chunks, Len(r.chunks), Byte)
           /\ Whole(r) = FlatOf(r)[Len(r.chunks)]
<1>1. r.chunks \in Seq(Seq(Byte)) /\ Len(r.chunks) \in 0 .. Len(r.chunks)
  BY RequestParts
<1>2. IsFlat(FlatOf(r), r.chunks, Len(r.chunks), Byte)
  BY <1>1, FlatExists DEF FlatOf
<1> QED
  BY <1>1, <1>2, FlattenIs DEF Whole

(***************************************************************************)
(* What is decoded of a signed body: the signature last verified is that   *)
(* of chunk k as the client signed it, and the payload is what the first k *)
(* chunks of the client make.                                              *)
(***************************************************************************)
Decoding ==
    \E k \in 0 .. Len(request.chunks) :
        prev = Chain(request, k) /\ payload = Bytes(FlatOf(request)[k])

PayloadInv ==
    /\ request \in Request
    /\ request.mode \in Signed =>
          /\ body \in Seq(UnitOf(request))
          /\ pc = "transit" => pos = 0 /\ prev = <<>> /\ payload = <<>>
          /\ pc = "chunk" => pos \in Nat /\ Decoding
          /\ pc \in {"trailer", "payload"} => payload = Bytes(Whole(request))
    /\ request.mode = "SHA256" => pc \notin {"chunk", "trailer", "payload"}
    /\ SignedPayloadIntact

LEMMA PayloadInitOK == PayloadInit => PayloadInv
<1> SUFFICES ASSUME PayloadInit PROVE PayloadInv
  OBVIOUS
<1>1. request \in Request /\ pc = "transit" /\ pos = 0 /\ prev = <<>> /\ payload = <<>>
  BY DEF PayloadInit
<1>2. request.mode \in Signed => body \in Seq(UnitOf(request))
  BY <1>1, SentType DEF PayloadInit
<1> QED
  BY <1>1, <1>2 DEF PayloadInv, SignedPayloadIntact, Accepted

\* What transport does to a body leaves it a body of the same units.
LEMMA DisturbedType ==
    ASSUME NEW U, body \in Seq(U), NEW i \in 1 .. Len(body)
    PROVE  /\ Without(i) \in Seq(U) /\ Twice(i) \in Seq(U) /\ CutAt(i) \in Seq(U)
           /\ i < Len(body) => Swapped(i) \in Seq(U)
           /\ \A b : Datum(b) \in U => Altered(i, b) \in Seq(U)
<1>1. Len(body) \in Nat /\ \A k \in 1 .. Len(body) : body[k] \in U
  BY LenProperties, ElementOfSeq
<1>2. /\ SubSeq(body, 1, i - 1) \in Seq(U) /\ SubSeq(body, i + 1, Len(body)) \in Seq(U)
      /\ SubSeq(body, 1, i) \in Seq(U) /\ SubSeq(body, i, Len(body)) \in Seq(U)
  <2>1. \A a, b \in Int : (\A k \in a .. b : body[k] \in U) => SubSeq(body, a, b) \in Seq(U)
    BY SubSeqProperties
  <2>2. /\ i \in Int /\ i - 1 \in Int /\ i + 1 \in Int /\ Len(body) \in Int /\ 1 \in Int
        /\ \A k \in 1 .. i - 1 : k \in 1 .. Len(body)
        /\ \A k \in 1 .. i : k \in 1 .. Len(body)
        /\ \A k \in i .. Len(body) : k \in 1 .. Len(body)
        /\ \A k \in i + 1 .. Len(body) : k \in 1 .. Len(body)
    BY <1>1
  <2> QED
    BY <1>1, <2>1, <2>2
<1>3. Without(i) \in Seq(U) /\ Twice(i) \in Seq(U) /\ CutAt(i) \in Seq(U)
  BY <1>2, ConcatProperties DEF Without, Twice, CutAt
<1>4. \A b : Datum(b) \in U => Altered(i, b) \in Seq(U)
  BY <1>1, ExceptSeq DEF Altered
<1>5. ASSUME i < Len(body) PROVE Swapped(i) \in Seq(U)
  <2> DEFINE s == [body EXCEPT ![i] = body[i + 1]]
  <2>1. i + 1 \in 1 .. Len(body) /\ body[i] \in U /\ body[i + 1] \in U
    BY <1>1, <1>5
  <2>2. s \in Seq(U) /\ Len(s) = Len(body)
    BY <2>1, ExceptSeq
  <2>3. Swapped(i) = [s EXCEPT ![i + 1] = body[i]]
    BY DEF Swapped
  <2> HIDE DEF s
  <2> QED
    BY <2>1, <2>2, <2>3, ExceptSeq
<1> QED
  BY <1>3, <1>4, <1>5

LEMMA DisturbStep ==
    ASSUME PayloadInv, Disturb
    PROVE  PayloadInv'
<1>1. UNCHANGED <<request, pc, pos, prev, payload, delivered>>
  BY DEF Disturb, decoder
<1>2. request.mode \in Signed => body' \in Seq(UnitOf(request))
  <2> SUFFICES ASSUME request.mode \in Signed PROVE body' \in Seq(UnitOf(request))
    OBVIOUS
  <2>1. body \in Seq(UnitOf(request))
    BY DEF PayloadInv
  <2>2. PICK i \in 1 .. Len(body) :
            \/ body' = Without(i)
            \/ body' = Twice(i)
            \/ i < Len(body) /\ body' = Swapped(i)
            \/ body' = CutAt(i)
            \/ \E b \in Byte : body' = Altered(i, b)
    BY DEF Disturb
  <2>3. \A b \in Byte : Datum(b) \in UnitOf(request)
    BY DEF Datum, UnitOf, ByteUnit
  <2> QED
    BY <2>1, <2>2, <2>3, DisturbedType
<1>3. pc = "chunk" => (Decoding' <=> Decoding)
  BY <1>1 DEF Decoding, Chain, ChunkAt, FlatOf, IsFlat
<1>4. UnitOf(request)' = UnitOf(request)
  BY <1>1
<1>5. SignedPayloadIntact'
  BY <1>1 DEF PayloadInv, SignedPayloadIntact, Accepted
<1> QED
  BY <1>1, <1>2, <1>3, <1>4, <1>5 DEF PayloadInv

\* A rejected body is not accepted.
LEMMA RejectStep ==
    ASSUME PayloadInv, UNCHANGED <<request, body>>, NEW code, Reject(code)
    PROVE  PayloadInv'
<1>1. pc' = "rejected"
  BY DEF Reject
<1> QED
  BY <1>1 DEF PayloadInv, SignedPayloadIntact, Accepted

LEMMA ReadBodyStep ==
    ASSUME PayloadInv, ReadBody
    PROVE  PayloadInv'
<1>1. pc = "transit" /\ UNCHANGED <<request, body, pos, prev, payload>> /\ request \in Request
  BY DEF ReadBody, inbound, decoder, PayloadInv
<1>2. CASE \E code : Reject(code)
  BY <1>1, <1>2, RejectStep
<1>3. CASE pc' = "chunk" /\ request.mode \in Streaming
  <2>1. request.mode \in Signed => Decoding'
    <3> SUFFICES ASSUME request.mode \in Signed PROVE Decoding'
      OBVIOUS
    <3>1. prev' = <<>> /\ payload' = <<>>
      BY <1>1 DEF PayloadInv
    <3>2. Len(request.chunks) \in Nat /\ 0 \in 0 .. Len(request.chunks)
      BY <1>1, RequestParts
    <3>3. Chain(request, 0) = <<>>
      BY DEF Chain
    <3>4. FlatOf(request)[0] = <<>> /\ Bytes(<<>>) = <<>>
      <4>1. FlatOf(request)[0] = <<>>
        BY <1>1, FlatOfIs DEF IsFlat
      <4>2. Bytes(<<>>) = <<>>
        BY DEF Bytes
      <4> QED
        BY <4>1, <4>2
    <3>5. prev' = Chain(request, 0) /\ payload' = Bytes(FlatOf(request)[0])
      BY <3>1, <3>3, <3>4
    <3> QED
      BY <1>1, <3>2, <3>5 DEF Decoding
  <2>2. request.mode # "SHA256"
    BY <1>3 DEF Streaming, Signed
  <2>3. SignedPayloadIntact'
    BY <1>3 DEF SignedPayloadIntact, Accepted
  <2>4. UnitOf(request)' = UnitOf(request)
    BY <1>1
  <2> QED
    BY <1>1, <1>3, <2>1, <2>2, <2>3, <2>4 DEF PayloadInv
<1>4. CASE /\ pc' = "accepted" /\ request.mode \notin Signed
           /\ request.mode = "SHA256" => delivered'.payload = Bytes(Whole(request))
  BY <1>1, <1>4 DEF PayloadInv, SignedPayloadIntact, Accepted
<1>5. \/ \E code : Reject(code)
      \/ pc' = "chunk" /\ request.mode \in Streaming
      \/ /\ pc' = "accepted" /\ request.mode \notin Signed
         /\ request.mode = "SHA256" => delivered'.payload = Bytes(Whole(request))
  <2>1. request.mode \in Mode
    BY <1>1, RequestParts DEF RequestType
  <2>2. CASE Len(body) > BodyLimit
    BY <2>2 DEF ReadBody
  <2>3. CASE ~(Len(body) > BodyLimit) /\ request.mode = "UNSIGNED-PAYLOAD"
    BY <2>3 DEF ReadBody, Accept, Signed
  <2>4. CASE ~(Len(body) > BodyLimit) /\ request.mode \in Streaming
    BY <2>4 DEF ReadBody, Streaming, Signed
  <2>5. CASE ~(Len(body) > BodyLimit) /\ request.mode = "SHA256"
    BY <2>5 DEF ReadBody, Accept, Streaming, Signed
  <2>6. CASE ~(Len(body) > BodyLimit) /\ request.mode \in {"STREAMING-OTHER", "JUNK"}
    BY <2>6 DEF ReadBody, Streaming, Signed
  <2> QED
    BY <2>1, <2>2, <2>3, <2>4, <2>5, <2>6 DEF Mode
<1> QED
  BY <1>2, <1>3, <1>4, <1>5

\* A line of the body is made of units of the body.
LEMMA LineParts ==
    ASSUME NEW U, body \in Seq(U), pos \in Nat, HasLine(pos)
    PROVE  LineEnd(pos) \in pos + 1 .. Len(body) /\ BodyLine(pos) \in Seq(U)
<1>1. Len(body) \in Nat /\ \A i \in 1 .. Len(body) : body[i] \in U
  BY LenProperties, ElementOfSeq
<1>2. LineEnds(pos) \subseteq Nat /\ LineEnds(pos) \subseteq pos + 1 .. Len(body)
  BY <1>1 DEF LineEnds
<1>3. \E n \in LineEnds(pos) : \A m \in LineEnds(pos) : n <= m
  BY <1>2, LeastNatural DEF HasLine
<1>4. LineEnd(pos) \in LineEnds(pos)
  BY <1>3 DEF LineEnd
<1>5. LineEnd(pos) \in pos + 1 .. Len(body)
  BY <1>2, <1>4
<1> DEFINE e == LineEnd(pos)
<1>6. BodyLine(pos) \in Seq(U)
  <2>1. e \in pos + 1 .. Len(body)
    BY <1>5
  <2> HIDE DEF e
  <2>2. pos + 1 \in Int /\ e - 1 \in Int /\ \A k \in pos + 1 .. e - 1 : k \in 1 .. Len(body)
    BY <1>1, <2>1
  <2>3. SubSeq(body, pos + 1, e - 1) \in Seq(U)
    BY <1>1, <2>2, SubSeqProperties
  <2> QED
    BY <2>3 DEF BodyLine, e
<1> QED
  BY <1>5, <1>6

\* The chain of the client that continues that of chunk k by one chunk is that of chunk k + 1.
LEMMA ChainContinues ==
    ASSUME NEW r \in Request, NEW k \in 0 .. Len(r.chunks), NEW i \in 1 .. Len(r.chunks) + 1,
           NEW d, Chain(r, i) = Append(Chain(r, k), d)
    PROVE  i = k + 1 /\ d = Bytes(ChunkAt(r, i))
<1>0. Len(r.chunks) \in Nat
  BY RequestParts
<1>1. k \in 0 .. Len(r.chunks) + 1 /\ i \in 0 .. Len(r.chunks) + 1 /\ i \in 1 .. i
  BY <1>0
<1>2. Chain(r, k) \in Seq(Seq(ByteUnit)) /\ Len(Chain(r, k)) = k
  BY <1>1, ChunkParts
<1>3. Len(Chain(r, i)) = i /\ Chain(r, i)[i] = Bytes(ChunkAt(r, i))
  BY <1>1, ChunkParts
<1> DEFINE T == Seq(ByteUnit) \cup {d}
           c == Chain(r, k)
<1>4. c \in Seq(T) /\ d \in T
  BY <1>2, SeqMonotonic
<1>5. Len(c) = k
  BY <1>2
<1> HIDE DEF T, c
<1>6. Len(Append(c, d)) = k + 1 /\ Append(c, d)[k + 1] = d
  BY <1>4, <1>5, AppendProperties
<1>7. Chain(r, i) = Append(c, d)
  BY DEF c
<1>8. i = k + 1
  BY <1>3, <1>6, <1>7
<1> QED
  BY <1>3, <1>6, <1>7, <1>8

\* A header that starts a line of a signed body is one the client wrote.
LEMMA HeaderIs ==
    ASSUME NEW r \in Request, NEW line \in Seq(UnitOf(r)), line # <<>>, line[1].kind = "size"
    PROVE  \E i \in 1 .. Len(r.chunks) + 1 : line[1] = Size(Len(ChunkAt(r, i)), Chain(r, i))
<1>1. Len(line) \in Nat /\ Len(line) # 0
  BY LenProperties, EmptySeq
<1>2. 1 \in 1 .. Len(line)
  BY <1>1
<1>3. line[1] \in UnitOf(r)
  BY <1>2, ElementOfSeq
<1>4. \A u \in {CRLF, Seal, Trailer(Bytes(Whole(r)))} \cup ByteUnit : u.kind # "size"
  BY DEF CRLF, Seal, Trailer, ByteUnit
<1> QED
  BY <1>3, <1>4 DEF UnitOf

\* Nothing in a body is garbled.
LEMMA NotGarbled ==
    ASSUME NEW r \in Request, NEW d \in Seq(UnitOf(r))
    PROVE  d # Garbled
<1>1. \A u \in UnitOf(r) : u.kind # "garbled"
  BY DEF UnitOf, CRLF, Seal, Trailer, ByteUnit, Size
<1> SUFFICES ASSUME d = Garbled PROVE FALSE
  OBVIOUS
<1>2. Len(d) = 1 /\ d[1].kind = "garbled"
  BY DEF Garbled
<1>3. d[1] \in UnitOf(r)
  <2>1. 1 \in 1 .. Len(d)
    BY <1>2
  <2> QED
    BY <2>1, ElementOfSeq
<1> QED
  BY <1>1, <1>2, <1>3

\* A chunk whose signature fits is the client's next chunk.
LEMMA NextChunk ==
    ASSUME request \in Request, request.mode \in Signed,
           NEW k \in 0 .. Len(request.chunks), prev = Chain(request, k),
           NEW line \in Seq(UnitOf(request)), IsHeader(line),
           NEW data \in Seq(UnitOf(request)), HeaderSignature(line) = ChunkSignature(data)
    PROVE  /\ HeaderSignature(line) = Chain(request, k + 1)
           /\ data = Bytes(ChunkAt(request, k + 1))
           /\ HeaderSize(line) = Len(ChunkAt(request, k + 1))
<1>0. Len(request.chunks) \in Nat
  BY RequestParts
<1>1. line # <<>> /\ line[1].kind = "size"
  BY DEF IsHeader
<1>2. PICK i \in 1 .. Len(request.chunks) + 1 :
          line[1] = Size(Len(ChunkAt(request, i)), Chain(request, i))
  BY <1>1, HeaderIs
<1>3. line[1].n = Len(ChunkAt(request, i)) /\ line[1].signature = Chain(request, i)
  BY <1>2 DEF Size
<1>4. Len(line) = 1
  <2> SUFFICES ASSUME Len(line) # 1 PROVE FALSE
    OBVIOUS
  <2> DEFINE T == Seq(ByteUnit) \cup {data}
             c == Chain(request, k)
  <2>1. k \in 0 .. Len(request.chunks) + 1
    BY <1>0
  <2>2. c \in Seq(Seq(ByteUnit)) /\ Len(c) = k
    BY <2>1, ChunkParts
  <2>3. c \in Seq(T) /\ data \in T
    BY <2>2, SeqMonotonic
  <2>4. Append(c, data) = <<Garbled>>
    BY DEF HeaderSignature, ChunkSignature
  <2> HIDE DEF T, c
  <2>5. Len(Append(c, data)) = k + 1 /\ Append(c, data)[k + 1] = data
    BY <2>2, <2>3, AppendProperties
  <2>6. k + 1 = 1 /\ data = Garbled
    <3>1. Len(<<Garbled>>) = 1 /\ <<Garbled>>[1] = Garbled
      OBVIOUS
    <3>2. k + 1 = 1
      BY <2>4, <2>5, <3>1
    <3> QED
      BY <2>4, <2>5, <3>1, <3>2
  <2> QED
    BY <2>6, NotGarbled
<1>5. HeaderSignature(line) = Chain(request, i) /\ HeaderSize(line) = Len(ChunkAt(request, i))
  BY <1>3, <1>4 DEF HeaderSignature, HeaderSize
<1>6. Chain(request, i) = Append(Chain(request, k), data)
  BY <1>5 DEF ChunkSignature
<1>7. i = k + 1 /\ data = Bytes(ChunkAt(request, i))
  BY <1>6, ChainContinues
<1> QED
  BY <1>5, <1>7

\* Nothing is asked of a body that is neither signed nor hashed.
LEMMA UnsignedStep ==
    ASSUME PayloadInv, UNCHANGED request, request.mode \notin Signed \cup {"SHA256"}
    PROVE  PayloadInv'
BY DEF PayloadInv, SignedPayloadIntact

LEMMA DecodeChunkStep ==
    ASSUME PayloadInv, DecodeChunk
    PROVE  PayloadInv'
<1>1. pc = "chunk" /\ request \in Request /\ UNCHANGED <<request, body>>
  BY DEF DecodeChunk, inbound, PayloadInv
<1>2. CASE \E code : Reject(code)
  BY <1>1, <1>2, RejectStep
<1>3. CASE request.mode \notin Signed
  BY <1>1, <1>3, UnsignedStep DEF PayloadInv
<1>4. CASE request.mode \in Signed /\ ~(\E code : Reject(code))
  <2> DEFINE line == BodyLine(pos)
             n == HeaderSize(line)
             sig == HeaderSignature(line)
             end == AfterLine(pos) + n
             data == SubSeq(body, AfterLine(pos) + 1, end)
             U == UnitOf(request)
             r == request
  <2>1. body \in Seq(U) /\ pos \in Nat
    BY <1>1, <1>4 DEF PayloadInv
  <2>2. PICK k \in 0 .. Len(request.chunks) :
            prev = Chain(request, k) /\ payload = Bytes(FlatOf(request)[k])
    BY <1>1, <1>4 DEF PayloadInv, Decoding
  <2>3. /\ HasLine(pos) /\ IsHeader(line) /\ ~(end > Len(body))
        /\ SignatureFits(sig, data)
        /\ \/ /\ n = 0 /\ pc' = "trailer" /\ UNCHANGED payload
           \/ /\ n # 0 /\ pc' = "chunk" /\ payload' = payload \o data
              /\ pos' = end + 1 /\ prev' = sig
    BY <1>1, <1>4 DEF DecodeChunk
  <2>4. sig = ChunkSignature(data)
    BY <1>4, <2>3 DEF SignatureFits
  <2>5. AfterLine(pos) \in pos + 1 .. Len(body) /\ line \in Seq(U)
    BY <2>1, <2>3, LineParts DEF AfterLine
  <2>6. Len(body) \in Nat /\ \A i \in 1 .. Len(body) : body[i] \in U
    BY <2>1, LenProperties, ElementOfSeq
  <2>7. n \in Nat
    <3>1. line # <<>> /\ line[1].kind = "size"
      BY <2>3 DEF IsHeader
    <3>2. PICK i \in 1 .. Len(request.chunks) + 1 :
              line[1] = Size(Len(ChunkAt(request, i)), Chain(request, i))
      BY <1>1, <2>5, <3>1, HeaderIs
    <3>3. n = Len(ChunkAt(request, i))
      <4>1. n = line[1].n
        BY <1>4 DEF HeaderSize
      <4>2. line[1].n = Len(ChunkAt(request, i))
        <5> HIDE DEF line
        <5> QED
          BY <3>2 DEF Size
      <4> QED
        BY <4>1, <4>2
    <3>4. i \in 0 .. Len(request.chunks) + 1 /\ i # 0
      BY <1>1, RequestParts
    <3> QED
      BY <1>1, <3>3, <3>4, ChunkParts
  <2>8. data \in Seq(U) /\ end + 1 \in Nat
    <3> DEFINE a == AfterLine(pos)
    <3>1. a \in pos + 1 .. Len(body) /\ ~(a + n > Len(body))
      BY <2>3, <2>5
    <3> HIDE DEF a, n, U
    <3>2. /\ a + 1 \in Int /\ a + n \in Int /\ \A j \in a + 1 .. a + n : j \in 1 .. Len(body)
          /\ a + n + 1 \in Nat
      BY <2>1, <2>6, <2>7, <3>1
    <3>3. SubSeq(body, a + 1, a + n) \in Seq(U)
      BY <2>1, <2>6, <3>2, SubSeqProperties
    <3> QED
      BY <3>2, <3>3 DEF a, n
  <2>9. /\ sig = Chain(request, k + 1)
        /\ data = Bytes(ChunkAt(request, k + 1))
        /\ n = Len(ChunkAt(request, k + 1))
    BY <1>1, <1>4, <2>2, <2>3, <2>4, <2>5, <2>8, NextChunk
  <2>10. /\ Len(request.chunks) \in Nat /\ k + 1 \in 0 .. Len(request.chunks) + 1 /\ k + 1 # 0
         /\ k + 1 = Len(request.chunks) + 1 <=> k = Len(request.chunks)
    BY <1>1, RequestParts
  <2>11. n = 0 <=> k = Len(request.chunks)
    BY <1>1, <2>9, <2>10, ChunkParts
  <2>12. SignedPayloadIntact'
    BY <2>3 DEF SignedPayloadIntact, Accepted
  <2>13. request.mode # "SHA256"
    BY <1>4 DEF Signed
  <2>14. body' \in Seq(UnitOf(request'))
    BY <1>1, <2>1
  <2>15. CASE n = 0
    <3>1. pc' = "trailer" /\ payload' = payload
      BY <2>3, <2>15
    <3>2. payload' = Bytes(Whole(request))
      BY <1>1, <2>2, <2>11, <2>15, <3>1, FlatOfIs
    <3> QED
      BY <1>1, <2>12, <2>13, <2>14, <3>1, <3>2 DEF PayloadInv
  <2>16. CASE n # 0
    <3>1. pc' = "chunk" /\ payload' = payload \o data /\ pos' = end + 1 /\ prev' = sig
      BY <2>3, <2>16
    <3>2. k + 1 \in 1 .. Len(request.chunks) /\ k + 1 \in 0 .. Len(request.chunks)
      BY <2>10, <2>11, <2>16
    <3>3. data = Bytes(request.chunks[k + 1])
      BY <1>1, <2>9, <2>10, <2>11, <2>16, ChunkParts
    <3> DEFINE f == FlatOf(request)
    <3>4. f[k + 1] = f[k] \o request.chunks[k + 1] /\ f[k] \in Seq(Byte)
      <4>1. IsFlat(f, request.chunks, Len(request.chunks), Byte)
        BY <1>1, FlatOfIs
      <4>2. (k + 1) - 1 = k
        OBVIOUS
      <4> HIDE DEF f
      <4> QED
        BY <3>2, <4>1, <4>2 DEF IsFlat
    <3>5. request.chunks[k + 1] \in Seq(Byte)
      BY <1>1, <3>2, RequestParts
    <3>6. payload' = Bytes(f[k + 1])
      <4>1. Bytes(f[k] \o request.chunks[k + 1]) = Bytes(f[k]) \o Bytes(request.chunks[k + 1])
        BY <3>4, <3>5, BytesConcat
      <4>2. payload' = Bytes(f[k]) \o Bytes(request.chunks[k + 1])
        BY <2>2, <3>1, <3>3
      <4> HIDE DEF f
      <4> QED
        BY <3>4, <4>1, <4>2
    <3>7. prev' = Chain(request, k + 1)
      BY <2>9, <3>1
    <3>8. Decoding'
      <4> HIDE DEF end, data, sig, n, line
      <4> QED
        BY <1>1, <3>2, <3>6, <3>7 DEF Decoding
    <3> QED
      BY <1>1, <2>8, <2>12, <2>13, <2>14, <3>1, <3>8 DEF PayloadInv
  <2> QED
    BY <2>15, <2>16
<1> QED
  BY <1>2, <1>3, <1>4

LEMMA DecodeTrailerStep ==
    ASSUME PayloadInv, DecodeTrailer
    PROVE  PayloadInv'
<1>1. /\ pc = "trailer" /\ request \in Request /\ UNCHANGED <<request, body, payload>>
      /\ \/ \E code : Reject(code)
         \/ pc' \in {"trailer", "payload"}
  BY DEF DecodeTrailer, inbound, PayloadInv
<1>2. CASE \E code : Reject(code)
  BY <1>1, <1>2, RejectStep
<1>3. CASE pc' \in {"trailer", "payload"}
  <2>1. UnitOf(request)' = UnitOf(request) /\ Whole(request)' = Whole(request)
    BY <1>1
  <2> QED
    BY <1>1, <1>3, <2>1 DEF PayloadInv, SignedPayloadIntact, Accepted
<1> QED
  BY <1>1, <1>2, <1>3

LEMMA VerifyPayloadStep ==
    ASSUME PayloadInv, VerifyPayload
    PROVE  PayloadInv'
<1>1. /\ pc = "payload" /\ request \in Request /\ UNCHANGED <<request, body, payload>>
      /\ \/ \E code : Reject(code)
         \/ pc' = "accepted" /\ delivered'.payload = payload
  BY DEF VerifyPayload, inbound, decoder, Accept, PayloadInv
<1>2. CASE \E code : Reject(code)
  BY <1>1, <1>2, RejectStep
<1>3. CASE pc' = "accepted" /\ delivered'.payload = payload
  <2>1. UnitOf(request)' = UnitOf(request) /\ Whole(request)' = Whole(request)
    BY <1>1
  <2> QED
    BY <1>1, <1>3, <2>1 DEF PayloadInv, SignedPayloadIntact, Accepted
<1> QED
  BY <1>1, <1>2, <1>3

(***************************************************************************)
(* A signed or hashed body that is accepted is the payload the client      *)
(* signed, whatever its length, its chunks and its bytes, and however      *)
(* often transport lost, repeated, swapped, altered or cut off what was    *)
(* sent (verify_payload, decode_aws_chunked).                              *)
(***************************************************************************)
THEOREM PayloadsIntact == Spec => []SignedPayloadIntact
<1>1. Init => PayloadInv
  BY PayloadInitOK DEF Init, PayloadStill
<1>2. PayloadInv /\ [Next]_vars => PayloadInv'
  <2> SUFFICES ASSUME PayloadInv, [Next]_vars PROVE PayloadInv'
    OBVIOUS
  <2>1. CASE UNCHANGED payloadVars
    <3>1. UNCHANGED <<request, body, pc, pos, prev, payload, delivered>>
      BY <2>1 DEF payloadVars, inbound, decoder
    <3>2. Decoding' <=> Decoding
      BY <3>1 DEF Decoding
    <3>3. SignedPayloadIntact' <=> SignedPayloadIntact
      BY <3>1 DEF SignedPayloadIntact, Accepted
    <3>4. UnitOf(request)' = UnitOf(request) /\ Whole(request)' = Whole(request)
      BY <3>1
    <3> QED
      BY <3>1, <3>2, <3>3, <3>4 DEF PayloadInv
  <2>2. CASE ConnectionFails
    BY <2>2, RejectStep DEF ConnectionFails
  <2>3. UNCHANGED payloadVars \/ PayloadNext
    BY DEF Next, vars
  <2> QED
    BY <2>1, <2>2, <2>3, ReadBodyStep, DecodeChunkStep, DecodeTrailerStep, VerifyPayloadStep,
       DisturbStep DEF PayloadNext, Decode
<1>3. PayloadInv => SignedPayloadIntact
  BY DEF PayloadInv
<1> QED
  BY <1>1, <1>2, <1>3, PTL DEF Spec

-----------------------------------------------------------------------------
(***************************************************************************)
(* Bodies that arrive as they were sent.  The decoder is at the beginning  *)
(* of a frame, or behind all of them; what it finds there is what the      *)
(* client wrote.                                                           *)
(***************************************************************************)
HeadOf(r, i) == Size(Len(ChunkAt(r, i)), IF r.mode \in Signed THEN Chain(r, i) ELSE <<>>)

SentUnit(r) ==
    {CRLF, Seal, Trailer(Bytes(Whole(r)))} \cup ByteUnit
        \cup {HeadOf(r, i) : i \in 1 .. Len(r.chunks) + 1}

\* The units of a frame.
LEMMA FrameIs ==
    ASSUME NEW r \in Request, NEW i \in 1 .. Len(r.chunks) + 1
    PROVE  LET c == ChunkAt(r, i)
               m == IF i <= Len(r.chunks) THEN 1 ELSE 0
           IN  /\ Frame(r, i) \in Seq(SentUnit(r))
               /\ Len(Frame(r, i)) = 2 + Len(c) + m
               /\ Frame(r, i)[1] = HeadOf(r, i) /\ Frame(r, i)[2] = CRLF
               /\ \A j \in 1 .. Len(c) : Frame(r, i)[2 + j] = Bytes(c)[j]
               /\ i <= Len(r.chunks) => Frame(r, i)[3 + Len(c)] = CRLF
<1> DEFINE c == ChunkAt(r, i)
           d == Bytes(c)
           l == Len(c)
           U == SentUnit(r)
           h == HeadOf(r, i)
           e == IF i <= Len(r.chunks) THEN <<CRLF>> ELSE <<>>
           m == IF i <= Len(r.chunks) THEN 1 ELSE 0
           b == <<h, CRLF>> \o d
<1>0. Len(r.chunks) \in Nat
  BY RequestParts
<1>1. c \in Seq(Byte) /\ l \in Nat
  <2>1. i \in 0 .. Len(r.chunks) + 1 /\ i # 0
    BY <1>0
  <2> QED
    BY <2>1, ChunkParts
<1>2. d \in Seq(U) /\ Len(d) = l
  <2>1. d \in Seq(ByteUnit) /\ Len(d) = l
    BY <1>1, BytesAre DEF ByteUnit
  <2>2. ByteUnit \subseteq U
    BY DEF SentUnit
  <2> QED
    BY <2>1, <2>2, SeqMonotonic
<1>3. h \in U /\ CRLF \in U
  BY DEF SentUnit
<1>4. Frame(r, i) = b \o e
  BY DEF Frame, HeadOf
<1> HIDE DEF U, h, c, d, l
<1>5. /\ <<h, CRLF>> \in Seq(U) /\ Len(<<h, CRLF>>) = 2
      /\ <<h, CRLF>>[1] = h /\ <<h, CRLF>>[2] = CRLF
  BY <1>3
<1>6. e \in Seq(U) /\ Len(e) = m /\ m \in {0, 1} /\ (i <= Len(r.chunks) => m = 1 /\ e[1] = CRLF)
  <2>1. CASE i <= Len(r.chunks)
    BY <1>3, <2>1
  <2>2. CASE ~(i <= Len(r.chunks))
    BY <2>2, EmptySeq
  <2> QED
    BY <2>1, <2>2
<1>7. /\ b \in Seq(U) /\ Len(b) = 2 + l
      /\ b[1] = h /\ b[2] = CRLF /\ \A j \in 1 .. l : b[2 + j] = d[j]
  <2> DEFINE p == <<h, CRLF>>
  <2>1. p \in Seq(U) /\ Len(p) = 2 /\ p[1] = h /\ p[2] = CRLF
    BY <1>5
  <2> HIDE DEF p
  <2>2. /\ p \o d \in Seq(U) /\ Len(p \o d) = Len(p) + Len(d)
        /\ \A j \in 1 .. Len(p) + Len(d) :
              (p \o d)[j] = IF j <= Len(p) THEN p[j] ELSE d[j - Len(p)]
    BY <1>2, <2>1, ConcatProperties
  <2>3. 1 \in 1 .. 2 + l /\ 2 \in 1 .. 2 + l
    BY <1>1
  <2>4. \A j \in 1 .. l : 2 + j \in 1 .. 2 + l /\ ~(2 + j <= 2) /\ (2 + j) - 2 = j
    BY <1>1
  <2>5. b = p \o d
    BY DEF p
  <2> HIDE DEF b
  <2>6. /\ b \in Seq(U) /\ Len(b) = 2 + l
        /\ \A j \in 1 .. 2 + l : b[j] = IF j <= 2 THEN p[j] ELSE d[j - 2]
    BY <1>2, <2>1, <2>2, <2>5
  <2>7. b[1] = p[1] /\ b[2] = p[2]
    BY <2>3, <2>6
  <2>8. \A j \in 1 .. l : b[2 + j] = d[j]
    BY <2>4, <2>6
  <2> QED
    BY <2>1, <2>6, <2>7, <2>8
<1> DEFINE w == Frame(r, i)
<1> HIDE DEF b, e, m, w
<1>8. /\ w \in Seq(U) /\ Len(w) = (2 + l) + m
      /\ \A j \in 1 .. (2 + l) + m : w[j] = IF j <= 2 + l THEN b[j] ELSE e[j - (2 + l)]
  BY <1>1, <1>4, <1>6, <1>7, ConcatProperties DEF w
<1>9. /\ 1 \in 1 .. (2 + l) + m /\ 2 \in 1 .. (2 + l) + m /\ 1 <= 2 + l /\ 2 <= 2 + l
      /\ \A j \in 1 .. l : 2 + j \in 1 .. (2 + l) + m /\ 2 + j <= 2 + l
  BY <1>1, <1>6
<1>10. w[1] = h /\ w[2] = CRLF /\ \A j \in 1 .. l : w[2 + j] = d[j]
  BY <1>7, <1>8, <1>9
<1>11. ASSUME i <= Len(r.chunks) PROVE w[3 + l] = CRLF
  <2>1. m = 1 /\ e[1] = CRLF
    BY <1>6, <1>11
  <2>2. 3 + l \in 1 .. (2 + l) + m /\ ~(3 + l <= 2 + l) /\ (3 + l) - (2 + l) = 1
    BY <1>1, <2>1
  <2> QED
    BY <1>8, <2>1, <2>2
<1>12. (2 + l) + m = 2 + (l + m)
  BY <1>1, <1>6
<1> QED
  BY <1>8, <1>10, <1>11, <1>12 DEF w, U, h, l, m, c, d

\* What the first sequences make is the beginning of what they all make.
LEMMA FlatGrows ==
    ASSUME NEW S, NEW s \in Seq(Seq(S)), NEW f, NEW n \in Nat, IsFlat(f, s, n, S), n <= Len(s),
           NEW i \in 0 .. n
    PROVE  \A j \in i .. n : /\ Len(f[i]) <= Len(f[j])
                             /\ \A x \in 1 .. Len(f[i]) : f[j][x] = f[i][x]
<1> DEFINE P(j) == Len(f[i]) <= Len(f[j]) /\ \A x \in 1 .. Len(f[i]) : f[j][x] = f[i][x]
           T == {j \in i .. n : ~P(j)}
<1>1. \A j \in 0 .. n : f[j] \in Seq(S) /\ Len(f[j]) \in Nat
  BY LenProperties DEF IsFlat
<1> SUFFICES ASSUME T # {} PROVE FALSE
  OBVIOUS
<1>2. PICK j \in T : \A k \in T : j <= k
  <2>1. T \subseteq Nat
    OBVIOUS
  <2> HIDE DEF T
  <2> QED
    BY <2>1, LeastNatural
<1>3. j \in i .. n /\ ~P(j)
  BY <1>2
<1>4. j # i
  BY <1>1, <1>3
<1>5. /\ j - 1 \in i .. n /\ ~(j <= j - 1) /\ j \in 1 .. n /\ j - 1 \in 0 .. n
      /\ i \in 0 .. n /\ j \in 1 .. Len(s)
  BY <1>3, <1>4, LenProperties
<1>6. P(j - 1)
  BY <1>2, <1>5
<1>7. f[j] = f[j - 1] \o s[j] /\ s[j] \in Seq(S)
  BY <1>5, ElementOfSeq DEF IsFlat
<1> DEFINE a == f[i]
           b == f[j - 1]
           c == s[j]
<1>8. a \in Seq(S) /\ b \in Seq(S) /\ c \in Seq(S) /\ f[j] = b \o c
  BY <1>1, <1>5, <1>7
<1>9. Len(a) <= Len(b) /\ \A x \in 1 .. Len(a) : b[x] = a[x]
  BY <1>6
<1>10. ~(Len(a) <= Len(b \o c) /\ \A x \in 1 .. Len(a) : (b \o c)[x] = a[x])
  BY <1>3, <1>8
<1> HIDE DEF a, b, c
<1>11. /\ Len(b \o c) = Len(b) + Len(c) /\ Len(a) \in Nat /\ Len(b) \in Nat /\ Len(c) \in Nat
       /\ \A x \in 1 .. Len(b) + Len(c) : (b \o c)[x] = IF x <= Len(b) THEN b[x] ELSE c[x - Len(b)]
  BY <1>8, ConcatProperties, LenProperties
<1>12. \A x \in 1 .. Len(a) : x \in 1 .. Len(b) + Len(c) /\ x <= Len(b)
  BY <1>9, <1>11
<1>13. Len(a) <= Len(b) + Len(c)
  BY <1>9, <1>11
<1> QED
  BY <1>9, <1>10, <1>11, <1>12, <1>13

\* Where the frames begin: f[k] is what the first k frames make.
FramesOf(r) == [i \in 1 .. Len(r.chunks) + 1 |-> Frame(r, i)]

FrameFlat(r) == CHOOSE f : IsFlat(f, FramesOf(r), Len(r.chunks) + 1, SentUnit(r))

LEMMA FrameFlatIs ==
    ASSUME NEW r \in Request
    PROVE  /\ FramesOf(r) \in Seq(Seq(SentUnit(r))) /\ Len(FramesOf(r)) = Len(r.chunks) + 1
           /\ \A i \in 1 .. Len(r.chunks) + 1 : FramesOf(r)[i] = Frame(r, i)
           /\ IsFlat(FrameFlat(r), FramesOf(r), Len(r.chunks) + 1, SentUnit(r))
           /\ FlattenSeq(FramesOf(r)) = FrameFlat(r)[Len(r.chunks) + 1]
<1> DEFINE n == Len(r.chunks)
           fs == FramesOf(r)
           U == SentUnit(r)
<1>1. n \in Nat
  BY RequestParts
<1>2. \A i \in 1 .. n + 1 : Frame(r, i) \in Seq(U)
  BY FrameIs
<1>3. fs = [i \in 1 .. n + 1 |-> Frame(r, i)]
  BY DEF FramesOf
<1> HIDE DEF n, U, fs
<1>4. fs \in Seq(Seq(U)) /\ Len(fs) = n + 1 /\ n + 1 \in 0 .. n + 1
  BY <1>1, <1>2, <1>3
<1>5. \E f : IsFlat(f, fs, n + 1, U)
  BY <1>4, FlatExists
<1>6. IsFlat(FrameFlat(r), fs, n + 1, U)
  BY <1>5 DEF FrameFlat, fs, n, U
<1>7. FlattenSeq(fs) = FrameFlat(r)[n + 1]
  BY <1>4, <1>6, FlattenIs
<1> QED
  BY <1>3, <1>4, <1>6, <1>7 DEF n, U, fs

\* The end of a body, after its frames.
TailOf(r) == (IF r.checksum THEN <<Trailer(Bytes(Whole(r))), CRLF>> ELSE <<>>)
                 \o (IF r.sealed THEN <<Seal, CRLF>> ELSE <<>>)
                 \o (IF r.blank THEN <<CRLF>> ELSE <<>>)

LEMMA TailIs ==
    ASSUME NEW r \in Request
    PROVE  LET c == IF r.checksum THEN 2 ELSE 0
               s == IF r.sealed THEN 2 ELSE 0
               b == IF r.blank THEN 1 ELSE 0
           IN  /\ TailOf(r) \in Seq(SentUnit(r)) /\ Len(TailOf(r)) = c + s + b
               /\ r.checksum => TailOf(r)[1] = Trailer(Bytes(Whole(r))) /\ TailOf(r)[2] = CRLF
               /\ r.sealed => TailOf(r)[c + 1] = Seal /\ TailOf(r)[c + 2] = CRLF
               /\ r.blank => TailOf(r)[c + s + 1] = CRLF
<1> DEFINE U == SentUnit(r)
           T == Trailer(Bytes(Whole(r)))
           x == IF r.checksum THEN <<T, CRLF>> ELSE <<>>
           y == IF r.sealed THEN <<Seal, CRLF>> ELSE <<>>
           z == IF r.blank THEN <<CRLF>> ELSE <<>>
           c == IF r.checksum THEN 2 ELSE 0
           s == IF r.sealed THEN 2 ELSE 0
           b == IF r.blank THEN 1 ELSE 0
           w == TailOf(r)
<1>1. T \in U /\ Seal \in U /\ CRLF \in U
  BY DEF SentUnit
<1>2. w = (x \o y) \o z
  BY DEF TailOf
<1> HIDE DEF U, T, w
<1>3. x \in Seq(U) /\ Len(x) = c /\ c \in Nat /\ (r.checksum => c = 2 /\ x[1] = T /\ x[2] = CRLF)
  BY <1>1
<1>4. y \in Seq(U) /\ Len(y) = s /\ s \in Nat /\ (r.sealed => s = 2 /\ y[1] = Seal /\ y[2] = CRLF)
  BY <1>1
<1>5. z \in Seq(U) /\ Len(z) = b /\ b \in Nat /\ (r.blank => b = 1 /\ z[1] = CRLF)
  BY <1>1
<1> HIDE DEF x, y, z, c, s, b
<1> DEFINE v == x \o y
<1>6. v \in Seq(U) /\ Len(v) = c + s /\ \A i \in 1 .. c + s : v[i] = IF i <= c THEN x[i] ELSE y[i - c]
  <2>1. /\ v \in Seq(U) /\ Len(v) = Len(x) + Len(y)
        /\ \A i \in 1 .. Len(x) + Len(y) : v[i] = IF i <= Len(x) THEN x[i] ELSE y[i - Len(x)]
    BY <1>3, <1>4, ConcatProperties
  <2> HIDE DEF v
  <2> QED
    BY <1>3, <1>4, <2>1
<1> HIDE DEF v
<1>7. /\ w \in Seq(U) /\ Len(w) = c + s + b
      /\ \A i \in 1 .. c + s + b : w[i] = IF i <= c + s THEN v[i] ELSE z[i - (c + s)]
  <2>1. w = v \o z
    BY <1>2 DEF v
  <2>2. /\ v \o z \in Seq(U) /\ Len(v \o z) = Len(v) + Len(z)
        /\ \A i \in 1 .. Len(v) + Len(z) :
              (v \o z)[i] = IF i <= Len(v) THEN v[i] ELSE z[i - Len(v)]
    BY <1>5, <1>6, ConcatProperties
  <2> QED
    BY <1>5, <1>6, <2>1, <2>2
<1>8. r.checksum => w[1] = T /\ w[2] = CRLF
  <2> SUFFICES ASSUME r.checksum PROVE w[1] = T /\ w[2] = CRLF
    OBVIOUS
  <2>1. c = 2 /\ x[1] = T /\ x[2] = CRLF
    BY <1>3
  <2>2. \A i \in {1, 2} : i \in 1 .. c + s /\ i \in 1 .. c + s + b /\ i <= c + s /\ i <= c
    BY <1>4, <1>5, <2>1
  <2> QED
    BY <1>6, <1>7, <2>1, <2>2
<1>9. r.sealed => w[c + 1] = Seal /\ w[c + 2] = CRLF
  <2> SUFFICES ASSUME r.sealed PROVE w[c + 1] = Seal /\ w[c + 2] = CRLF
    OBVIOUS
  <2>1. s = 2 /\ y[1] = Seal /\ y[2] = CRLF
    BY <1>4
  <2>2. \A i \in {1, 2} : c + i \in 1 .. c + s /\ ~(c + i <= c) /\ (c + i) - c = i
    BY <1>3, <2>1
  <2>3. \A i \in {1, 2} : c + i \in 1 .. c + s + b /\ c + i <= c + s
    BY <1>3, <1>5, <2>1
  <2>4. \A i \in {1, 2} : v[c + i] = y[i]
    BY <1>6, <2>2
  <2>5. \A i \in {1, 2} : w[c + i] = v[c + i]
    BY <1>7, <2>3
  <2> QED
    BY <2>1, <2>4, <2>5
<1>10. r.blank => w[c + s + 1] = CRLF
  <2> SUFFICES ASSUME r.blank PROVE w[c + s + 1] = CRLF
    OBVIOUS
  <2>1. b = 1 /\ z[1] = CRLF
    BY <1>5
  <2>2. /\ c + s + 1 \in 1 .. c + s + b /\ ~(c + s + 1 <= c + s) /\ (c + s + 1) - (c + s) = 1
    BY <1>3, <1>4, <2>1
  <2> QED
    BY <1>7, <2>1, <2>2
<1> QED
  BY <1>7, <1>8, <1>9, <1>10 DEF U, T, c, s, b, w

\* Every frame is in the body where the frames before it end, and the tail after the last.
LEMMA SentIs ==
    ASSUME NEW r \in Request, r.mode \in Streaming
    PROVE  LET n == Len(r.chunks)
               f == FrameFlat(r)
               B == Sent(r)
           IN  /\ B \in Seq(SentUnit(r))
               /\ f[0] = <<>>
               /\ \A k \in 0 .. n : /\ Len(f[k]) \in Nat
                                    /\ Len(f[k + 1]) = Len(f[k]) + Len(Frame(r, k + 1))
                                    /\ Len(f[k + 1]) <= Len(B)
                                    /\ \A j \in 1 .. Len(Frame(r, k + 1)) :
                                          B[Len(f[k]) + j] = Frame(r, k + 1)[j]
               /\ Len(B) = Len(f[n + 1]) + Len(TailOf(r))
               /\ \A j \in 1 .. Len(TailOf(r)) : B[Len(f[n + 1]) + j] = TailOf(r)[j]
<1> DEFINE n == Len(r.chunks)
           fs == FramesOf(r)
           f == FrameFlat(r)
           U == SentUnit(r)
           B == Sent(r)
           t == TailOf(r)
           F == f[n + 1]
<1>0. n \in Nat
  BY RequestParts
<1>1. /\ fs \in Seq(Seq(U)) /\ Len(fs) = n + 1 /\ IsFlat(f, fs, n + 1, U)
      /\ \A i \in 1 .. n + 1 : fs[i] = Frame(r, i) /\ Frame(r, i) \in Seq(U)
      /\ FlattenSeq(fs) = F
  BY FrameFlatIs, FrameIs
<1>2. t \in Seq(U)
  BY TailIs
<1>3. \A k \in 0 .. n + 1 : f[k] \in Seq(U) /\ Len(f[k]) \in Nat
  BY <1>1, LenProperties DEF IsFlat
<1>4. B = F \o t
  <2> DEFINE c == IF r.checksum THEN <<Trailer(Bytes(Whole(r))), CRLF>> ELSE <<>>
             s == IF r.sealed THEN <<Seal, CRLF>> ELSE <<>>
             b == IF r.blank THEN <<CRLF>> ELSE <<>>
  <2>1. B = ((FlattenSeq(fs) \o c) \o s) \o b
    BY DEF Sent, Encoded, FramesOf
  <2>2. c \in Seq(U) /\ s \in Seq(U) /\ b \in Seq(U)
    <3>1. CRLF \in U /\ Seal \in U /\ Trailer(Bytes(Whole(r))) \in U
      BY DEF SentUnit
    <3> HIDE DEF U
    <3> QED
      BY <3>1
  <2>3. t = (c \o s) \o b
    BY DEF TailOf
  <2>4. F \in Seq(U)
    BY <1>0, <1>3
  <2> DEFINE x == c \o s
  <2> HIDE DEF c, s, b, U, F, B, t, fs
  <2>5. (F \o c) \o s = F \o x
    BY <2>2, <2>4
  <2>6. x \in Seq(U) /\ b \in Seq(U)
    BY <2>2
  <2> HIDE DEF x
  <2>7. (F \o x) \o b = F \o (x \o b)
    BY <2>4, <2>6
  <2>8. B = (F \o x) \o b
    BY <1>1, <2>1, <2>5, Zenon
  <2>9. t = x \o b
    BY <2>3, Zenon DEF x
  <2> QED
    BY <2>7, <2>8, <2>9, Zenon
<1> HIDE DEF n, fs, f, U, B, t
<1>5. F \in Seq(U) /\ Len(F) \in Nat
  BY <1>0, <1>3
<1> HIDE DEF F
<1>6. /\ B \in Seq(U) /\ Len(B) = Len(F) + Len(t) /\ Len(t) \in Nat
      /\ \A j \in 1 .. Len(F) + Len(t) : B[j] = IF j <= Len(F) THEN F[j] ELSE t[j - Len(F)]
  BY <1>2, <1>4, <1>5, ConcatProperties, LenProperties
<1>7. \A j \in 1 .. Len(t) : B[Len(F) + j] = t[j]
  <2> DEFINE x == Len(F)
             y == Len(t)
  <2>1. x \in Nat /\ y \in Nat
    BY <1>5, <1>6
  <2>2. \A j \in 1 .. x + y : B[j] = IF j <= x THEN F[j] ELSE t[j - x]
    BY <1>6
  <2> HIDE DEF x, y
  <2>3. \A j \in 1 .. y : x + j \in 1 .. x + y /\ ~(x + j <= x) /\ (x + j) - x = j
    BY <2>1
  <2>4. \A j \in 1 .. y : B[x + j] = t[j]
    BY <2>2, <2>3
  <2> QED
    BY <2>4 DEF x, y
<1>8. ASSUME NEW k \in 0 .. n
      PROVE  /\ Len(f[k + 1]) = Len(f[k]) + Len(Frame(r, k + 1))
             /\ Len(f[k + 1]) <= Len(B)
             /\ \A j \in 1 .. Len(Frame(r, k + 1)) : B[Len(f[k]) + j] = Frame(r, k + 1)[j]
  <2> DEFINE a == f[k]
             w == Frame(r, k + 1)
             g == f[k + 1]
  <2>1. k + 1 \in 1 .. n + 1 /\ (k + 1) - 1 = k /\ k \in 0 .. n + 1 /\ k + 1 \in 0 .. n + 1
        /\ n + 1 \in k + 1 .. n + 1
    BY <1>0
  <2>2. g = a \o w /\ a \in Seq(U) /\ w \in Seq(U)
    BY <1>1, <1>3, <2>1 DEF IsFlat
  <2>3. Len(g) <= Len(F) /\ \A x \in 1 .. Len(g) : F[x] = g[x]
    <3>1. n + 1 \in Nat /\ n + 1 <= Len(fs)
      BY <1>0, <1>1
    <3> QED
      BY <1>1, <2>1, <3>1, FlatGrows DEF F
  <2> HIDE DEF a, w, g
  <2>4. /\ Len(g) = Len(a) + Len(w) /\ Len(a) \in Nat /\ Len(w) \in Nat
        /\ \A j \in 1 .. Len(a) + Len(w) : g[j] = IF j <= Len(a) THEN a[j] ELSE w[j - Len(a)]
    BY <2>2, ConcatProperties, LenProperties
  <2> DEFINE x == Len(a)
             y == Len(w)
             z == Len(F)
             l == Len(t)
  <2>5. x \in Nat /\ y \in Nat /\ z \in Nat /\ l \in Nat /\ Len(g) = x + y /\ x + y <= z /\ Len(B) = z + l
    BY <1>5, <1>6, <2>3, <2>4
  <2>6. /\ \A j \in 1 .. x + y : g[j] = IF j <= x THEN a[j] ELSE w[j - x]
        /\ \A j \in 1 .. x + y : F[j] = g[j]
        /\ \A j \in 1 .. z + l : B[j] = IF j <= z THEN F[j] ELSE t[j - z]
    BY <1>6, <2>3, <2>4
  <2> HIDE DEF x, y, z, l
  <2>7. \A j \in 1 .. y : /\ x + j \in 1 .. x + y /\ ~(x + j <= x) /\ (x + j) - x = j
                          /\ x + j \in 1 .. z + l /\ x + j <= z
    BY <2>5
  <2>8. \A j \in 1 .. y : B[x + j] = w[j]
    BY <2>6, <2>7
  <2>9. Len(g) <= Len(B)
    BY <2>5
  <2> QED
    BY <2>4, <2>8, <2>9 DEF a, w, g, x, y
<1>9. f[0] = <<>> /\ \A k \in 0 .. n : Len(f[k]) \in Nat
  <2>1. \A k \in 0 .. n : k \in 0 .. n + 1
    BY <1>0
  <2> QED
    BY <1>1, <1>3, <2>1 DEF IsFlat
<1> QED
  BY <1>6, <1>7, <1>8, <1>9 DEF n, f, U, B, t, F

\* A line of one unit of text, as the client writes them.
LEMMA LineAt ==
    ASSUME NEW U, body \in Seq(U), pos \in Nat, pos + 2 <= Len(body),
           body[pos + 1] # CRLF, body[pos + 2] = CRLF
    PROVE  /\ HasLine(pos) /\ AfterLine(pos) = pos + 2
           /\ BodyLine(pos) \in Seq(U) /\ Len(BodyLine(pos)) = 1
           /\ BodyLine(pos)[1] = body[pos + 1]
<1>1. Len(body) \in Nat /\ \A i \in 1 .. Len(body) : body[i] \in U
  BY LenProperties, ElementOfSeq
<1>2. /\ pos + 2 \in pos + 1 .. Len(body)
      /\ \A i \in pos + 1 .. Len(body) : i = pos + 1 \/ pos + 2 <= i
  BY <1>1
<1>3. pos + 2 \in LineEnds(pos) /\ \A i \in LineEnds(pos) : pos + 2 <= i
  BY <1>2 DEF LineEnds
<1>4. LineEnds(pos) \subseteq Nat
  BY <1>1 DEF LineEnds
<1>5. LineEnd(pos) = pos + 2
  <2>1. LineEnd(pos) \in LineEnds(pos) /\ LineEnd(pos) <= pos + 2
    BY <1>3 DEF LineEnd
  <2> QED
    BY <1>3, <1>4, <2>1
<1>6. BodyLine(pos) = SubSeq(body, pos + 1, pos + 1)
  <2>1. (pos + 2) - 1 = pos + 1
    OBVIOUS
  <2> QED
    BY <1>5, <2>1 DEF BodyLine
<1> DEFINE m == pos + 1
<1>7. m \in Int /\ \A i \in m .. m : body[i] \in U
  BY <1>1, <1>2
<1> HIDE DEF m
<1>8. /\ SubSeq(body, m, m) \in Seq(U) /\ Len(SubSeq(body, m, m)) = (m - m) + 1
      /\ \A i \in 1 .. (m - m) + 1 : SubSeq(body, m, m)[i] = body[(m + i) - 1]
  BY <1>7, SubSeqProperties
<1>9. (m - m) + 1 = 1 /\ 1 \in 1 .. 1 /\ (m + 1) - 1 = m
  BY <1>7
<1>10. Len(SubSeq(body, m, m)) = 1 /\ SubSeq(body, m, m)[1] = body[m]
  BY <1>8, <1>9
<1> QED
  BY <1>3, <1>5, <1>6, <1>8, <1>10 DEF HasLine, AfterLine, m

\* A blank line.
LEMMA BlankAt ==
    ASSUME NEW U, body \in Seq(U), pos \in Nat, pos + 1 <= Len(body), body[pos + 1] = CRLF
    PROVE  HasLine(pos) /\ AfterLine(pos) = pos + 1 /\ BodyLine(pos) = <<>>
<1>1. Len(body) \in Nat
  BY LenProperties
<1>2. pos + 1 \in LineEnds(pos) /\ \A i \in LineEnds(pos) : pos + 1 <= i
  BY <1>1 DEF LineEnds
<1>3. LineEnds(pos) \subseteq Nat
  BY <1>1 DEF LineEnds
<1>4. LineEnd(pos) = pos + 1
  <2>1. LineEnd(pos) \in LineEnds(pos) /\ LineEnd(pos) <= pos + 1
    BY <1>2 DEF LineEnd
  <2> QED
    BY <1>2, <1>3, <2>1
<1>5. BodyLine(pos) = SubSeq(body, pos + 1, pos)
  <2>1. (pos + 1) - 1 = pos
    OBVIOUS
  <2> QED
    BY <1>4, <2>1 DEF BodyLine
<1>6. SubSeq(body, pos + 1, pos) = <<>>
  <2> DEFINE m == pos + 1
             w == SubSeq(body, m, pos)
  <2>1. m \in Int /\ ~(m <= pos) /\ \A i \in m .. pos : body[i] \in U
    OBVIOUS
  <2> HIDE DEF m
  <2>2. w \in Seq(U) /\ Len(w) = 0
    BY <2>1, SubSeqProperties
  <2> HIDE DEF w
  <2>3. w = <<>>
    BY <2>2, EmptySeq
  <2> QED
    BY <2>3 DEF w, m
<1> QED
  BY <1>2, <1>4, <1>5, <1>6 DEF HasLine, AfterLine

\* The end of the body.
LEMMA NoLineAt ==
    ASSUME NEW U, body \in Seq(U), pos = Len(body)
    PROVE  ~HasLine(pos)
BY LenProperties DEF HasLine, LineEnds

\* The number that the digits of a header make: h[i] is that of the first i units.
IsNumber(h, line) ==
    /\ h \in [0 .. Len(line) -> Nat]
    /\ h[0] = 0
    /\ \A i \in 1 .. Len(line) : h[i] = 16 * h[i - 1] + line[i].n

LEMMA NumberIs ==
    ASSUME NEW U, NEW line \in Seq(U), \A i \in 1 .. Len(line) : line[i].n \in Nat,
           request.mode \notin Signed
    PROVE  \E h : IsNumber(h, line) /\ HeaderSize(line) = h[Len(line)]
<1> DEFINE n == Len(line)
           g == CHOOSE e : e = [i \in 0 .. n |-> IF i = 0 THEN 0 ELSE 16 * e[i - 1] + line[i].n]
           turn == [q \in (1 .. n) \X Nat |-> 16 * q[2] + line[q[1]].n]
<1>0. n \in Nat
  BY LenProperties
<1>1. HeaderSize(line) = g[n]
  BY DEF HeaderSize
<1>2. turn \in [(1 .. n) \X Nat -> Nat]
  OBVIOUS
<1>3. PICK f : IsLoop(f, turn, 0, n, Nat)
  <2> HIDE DEF turn, n
  <2> QED
    BY <1>0, <1>2, LoopExists
<1>4. /\ f \in [0 .. n -> Nat] /\ f[0] = 0
      /\ \A i \in 1 .. n : f[i] = 16 * f[i - 1] + line[i].n
  <2>1. \A i \in 1 .. n : f[i] = turn[<<i, f[i - 1]>>]
    BY <1>3 DEF IsLoop
  <2>2. f \in [0 .. n -> Nat] /\ f[0] = 0
    BY <1>3 DEF IsLoop
  <2>3. ASSUME NEW i \in 1 .. n PROVE turn[<<i, f[i - 1]>>] = 16 * f[i - 1] + line[i].n
    <3>1. f[i - 1] \in Nat
      <4>1. i - 1 \in 0 .. n
        BY <1>0
      <4> QED
        BY <2>2, <4>1
    <3> QED
      BY <3>1
  <2> HIDE DEF turn
  <2> QED
    BY <2>1, <2>2, <2>3
<1>5. f = [i \in 0 .. n |-> IF i = 0 THEN 0 ELSE 16 * f[i - 1] + line[i].n]
  <2>1. ASSUME NEW i \in 0 .. n PROVE f[i] = IF i = 0 THEN 0 ELSE 16 * f[i - 1] + line[i].n
    BY <1>0, <1>4
  <2> HIDE DEF n
  <2> QED
    BY <1>4, <2>1
<1>6. g = [i \in 0 .. n |-> IF i = 0 THEN 0 ELSE 16 * g[i - 1] + line[i].n]
  BY <1>5
<1> HIDE DEF g, turn
<1>7. /\ g[0] = 0 /\ \A i \in 1 .. n : g[i] = 16 * g[i - 1] + line[i].n
  <2>1. 0 \in 0 .. n /\ \A i \in 1 .. n : i \in 0 .. n /\ i # 0
    BY <1>0
  <2> HIDE DEF n
  <2> QED
    BY <1>6, <2>1
<1> DEFINE T == {i \in 0 .. n : g[i] # f[i]}
<1>8. T = {}
  <2>0. SUFFICES ASSUME T # {} PROVE FALSE
    OBVIOUS
  <2>1. PICK i \in T : \A k \in T : i <= k
    <3>1. T \subseteq Nat
      OBVIOUS
    <3> HIDE DEF T
    <3> QED
      BY <2>0, <3>1, LeastNatural
  <2>2. i \in 0 .. n /\ g[i] # f[i] /\ i # 0
    BY <1>4, <1>7, <2>1
  <2>3. i \in 1 .. n /\ i - 1 \in 0 .. n /\ ~(i <= i - 1)
    BY <1>0, <2>2
  <2>4. g[i - 1] = f[i - 1]
    BY <2>1, <2>3
  <2> QED
    BY <1>4, <1>7, <2>2, <2>3, <2>4
<1>9. g[n] = f[n]
  BY <1>0, <1>8
<1>10. IsNumber(f, line)
  BY <1>4 DEF IsNumber
<1> QED
  BY <1>1, <1>9, <1>10

\* The digits of one header are its size.
LEMMA OneHeader ==
    ASSUME NEW U, NEW line \in Seq(U), Len(line) = 1, line[1].n \in Nat
    PROVE  HeaderSize(line) = line[1].n
<1>1. CASE request.mode \in Signed
  BY <1>1 DEF HeaderSize
<1>2. CASE request.mode \notin Signed
  <2>1. PICK h : IsNumber(h, line) /\ HeaderSize(line) = h[Len(line)]
    <3>1. \A i \in 1 .. Len(line) : line[i].n \in Nat
      OBVIOUS
    <3> QED
      BY <1>2, <3>1, NumberIs
  <2>2. h[1] = 16 * h[0] + line[1].n /\ h[0] = 0
    <3>1. 1 \in 1 .. Len(line) /\ 1 - 1 = 0
      OBVIOUS
    <3> QED
      BY <2>1, <3>1 DEF IsNumber
  <2> QED
    BY <2>1, <2>2
<1> QED
  BY <1>1, <1>2

\* The codings beneath aws-chunked stay.
LEMMA StrippedIs ==
    ASSUME NEW e \in Seq(Coding)
    PROVE  /\ "aws-chunked" \notin ToSet(Stripped(e))
           /\ "gzip" \in ToSet(e) => "gzip" \in ToSet(Stripped(e))
<1> DEFINE n == Len(e)
           G == {"gzip"}
           s == [i \in 1 .. n |-> IF e[i] = "aws-chunked" THEN <<>> ELSE <<e[i]>>]
           w == Stripped(e)
<1>1. n \in Nat /\ DOMAIN e = 1 .. n /\ \A i \in 1 .. n : e[i] \in Coding
  BY LenProperties, ElementOfSeq
<1>2. w = FlattenSeq(s)
  BY <1>1 DEF Stripped
<1>3. s \in Seq(Seq(G)) /\ Len(s) = n
  <2>1. \A i \in 1 .. n : (IF e[i] = "aws-chunked" THEN <<>> ELSE <<e[i]>>) \in Seq(G)
    <3> TAKE i \in 1 .. n
    <3>1. CASE e[i] = "aws-chunked"
      BY <3>1
    <3>2. CASE e[i] # "aws-chunked"
      <4>1. e[i] = "gzip"
        BY <1>1, <3>2 DEF Coding
      <4> QED
        BY <4>1
    <3> QED
      BY <3>1, <3>2
  <2> HIDE DEF G, n
  <2> QED
    BY <1>1, <2>1
<1>4. \A i \in 1 .. n : e[i] = "gzip" => Len(s[i]) = 1 /\ s[i] \in Seq(G)
  BY <1>1
<1> HIDE DEF s, w, n
<1>5. w \in Seq(G)
  <2> HIDE DEF G
  <2> QED
    BY <1>2, <1>3, FlattenType
<1>6. Len(w) \in Nat /\ DOMAIN w = 1 .. Len(w) /\ \A i \in 1 .. Len(w) : w[i] = "gzip"
  BY <1>5, LenProperties, ElementOfSeq
<1>7. "aws-chunked" \notin ToSet(w)
  BY <1>6 DEF ToSet
<1>8. ASSUME "gzip" \in ToSet(e) PROVE "gzip" \in ToSet(w)
  <2>1. PICK i \in 1 .. n : e[i] = "gzip"
    BY <1>1, <1>8 DEF ToSet
  <2>2. PICK f : IsFlat(f, s, n, G)
    <3>1. n \in 0 .. Len(s)
      BY <1>1, <1>3
    <3> HIDE DEF G
    <3> QED
      BY <1>3, <3>1, FlatExists
  <2>3. w = f[n]
    <3> HIDE DEF G
    <3> QED
      BY <1>2, <1>3, <2>2, FlattenIs
  <2>4. i \in 0 .. n /\ n \in i .. n /\ i - 1 \in 0 .. n /\ n <= Len(s)
    BY <1>1, <1>3
  <2>5. Len(f[i]) <= Len(w)
    <3> HIDE DEF G
    <3> QED
      BY <1>1, <1>3, <2>2, <2>3, <2>4, FlatGrows
  <2> DEFINE a == f[i - 1]
             b == s[i]
  <2>6. f[i] = a \o b /\ a \in Seq(G) /\ b \in Seq(G) /\ Len(b) = 1
    <3> HIDE DEF G
    <3> QED
      BY <1>4, <2>1, <2>2, <2>4 DEF IsFlat
  <2> HIDE DEF a, b, G
  <2>7. Len(f[i]) = Len(a) + 1 /\ Len(a) \in Nat
    <3>1. Len(a \o b) = Len(a) + Len(b)
      BY <2>6, ConcatProperties
    <3>2. Len(a) \in Nat
      BY <2>6, LenProperties
    <3> QED
      BY <2>6, <3>1, <3>2
  <2>8. 1 \in 1 .. Len(w)
    <3>1. ASSUME NEW x \in Nat, NEW y \in Nat, y + 1 <= x PROVE 1 \in 1 .. x
      BY <3>1
    <3>2. Len(w) \in Nat /\ Len(a) + 1 <= Len(w)
      BY <1>6, <2>5, <2>7
    <3> QED
      BY <2>7, <3>1, <3>2
  <2> QED
    BY <1>6, <2>8 DEF ToSet
<1> QED
  BY <1>7, <1>8 DEF w

\* The chain one chunk further.
LEMMA ChainNext ==
    ASSUME NEW r \in Request, NEW k \in 0 .. Len(r.chunks)
    PROVE  Append(Chain(r, k), Bytes(ChunkAt(r, k + 1))) = Chain(r, k + 1)
<1> DEFINE c == Chain(r, k)
           d == Bytes(ChunkAt(r, k + 1))
           e == Chain(r, k + 1)
           S == Seq(ByteUnit)
<1>0. Len(r.chunks) \in Nat
  BY RequestParts
<1>1. k \in Nat /\ k \in 0 .. Len(r.chunks) + 1 /\ k + 1 \in 0 .. Len(r.chunks) + 1 /\ k + 1 # 0
      /\ k + 1 \in 1 .. k + 1 /\ \A j \in 1 .. k : j \in 1 .. k + 1
  BY <1>0
<1>2. c \in Seq(S) /\ Len(c) = k /\ \A j \in 1 .. k : c[j] = Bytes(ChunkAt(r, j))
  BY <1>1, ChunkParts
<1>3. e \in Seq(S) /\ Len(e) = k + 1 /\ \A j \in 1 .. k + 1 : e[j] = Bytes(ChunkAt(r, j))
  BY <1>1, ChunkParts
<1>4. d \in S
  BY <1>1, ChunkParts, BytesAre DEF ByteUnit
<1>5. d = e[k + 1] /\ \A j \in 1 .. k : c[j] = e[j]
  BY <1>1, <1>2, <1>3
<1> HIDE DEF c, d, e, S
<1>6. /\ Append(c, d) \in Seq(S) /\ Len(Append(c, d)) = k + 1
      /\ \A j \in 1 .. k : Append(c, d)[j] = c[j]
      /\ Append(c, d)[k + 1] = d
  BY <1>2, <1>4, AppendProperties
<1>7. \A j \in 1 .. k + 1 : Append(c, d)[j] = e[j]
  <2>1. \A j \in 1 .. k + 1 : j \in 1 .. k \/ j = k + 1
    BY <1>1
  <2> QED
    BY <1>5, <1>6, <2>1
<1>8. Append(c, d) = e
  BY <1>3, <1>6, <1>7, SeqEqual
<1> QED
  BY <1>8 DEF c, d, e

\* What the decoder reads at the beginning of frame k + 1, when the body is as sent that far.
LEMMA FrameRead ==
    ASSUME request \in Request, request.mode \in Streaming, body \in Seq(SentUnit(request)),
           NEW k \in 0 .. Len(request.chunks), pos = Len(FrameFlat(request)[k]),
           Len(FrameFlat(request)[k + 1]) <= Len(body),
           \A j \in 1 .. Len(FrameFlat(request)[k + 1]) : body[j] = Sent(request)[j],
           request.mode \in Signed => prev = Chain(request, k)
    PROVE  LET c == ChunkAt(request, k + 1)
               line == BodyLine(pos)
               end == AfterLine(pos) + HeaderSize(line)
           IN  /\ HasLine(pos) /\ IsHeader(line)
               /\ HeaderSize(line) = Len(c)
               /\ ~(end > Len(body))
               /\ SubSeq(body, AfterLine(pos) + 1, end) = Bytes(c)
               /\ SignatureFits(HeaderSignature(line), Bytes(c))
               /\ request.mode \in Signed => HeaderSignature(line) = Chain(request, k + 1)
               /\ k # Len(request.chunks) =>
                     Followed(end) /\ end + 1 = Len(FrameFlat(request)[k + 1])
               /\ k = Len(request.chunks) => end = Len(FrameFlat(request)[k + 1])
<1> DEFINE r == request
           n == Len(r.chunks)
           c == ChunkAt(r, k + 1)
           l == Len(c)
           w == Frame(r, k + 1)
           m == IF k + 1 <= n THEN 1 ELSE 0
           U == SentUnit(r)
           f == FrameFlat(r)
           line == BodyLine(pos)
           h == HeadOf(r, k + 1)
<1>0. n \in Nat /\ k \in Nat /\ k + 1 \in 1 .. n + 1 /\ k + 1 \in 0 .. n + 1 /\ k + 1 # 0
  BY RequestParts
<1>1. c \in Seq(Byte) /\ l \in Nat
  BY <1>0, ChunkParts
<1>2. /\ w \in Seq(U) /\ Len(w) = 2 + l + m /\ w[1] = h /\ w[2] = CRLF
      /\ \A j \in 1 .. l : w[2 + j] = Bytes(c)[j]
      /\ k + 1 <= n => w[3 + l] = CRLF
  BY <1>0, FrameIs
<1>3. /\ body \in Seq(U) /\ pos \in Nat
      /\ Len(f[k + 1]) = pos + Len(w) /\ Len(f[k + 1]) <= Len(body)
      /\ \A j \in 1 .. Len(w) : body[pos + j] = w[j]
  <2>1. /\ pos \in Nat /\ Len(f[k + 1]) = pos + Len(w)
        /\ \A j \in 1 .. Len(w) : Sent(r)[pos + j] = w[j]
    BY SentIs
  <2>2. Len(w) \in Nat
    BY <1>2, LenProperties
  <2>3. \A j \in 1 .. Len(w) : pos + j \in 1 .. pos + Len(w)
    <3>1. ASSUME NEW x \in Nat, NEW y \in Nat PROVE \A j \in 1 .. y : x + j \in 1 .. x + y
      OBVIOUS
    <3> QED
      BY <2>1, <2>2, <3>1
  <2>4. \A j \in 1 .. pos + Len(w) : body[j] = Sent(r)[j]
    BY <2>1
  <2> QED
    BY <2>1, <2>3, <2>4
<1>4. m \in {0, 1} /\ (m = 1 <=> k + 1 <= n) /\ (k + 1 <= n <=> k # n)
  BY <1>0
<1>5. Len(body) \in Nat
  BY <1>3, LenProperties
<1>6. h.kind = "size" /\ h.n = l /\ h.signature = IF r.mode \in Signed THEN Chain(r, k + 1) ELSE <<>>
  BY DEF HeadOf, Size
<1>7. h # CRLF
  <2>1. CRLF.kind = "crlf"
    BY DEF CRLF
  <2> HIDE DEF h
  <2> QED
    BY <1>6, <2>1
<1> HIDE DEF n, c, l, w, m, U, f, h
<1> DEFINE p == pos
           x == Len(w)
           B == Len(body)
<1>20. /\ p \in Nat /\ l \in Nat /\ B \in Nat /\ m \in {0, 1} /\ x = (2 + l) + m /\ p + x <= B
  <2>1. 2 + l + m = (2 + l) + m
    OBVIOUS
  <2> QED
    BY <1>1, <1>2, <1>3, <1>4, <1>5, <2>1
<1> HIDE DEF p, x, B
<1>21. /\ x \in Nat /\ 1 \in 1 .. x /\ 2 \in 1 .. x /\ p + 2 <= B
       /\ \A j \in 1 .. l : 2 + j \in 1 .. x
       /\ m = 1 => 3 + l \in 1 .. x
       /\ p + (2 + l) + m <= B
  BY <1>20
<1>8. /\ Len(w) \in Nat /\ 1 \in 1 .. Len(w) /\ 2 \in 1 .. Len(w) /\ pos + 2 <= Len(body)
      /\ \A j \in 1 .. l : 2 + j \in 1 .. Len(w)
      /\ m = 1 => 3 + l \in 1 .. Len(w)
      /\ pos + (2 + l) + m <= Len(body)
  BY <1>21 DEF p, x, B
<1>9. /\ body[pos + 1] = h /\ body[pos + 2] = CRLF
      /\ \A j \in 1 .. l : body[pos + (2 + j)] = Bytes(c)[j]
      /\ m = 1 => body[pos + (3 + l)] = CRLF
  BY <1>2, <1>3, <1>4, <1>8
<1>10. /\ HasLine(pos) /\ AfterLine(pos) = pos + 2
       /\ line \in Seq(U) /\ Len(line) = 1 /\ line[1] = h
  BY <1>3, <1>7, <1>8, <1>9, LineAt
<1> HIDE DEF line
<1>11. IsHeader(line)
  <2>1. line # <<>>
    <3>1. Len(<<>>) # 1
      OBVIOUS
    <3> QED
      BY <1>10, <3>1
  <2>2. DOMAIN line = {1}
    <3>1. DOMAIN line = 1 .. Len(line)
      BY <1>10, LenProperties
    <3> QED
      BY <1>10, <3>1
  <2> QED
    BY <1>6, <1>10, <2>1, <2>2 DEF IsHeader
<1>12. HeaderSize(line) = l
  <2>1. line[1].n \in Nat
    BY <1>1, <1>6, <1>10
  <2> QED
    BY <1>6, <1>10, <2>1, OneHeader
<1>13. HeaderSignature(line) = IF r.mode \in Signed THEN Chain(r, k + 1) ELSE <<>>
  BY <1>6, <1>10 DEF HeaderSignature
<1>14. SignatureFits(HeaderSignature(line), Bytes(c))
  <2>1. Append(Chain(r, k), Bytes(c)) = Chain(r, k + 1)
    BY ChainNext DEF n, c
  <2> QED
    BY <1>13, <2>1 DEF SignatureFits, ChunkSignature
<1> DEFINE a == pos + 2
           end == a + l
<1>22. ~((p + 2) + l > B) /\ p + 2 \in Nat /\ (p + 2) + l \in Nat /\ (p + 2) + l = p + (2 + l)
  BY <1>20
<1>15. ~(end > Len(body)) /\ a \in Nat /\ end \in Nat /\ end = pos + (2 + l)
  BY <1>22 DEF p, B
<1>16. SubSeq(body, a + 1, end) = Bytes(c)
  <2> DEFINE s == SubSeq(body, a + 1, end)
             d == Bytes(c)
  <2>1. d \in Seq(ByteUnit) /\ Len(d) = l
    BY <1>1, BytesAre DEF ByteUnit, l
  <2>2. ByteUnit \subseteq U
    BY DEF U, SentUnit
  <2>3. d \in Seq(U)
    BY <2>1, <2>2, SeqMonotonic
  <2>4. \A i \in 1 .. Len(body) : body[i] \in U
    BY <1>3, ElementOfSeq
  <2>5. /\ a + 1 \in Int /\ end \in Int /\ \A i \in a + 1 .. end : i \in 1 .. Len(body)
        /\ (end - (a + 1)) + 1 = l /\ (a + 1 <= end <=> l # 0)
        /\ \A j \in 1 .. l : ((a + 1) + j) - 1 = pos + (2 + j)
    <3>1. LET a1 == p + 2
              e1 == a1 + l
          IN  /\ a1 + 1 \in Int /\ e1 \in Int /\ \A i \in a1 + 1 .. e1 : i \in 1 .. B
              /\ (e1 - (a1 + 1)) + 1 = l /\ (a1 + 1 <= e1 <=> l # 0)
              /\ \A j \in 1 .. l : ((a1 + 1) + j) - 1 = p + (2 + j)
      BY <1>20
    <3> QED
      BY <3>1 DEF p, B
  <2> DEFINE b == a + 1
  <2>6. /\ b \in Int /\ end \in Int /\ \A i \in b .. end : body[i] \in U
        /\ (end - b) + 1 = l /\ (b <= end <=> l # 0)
        /\ \A j \in 1 .. l : (b + j) - 1 = pos + (2 + j)
    BY <2>4, <2>5
  <2> HIDE DEF a, end, b, s, d
  <2>7. /\ SubSeq(body, b, end) \in Seq(U)
        /\ Len(SubSeq(body, b, end)) = IF b <= end THEN (end - b) + 1 ELSE 0
        /\ \A j \in 1 .. (end - b) + 1 : SubSeq(body, b, end)[j] = body[(b + j) - 1]
    BY <2>6, SubSeqProperties
  <2>8. s = SubSeq(body, b, end)
    BY DEF s, b
  <2>9. s \in Seq(U) /\ Len(s) = l /\ \A j \in 1 .. l : s[j] = body[(b + j) - 1]
    <3>1. (IF b <= end THEN (end - b) + 1 ELSE 0) = l
      BY <1>1, <2>6
    <3> QED
      BY <2>6, <2>7, <2>8, <3>1
  <2>10. \A j \in 1 .. l : s[j] = d[j]
    BY <1>9, <2>6, <2>9 DEF d
  <2>11. s = d
    BY <2>1, <2>3, <2>9, <2>10, SeqEqual
  <2> QED
    BY <2>11 DEF s, d
<1>17. k # n => Followed(end) /\ end + 1 = Len(f[k + 1])
  <2> SUFFICES ASSUME k # n PROVE Followed(end) /\ end + 1 = Len(f[k + 1])
    OBVIOUS
  <2>1. m = 1
    BY <1>4
  <2>2. end < Len(body) /\ end + 1 = pos + (3 + l) /\ pos + Len(w) = end + 1
    <3>1. LET e1 == (p + 2) + l IN e1 < B /\ e1 + 1 = p + (3 + l) /\ p + x = e1 + 1
      BY <1>20, <2>1
    <3> QED
      BY <3>1 DEF p, x, B
  <2>3. body[end + 1] = CRLF
    BY <1>9, <2>1, <2>2
  <2> HIDE DEF end
  <2> QED
    BY <1>3, <2>2, <2>3 DEF Followed
<1>18. k = n => end = Len(f[k + 1])
  <2> SUFFICES ASSUME k = n PROVE end = Len(f[k + 1])
    OBVIOUS
  <2>1. m = 0
    BY <1>4
  <2>2. pos + Len(w) = end
    <3>1. p + x = (p + 2) + l
      BY <1>20, <2>1
    <3> QED
      BY <3>1 DEF p, x
  <2> QED
    BY <1>3, <2>2
<1>19. AfterLine(pos) = a /\ AfterLine(pos) + HeaderSize(line) = end
  BY <1>10, <1>12
<1> HIDE DEF a, end
<1> QED
  BY <1>10, <1>11, <1>12, <1>13, <1>14, <1>15, <1>16, <1>17, <1>18, <1>19
     DEF n, c, l, f, line

(***************************************************************************)
(* While no fault has happened, the decoder is where the client's framing  *)
(* puts it: at the beginning of frame k + 1 with the payload and the chain *)
(* of the first k chunks, or behind the frames with the whole payload, and *)
(* no trailer but the client's.                                            *)
(***************************************************************************)
ItsTrailer(r) == [checksum |-> TRUE, of |-> Bytes(Whole(r))]
ItsSeal       == [checksum |-> FALSE, of |-> Garbled]

\* Where the client's trailers end, behind the frames.
TrailersEnd(r) == (IF r.checksum THEN 2 ELSE 0) + (IF r.sealed THEN 2 ELSE 0)

ItsTrailers(r) == {<<>>, <<ItsTrailer(r)>>, <<ItsTrailer(r), ItsSeal>>}

AtFrame ==
    \E k \in 0 .. Len(request.chunks) :
        /\ pos = Len(FrameFlat(request)[k])
        /\ payload = Bytes(FlatOf(request)[k])
        /\ request.mode \in Signed => prev = Chain(request, k)

AtTail ==
    LET end == Len(FrameFlat(request)[Len(request.chunks) + 1])
    IN  \/ pos = end /\ trailers = <<>>
        \/ request.checksum /\ pos = end + 2 /\ trailers = <<ItsTrailer(request)>>
        \/ request.sealed /\ pos = end + 4 /\ trailers = <<ItsTrailer(request), ItsSeal>>

Arriving ==
    /\ body = Sent(request)
    /\ pc = "transit" => pos = 0 /\ prev = <<>> /\ payload = <<>> /\ trailers = <<>>
    /\ pc \in {"chunk", "trailer", "payload"} => request.mode \in Streaming
    /\ pc = "chunk" => AtFrame /\ trailers = <<>>
    /\ pc \in {"trailer", "payload"} => payload = Bytes(Whole(request))
    /\ pc = "trailer" => AtTail
    /\ pc = "payload" => trailers \in ItsTrailers(request)
    /\ WellFormedDelivered

ArrivalInv ==
    /\ request \in Request
    /\ faults \in Nat
    /\ faults = 0 => Arriving

LEMMA ArrivalInitOK == PayloadInit => ArrivalInv
  BY DEF PayloadInit, ArrivalInv, Arriving, WellFormedDelivered, Decided

\* Faults are counted; nothing is asked of a body after one.
LEMMA FaultStep ==
    ASSUME ArrivalInv, Disturb \/ ConnectionFails
    PROVE  ArrivalInv'
<1>1. request' = request /\ faults' = faults + 1
  BY DEF Disturb, ConnectionFails
<1> QED
  BY <1>1 DEF ArrivalInv

LEMMA ArrivalReadBody ==
    ASSUME request \in Request, faults = 0, Arriving, ReadBody
    PROVE  Arriving'
<1> DEFINE r == request
<1>1. pc = "transit" /\ UNCHANGED <<request, faults, body, pos, prev, payload, trailers>>
  BY DEF ReadBody, inbound, decoder
<1>2. body = Sent(r) /\ pos = 0 /\ prev = <<>> /\ payload = <<>> /\ trailers = <<>>
  BY <1>1 DEF Arriving
<1>3. Sent(r)' = Sent(r)
  BY <1>1
<1>4. CASE Len(body) > BodyLimit
  <2>1. pc' = "rejected" /\ ~(Len(body) <= BodyLimit)
    <3>1. pc' = "rejected"
      BY <1>4 DEF ReadBody, Reject
    <3>2. Len(body) \in Nat /\ BodyLimit \in Nat
      <4>1. body = Bytes(Whole(r)) \/ r.mode \in Streaming
        BY <1>2 DEF Sent
      <4>2. Whole(r) \in Seq(Byte)
        BY WholeType
      <4>3. \E U : body \in Seq(U)
        <5>1. CASE body = Bytes(Whole(r))
          BY <4>2, <5>1, BytesAre
        <5>2. CASE r.mode \in Streaming
          BY <1>2, <5>2, SentIs
        <5> QED
          BY <4>1, <5>1, <5>2
      <4> QED
        BY <4>3, LenProperties, PayloadAssumption
    <3> QED
      BY <1>4, <3>1, <3>2
  <2>2. WellFormedDelivered'
    BY <1>1, <2>1 DEF WellFormedDelivered
  <2> QED
    BY <1>1, <1>2, <1>3, <2>1, <2>2 DEF Arriving
<1>5. CASE ~(Len(body) > BodyLimit) /\ r.mode \in {"STREAMING-OTHER", "JUNK"}
  <2>1. pc' = "rejected"
    BY <1>5 DEF ReadBody, Reject, Streaming, Signed
  <2>2. WellFormedDelivered'
    BY <1>1, <1>5, <2>1 DEF WellFormedDelivered
  <2> QED
    BY <1>1, <1>2, <1>3, <2>1, <2>2 DEF Arriving
<1>6. CASE ~(Len(body) > BodyLimit) /\ r.mode \in {"UNSIGNED-PAYLOAD", "SHA256"}
  <2>0. r.mode \notin Streaming
    BY <1>6 DEF Streaming, Signed
  <2>1. body = Bytes(Whole(r))
    BY <1>2, <2>0 DEF Sent
  <2>2. Accept(body, r.encoding)
    BY <1>6, <2>0, <2>1 DEF ReadBody
  <2>3. /\ pc' = "accepted" /\ delivered'.code = "Ok" /\ delivered'.payload = body
        /\ delivered'.encoding = r.encoding
    BY <2>2 DEF Accept
  <2>4. WellFormedDelivered'
    BY <1>1, <2>0, <2>1, <2>3 DEF WellFormedDelivered
  <2> QED
    BY <1>1, <1>2, <1>3, <2>3, <2>4 DEF Arriving
<1>7. CASE ~(Len(body) > BodyLimit) /\ r.mode \in Streaming
  <2>1. pc' = "chunk"
    BY <1>7 DEF ReadBody, Streaming, Signed
  <2>2. Len(r.chunks) \in Nat /\ 0 \in 0 .. Len(r.chunks)
    BY RequestParts
  <2>3. Chain(r, 0) = <<>>
    BY DEF Chain
  <2>4. Bytes(FlatOf(r)[0]) = <<>>
    <3>1. FlatOf(r)[0] = <<>>
      BY FlatOfIs DEF IsFlat
    <3>2. Bytes(<<>>) = <<>>
      BY DEF Bytes
    <3> QED
      BY <3>1, <3>2
  <2>5. Len(FrameFlat(r)[0]) = 0
    <3>1. FrameFlat(r)[0] = <<>>
      BY <1>7, SentIs
    <3> QED
      BY <3>1
  <2>6. AtFrame'
    <3>1. /\ pos' = Len(FrameFlat(r)[0]) /\ payload' = Bytes(FlatOf(r)[0])
          /\ r.mode \in Signed => prev' = Chain(r, 0)
      BY <1>1, <1>2, <2>3, <2>4, <2>5
    <3> QED
      BY <1>1, <2>2, <3>1 DEF AtFrame
  <2>7. WellFormedDelivered'
    BY <2>1 DEF WellFormedDelivered, Decided
  <2> QED
    BY <1>1, <1>2, <1>3, <1>7, <2>1, <2>6, <2>7 DEF Arriving
<1>8. r.mode \in Mode
  BY RequestParts DEF RequestType
<1> QED
  BY <1>4, <1>5, <1>6, <1>7, <1>8 DEF Mode

\* A frame that is intact takes the decoder to the next one.
LEMMA FrameStep ==
    ASSUME request \in Request, request.mode \in Streaming, body \in Seq(SentUnit(request)),
           NEW k \in 0 .. Len(request.chunks), k # Len(request.chunks), DecodeChunk,
           Len(FrameFlat(request)[k + 1]) <= Len(body),
           \A j \in 1 .. Len(FrameFlat(request)[k + 1]) : body[j] = Sent(request)[j],
           pos = Len(FrameFlat(request)[k]), payload = Bytes(FlatOf(request)[k]),
           request.mode \in Signed => prev = Chain(request, k)
    PROVE  AtFrame' /\ UNCHANGED <<pc, trailers, delivered>>
<1> DEFINE r == request
           n == Len(r.chunks)
           c == ChunkAt(r, k + 1)
           line == BodyLine(pos)
           l == HeaderSize(line)
           sig == HeaderSignature(line)
           end == AfterLine(pos) + l
           data == SubSeq(body, AfterLine(pos) + 1, end)
<1>1. pc = "chunk" /\ UNCHANGED <<request, faults, body>>
  BY DEF DecodeChunk, inbound
<1>2. /\ HasLine(pos) /\ IsHeader(line) /\ l = Len(c) /\ ~(end > Len(body))
      /\ data = Bytes(c) /\ SignatureFits(sig, Bytes(c))
      /\ r.mode \in Signed => sig = Chain(r, k + 1)
      /\ Followed(end) /\ end + 1 = Len(FrameFlat(r)[k + 1])
  BY FrameRead
<1>3. SignatureFits(sig, data)
  BY <1>2
<1>4. n \in Nat /\ k + 1 \in 0 .. n + 1 /\ k + 1 # 0 /\ k + 1 # n + 1
  BY RequestParts
<1>5. l # 0
  BY <1>2, <1>4, ChunkParts
<1>6. /\ payload' = payload \o data /\ pos' = end + 1 /\ prev' = sig
      /\ UNCHANGED <<pc, trailers, delivered>>
  BY <1>2, <1>3, <1>5 DEF DecodeChunk
<1>7. k + 1 \in 0 .. n /\ k + 1 \in 1 .. n /\ k \in 0 .. n
  BY <1>4
<1>8. pos' = Len(FrameFlat(r)[k + 1]) /\ (r.mode \in Signed => prev' = Chain(r, k + 1))
  BY <1>2, <1>6
<1>9. payload' = Bytes(FlatOf(r)[k + 1])
  <2> DEFINE f == FlatOf(r)
  <2>1. c = r.chunks[k + 1] /\ c \in Seq(Byte)
    BY <1>4, ChunkParts
  <2>2. f[k + 1] = f[k] \o r.chunks[k + 1] /\ f[k] \in Seq(Byte)
    <3>1. IsFlat(f, r.chunks, n, Byte)
      BY FlatOfIs
    <3>2. (k + 1) - 1 = k
      OBVIOUS
    <3> HIDE DEF f, n
    <3> QED
      BY <1>7, <3>1, <3>2 DEF IsFlat
  <2>3. payload' = Bytes(f[k]) \o Bytes(c)
    BY <1>2, <1>6
  <2>4. Bytes(f[k] \o r.chunks[k + 1]) = Bytes(f[k]) \o Bytes(r.chunks[k + 1])
    BY <2>1, <2>2, BytesConcat, ZenonT(40)
  <2> HIDE DEF f, c
  <2>5. payload' = Bytes(f[k + 1])
    BY <2>1, <2>2, <2>3, <2>4
  <2> QED
    BY <2>5 DEF f
<1> HIDE DEF end, l, line, data, sig
<1>10. AtFrame'
  BY <1>1, <1>7, <1>8, <1>9 DEF AtFrame
<1> QED
  BY <1>6, <1>10

LEMMA ArrivalDecodeChunk ==
    ASSUME request \in Request, faults = 0, Arriving, DecodeChunk
    PROVE  Arriving'
<1> DEFINE r == request
           n == Len(r.chunks)
<1>1. pc = "chunk" /\ UNCHANGED <<request, faults, body>>
  BY DEF DecodeChunk, inbound
<1>2. body = Sent(r) /\ r.mode \in Streaming /\ trailers = <<>> /\ AtFrame
  BY <1>1 DEF Arriving
<1>3. PICK k \in 0 .. n : /\ pos = Len(FrameFlat(r)[k])
                          /\ payload = Bytes(FlatOf(r)[k])
                          /\ r.mode \in Signed => prev = Chain(r, k)
  BY <1>2 DEF AtFrame
<1> DEFINE c == ChunkAt(r, k + 1)
           line == BodyLine(pos)
           l == HeaderSize(line)
           sig == HeaderSignature(line)
           end == AfterLine(pos) + l
           data == SubSeq(body, AfterLine(pos) + 1, end)
<1>4. /\ HasLine(pos) /\ IsHeader(line) /\ l = Len(c) /\ ~(end > Len(body))
      /\ data = Bytes(c) /\ SignatureFits(sig, Bytes(c))
      /\ r.mode \in Signed => sig = Chain(r, k + 1)
      /\ k # n => Followed(end) /\ end + 1 = Len(FrameFlat(r)[k + 1])
      /\ k = n => end = Len(FrameFlat(r)[k + 1])
  <2>1. /\ body \in Seq(SentUnit(r)) /\ Len(FrameFlat(r)[k + 1]) \in Nat
        /\ Len(FrameFlat(r)[k + 1]) <= Len(body)
    <3>1. /\ body \in Seq(SentUnit(r)) /\ Len(FrameFlat(r)[k]) \in Nat
          /\ Len(FrameFlat(r)[k + 1]) = Len(FrameFlat(r)[k]) + Len(Frame(r, k + 1))
          /\ Len(FrameFlat(r)[k + 1]) <= Len(body)
      BY <1>2, SentIs
    <3>2. k + 1 \in 1 .. n + 1
      BY RequestParts
    <3>3. Len(Frame(r, k + 1)) \in Nat
      <4>1. Frame(r, k + 1) \in Seq(SentUnit(r))
        BY <3>2, FrameIs
      <4> QED
        BY <4>1, LenProperties
    <3>4. ASSUME NEW x \in Nat, NEW y \in Nat PROVE x + y \in Nat
      OBVIOUS
    <3>5. Len(FrameFlat(r)[k + 1]) \in Nat
      BY <3>1, <3>3, <3>4
    <3> QED
      BY <3>1, <3>5
  <2> QED
    BY <1>2, <1>3, <2>1, FrameRead
<1>5. SignatureFits(sig, data)
  BY <1>4
<1>6. n \in Nat /\ k + 1 \in 0 .. n + 1 /\ k + 1 # 0 /\ (k + 1 = n + 1 <=> k = n)
  BY RequestParts
<1>7. l = 0 <=> k = n
  BY <1>4, <1>6, ChunkParts
<1>8. Sent(r)' = Sent(r)
  BY <1>1
<1>9. CASE k = n
  <2>1. pc' = "trailer" /\ pos' = end /\ UNCHANGED <<payload, trailers, delivered>>
    <3>1. l = 0
      BY <1>7, <1>9
    <3> QED
      BY <1>4, <1>5, <3>1 DEF DecodeChunk
  <2>2. pos' = Len(FrameFlat(r)[n + 1])
    BY <1>4, <1>9, <2>1
  <2>3. payload' = Bytes(Whole(r))
    BY <1>3, <1>9, <2>1, FlatOfIs
  <2> HIDE DEF end, l, line
  <2>4. AtTail'
    BY <1>1, <1>2, <2>1, <2>2 DEF AtTail
  <2>5. WellFormedDelivered'
    BY <2>1 DEF WellFormedDelivered, Decided
  <2> QED
    BY <1>1, <1>2, <1>8, <2>1, <2>3, <2>4, <2>5 DEF Arriving
<1>10. CASE k # n
  <2>1. body \in Seq(SentUnit(r)) /\ Len(FrameFlat(r)[k + 1]) <= Len(body)
    BY <1>2, SentIs
  <2>2. AtFrame' /\ UNCHANGED <<pc, trailers, delivered>>
    BY <1>2, <1>3, <1>10, <2>1, FrameStep
  <2>3. WellFormedDelivered'
    BY <1>1, <2>2 DEF WellFormedDelivered, Decided
  <2> QED
    BY <1>1, <1>2, <1>8, <2>2, <2>3 DEF Arriving
<1> QED
  BY <1>9, <1>10

\* What follows the frames.
LEMMA TailRead ==
    ASSUME NEW r \in Request, r.mode \in Streaming
    PROVE  LET e == Len(FrameFlat(r)[Len(r.chunks) + 1])
               B == Sent(r)
               at == e + TrailersEnd(r)
           IN  /\ B \in Seq(SentUnit(r)) /\ e \in Nat
               /\ r.checksum => e + 2 <= Len(B) /\ B[e + 1] = Trailer(Bytes(Whole(r))) /\ B[e + 2] = CRLF
               /\ r.sealed => e + 4 <= Len(B) /\ B[e + 3] = Seal /\ B[e + 4] = CRLF
               /\ at = Len(B) \/ (at + 1 = Len(B) /\ B[at + 1] = CRLF)
<1> DEFINE e == Len(FrameFlat(r)[Len(r.chunks) + 1])
           B == Sent(r)
           t == TailOf(r)
           c == IF r.checksum THEN 2 ELSE 0
           s == IF r.sealed THEN 2 ELSE 0
           b == IF r.blank THEN 1 ELSE 0
           T == Trailer(Bytes(Whole(r)))
           n == Len(r.chunks)
           at == e + TrailersEnd(r)
<1>0. n \in Nat /\ n \in 0 .. n
  BY RequestParts
<1>1. /\ B \in Seq(SentUnit(r)) /\ Len(B) = e + Len(t)
      /\ \A j \in 1 .. Len(t) : B[e + j] = t[j]
  BY SentIs
<1>2. e \in Nat
  <2>1. n + 1 \in 0 .. n + 1
    BY <1>0
  <2>2. FrameFlat(r)[n + 1] \in Seq(SentUnit(r))
    BY <2>1, FrameFlatIs DEF IsFlat
  <2> QED
    BY <2>2, LenProperties
<1>3. /\ Len(t) = c + s + b /\ (r.checksum => t[1] = T /\ t[2] = CRLF)
      /\ r.sealed => t[c + 1] = Seal /\ t[c + 2] = CRLF
      /\ r.blank => t[c + s + 1] = CRLF
  BY TailIs
<1> DEFINE y == Len(t)
           z == Len(B)
<1>4. e \in Nat /\ y = c + s + b /\ z = e + y /\ at = e + (c + s) /\ \A j \in 1 .. y : B[e + j] = t[j]
  BY <1>1, <1>2, <1>3 DEF TrailersEnd
<1>5. /\ c \in {0, 2} /\ s \in {0, 2} /\ b \in {0, 1}
      /\ r.checksum => c = 2
      /\ r.sealed => s = 2 /\ c = 2
      /\ b = 1 => r.blank
  BY PayloadAssumption
<1> HIDE DEF e, B, t, c, s, b, T, y, z, n, at
<1>6. ASSUME r.checksum PROVE e + 2 <= z /\ B[e + 1] = T /\ B[e + 2] = CRLF
  <2>1. c = 2
    BY <1>5, <1>6
  <2>2. e + 2 <= z /\ 1 \in 1 .. y /\ 2 \in 1 .. y
    BY <1>4, <1>5, <2>1
  <2> QED
    BY <1>3, <1>4, <1>6, <2>2
<1>7. ASSUME r.sealed PROVE e + 4 <= z /\ B[e + 3] = Seal /\ B[e + 4] = CRLF
  <2>1. s = 2 /\ c = 2
    BY <1>5, <1>7
  <2>2. e + 4 <= z /\ 3 \in 1 .. y /\ 4 \in 1 .. y /\ c + 1 = 3 /\ c + 2 = 4
    BY <1>4, <1>5, <2>1
  <2> QED
    BY <1>3, <1>4, <1>7, <2>2
<1>8. at = z \/ (at + 1 = z /\ B[at + 1] = CRLF)
  <2>1. CASE b = 0
    BY <1>4, <1>5, <2>1
  <2>2. CASE b = 1
    <3>1. c + s + 1 \in 1 .. y /\ at + 1 = e + (c + s + 1) /\ at + 1 = z
      BY <1>4, <1>5, <2>2
    <3>2. t[c + s + 1] = CRLF
      BY <1>3, <1>5, <2>2
    <3> QED
      BY <1>4, <3>1, <3>2
  <2> QED
    BY <1>5, <2>1, <2>2
<1> QED
  BY <1>1, <1>4, <1>6, <1>7, <1>8 DEF e, B, T, z, n, at

\* The last CRLF, or none, ends the trailers.
LEMMA ClosingRead ==
    ASSUME NEW U, body \in Seq(U), pos \in Nat, DecodeTrailer,
           pos = Len(body) \/ (pos + 1 = Len(body) /\ body[pos + 1] = CRLF)
    PROVE  pc' = "payload" /\ trailers' = trailers
<1>1. CASE pos = Len(body)
  <2>1. ~HasLine(pos)
    BY <1>1, NoLineAt
  <2>2. RestIsBlank(pos)
    BY <1>1 DEF RestIsBlank
  <2> QED
    BY <2>1, <2>2 DEF DecodeTrailer
<1>2. CASE pos + 1 = Len(body) /\ body[pos + 1] = CRLF
  <2>1. pos + 1 <= Len(body)
    BY <1>2
  <2>2. HasLine(pos) /\ AfterLine(pos) = pos + 1 /\ BodyLine(pos) = <<>>
    BY <1>2, <2>1, BlankAt
  <2>3. RestIsBlank(AfterLine(pos))
    BY <1>2, <2>2 DEF RestIsBlank
  <2> QED
    BY <2>2, <2>3 DEF DecodeTrailer
<1> QED
  BY <1>1, <1>2

\* A line that is one unit of trailer text is read as the trailer it is.
LEMMA UnitRead ==
    ASSUME NEW U, body \in Seq(U), pos \in Nat, pos + 2 <= Len(body), NEW u,
           u.kind \in {"trailer", "seal"}, body[pos + 1] = u, body[pos + 2] = CRLF,
           request.mode \in Trailing, DecodeTrailer
    PROVE  /\ trailers' = Append(trailers, [checksum |-> u.kind = "trailer",
                                            of |-> IF u.kind = "trailer" THEN u.of ELSE Garbled])
           /\ pos' = pos + 2 /\ pc' = "trailer"
<1> DEFINE line == BodyLine(pos)
<1>1. u # CRLF
  <2>1. CRLF.kind = "crlf"
    BY DEF CRLF
  <2> QED
    BY <2>1
<1>2. /\ HasLine(pos) /\ AfterLine(pos) = pos + 2
      /\ line \in Seq(U) /\ Len(line) = 1 /\ line[1] = u
  BY <1>1, LineAt
<1>3. line # <<>>
  <2>1. Len(<<>>) # 1
    OBVIOUS
  <2> QED
    BY <1>2, <2>1
<1>4. 1 \in DOMAIN line
  <2> HIDE DEF line
  <2>1. DOMAIN line = 1 .. Len(line)
    BY <1>2, LenProperties
  <2> QED
    BY <1>2, <2>1
<1>5. IsTrailer(line)
  BY <1>2, <1>4 DEF IsTrailer
<1>6. TrailerOf(line) = [checksum |-> u.kind = "trailer",
                         of |-> IF u.kind = "trailer" THEN u.of ELSE Garbled]
  <2> HIDE DEF line
  <2> QED
    BY <1>2 DEF TrailerOf
<1>7. pc = "trailer"
  BY DEF DecodeTrailer
<1>8. trailers' = Append(trailers, TrailerOf(line)) /\ pos' = AfterLine(pos) /\ pc' = pc
  BY <1>2, <1>3, <1>5 DEF DecodeTrailer
<1> QED
  BY <1>2, <1>6, <1>7, <1>8

\* The checksum the client announced is the trailer that is read.
LEMMA TrailerRead ==
    ASSUME NEW U, body \in Seq(U), pos \in Nat, pos + 2 <= Len(body), NEW v,
           body[pos + 1] = Trailer(v), body[pos + 2] = CRLF,
           request.mode \in Trailing, DecodeTrailer
    PROVE  /\ trailers' = Append(trailers, [checksum |-> TRUE, of |-> v])
           /\ pos' = pos + 2 /\ pc' = "trailer"
<1> DEFINE u == Trailer(v)
<1>1. u.kind = "trailer" /\ u.of = v
  BY DEF Trailer
<1>2. body[pos + 1] = u
  OBVIOUS
<1> HIDE DEF u
<1>3. /\ trailers' = Append(trailers, [checksum |-> u.kind = "trailer",
                                       of |-> IF u.kind = "trailer" THEN u.of ELSE Garbled])
      /\ pos' = pos + 2 /\ pc' = "trailer"
  BY <1>1, <1>2, UnitRead
<1>4. (u.kind = "trailer") = TRUE /\ (IF u.kind = "trailer" THEN u.of ELSE Garbled) = v
  BY <1>1
<1> QED
  BY <1>3, <1>4

\* The trailer signature is one more trailer.
LEMMA SealRead ==
    ASSUME NEW U, body \in Seq(U), pos \in Nat, pos + 2 <= Len(body),
           body[pos + 1] = Seal, body[pos + 2] = CRLF,
           request.mode \in Trailing, DecodeTrailer
    PROVE  trailers' = Append(trailers, ItsSeal) /\ pos' = pos + 2 /\ pc' = "trailer"
<1> DEFINE u == Seal
<1>1. u.kind = "seal"
  BY DEF Seal
<1>2. body[pos + 1] = u
  OBVIOUS
<1> HIDE DEF u
<1>3. /\ trailers' = Append(trailers, [checksum |-> u.kind = "trailer",
                                       of |-> IF u.kind = "trailer" THEN u.of ELSE Garbled])
      /\ pos' = pos + 2 /\ pc' = "trailer"
  BY <1>1, <1>2, UnitRead
<1>4. (u.kind = "trailer") = FALSE /\ (IF u.kind = "trailer" THEN u.of ELSE Garbled) = Garbled
  BY <1>1
<1> QED
  BY <1>3, <1>4 DEF ItsSeal

LEMMA ArrivalDecodeTrailer ==
    ASSUME request \in Request, faults = 0, Arriving, DecodeTrailer
    PROVE  Arriving'
<1> DEFINE r == request
           e == Len(FrameFlat(r)[Len(r.chunks) + 1])
           U == SentUnit(r)
           t == ItsTrailer(r)
           at == e + TrailersEnd(r)
<1>1. pc = "trailer" /\ UNCHANGED <<request, faults, body, payload>>
  BY DEF DecodeTrailer, inbound
<1>2. body = Sent(r) /\ r.mode \in Streaming /\ payload = Bytes(Whole(r)) /\ AtTail
  BY <1>1 DEF Arriving
<1>3. /\ body \in Seq(U) /\ e \in Nat
      /\ r.checksum => e + 2 <= Len(body) /\ body[e + 1] = Trailer(Bytes(Whole(r))) /\ body[e + 2] = CRLF
      /\ r.sealed => e + 4 <= Len(body) /\ body[e + 3] = Seal /\ body[e + 4] = CRLF
      /\ at = Len(body) \/ (at + 1 = Len(body) /\ body[at + 1] = CRLF)
  BY <1>2, TailRead
<1>4. \/ pos = e /\ trailers = <<>>
      \/ r.checksum /\ pos = e + 2 /\ trailers = <<t>>
      \/ r.sealed /\ pos = e + 4 /\ trailers = <<t, ItsSeal>>
  BY <1>2 DEF AtTail
<1>5. Sent(r)' = Sent(r) /\ payload' = Bytes(Whole(r))
  BY <1>1, <1>2
<1>6. r.checksum => r.mode \in Trailing
  BY PayloadAssumption
<1>7. /\ r.sealed => r.checksum
      /\ ~r.checksum => at = e
      /\ r.checksum /\ ~r.sealed => at = e + 2
      /\ r.sealed => at = e + 4
  <2>1. r.sealed => r.checksum
    BY PayloadAssumption
  <2>2. /\ ~r.checksum /\ ~r.sealed => TrailersEnd(r) = 0
        /\ r.checksum /\ ~r.sealed => TrailersEnd(r) = 2
        /\ r.checksum /\ r.sealed => TrailersEnd(r) = 4
    BY DEF TrailersEnd
  <2> QED
    BY <1>3, <2>1, <2>2
<1> HIDE DEF e, U, at
<1>8. ASSUME pc' = "trailer", AtTail' PROVE Arriving'
  <2>1. WellFormedDelivered'
    BY <1>8 DEF WellFormedDelivered, Decided
  <2> QED
    BY <1>1, <1>2, <1>5, <1>8, <2>1 DEF Arriving
<1>9. CASE pos = e /\ trailers = <<>> /\ r.checksum
  <2>1. /\ trailers' = Append(<<>>, t) /\ pos' = e + 2 /\ pc' = "trailer"
    BY <1>3, <1>6, <1>9, TrailerRead DEF ItsTrailer
  <2>2. trailers' = <<t>>
    BY <2>1
  <2> HIDE DEF t
  <2>3. AtTail'
    BY <1>1, <1>9, <2>1, <2>2 DEF AtTail, e, t
  <2> QED
    BY <1>8, <2>1, <2>3
<1>10. CASE pos = e + 2 /\ trailers = <<t>> /\ r.sealed
  <2>1. pos + 2 = e + 4 /\ pos + 1 = e + 3 /\ pos \in Nat
    BY <1>3, <1>10
  <2>2. /\ trailers' = Append(<<t>>, ItsSeal) /\ pos' = e + 4 /\ pc' = "trailer"
    BY <1>3, <1>6, <1>7, <1>10, <2>1, SealRead
  <2> HIDE DEF t
  <2> DEFINE u == ItsSeal
  <2>3. trailers' = Append(<<t>>, u)
    BY <2>2
  <2> HIDE DEF u
  <2>4. <<t>> \in Seq({t, u}) /\ Len(<<t>>) = 1 /\ <<t>>[1] = t
    OBVIOUS
  <2>5. Append(<<t>>, u) = <<t, u>>
    <3> DEFINE x == Append(<<t>>, u)
               y == <<t, u>>
    <3>1. x \in Seq({t, u}) /\ Len(x) = 2 /\ x[1] = t /\ x[2] = u
      BY <2>4, AppendProperties
    <3>2. y \in Seq({t, u}) /\ Len(y) = 2 /\ y[1] = t /\ y[2] = u
      OBVIOUS
    <3> HIDE DEF x, y
    <3>3. \A i \in 1 .. 2 : x[i] = y[i]
      BY <3>1, <3>2
    <3>4. x = y
      BY <3>1, <3>2, <3>3, SeqEqual
    <3> QED
      BY <3>4 DEF x, y
  <2>6. trailers' = <<t, ItsSeal>>
    BY <2>3, <2>5 DEF u
  <2>7. AtTail'
    BY <1>1, <1>10, <2>2, <2>6 DEF AtTail, e, t
  <2> QED
    BY <1>8, <2>2, <2>7
<1>11. CASE pos = at /\ pos \in Nat /\ trailers \in ItsTrailers(r)
  <2>1. pc' = "payload" /\ trailers' = trailers
    BY <1>3, <1>11, ClosingRead
  <2>2. trailers' \in ItsTrailers(request')
    BY <1>1, <1>11, <2>1
  <2>3. WellFormedDelivered'
    BY <2>1 DEF WellFormedDelivered, Decided
  <2> QED
    BY <1>1, <1>2, <1>5, <2>1, <2>2, <2>3 DEF Arriving
<1>12. \/ pos = e /\ trailers = <<>> /\ r.checksum
       \/ pos = e + 2 /\ trailers = <<t>> /\ r.sealed
       \/ pos = at /\ pos \in Nat /\ trailers \in ItsTrailers(r)
  <2> HIDE DEF t
  <2>1. <<>> \in ItsTrailers(r) /\ <<t>> \in ItsTrailers(r) /\ <<t, ItsSeal>> \in ItsTrailers(r)
    BY DEF ItsTrailers, t
  <2>2. e \in Nat /\ e + 2 \in Nat /\ e + 4 \in Nat
    BY <1>3
  <2> DEFINE three == <<t, ItsSeal>>
  <2>3. r.sealed /\ pos = e + 4 /\ trailers = three => pos = at /\ pos \in Nat /\ trailers \in ItsTrailers(r)
    BY <1>7, <2>1, <2>2, Zenon
  <2>4. r.checksum /\ pos = e + 2 /\ trailers = <<t>> /\ ~r.sealed
          => pos = at /\ pos \in Nat /\ trailers \in ItsTrailers(r)
    BY <1>7, <2>1, <2>2, Zenon
  <2>5. pos = e /\ trailers = <<>> /\ ~r.checksum => pos = at /\ pos \in Nat /\ trailers \in ItsTrailers(r)
    BY <1>7, <2>1, <2>2, Zenon
  <2> QED
    BY <1>4, <2>3, <2>4, <2>5, Zenon
<1> QED
  BY <1>9, <1>10, <1>11, <1>12

\* The client's checksum is the one that is compared.
LEMMA ChecksumIs ==
    ASSUME NEW r, trailers \in ItsTrailers(r) \ {<<>>}
    PROVE  Checksums # {} /\ Checksum = Bytes(Whole(r))
<1>1. /\ ItsTrailer(r).checksum = TRUE /\ ItsTrailer(r).of = Bytes(Whole(r))
      /\ ItsSeal.checksum = FALSE
  BY DEF ItsTrailer, ItsSeal
<1>2. \/ trailers = <<ItsTrailer(r)>>
      \/ trailers = <<ItsTrailer(r), ItsSeal>>
  BY DEF ItsTrailers
<1>3. /\ trailers[1] = ItsTrailer(r) /\ 1 \in DOMAIN trailers
      /\ \A i \in DOMAIN trailers : i = 1 \/ trailers[i] = ItsSeal
  <2>1. CASE trailers = <<ItsTrailer(r)>>
    BY <2>1
  <2>2. CASE trailers = <<ItsTrailer(r), ItsSeal>>
    <3> DEFINE t == ItsTrailer(r)
               u == ItsSeal
    <3>1. trailers = <<t, u>>
      BY <2>2
    <3> HIDE DEF t, u
    <3>2. DOMAIN trailers = {1, 2} /\ trailers[1] = t /\ trailers[2] = u
      BY <3>1
    <3> QED
      BY <3>2 DEF t, u
  <2> QED
    BY <1>2, <2>1, <2>2
<1>4. Checksums = {1}
  BY <1>1, <1>3 DEF Checksums
<1>5. Min({1}) = 1
  BY DEF Min
<1> QED
  BY <1>1, <1>3, <1>4, <1>5 DEF Checksum

LEMMA ArrivalVerifyPayload ==
    ASSUME request \in Request, faults = 0, Arriving, VerifyPayload
    PROVE  Arriving'
<1> DEFINE r == request
           w == Whole(r)
<1>1. pc = "payload" /\ UNCHANGED <<request, faults, body, pos, prev, payload, trailers>>
  BY DEF VerifyPayload, inbound, decoder
<1>2. /\ body = Sent(r) /\ r.mode \in Streaming /\ payload = Bytes(w)
      /\ trailers \in ItsTrailers(r)
  BY <1>1 DEF Arriving
<1>3. w \in Seq(Byte) /\ Bytes(w) \in Seq(ByteUnit) /\ Len(Bytes(w)) = Len(w)
  BY WholeType, BytesAre DEF ByteUnit
<1>4. Bytes(w) # Garbled
  <2> DEFINE d == Bytes(w)
  <2> HIDE DEF w, d
  <2>1. d \in Seq(ByteUnit)
    BY <1>3 DEF d
  <2> SUFFICES ASSUME d = Garbled PROVE FALSE
    BY DEF d
  <2>2. Len(d) = 1 /\ d[1].kind = "garbled"
    BY DEF Garbled
  <2>3. 1 \in 1 .. Len(d)
    BY <2>2
  <2>4. d[1] \in ByteUnit
    BY <2>1, <2>3, ElementOfSeq
  <2> QED
    BY <2>2, <2>4 DEF ByteUnit
<1>5. verify_trailer_checksum = "Ok"
  <2>1. CASE trailers = <<>>
    <3>1. Checksums = {}
      BY <2>1 DEF Checksums
    <3> QED
      BY <3>1 DEF verify_trailer_checksum
  <2>2. CASE trailers # <<>>
    <3>1. Checksums # {} /\ Checksum = Bytes(w)
      BY <1>2, <2>2, ChecksumIs
    <3> QED
      BY <1>2, <1>4, <3>1 DEF verify_trailer_checksum
  <2> QED
    BY <1>2, <2>1, <2>2
<1>6. Accept(payload, Stripped(r.encoding))
  <2>1. Len(payload) = Len(w)
    BY <1>2, <1>3
  <2> QED
    BY <1>5, <2>1 DEF VerifyPayload
<1>7. /\ pc' = "accepted" /\ delivered'.code = "Ok" /\ delivered'.payload = payload
      /\ delivered'.encoding = Stripped(r.encoding)
  BY <1>6 DEF Accept
<1>8. r.encoding \in Seq(Coding)
  BY RequestParts DEF RequestType
<1>9. WellFormedDelivered'
  BY <1>1, <1>2, <1>7, <1>8, StrippedIs DEF WellFormedDelivered
<1>10. Sent(r)' = Sent(r)
  BY <1>1
<1> QED
  BY <1>1, <1>2, <1>7, <1>9, <1>10 DEF Arriving

(***************************************************************************)
(* A body that arrives as the client framed it is accepted with the        *)
(* payload it was made of, however the client split it, with or without a  *)
(* trailing checksum and a last CRLF, and under the encodings beneath      *)
(* aws-chunked (verify_payload, decode_aws_chunked,                        *)
(* strip_aws_chunked_encoding).                                            *)
(***************************************************************************)
THEOREM WellFormedIsDelivered == Spec => []WellFormedDelivered
<1>1. Init => ArrivalInv
  BY ArrivalInitOK DEF Init, PayloadStill
<1>2. ArrivalInv /\ [Next]_vars => ArrivalInv'
  <2> SUFFICES ASSUME ArrivalInv, [Next]_vars PROVE ArrivalInv'
    OBVIOUS
  <2>1. CASE UNCHANGED payloadVars
    <3>1. UNCHANGED <<request, faults, body, pc, pos, prev, payload, trailers, delivered>>
      BY <2>1 DEF payloadVars, inbound, decoder
    <3>2. Arriving' <=> Arriving
      BY <3>1 DEF Arriving, AtFrame, AtTail, WellFormedDelivered, Decided
    <3> QED
      BY <3>1, <3>2 DEF ArrivalInv
  <2>2. CASE Decode
    <3>1. request' = request /\ faults' = faults
      BY <2>2 DEF Decode, ReadBody, DecodeChunk, DecodeTrailer, VerifyPayload, inbound
    <3>2. faults = 0 => Arriving'
      BY <2>2, ArrivalReadBody, ArrivalDecodeChunk, ArrivalDecodeTrailer, ArrivalVerifyPayload
         DEF ArrivalInv, Decode
    <3> QED
      BY <3>1, <3>2 DEF ArrivalInv
  <2>3. UNCHANGED payloadVars \/ PayloadNext
    BY DEF Next, vars
  <2> QED
    BY <2>1, <2>2, <2>3, FaultStep DEF PayloadNext
<1>3. ArrivalInv => WellFormedDelivered
  BY DEF ArrivalInv, Arriving, WellFormedDelivered
<1> QED
  BY <1>1, <1>2, <1>3, PTL DEF Spec

-----------------------------------------------------------------------------
(***************************************************************************)
(* Unsigned bodies with a checksum, after at most one fault.  The header   *)
(* of the empty chunk is the only unit that a line of size zero can be     *)
(* made of.  A fault at or behind it leaves the frames intact; one before  *)
(* it leaves what follows it, the checksum included, intact; or it is lost *)
(* and the decoder never gets past the chunks.                             *)
(***************************************************************************)
Zero(u) == u.kind = "size" /\ u.n = 0

LastHead(r) == HeadOf(r, Len(r.chunks) + 1)

TailUnit(r) == {LastHead(r), CRLF, Trailer(Bytes(Whole(r)))}

\* Where the frames of the chunks end.
Begin(r) == Len(FrameFlat(r)[Len(r.chunks)])

\* The units by kind; only the last header is a zero.
LEMMA UnitKinds ==
    ASSUME NEW r \in Request
    PROVE  /\ \A i \in 1 .. Len(r.chunks) + 1 :
                 /\ HeadOf(r, i).kind = "size" /\ HeadOf(r, i).n \in Nat
                 /\ Zero(HeadOf(r, i)) <=> i = Len(r.chunks) + 1
           /\ LastHead(r).kind = "size" /\ LastHead(r).n = 0
           /\ CRLF.kind = "crlf" /\ Seal.kind = "seal" /\ Trailer(Bytes(Whole(r))).kind = "trailer"
           /\ \A u \in ByteUnit : u.kind = "byte"
           /\ \A u \in SentUnit(r) : u.kind = "size" => u.n \in Nat
           /\ TailUnit(r) \subseteq SentUnit(r)
<1>0. Len(r.chunks) \in Nat
  BY RequestParts
<1>1. ASSUME NEW i \in 1 .. Len(r.chunks) + 1
      PROVE  /\ HeadOf(r, i).kind = "size" /\ HeadOf(r, i).n = Len(ChunkAt(r, i))
             /\ HeadOf(r, i).n \in Nat
             /\ HeadOf(r, i).n = 0 <=> i = Len(r.chunks) + 1
  <2>1. HeadOf(r, i).kind = "size" /\ HeadOf(r, i).n = Len(ChunkAt(r, i))
    BY DEF HeadOf, Size
  <2>2. i \in 0 .. Len(r.chunks) + 1 /\ i # 0
    BY <1>0
  <2> QED
    BY <2>1, <2>2, ChunkParts
<1>2. Len(r.chunks) + 1 \in 1 .. Len(r.chunks) + 1
  BY <1>0
<1>3. CRLF.kind = "crlf" /\ Seal.kind = "seal" /\ Trailer(Bytes(Whole(r))).kind = "trailer"
  BY DEF CRLF, Seal, Trailer
<1>4. \A u \in ByteUnit : u.kind = "byte"
  BY DEF ByteUnit
<1>5. LastHead(r).kind = "size" /\ LastHead(r).n = 0
  BY <1>1, <1>2 DEF LastHead
<1>6. \A u \in SentUnit(r) : u.kind = "size" => u.n \in Nat
  BY <1>1, <1>3, <1>4 DEF SentUnit
<1>7. TailUnit(r) \subseteq SentUnit(r)
  BY <1>2 DEF TailUnit, SentUnit, LastHead
<1> QED
  BY <1>1, <1>3, <1>4, <1>5, <1>6, <1>7 DEF Zero

\* No frame but the last has a zero.
LEMMA FrameNonzero ==
    ASSUME NEW r \in Request, NEW i \in 1 .. Len(r.chunks), NEW j \in 1 .. Len(Frame(r, i))
    PROVE  ~Zero(Frame(r, i)[j])
<1> DEFINE c == ChunkAt(r, i)
           l == Len(c)
           w == Frame(r, i)
           n == Len(r.chunks)
<1>0. n \in Nat /\ i \in 1 .. n + 1 /\ i \in 0 .. n + 1 /\ i # 0 /\ i # n + 1 /\ i <= n
  BY RequestParts
<1>1. c \in Seq(Byte) /\ l \in Nat
  BY <1>0, ChunkParts
<1>2. /\ Len(w) = 2 + l + 1 /\ w[1] = HeadOf(r, i) /\ w[2] = CRLF
      /\ \A x \in 1 .. l : w[2 + x] = Bytes(c)[x]
      /\ w[3 + l] = CRLF
  BY <1>0, FrameIs
<1>3. \A x \in 1 .. l : Bytes(c)[x].kind = "byte"
  <2>1. Bytes(c) \in Seq(ByteUnit) /\ Len(Bytes(c)) = l
    BY <1>1, BytesAre DEF ByteUnit
  <2>2. \A x \in 1 .. l : Bytes(c)[x] \in ByteUnit
    BY <2>1, ElementOfSeq
  <2> QED
    BY <2>2, UnitKinds
<1>4. ~Zero(HeadOf(r, i)) /\ CRLF.kind = "crlf"
  BY <1>0, UnitKinds
<1> HIDE DEF c, l, w, n
<1>5. j = 1 \/ j = 2 \/ j = 3 + l \/ (j - 2 \in 1 .. l /\ j = 2 + (j - 2))
  <2>1. j \in 1 .. 3 + l
    BY <1>1, <1>2 DEF w
  <2> QED
    BY <1>1, <2>1
<1>6. w[j] = HeadOf(r, i) \/ w[j].kind \in {"crlf", "byte"}
  BY <1>2, <1>3, <1>4, <1>5
<1> QED
  BY <1>4, <1>6 DEF Zero, w

\* What a client sends: no zero before the header of the empty chunk, and then the end.
LEMMA SentLayout ==
    ASSUME NEW r \in Request, r.mode \in Streaming, r.checksum, ~r.sealed
    PROVE  LET e == Begin(r)
               B == Sent(r)
           IN  /\ B \in Seq(SentUnit(r)) /\ e \in Nat
               /\ \A j \in 1 .. e : ~Zero(B[j])
               /\ B[e + 1] = LastHead(r) /\ B[e + 2] = CRLF
               /\ B[e + 3] = Trailer(Bytes(Whole(r))) /\ B[e + 4] = CRLF
               /\ Len(B) = e + 4 \/ (Len(B) = e + 5 /\ B[e + 5] = CRLF)
               /\ e # 0 => B[e] = CRLF
<1> DEFINE n == Len(r.chunks)
           f == FrameFlat(r)
           B == Sent(r)
           e == Begin(r)
           w == Frame(r, n + 1)
           g == Len(f[n + 1])
           T == Trailer(Bytes(Whole(r)))
<1>0. n \in Nat /\ n \in 0 .. n /\ n + 1 \in 1 .. n + 1 /\ ~(n + 1 <= n) /\ n + 1 \in 0 .. n + 1
      /\ n + 1 # 0
  BY RequestParts
<1>1. /\ B \in Seq(SentUnit(r)) /\ f[0] = <<>>
      /\ \A k \in 0 .. n : /\ Len(f[k]) \in Nat
                           /\ Len(f[k + 1]) = Len(f[k]) + Len(Frame(r, k + 1))
                           /\ \A j \in 1 .. Len(Frame(r, k + 1)) :
                                 B[Len(f[k]) + j] = Frame(r, k + 1)[j]
  BY SentIs
<1>2. Len(w) = 2 /\ w[1] = LastHead(r) /\ w[2] = CRLF
  <2>1. Len(ChunkAt(r, n + 1)) = 0
    BY <1>0, ChunkParts
  <2>2. /\ Len(w) = 2 + Len(ChunkAt(r, n + 1)) + (IF n + 1 <= n THEN 1 ELSE 0)
        /\ w[1] = HeadOf(r, n + 1) /\ w[2] = CRLF
    BY <1>0, FrameIs
  <2>3. LastHead(r) = HeadOf(r, n + 1)
    BY DEF LastHead
  <2> HIDE DEF w
  <2> QED
    BY <1>0, <2>1, <2>2, <2>3
<1>3. e \in Nat /\ g = e + 2 /\ B[e + 1] = LastHead(r) /\ B[e + 2] = CRLF
  <2>1. /\ e \in Nat /\ g = e + Len(w) /\ \A j \in 1 .. Len(w) : B[e + j] = w[j]
    BY <1>0, <1>1 DEF Begin
  <2>2. 1 \in 1 .. Len(w) /\ 2 \in 1 .. Len(w)
    BY <1>2
  <2> QED
    BY <1>2, <2>1, <2>2
<1>4. /\ g + 2 <= Len(B) /\ B[g + 1] = T /\ B[g + 2] = CRLF
      /\ g + 2 = Len(B) \/ (g + 2 + 1 = Len(B) /\ B[g + 2 + 1] = CRLF)
  <2>1. TrailersEnd(r) = 2
    BY DEF TrailersEnd
  <2> QED
    BY <2>1, TailRead
<1>5. \A j \in 1 .. e : ~Zero(B[j])
  <2> DEFINE P(k) == \A j \in 1 .. Len(f[k]) : ~Zero(B[j])
             Q == {k \in 0 .. n : ~P(k)}
  <2>1. Q = {}
    <3>0. SUFFICES ASSUME Q # {} PROVE FALSE
      OBVIOUS
    <3>1. PICK k \in Q : \A m \in Q : k <= m
      <4>1. Q \subseteq Nat
        OBVIOUS
      <4> HIDE DEF Q
      <4> QED
        BY <3>0, <4>1, LeastNatural
    <3>2. k \in 0 .. n /\ ~P(k)
      BY <3>1
    <3>3. k # 0
      <4>1. Len(f[0]) = 0
        BY <1>1
      <4> QED
        BY <3>2, <4>1
    <3>4. k - 1 \in 0 .. n /\ k \in 1 .. n /\ (k - 1) + 1 = k /\ ~(k <= k - 1)
      BY <1>0, <3>2, <3>3
    <3>5. P(k - 1)
      BY <3>1, <3>4
    <3> DEFINE a == Len(f[k - 1])
               v == Frame(r, k)
               y == Len(v)
               x == Len(f[k])
    <3>6. /\ a \in Nat /\ x = a + y /\ \A j \in 1 .. y : B[a + j] = v[j]
      BY <1>1, <3>4
    <3>7. \A j \in 1 .. y : ~Zero(v[j])
      BY <3>4, FrameNonzero
    <3>8. y \in Nat
      <4>1. v \in Seq(SentUnit(r))
        BY <1>0, <3>4, FrameIs
      <4> QED
        BY <4>1, LenProperties
    <3>9. (\A j \in 1 .. a : ~Zero(B[j])) /\ ~(\A j \in 1 .. x : ~Zero(B[j]))
      BY <3>2, <3>5
    <3> HIDE DEF a, v, y, x, B, Q, P
    <3>10. ASSUME NEW j \in 1 .. x PROVE ~Zero(B[j])
      <4>1. j \in 1 .. a \/ (j - a \in 1 .. y /\ a + (j - a) = j)
        BY <3>6, <3>8
      <4>2. CASE j \in 1 .. a
        BY <3>9, <4>2
      <4>3. CASE j - a \in 1 .. y /\ a + (j - a) = j
        <5>1. B[a + (j - a)] = v[j - a] /\ ~Zero(v[j - a])
          BY <3>6, <3>7, <4>3
        <5> QED
          BY <4>3, <5>1
      <4> QED
        BY <4>1, <4>2, <4>3
    <3> QED
      BY <3>9, <3>10
  <2>2. P(n)
    BY <1>0, <2>1
  <2> QED
    BY <2>2 DEF Begin
<1>6. ASSUME e # 0 PROVE B[e] = CRLF
  <2> DEFINE v == Frame(r, n)
             l == Len(ChunkAt(r, n))
             a == Len(f[n - 1])
  <2>1. n # 0
    <3>1. Len(f[0]) = 0
      BY <1>1
    <3> QED
      BY <1>6, <3>1 DEF Begin
  <2>2. /\ n \in 1 .. n + 1 /\ n <= n /\ n - 1 \in 0 .. n /\ (n - 1) + 1 = n
        /\ n \in 0 .. n + 1
    BY <1>0, <2>1
  <2>3. l \in Nat
    BY <2>1, <2>2, ChunkParts
  <2>4. Len(v) = 2 + l + 1 /\ v[3 + l] = CRLF
    BY <2>2, FrameIs
  <2>5. a \in Nat /\ e = a + Len(v) /\ \A j \in 1 .. Len(v) : B[a + j] = v[j]
    <3>1. /\ Len(f[n - 1]) \in Nat /\ Len(f[(n - 1) + 1]) = Len(f[n - 1]) + Len(Frame(r, (n - 1) + 1))
          /\ \A j \in 1 .. Len(Frame(r, (n - 1) + 1)) : B[Len(f[n - 1]) + j] = Frame(r, (n - 1) + 1)[j]
      BY <1>1, <2>2
    <3>2. e = Len(f[n])
      BY DEF Begin
    <3> QED
      BY <2>2, <3>1, <3>2
  <2> HIDE DEF a, l, v, e, B
  <2>6. 3 + l \in 1 .. Len(v) /\ a + (3 + l) = e
    BY <2>3, <2>4, <2>5
  <2> QED
    BY <2>4, <2>5, <2>6
<1> HIDE DEF e, B, g, T, w, f, n
<1>7. g + 1 = e + 3 /\ g + 2 = e + 4 /\ g + 2 + 1 = e + 5
  BY <1>3
<1> QED
  BY <1>1, <1>3, <1>4, <1>5, <1>7, <1>6 DEF e, B, T

\* The body after a fault, unit by unit.
LEMMA DisturbedIs ==
    ASSUME NEW U, body \in Seq(U), NEW i \in 1 .. Len(body)
    PROVE  /\ Len(Without(i)) = Len(body) - 1
           /\ \A x \in 1 .. Len(body) - 1 : Without(i)[x] = body[IF x < i THEN x ELSE x + 1]
           /\ Len(Twice(i)) = Len(body) + 1
           /\ \A x \in 1 .. Len(body) + 1 : Twice(i)[x] = body[IF x <= i THEN x ELSE x - 1]
           /\ Len(CutAt(i)) = i - 1 /\ \A x \in 1 .. i - 1 : CutAt(i)[x] = body[x]
           /\ i < Len(body) =>
                 /\ Len(Swapped(i)) = Len(body)
                 /\ \A x \in 1 .. Len(body) : Swapped(i)[x] =
                       body[IF x = i THEN i + 1 ELSE IF x = i + 1 THEN i ELSE x]
           /\ \A b : /\ Len(Altered(i, b)) = Len(body)
                     /\ \A x \in 1 .. Len(body) :
                           Altered(i, b)[x] = IF x = i THEN Datum(b) ELSE body[x]
<1> DEFINE n == Len(body)
<1>1. n \in Nat /\ i \in 1 .. n /\ \A k \in 1 .. n : body[k] \in U
  BY LenProperties, ElementOfSeq
<1>2. DOMAIN body = 1 .. n /\ body = [x \in 1 .. n |-> body[x]]
  BY LenProperties
<1> HIDE DEF n
<1>3. ASSUME NEW a \in 1 .. n + 1, NEW b \in 0 .. n, a <= b + 1
      PROVE  /\ SubSeq(body, a, b) \in Seq(U) /\ Len(SubSeq(body, a, b)) = (b - a) + 1
             /\ \A x \in 1 .. (b - a) + 1 : SubSeq(body, a, b)[x] = body[(a + x) - 1]
  <2>1. a \in Int /\ b \in Int /\ \A k \in a .. b : body[k] \in U
    BY <1>1
  <2>2. CASE a <= b
    BY <2>1, <2>2, SubSeqProperties
  <2>3. CASE ~(a <= b)
    <3>1. SubSeq(body, a, b) \in Seq(U) /\ Len(SubSeq(body, a, b)) = 0
      BY <2>1, <2>3, SubSeqProperties
    <3>2. (b - a) + 1 = 0 /\ 1 .. 0 = {}
      BY <1>1, <1>3, <2>3
    <3> QED
      BY <3>1, <3>2
  <2> QED
    BY <2>2, <2>3
<1>4. /\ 1 \in 1 .. n + 1 /\ i - 1 \in 0 .. n /\ 1 <= (i - 1) + 1 /\ i \in 0 .. n /\ 1 <= i + 1
      /\ i + 1 \in 1 .. n + 1 /\ n \in 0 .. n /\ i + 1 <= n + 1 /\ i \in 1 .. n + 1 /\ i <= n + 1
  BY <1>1
<1> DEFINE p == SubSeq(body, 1, i - 1)
           q == SubSeq(body, i + 1, n)
           s == SubSeq(body, 1, i)
           t == SubSeq(body, i, n)
<1>5. p \in Seq(U) /\ Len(p) = i - 1 /\ \A x \in 1 .. i - 1 : p[x] = body[x]
  <2>1. /\ p \in Seq(U) /\ Len(p) = ((i - 1) - 1) + 1
        /\ \A x \in 1 .. ((i - 1) - 1) + 1 : p[x] = body[(1 + x) - 1]
    BY <1>3, <1>4
  <2>2. ((i - 1) - 1) + 1 = i - 1 /\ \A x \in 1 .. i - 1 : (1 + x) - 1 = x
    BY <1>1
  <2> QED
    BY <2>1, <2>2
<1>6. q \in Seq(U) /\ Len(q) = n - i /\ \A x \in 1 .. n - i : q[x] = body[i + x]
  <2>1. /\ q \in Seq(U) /\ Len(q) = (n - (i + 1)) + 1
        /\ \A x \in 1 .. (n - (i + 1)) + 1 : q[x] = body[((i + 1) + x) - 1]
    BY <1>3, <1>4
  <2>2. (n - (i + 1)) + 1 = n - i /\ \A x \in 1 .. n - i : ((i + 1) + x) - 1 = i + x
    BY <1>1
  <2> QED
    BY <2>1, <2>2
<1>7. s \in Seq(U) /\ Len(s) = i /\ \A x \in 1 .. i : s[x] = body[x]
  <2>1. /\ s \in Seq(U) /\ Len(s) = (i - 1) + 1
        /\ \A x \in 1 .. (i - 1) + 1 : s[x] = body[(1 + x) - 1]
    BY <1>3, <1>4
  <2>2. (i - 1) + 1 = i /\ \A x \in 1 .. i : (1 + x) - 1 = x
    BY <1>1
  <2> QED
    BY <2>1, <2>2
<1>8. t \in Seq(U) /\ Len(t) = (n - i) + 1 /\ \A x \in 1 .. (n - i) + 1 : t[x] = body[(i + x) - 1]
  BY <1>3, <1>4
<1>9. Without(i) = p \o q /\ Twice(i) = s \o t /\ CutAt(i) = p
  BY DEF Without, Twice, CutAt, n
<1> HIDE DEF p, q, s, t
<1>10. /\ Len(p \o q) = n - 1
       /\ \A x \in 1 .. n - 1 : (p \o q)[x] = body[IF x < i THEN x ELSE x + 1]
  <2>1. /\ Len(p \o q) = Len(p) + Len(q)
        /\ \A x \in 1 .. Len(p) + Len(q) :
              (p \o q)[x] = IF x <= Len(p) THEN p[x] ELSE q[x - Len(p)]
    BY <1>5, <1>6, ConcatProperties
  <2>2. (i - 1) + (n - i) = n - 1
    BY <1>1
  <2>3. ASSUME NEW x \in 1 .. n - 1 PROVE (p \o q)[x] = body[IF x < i THEN x ELSE x + 1]
    <3>1. (p \o q)[x] = IF x <= i - 1 THEN p[x] ELSE q[x - (i - 1)]
      BY <1>5, <1>6, <2>1, <2>2
    <3>2. CASE x < i
      <4>1. x <= i - 1 /\ x \in 1 .. i - 1
        BY <1>1, <3>2
      <4> QED
        BY <1>5, <3>1, <3>2, <4>1
    <3>3. CASE ~(x < i)
      <4>1. ~(x <= i - 1) /\ x - (i - 1) \in 1 .. n - i /\ i + (x - (i - 1)) = x + 1
        BY <1>1, <3>3
      <4> QED
        BY <1>6, <3>1, <3>3, <4>1
    <3> QED
      BY <3>2, <3>3
  <2> QED
    BY <1>5, <1>6, <2>1, <2>2, <2>3
<1>11. /\ Len(s \o t) = n + 1
       /\ \A x \in 1 .. n + 1 : (s \o t)[x] = body[IF x <= i THEN x ELSE x - 1]
  <2>1. /\ Len(s \o t) = Len(s) + Len(t)
        /\ \A x \in 1 .. Len(s) + Len(t) :
              (s \o t)[x] = IF x <= Len(s) THEN s[x] ELSE t[x - Len(s)]
    BY <1>7, <1>8, ConcatProperties
  <2>2. i + ((n - i) + 1) = n + 1
    BY <1>1
  <2>3. ASSUME NEW x \in 1 .. n + 1 PROVE (s \o t)[x] = body[IF x <= i THEN x ELSE x - 1]
    <3>1. (s \o t)[x] = IF x <= i THEN s[x] ELSE t[x - i]
      BY <1>7, <1>8, <2>1, <2>2
    <3>2. CASE x <= i
      <4>1. x \in 1 .. i
        BY <1>1, <3>2
      <4> QED
        BY <1>7, <3>1, <3>2, <4>1
    <3>3. CASE ~(x <= i)
      <4>1. x - i \in 1 .. (n - i) + 1 /\ (i + (x - i)) - 1 = x - 1
        BY <1>1, <3>3
      <4> QED
        BY <1>8, <3>1, <3>3, <4>1
    <3> QED
      BY <3>2, <3>3
  <2> QED
    BY <1>7, <1>8, <2>1, <2>2, <2>3
<1>12. ASSUME NEW v, NEW k \in 1 .. n, NEW b \in [1 .. n -> U \cup {v}]
       PROVE  /\ Len([b EXCEPT ![k] = v]) = n /\ [b EXCEPT ![k] = v] \in [1 .. n -> U \cup {v}]
              /\ \A x \in 1 .. n : [b EXCEPT ![k] = v][x] = IF x = k THEN v ELSE b[x]
  <2>1. [b EXCEPT ![k] = v] \in [1 .. n -> U \cup {v}]
    OBVIOUS
  <2>2. [b EXCEPT ![k] = v] \in Seq(U \cup {v}) /\ Len([b EXCEPT ![k] = v]) = n
    BY <1>1, <2>1
  <2> QED
    BY <2>1, <2>2
<1>13. \A v : body \in [1 .. n -> U \cup {v}]
  BY <1>1, <1>2
<1>14. \A b : /\ Len(Altered(i, b)) = n
              /\ \A x \in 1 .. n : Altered(i, b)[x] = IF x = i THEN Datum(b) ELSE body[x]
  BY <1>1, <1>12, <1>13 DEF Altered
<1>15. ASSUME i < n
       PROVE  /\ Len(Swapped(i)) = n
              /\ \A x \in 1 .. n : Swapped(i)[x] =
                    body[IF x = i THEN i + 1 ELSE IF x = i + 1 THEN i ELSE x]
  <2> DEFINE c == [body EXCEPT ![i] = body[i + 1]]
  <2>1. i + 1 \in 1 .. n /\ body[i] \in U /\ body[i + 1] \in U /\ i # i + 1
    BY <1>1, <1>15
  <2>2. /\ c \in [1 .. n -> U]
        /\ \A x \in 1 .. n : c[x] = IF x = i THEN body[i + 1] ELSE body[x]
    BY <1>1, <1>2, <2>1
  <2>3. Swapped(i) = [c EXCEPT ![i + 1] = body[i]]
    BY DEF Swapped
  <2> HIDE DEF c
  <2> DEFINE k == i + 1
             v == body[i]
  <2>4. c \in [1 .. n -> U \cup {v}] /\ k \in 1 .. n
    BY <2>1, <2>2
  <2> HIDE DEF k, v
  <2>5. /\ Len([c EXCEPT ![k] = v]) = n
        /\ \A x \in 1 .. n : [c EXCEPT ![k] = v][x] = IF x = k THEN v ELSE c[x]
    BY <1>12, <2>4
  <2>6. Swapped(i) = [c EXCEPT ![k] = v]
    BY <2>3 DEF k, v
  <2>7. \A x \in 1 .. n : Swapped(i)[x] = IF x = i + 1 THEN body[i] ELSE c[x]
    BY <2>5, <2>6 DEF k, v
  <2> QED
    BY <2>1, <2>2, <2>5, <2>6, <2>7
<1> QED
  BY <1>5, <1>9, <1>10, <1>11, <1>14, <1>15 DEF n

\* The frames of the chunks are intact, and no data follows them.
Late(r, b) ==
    /\ Begin(r) <= Len(b)
    /\ \A j \in 1 .. Begin(r) : b[j] = Sent(r)[j]
    /\ \A j \in Begin(r) + 1 .. Len(b) : b[j] \in TailUnit(r)

\* What follows the header of the empty chunk is intact, or there is a blank line in between.
Early(r, b, p) ==
    /\ p + 4 <= Len(b)
    /\ \A j \in 1 .. Len(b) : j # p + 1 => ~Zero(b[j])
    /\ b[p + 1] = LastHead(r) /\ b[p + 2] = CRLF
    /\ \/ /\ b[p + 3] = Trailer(Bytes(Whole(r))) /\ b[p + 4] = CRLF
          /\ p + 4 = Len(b) \/ (p + 5 = Len(b) /\ b[p + 5] = CRLF)
       \/ b[p + 3] = CRLF /\ p + 5 <= Len(b)

\* There is no header of an empty chunk.
Lost(b) == \A j \in 1 .. Len(b) : ~Zero(b[j])

LEMMA FaultShape ==
    ASSUME request \in Request, request.mode \in Streaming, request.mode \notin Signed,
           request.checksum, body = Sent(request), Disturb
    PROVE  /\ body' \in Seq(SentUnit(request))
           /\ \/ Late(request, body')
              \/ \E p \in Nat : Early(request, body', p)
              \/ Lost(body')
<1> DEFINE r == request
           e == Begin(r)
           n == Len(body)
           H == LastHead(r)
           T == Trailer(Bytes(Whole(r)))
           V == TailUnit(r)
           b == body'
           Sh == Late(r, b) \/ (\E p \in Nat : Early(r, b, p)) \/ Lost(b)
<1>0. ~r.sealed
  BY PayloadAssumption DEF Signed
<1>1. /\ body \in Seq(SentUnit(r)) /\ e \in Nat /\ n \in Nat
      /\ \A j \in 1 .. e : ~Zero(body[j])
      /\ body[e + 1] = H /\ body[e + 2] = CRLF /\ body[e + 3] = T /\ body[e + 4] = CRLF
      /\ n = e + 4 \/ (n = e + 5 /\ body[e + 5] = CRLF)
      /\ e # 0 => body[e] = CRLF
  <2>1. n \in Nat
    BY <1>0, SentLayout, LenProperties
  <2> QED
    BY <1>0, <2>1, SentLayout
<1>2. H \in V /\ CRLF \in V /\ T \in V /\ ~Zero(T) /\ ~Zero(CRLF)
  BY UnitKinds DEF TailUnit, Zero
<1>3. PICK i \in 1 .. n :
          \/ b = Without(i)
          \/ b = Twice(i)
          \/ i < n /\ b = Swapped(i)
          \/ b = CutAt(i)
          \/ body[i].kind = "byte" /\ \E d \in Byte : b = Altered(i, d)
  BY DEF Disturb
<1>4. \A d \in Byte : Datum(d) \in SentUnit(r) /\ ~Zero(Datum(d))
  BY DEF Datum, SentUnit, ByteUnit, Zero
<1>5. b \in Seq(SentUnit(r))
  BY <1>1, <1>3, <1>4, DisturbedType
<1> SUFFICES Sh
  BY <1>5
<1>6. H.kind = "size" /\ \A u \in V : u.kind # "byte"
  BY UnitKinds DEF TailUnit
<1>7. body = Sent(r)
  OBVIOUS
<1>8. /\ Len(Without(i)) = n - 1
      /\ \A x \in 1 .. n - 1 : Without(i)[x] = body[IF x < i THEN x ELSE x + 1]
      /\ Len(Twice(i)) = n + 1
      /\ \A x \in 1 .. n + 1 : Twice(i)[x] = body[IF x <= i THEN x ELSE x - 1]
      /\ Len(CutAt(i)) = i - 1 /\ \A x \in 1 .. i - 1 : CutAt(i)[x] = body[x]
      /\ i < n =>
            /\ Len(Swapped(i)) = n
            /\ \A x \in 1 .. n : Swapped(i)[x] =
                  body[IF x = i THEN i + 1 ELSE IF x = i + 1 THEN i ELSE x]
      /\ \A d : /\ Len(Altered(i, d)) = n
                /\ \A x \in 1 .. n : Altered(i, d)[x] = IF x = i THEN Datum(d) ELSE body[x]
  BY <1>1, <1>3, DisturbedIs
<1>9. /\ Late(r, b) <=> /\ e <= Len(b) /\ \A j \in 1 .. e : b[j] = body[j]
                        /\ \A j \in e + 1 .. Len(b) : b[j] \in V
      /\ \A p \in Nat : Early(r, b, p) <=>
            /\ p + 4 <= Len(b)
            /\ \A j \in 1 .. Len(b) : j # p + 1 => ~Zero(b[j])
            /\ b[p + 1] = H /\ b[p + 2] = CRLF
            /\ \/ /\ b[p + 3] = T /\ b[p + 4] = CRLF
                  /\ p + 4 = Len(b) \/ (p + 5 = Len(b) /\ b[p + 5] = CRLF)
               \/ b[p + 3] = CRLF /\ p + 5 <= Len(b)
      /\ Lost(b) <=> \A j \in 1 .. Len(b) : ~Zero(b[j])
  BY <1>7 DEF Late, Early, Lost
<1>10. i \in Nat /\ 1 <= i /\ i <= n
  BY <1>1, <1>3
<1> HIDE DEF e, n, H, T, V
<1>11. \A j \in e + 1 .. n : body[j] \in V
  <2>1. \A j \in e + 1 .. n : j = e + 1 \/ j = e + 2 \/ j = e + 3 \/ j = e + 4 \/ (j = e + 5 /\ n = e + 5)
    BY <1>1
  <2>2. n = e + 5 => body[e + 5] = CRLF
    BY <1>1
  <2> QED
    BY <1>1, <1>2, <2>1, <2>2
<1>12. \A j \in 1 .. n : j # e + 1 => ~Zero(body[j])
  <2>1. \A j \in 1 .. n : j # e + 1 => j \in 1 .. e \/ j = e + 2 \/ j = e + 3 \/ j = e + 4
                                         \/ (j = e + 5 /\ n = e + 5)
    BY <1>1
  <2>2. n = e + 5 => body[e + 5] = CRLF
    BY <1>1
  <2> QED
    BY <1>1, <1>2, <2>1, <2>2
<1>13. CASE b = Without(i)
  <2>1. Len(b) = n - 1 /\ \A x \in 1 .. n - 1 : b[x] = body[IF x < i THEN x ELSE x + 1]
    BY <1>8, <1>13
  <2>2. CASE i > e
    <3>1. e <= Len(b)
      BY <1>1, <2>1
    <3>2. \A j \in 1 .. e : j \in 1 .. n - 1 /\ j < i
      BY <1>1, <1>10, <2>2
    <3>3. \A j \in e + 1 .. n - 1 : /\ j \in 1 .. n - 1 /\ j \in e + 1 .. n /\ j + 1 \in e + 1 .. n
      BY <1>1
    <3>4. \A j \in e + 1 .. Len(b) : b[j] \in V
      BY <1>11, <2>1, <3>3
    <3> QED
      BY <1>9, <2>1, <3>1, <3>2, <3>4
  <2>3. CASE ~(i > e)
    <3> DEFINE p == e - 1
    <3>1. /\ p \in Nat /\ p + 1 = e /\ p + 2 = e + 1 /\ p + 3 = e + 2 /\ p + 4 = e + 3
          /\ p + 5 = e + 4
      BY <1>1, <1>10, <2>3
    <3>2. ASSUME NEW x \in e .. n - 1 PROVE b[x] = body[x + 1]
      <4>1. x \in 1 .. n - 1 /\ ~(x < i)
        BY <1>1, <1>10, <2>3
      <4> QED
        BY <2>1, <4>1
    <3>3. e \in e .. n - 1 /\ e + 1 \in e .. n - 1 /\ e + 2 \in e .. n - 1 /\ e + 3 \in e .. n - 1
      BY <1>1
    <3>4. b[e] = H /\ b[e + 1] = CRLF /\ b[e + 2] = T /\ b[e + 3] = CRLF
      <4>1. (e + 1) + 1 = e + 2 /\ (e + 2) + 1 = e + 3 /\ (e + 3) + 1 = e + 4
        BY <1>1
      <4> QED
        BY <1>1, <3>2, <3>3, <4>1
    <3>5. p + 4 <= Len(b) /\ (p + 4 = Len(b) \/ (p + 5 = Len(b) /\ b[e + 4] = CRLF))
      <4>1. CASE n = e + 4
        BY <1>1, <2>1, <3>1, <4>1
      <4>2. CASE n = e + 5
        <5>1. p + 5 = Len(b) /\ p + 4 <= Len(b)
          BY <1>1, <2>1, <3>1, <4>2
        <5>2. e + 4 \in e .. n - 1 /\ (e + 4) + 1 = e + 5
          BY <1>1, <4>2
        <5>3. b[e + 4] = body[e + 5]
          BY <3>2, <5>2
        <5>4. body[e + 5] = CRLF
          <6>1. ~(n = e + 4)
            BY <1>1, <4>2
          <6> QED
            BY <1>1, <6>1
        <5> QED
          BY <5>1, <5>3, <5>4
      <4> QED
        BY <1>1, <4>1, <4>2
    <3>6. ASSUME NEW j \in 1 .. n - 1, j # p + 1 PROVE ~Zero(b[j])
      <4> DEFINE k == IF j < i THEN j ELSE j + 1
      <4>1. k \in 1 .. n /\ k # e + 1
        BY <1>1, <1>10, <2>3, <3>1, <3>6
      <4> QED
        BY <1>12, <2>1, <4>1
    <3>7. Early(r, b, p)
      <4>1. \A j \in 1 .. Len(b) : j # p + 1 => ~Zero(b[j])
        BY <2>1, <3>6
      <4> HIDE DEF p
      <4> QED
        BY <1>9, <3>1, <3>4, <3>5, <4>1
    <3> QED
      BY <3>1, <3>7
  <2> QED
    BY <2>2, <2>3
<1>14. CASE b = Twice(i)
  <2>1. Len(b) = n + 1 /\ \A x \in 1 .. n + 1 : b[x] = body[IF x <= i THEN x ELSE x - 1]
    BY <1>8, <1>14
  <2>2. CASE i > e
    <3>1. e <= Len(b)
      BY <1>1, <2>1
    <3>2. \A j \in 1 .. e : j \in 1 .. n + 1 /\ j <= i
      BY <1>1, <1>10, <2>2
    <3>3. \A j \in e + 1 .. n + 1 : /\ j \in 1 .. n + 1
                                    /\ j <= i => j \in e + 1 .. n
                                    /\ ~(j <= i) => j - 1 \in e + 1 .. n
      BY <1>1, <1>10, <2>2
    <3>4. \A j \in e + 1 .. Len(b) : b[j] \in V
      BY <1>11, <2>1, <3>3
    <3> QED
      BY <1>9, <2>1, <3>1, <3>2, <3>4
  <2>3. CASE ~(i > e)
    <3> DEFINE p == e + 1
    <3>1. /\ p \in Nat /\ p + 1 = e + 2 /\ p + 2 = e + 3 /\ p + 3 = e + 4 /\ p + 4 = e + 5
          /\ p + 5 = e + 6
      BY <1>1
    <3>2. ASSUME NEW x \in e + 2 .. n + 1 PROVE b[x] = body[x - 1]
      <4>1. x \in 1 .. n + 1 /\ ~(x <= i)
        BY <1>1, <1>10, <2>3
      <4> QED
        BY <2>1, <4>1
    <3>3. /\ e + 2 \in e + 2 .. n + 1 /\ e + 3 \in e + 2 .. n + 1 /\ e + 4 \in e + 2 .. n + 1
          /\ e + 5 \in e + 2 .. n + 1
      BY <1>1
    <3>4. b[e + 2] = H /\ b[e + 3] = CRLF /\ b[e + 4] = T /\ b[e + 5] = CRLF
      <4>1. /\ (e + 2) - 1 = e + 1 /\ (e + 3) - 1 = e + 2 /\ (e + 4) - 1 = e + 3
            /\ (e + 5) - 1 = e + 4
        BY <1>1
      <4> QED
        BY <1>1, <3>2, <3>3, <4>1
    <3>5. p + 4 <= Len(b) /\ (p + 4 = Len(b) \/ (p + 5 = Len(b) /\ b[e + 6] = CRLF))
      <4>1. CASE n = e + 4
        BY <1>1, <2>1, <3>1, <4>1
      <4>2. CASE n = e + 5
        <5>1. p + 5 = Len(b) /\ p + 4 <= Len(b)
          BY <1>1, <2>1, <3>1, <4>2
        <5>2. e + 6 \in e + 2 .. n + 1 /\ (e + 6) - 1 = e + 5
          BY <1>1, <4>2
        <5>3. b[e + 6] = body[e + 5]
          BY <3>2, <5>2
        <5>4. body[e + 5] = CRLF
          <6>1. ~(n = e + 4)
            BY <1>1, <4>2
          <6> QED
            BY <1>1, <6>1
        <5> QED
          BY <5>1, <5>3, <5>4
      <4> QED
        BY <1>1, <4>1, <4>2
    <3>6. ASSUME NEW j \in 1 .. n + 1, j # p + 1 PROVE ~Zero(b[j])
      <4> DEFINE k == IF j <= i THEN j ELSE j - 1
      <4>1. k \in 1 .. n /\ k # e + 1
        BY <1>1, <1>10, <2>3, <3>1, <3>6
      <4> QED
        BY <1>12, <2>1, <4>1
    <3>7. Early(r, b, p)
      <4>1. \A j \in 1 .. Len(b) : j # p + 1 => ~Zero(b[j])
        BY <2>1, <3>6
      <4> HIDE DEF p
      <4> QED
        BY <1>9, <3>1, <3>4, <3>5, <4>1
    <3> QED
      BY <3>1, <3>7
  <2> QED
    BY <2>2, <2>3
<1>15. CASE b = CutAt(i)
  <2>1. Len(b) = i - 1 /\ \A x \in 1 .. i - 1 : b[x] = body[x]
    BY <1>8, <1>15
  <2>2. CASE i > e + 1
    <3>1. e <= Len(b) /\ (\A j \in 1 .. e : j \in 1 .. i - 1)
          /\ \A j \in e + 1 .. i - 1 : j \in 1 .. i - 1 /\ j \in e + 1 .. n
      BY <1>1, <1>10, <2>1, <2>2
    <3>2. \A j \in e + 1 .. Len(b) : b[j] \in V
      BY <1>11, <2>1, <3>1
    <3> QED
      BY <1>9, <2>1, <3>1, <3>2
  <2>3. CASE ~(i > e + 1)
    <3>1. \A j \in 1 .. i - 1 : j \in 1 .. e
      BY <1>1, <1>10, <2>3
    <3>2. \A j \in 1 .. Len(b) : ~Zero(b[j])
      BY <1>1, <2>1, <3>1
    <3> QED
      BY <1>9, <3>2
  <2> QED
    BY <2>2, <2>3
<1>16. ASSUME Len(b) = n, \A x \in 1 .. n : x > e => b[x] = body[x],
              \A x \in 1 .. e : ~Zero(b[x])
       PROVE  Sh
  <2>1. /\ e + 1 \in 1 .. n /\ e + 2 \in 1 .. n /\ e + 3 \in 1 .. n /\ e + 4 \in 1 .. n
        /\ e + 1 > e /\ e + 2 > e /\ e + 3 > e /\ e + 4 > e /\ e + 4 <= n
    BY <1>1
  <2>2. b[e + 1] = H /\ b[e + 2] = CRLF /\ b[e + 3] = T /\ b[e + 4] = CRLF
    BY <1>1, <1>16, <2>1
  <2>3. e + 4 = Len(b) \/ (e + 5 = Len(b) /\ b[e + 5] = CRLF)
    <3>1. n = e + 5 => e + 5 \in 1 .. n /\ e + 5 > e
      BY <1>1
    <3> QED
      BY <1>1, <1>16, <3>1
  <2>4. ASSUME NEW j \in 1 .. n, j # e + 1 PROVE ~Zero(b[j])
    <3>1. j \in 1 .. e \/ j > e
      BY <1>1
    <3> QED
      BY <1>12, <1>16, <2>4, <3>1
  <2>5. Early(r, b, e)
    <3>1. \A j \in 1 .. Len(b) : j # e + 1 => ~Zero(b[j])
      BY <1>16, <2>4
    <3>2. e + 4 <= Len(b)
      BY <1>16, <2>1
    <3> QED
      BY <1>1, <1>9, <2>2, <2>3, <3>1, <3>2
  <2> QED
    BY <1>1, <2>5
<1>17. CASE i < n /\ b = Swapped(i)
  <2>1. /\ Len(b) = n
        /\ \A x \in 1 .. n : b[x] = body[IF x = i THEN i + 1 ELSE IF x = i + 1 THEN i ELSE x]
    BY <1>8, <1>17
  <2>2. CASE i > e
    <3>1. e <= Len(b)
      BY <1>1, <2>1
    <3>2. \A j \in 1 .. e : j \in 1 .. n /\ j # i /\ j # i + 1
      BY <1>1, <1>10, <2>2
    <3>3. \A j \in e + 1 .. n : /\ j \in 1 .. n
                                /\ i + 1 \in e + 1 .. n /\ i \in e + 1 .. n
      BY <1>1, <1>10, <1>17, <2>2
    <3>4. \A j \in e + 1 .. Len(b) : b[j] \in V
      BY <1>11, <2>1, <3>3
    <3> QED
      BY <1>9, <2>1, <3>1, <3>2, <3>4
  <2>3. CASE i < e
    <3>1. \A x \in 1 .. n : x > e => x # i /\ x # i + 1
      BY <1>1, <1>10, <2>3
    <3>2. \A x \in 1 .. n : x > e => b[x] = body[x]
      BY <2>1, <3>1
    <3>3. ASSUME NEW x \in 1 .. e PROVE ~Zero(b[x])
      <4> DEFINE k == IF x = i THEN i + 1 ELSE IF x = i + 1 THEN i ELSE x
      <4>1. k \in 1 .. e /\ x \in 1 .. n
        BY <1>1, <1>10, <2>3
      <4> QED
        BY <1>1, <2>1, <4>1
    <3> QED
      BY <1>16, <2>1, <3>2, <3>3
  <2>4. CASE i = e
    <3> DEFINE p == e - 1
    <3>1. /\ p \in Nat /\ p + 1 = e /\ p + 2 = e + 1 /\ p + 3 = e + 2 /\ p + 5 = e + 4
          /\ p + 4 <= Len(b) /\ p + 5 <= Len(b)
      BY <1>1, <1>10, <2>1, <2>4
    <3>2. /\ e \in 1 .. n /\ e + 1 \in 1 .. n /\ e + 2 \in 1 .. n
          /\ e + 1 # e /\ e + 2 # e /\ e + 2 # e + 1
      BY <1>1, <1>10, <2>4
    <3>3. b[e] = H /\ b[e + 1] = body[e] /\ b[e + 2] = CRLF
      BY <1>1, <2>1, <2>4, <3>2
    <3>4. body[e] = CRLF
      BY <1>1, <1>10, <2>4
    <3>6. ASSUME NEW j \in 1 .. n, j # p + 1 PROVE ~Zero(b[j])
      <4> DEFINE k == IF j = i THEN i + 1 ELSE IF j = i + 1 THEN i ELSE j
      <4>1. k \in 1 .. n /\ k # e + 1
        BY <1>1, <1>10, <2>4, <3>1, <3>6
      <4> QED
        BY <1>12, <2>1, <4>1
    <3>7. Early(r, b, p)
      <4>1. \A j \in 1 .. Len(b) : j # p + 1 => ~Zero(b[j])
        BY <2>1, <3>6
      <4> HIDE DEF p
      <4> QED
        BY <1>9, <3>1, <3>3, <3>4, <4>1
    <3> QED
      BY <3>1, <3>7
  <2> QED
    BY <1>1, <1>10, <2>2, <2>3, <2>4
<1>18. CASE body[i].kind = "byte" /\ \E d \in Byte : b = Altered(i, d)
  <2>1. PICK d \in Byte : b = Altered(i, d)
    BY <1>18
  <2>2. Len(b) = n /\ \A x \in 1 .. n : b[x] = IF x = i THEN Datum(d) ELSE body[x]
    BY <1>8, <2>1
  <2>3. ~(i > e)
    <3>1. i > e => i \in e + 1 .. n
      BY <1>1, <1>10
    <3> QED
      BY <1>6, <1>11, <1>18, <3>1
  <2>4. \A x \in 1 .. n : x > e => x # i
    BY <1>1, <1>10, <2>3
  <2>5. \A x \in 1 .. n : x > e => b[x] = body[x]
    BY <2>2, <2>4
  <2>6. \A x \in 1 .. e : ~Zero(b[x])
    <3>1. \A x \in 1 .. e : x \in 1 .. n
      BY <1>1
    <3> QED
      BY <1>1, <1>4, <2>2, <3>1
  <2> QED
    BY <1>16, <2>2, <2>5, <2>6
<1> QED
  BY <1>3, <1>13, <1>14, <1>15, <1>17, <1>18

\* A line of digits is a number, and it is zero exactly when all of them are.
LEMMA ZeroLine ==
    ASSUME NEW U, NEW line \in Seq(U), \A i \in 1 .. Len(line) : line[i].n \in Nat,
           request.mode \notin Signed
    PROVE  /\ HeaderSize(line) \in Nat
           /\ HeaderSize(line) = 0 <=> \A i \in 1 .. Len(line) : line[i].n = 0
<1> DEFINE n == Len(line)
<1>1. PICK h : IsNumber(h, line) /\ HeaderSize(line) = h[n]
  BY NumberIs
<1>2. n \in Nat /\ n \in 0 .. n
  BY LenProperties
<1>3. /\ h \in [0 .. n -> Nat] /\ h[0] = 0
      /\ \A i \in 1 .. n : h[i] = 16 * h[i - 1] + line[i].n
  BY <1>1 DEF IsNumber
<1>4. \A i \in 1 .. n : line[i].n \in Nat
  OBVIOUS
<1> HIDE DEF n
<1>5. ASSUME \A i \in 1 .. n : line[i].n = 0 PROVE h[n] = 0
  <2> DEFINE Q == {i \in 0 .. n : h[i] # 0}
  <2>1. Q = {}
    <3>0. SUFFICES ASSUME Q # {} PROVE FALSE
      OBVIOUS
    <3>1. PICK i \in Q : \A m \in Q : i <= m
      <4>1. Q \subseteq Nat
        BY <1>2
      <4> HIDE DEF Q
      <4> QED
        BY <3>0, <4>1, LeastNatural
    <3>2. i \in 1 .. n /\ i - 1 \in 0 .. n /\ ~(i <= i - 1) /\ h[i] # 0
      BY <1>2, <1>3, <3>1
    <3>3. h[i - 1] = 0
      BY <3>1, <3>2
    <3>4. h[i] = 16 * h[i - 1] + line[i].n /\ line[i].n = 0
      BY <1>3, <1>5, <3>2
    <3> QED
      BY <3>2, <3>3, <3>4
  <2> QED
    BY <1>2, <2>1
<1>6. ASSUME NEW j \in 1 .. n, line[j].n # 0 PROVE h[n] # 0
  <2> DEFINE Q == {i \in j .. n : h[i] = 0}
  <2>1. Q = {}
    <3>0. SUFFICES ASSUME Q # {} PROVE FALSE
      OBVIOUS
    <3>1. PICK i \in Q : \A m \in Q : i <= m
      <4>1. Q \subseteq Nat
        BY <1>2
      <4> HIDE DEF Q
      <4> QED
        BY <3>0, <4>1, LeastNatural
    <3>2. i \in 1 .. n /\ i - 1 \in 0 .. n /\ h[i] = 0
      BY <1>2, <3>1
    <3>3. h[i] = 16 * h[i - 1] + line[i].n /\ line[i].n \in Nat /\ h[i - 1] \in Nat
      BY <1>3, <1>4, <3>2
    <3>4. ASSUME NEW x \in Nat, NEW y \in Nat, 16 * x + y = 0 PROVE x = 0 /\ y = 0
      BY <3>4
    <3>5. h[i - 1] = 0 /\ line[i].n = 0
      BY <3>2, <3>3, <3>4
    <3>6. i # j
      BY <1>6, <3>5
    <3>7. i - 1 \in j .. n /\ ~(i <= i - 1)
      BY <1>2, <3>1, <3>6
    <3> QED
      BY <3>1, <3>5, <3>7
  <2> QED
    BY <1>2, <2>1
<1>7. h[n] \in Nat
  BY <1>2, <1>3
<1> QED
  BY <1>1, <1>5, <1>6, <1>7 DEF n

\* The units of a line.
LEMMA LineUnits ==
    ASSUME NEW U, body \in Seq(U), pos \in Nat, HasLine(pos)
    PROVE  /\ LineEnd(pos) \in pos + 1 .. Len(body)
           /\ BodyLine(pos) \in Seq(U) /\ Len(BodyLine(pos)) = (LineEnd(pos) - pos) - 1
           /\ \A i \in 1 .. (LineEnd(pos) - pos) - 1 : BodyLine(pos)[i] = body[pos + i]
<1> DEFINE e == LineEnd(pos)
<1>1. e \in pos + 1 .. Len(body) /\ BodyLine(pos) \in Seq(U)
  BY LineParts
<1>2. BodyLine(pos) = SubSeq(body, pos + 1, e - 1)
  BY DEF BodyLine
<1>3. Len(body) \in Nat /\ \A k \in 1 .. Len(body) : body[k] \in U
  BY LenProperties, ElementOfSeq
<1> HIDE DEF e
<1>4. /\ pos + 1 \in Int /\ e - 1 \in Int /\ e \in Nat
      /\ \A k \in pos + 1 .. e - 1 : body[k] \in U
  <2>1. \A k \in pos + 1 .. e - 1 : k \in 1 .. Len(body)
    BY <1>1, <1>3
  <2> QED
    BY <1>1, <1>3, <2>1
<1>5. CASE pos + 1 <= e - 1
  <2>1. /\ Len(BodyLine(pos)) = ((e - 1) - (pos + 1)) + 1
        /\ \A i \in 1 .. ((e - 1) - (pos + 1)) + 1 : BodyLine(pos)[i] = body[((pos + 1) + i) - 1]
    BY <1>2, <1>4, <1>5, SubSeqProperties
  <2>2. /\ ((e - 1) - (pos + 1)) + 1 = (e - pos) - 1
        /\ \A i \in 1 .. (e - pos) - 1 : ((pos + 1) + i) - 1 = pos + i
    BY <1>4
  <2> QED
    BY <1>1, <2>1, <2>2 DEF e
<1>6. CASE ~(pos + 1 <= e - 1)
  <2>1. Len(BodyLine(pos)) = 0
    BY <1>2, <1>4, <1>6, SubSeqProperties
  <2>2. (e - pos) - 1 = 0 /\ 1 .. 0 = {}
    BY <1>1, <1>3, <1>6
  <2> QED
    BY <1>1, <2>1, <2>2 DEF e
<1> QED
  BY <1>5, <1>6

\* A round of the chunk loop without signatures: the header line is all sizes, and the loop
\* is left when all of them are zero.
LEMMA ChunkRead ==
    ASSUME request \in Request, request.mode \notin Signed, body \in Seq(SentUnit(request)),
           pos \in Nat, DecodeChunk
    PROVE  \/ \E code : Reject(code)
           \/ /\ pc' = "chunk" /\ pos' \in Nat /\ trailers' = trailers
              /\ \E j \in pos + 1 .. Len(body) : body[j].kind = "size" /\ ~Zero(body[j])
           \/ /\ pc' = "trailer" /\ payload' = payload /\ trailers' = trailers
              /\ pos' \in pos + 2 .. Len(body)
              /\ \A j \in pos + 1 .. pos' - 1 : Zero(body[j])
<1> DEFINE line == BodyLine(pos)
           e == LineEnd(pos)
           U == SentUnit(request)
           m == (e - pos) - 1
           counted == HeaderSize(line)
           end == e + counted
<1>1. CASE ~HasLine(pos) \/ ~IsHeader(line)
  BY <1>1 DEF DecodeChunk
<1>2. CASE HasLine(pos) /\ IsHeader(line)
  <2>1. /\ e \in pos + 1 .. Len(body) /\ line \in Seq(U) /\ Len(line) = m
        /\ \A i \in 1 .. m : line[i] = body[pos + i]
    BY <1>2, LineUnits
  <2>2. Len(body) \in Nat /\ \A k \in 1 .. Len(body) : body[k] \in U
    BY LenProperties, ElementOfSeq
  <2>3. line # <<>> /\ \A i \in DOMAIN line : line[i].kind = "size"
    BY <1>2 DEF IsHeader
  <2>4. DOMAIN line = 1 .. m /\ m # 0
    BY <2>1, <2>3, EmptySeq, LenProperties
  <2>5. AfterLine(pos) = e
    BY DEF AfterLine
  <2> DEFINE data == SubSeq(body, e + 1, end)
  <2>6. SignatureFits(HeaderSignature(line), data)
    BY DEF SignatureFits
  <2>7. \/ \E code : Reject(code)
        \/ counted = 0 /\ pc' = "trailer" /\ pos' = end /\ UNCHANGED <<payload, trailers>>
        \/ counted # 0 /\ pc' = "chunk" /\ pos' = end + 1 /\ trailers' = trailers
    BY <1>2, <2>5, <2>6 DEF DecodeChunk
  <2>8. \A i \in 1 .. m : line[i].kind = "size" /\ line[i].n \in Nat
    <3>1. \A i \in 1 .. m : line[i] \in U
      BY <2>1, ElementOfSeq
    <3> QED
      BY <2>3, <2>4, <3>1, UnitKinds
  <2>9. counted \in Nat /\ (counted = 0 <=> \A i \in 1 .. m : line[i].n = 0)
    BY <2>1, <2>8, ZeroLine
  <2>10. e \in Nat /\ m \in Nat /\ e = pos + m + 1
    BY <2>1, <2>2
  <2> HIDE DEF e, m, line, U, counted
  <2>11. \A i \in 1 .. m : body[pos + i].kind = "size" /\ (body[pos + i].n = 0 <=> line[i].n = 0)
    BY <2>1, <2>8
  <2>12. CASE counted = 0 /\ pc' = "trailer" /\ pos' = end /\ UNCHANGED <<payload, trailers>>
    <3>1. end = e /\ e \in pos + 2 .. Len(body)
      BY <2>1, <2>4, <2>10, <2>12
    <3>2. ASSUME NEW j \in pos + 1 .. e - 1 PROVE Zero(body[j])
      <4>1. j - pos \in 1 .. m /\ pos + (j - pos) = j
        BY <2>10
      <4>2. body[pos + (j - pos)].kind = "size" /\ body[pos + (j - pos)].n = 0
        BY <2>9, <2>11, <2>12, <4>1
      <4> QED
        BY <4>1, <4>2 DEF Zero
    <3> QED
      BY <2>12, <3>1, <3>2
  <2>13. CASE counted # 0 /\ pc' = "chunk" /\ pos' = end + 1 /\ trailers' = trailers
    <3>1. end + 1 \in Nat
      BY <2>9, <2>10
    <3>2. PICK i \in 1 .. m : line[i].n # 0
      BY <2>9, <2>13
    <3>3. pos + i \in pos + 1 .. Len(body)
      BY <2>1, <2>2, <2>10
    <3>4. body[pos + i].kind = "size" /\ ~Zero(body[pos + i])
      BY <2>11, <3>2 DEF Zero
    <3> QED
      BY <2>13, <3>1, <3>3, <3>4
  <2> QED
    BY <2>7, <2>12, <2>13
<1> QED
  BY <1>1, <1>2

\* A frame of a chunk ends where the frames of the chunks do, or before.
LEMMA FrameFits ==
    ASSUME NEW r \in Request, NEW k \in 0 .. Len(r.chunks), k # Len(r.chunks)
    PROVE  /\ Len(FrameFlat(r)[k + 1]) \in Nat /\ Begin(r) \in Nat
           /\ Len(FrameFlat(r)[k + 1]) <= Begin(r)
<1> DEFINE n == Len(r.chunks)
           f == FrameFlat(r)
           fs == FramesOf(r)
           U == SentUnit(r)
           i == k + 1
<1>1. n \in Nat /\ i \in 0 .. n + 1 /\ n \in i .. n + 1 /\ n \in 0 .. n + 1 /\ n + 1 \in Nat
  BY RequestParts
<1>2. fs \in Seq(Seq(U)) /\ n + 1 <= Len(fs) /\ IsFlat(f, fs, n + 1, U)
  BY <1>1, FrameFlatIs
<1>3. f[i] \in Seq(U) /\ f[n] \in Seq(U)
  <2> HIDE DEF i, n, f, fs, U
  <2> QED
    BY <1>1, <1>2 DEF IsFlat
<1>4. \A j \in i .. n + 1 : Len(f[i]) <= Len(f[j])
  <2> HIDE DEF i, n, f, fs, U
  <2> DEFINE m == n + 1
  <2>1. m \in Nat /\ m <= Len(fs) /\ IsFlat(f, fs, m, U) /\ i \in 0 .. m
    BY <1>1, <1>2
  <2> HIDE DEF m
  <2>2. \A j \in i .. m : Len(f[i]) <= Len(f[j])
    BY <1>2, <2>1, FlatGrows
  <2> QED
    BY <2>2 DEF m
<1> QED
  BY <1>1, <1>3, <1>4, LenProperties DEF Begin

(***************************************************************************)
(* An unsigned body with a checksum, after at most one fault: the decoder  *)
(* goes through intact frames to the whole payload, or through whatever    *)
(* the frames have become to the client's own checksum, or never ends.     *)
(***************************************************************************)
LateRun ==
    /\ Late(request, body)
    /\ pc = "chunk" => AtFrame
    /\ pc \in {"trailer", "payload"} => payload = Bytes(Whole(request))

EarlyRun ==
    \E p \in Nat :
        /\ Early(request, body, p)
        /\ pc = "chunk" => trailers = <<>>
        /\ pc = "trailer" => \/ pos = p + 2 /\ trailers = <<>>
                             \/ /\ pos = p + 4 /\ trailers = <<ItsTrailer(request)>>
                                /\ body[p + 3] # CRLF
        /\ pc = "payload" => trailers = <<ItsTrailer(request)>>

LostRun == Lost(body) /\ pc \notin {"trailer", "payload"}

OneFault ==
    /\ body \in Seq(SentUnit(request))
    /\ pc = "transit" => /\ pos = 0 /\ payload = <<>> /\ trailers = <<>>
                         /\ faults = 0 => body = Sent(request)
    /\ pc = "chunk" => pos \in Nat
    /\ pc # "accepted" => LateRun \/ EarlyRun \/ LostRun
    /\ pc = "accepted" => delivered.payload = Bytes(Whole(request))

FaultInv ==
    /\ request \in Request
    /\ faults \in Nat
    /\ faults <= 1 /\ request.mode \in Streaming \ Signed /\ request.checksum => OneFault

\* An intact body.
LEMMA SentIsLate ==
    ASSUME NEW r \in Request, r.mode \in Streaming, r.mode \notin Signed, r.checksum
    PROVE  Late(r, Sent(r))
<1> DEFINE e == Begin(r)
           B == Sent(r)
           n == Len(B)
           V == TailUnit(r)
           H == LastHead(r)
           T == Trailer(Bytes(Whole(r)))
<1>0. ~r.sealed
  BY PayloadAssumption DEF Signed
<1>1. /\ e \in Nat /\ B[e + 1] = H /\ B[e + 2] = CRLF /\ B[e + 3] = T /\ B[e + 4] = CRLF
      /\ n = e + 4 \/ (n = e + 5 /\ B[e + 5] = CRLF)
  BY <1>0, SentLayout
<1>2. H \in V /\ CRLF \in V /\ T \in V
  BY DEF TailUnit
<1> HIDE DEF e, B, n, V, H, T
<1>3. e <= n
  BY <1>1
<1>4. \A j \in e + 1 .. n : B[j] \in V
  <2>1. \A j \in e + 1 .. n : j = e + 1 \/ j = e + 2 \/ j = e + 3 \/ j = e + 4
                                \/ (j = e + 5 /\ n = e + 5)
    BY <1>1
  <2>2. n = e + 5 => B[e + 5] = CRLF
    BY <1>1
  <2> QED
    BY <1>1, <1>2, <2>1, <2>2
<1> QED
  BY <1>3, <1>4 DEF Late, e, n, V, B

LEMMA FaultInitOK == PayloadInit => FaultInv
<1> SUFFICES ASSUME PayloadInit PROVE FaultInv
  OBVIOUS
<1>1. /\ request \in Request /\ faults = 0 /\ body = Sent(request) /\ pc = "transit" /\ pos = 0
      /\ payload = <<>> /\ trailers = <<>>
  BY DEF PayloadInit
<1>2. request.mode \in Streaming => body \in Seq(SentUnit(request))
  BY <1>1, SentIs
<1>3. request.mode \in Streaming \ Signed /\ request.checksum => LateRun
  BY <1>1, SentIsLate DEF LateRun
<1> QED
  BY <1>1, <1>2, <1>3 DEF FaultInv, OneFault

LEMMA FaultDisturb ==
    ASSUME FaultInv, Disturb
    PROVE  FaultInv'
<1>1. /\ request' = request /\ faults' = faults + 1 /\ pc = "transit"
      /\ UNCHANGED <<pc, pos, payload, trailers, delivered>>
  BY DEF Disturb, decoder
<1>2. request \in Request /\ faults \in Nat /\ faults' \in Nat
  BY <1>1 DEF FaultInv
<1>3. SUFFICES ASSUME faults' <= 1, request.mode \in Streaming \ Signed, request.checksum
               PROVE  OneFault'
  BY <1>1, <1>2 DEF FaultInv
<1>4. faults = 0 /\ faults' # 0
  BY <1>1, <1>2, <1>3
<1>5. OneFault
  BY <1>2, <1>3, <1>4 DEF FaultInv
<1>6. body = Sent(request) /\ pos = 0 /\ payload = <<>> /\ trailers = <<>>
  BY <1>1, <1>4, <1>5 DEF OneFault
<1>7. /\ body' \in Seq(SentUnit(request))
      /\ \/ Late(request, body')
         \/ \E p \in Nat : Early(request, body', p)
         \/ Lost(body')
  BY <1>2, <1>3, <1>6, FaultShape
<1>8. LateRun' \/ EarlyRun' \/ LostRun'
  BY <1>1, <1>7 DEF LateRun, EarlyRun, LostRun
<1> QED
  BY <1>1, <1>4, <1>6, <1>7, <1>8 DEF OneFault

\* A body that is rejected stays what it is.
LEMMA FaultReject ==
    ASSUME request \in Request, OneFault, NEW code, Reject(code), UNCHANGED <<request, body>>,
           pc # "accepted"
    PROVE  OneFault'
<1>1. pc' = "rejected"
  BY DEF Reject
<1>2. LateRun' \/ EarlyRun' \/ LostRun'
  BY <1>1 DEF OneFault, LateRun, EarlyRun, LostRun
<1> QED
  BY <1>1, <1>2 DEF OneFault

LEMMA FaultReadBody ==
    ASSUME request \in Request, request.mode \in Streaming \ Signed, OneFault, ReadBody
    PROVE  OneFault'
<1>1. /\ pc = "transit" /\ UNCHANGED <<request, faults, body, pos, prev, payload, trailers>>
  BY DEF ReadBody, inbound, decoder
<1>2. CASE Len(body) > BodyLimit
  BY <1>1, <1>2, FaultReject DEF ReadBody
<1>3. CASE ~(Len(body) > BodyLimit)
  <2>1. pc' = "chunk"
    BY <1>3 DEF ReadBody, Streaming, Signed
  <2>2. pos = 0 /\ payload = <<>> /\ trailers = <<>>
    BY <1>1 DEF OneFault
  <2>3. AtFrame'
    <3> DEFINE r == request
    <3>1. 0 \in 0 .. Len(r.chunks)
      BY RequestParts
    <3>2. Bytes(FlatOf(r)[0]) = <<>>
      <4>1. FlatOf(r)[0] = <<>>
        BY FlatOfIs DEF IsFlat
      <4>2. Bytes(<<>>) = <<>>
        BY DEF Bytes
      <4> QED
        BY <4>1, <4>2
    <3>3. Len(FrameFlat(r)[0]) = 0
      <4>1. r.mode \in Streaming
        OBVIOUS
      <4>2. FrameFlat(r)[0] = <<>>
        BY <4>1, SentIs
      <4> QED
        BY <4>2
    <3>4. r.mode \notin Signed
      OBVIOUS
    <3> QED
      BY <1>1, <2>2, <3>1, <3>2, <3>3, <3>4 DEF AtFrame
  <2>4. LateRun' \/ EarlyRun' \/ LostRun'
    BY <1>1, <2>1, <2>2, <2>3 DEF OneFault, LateRun, EarlyRun, LostRun
  <2> QED
    BY <1>1, <2>1, <2>2, <2>4 DEF OneFault
<1> QED
  BY <1>2, <1>3

LEMMA FaultDecodeChunk ==
    ASSUME request \in Request, request.mode \in Streaming \ Signed, OneFault, DecodeChunk
    PROVE  OneFault'
<1> DEFINE r == request
           n == Len(r.chunks)
           e == Begin(r)
<1>1. pc = "chunk" /\ UNCHANGED <<request, faults, body>>
  BY DEF DecodeChunk, inbound
<1>2. /\ body \in Seq(SentUnit(r)) /\ pos \in Nat /\ (LateRun \/ EarlyRun \/ LostRun)
      /\ r.mode \in Streaming /\ r.mode \notin Signed
  BY <1>1 DEF OneFault
<1>3. Len(body) \in Nat
  BY <1>2, LenProperties
<1>4. ASSUME NEW a \in Nat, NEW l \in Nat, NEW y \in a + 2 .. l
      PROVE  /\ a + 1 \in a + 1 .. y - 1 /\ y - 1 \in a + 1 .. y - 1
             /\ a + 1 \in 1 .. l /\ y - 1 \in 1 .. l
             /\ y \in Nat
  OBVIOUS
<1>5. ASSUME NEW y \in Nat, NEW p \in Nat, y - 1 = p + 1 PROVE y = p + 2
  BY <1>5
<1>6. CASE \E code : Reject(code)
  BY <1>1, <1>6, FaultReject
<1>7. ASSUME ~\E code : Reject(code), pc' \in {"chunk", "trailer"}, LateRun' \/ EarlyRun' \/ LostRun'
      PROVE  OneFault'
  <2>1. pc' = "chunk" => pos' \in Nat
    BY <1>2, <1>7, ChunkRead
  <2> QED
    BY <1>1, <1>2, <1>7, <2>1 DEF OneFault
<1>8. ASSUME ~\E code : Reject(code), LateRun PROVE OneFault'
  <2>1. Late(r, body) /\ AtFrame
    BY <1>1, <1>8 DEF LateRun
  <2>2. PICK k \in 0 .. n : /\ pos = Len(FrameFlat(r)[k])
                            /\ payload = Bytes(FlatOf(r)[k])
    BY <2>1 DEF AtFrame
  <2>3. CASE k # n
    <3> DEFINE g == Len(FrameFlat(r)[k + 1])
    <3>1. g \in Nat /\ e \in Nat /\ g <= e
      BY <2>3, FrameFits
    <3>2. e <= Len(body) /\ \A j \in 1 .. e : body[j] = Sent(r)[j]
      BY <2>1 DEF Late
    <3>3. g <= Len(body) /\ \A j \in 1 .. g : j \in 1 .. e
      <4> HIDE DEF g, e
      <4> QED
        BY <1>3, <3>1, <3>2
    <3>4. AtFrame' /\ pc' = pc
      BY <1>2, <2>2, <2>3, <3>2, <3>3, FrameStep
    <3>5. LateRun'
      BY <1>1, <2>1, <3>4 DEF LateRun
    <3> QED
      BY <1>1, <1>7, <1>8, <3>4, <3>5
  <2>4. CASE k = n
    <3>1. pos = e /\ payload = Bytes(Whole(r))
      BY <2>2, <2>4, FlatOfIs DEF Begin
    <3>2. \A j \in pos + 1 .. Len(body) : body[j].kind = "size" => Zero(body[j])
      <4>1. \A j \in pos + 1 .. Len(body) : body[j] \in TailUnit(r)
        BY <2>1, <3>1 DEF Late
      <4> QED
        BY <4>1, UnitKinds DEF TailUnit, Zero
    <3>3. pc' = "trailer" /\ payload' = payload
      BY <1>2, <1>8, <3>2, ChunkRead
    <3>4. LateRun'
      BY <1>1, <2>1, <3>1, <3>3 DEF LateRun
    <3> QED
      BY <1>7, <1>8, <3>3, <3>4
  <2> QED
    BY <2>3, <2>4
<1>9. ASSUME ~\E code : Reject(code), EarlyRun PROVE OneFault'
  <2>1. PICK p \in Nat : Early(r, body, p) /\ trailers = <<>>
    BY <1>1, <1>9 DEF EarlyRun
  <2>2. CASE pc' = "chunk" /\ trailers' = trailers
    <3>1. EarlyRun'
      BY <1>1, <2>1, <2>2 DEF EarlyRun
    <3> QED
      BY <1>7, <1>9, <2>2, <3>1
  <2>3. CASE /\ pc' = "trailer" /\ trailers' = trailers /\ pos' \in pos + 2 .. Len(body)
             /\ \A j \in pos + 1 .. pos' - 1 : Zero(body[j])
    <3>1. \A j \in 1 .. Len(body) : j # p + 1 => ~Zero(body[j])
      BY <2>1 DEF Early
    <3> DEFINE x == pos'
    <3>2. /\ x \in pos + 2 .. Len(body) /\ pos + 1 \in pos + 1 .. x - 1 /\ x - 1 \in pos + 1 .. x - 1
          /\ pos + 1 \in 1 .. Len(body) /\ x - 1 \in 1 .. Len(body)
      BY <1>2, <1>3, <1>4, <2>3
    <3>3. pos + 1 = p + 1 /\ x - 1 = p + 1
      BY <2>3, <3>1, <3>2
    <3>4. x = p + 2
      <4>1. x \in Nat /\ x - 1 = p + 1
        BY <1>2, <1>3, <1>4, <3>2, <3>3
      <4> HIDE DEF x
      <4> QED
        BY <1>5, <4>1
    <3>5. EarlyRun'
      BY <1>1, <2>1, <2>3, <3>4 DEF EarlyRun
    <3> QED
      BY <1>7, <1>9, <2>3, <3>5
  <2> QED
    BY <1>2, <1>9, <2>2, <2>3, ChunkRead
<1>10. ASSUME ~\E code : Reject(code), LostRun PROVE OneFault'
  <2>1. Lost(body)
    BY <1>10 DEF LostRun
  <2>2. CASE pc' = "chunk"
    <3>1. LostRun'
      BY <1>1, <2>1, <2>2 DEF LostRun
    <3> QED
      BY <1>7, <1>10, <2>2, <3>1
  <2>3. CASE /\ pc' = "trailer" /\ pos' \in pos + 2 .. Len(body)
             /\ \A j \in pos + 1 .. pos' - 1 : Zero(body[j])
    <3>1. pos + 1 \in pos + 1 .. pos' - 1 /\ pos + 1 \in 1 .. Len(body)
      BY <1>2, <1>3, <1>4, <2>3
    <3> QED
      BY <2>1, <2>3, <3>1 DEF Lost
  <2> QED
    BY <1>2, <1>10, <2>2, <2>3, ChunkRead
<1> QED
  BY <1>2, <1>6, <1>8, <1>9, <1>10

\* A blank line with something behind it is not the end.
LEMMA NotBlankRead ==
    ASSUME NEW U, body \in Seq(U), pos \in Nat, DecodeTrailer, body[pos + 1] = CRLF,
           pos + 3 <= Len(body)
    PROVE  \E code : Reject(code)
<1>0. Len(body) \in Nat /\ \A k \in 1 .. Len(body) : body[k] \in U
  BY LenProperties, ElementOfSeq
<1>1. pos + 1 <= Len(body)
  BY <1>0
<1>2. HasLine(pos) /\ AfterLine(pos) = pos + 1 /\ BodyLine(pos) = <<>>
  BY <1>1, BlankAt
<1>3. ~RestIsBlank(pos + 1)
  <2> DEFINE a == (pos + 1) + 1
             n == Len(body)
             w == SubSeq(body, a, n)
  <2>1. a \in Int /\ n \in Int /\ a <= n /\ (n - a) + 1 # 1 /\ pos + 1 # n
    BY <1>0
  <2>2. \A k \in a .. n : k \in 1 .. n
    BY <1>0
  <2>3. \A k \in a .. n : body[k] \in U
    BY <1>0, <2>2
  <2> HIDE DEF a, n
  <2>4. Len(w) = (n - a) + 1
    BY <2>1, <2>3, SubSeqProperties
  <2>5. Len(<<CRLF>>) = 1
    OBVIOUS
  <2> HIDE DEF w
  <2>6. w # <<CRLF>>
    BY <2>1, <2>4, <2>5
  <2> QED
    BY <2>1, <2>6 DEF RestIsBlank, a, n, w
<1> QED
  BY <1>2, <1>3 DEF DecodeTrailer

LEMMA FaultDecodeTrailer ==
    ASSUME request \in Request, request.mode \in Streaming \ Signed, OneFault, DecodeTrailer
    PROVE  OneFault'
<1> DEFINE r == request
           U == SentUnit(r)
<1>1. pc = "trailer" /\ UNCHANGED <<request, faults, body, payload>>
  BY DEF DecodeTrailer, inbound
<1>2. body \in Seq(U) /\ (LateRun \/ EarlyRun) /\ r.mode \in Trailing
  BY <1>1 DEF OneFault, LostRun, Streaming, Signed, Trailing
<1>3. CASE \E code : Reject(code)
  BY <1>1, <1>3, FaultReject
<1>4. CASE ~\E code : Reject(code)
  <2>1. pc' \in {"trailer", "payload"}
    BY <1>1, <1>4 DEF DecodeTrailer
  <2>2. SUFFICES LateRun' \/ EarlyRun'
    BY <1>1, <1>2, <2>1 DEF OneFault
  <2>3. CASE LateRun
    BY <1>1, <2>1, <2>3 DEF LateRun
  <2>4. CASE EarlyRun
    <3> DEFINE T == Trailer(Bytes(Whole(r)))
    <3>1. PICK p \in Nat : /\ Early(r, body, p)
                           /\ \/ pos = p + 2 /\ trailers = <<>>
                              \/ /\ pos = p + 4 /\ trailers = <<ItsTrailer(r)>>
                                 /\ body[p + 3] # CRLF
      BY <1>1, <2>4 DEF EarlyRun
    <3>2. /\ p + 4 <= Len(body)
          /\ \/ /\ body[p + 3] = T /\ body[p + 4] = CRLF
                /\ p + 4 = Len(body) \/ (p + 5 = Len(body) /\ body[p + 5] = CRLF)
             \/ body[p + 3] = CRLF /\ p + 5 <= Len(body)
      BY <3>1 DEF Early
    <3>3. T # CRLF
      <4>1. T.kind = "trailer" /\ CRLF.kind = "crlf"
        BY UnitKinds
      <4> QED
        BY <4>1
    <3> HIDE DEF T
    <3>4. /\ (p + 2) + 1 = p + 3 /\ (p + 2) + 2 = p + 4 /\ (p + 2) + 3 = p + 5 /\ (p + 4) + 1 = p + 5
          /\ p + 2 \in Nat /\ p + 4 \in Nat
      OBVIOUS
    <3>5. CASE pos = p + 2 /\ trailers = <<>> /\ body[p + 3] = CRLF
      <4>1. p + 5 <= Len(body)
        BY <3>2, <3>3, <3>5
      <4> QED
        BY <1>2, <1>4, <3>4, <3>5, <4>1, NotBlankRead
    <3>6. CASE pos = p + 2 /\ trailers = <<>> /\ body[p + 3] # CRLF
      <4>1. body[p + 3] = T /\ body[p + 4] = CRLF
        BY <3>2, <3>6
      <4>2. trailers' = Append(trailers, [checksum |-> TRUE, of |-> Bytes(Whole(r))])
            /\ pos' = pos + 2 /\ pc' = "trailer"
        <5>1. body[pos + 1] = Trailer(Bytes(Whole(r))) /\ body[pos + 2] = CRLF /\ pos \in Nat
              /\ pos + 2 <= Len(body)
          BY <3>2, <3>4, <3>6, <4>1 DEF T
        <5> QED
          BY <1>2, <5>1, TrailerRead
      <4>3. trailers' = <<ItsTrailer(r)>> /\ pos' = p + 4
        BY <3>4, <3>6, <4>2 DEF ItsTrailer
      <4>4. EarlyRun'
        BY <1>1, <3>1, <3>6, <4>2, <4>3 DEF EarlyRun
      <4> QED
        BY <4>4
    <3>7. CASE pos = p + 4 /\ trailers = <<ItsTrailer(r)>> /\ body[p + 3] # CRLF
      <4>1. pos = Len(body) \/ (pos + 1 = Len(body) /\ body[pos + 1] = CRLF)
        BY <3>2, <3>4, <3>7
      <4>2. pc' = "payload" /\ trailers' = trailers
        BY <1>2, <3>4, <3>7, <4>1, ClosingRead
      <4>3. EarlyRun'
        BY <1>1, <3>1, <3>7, <4>2 DEF EarlyRun
      <4> QED
        BY <4>3
    <3> QED
      BY <3>1, <3>5, <3>6, <3>7
  <2> QED
    BY <1>2, <2>3, <2>4
<1> QED
  BY <1>3, <1>4

LEMMA FaultVerifyPayload ==
    ASSUME request \in Request, OneFault, VerifyPayload
    PROVE  OneFault'
<1> DEFINE w == Bytes(Whole(request))
<1>1. pc = "payload" /\ UNCHANGED <<request, faults, body, pos, prev, payload, trailers>>
  BY DEF VerifyPayload, inbound, decoder
<1>2. body \in Seq(SentUnit(request)) /\ (payload = w \/ trailers = <<ItsTrailer(request)>>)
  BY <1>1 DEF OneFault, LateRun, EarlyRun, LostRun
<1>3. CASE \E code : Reject(code)
  BY <1>1, <1>3, FaultReject
<1>4. CASE ~\E code : Reject(code)
  <2>1. verify_trailer_checksum = "Ok" /\ pc' = "accepted" /\ delivered'.payload = payload
    BY <1>4 DEF VerifyPayload, Accept
  <2>2. payload = w
    <3>1. trailers = <<ItsTrailer(request)>> => Checksums # {} /\ Checksum = w
      <4>1. <<ItsTrailer(request)>> \in ItsTrailers(request) \ {<<>>}
        BY DEF ItsTrailers
      <4> QED
        BY <4>1, ChecksumIs
    <3> QED
      BY <1>2, <2>1, <3>1 DEF verify_trailer_checksum
  <2> QED
    BY <1>1, <1>2, <2>1, <2>2 DEF OneFault
<1> QED
  BY <1>3, <1>4

(***************************************************************************)
(* An unsigned body with a checksum is accepted with the client's payload  *)
(* or not at all after one fault, however the client split it and wherever *)
(* the fault is (decode_aws_chunked, verify_trailer_checksum); a signed    *)
(* one after any number of them.                                           *)
(***************************************************************************)
THEOREM OneFaultIsNoticed == Spec => []ChecksumNoticesOneFault
<1>1. Init => FaultInv
  BY FaultInitOK DEF Init, PayloadStill
<1>2. FaultInv /\ [Next]_vars => FaultInv'
  <2> SUFFICES ASSUME FaultInv, [Next]_vars PROVE FaultInv'
    OBVIOUS
  <2>1. CASE UNCHANGED payloadVars
    <3>1. UNCHANGED <<request, faults, body, pc, pos, prev, payload, trailers, delivered>>
      BY <2>1 DEF payloadVars, inbound, decoder
    <3>2. OneFault' <=> OneFault
      BY <3>1 DEF OneFault, LateRun, EarlyRun, LostRun, AtFrame
    <3> QED
      BY <3>1, <3>2 DEF FaultInv
  <2>2. CASE Decode
    <3>1. request' = request /\ faults' = faults /\ request \in Request
      BY <2>2 DEF Decode, ReadBody, DecodeChunk, DecodeTrailer, VerifyPayload, inbound, FaultInv
    <3>2. ASSUME OneFault, request.mode \in Streaming \ Signed PROVE OneFault'
      BY <2>2, <3>1, <3>2, FaultReadBody, FaultDecodeChunk, FaultDecodeTrailer, FaultVerifyPayload
         DEF Decode
    <3> QED
      BY <3>1, <3>2 DEF FaultInv
  <2>3. CASE ConnectionFails
    <3>1. /\ pc = "transit" /\ UNCHANGED <<request, body>> /\ faults' = faults + 1
          /\ Reject("InvalidRequest")
      BY <2>3 DEF ConnectionFails
    <3>2. request \in Request /\ faults \in Nat /\ faults' \in Nat /\ (faults' <= 1 => faults <= 1)
      BY <3>1 DEF FaultInv
    <3>3. OneFault => OneFault'
      BY <3>1, <3>2, FaultReject
    <3> QED
      BY <3>1, <3>2, <3>3 DEF FaultInv
  <2>4. UNCHANGED payloadVars \/ PayloadNext
    BY DEF Next, vars
  <2> QED
    BY <2>1, <2>2, <2>3, <2>4, FaultDisturb DEF PayloadNext
<1>3. FaultInv /\ SignedPayloadIntact => ChecksumNoticesOneFault
  BY DEF FaultInv, OneFault, SignedPayloadIntact, ChecksumNoticesOneFault, Accepted
<1> QED
  BY <1>1, <1>2, <1>3, PayloadsIntact, PTL DEF Spec

=============================================================================
