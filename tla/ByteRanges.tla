----------------------------- MODULE ByteRanges -----------------------------
(***************************************************************************)
(* The HTTP Range header, from its text to the bytes the store returns.    *)
(* Two functions resolve a range against an object's size: the driver's,   *)
(* which serves GET, and the S3 layer's, which serves HEAD and never asks  *)
(* the driver for data.  A client must not be able to tell them apart.     *)
(***************************************************************************)
EXTENDS Integers

CONSTANT U64Max   \* the largest number `str::parse::<u64>` accepts

ASSUME U64MaxAssumption == U64Max \in Nat

(***************************************************************************)
(* A header is abstracted to what parse_range tells apart: whether the     *)
(* `bytes=` prefix is there, whether a comma makes it a list, whether a    *)
(* dash splits it, and on each side of the dash nothing (Blank), something *)
(* that is not all digits (Junk), or the number the digits denote.         *)
(***************************************************************************)
Blank == -1
Junk  == -2
Token == Nat \cup {Blank, Junk}

RangeHeader == [bytes: BOOLEAN, list: BOOLEAN, dash: BOOLEAN, start: Token, end: Token]

\* ByteRange::Absolute with `end: None`.
Open == -1

\* rgw_sal::ByteRange
Absolute(start, end) == [kind |-> "Absolute", start |-> start, end |-> end]
Suffix(n)            == [kind |-> "Suffix", start |-> n, end |-> Open]

ByteRange == [kind: {"Absolute", "Suffix"}, start: Nat, end: Nat \cup {Open}]

\* `None`: no range was asked for, or the header is one the server ignores.
NoRange == [kind |-> "None", start |-> 0, end |-> Open]

\* `num`: digits only, and small enough for u64.
IsNum(token) == token \in Nat /\ token <= U64Max

parse_range(h) ==
    IF ~h.bytes \/ h.list \/ ~h.dash THEN NoRange
    ELSE IF h.start = Blank
         THEN IF IsNum(h.end) THEN Suffix(h.end) ELSE NoRange
    ELSE IF ~IsNum(h.start) THEN NoRange
    ELSE IF h.end = Blank THEN Absolute(h.start, Open)
    ELSE IF IsNum(h.end) /\ h.start <= h.end THEN Absolute(h.start, h.end)
    ELSE NoRange

-----------------------------------------------------------------------------
(***************************************************************************)
(* A resolved range is <<start, end>>, both inclusive; Unsatisfiable is    *)
(* `None` in the S3 layer and `InvalidRange` in the driver.                *)
(***************************************************************************)
Unsatisfiable == <<>>

AtMost(m, n) == IF m <= n THEN m ELSE n

\* Mutant of s3_resolve_range: `end` is not clamped to the last byte.
s3_resolve_range_unclamped(r, size) ==
    IF size = 0 \/ (r.kind = "Suffix" /\ r.start = 0) THEN Unsatisfiable
    ELSE IF r.kind = "Suffix" THEN <<size - AtMost(r.start, size), size - 1>>
    ELSE IF r.start >= size THEN Unsatisfiable
    ELSE <<r.start, IF r.end = Open THEN size - 1 ELSE r.end>>

\* rgw-rest-s3: resolve_range, used by HEAD.
s3_resolve_range(r, size) ==
    IF size = 0 THEN Unsatisfiable
    ELSE LET last == size - 1
         IN  IF r.kind = "Absolute"
             THEN IF r.start <= last
                  THEN <<r.start, IF r.end = Open THEN last ELSE AtMost(r.end, last)>>
                  ELSE Unsatisfiable
             ELSE IF r.start = 0 THEN Unsatisfiable
             ELSE <<IF r.start > size THEN 0 ELSE size - r.start, last>>

\* rgw-sal-sqlite: resolve_range, used by get_object.
driver_resolve_range(r, size) ==
    IF size = 0 THEN Unsatisfiable
    ELSE LET last == size - 1
         IN  IF r.kind = "Absolute"
             THEN LET end == IF r.end = Open THEN last ELSE AtMost(r.end, last)
                  IN  IF r.start > last \/ end < r.start
                      THEN Unsatisfiable
                      ELSE <<r.start, end>>
             ELSE IF r.start = 0 THEN Unsatisfiable
             ELSE <<size - AtMost(r.start, size), last>>

\* Mutant of substr_args: forgets that substr() counts from one.
substr_args_zero_based(resolved, size) ==
    IF resolved = Unsatisfiable
    THEN [from |-> 0, len |-> size]
    ELSE [from |-> resolved[1], len |-> resolved[2] - resolved[1] + 1]

\* The arguments get_object passes to SQLite's one-based substr().
substr_args(resolved, size) ==
    IF resolved = Unsatisfiable
    THEN [from |-> 1, len |-> size]
    ELSE [from |-> resolved[1] + 1, len |-> resolved[2] - resolved[1] + 1]

-----------------------------------------------------------------------------
(***************************************************************************)
(* What a range means, byte by byte: the contract on Driver::get_object.   *)
(***************************************************************************)
Selected(r, size) ==
    {i \in 0 .. size - 1 :
        IF r.kind = "Absolute"
        THEN r.start <= i /\ (r.end = Open \/ i <= r.end)
        ELSE size - r.start <= i}

\* The bytes substr(data, from, len) yields for a blob of `size` bytes.
Substr(args, size) ==
    {i \in 0 .. size - 1 : args.from <= i + 1 /\ i + 1 < args.from + args.len}

=============================================================================
