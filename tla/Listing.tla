------------------------------ MODULE Listing ------------------------------
(***************************************************************************)
(* Listing a bucket page by page: list_page and list_objects of the SQLite *)
(* driver below, ListObjects V1 and V2 of rgw-rest-s3 above, and a client  *)
(* that follows the markers it is given while objects come and go between  *)
(* its pages.  Each page is one driver call, so one step.                  *)
(*                                                                         *)
(* Here names are strings, as sequences of characters: prefixes and        *)
(* delimiters are what this module is about.                               *)
(***************************************************************************)
EXTENDS Integers, FiniteSets, SequencesExt

CONSTANTS
    Name,       \* the object names that exist or may be put
    ListArgs,   \* the queries the client may start with
    MAX_KEYS    \* 1000 in the code

\* Rust's Option.
Absent     == <<>>
Present(x) == <<x>>

ASSUME ListingAssumption ==
    /\ \A n \in Name : n \in Seq(Nat) \ {<<>>}
    /\ MAX_KEYS \in Nat \ {0}
    /\ \A q \in ListArgs : /\ q.version \in {1, 2}
                           /\ {q.prefix, q.delimiter} \subseteq Seq(Nat)
                           /\ q.start = Absent \/ q.start[1] \in Seq(Nat)
                           /\ q.max_keys = Absent \/ q.max_keys[1] \in Int

VARIABLES
    names,    \* the names in the bucket
    lister    \* the client: its query, the marker it was given, what it has seen

vars == <<names, lister>>

-----------------------------------------------------------------------------
(* Names in the byte order SQLite and Rust agree on *)

Less(s, t) ==
    \E i \in 1..Len(t) : /\ \A j \in 1..(i - 1) : j <= Len(s) /\ s[j] = t[j]
                         /\ i > Len(s) \/ s[i] < t[i]

AtMostMarker(s, t) == s = t \/ Less(s, t)

InOrder(S) ==
    [i \in 1..Cardinality(S) |-> CHOOSE s \in S : Cardinality({t \in S : Less(t, s)}) = i - 1]

FirstOf(S, max) == {s \in S : Cardinality({t \in S : Less(t, s)}) < max}

-----------------------------------------------------------------------------
(* The driver *)

\* list_objects: WHERE name > marker AND the name starts with the prefix.
Rows(prefix, marker) == {n \in names : Less(marker, n) /\ IsPrefix(prefix, n)}

\* The places where the delimiter starts in a name, from a position on.
Delimited(name, delimiter, from) ==
    {i \in from..(Len(name) - Len(delimiter) + 1) :
        SubSeq(name, i, i + Len(delimiter) - 1) = delimiter}

\* Mutant of common_prefix: the delimiter is looked for in the prefix too.
CommonPrefixOfName(name, prefix, delimiter) ==
    LET at == Delimited(name, delimiter, 1)
    IN  IF delimiter = <<>> \/ at = {} THEN Absent
        ELSE Present(SubSeq(name, 1, Min(at) + Len(delimiter) - 1))

\* What a name rolls up into: everything through the first delimiter after the prefix.
common_prefix(name, prefix, delimiter) ==
    LET at == Delimited(name, delimiter, Len(prefix) + 1)
    IN  IF delimiter = <<>> \/ at = {} THEN Absent
        ELSE Present(SubSeq(name, 1, Min(at) + Len(delimiter) - 1))

\* What a row is shown as: itself, or the prefix it rolls up into.
Entry(n, p) ==
    LET cp == common_prefix(n, p.prefix, p.delimiter) IN IF cp = Absent THEN n ELSE cp[1]

RollsUp(n, p) == common_prefix(n, p.prefix, p.delimiter) # Absent

\* last_prefix when the loop gets to row n: the prefix shown last, that of the last row before
\* it that rolls up into one beyond the marker.
LastPrefix(rows, n, p) ==
    LET before == {m \in rows : /\ Less(m, n) /\ RollsUp(m, p)
                                /\ ~AtMostMarker(Entry(m, p), p.marker)}
    IN  IF before = {} THEN Absent
        ELSE Present(Entry(CHOOSE m \in before : \A k \in before : ~Less(m, k), p))

\* Mutant of Skipped: a prefix that an earlier page ended with is shown again.
SkippedHereOnly(rows, n, p) ==
    RollsUp(n, p) /\ LastPrefix(rows, n, p) = Present(Entry(n, p))

\* The loop passes over a row whose prefix was the last one shown, or that the marker is past.
Skipped(rows, n, p) ==
    RollsUp(n, p) /\ (\/ LastPrefix(rows, n, p) = Present(Entry(n, p))
                      \/ AtMostMarker(Entry(n, p), p.marker))

EmptyPage == [entries |-> <<>>, is_truncated |-> FALSE, next_marker |-> <<>>]

\* Mutant of PageOver: the page resumes after the row that did not fit.
PageOverNext(kept, p) ==
    LET page == InOrder(FirstOf(kept, p.max_keys))
        next == InOrder(FirstOf(kept, p.max_keys + 1))
    IN  [entries      |-> [i \in DOMAIN page |-> Entry(page[i], p)],
         is_truncated |-> Cardinality(kept) > p.max_keys,
         next_marker  |-> IF next = <<>> THEN <<>> ELSE Entry(next[Len(next)], p)]

\* The rows that are kept go on the page in order until it is full; a row left truncates it.
PageOver(kept, p) ==
    LET page == InOrder(FirstOf(kept, p.max_keys))
    IN  [entries      |-> [i \in DOMAIN page |-> Entry(page[i], p)],
         is_truncated |-> Cardinality(kept) > p.max_keys,
         next_marker  |-> IF page = <<>> THEN <<>> ELSE Entry(page[Len(page)], p)]

(***************************************************************************)
(* list_page's one pass over the rows in order; keys and common prefixes   *)
(* are kept in one sequence, which is how they are counted and paged.      *)
(***************************************************************************)
list_page(p) ==
    LET rows == Rows(p.prefix, p.marker)
    IN  PageOver({n \in rows : ~Skipped(rows, n, p)}, p)

-----------------------------------------------------------------------------
(* ListObjects *)

\* parse_max_keys, when the argument is not negative: a default and a ceiling.
parse_max_keys(v) == IF v = Absent \/ v[1] > MAX_KEYS THEN MAX_KEYS ELSE v[1]

\* Common::list: max-keys=0 is an empty page and never reaches the driver.
ListPage(q, marker) ==
    IF parse_max_keys(q.max_keys) = 0 THEN EmptyPage
    ELSE list_page([prefix |-> q.prefix, delimiter |-> q.delimiter, marker |-> marker,
                    max_keys |-> parse_max_keys(q.max_keys)])

\* next_marker: where a truncated page resumes.  This driver never leaves it empty, so the
\* fallback to the last entry is not reached.
next_marker(page) == IF page.is_truncated THEN Present(page.next_marker) ELSE Absent

\* The `marker` or `start-after` argument, empty when there is none.
StartOf(q) == IF q.start = Absent THEN <<>> ELSE q.start[1]

\* Mutant of MarkerOf: start-after takes precedence over the continuation token.
MarkerOfStart(q, token) ==
    IF q.version = 2 /\ q.start # Absent THEN q.start[1]
    ELSE IF token # Absent THEN token[1] ELSE StartOf(q)

(***************************************************************************)
(* The marker of the next request.  A V1 client puts the NextMarker it was *)
(* given into `marker`; a V2 client sends it as continuation-token next to *)
(* the start-after it began with, and the token takes precedence.          *)
(***************************************************************************)
MarkerOf(q, token) == IF token # Absent THEN token[1] ELSE StartOf(q)

-----------------------------------------------------------------------------
(* The client and the bucket *)

NotListing ==
    [pc |-> "idle", query |-> Absent, token |-> Absent, seen |-> <<>>, steady |-> {}]

Init == names \in SUBSET Name /\ IsFiniteSet(names) /\ lister = NotListing

\* A negative max-keys is InvalidArgument; any other query starts a listing.
Begin(q) ==
    /\ lister.pc # "listing"
    /\ lister' = IF q.max_keys # Absent /\ q.max_keys[1] < 0
                 THEN [NotListing EXCEPT !.pc = "refused"]
                 ELSE [NotListing EXCEPT !.pc = "listing", !.query = Present(q), !.steady = names]
    /\ UNCHANGED names

FetchPage ==
    /\ lister.pc = "listing"
    /\ \E page \in {ListPage(lister.query[1], MarkerOf(lister.query[1], lister.token))} :
          lister' = [lister EXCEPT !.seen = @ \o page.entries,
                                   !.token = next_marker(page),
                                   !.pc = IF page.is_truncated THEN "listing" ELSE "done"]
    /\ UNCHANGED names

\* Other requests, between the client's pages.  `steady` is what was there all along.
PutName(n) == names' = names \cup {n} /\ UNCHANGED lister

DeleteName(n) ==
    /\ names' = names \ {n}
    /\ lister' = [lister EXCEPT !.steady = @ \ {n}]

Next ==
    \/ \E q \in ListArgs : Begin(q)
    \/ FetchPage
    \/ \E n \in Name \ names : lister.pc = "listing" /\ PutName(n)
    \/ \E n \in names : lister.pc = "listing" /\ DeleteName(n)

Spec == Init /\ [][Next]_vars

-----------------------------------------------------------------------------
\* What a name is to be shown as: its shortest part that ends in the delimiter, prefix aside.
Shown(n, q) ==
    LET cuts == {k \in (Len(q.prefix) + Len(q.delimiter))..Len(n) :
                    IsSuffix(q.delimiter, SubSeq(n, 1, k))}
    IN  IF q.delimiter = <<>> \/ cuts = {} THEN n ELSE SubSeq(n, 1, Min(cuts))

\* What there is to list after a marker.
Listed(q, marker) ==
    {e \in {Shown(n, q) : n \in {m \in names : IsPrefix(q.prefix, m)}} : Less(marker, e)}

(***************************************************************************)
(* A page holds the first max-keys entries after the marker, keys and      *)
(* common prefixes counted together, and says whether there are more: the  *)
(* loop of list_page against the definition in ListParams and ListResult.  *)
(***************************************************************************)
PageHoldsFirstEntries ==
    lister.pc = "listing" =>
        LET q      == lister.query[1]
            marker == MarkerOf(q, lister.token)
            max    == parse_max_keys(q.max_keys)
            all    == Listed(q, marker)
            page   == ListPage(q, marker)
        IN  max > 0 => /\ ToSet(page.entries) = FirstOf(all, max)
                       /\ page.is_truncated <=> Cardinality(all) > max

(***************************************************************************)
(* Over all its pages a listing shows its keys and common prefixes in      *)
(* order and each one once, although a page may end inside a prefix and    *)
(* keys appear and disappear behind it.                                    *)
(***************************************************************************)
ListedInOrderOnce ==
    \A i, j \in DOMAIN lister.seen : i < j => Less(lister.seen[i], lister.seen[j])

(***************************************************************************)
(* A finished listing shows every key after its start that was there all   *)
(* along, as itself or as the prefix it rolls up into, whatever other      *)
(* requests put and deleted between its pages.                             *)
(***************************************************************************)
SteadyKeysListed ==
    lister.pc = "done" /\ parse_max_keys(lister.query[1].max_keys) > 0 =>
        LET q == lister.query[1]
        IN  \A n \in lister.steady :
               IsPrefix(q.prefix, n) /\ Less(StartOf(q), Shown(n, q)) =>
                   Shown(n, q) \in ToSet(lister.seen)

(***************************************************************************)
(* A truncated page hands out a marker beyond the one it was asked with,   *)
(* whatever happened to the keys in between: a client that follows the     *)
(* markers through finitely many names gets to the end.                    *)
(***************************************************************************)
MarkersAdvance ==
    [][lister.token # Absent /\ lister'.token # Absent /\ UNCHANGED names =>
          Less(lister.token[1], lister'.token[1])]_vars

=============================================================================
