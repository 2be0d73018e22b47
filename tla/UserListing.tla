---------------------------- MODULE UserListing ----------------------------
(***************************************************************************)
(* Listing the users page by page: list_users of the SQLite driver,        *)
(* user_list of rgw-admin-ops, and list_all_users of radosgw-admin, which  *)
(* follows the markers to the end while other requests create and remove   *)
(* users.  A user id is a pair that is stored, compared and handed out as  *)
(* a marker in its text form; both conversions are modelled on texts, as   *)
(* sequences of characters in byte order.                                  *)
(***************************************************************************)
EXTENDS Listing

CONSTANTS
    Uid,                  \* the texts requests give as uid
    MaxEntries,           \* the max-entries requests ask for; 0 stands for none
    Dollar,               \* the character '$'
    DEFAULT_MAX_ENTRIES   \* 1000 in the code

ASSUME UserListingAssumption ==
    /\ Uid \subseteq Seq(Nat)
    /\ MaxEntries \subseteq Nat
    /\ Dollar \in Nat
    /\ DEFAULT_MAX_ENTRIES \in Nat \ {0}

VARIABLES
    table,   \* users.uid: the text forms of the ids stored
    pager    \* a listing: where it is and what it has shown

userVars == <<table, pager>>

-----------------------------------------------------------------------------
(* UserId *)

\* UserId::parse: the tenant is what comes before the first '$', if there is one.
ParseUid(s) ==
    LET dollars == {i \in DOMAIN s : s[i] = Dollar}
        at      == CHOOSE i \in dollars : \A j \in dollars : i <= j
    IN  IF dollars = {} THEN [tenant |-> <<>>, id |-> s]
        ELSE [tenant |-> SubSeq(s, 1, at - 1), id |-> SubSeq(s, at + 1, Len(s))]

\* Display: tenant$id, or the bare id when the tenant is empty.
UidText(u) == IF u.tenant = <<>> THEN u.id ELSE u.tenant \o <<Dollar>> \o u.id

(***************************************************************************)
(* What is listed is the text of the id parsed from the text stored.  The  *)
(* two differ for a user without a tenant whose id starts with a '$' (uid  *)
(* "$$b" is stored as "$b" and read back as "b"): such a user is shown     *)
(* under another id, and as the last of a page it hands out a marker that  *)
(* passes over users, or leads back.                                       *)
(***************************************************************************)
ReadBack(t) == UidText(ParseUid(t))

\* require_uid.
UidGiven(s) == ParseUid(s).id # <<>>

-----------------------------------------------------------------------------
(* One page *)

\* list_users: WHERE uid > marker ORDER BY uid LIMIT max; the rows, as a set.
list_users(marker, max) == FirstOf({t \in table : Less(marker, t)}, max)

PageSize(max) == IF max = 0 \/ max > DEFAULT_MAX_ENTRIES THEN DEFAULT_MAX_ENTRIES ELSE max

\* The page a set of rows makes: every row is parsed, and the last id is the next marker.
\* `last` is the row that marker was made from, kept for the history below.
PageOfRows(rows, truncated) ==
    LET last == CHOOSE t \in rows : \A r \in rows : ~Less(t, r)
    IN  [ids         |-> {ParseUid(t) : t \in rows},
         truncated   |-> truncated,
         next_marker |-> IF truncated THEN ReadBack(last) ELSE <<>>,
         last        |-> IF truncated THEN last ELSE <<>>]

\* Mutant of user_list: no row more than the page holds is asked for.
user_list_no_look_ahead(marker, max) ==
    LET found == list_users(marker, PageSize(max))
    IN  PageOfRows(FirstOf(found, PageSize(max)), Cardinality(found) > PageSize(max))

\* One row more than the page holds tells whether there is another page.
user_list(marker, max) ==
    LET found == list_users(marker, PageSize(max) + 1)
    IN  PageOfRows(FirstOf(found, PageSize(max)), Cardinality(found) > PageSize(max))

-----------------------------------------------------------------------------
(* A listing, and the requests between its pages *)

\* `misread` is history: the rows that made a marker which is not their own text.
NoPager == [pc |-> "idle", marker |-> <<>>, max |-> 0, seen |-> {}, steady |-> {}, misread |-> {}]

BeginUsers(max) ==
    /\ pager.pc # "listing"
    /\ pager' = [NoPager EXCEPT !.pc = "listing", !.max = max, !.steady = table]
    /\ UNCHANGED table

\* Mutant of FetchUsers: the loop asks with the marker it started with.
FetchUsersSameMarker ==
    /\ pager.pc = "listing"
    /\ \E page \in {user_list(pager.marker, pager.max)} :
          pager' = [pager EXCEPT !.seen = @ \cup {UidText(u) : u \in page.ids},
                                 !.pc = IF page.truncated THEN "listing" ELSE "done"]
    /\ UNCHANGED table

FetchUsers ==
    /\ pager.pc = "listing"
    /\ \E page \in {user_list(pager.marker, pager.max)} :
          pager' = [pager EXCEPT !.seen = @ \cup {UidText(u) : u \in page.ids},
                                 !.marker = page.next_marker,
                                 !.misread = @ \cup ({page.last} \ {page.next_marker}),
                                 !.pc = IF page.truncated THEN "listing" ELSE "done"]
    /\ UNCHANGED table

\* user_create stores the text form of the id; `steady` is what was there all along.
CreateUid(s) ==
    /\ UidGiven(s)
    /\ UidText(ParseUid(s)) \notin table
    /\ table' = table \cup {UidText(ParseUid(s))}
    /\ UNCHANGED pager

RemoveUid(s) ==
    /\ UidGiven(s)
    /\ UidText(ParseUid(s)) \in table
    /\ table' = table \ {UidText(ParseUid(s))}
    /\ pager' = [pager EXCEPT !.steady = @ \ {UidText(ParseUid(s))}]

UsersInit == table = {} /\ pager = NoPager

UsersNext ==
    \/ \E max \in MaxEntries : BeginUsers(max)
    \/ FetchUsers
    \/ \E s \in Uid : CreateUid(s) \/ RemoveUid(s)

\* list_all_users runs on; a client that pages by itself may stop.
FetchAllUsers == pager.max = 0 /\ FetchUsers

-----------------------------------------------------------------------------
\* A page ended on a user whose text reads back as one beyond t: t was passed over.
PassedOver(t) == \E l \in pager.misread : Less(l, t) /\ ~Less(ReadBack(l), t)

(***************************************************************************)
(* A finished listing has shown the id of every user that was there from   *)
(* its first page to its last, whoever was created or removed meanwhile,   *)
(* save those passed over from a user whose id is misread: `radosgw-admin  *)
(* user list` "pages through every id" (user_list, list_all_users).        *)
(***************************************************************************)
SteadyUsersListed ==
    pager.pc = "done" => \A t \in pager.steady : ReadBack(t) \in pager.seen \/ PassedOver(t)

(***************************************************************************)
(* list_all_users shows every user that was there all along: it "pages     *)
(* through every id" (radosgw-admin, main.rs).  It does not hold: a marker *)
(* made from a misread id passes over the users up to it.                  *)
(***************************************************************************)
EveryUserListed ==
    pager.pc = "done" => \A t \in pager.steady : ReadBack(t) \in pager.seen

(***************************************************************************)
(* list_all_users ends: it leaves its loop although users are created and  *)
(* removed behind and ahead of it.  It holds while no id reads back as a   *)
(* smaller one; otherwise a marker may lead back to where a page began     *)
(* (with '!' before '$', "$$!" is stored as "$!" and read back as "!").    *)
(***************************************************************************)
UserListingEnds == (pager.pc = "listing" /\ pager.max = 0) ~> (pager.pc # "listing")

=============================================================================
