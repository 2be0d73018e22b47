----------------------------- MODULE MCListing -----------------------------
(***************************************************************************)
(* The object listings and the user listing for TLC.  They share no state; *)
(* a behaviour is about one of them, `part`.                               *)
(***************************************************************************)
EXTENDS UserListing, TLC

VARIABLE part

mcVars == <<part, vars, userVars>>

-----------------------------------------------------------------------------
(* Object names: characters are 1 '-', 2 '/', 3 'a' in byte order, so keys *)
(* fall on both sides of the delimiter.                                    *)

\* "a", "a-", "a/", "a/a", "a/a/a", "aa"
MCName == {<<3>>, <<3, 1>>, <<3, 2>>, <<3, 2, 3>>, <<3, 2, 3, 2, 3>>, <<3, 3>>}

Query(version, prefix, delimiter, start, max_keys) ==
    [version |-> version, prefix |-> prefix, delimiter |-> delimiter, start |-> start,
     max_keys |-> max_keys]

\* Pages of one and of two keys (the ceiling), the delimiters "/" and "/a", a few odd queries.
MCListArgs ==
    {Query(1, prefix, delimiter, Absent, max) :
        prefix \in {<<>>, <<3, 2>>}, delimiter \in {<<>>, <<2>>}, max \in {Present(1), Absent}}
    \cup {Query(2, <<>>, delimiter, Present(start), Present(1)) :
             delimiter \in {<<2>>, <<2, 3>>}, start \in {<<3>>, <<3, 2>>}}
    \cup {Query(1, <<>>, <<2>>, Absent, Present(n)) : n \in {-1, 0, 5}}

-----------------------------------------------------------------------------
(* User ids: characters are 0 '$', 1 'a', 2 'b'. *)

\* Without an id "", "$", "a$"; with one "a", "$a", "b", "a$a", "$a$a", "a$$b"; misread "$$b".
MCUid ==
    {<<>>, <<0>>, <<1, 0>>, <<1>>, <<0, 1>>, <<2>>, <<1, 0, 1>>, <<0, 1, 0, 1>>, <<1, 0, 0, 2>>,
     <<0, 0, 2>>}

\* "a", and "$$b" and "$$bb", which are stored as "$b" and "$bb" and read back as "b" and "bb".
DollarUid == {<<1>>, <<0, 0, 2>>, <<0, 0, 2, 2>>}

-----------------------------------------------------------------------------
MCInit ==
    /\ part \in {"objects", "users"}
    /\ UsersInit
    /\ IF part = "objects" THEN Init ELSE names = {} /\ lister = NotListing

MCNext ==
    /\ \/ part = "objects" /\ Next /\ UNCHANGED userVars
       \/ part = "users" /\ UsersNext /\ UNCHANGED vars
    /\ UNCHANGED part

MCSpec == MCInit /\ [][MCNext]_mcVars /\ WF_userVars(FetchAllUsers)

=============================================================================
