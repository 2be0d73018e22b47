------------------------------ MODULE UserCaps ------------------------------
(***************************************************************************)
(* The capabilities of a user: a map from capability types to permission   *)
(* bits in memory, a list of entries with a permission in words in the     *)
(* stored record, and a string of items in a request.  AdminOps works with *)
(* a set of <<type, bit>> pairs instead; here the set runs beside the real *)
(* thing.                                                                  *)
(*                                                                         *)
(* A request string is the sequence of its nonblank items; an item has a   *)
(* type, an equals sign or none, and the words of its permission.  Types   *)
(* are numbers in the order of their names.                                *)
(***************************************************************************)
EXTENDS Integers, Sequences, FiniteSets

CONSTANTS
    VALID_CAP_TYPES,   \* the types the server knows
    CapsString         \* the strings administrators send

Item == [type: Nat, equals: BOOLEAN, perm: Seq(STRING)]

\* The server's list of types is finite, and splitting a permission gives a word at least.
ASSUME CapsAssumption ==
    /\ VALID_CAP_TYPES \subseteq Nat /\ IsFiniteSet(VALID_CAP_TYPES)
    /\ CapsString \subseteq Seq(Item)
    /\ \A items \in CapsString : \A i \in DOMAIN items : items[i].equals => items[i].perm # <<>>

VARIABLES
    record,   \* the "caps" list of the stored user record
    pairs     \* the same as AdminOps has it

capsVars == <<record, pairs>>

-----------------------------------------------------------------------------
(* Permissions *)

READ  == {"r"}
WRITE == {"w"}
ALL   == READ \cup WRITE

Invalid == {"invalid"}

Word(part) == CASE part = "*" -> ALL
                [] part = "read" -> READ
                [] part = "write" -> WRITE
                [] OTHER -> Invalid

\* CapPerm::parse: an unknown word, the empty one too, fails the whole string.
parse(parts) ==
    LET bits == UNION {Word(parts[i]) : i \in DOMAIN parts}
    IN  IF Invalid \subseteq bits THEN Invalid ELSE bits

\* Display for CapPerm, as the words CapPerm::parse splits it into.
Displayed(perm) == CASE perm = ALL -> <<"*">>
                     [] perm = READ -> <<"read">>
                     [] perm = WRITE -> <<"write">>
                     [] OTHER -> <<"<invalid>">>

-----------------------------------------------------------------------------
(* The map *)

Empty == [t \in {} |-> {}]

Unreadable == [t \in {0} |-> Invalid]

Perm(caps, t) == IF t \in DOMAIN caps THEN caps[t] ELSE {}

\* UserCaps::add; a failure is Unreadable and stays so.
add(caps, t, perm) ==
    IF caps = Unreadable \/ t \notin VALID_CAP_TYPES \/ perm = Invalid THEN Unreadable
    ELSE [u \in DOMAIN caps \cup {t} |-> IF u = t THEN Perm(caps, t) \cup perm ELSE caps[u]]

\* Mutant of remove: an entry stays when its last bit is gone.
remove_keeps_entry(caps, t, perm) ==
    IF t \in DOMAIN caps THEN [caps EXCEPT ![t] = @ \ perm] ELSE caps

\* UserCaps::remove.
remove(caps, t, perm) ==
    LET left == Perm(caps, t) \ perm
    IN  IF left = {} THEN [u \in DOMAIN caps \ {t} |-> caps[u]] ELSE [caps EXCEPT ![t] = left]

\* add_from_string, on new capabilities (parse_caps).
parse_caps(items) ==
    LET caps[i \in 0 .. Len(items)] ==
            IF i = 0 THEN Empty
            ELSE IF items[i].equals THEN add(caps[i - 1], items[i].type, parse(items[i].perm))
            ELSE Unreadable
    IN  caps[Len(items)]

\* check_cap.
check_cap(caps, t, perm) == t \in DOMAIN caps /\ perm \subseteq caps[t]

\* The types of a map in the order of a BTreeMap.
InOrder(types) ==
    CHOOSE order \in [1 .. Cardinality(types) -> types] :
        \A i, j \in 1 .. Cardinality(types) : i < j => order[i] < order[j]

serialize(caps) ==
    [i \in 1 .. Cardinality(DOMAIN caps) |->
        LET t == InOrder(DOMAIN caps)[i] IN [cap_type |-> t, perm |-> Displayed(caps[t])]]

deserialize(entries) ==
    LET caps[i \in 0 .. Len(entries)] ==
            IF i = 0 THEN Empty
            ELSE add(caps[i - 1], entries[i].cap_type, parse(entries[i].perm))
    IN  caps[Len(entries)]

-----------------------------------------------------------------------------
(* Operations *)

\* The loops over the capabilities of a request, in the order of its map.
AddAll(caps, parsed) ==
    LET n == Cardinality(DOMAIN parsed)
        after[i \in 0 .. n] ==
            IF i = 0 THEN caps
            ELSE LET t == InOrder(DOMAIN parsed)[i] IN add(after[i - 1], t, parsed[t])
    IN  after[n]

RemoveAll(caps, parsed) ==
    LET n == Cardinality(DOMAIN parsed)
        after[i \in 0 .. n] ==
            IF i = 0 THEN caps
            ELSE LET t == InOrder(DOMAIN parsed)[i] IN remove(after[i - 1], t, parsed[t])
    IN  after[n]

PairsOf(caps) == {pair \in (DOMAIN caps) \X ALL : pair[2] \in caps[pair[1]]}

\* A request string that fails, or a record that cannot be read, stores nothing.
Usable(items) == items # <<>> /\ parse_caps(items) # Unreadable /\ deserialize(record) # Unreadable

caps_add ==
    \E items \in CapsString :
        /\ Usable(items)
        /\ record' = serialize(AddAll(deserialize(record), parse_caps(items)))
        /\ pairs' = pairs \cup PairsOf(parse_caps(items))

caps_remove ==
    \E items \in CapsString :
        /\ Usable(items)
        /\ record' = serialize(RemoveAll(deserialize(record), parse_caps(items)))
        /\ pairs' = pairs \ PairsOf(parse_caps(items))

CapsInit == record = <<>> /\ pairs = {}

CapsNext == caps_add \/ caps_remove

-----------------------------------------------------------------------------
(***************************************************************************)
(* The stored list can always be read again, and check_cap on what is read *)
(* agrees with the set of pairs: no sequence of grants and removals leaves *)
(* an entry without bits, which would be written as "<invalid>" and make   *)
(* the whole user record unreadable, and with it the user's keys.          *)
(***************************************************************************)
CapsReadBackAsPairs ==
    /\ deserialize(record) # Unreadable
    /\ \A t \in VALID_CAP_TYPES, perm \in {READ, WRITE, ALL} :
          check_cap(deserialize(record), t, perm) <=> {t} \X perm \subseteq pairs

=============================================================================
