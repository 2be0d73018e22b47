------------------------------ MODULE MCInputs ------------------------------
(***************************************************************************)
(* What the server makes of what it is sent: ranges, delete lists, bucket  *)
(* names, capability strings, signed requests and bodies.  They share no   *)
(* state; each behaviour is about one of them, `part`, and leaves the      *)
(* others as they start.                                                   *)
(***************************************************************************)
EXTENDS ByteRanges, DeleteXml, BucketNames, UserCaps, SigV4, Payload

CONSTANTS MaxToken,   \* the largest number written in a Range header
          MaxSize     \* the largest object

ASSUME InputsAssumption == MaxToken \in Nat /\ MaxSize \in Nat

VARIABLES part, header, size, served

rangeVars == <<header, size, served>>

vars == <<part, rangeVars, deleteVars, name, capsVars, sigVars, payloadVars>>

-----------------------------------------------------------------------------
(* Ranges: every header over small numbers against every small object.     *)

MCToken == 0 .. MaxToken \cup {Blank, Junk}

\* What GET serves: the parsed range and the bytes read, or nothing yet.
Pending == [range |-> NoRange, resolved |-> Unsatisfiable, bytes |-> {}, done |-> FALSE]

RangeInit ==
    /\ header \in [bytes: BOOLEAN, list: BOOLEAN, dash: BOOLEAN, start: MCToken, end: MCToken]
    /\ size \in 0 .. MaxSize
    /\ served = Pending

Serve ==
    /\ ~served.done
    /\ LET r == parse_range(header)
           resolved == IF r = NoRange THEN Unsatisfiable ELSE driver_resolve_range(r, size)
       IN  served' = [range |-> r, resolved |-> resolved, done |-> TRUE,
                      bytes |-> IF r # NoRange /\ resolved = Unsatisfiable
                                THEN {} ELSE Substr(substr_args(resolved, size), size)]
    /\ UNCHANGED <<header, size>>

-----------------------------------------------------------------------------
(* Delete lists *)

Say(text) == <<Event("Text", text)>>

Leaves ==
    {[name |-> "Key", text |-> text] :
        text \in {Say("x"), Say(Space) \o Say("y"), Say("x") \o <<Event("Ref", "amp")>>,
                  <<Event("CData", "x"), Event("Comment", "c")>> \o Say("y"), <<>>}}
        \cup {[name |-> "VersionId", text |-> Say("v")], [name |-> "Other", text |-> Say("x")],
              [name |-> "Key", text |-> <<Event("Ref", "bogus")>>]}

Kids ==
    [name: {"Object"}, text: {<<>>}, leaves: SeqOf(Leaves, 2)]
        \cup [name: {"Quiet"}, leaves: {<<>>},
              text: {Say("true"), Say(Space) \o Say("true"), Say("false"), <<>>}]
        \cup {[name |-> "Quiet", text |-> Say("true"), leaves |-> <<[name |-> "Key", text |-> <<>>]>>]}
        \cup [name: {"Other"}, text: {<<>>},
              leaves: {<<[name |-> n, text |-> Say("x")]>> : n \in {"Object", "Key"}}]
        \cup [name: {"Key"}, text: {Say("x")}, leaves: {<<>>}]

FewKids ==
    {k \in Kids : k.name # "Object" \/ k.leaves \in {<<[name |-> "Key", text |-> Say("x")]>>, <<>>}}

KidLists == {<<k>> : k \in Kids} \cup {<<k, l>> : k \in Kids, l \in FewKids}
                \cup [1 .. 3 -> {k \in FewKids : k.name \in {"Object", "Key"}}]

MCDocument ==
    [roots: {<<>>} \cup {<<[name |-> "Delete", kids |-> kids]>> : kids \in KidLists},
     pad: BOOLEAN, short: BOOLEAN]
        \cup [roots: [1 .. 2 -> [name: {"Delete", "Other"},
                                 kids: {<<k>> : k \in {j \in FewKids : j.name = "Object"}}]],
              pad: {FALSE}, short: BOOLEAN]

-----------------------------------------------------------------------------
(* Capability strings: two types the server knows and one it does not. *)

Items ==
    [type: {1, 2, 3}, equals: {TRUE},
     perm: {<<"*">>, <<"read">>, <<"write">>, <<"read", "write">>, <<"read", "bogus">>, <<"">>}]
        \cup {[type |-> 1, equals |-> FALSE, perm |-> <<>>]}

MCCapsString == SeqOf(Items, 2)

-----------------------------------------------------------------------------
(* Signed requests: many queries, many paths, or many headers and times. *)

Plain == [method |-> "GET", bucket |-> <<"b">>, key |-> <<"a">>, pairs |-> <<>>,
          host |-> <<"u">>, type |-> <<<<"v">>>>, http2 |-> FALSE, dated |-> "x-amz-date",
          signed |-> <<"host">>, hash |-> "h", time |-> 0, travel |-> 0]

Strings1 == {<<>>, <<"a">>, <<" ">>, <<"+">>, <<"&">>, <<"=">>}

Pairs == [name: {<<"a">>, <<"b">>, <<"+">>}, value: Strings1]

\* An access key id with a slash in it.
MCKey == <<"k", "x">>

MCIntent ==
    {[Plain EXCEPT !.pairs = <<p>>] : p \in Pairs}
        \cup {[Plain EXCEPT !.pairs = <<[name |-> <<"b">>, value |-> <<"a">>], p>>] :
                p \in [name: {<<"a">>, <<"b">>}, value: {<<>>, <<" ">>}]}
        \cup {[Plain EXCEPT !.key = k] : k \in {<<"a", "/", "b">>, <<"+">>, <<"/">>, <<" ">>}}
        \cup {[Plain EXCEPT !.http2 = http2, !.signed = signed, !.type = type] :
                http2 \in BOOLEAN, signed \in {<<"host">>, <<"host", "type">>},
                type \in {<<<<"u", "blank", "v">>>>, <<<<"u">>, <<"v">>>>}}
        \cup {[Plain EXCEPT !.dated = dated, !.time = time, !.travel = 4] :
                dated \in {"x-amz-date", "date"}, time \in {1, 2}}

-----------------------------------------------------------------------------
(* Bodies: payloads of up to three bytes in up to two chunks, in every framing. *)

Chunkings == {<<>>, <<<<1>>>>, <<<<1>>, <<2>>>>, <<<<1>>, <<1>>>>, <<<<1, 2>>, <<1>>>>}

Framings ==
    [mode: Streaming, chunks: Chunkings, checksum: BOOLEAN, sealed: BOOLEAN, length: BOOLEAN,
     blank: BOOLEAN, encoding: {<<"gzip", "aws-chunked">>}]

Unframed ==
    [mode: Mode \ Streaming, chunks: Chunkings, checksum: {FALSE}, sealed: {FALSE},
     length: {FALSE}, blank: {FALSE}, encoding: {<<>>, <<"gzip">>}]

MCRequest ==
    {r \in Framings : /\ r.checksum => r.mode \in Trailing
                      /\ r.sealed => r.checksum /\ r.mode = "STREAMING-SIGNED-TRAILER"}
        \cup Unframed

-----------------------------------------------------------------------------
(* One part at a time *)

NoHeader   == [bytes |-> FALSE, list |-> FALSE, dash |-> FALSE, start |-> Blank, end |-> Blank]
RangeStill == header = NoHeader /\ size = 0 /\ served = Pending
NoDocument == [roots |-> <<>>, pad |-> FALSE, short |-> FALSE]
DeleteStill == document = NoDocument /\ events = <<>> /\ cut = FALSE /\ parser = Fresh
SigStill   == /\ intent = Plain /\ wire = CHOOSE w \in Wires(Plain) : TRUE
              /\ touched = FALSE /\ now = 0 /\ account = "active" /\ step = "sent" /\ accepted = {}
PayloadStill == PayloadInit /\ request = CHOOSE r \in Unframed : r.mode = "JUNK"

Init ==
    \/ part = "range"   /\ RangeInit  /\ DeleteStill /\ SigStill /\ PayloadStill /\ NameInit /\ CapsInit
    \/ part = "delete"  /\ RangeStill /\ DeleteInit  /\ SigStill /\ PayloadStill /\ NameInit /\ CapsInit
    \/ part = "name"    /\ RangeStill /\ DeleteStill /\ SigStill /\ PayloadStill /\ NameInit /\ CapsInit
    \/ part = "caps"    /\ RangeStill /\ DeleteStill /\ SigStill /\ PayloadStill /\ NameInit /\ CapsInit
    \/ part = "sigv4"   /\ RangeStill /\ DeleteStill /\ SigInit  /\ PayloadStill /\ NameInit /\ CapsInit
    \/ part = "payload" /\ RangeStill /\ DeleteStill /\ SigStill /\ PayloadInit  /\ NameInit /\ CapsInit

Next ==
    /\ \/ part = "range" /\ Serve /\ UNCHANGED <<deleteVars, name, capsVars, sigVars, payloadVars>>
       \/ part = "delete" /\ DeleteNext /\ UNCHANGED <<rangeVars, name, capsVars, sigVars, payloadVars>>
       \/ part = "name" /\ Extend /\ UNCHANGED <<rangeVars, deleteVars, capsVars, sigVars, payloadVars>>
       \/ part = "caps" /\ CapsNext /\ UNCHANGED <<rangeVars, deleteVars, name, sigVars, payloadVars>>
       \/ part = "sigv4" /\ SigNext /\ UNCHANGED <<rangeVars, deleteVars, name, capsVars, payloadVars>>
       \/ part = "payload" /\ PayloadNext /\ UNCHANGED <<rangeVars, deleteVars, name, capsVars, sigVars>>
    /\ UNCHANGED part

Spec == Init /\ [][Next]_vars

-----------------------------------------------------------------------------
(***************************************************************************)
(* HEAD reports the range a GET of the same object would: the S3 layer's   *)
(* resolve_range agrees with the driver's on every range parse_range lets  *)
(* through (object.rs get_object, "it reports the same status and          *)
(* Content-Range a GET would").                                            *)
(***************************************************************************)
HeadReportsWhatGetServes ==
    served.done /\ served.range # NoRange
        => s3_resolve_range(served.range, size) = served.resolved

(***************************************************************************)
(* The bytes get_object reads are exactly the ones the range selects, and  *)
(* a range is refused only when it selects nothing (the contract on        *)
(* Driver::get_object).                                                    *)
(***************************************************************************)
ServesSelectedBytes ==
    served.done /\ served.range # NoRange =>
        /\ served.bytes = Selected(served.range, size)
        /\ served.resolved = Unsatisfiable <=> Selected(served.range, size) = {}

=============================================================================
