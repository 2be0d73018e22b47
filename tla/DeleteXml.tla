----------------------------- MODULE DeleteXml -----------------------------
(***************************************************************************)
(* The DeleteObjects body: parse_delete_request walks the events of an XML *)
(* reader with a stack of open elements and one buffer of text.  What it   *)
(* deletes must be what the document, read as a tree, asks to delete.      *)
(*                                                                         *)
(* A document is a tree of fixed depth; its events, with blanks between    *)
(* elements or without, are what the reader hands over.  A body that       *)
(* breaks off ends the events early: the reader then reports an error or   *)
(* the end of the document, and the model takes both.  Text is a sequence  *)
(* of pieces, the space among them.                                        *)
(***************************************************************************)
EXTENDS Integers, SequencesExt

CONSTANTS
    Document,           \* the documents clients send (see DocumentType)
    MAX_MULTI_DELETE,   \* 1000 in the code
    NoKey               \* `None` for a key or a version id

VARIABLES
    document,   \* the document sent
    events,     \* the events the reader has not handed over yet
    cut,        \* the body broke off
    parser      \* the locals of parse_delete_request and its result

deleteVars == <<document, events, cut, parser>>

Space  == "space"
Piece  == [kind: {"Text", "CData", "Ref", "Comment"}, text: STRING]
Leaf   == [name: STRING, text: Seq(Piece)]
Kid    == [name: STRING, text: Seq(Piece), leaves: Seq(Leaf)]
Root   == [name: STRING, kids: Seq(Kid)]

DocumentType ==
    [roots: Seq(Root),
     pad: BOOLEAN,     \* blanks around every element
     short: BOOLEAN]   \* an element without content is written <name/>

ASSUME DeleteAssumption ==
    /\ Document \subseteq DocumentType
    /\ MAX_MULTI_DELETE \in Nat
    /\ NoKey \notin Seq(STRING)

-----------------------------------------------------------------------------
(* The reader's events *)

Event(kind, text) == [kind |-> kind, text |-> text]

Around(d) == IF d.pad THEN <<Event("Text", Space)>> ELSE <<>>

Element(d, name, inner) ==
    Around(d) \o (IF inner = <<>> /\ d.short THEN <<Event("Empty", name)>>
                  ELSE <<Event("Start", name)>> \o inner \o <<Event("End", name)>>)

LeafEvents(d, leaf) == Element(d, leaf.name, leaf.text)

KidEvents(d, kid) ==
    Element(d, kid.name,
            kid.text \o FlattenSeq([i \in DOMAIN kid.leaves |-> LeafEvents(d, kid.leaves[i])]))

RootEvents(d, root) ==
    Element(d, root.name, FlattenSeq([i \in DOMAIN root.kids |-> KidEvents(d, root.kids[i])]))

Events(d) ==
    <<Event("Comment", Space)>>
        \o FlattenSeq([i \in DOMAIN d.roots |-> RootEvents(d, d.roots[i])])

-----------------------------------------------------------------------------
(* One event *)

Entity == {"amp", "lt", "gt", "quot", "apos", "#38"}

Fresh == [path |-> <<>>, content |-> <<>>, key |-> NoKey, version_id |-> NoKey,
          saw_root |-> FALSE, objects |-> <<>>, quiet |-> FALSE, code |-> "reading"]

Stopped(p) == [p EXCEPT !.code = "MalformedXML"]

\* Mutant of Opened: the text before an element stays in the buffer.
OpenedKeepsText(p, name) ==
    IF p.path = <<>> /\ (name # "Delete" \/ p.saw_root) THEN Stopped(p)
    ELSE [p EXCEPT !.path = Append(@, name),
                   !.saw_root = @ \/ p.path = <<>>,
                   !.key = IF Len(p.path) = 1 /\ name = "Object" THEN NoKey ELSE @,
                   !.version_id = IF Len(p.path) = 1 /\ name = "Object" THEN NoKey ELSE @]

Opened(p, name) ==
    IF p.path = <<>> /\ (name # "Delete" \/ p.saw_root) THEN Stopped(p)
    ELSE [p EXCEPT !.path = Append(@, name),
                   !.content = <<>>,
                   !.saw_root = @ \/ p.path = <<>>,
                   !.key = IF Len(p.path) = 1 /\ name = "Object" THEN NoKey ELSE @,
                   !.version_id = IF Len(p.path) = 1 /\ name = "Object" THEN NoKey ELSE @]

\* str::trim, then eq_ignore_ascii_case("true").
IsTrue(text) == \E i \in DOMAIN text :
    text[i] = "true" /\ \A j \in DOMAIN text \ {i} : text[j] = Space

\* Mutant of Closed: an object counts as soon as its key is read.
ClosedAtKey(p) ==
    LET q == [p EXCEPT !.path = Front(@), !.content = <<>>]
    IN  IF p.path = <<"Delete", "Object", "Key">>
        THEN [q EXCEPT !.objects = Append(@, [key |-> p.content, version_id |-> p.version_id])]
        ELSE q

Closed(p) ==
    LET q == [p EXCEPT !.path = Front(@), !.content = <<>>]
    IN  CASE p.path = <<"Delete", "Object", "Key">>       -> [q EXCEPT !.key = p.content]
          [] p.path = <<"Delete", "Object", "VersionId">> -> [q EXCEPT !.version_id = p.content]
          [] p.path = <<"Delete", "Object">> ->
                IF p.key = NoKey THEN Stopped(p)
                ELSE [q EXCEPT !.objects = Append(@, [key |-> p.key, version_id |-> p.version_id]),
                               !.key = NoKey, !.version_id = NoKey]
          [] p.path = <<"Delete", "Quiet">> -> [q EXCEPT !.quiet = IsTrue(p.content)]
          [] OTHER -> q

AfterEvent(p, e) ==
    CASE e.kind = "Start" -> Opened(p, e.text)
      [] e.kind = "Empty" -> LET q == Opened(p, e.text) IN IF q.code = "reading" THEN Closed(q) ELSE q
      [] e.kind = "End" -> Closed(p)
      [] e.kind \in {"Text", "CData"} -> [p EXCEPT !.content = Append(@, e.text)]
      [] e.kind = "Ref" -> IF e.text \in Entity THEN [p EXCEPT !.content = Append(@, e.text)]
                           ELSE Stopped(p)
      [] e.kind = "Comment" -> p

Reading == parser.code = "reading"

ReadEvent ==
    /\ Reading
    /\ events # <<>>
    /\ parser' = AfterEvent(parser, Head(events))
    /\ events' = Tail(events)
    /\ UNCHANGED <<document, cut>>

\* Event::Eof, and the checks after the loop.
EndOfEvents ==
    /\ Reading
    /\ events = <<>>
    /\ parser' = [parser EXCEPT !.code =
          IF ~parser.saw_root \/ parser.objects = <<>> \/ Len(parser.objects) > MAX_MULTI_DELETE
          THEN "MalformedXML" ELSE "Ok"]
    /\ UNCHANGED <<document, events, cut>>

\* The reader finds elements still open.
ReaderError ==
    /\ Reading
    /\ events = <<>>
    /\ parser.path # <<>>
    /\ parser' = Stopped(parser)
    /\ UNCHANGED <<document, events, cut>>

\* The rest of the body does not arrive.
BreakOff ==
    /\ Reading
    /\ events # <<>>
    /\ cut' = TRUE
    /\ events' = <<>>
    /\ UNCHANGED <<document, parser>>

DeleteInit ==
    /\ document \in Document
    /\ events = Events(document)
    /\ cut = FALSE
    /\ parser = Fresh

DeleteNext == ReadEvent \/ EndOfEvents \/ ReaderError \/ BreakOff

-----------------------------------------------------------------------------
(* The document as a tree *)

Texts(pieces) ==
    FlattenSeq([i \in DOMAIN pieces |->
        IF pieces[i].kind = "Comment" THEN <<>> ELSE <<pieces[i].text>>])

IsLastNamed(elements, name, i) ==
    elements[i].name = name /\ \A j \in DOMAIN elements : elements[j].name = name => j <= i

LastText(elements, name) ==
    IF \E i \in DOMAIN elements : elements[i].name = name
    THEN Texts(elements[CHOOSE i \in DOMAIN elements : IsLastNamed(elements, name, i)].text)
    ELSE NoKey

Asked(root) ==
    FlattenSeq([i \in DOMAIN root.kids |->
        IF root.kids[i].name = "Object"
        THEN <<[key |-> LastText(root.kids[i].leaves, "Key"),
                version_id |-> LastText(root.kids[i].leaves, "VersionId")]>>
        ELSE <<>>])

\* The last Quiet has the word; one with elements in it says nothing.
AskedQuiet(root) == \E i \in DOMAIN root.kids :
    /\ IsLastNamed(root.kids, "Quiet", i)
    /\ root.kids[i].leaves = <<>>
    /\ IsTrue(Texts(root.kids[i].text))

PieceOK(piece) == piece.kind = "Ref" => piece.text \in Entity

PiecesOK(root) == \A i \in DOMAIN root.kids :
    /\ \A j \in DOMAIN root.kids[i].text : PieceOK(root.kids[i].text[j])
    /\ \A k \in DOMAIN root.kids[i].leaves : \A j \in DOMAIN root.kids[i].leaves[k].text :
          PieceOK(root.kids[i].leaves[k].text[j])

Valid(d) ==
    /\ Len(d.roots) = 1 /\ d.roots[1].name = "Delete"
    /\ PiecesOK(d.roots[1])
    /\ Len(Asked(d.roots[1])) \in 1 .. MAX_MULTI_DELETE
    /\ \A i \in DOMAIN Asked(d.roots[1]) : Asked(d.roots[1])[i].key # NoKey

(***************************************************************************)
(* A document that arrives whole is accepted when it is a Delete list of   *)
(* one to MAX_MULTI_DELETE objects with a key each, and is then read as    *)
(* its tree says: every object in order, its key with every space,         *)
(* reference and CDATA section of it ("object keys may begin or end with   *)
(* spaces"), elements elsewhere ignored whatever their names.              *)
(***************************************************************************)
DeleteReadAsWritten ==
    ~Reading /\ ~cut =>
        /\ (parser.code = "Ok") <=> Valid(document)
        /\ parser.code = "Ok" =>
              /\ parser.objects = Asked(document.roots[1])
              /\ parser.quiet = AskedQuiet(document.roots[1])

(***************************************************************************)
(* A document that breaks off never makes the server delete a key that the *)
(* whole document does not name: an object counts when its element ends,   *)
(* and half a key is no key.                                               *)
(***************************************************************************)
CutDeletesOnlyNamed ==
    parser.code = "Ok" => IsPrefix(parser.objects, Asked(document.roots[1]))

=============================================================================
