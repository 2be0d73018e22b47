---------------------------- MODULE BucketNames ----------------------------
(***************************************************************************)
(* Which bucket names create_bucket accepts.  validate_bucket_name looks   *)
(* at the bytes of a name and their neighbours; the S3 rule it implements  *)
(* is about the labels between the dots.                                   *)
(*                                                                         *)
(* A name is a sequence of the kinds of bytes the code tells apart: a      *)
(* lower-case letter, a digit, '-', '.', and anything else.                *)
(***************************************************************************)
EXTENDS Integers, SequencesExt

CONSTANTS MaxName,   \* 63 in the code
          LongName   \* the longest name a client tries

ASSUME NameAssumption == MaxName \in Nat /\ MaxName >= 3 /\ LongName \in Nat

Kind == {"a", "0", "-", ".", "else"}

VARIABLE name   \* the name as it is written

Alnum(c) == c \in {"a", "0"}

\* Mutant of DotFits: a label may begin with a dash.
DotFitsBefore(i) == name[i - 1] # "-" /\ name[i + 1] # "."

\* A dot and its two neighbours, of which both exist.
DotFits(i) == name[i - 1] # "-" /\ name[i + 1] # "." /\ name[i + 1] # "-"

\* name.split('.'): the parts between the dots, the first and the last included.
Dots == {0, Len(name) + 1} \cup {i \in DOMAIN name : name[i] = "."}

Parts == {p \in Dots \X Dots : p[1] < p[2] /\ \A k \in Dots : ~(p[1] < k /\ k < p[2])}

Part(p) == SubSeq(name, p[1] + 1, p[2] - 1)

Digits(part) == part # <<>> /\ \A i \in DOMAIN part : part[i] = "0"

looks_like_ipv4 == Cardinality(Parts) = 4 /\ \A p \in Parts : Digits(Part(p))

validate_bucket_name ==
    /\ Len(name) \in 3 .. MaxName
    /\ Alnum(name[1])
    /\ Alnum(name[Len(name)])
    /\ \A i \in DOMAIN name :
          CASE name[i] \in {"a", "0", "-"} -> TRUE
            [] name[i] = "." -> DotFits(i)
            [] OTHER -> FALSE
    /\ ~looks_like_ipv4

NameInit == name = <<>>

\* Every name, byte by byte; one foreign byte is as good as several.
Extend ==
    /\ Len(name) < LongName
    /\ \E c \in Kind :
          /\ c = "else" => c \notin ToSet(name)
          /\ name' = Append(name, c)

-----------------------------------------------------------------------------
\* A DNS label: letters, digits and inner dashes.
IsLabel(part) ==
    /\ part # <<>>
    /\ \A i \in DOMAIN part : Alnum(part[i]) \/ (part[i] = "-" /\ i \notin {1, Len(part)})

(***************************************************************************)
(* A name is accepted exactly when it has the length, every label of it is *)
(* a DNS label, and it is not four numbers: no byte-by-byte check reaches  *)
(* past an end of the name, and none lets an empty label through.          *)
(***************************************************************************)
NamesAreLabels ==
    validate_bucket_name <=>
        /\ Len(name) \in 3 .. MaxName
        /\ \A p \in Parts : IsLabel(Part(p))
        /\ ~(Cardinality(Parts) = 4 /\ \A p \in Parts : ToSet(Part(p)) = {"0"})

=============================================================================
