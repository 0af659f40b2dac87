------------------------------ MODULE ObjectList ------------------------------
(***************************************************************************)
(* What a list that owns its objects promises: an order, no object in it   *)
(* twice, and objects that live exactly from their construction to their   *)
(* deletion.  LinkedList implements it.                                    *)
(***************************************************************************)
EXTENDS Sequences, SequencesExt

CONSTANT Objects

VARIABLES
    contents,     \* the objects in the list, in order
    apart         \* the living objects that are not in it

olVars == <<contents, apart>>

OLInit == contents = << >> /\ apart = {}

Make(o) ==
    /\ o \notin apart \cup ToSet(contents)
    /\ apart' = apart \cup {o}
    /\ UNCHANGED contents

\* An object of its own joins at either end,
Join(o) ==
    /\ o \in apart
    /\ apart' = apart \ {o}
    /\ contents' \in {Append(contents, o), <<o>> \o contents}

\* leaves from anywhere,
Leave(o) ==
    /\ \E i \in DOMAIN contents :
         contents[i] = o /\ contents' = RemoveAt(contents, i)
    /\ apart' = apart \cup {o}

\* and is deleted only once it left.
Destroy(o) ==
    /\ o \in apart
    /\ apart' = apart \ {o}
    /\ UNCHANGED contents

OLNext == \E o \in Objects : Make(o) \/ Join(o) \/ Leave(o) \/ Destroy(o)

OLSpec == OLInit /\ [][OLNext]_olVars
=============================================================================
