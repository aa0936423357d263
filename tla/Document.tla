------------------------------ MODULE Document ------------------------------
(***************************************************************************)
(* What a front end is promised of a document it edits within its bounds:  *)
(* a text, whose characters stand at the V-addresses 1.1, 1.2, ... without *)
(* a hole, and links at V-addresses 2.n, which the editing of the text     *)
(* does not touch.  Characters and links are told apart by the order in    *)
(* which they were made.  Poom implements this specification.              *)
(***************************************************************************)
EXTENDS Integers, Sequences, FiniteSetsExt

VARIABLES
    text,       \* the characters in the order of their V-addresses
    links,      \* the link at each V-address 2.n in use
    made        \* how many characters and links there have been

vars == <<text, links, made>>

Init == text = <<>> /\ links = <<>> /\ made = [char |-> 0, link |-> 0]

Region(from, upto) == SubSeq(text, from, upto - 1)

End == Len(text) + 1

Spliced(p, s) == Region(1, p) \o s \o Region(p, End)

Insert(p, n) ==
    /\ text' = Spliced(p, [k \in 1..n |-> made.char + k])
    /\ made' = [made EXCEPT !.char = @ + n]
    /\ UNCHANGED links

\* The same characters once more, elsewhere in the document.
Copy(p, from, upto) ==
    /\ text' = Spliced(p, Region(from, upto))
    /\ UNCHANGED <<links, made>>

Delete(from, upto) ==
    /\ text' = Region(1, from) \o Region(upto, End)
    /\ UNCHANGED <<links, made>>

\* Two regions change places and the one between them gives way; where it is
\* empty this is a pivot.
Rearrange(c0, c1, c2, c3) ==
    /\ text' = Region(1, c0) \o Region(c2, c3) \o Region(c1, c2) \o Region(c0, c1)
                             \o Region(c3, End)
    /\ UNCHANGED <<links, made>>

\* A link goes behind all others.
CreateLink ==
    /\ LET behind == 1 + Max({0} \union DOMAIN links)
       IN  links' = [k \in DOMAIN links \union {behind} |->
                        IF k = behind THEN made.link + 1 ELSE links[k]]
    /\ made' = [made EXCEPT !.link = @ + 1]
    /\ UNCHANGED text

\* The other links stay where they are.  But in a document without text those
\* behind them move up, and what is then the first stays the first.
DeleteLinks(from, upto) ==
    LET moved(k) == IF text = <<>> /\ k >= upto THEN k - (upto - from) ELSE k
        left == DOMAIN links \ (from..(upto - 1))
    IN  /\ links' = [j \in {moved(k) : k \in left} |->
                        links[CHOOSE k \in left : moved(k) = j]]
        /\ UNCHANGED <<text, made>>

Next ==
    \/ \E p \in 1..End :
          \/ \E n \in 1..(made'.char - made.char) : Insert(p, n)
          \/ \E upto \in 1..End : \E from \in 1..upto : Copy(p, from, upto)
    \/ \E c3 \in 1..End : \E c2 \in 1..c3 : \E c1 \in 1..c2 :
          \/ Delete(c1, c2)
          \/ \E c0 \in 1..c1 : Rearrange(c0, c1, c2, c3)
    \/ CreateLink
    \/ \E from \in DOMAIN links, upto \in 1..(Max({0} \union DOMAIN links) + 1) :
          from < upto /\ DeleteLinks(from, upto)

Spec == Init /\ [][Next]_vars
=============================================================================
