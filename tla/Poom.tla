-------------------------------- MODULE Poom --------------------------------
(***************************************************************************)
(* The contents of one document: its POOM, an enfilade that says which     *)
(* I-address stands at which V-address (orglinks.c, insertnd.c, edit.c).   *)
(* Editing moves no content.  It cuts the bottom crums at the borders of   *)
(* what is edited and changes their displacements, by the arithmetic of    *)
(* Tumble.  The tree is abstracted to its apex and its bottom crums, with  *)
(* V-displacements from the apex as in a tree of height one.  A crum's     *)
(* I-address is kept whole, its last two digits only: 1.n for a character, *)
(* 2.n for a link.                                                         *)
(*                                                                         *)
(* Front ends edit within the document: they insert at 1.1 or anywhere up  *)
(* to one place behind the text, and delete, copy and rearrange what is    *)
(* there.  The program does not check it, and makes of other requests what *)
(* README.md says.                                                         *)
(***************************************************************************)
EXTENDS Tumble, Sequences

CONSTANTS MaxText, MaxChars, MaxLinks       \* bounds of an instance

ASSUME PoomAssumption ==
    /\ NPLACES > 1
    /\ MaxText \in Nat /\ MaxChars \in Nat /\ MaxLinks \in Nat

VARIABLES
    orgl,       \* the document's enfilade: V-displacement of its apex, and its sons
    text,       \* what it reads, from V-address 1.1 on
    links,      \* and the links at the V-addresses 2.n
    made        \* history: how many characters and links there have been

vars == <<orgl, text, links, made>>

Son == [dsp : tumbler, isa : tumbler, len : Nat \ {0}]

TypeOK ==
    /\ orgl.apex \in tumbler
    /\ orgl.sons \subseteq Son
    /\ text \in Seq(1..MaxChars) /\ Len(text) <= MaxText
    /\ DOMAIN links \subseteq 1..MaxLinks /\ links \in [DOMAIN links -> 1..MaxLinks]
    /\ made \in [char : 0..MaxChars, link : 0..MaxLinks]

\* createenf; an enfilade with nothing in it is one whose width is zero.
Init ==
    /\ orgl = [apex |-> ZEROTUMBLER, sons |-> {}]
    /\ text = <<>> /\ links = <<>>
    /\ made = [char |-> 0, link |-> 0]

TEXT == 1
LINK == 2

\* The address space.n, and the width of n places.
At(space, n) == tumblerincrement(tumblerincrement(ZEROTUMBLER, 0, space), 1, n)

Width(n) == tumblerincrement(ZEROTUMBLER, 1, n)

-----------------------------------------------------------------------------
(* Crums. *)

\* prologuend.
Grasp(o, son) == tumbleradd(o.apex, son.dsp)

Reach(o, son) == tumbleradd(Grasp(o, son), Width(son.len))

WhereOnCrum(o, son, address) == intervalcmp(Grasp(o, son), Reach(o, son), address)

Least(S) == CHOOSE a \in S : \A b \in S : tumblercmp(a, b) # GREATER

Greatest(S) == CHOOSE a \in S : \A b \in S : tumblercmp(a, b) # LESS

DocReach(o) == Greatest({ZEROTUMBLER} \union {Reach(o, son) : son \in o.sons})

\* The apex goes where its first son is.
setwispnd(o) ==
    IF o.sons = {} THEN [o EXCEPT !.apex = ZEROTUMBLER]
    ELSE LET mindsp == Least({son.dsp : son \in o.sons})
         IN  [apex |-> tumbleradd(o.apex, mindsp),
              sons |-> {[son EXCEPT !.dsp = tumblersub(@, mindsp)] : son \in o.sons}]

slicecbcpm(o, son, cut) ==
    LET localcut == tumblersub(cut, Grasp(o, son)).mantissa[0]
    IN  {[son EXCEPT !.len = localcut],
         [dsp |-> tumbleradd(son.dsp, Width(localcut)),
          isa |-> tumblerincrement(son.isa, 0, localcut),
          len |-> son.len - localcut]}

\* Slip: a cut on a border cuts too.
makecutOnBorder(o, cut) ==
    [o EXCEPT !.sons = UNION {IF WhereOnCrum(o, son, cut) \in {ONMYLEFTBORDER, THRUME}
                              THEN slicecbcpm(o, son, cut) ELSE {son} : son \in o.sons}]

makecut(o, cut) ==
    [o EXCEPT !.sons = UNION {IF WhereOnCrum(o, son, cut) = THRUME
                              THEN slicecbcpm(o, son, cut) ELSE {son} : son \in o.sons}]

\* Knife after knife, until no crum is left with one through it.
makecutsnd(o, knives) ==
    LET cut[i \in 0..Len(knives)] == IF i = 0 THEN o ELSE makecut(cut[i - 1], knives[i])
    IN  cut[Len(knives)]

\* The slice between the cuts that a crum is in: after how many of them it starts.
CutSection(o, son, knives) ==
    Max({0} \union {i \in DOMAIN knives : WhereOnCrum(o, son, knives[i]) <= ONMYLEFTBORDER})

-----------------------------------------------------------------------------
(* insertnd. *)

\* Slip: the gap reaches into the next space.
findaddressofsecondcutforinsertFar(position) ==
    tumblerincrement(tumblerincrement(ZEROTUMBLER, 0, position.mantissa[0] + 2), 1, 1)

\* The first address of the next space: where the gap for an insertion ends.
findaddressofsecondcutforinsert(position) ==
    LET next == tumblerincrement(position, -1, 1)
        fraction == tumblerintdiff(beheadtumbler(position), ZEROTUMBLER)
    IN  tumblerincrement(tumblerincrement(next, 0, -fraction), 1, 1)

\* What is behind the insertion, in its space, makes room.
makegappm(o, origin, width) ==
    IF \/ o.sons = {}
       \/ tumblercmp(origin, o.apex) = LESS
       \/ tumblercmp(origin, DocReach(o)) # LESS
    THEN o
    ELSE LET knives == <<origin, findaddressofsecondcutforinsert(origin)>>
             cut == makecutsnd(o, knives)
         IN  setwispnd([cut EXCEPT !.sons =
                {IF CutSection(cut, son, knives) = 1
                 THEN [son EXCEPT !.dsp = tumbleradd(@, width)] ELSE son : son \in @}])

\* An apex right of what is to be inserted moves left, and its sons do not.
makeroomonleftnd(o, origin) ==
    IF tumblercmp(origin, o.apex) = LESS
    THEN [apex |-> origin,
          sons |-> {[son EXCEPT !.dsp = tumbleradd(tumblersub(o.apex, origin), @)] :
                        son \in o.sons}]
    ELSE o

isanextensionnd(o, son, origin, isa) ==
    /\ Reach(o, son) = origin
    /\ tumblerincrement(son.isa, 0, son.len) = isa

\* The new crum, or a longer one if there is one to extend and the search for a
\* father comes by it.
doinsertnd(o, origin, isa, len) ==
    LET room == IF o.sons = {} THEN [o EXCEPT !.apex = origin] ELSE makeroomonleftnd(o, origin)
        new == [dsp |-> tumblersub(origin, room.apex), isa |-> isa, len |-> len]
    IN  {setwispnd([room EXCEPT !.sons = @ \union {new}])} \union
        {setwispnd([room EXCEPT !.sons = (@ \ {son}) \union {[son EXCEPT !.len = @ + len]}]) :
            son \in {son \in room.sons : isanextensionnd(room, son, origin, isa)}}

\* All that may come of the insertion of len atoms from isa on at V-address vsa.
insertnd(o, vsa, isa, len) ==
    doinsertnd(makegappm(o, vsa, Width(len)), vsa, isa, len)

\* Of several spans each goes behind the one before.
insertpm(o, vsa, spans) ==
    LET done[i \in 0..Len(spans)] ==
          IF i = 0 THEN [at |-> vsa, orgls |-> {o}]
          ELSE LET p == done[i - 1]
               IN  [at |-> tumbleradd(p.at, Width(spans[i].len)),
                    orgls |-> UNION {insertnd(q, p.at, spans[i].isa, spans[i].len) : q \in p.orgls}]
    IN  done[Len(spans)].orgls

-----------------------------------------------------------------------------
(* Retrieval. *)

\* The part of a crum that is in the V-span: context2span.
context2span(o, son, lower, upper) ==
    LET skipped == IF tumblercmp(Grasp(o, son), lower) = LESS
                   THEN tumblerintdiff(lower, Grasp(o, son)) ELSE 0
        beyond == IF tumblercmp(Reach(o, son), upper) = GREATER
                  THEN tumblerintdiff(Reach(o, son), upper) ELSE 0
    IN  [isa |-> tumblerincrement(son.isa, 0, skipped), len |-> son.len - beyond - skipped]

crumqualifies2d(o, son, lower, upper) ==
    WhereOnCrum(o, son, upper) > ONMYLEFTBORDER /\ WhereOnCrum(o, son, lower) <= THRUME

\* The I-spans of a V-span, in the order of their V-addresses.
vspanset2ispanset(o, lower, upper) ==
    LET found == {son \in o.sons : crumqualifies2d(o, son, lower, upper)}
        before(son) == {a \in found : tumblercmp(Grasp(o, a), Grasp(o, son)) = LESS}
        context(i) == CHOOSE son \in found : Cardinality(before(son)) = i - 1
    IN  [i \in 1..Cardinality(found) |-> context2span(o, context(i), lower, upper)]

-----------------------------------------------------------------------------
(* deletend and rearrangend. *)

\* What is cut out goes, and what is behind it closes up: a link only if its
\* displacement is as fine as the width.
deletend(o, origin, width) ==
    LET knives == <<origin, tumbleradd(origin, width)>>
        cut == makecutsnd(o, knives)
        section(son) == CutSection(cut, son, knives)
    IN  setwispnd([cut EXCEPT !.sons =
            {IF section(son) = 2 THEN [son EXCEPT !.dsp = tumblersub(@, width)] ELSE son :
                son \in {son \in @ : section(son) # 1}}])

\* Slip: the sections of a pivot take each other's way.
makeoffsetsfor3or4cutsCrossed(c) ==
    IF Len(c) = 4
    THEN LET there == tumblersub(c[3], c[1])
         IN  <<there, tumblersub(tumblersub(c[4], c[3]), tumblersub(c[2], c[1])), negated(there)>>
    ELSE <<tumblersub(c[2], c[1]), negated(tumblersub(c[3], c[2])), ZEROTUMBLER>>

\* How far the sections between three or four cuts move.
makeoffsetsfor3or4cuts(c) ==
    IF Len(c) = 4
    THEN LET there == tumblersub(c[3], c[1])
         IN  <<there, tumblersub(tumblersub(c[4], c[3]), tumblersub(c[2], c[1])), negated(there)>>
    ELSE <<tumblersub(c[3], c[2]), negated(tumblersub(c[2], c[1])), ZEROTUMBLER>>

rearrangend(o, knives) ==
    LET cut == makecutsnd(o, knives)
        diff == makeoffsetsfor3or4cuts(knives)
        moved(son) == LET i == CutSection(cut, son, knives)
                      IN  IF i \in 1..3 THEN [son EXCEPT !.dsp = tumbleradd(@, diff[i])] ELSE son
    IN  setwispnd([cut EXCEPT !.sons = {moved(son) : son \in @}])

-----------------------------------------------------------------------------
(* What is at a V-address. *)

\* The characters and links, by their numbers, each with its space and its place.
Atoms(o) ==
    UNION {LET grasp == Grasp(o, son)
           IN  {[space |-> grasp.mantissa[0], place |-> lastdigitintumbler(grasp) + k,
                 number |-> lastdigitintumbler(son.isa) + k] : k \in 0..(son.len - 1)} :
           son \in o.sons}

\* What a space reads.
Reads(atoms, space) ==
    LET there == {a \in atoms : a.space = space}
    IN  [p \in {a.place : a \in there} |-> (CHOOSE a \in there : a.place = p).number]

\* The enfilade becomes one of these, and the document reads accordingly.
Becomes(orgls) ==
    \E o \in orgls :
        /\ orgl' = o
        /\ text' = Reads(Atoms(o), TEXT)
        /\ links' = Reads(Atoms(o), LINK)

-----------------------------------------------------------------------------
(* Requests. *)

End == Len(text) + 1

AtomIsa(type, n) == At(type, n)

\* doinsert: new characters, in one span.
Insert(vsa, n) ==
    /\ made.char + n <= MaxChars /\ Len(text) + n <= MaxText
    /\ Becomes(insertpm(orgl, vsa, <<[isa |-> AtomIsa(TEXT, made.char + 1), len |-> n]>>))
    /\ made' = [made EXCEPT !.char = @ + n]

\* findvsatoappend: behind the text, of which there may be none.
findvsatoappend(o) ==
    LET linkspace == tumblerincrement(ZEROTUMBLER, 0, 2)
    IN  IF o.sons = {} \/ tumblercmp(o.apex, linkspace) # LESS THEN At(TEXT, 1)
        ELSE IF tumblercmp(DocReach(o), linkspace) = LESS THEN DocReach(o)
        ELSE Greatest({Reach(o, son) : son \in
                {son \in o.sons : tumblercmp(Grasp(o, son), linkspace) # GREATER}})

Appended(n) == Insert(findvsatoappend(orgl), n)

\* docopy of a span of the document itself.
Copy(vsa, from, upto) ==
    /\ from < upto
    /\ Len(text) + (upto - from) <= MaxText
    /\ Becomes(insertpm(orgl, vsa, vspanset2ispanset(orgl, At(TEXT, from), At(TEXT, upto))))
    /\ UNCHANGED made

\* findnextlinkvsa: behind everything, or the first of the links.
findnextlinkvsa(o) ==
    IF tumblercmp(DocReach(o), At(LINK, 1)) = LESS THEN At(LINK, 1) ELSE DocReach(o)

CreateLink ==
    /\ made.link < MaxLinks
    /\ Becomes(insertpm(orgl, findnextlinkvsa(orgl),
                        <<[isa |-> AtomIsa(LINK, made.link + 1), len |-> 1]>>))
    /\ made' = [made EXCEPT !.link = @ + 1]

Delete(space, from, upto) ==
    /\ from < upto
    /\ Becomes({deletend(orgl, At(space, from), Width(upto - from))})
    /\ UNCHANGED made

Rearrange(knives) ==
    /\ Becomes({rearrangend(orgl, knives)})
    /\ UNCHANGED made

Pivot == \E c3 \in 1..End : \E c2 \in 1..c3 : \E c1 \in 1..(c2 - 1) :
            Rearrange(<<At(TEXT, c1), At(TEXT, c2), At(TEXT, c3)>>)

\* The regions that change places: of the same length, or of any.
Swap(Regions(_, _)) ==
    \E c4 \in 1..End : \E c3 \in 1..c4 : \E c2 \in 1..c3 : \E c1 \in 1..c2 :
        /\ Regions(c2 - c1, c4 - c3)
        /\ Rearrange(<<At(TEXT, c1), At(TEXT, c2), At(TEXT, c3), At(TEXT, c4)>>)

Next ==
    \/ \E p \in 1..End : \/ \E n \in 1..MaxChars : Insert(At(TEXT, p), n)
                         \/ \E upto \in 1..End : \E from \in 1..upto : Copy(At(TEXT, p), from, upto)
    \/ \E n \in 1..MaxChars : Appended(n)
    \/ CreateLink
    \/ \E from, upto \in 1..End : Delete(TEXT, from, upto)
    \/ \E from \in DOMAIN links, upto \in 1..(MaxLinks + 1) : Delete(LINK, from, upto)
    \/ Pivot
    \/ Swap(LAMBDA a, b : a = b /\ a > 0)

Spec == Init /\ [][Next]_vars

\* The same when front ends swap regions of different lengths too.
AnySwapSpec == Init /\ [][Next \/ Swap(LAMBDA a, b : a > 0 /\ b > 0)]_vars

-----------------------------------------------------------------------------
(* Properties. *)

\* No two crums say what is at the same V-address, after whatever insertions,
\* deletions and rearrangements (edit.c makes no check).
OneAtATime ==
    \A a, b \in Atoms(orgl) : a.space = b.space /\ a.place = b.place => a = b

DOC == INSTANCE Document WITH text <- text, links <- links, made <- made

\* Whatever crums the editing before has left, an edit cuts and shifts them so
\* that the document reads as Document says, and no edit of the text moves a
\* link (findings/0016, 0054, 0055).
EditsTheDocument == DOC!Spec
=============================================================================
