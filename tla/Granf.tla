------------------------------- MODULE Granf -------------------------------
(***************************************************************************)
(* The granfilade: where the documents, links and characters of the        *)
(* docuverse live, each at a permanent I-address (granf1.c, granf2.c,      *)
(* insert.c).  A new address is found from what is there: the last thing   *)
(* before an upper bound.  The state is the row of bottom crums; the tree  *)
(* above it is abstracted to its searches, of which each finds the         *)
(* leftmost crum that the C search would stop at.  A crum keeps a width in *)
(* the program and its address here: TumbleLaws!WidthReaches and           *)
(* WidthsGroup say that the one determines the other.                      *)
(*                                                                         *)
(* Front ends insert text and make links in documents and versions only,   *)
(* and texts of at most GRANTEXTLENGTH characters at a time.               *)
(***************************************************************************)
EXTENDS Tumble, Sequences

CONSTANTS
    GRANTEXTLENGTH,     \* 950 in common.h
    Account,            \* accounts front ends work under
    Named,              \* addresses front ends may name with nothing there
    MaxChars, MaxOrgls  \* bounds of an instance

ASSUME GranfAssumption ==
    /\ GRANTEXTLENGTH \in Nat \ {0}
    /\ Account \subseteq tumbler /\ Named \subseteq tumbler
    /\ MaxChars \in Nat /\ MaxOrgls \in Nat

\* The zeros between the fields of an address, node.0.user.0.document.0.element
\* (febe/scenarios/accounts.py:7).
Zeros(a) == {p \in Place : p < nstories(a) /\ a.mantissa[p] = 0}

\* Front ends work under accounts node.0.user, and name documents
\* node.0.user.0.document (docreatenewversion looks at nothing else).  The
\* program takes any tumbler for either: an account inside a document would
\* share its addresses.
ASSUME AddressAssumption ==
    /\ \A a \in Account \union Named :
          a.sign = 0 /\ tumblercheck(a) /\ ~iszerotumbler(a)
    /\ \A a \in Account : Cardinality(Zeros(a)) = 1
    /\ \A a \in Named : Cardinality(Zeros(a)) = 2

\* Characters are told apart by the order in which they come.
Char == 1..MaxChars

VARIABLES
    granf,      \* the bottom crums: address, what is there, and the text
    given,      \* history: all that front ends were given an address for
    latest,     \* history: what the last request was given
    running     \* the program has not ended itself

vars == <<granf, given, latest, running>>

Crum == [isa : tumbler, infotype : {"GRANNULL", "GRANORGL", "GRANTEXT"}, text : Seq(Char)]

Kind == {"document", "version", "node", "link", "char"}

\* An address that was given, for what, and the address it was asked for under.
Gift == [isa : tumbler, kind : Kind, char : Char \union {0}, hint : tumbler]

\* No text outgrows the GRANTEXTLENGTH characters of its crum (insert.c:86).
TypeOK ==
    /\ granf \in Seq(Crum)
    /\ \A i \in DOMAIN granf : Len(granf[i].text) <= GRANTEXTLENGTH
    /\ given \in SUBSET Gift
    /\ latest \in SUBSET Gift
    /\ running \in BOOLEAN

\* createenf: one crum at the origin.
Init ==
    /\ granf = <<[isa |-> ZEROTUMBLER, infotype |-> "GRANNULL", text |-> <<>>]>>
    /\ given = {}
    /\ latest = {}
    /\ running = TRUE

-----------------------------------------------------------------------------
(* Searches. *)

Last(i) == i = Len(granf)

WhereOnCrum(i, address) == intervalcmp(granf[i].isa, granf[i + 1].isa, address)

\* retrieve, retrievecrums: the crum an address falls into.
FindCrum(address) ==
    Min({i \in DOMAIN granf : Last(i) \/ WhereOnCrum(i, address) <= THRUME})

isaexistsgr(isa) == granf[FindCrum(isa)].isa = isa

\* Slip: of a text it is its first character's.
findpreviousisagrFirst(upperbound) ==
    granf[Min({i \in DOMAIN granf :
                 Last(i) \/ WhereOnCrum(i, upperbound) \in {THRUME, ONMYRIGHTBORDER}})].isa

\* The last address in use before upperbound: of a text its last character's.
findpreviousisagr(upperbound) ==
    LET i == Min({i \in DOMAIN granf :
                    Last(i) \/ WhereOnCrum(i, upperbound) \in {THRUME, ONMYRIGHTBORDER}})
    IN  IF granf[i].infotype = "GRANTEXT"
        THEN tumblerincrement(granf[i].isa, 0, Len(granf[i].text) - 1)
        ELSE granf[i].isa

TEXTATOM == 1
LINKATOM == 2

\* The next character or link of the document at hint: hint.0.1.n, hint.0.2.n.
findisatoinsertmolecule(hint, atomtype) ==
    LET lowerbound == findpreviousisagr(tumblerincrement(hint, 2, atomtype + 1))
        first == tumblerincrement(hint, 2, 2)
    IN  IF tumblerlength(hint) = tumblerlength(lowerbound)
        THEN tumblerincrement(tumblerincrement(lowerbound, 2, atomtype), 1, 1)
        ELSE IF atomtype = TEXTATOM THEN tumblerincrement(lowerbound, 0, 1)
        ELSE IF tumblercmp(lowerbound, first) = LESS THEN tumblerincrement(first, 1, 1)
        ELSE tumblerincrement(lowerbound, 0, 1)

\* Slip (the first form of the code): whatever comes before the upper bound is
\* taken for a child of hint.
findisatoinsertnonmoleculeAny(hint, depth) ==
    LET lowerbound == findpreviousisagr(tumblerincrement(hint, depth - 1, 1))
        child == tumblertruncate(lowerbound, tumblerlength(hint) + depth)
    IN  IF iszerotumbler(lowerbound) THEN tumblerincrement(hint, depth, 1)
        ELSE tumblerincrement(child, IF tumblerlength(child) = tumblerlength(hint)
                                     THEN depth ELSE 0, 1)

\* The next child of hint, one place further, or two behind a zero.
findisatoinsertnonmolecule(hint, depth) ==
    LET lowerbound == findpreviousisagr(tumblerincrement(hint, depth - 1, 1))
        child == tumblertruncate(lowerbound, tumblerlength(hint) + depth)
    IN  IF \/ iszerotumbler(lowerbound)
           \/ tumblertruncate(lowerbound, tumblerlength(hint)) # hint
        THEN tumblerincrement(hint, depth, 1)
        ELSE tumblerincrement(child, IF tumblerlength(child) = tumblerlength(hint)
                                     THEN depth ELSE 0, 1)

-----------------------------------------------------------------------------
(* insertseq. *)

After(g, i, crum) == SubSeq(g, 1, i) \o <<crum>> \o SubSeq(g, i + 1, Len(g))

\* Slip: the rest of a text goes where the whole text was to go.
InsertTextCrumAt(isa, text) ==
    LET i == FindCrum(isa)
        room == GRANTEXTLENGTH - Len(granf[i].text)
        crum(a, t) == [isa |-> a, infotype |-> "GRANTEXT", text |-> t]
    IN  IF granf[i].infotype # "GRANTEXT" \/ room <= 0
        THEN After(granf, i, crum(isa, text))
        ELSE IF room > Len(text)
        THEN [granf EXCEPT ![i].text = @ \o text]
        ELSE After([granf EXCEPT ![i].text = @ \o SubSeq(text, 1, room)], i,
                   crum(isa, SubSeq(text, room + 1, Len(text))))

\* Slip: where there is any room the whole text goes.
InsertTextOverflowing(isa, text) ==
    LET i == FindCrum(isa)
    IN  IF granf[i].infotype # "GRANTEXT" \/ Len(granf[i].text) >= GRANTEXTLENGTH
        THEN After(granf, i, [isa |-> isa, infotype |-> "GRANTEXT", text |-> text])
        ELSE [granf EXCEPT ![i].text = @ \o text]

\* The text goes into the crum of its address, behind what is there; what finds
\* no room goes into a crum behind it, even if that is nothing.
InsertText(isa, text) ==
    LET i == FindCrum(isa)
        room == GRANTEXTLENGTH - Len(granf[i].text)
        crum(a, t) == [isa |-> a, infotype |-> "GRANTEXT", text |-> t]
    IN  IF granf[i].infotype # "GRANTEXT" \/ room <= 0
        THEN After(granf, i, crum(isa, text))
        ELSE IF room > Len(text)
        THEN [granf EXCEPT ![i].text = @ \o text]
        ELSE After([granf EXCEPT ![i].text = @ \o SubSeq(text, 1, room)], i,
                   crum(tumblerincrement(isa, 0, room), SubSeq(text, room + 1, Len(text))))

InsertOrgl(isa) ==
    After(granf, FindCrum(isa), [isa |-> isa, infotype |-> "GRANORGL", text |-> <<>>])

-----------------------------------------------------------------------------
(* Requests. *)

Chars == Cardinality({g \in given : g.kind = "char"})

Orgls == Cardinality(given) - Chars

Give(gifts) == latest' = gifts /\ given' = given \union gifts /\ UNCHANGED running

Create(isa, kind, hint) ==
    /\ running /\ Orgls < MaxOrgls
    /\ granf' = InsertOrgl(isa)
    /\ Give({[isa |-> isa, kind |-> kind, char |-> 0, hint |-> hint]})

CreateNewDocument(account) ==
    /\ Increments(account, 2)
    /\ Create(findisatoinsertnonmolecule(account, 2), "document", account)

CreateNode(account) ==
    /\ Increments(account, 1)
    /\ Create(findisatoinsertnonmolecule(account, 1), "node", account)

\* A version of one's own document is its child.
CreateNewVersion(doc) ==
    /\ Increments(doc, 1)
    /\ Create(findisatoinsertnonmolecule(doc, 1), "version", doc)

\* A version of somebody else's is made as a document is, from the address of
\* the original in the place of an account's.
CreateForeignVersion(doc) ==
    /\ Increments(doc, 2)
    /\ Create(findisatoinsertnonmolecule(doc, 2), "version", doc)

\* domakelink, docreatelink: the link's orgl.
CreateLink(doc) ==
    /\ isaexistsgr(doc) /\ Increments(doc, 3)
    /\ Create(findisatoinsertmolecule(doc, LINKATOM), "link", doc)

\* The characters are stored before anybody asks whether the document is open.
Insert(doc, n) ==
    /\ running /\ isaexistsgr(doc) /\ Increments(doc, 3)
    /\ Chars + n <= MaxChars
    /\ LET isa == findisatoinsertmolecule(doc, TEXTATOM)
       IN  /\ granf' = InsertText(isa, [k \in 1..n |-> Chars + k])
           /\ Give({[isa |-> tumblerincrement(isa, 0, k - 1), kind |-> "char",
                       char |-> Chars + k, hint |-> doc] : k \in 1..n})

\* The address a request needs has too many digits: gerror ends the program.
Overflow(hint, digits) ==
    /\ running /\ ~Increments(hint, digits)
    /\ running' = FALSE
    /\ UNCHANGED <<granf, given, latest>>

AccountOrNode == Account \union {g.isa : g \in {g \in given : g.kind = "node"}}

Document == {g.isa : g \in {g \in given : g.kind \in {"document", "version"}}}

Next ==
    \/ \E a \in AccountOrNode : \/ CreateNewDocument(a) \/ CreateNode(a)
                               \/ Overflow(a, 2)
    \/ \E d \in Document \union Named : CreateNewVersion(d)
    \/ \E d \in Document : \/ CreateLink(d) \/ Overflow(d, 3)
                          \/ \E n \in 1..GRANTEXTLENGTH : Insert(d, n)

Spec == Init /\ [][Next]_vars

\* The same when front ends also make versions of others' documents.
ForeignSpec == Init /\ [][Next \/ \E d \in Document : CreateForeignVersion(d)]_vars

-----------------------------------------------------------------------------
(* Properties. *)

\* The crums stand in the order of their addresses, no text reaches into the
\* next crum: so every width is positive and every search comes out right.
InOrder ==
    \A i \in 1..(Len(granf) - 1) :
        /\ tumblercmp(granf[i].isa, granf[i + 1].isa) = LESS
        /\ granf[i].infotype = "GRANTEXT" =>
             tumblercmp(tumblerincrement(granf[i].isa, 0, Len(granf[i].text)),
                        granf[i + 1].isa) # GREATER

\* No address is given out a second time (findings/0021, 0022: "globally
\* unique"), whoever asks for what in whatever order.
NeverTwice ==
    [][\A new \in latest', old \in given : new \notin given => new.isa # old.isa]_vars

\* What was given is under what it was asked for: documents of an account at
\* account.0.n, versions at document.n, text at document.0.1.n, links at
\* document.0.2.n.
WellPlaced ==
    \A g \in given :
        LET parent == CASE g.kind = "char" -> tumblerincrement(g.hint, 2, 1)
                        [] g.kind = "link" -> tumblerincrement(g.hint, 2, 2)
                        [] OTHER -> g.hint
            depth == IF g.kind = "document" THEN 2 ELSE 1
        IN  /\ tumblertruncate(g.isa, tumblerlength(parent)) = parent
            /\ tumblerlength(g.isa) = tumblerlength(parent) + depth

\* The crums that retrieveinspan collects for one character's span.
Collected(isa) ==
    {i \in DOMAIN granf :
        LET end == tumblerincrement(isa, 0, 1)
        IN  IF Last(i) THEN tumblercmp(end, granf[i].isa) = GREATER
            ELSE /\ WhereOnCrum(i, isa) < ONMYRIGHTBORDER
                 /\ WhereOnCrum(i, end) > ONMYLEFTBORDER}

\* The same character is found at its address for ever, and the same document
\* or link: nothing that is inserted later moves or hides it.
Permanent ==
    \A g \in given :
        IF g.kind = "char"
        THEN \E i \in DOMAIN granf :
                /\ Collected(g.isa) = {i}
                /\ granf[i].infotype = "GRANTEXT"
                /\ \E k \in DOMAIN granf[i].text :
                      /\ granf[i].text[k] = g.char
                      /\ tumblerincrement(granf[i].isa, 0, k - 1) = g.isa
        ELSE /\ isaexistsgr(g.isa)
             /\ granf[FindCrum(g.isa)].infotype = "GRANORGL"
=============================================================================
