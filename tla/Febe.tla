-------------------------------- MODULE Febe --------------------------------
(***************************************************************************)
(* The back end as its front ends see it: what each request of the FeBe    *)
(* protocol does to the documents, to the links and to the index, and what *)
(* it answers.  The enfilades are below this level.  A document is here    *)
(* the sequence of what stands at its V-addresses 1.1, 1.2, ... and the    *)
(* links at its V-addresses 2.n (Poom and Document); an I-address is the   *)
(* document in which it was allocated and a number (Granf); the open table *)
(* has at most one entry of a connection for a document (Bert).            *)
(*                                                                         *)
(* Every request is an operator on the store and gives the new store and   *)
(* the answer.  Requests are within the bounds of the text they edit.      *)
(***************************************************************************)
EXTENDS Integers, Sequences, FiniteSets, FiniteSetsExt, SequencesExt

READ_ONLY == 1
READ_WRITE == 2

CONFLICT_FAIL == 1
CONFLICT_COPY == 2
ALWAYS_COPY == 3

LINK_SOURCE == 1
LINK_TARGET == 2
LINK_TYPE == 3

Ends == {LINK_SOURCE, LINK_TARGET, LINK_TYPE}

Failed == "failed"
Done == "done"

Nothing == [k \in {} |-> k]

With(f, k, v) == [j \in DOMAIN f \union {k} |-> IF j = k THEN v ELSE f[j]]

\* The store of a back end that has just been started.
\*   docs   what each document shows, and how much was allocated below it
\*   ends   the endsets of each link, as its own orgl has them
\*   spanf  the index: which documents ever showed an I-address, and which
\*          links have it in an endset
\*   open   the open table
EmptyStore ==
    [docs |-> Nothing, ends |-> Nothing,
     spanf |-> [docs |-> {}, links |-> {}], open |-> Nothing]

Blank == [text |-> << >>, links |-> Nothing, chars |-> 0, made |-> 0]

Char(d, n) == [home |-> d, kind |-> "char", n |-> n]
Link(d, n) == [home |-> d, kind |-> "link", n |-> n]

Given(st, answer) == [store |-> st, answer |-> answer]

-----------------------------------------------------------------------------
(* What a specification of content denotes.  A span is a document, a part  *)
(* of it and a set of positions there; "whole" is what retrieve_vspanset   *)
(* answered for the document, and "type" one of the link types, whose      *)
(* addresses 1.0.2.n no document ever fills.                               *)

Ordered(S, n) ==
    LET upTo[k \in 0..n] ==
            IF k = 0 THEN << >> ELSE IF k \in S THEN Append(upTo[k - 1], k) ELSE upTo[k - 1]
    IN  upTo[n]

LinkPlaces(doc) == Ordered(DOMAIN doc.links, Max({0} \union DOMAIN doc.links))

LinksOf(doc) == LET at == LinkPlaces(doc) IN [k \in DOMAIN at |-> doc.links[at[k]]]

\* The spans of retrieve_vspanset cover the text when there is text: of a
\* document with text and links, the first span is at 0, where there is
\* nothing, and the second goes from 1 to 2.
Shown(doc) == IF doc.text # << >> THEN doc.text ELSE LinksOf(doc)

ItemsOf(st, span) ==
    LET doc == st.docs[span.doc]
    IN  CASE span.part = "text" ->
                LET at == Ordered(span.at, Len(doc.text))
                IN  [k \in DOMAIN at |-> doc.text[at[k]]]
          [] span.part = "links" ->
                LET at == Ordered(span.at \intersect DOMAIN doc.links, Max({0} \union DOMAIN doc.links))
                IN  [k \in DOMAIN at |-> doc.links[at[k]]]
          [] span.part = "whole" -> Shown(doc)
          [] span.part = "type" -> << >>

Items(st, spec) == FlattenSeq([k \in DOMAIN spec |-> ItemsOf(st, spec[k])])

Content(st, spec) == ToSet(Items(st, spec))

\* One I-span for each run of consecutive I-addresses.
Follows(x, y) == y = [x EXCEPT !.n = @ + 1]

Runs(s) ==
    LET first == Ordered({k \in DOMAIN s : k = 1 \/ ~Follows(s[k - 1], s[k])}, Len(s))
        last(k) == IF k = Len(first) THEN Len(s) ELSE first[k + 1] - 1
    IN  [k \in DOMAIN first |-> SubSeq(s, first[k], last(k))]

\* The sporgls of a specification: its I-spans, each with the document in
\* which it was seen.
Sporgls(st, spec) ==
    FlattenSeq([k \in DOMAIN spec |->
        LET runs == Runs(ItemsOf(st, spec[k]))
        IN  [j \in DOMAIN runs |-> [doc |-> spec[k].doc, items |-> ToSet(runs[j])]]])

\* Where a document shows some items.
PlacesOf(st, d, items) ==
    LET doc == st.docs[d]
    IN  <<[doc |-> d, part |-> "text", at |-> {k \in DOMAIN doc.text : doc.text[k] \in items}],
          [doc |-> d, part |-> "links", at |-> {k \in DOMAIN doc.links : doc.links[k] \in items}]>>

-----------------------------------------------------------------------------
(* Opening and closing. *)

\* account[c] is the account of connection c; an address of a document starts
\* with that of its account.
Owns(account, d) == d[1] = account

Opened(st, c, d) == IF <<c, d>> \in DOMAIN st.open THEN st.open[<<c, d>>].type ELSE 0

\* Slip: a reader keeps writers out, as the table above checkforopen has it.
HeldByAnyone(st, c, d) == \E e \in DOMAIN st.open : e[1] # c /\ e[2] = d

HeldByWriter(st, c, d) ==
    \E e \in DOMAIN st.open : e[1] # c /\ e[2] = d /\ st.open[e].type # READ_ONLY

CheckForOpen(st, c, account, d, type) ==
    IF Opened(st, c, d) = READ_WRITE THEN READ_WRITE
    ELSE IF Opened(st, c, d) = READ_ONLY
    THEN IF type = READ_ONLY THEN READ_ONLY ELSE -1
    ELSE IF ~HeldByWriter(st, c, d) /\ (type = READ_ONLY \/ Owns(account, d)) THEN 0 ELSE -1

MayRead(st, c, account, d) == CheckForOpen(st, c, account, d, READ_ONLY) > 0
MayWrite(st, c, account, d) == CheckForOpen(st, c, account, d, READ_WRITE) > 0

AddToOpen(st, c, d, type) ==
    [st EXCEPT !.open = With(@, <<c, d>>, [type |-> type, count |-> 1])]

NewDocument(st, account) ==
    <<account, 1 + Cardinality({d \in DOMAIN st.docs : Len(d) = 2 /\ Owns(account, d)})>>

NewVersion(st, d) ==
    Append(d, 1 + Cardinality({e \in DOMAIN st.docs :
                                   Len(e) = Len(d) + 1 /\ SubSeq(e, 1, Len(d)) = d}))

\* Slip: one entry, for the first of several I-spans.
IndexFirst(st, d, items) ==
    [st EXCEPT !.spanf.docs = @ \union {<<x, d>> : x \in IF items = << >> THEN {} ELSE {Head(items)}}]

\* insertspanf with DOCISPAN.
Index(st, d, items) == [st EXCEPT !.spanf.docs = @ \union {<<x, d>> : x \in ToSet(items)}]

\* docreatenewversion copies one V-span, from the first address of the
\* document to the last.  The copies stand one after the other: the links come
\* to stand behind the text, in text addresses.  Without text they start at
\* the V-address of the first.
VersionOf(doc) ==
    IF doc.text = << >> /\ DOMAIN doc.links # {}
    THEN LET at == LinkPlaces(doc)
         IN  [Blank EXCEPT !.links = [k \in Head(at)..(Head(at) + Len(at) - 1) |->
                                         doc.links[at[k - Head(at) + 1]]]]
    ELSE [Blank EXCEPT !.text = doc.text \o LinksOf(doc)]

WithVersion(st, d, v) ==
    Index([st EXCEPT !.docs = With(@, v, VersionOf(@[d]))],
          v, st.docs[d].text \o LinksOf(st.docs[d]))

CreateDocument(st, account) ==
    LET d == NewDocument(st, account)
    IN  Given([st EXCEPT !.docs = With(@, d, Blank)], d)

\* A version that opening makes goes below the document for its owner, and is
\* a document of its own in the account of anybody else.
VersionAddress(st, account, d) ==
    IF Owns(account, d) THEN NewVersion(st, d) ELSE NewDocument(st, account)

\* CREATENEWVERSION of one's own document.  (Of another's, it takes addresses
\* that belong to the document: Granf.)
CreateVersion(st, d) ==
    LET v == NewVersion(st, d)
    IN  Given(WithVersion(st, d, v), v)

OpenDocument(st, c, account, d, type, mode) ==
    LET state == CheckForOpen(st, c, account, d, type)
        v == VersionAddress(st, account, d)
    IN  CASE mode # ALWAYS_COPY /\ state = 0 -> Given(AddToOpen(st, c, d, type), d)
          [] mode # ALWAYS_COPY /\ type = READ_ONLY /\ state = READ_ONLY ->
                Given([st EXCEPT !.open[<<c, d>>].count = @ + 1], d)
          [] mode = CONFLICT_FAIL /\ state \in {-1, READ_WRITE} -> Given(st, Failed)
          [] mode = ALWAYS_COPY \/ (mode = CONFLICT_COPY /\ state \in {-1, READ_WRITE}) ->
                Given(AddToOpen(WithVersion(st, d, v), c, v, type), v)

\* doclose answers with success whether or not the document was open.
CloseDocument(st, c, d) ==
    IF Opened(st, c, d) = 0 THEN Given(st, Done)
    ELSE IF st.open[<<c, d>>].count > 1
    THEN Given([st EXCEPT !.open[<<c, d>>].count = @ - 1], Done)
    ELSE Given([st EXCEPT !.open = [e \in DOMAIN @ \ {<<c, d>>} |-> @[e]]], Done)
-----------------------------------------------------------------------------
(* Editing.  A document is edited by the connection that has it open for   *)
(* writing.  INSERT, DELETEVSPAN and REARRANGE are answered before they    *)
(* are carried out, so their failure is silent.                            *)

Put(text, p, items) == SubSeq(text, 1, p - 1) \o items \o SubSeq(text, p, Len(text))

\* insertpm and insertspanf of docopy.
PutText(st, d, p, items) ==
    Index([st EXCEPT !.docs[d].text = Put(@, p, items)], d, items)

\* The characters have their addresses before docopy looks at the open table.
Insert(st, c, account, d, p, n) ==
    LET first == st.docs[d].chars
        st2 == [st EXCEPT !.docs[d].chars = @ + n]
    IN  Given(IF MayWrite(st, c, account, d)
              THEN PutText(st2, d, p, [k \in 1..n |-> Char(d, first + k)]) ELSE st2,
              Done)

\* What is copied need not be open.
Copy(st, c, account, d, p, spec) ==
    IF MayWrite(st, c, account, d) THEN Given(PutText(st, d, p, Items(st, spec)), Done)
    ELSE Given(st, Failed)

\* Text closes up.  So do links in a document without text; in one with text
\* a deleted link leaves its V-address empty.
WithoutLinks(doc, p, n) ==
    LET kept == {k \in DOMAIN doc.links : k < p \/ k >= p + n}
        after(k) == IF k >= p /\ doc.text = << >> THEN k + n ELSE k
    IN  [k \in {j \in 1..Max(DOMAIN doc.links) : after(j) \in kept} |-> doc.links[after(k)]]

\* Slip: one character too many.
WithoutOneMore(doc, part, p, n) ==
    IF part = "text" THEN [doc EXCEPT !.text = SubSeq(@, 1, p - 1) \o SubSeq(@, p + n + 1, Len(@))]
    ELSE doc

Without(doc, part, p, n) ==
    IF part = "text" THEN [doc EXCEPT !.text = SubSeq(@, 1, p - 1) \o SubSeq(@, p + n, Len(@))]
    ELSE IF doc.links = Nothing THEN doc
    ELSE [doc EXCEPT !.links = WithoutLinks(doc, p, n)]

DeleteVspan(st, c, account, d, part, p, n) ==
    Given(IF MayWrite(st, c, account, d)
          THEN [st EXCEPT !.docs[d] = Without(@, part, p, n)] ELSE st, Done)

\* Three cuts are four of which the middle two are the same.
Rearranged(text, c0, c1, c2, c3) ==
    SubSeq(text, 1, c0 - 1) \o SubSeq(text, c2, c3 - 1) \o SubSeq(text, c1, c2 - 1)
        \o SubSeq(text, c0, c1 - 1) \o SubSeq(text, c3, Len(text))

Rearrange(st, c, account, d, cut) ==
    Given(IF MayWrite(st, c, account, d)
          THEN [st EXCEPT !.docs[d].text =
                    Rearranged(@, cut[1], cut[2], cut[Len(cut) - 1], cut[Len(cut)])]
          ELSE st, Done)

-----------------------------------------------------------------------------
(* Links. *)

\* Slip: of each end the first sporgl only.
IndexFirstOfEnds(st, link, sporgls) ==
    [st EXCEPT !.spanf.links = @ \union
        {[end |-> e, link |-> link, sporgl |-> Head(sporgls[e])] :
            e \in {f \in Ends : sporgls[f] # << >>}}]

\* insertendsetsinspanf.
IndexEnds(st, link, sporgls) ==
    [st EXCEPT !.spanf.links = @ \union
        UNION {{[end |-> e, link |-> link, sporgl |-> x] : x \in ToSet(sporgls[e])} : e \in Ends}]

\* The link's address is taken before docopy looks at the open table, and the
\* link stands in its document before its endsets are resolved: an endset may
\* contain the link itself.
CreateLink(st, c, account, d, specs) ==
    LET link == Link(d, st.docs[d].made + 1)
        st1 == [st EXCEPT !.docs[d].made = @ + 1]
        at == Max({0} \union DOMAIN st.docs[d].links) + 1
        st2 == Index([st1 EXCEPT !.docs[d].links = With(@, at, link)], d, <<link>>)
        sporgls == [e \in Ends |-> Sporgls(st2, specs[e])]
    IN  IF MayWrite(st, c, account, d)
        THEN Given(IndexEnds([st2 EXCEPT !.ends = With(@, link, sporgls)], link, sporgls), link)
        ELSE Given(st1, Failed)

Touched(st, items, e) ==
    {x \in st.spanf.links : x.end = e /\ x.sporgl.items \intersect items # {}}

\* A specification that is given but denotes nothing is satisfied by no link;
\* one that is not given, by every link.  Where the link lives is not asked.
FindLinks(st, specs) ==
    LET asked == {e \in Ends : specs[e] # << >>}
        found(e) == {x.link : x \in Touched(st, Content(st, specs[e]), e)}
    IN  IF asked = {} THEN {}
        ELSE {l \in UNION {found(e) : e \in asked} : \A e \in asked : l \in found(e)}

\* Slip: of the endset the first sporgl only.
FollowLinkFirst(st, link, e) ==
    IF link \notin DOMAIN st.ends \/ st.ends[link][e] = << >> THEN Failed
    ELSE LET first == Head(st.ends[link][e]) IN PlacesOf(st, first.doc, first.items)

\* All sporgls of the endset are looked up in the document of the first.
FollowLink(st, link, e) ==
    IF link \notin DOMAIN st.ends \/ st.ends[link][e] = << >> THEN Failed
    ELSE LET sporgls == st.ends[link][e]
             d == Head(sporgls).doc
             items == UNION {x.items : x \in ToSet(sporgls)}
         IN  PlacesOf(st, d, items)

\* Whole sporgls that the content touches, looked up in the first document
\* that was asked about.
RetrieveEndsets(st, spec) ==
    LET d == Head(spec).doc
        items(e) == UNION {x.sporgl.items : x \in Touched(st, Content(st, spec), e)}
    IN  [e \in Ends |-> PlacesOf(st, d, items(e))]

-----------------------------------------------------------------------------
(* Reading. *)

FindDocuments(st, spec) ==
    LET shown == Content(st, spec)
    IN  {x[2] : x \in {y \in st.spanf.docs : y[1] \in shown}}

Readable(st, c, account, spec) ==
    \A k \in DOMAIN spec : spec[k].part # "type" => MayRead(st, c, account, spec[k].doc)

RetrieveContents(st, c, account, spec) ==
    IF Readable(st, c, account, spec) THEN Items(st, spec) ELSE Failed

\* The extent of the text when there is no link, the extent of the links when
\* there is no text, and when there are both, which addresses those are is lost.
RetrieveVspanset(st, c, account, d) ==
    LET doc == st.docs[d]
    IN  IF ~MayRead(st, c, account, d) THEN Failed
        ELSE IF doc.links = Nothing THEN [text |-> Len(doc.text)]
        ELSE IF doc.text = << >> THEN [links |-> <<Min(DOMAIN doc.links), Max(DOMAIN doc.links)>>]
        ELSE [both |-> TRUE]

Positions(st, spec) ==
    UNION {{<<spec[k].doc, p>> : p \in
               IF spec[k].part = "whole" THEN DOMAIN st.docs[spec[k].doc].text
               ELSE IF spec[k].part = "text" THEN spec[k].at \intersect DOMAIN st.docs[spec[k].doc].text
               ELSE {}} : k \in DOMAIN spec}

\* The pairs of places of the same content, where nothing occurs twice in
\* either specification.
CompareVersions(st, c, account, spec1, spec2) ==
    IF ~Readable(st, c, account, spec1 \o spec2) THEN Failed
    ELSE {pair \in Positions(st, spec1) \X Positions(st, spec2) :
             LET x == st.docs[pair[1][1]].text[pair[1][2]]
             IN  x.kind = "char" /\ x = st.docs[pair[2][1]].text[pair[2][2]]}
=============================================================================
