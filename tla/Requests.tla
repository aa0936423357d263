------------------------------ MODULE Requests ------------------------------
(***************************************************************************)
(* The requests a scenario makes of its session (XuSession in client.py).  *)
(* A scenario is a sequence of acts and an act a sequence of requests: one *)
(* for each method of the session, and the acts that most scenarios are    *)
(* made of.  Documents, versions and links go by the names of the          *)
(* variables that hold their addresses; a text is its length.              *)
(***************************************************************************)
EXTENDS Naturals, Sequences, SequencesExt

READ_ONLY == 1
READ_WRITE == 2

CONFLICT_FAIL == 1
CONFLICT_COPY == 2
ALWAYS_COPY == 3

LINK_SOURCE == 1
LINK_TARGET == 2
LINK_TYPE == 3

-----------------------------------------------------------------------------
(* Specifications of content: sequences of spans. *)

NOSPECS == << >>

Spans(d, part, at) == <<[doc |-> d, part |-> part, at |-> at]>>

\* n characters, or links, from the p-th one on.
At(d, p, n) == Spans(d, "text", p..(p + n - 1))
LinksAt(d, p, n) == Spans(d, "links", p..(p + n - 1))

\* The span 1.1+1, which is wider than any text.
Text(d) == At(d, 1, 9999)

\* What retrieve_vspanset said of the document.
Whole(d) == Spans(d, "whole", {})

\* What the last follow_link gave.
Answer == Spans("", "answer", {})

\* The types are addresses in the first document at which nothing stands.
Type(name) == Spans(name, "type", {})

JUMP_TYPE == Type("jump")
QUOTE_TYPE == Type("quote")
FOOTNOTE_TYPE == Type("footnote")
MARGIN_TYPE == Type("margin")

-----------------------------------------------------------------------------
(* The methods of the session.  What is created or opened is called "as". *)

Account(a) == <<[op |-> "account", account |-> a]>>
CreateDocument(d) == <<[op |-> "create_document", as |-> d]>>
CreateVersion(v, d) == <<[op |-> "create_version", as |-> v, doc |-> d]>>

OpenDocument(v, d, access, copy) ==
    <<[op |-> "open_document", as |-> v, doc |-> d, access |-> access, copy |-> copy]>>

Close(d) == <<[op |-> "close_document", doc |-> d]>>

Insert(d, p, n) == <<[op |-> "insert", doc |-> d, at |-> p, n |-> n]>>
Vcopy(d, p, spec) == <<[op |-> "vcopy", doc |-> d, at |-> p, spec |-> spec]>>

RemoveSpan(d, part, p, n) == <<[op |-> "remove", doc |-> d, part |-> part, at |-> p, n |-> n]>>
Delete(d, p, n) == RemoveSpan(d, "text", p, n)
DeleteLinks(d, p, n) == RemoveSpan(d, "links", p, n)

Pivot(d, c0, c1, c2) == <<[op |-> "rearrange", doc |-> d, cuts |-> <<c0, c1, c1, c2>>]>>
Swap(d, c0, c1, c2, c3) == <<[op |-> "rearrange", doc |-> d, cuts |-> <<c0, c1, c2, c3>>]>>

CreateLink(l, d, source, target, type) ==
    <<[op |-> "create_link", as |-> l, doc |-> d, ends |-> <<source, target, type>>]>>

FindLinks(source, target, type) == <<[op |-> "find_links", ends |-> <<source, target, type>>]>>
FollowLink(l, end) == <<[op |-> "follow_link", link |-> l, end |-> end]>>
RetrieveEndsets(spec) == <<[op |-> "retrieve_endsets", spec |-> spec]>>
FindDocuments(spec) == <<[op |-> "find_documents", spec |-> spec]>>
RetrieveContents(spec) == <<[op |-> "retrieve_contents", spec |-> spec]>>
RetrieveVspanset(d) == <<[op |-> "retrieve_vspanset", doc |-> d]>>
CompareVersions(a, b) == <<[op |-> "compare_versions", specs |-> <<a, b>>]>>

\* Where there are two sessions, these requests are those of one of them.
By(session, acts) ==
    [k \in DOMAIN acts |-> [field \in DOMAIN acts[k] \union {"by"} |->
                               IF field = "by" THEN session ELSE acts[k][field]]]

-----------------------------------------------------------------------------
(* What most scenarios do. *)

Open(d) == OpenDocument(d, d, READ_WRITE, CONFLICT_FAIL)
Read(d) == OpenDocument(d, d, READ_ONLY, CONFLICT_COPY)

\* A document is opened, used and closed.
Editing(d, acts) == Open(d) \o FlattenSeq(acts) \o Close(d)
Reading(d, acts) == Read(d) \o FlattenSeq(acts) \o Close(d)

\* A new document with a text, left open, or closed again.
New(d) == CreateDocument(d) \o Open(d)
Draft(d, n) == New(d) \o Insert(d, 1, n)
Doc(d, n) == Draft(d, n) \o Close(d)

\* Text goes where retrieve_vspanset says that the document ends.
Extend(d, p, n) == RetrieveVspanset(d) \o Insert(d, p, n)

Show(d) == RetrieveVspanset(d) \o RetrieveContents(Whole(d))
Look(d) == Reading(d, <<Show(d)>>)

Jump(l, d, source, target) == CreateLink(l, d, source, target, JUMP_TYPE)
LinksFrom(spec) == FindLinks(spec, NOSPECS, NOSPECS)
LinksTo(spec) == FindLinks(NOSPECS, spec, NOSPECS)

\* The loops of the scenarios, over what they name and over numbers.
Each(names, Acts(_)) == FlattenSeq([k \in DOMAIN names |-> FlattenSeq(Acts(names[k]))])
Times(n, Acts(_)) == FlattenSeq([k \in 1..n |-> FlattenSeq(Acts(k))])
=============================================================================
