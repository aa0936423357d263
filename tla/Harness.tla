------------------------------ MODULE Harness -------------------------------
(***************************************************************************)
(* The scenarios of the test harness on the back end (generate_golden.py,  *)
(* generate_multisession_golden.py, XuSession in client.py).  A scenario   *)
(* has one session or two, and runs twice, on two back ends side by side.  *)
(* One it has for itself, as the generators start it.  The other it shares *)
(* with a neighbour: a front end under an account of its own, who reads    *)
(* and branches the scenario's documents, quotes them in a document of his *)
(* own and links to them.                                                  *)
(*                                                                         *)
(* The neighbour visits a document when the scenario has just changed,     *)
(* opened or closed it: a visit later on would be seen by fewer requests.  *)
(***************************************************************************)
EXTENDS Requests, Integers, FiniteSets

FEBE == INSTANCE Febe

CONSTANTS
    Scripts,       \* the scenarios
    MaxVisits      \* how often the neighbour comes by

ASSUME MaxVisits \in Nat

VARIABLES
    todo,       \* the requests the scenario has still to make
    last,       \* the request it made last
    account,    \* under which each of its sessions works
    names,      \* the addresses in its variables
    back,       \* the stores of the two back ends
    answer,     \* what each answered to the last request
    followed,   \* what each answered to the last follow_link
    visits      \* of the neighbour

vars == <<todo, last, account, names, back, answer, followed, visits>>

Worlds == {"alone", "shared"}

\* All but the scenarios of multisession.py have one session.
SESSION == "a"
Sessions == {SESSION, "b"}
NEIGHBOUR == "neighbour"

DEFAULT_ACCOUNT == "1.1.0.1"
NEIGHBOURS_ACCOUNT == "1.1.0.9"

\* The neighbour has a document of one character open.
NeighboursDoc == FEBE!CreateDocument(FEBE!EmptyStore, NEIGHBOURS_ACCOUNT).answer

NeighboursStore ==
    LET created == FEBE!CreateDocument(FEBE!EmptyStore, NEIGHBOURS_ACCOUNT).store
        opened == FEBE!OpenDocument(created, NEIGHBOUR, NEIGHBOURS_ACCOUNT, NeighboursDoc,
                                    READ_WRITE, CONFLICT_FAIL).store
    IN  FEBE!Insert(opened, NEIGHBOUR, NEIGHBOURS_ACCOUNT, NeighboursDoc, 1, 1).store

Init ==
    /\ todo \in {FlattenSeq(script) : script \in ToSet(Scripts)}
    /\ last = [op |-> "start"]
    /\ account = [s \in Sessions |-> DEFAULT_ACCOUNT]
    /\ names = FEBE!Nothing
    /\ back = [alone |-> FEBE!EmptyStore, shared |-> NeighboursStore]
    /\ answer = [w \in Worlds |-> FEBE!Done]
    /\ followed = [w \in Worlds |-> NOSPECS]
    /\ visits = 0

-----------------------------------------------------------------------------
(* The scenario's requests. *)

Request == Head(todo)

Session == IF "by" \in DOMAIN Request THEN Request.by ELSE SESSION
CurrentAccount == account[Session]

\* A specification with the addresses that its names stand for.
Resolved(w, spec) ==
    FlattenSeq([k \in DOMAIN spec |->
        CASE spec[k].part = "answer" -> followed[w]
          [] spec[k].part = "type" -> <<spec[k]>>
          [] OTHER -> <<[spec[k] EXCEPT !.doc = names[@]]>>])

ResolvedEnds(w) == [e \in DOMAIN Request.ends |-> Resolved(w, Request.ends[e])]

Calls(op) == todo # << >> /\ Request.op = op

\* Given(w) is what back end w makes of the request.
Serve(Given(_)) ==
    \E alone \in {Given("alone")}, shared \in {Given("shared")} :
        /\ back' = [alone |-> alone.store, shared |-> shared.store]
        /\ answer' = [alone |-> alone.answer, shared |-> shared.answer]
        /\ todo' = Tail(todo)
        /\ last' = Request
        /\ UNCHANGED visits

Ask(Says(_)) ==
    /\ Serve(LAMBDA w : FEBE!Given(back[w], Says(w)))
    /\ UNCHANGED <<account, names>>

\* What the scenario creates or opens has the same address on both back ends,
\* or the answers differ.
Bind == names' = FEBE!With(names, Request.as, answer'["shared"])

d == names[Request.doc]

SetsAccount ==
    /\ Calls("account")
    /\ account' = [account EXCEPT ![Session] = Request.account]
    /\ Serve(LAMBDA w : FEBE!Given(back[w], FEBE!Done))
    /\ UNCHANGED <<names, followed>>

CreatesDocument ==
    /\ Calls("create_document")
    /\ Serve(LAMBDA w : FEBE!CreateDocument(back[w], CurrentAccount))
    /\ Bind
    /\ UNCHANGED <<account, followed>>

CreatesVersion ==
    /\ Calls("create_version")
    /\ Serve(LAMBDA w : FEBE!CreateVersion(back[w], d))
    /\ Bind
    /\ UNCHANGED <<account, followed>>

OpensDocument ==
    /\ Calls("open_document")
    /\ Serve(LAMBDA w : FEBE!OpenDocument(back[w], Session, CurrentAccount, d,
                                          Request.access, Request.copy))
    /\ Bind
    /\ UNCHANGED <<account, followed>>

ClosesDocument ==
    /\ Calls("close_document")
    /\ Serve(LAMBDA w : FEBE!CloseDocument(back[w], Session, d))
    /\ UNCHANGED <<account, names, followed>>

Inserts ==
    /\ Calls("insert")
    /\ Serve(LAMBDA w : FEBE!Insert(back[w], Session, CurrentAccount, d, Request.at, Request.n))
    /\ UNCHANGED <<account, names, followed>>

Vcopies ==
    /\ Calls("vcopy")
    /\ Serve(LAMBDA w : FEBE!Copy(back[w], Session, CurrentAccount, d, Request.at,
                                  Resolved(w, Request.spec)))
    /\ UNCHANGED <<account, names, followed>>

Removes ==
    /\ Calls("remove")
    /\ Serve(LAMBDA w : FEBE!DeleteVspan(back[w], Session, CurrentAccount, d,
                                         Request.part, Request.at, Request.n))
    /\ UNCHANGED <<account, names, followed>>

Rearranges ==
    /\ Calls("rearrange")
    /\ Serve(LAMBDA w : FEBE!Rearrange(back[w], Session, CurrentAccount, d, Request.cuts))
    /\ UNCHANGED <<account, names, followed>>

CreatesLink ==
    /\ Calls("create_link")
    /\ Serve(LAMBDA w : FEBE!CreateLink(back[w], Session, CurrentAccount, d, ResolvedEnds(w)))
    /\ Bind
    /\ UNCHANGED <<account, followed>>

FindsLinks ==
    /\ Calls("find_links")
    /\ Ask(LAMBDA w : FEBE!FindLinks(back[w], ResolvedEnds(w)))
    /\ UNCHANGED followed

\* follow_link takes a refusal for an end at which there is nothing.
FollowsLink ==
    /\ Calls("follow_link")
    /\ Ask(LAMBDA w :
           LET places == FEBE!FollowLink(back[w], names[Request.link], Request.end)
           IN  IF places = FEBE!Failed THEN NOSPECS ELSE places)
    /\ followed' = answer'

RetrievesEndsets ==
    /\ Calls("retrieve_endsets")
    /\ Ask(LAMBDA w : FEBE!RetrieveEndsets(back[w], Resolved(w, Request.spec)))
    /\ UNCHANGED followed

FindsDocuments ==
    /\ Calls("find_documents")
    /\ Ask(LAMBDA w : FEBE!FindDocuments(back[w], Resolved(w, Request.spec)))
    /\ UNCHANGED followed

RetrievesContents ==
    /\ Calls("retrieve_contents")
    /\ Ask(LAMBDA w : FEBE!RetrieveContents(back[w], Session, CurrentAccount, Resolved(w, Request.spec)))
    /\ UNCHANGED followed

RetrievesVspanset ==
    /\ Calls("retrieve_vspanset")
    /\ Ask(LAMBDA w : FEBE!RetrieveVspanset(back[w], Session, CurrentAccount, d))
    /\ UNCHANGED followed

ComparesVersions ==
    /\ Calls("compare_versions")
    /\ Ask(LAMBDA w : FEBE!CompareVersions(back[w], Session, CurrentAccount,
                          Resolved(w, Request.specs[1]), Resolved(w, Request.specs[2])))
    /\ UNCHANGED followed

-----------------------------------------------------------------------------
(* The neighbour's requests. *)

Changing == {"create_document", "create_version", "open_document", "close_document",
             "insert", "vcopy", "remove", "rearrange", "create_link"}

Visited == names[IF last.op \in {"create_document", "create_version", "open_document"}
                 THEN last.as ELSE last.doc]

Visit(given) ==
    /\ back' = [back EXCEPT !["shared"] = given.store]
    /\ visits' = visits + 1
    /\ UNCHANGED <<todo, last, account, names, answer, followed>>

Comes == visits < MaxVisits /\ last.op \in Changing

\* The neighbour opens the document, for as long as he lives.  What he may not
\* have he gets a version of.
NeighbourOpens(type) ==
    /\ Comes
    /\ Visit(FEBE!OpenDocument(back["shared"], NEIGHBOUR, NEIGHBOURS_ACCOUNT, Visited,
                               type, CONFLICT_COPY))

NeighbourReads == NeighbourOpens(READ_ONLY)
NeighbourBranches == NeighbourOpens(READ_WRITE)

NeighbourQuotes ==
    /\ Comes
    /\ Visit(FEBE!Copy(back["shared"], NEIGHBOUR, NEIGHBOURS_ACCOUNT, NeighboursDoc, 1,
                       Text(Visited)))

NeighbourLinks ==
    /\ Comes
    /\ Visit(FEBE!CreateLink(back["shared"], NEIGHBOUR, NEIGHBOURS_ACCOUNT, NeighboursDoc,
                             <<Text(Visited), Text(NeighboursDoc), NOSPECS>>))

Next ==
    \/ SetsAccount \/ CreatesDocument \/ CreatesVersion \/ OpensDocument \/ ClosesDocument
    \/ Inserts \/ Vcopies \/ Removes \/ Rearranges \/ CreatesLink
    \/ FindsLinks \/ FollowsLink \/ RetrievesEndsets \/ FindsDocuments
    \/ RetrievesContents \/ RetrievesVspanset \/ ComparesVersions
    \/ NeighbourReads \/ NeighbourBranches \/ NeighbourQuotes \/ NeighbourLinks

Spec == Init /\ [][Next]_vars

-----------------------------------------------------------------------------
(* What the scenarios ask. *)

Documents == DOMAIN back.alone.docs
TextLength == Len(back.alone.docs[d].text)

\* It is of documents that exist, or of a type.
IsSpec(spec) ==
    /\ spec \in Seq([doc : STRING, part : {"text", "links", "whole", "type", "answer"},
                      at : SUBSET Nat])
    /\ LET spans == Resolved("alone", spec)
       IN  \A k \in DOMAIN spans : spans[k].part # "type" => spans[k].doc \in Documents

IsEnds(ends) == DOMAIN ends = FEBE!Ends /\ \A e \in FEBE!Ends : IsSpec(ends[e])

OfDocument == {"create_version", "open_document", "close_document", "insert", "vcopy",
               "remove", "rearrange", "create_link", "retrieve_vspanset"}
OfSpec == {"vcopy", "retrieve_endsets", "find_documents", "retrieve_contents"}
OfEnds == {"create_link", "find_links"}

AboutDocuments ==
    /\ todo # << >> =>
          /\ "by" \in DOMAIN Request => Request.by \in Sessions
          /\ Request.op \in OfDocument => d \in Documents
          /\ Request.op \in OfSpec => IsSpec(Request.spec)
          /\ Request.op \in OfEnds => IsEnds(Request.ends)
    /\ Calls("account") => Request.account \in STRING \ {NEIGHBOURS_ACCOUNT}
    /\ Calls("open_document") =>
          /\ Request.access \in {READ_ONLY, READ_WRITE}
          /\ Request.copy \in {CONFLICT_FAIL, CONFLICT_COPY, ALWAYS_COPY}
    /\ Calls("follow_link") =>
          names[Request.link] \in DOMAIN back.alone.ends /\ Request.end \in FEBE!Ends
    /\ Calls("retrieve_endsets") =>
          LET spans == Resolved("alone", Request.spec)
          IN  spans # << >> /\ Head(spans).doc \in Documents
    /\ Calls("compare_versions") => IsSpec(Request.specs[1]) /\ IsSpec(Request.specs[2])
    /\ Comes => Visited \in Documents

WithinText ==
    /\ Calls("insert") => Request.at \in 1..(TextLength + 1) /\ Request.n \in Nat
    /\ Calls("vcopy") => Request.at \in 1..(TextLength + 1)
    /\ Calls("remove") =>
          /\ Request.at \in Nat \ {0} /\ Request.n \in Nat
          /\ Request.part = "text" => Request.at <= TextLength + 1
    /\ Calls("rearrange") =>
          LET cut == Request.cuts
          IN  /\ cut \in Seq(1..(TextLength + 1)) /\ Len(cut) = 4
              /\ \A k \in 1..3 : cut[k] <= cut[k + 1]

-----------------------------------------------------------------------------
(* Properties. *)

\* These are about what a scenario leaves behind.
AtEnd == todo = << >>

\* The addresses at which documents show something, as specifications.
Places(st) ==
    (UNION {{At(doc, p, 1) : p \in DOMAIN st.docs[doc].text} : doc \in DOMAIN st.docs})
        \union (UNION {{LinksAt(doc, p, 1) : p \in DOMAIN st.docs[doc].links} : doc \in DOMAIN st.docs})

AskedAt(e, place) == [f \in FEBE!Ends |-> IF f = e THEN place ELSE NOSPECS]

Covers(places, place) ==
    \E k \in DOMAIN places : places[k].doc = place[1].doc /\ places[k].part = place[1].part
                                 /\ place[1].at \subseteq places[k].at

\* A front end that opens documents, branches them, quotes them and links to
\* them changes no answer to those who work on them: no open is refused for
\* it, no address moves, no text changes.  Only links and documents of its own
\* are found in addition, and more places of endsets.  (checkforopen, doopen
\* and docopy share one open table, one granfilade and one spanfilade among
\* all connections.)
Undisturbed ==
    LET alone == answer.alone
        shared == answer.shared
    IN  CASE last.op = "find_links" -> alone = shared \intersect DOMAIN back.alone.ends
          [] last.op = "find_documents" -> alone = shared \intersect DOMAIN back.alone.docs
          [] last.op = "retrieve_endsets" ->
                \A e \in FEBE!Ends : \A k \in DOMAIN alone[e] : alone[e][k].at \subseteq shared[e][k].at
          [] OTHER -> alone = shared

\* After whatever was inserted, copied, deleted, moved, versioned and linked, a
\* link is found at exactly the places that show something of its endset: the
\* spanfilade (insertendsetsinspanf, findlinksfromtothreesp) says the same as
\* the orgl of the link (insertendsetsinorgl), through the POOMs of all
\* documents.
LinksFound ==
    LET st == back.shared
        EndsetOf(link, e) == UNION {x.items : x \in ToSet(st.ends[link][e])}
    IN  AtEnd =>
        \A place \in Places(st), e \in FEBE!Ends :
            FEBE!FindLinks(st, AskedAt(e, place))
                = {link \in DOMAIN st.ends : FEBE!Content(st, place) \subseteq EndsetOf(link, e)}

\* A link that is found at a place of the document in which its end was made
\* leads back to that place (dofollowlink, linksporglset2specset).
FoundIsFollowed ==
    LET st == back.shared
    IN  AtEnd =>
        \A link \in DOMAIN st.ends, e \in FEBE!Ends :
            st.ends[link][e] # << >> =>
                \A place \in {pl \in Places(st) : pl[1].doc = Head(st.ends[link][e]).doc} :
                    link \in FEBE!FindLinks(st, AskedAt(e, place))
                        => Covers(FEBE!FollowLink(st, link, e), place)

\* A document is found by whatever it shows, however that came there: typed,
\* quoted, with a version, as a link (insertspanf is called for each of these;
\* rearranging and deleting leave it alone).
DocsFound ==
    AtEnd =>
        \A place \in Places(back.shared) :
            place[1].doc \in FEBE!FindDocuments(back.shared, place)

\* A scenario asks about documents and links that exist by then, and edits
\* within their text: an open that failed, a link that was not made or a text
\* that did not arrive would show in what comes after it.  (Of the back end,
\* Febe says what it does with requests of this kind only.)
Fits == AboutDocuments /\ WithinText
=============================================================================
