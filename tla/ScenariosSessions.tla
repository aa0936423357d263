-------------------------- MODULE ScenariosSessions --------------------------
(***************************************************************************)
(* The scenarios of two sessions, A and B, with one daemon                 *)
(* (multisession.py).  They share the documents and the links; each has    *)
(* its own account and its own opens.                                      *)
(***************************************************************************)
EXTENDS Requests

A(acts) == By("a", FlattenSeq(acts))
B(acts) == By("b", FlattenSeq(acts))

ACCOUNT1 == "1.1.0.1"
ACCOUNT2 == "1.1.0.2"

Copied(d, v) == OpenDocument(v, d, READ_WRITE, CONFLICT_COPY)

cross_session_doc_visibility ==
    <<A(<<Account(ACCOUNT1), Doc("doc", 20)>>),
      B(<<Account(ACCOUNT2), Look("doc")>>)>>

concurrent_document_creation ==
    <<A(<<Account(ACCOUNT1)>>), B(<<Account(ACCOUNT2)>>),
      A(<<CreateDocument("a1")>>), B(<<CreateDocument("b1")>>),
      A(<<CreateDocument("a2")>>), B(<<CreateDocument("b2")>>),
      A(<<Editing("a1", <<Insert("a1", 1, 7)>>)>>), B(<<Editing("b1", <<Insert("b1", 1, 7)>>)>>),
      A(<<Editing("a2", <<Insert("a2", 1, 7)>>)>>), B(<<Editing("b2", <<Insert("b2", 1, 7)>>)>>),
      B(<<Look("a1")>>), A(<<Look("b1")>>)>>

concurrent_write_same_account ==
    <<A(<<Account(ACCOUNT1)>>), B(<<Account(ACCOUNT1)>>),
      A(<<CreateDocument("a")>>), B(<<CreateDocument("b")>>),
      A(<<Editing("a", <<Insert("a", 1, 6)>>)>>), B(<<Editing("b", <<Insert("b", 1, 6)>>)>>),
      A(<<Look("a")>>), B(<<Look("b")>>)>>

cross_session_link_visibility ==
    <<A(<<Account(ACCOUNT1), CreateDocument("source"), CreateDocument("target"),
          Editing("source", <<
              Insert("source", 1, 10),
              Editing("target", <<
                  Insert("target", 1, 11),
                  Jump("link", "source", At("source", 1, 5), At("target", 1, 5))>>)>>)>>),
      B(<<Account(ACCOUNT2), Reading("source", <<LinksFrom(At("source", 1, 10))>>)>>)>>

concurrent_versioning ==
    <<A(<<Account(ACCOUNT1)>>), B(<<Account(ACCOUNT1)>>),
      A(<<Doc("original", 16), CreateVersion("va", "original")>>),
      B(<<CreateVersion("vb", "original")>>),
      A(<<Copied("va", "va"), Extend("va", 17, 14), Close("va")>>),
      B(<<Copied("vb", "vb"), Extend("vb", 17, 14), Close("vb")>>),
      A(<<Look("original")>>), B(<<Look("va")>>), A(<<Look("vb")>>)>>

cross_session_transclusion ==
    <<B(<<Account(ACCOUNT2), Doc("source", 21)>>),
      A(<<Account(ACCOUNT1), Draft("dest", 12),
          Read("source"), RetrieveVspanset("dest"), Vcopy("dest", 13, At("source", 1, 14)),
          Close("source"), Close("dest"), Look("source")>>),
      B(<<Look("dest")>>),
      A(<<Read("dest"), Read("source"), RetrieveVspanset("dest"), RetrieveVspanset("source"),
          CompareVersions(Whole("dest"), Whole("source")), Close("dest"), Close("source")>>)>>

session_isolation ==
    <<A(<<Account(ACCOUNT1)>>), B(<<Account(ACCOUNT1)>>),
      A(<<CreateDocument("a1"), Account(ACCOUNT2)>>),
      B(<<CreateDocument("b1")>>), A(<<CreateDocument("a2")>>)>>

\* B is given a version, which nobody looks at.
concurrent_edit_different_regions ==
    <<A(<<Account(ACCOUNT1), Doc("doc", 12), Copied("doc", "edit_a")>>),
      B(<<Account(ACCOUNT2), Copied("doc", "edit_b")>>),
      A(<<Delete("edit_a", 1, 4), Insert("edit_a", 1, 4)>>),
      B(<<Delete("edit_b", 9, 4), Insert("edit_b", 9, 4)>>),
      A(<<Close("edit_a")>>), B(<<Close("edit_b")>>),
      A(<<Look("doc")>>)>>

link_from_session_a_to_session_b_doc ==
    <<B(<<Account(ACCOUNT2), Doc("target", 18)>>),
      A(<<Account(ACCOUNT1), Draft("source", 15), Read("target"),
          Jump("link", "source", At("source", 1, 4), At("target", 1, 8)),
          Close("target"), Close("source")>>),
      B(<<Reading("target", <<LinksTo(At("target", 1, 20))>>)>>),
      A(<<Reading("source", <<LinksFrom(At("source", 1, 20))>>)>>)>>

SessionsScenarios ==
    <<cross_session_doc_visibility, concurrent_document_creation, concurrent_write_same_account,
      cross_session_link_visibility, concurrent_versioning, cross_session_transclusion,
      session_isolation, concurrent_edit_different_regions,
      link_from_session_a_to_session_b_doc>>
=============================================================================
