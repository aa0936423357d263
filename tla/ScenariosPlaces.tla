-------------------------- MODULE ScenariosPlaces ---------------------------
(***************************************************************************)
(* The scenarios about where links stand in a document and where their     *)
(* endsets are found.  Each is the function of the same name               *)
(* (scenario_...) with the requests it makes, in their order, on a back    *)
(* end that has just been started.  Addresses that a scenario works out    *)
(* from an answer are given as what they come to.                          *)
(***************************************************************************)
EXTENDS Requests

\* endsets.py

retrieve_endsets ==
    <<Draft("source_doc", 22), Draft("target_doc", 19),
      Jump("link_id", "source_doc", At("source_doc", 7, 4),
          At("target_doc", 1, 11)),
      RetrieveEndsets(Text("source_doc")), Close("source_doc"),
      Close("target_doc")>>

endsets_after_source_insert ==
    <<Draft("source_doc", 19), Draft("target_doc", 14),
      Jump("link_id", "source_doc", At("source_doc", 7, 4),
          At("target_doc", 1, 14)),
      RetrieveEndsets(Text("source_doc")), Insert("source_doc", 7, 6),
      RetrieveEndsets(Text("source_doc")), Show("source_doc"),
      Close("source_doc"), Close("target_doc")>>

endsets_after_source_delete ==
    <<Draft("source_doc", 25), Draft("target_doc", 14),
      Jump("link_id", "source_doc", At("source_doc", 7, 10),
          At("target_doc", 1, 14)),
      RetrieveEndsets(Text("source_doc")), Delete("source_doc", 7, 6),
      RetrieveEndsets(Text("source_doc")), Show("source_doc"),
      Close("source_doc"), Close("target_doc")>>

endsets_multispan_link ==
    <<Draft("source_doc", 31), Draft("target_doc", 19),
      Jump("link_id", "source_doc", At("source_doc", 1, 5) \o
          At("source_doc", 16, 6), At("target_doc", 1, 19)),
      RetrieveEndsets(Text("source_doc")), Close("source_doc"),
      Close("target_doc")>>

endsets_after_pivot ==
    <<Draft("doc", 8), Draft("target_doc", 6),
      Jump("link_id", "doc", At("doc", 3, 2), At("target_doc", 1, 6)),
      RetrieveEndsets(Text("doc")), RetrieveContents(At("doc", 1, 8)),
      Pivot("doc", 2, 4, 6), RetrieveContents(At("doc", 1, 8)),
      RetrieveEndsets(Text("doc")), LinksFrom(At("doc", 1, 8)), Close("doc"),
      Close("target_doc")>>

endsets_transcluded_source ==
    <<Doc("original", 20), Draft("doc", 8),
      Reading("original", <<
          RetrieveVspanset("doc"), Vcopy("doc", 9, At("original", 10, 6))>>),
      Draft("target", 20),
      Jump("link_id", "doc", At("doc", 9, 6), At("target", 1, 20)),
      RetrieveEndsets(Text("doc")),
      Reading("original", <<LinksFrom(At("original", 10, 6))>>), Show("doc"),
      Close("doc"), Close("target")>>

endsets_after_version ==
    <<Draft("source_doc", 25), Draft("target_doc", 14),
      Jump("link_id", "source_doc", At("source_doc", 17, 4),
          At("target_doc", 1, 14)),
      RetrieveEndsets(Text("source_doc")), Close("source_doc"),
      Close("target_doc"), CreateVersion("version_doc", "source_doc"),
      Reading("version_doc", <<
          LinksFrom(At("version_doc", 1, 25)),
          RetrieveEndsets(Text("version_doc"))>>)>>

-----------------------------------------------------------------------------
\* links/discontiguous_vspan.py

link_on_discontiguous_transcluded_content ==
    <<Doc("doc_a", 3), Doc("doc_b", 3), New("doc_c"), Read("doc_a"),
      Read("doc_b"), Vcopy("doc_c", 1, At("doc_a", 1, 2)),
      Vcopy("doc_c", 3, At("doc_b", 1, 2)), Close("doc_a"), Close("doc_b"),
      RetrieveContents(At("doc_c", 1, 4)), Draft("target_doc", 6),
      Jump("link_id", "doc_c", At("doc_c", 1, 4), At("target_doc", 1, 6)),
      FollowLink("link_id", LINK_SOURCE), RetrieveContents(Answer),
      RetrieveEndsets(At("doc_c", 1, 4)), Close("doc_c"), Close("target_doc")>>

-----------------------------------------------------------------------------
\* links/subspace_independence.py

text_insert_preserves_link_vpositions ==
    <<Draft("source_docid", 10), RetrieveVspanset("source_docid"),
      Draft("target_docid", 6),
      Jump("link_id", "source_docid", At("source_docid", 1, 5),
          At("target_docid", 1, 6)),
      Extend("source_docid", 5, 5), RetrieveVspanset("source_docid"),
      RetrieveContents(At("source_docid", 1, 20)), Close("source_docid"),
      Close("target_docid")>>

multiple_text_insertions_with_links ==
    <<Draft("docid", 3), RetrieveVspanset("docid"), Draft("target_docid", 2),
      Jump("link1", "docid", At("docid", 1, 1), At("target_docid", 1, 2)),
      Extend("docid", 2, 2), RetrieveVspanset("docid"),
      Insert("target_docid", 3, 2),
      Jump("link2", "docid", At("docid", 3, 1), At("target_docid", 3, 2)),
      Extend("docid", 1, 2), RetrieveVspanset("docid"),
      RetrieveContents(At("docid", 1, 10)), Close("docid"),
      Close("target_docid")>>

-----------------------------------------------------------------------------
\* links/link_subspace_deletion.py

delete_link_subspace ==
    <<Draft("doc_a", 11), Draft("doc_b", 11),
      Jump("link_id", "doc_a", At("doc_a", 1, 6), At("doc_b", 1, 6)),
      RetrieveVspanset("doc_a"), LinksFrom(At("doc_a", 1, 6)),
      DeleteLinks("doc_a", 1, 1), RetrieveVspanset("doc_a"),
      LinksFrom(At("doc_a", 1, 6)), FollowLink("link_id", LINK_SOURCE),
      Close("doc_a"), Close("doc_b")>>

-----------------------------------------------------------------------------
\* links/poom_shifting.py

link_poom_no_shift ==
    <<Draft("source_doc", 26), Draft("target_doc", 6),
      Jump("link1_id", "source_doc", At("source_doc", 1, 5),
          At("target_doc", 1, 6)),
      RetrieveVspanset("source_doc"),
      Jump("link2_id", "source_doc", At("source_doc", 16, 6),
          At("target_doc", 1, 6)),
      RetrieveVspanset("source_doc"), RetrieveEndsets(Text("source_doc")),
      Close("source_doc"), Close("target_doc")>>

link_orgl_vposition_observation ==
    <<Draft("source_doc", 19), Draft("target_doc", 6),
      RetrieveVspanset("source_doc"),
      Jump("link_id", "source_doc", At("source_doc", 1, 7),
          At("target_doc", 1, 6)),
      RetrieveVspanset("source_doc"), Close("source_doc"), Close("target_doc")>>

three_links_vspan_growth ==
    <<Draft("source_doc", 24), Draft("target_doc", 6),
      RetrieveVspanset("source_doc"),
      Jump("link1_id", "source_doc", At("source_doc", 1, 5),
          At("target_doc", 1, 6)),
      RetrieveVspanset("source_doc"),
      Jump("link2_id", "source_doc", At("source_doc", 8, 6),
          At("target_doc", 1, 6)),
      RetrieveVspanset("source_doc"),
      Jump("link3_id", "source_doc", At("source_doc", 20, 5),
          At("target_doc", 1, 6)),
      RetrieveVspanset("source_doc"), Close("source_doc"), Close("target_doc")>>

-----------------------------------------------------------------------------
\* links/vposition_shift.py

delete_text_before_link ==
    <<CreateDocument("doc"),
      Editing("doc", <<
          Insert("doc", 1, 15),
          Jump("link_id", "doc", At("doc", 1, 5), At("doc", 10, 5)),
          RetrieveVspanset("doc"), FollowLink("link_id", LINK_SOURCE),
          Delete("doc", 1, 15), RetrieveVspanset("doc"),
          FollowLink("link_id", LINK_SOURCE), LinksFrom(At("doc", 1, 5))>>)>>

delete_partial_text_before_link ==
    <<CreateDocument("doc"),
      Editing("doc", <<
          Insert("doc", 1, 20),
          Jump("link_id", "doc", At("doc", 5, 5), At("doc", 15, 5)),
          Times(2, LAMBDA k : <<
              RetrieveVspanset("doc"), FollowLink("link_id", LINK_SOURCE),
              Delete("doc", 1, 7 * k - 4)>>),
          RetrieveVspanset("doc"), FollowLink("link_id", LINK_SOURCE)>>)>>

-----------------------------------------------------------------------------
\* links/delete_displacement_underflow.py

delete_at_root_origin_height_1 ==
    <<CreateDocument("doc"),
      Editing("doc", <<
          Insert("doc", 1, 15), Insert("doc", 16, 15),
          Jump("link_id", "doc", At("doc", 16, 5), At("doc", 20, 5)),
          RetrieveVspanset("doc"), FollowLink("link_id", LINK_SOURCE),
          Delete("doc", 1, 15), RetrieveVspanset("doc"),
          FollowLink("link_id", LINK_SOURCE)>>)>>

delete_width_larger_than_content ==
    <<CreateDocument("doc"),
      Editing("doc", <<
          Insert("doc", 1, 5),
          Jump("link_id", "doc", At("doc", 1, 2), At("doc", 3, 2)),
          RetrieveVspanset("doc"), FollowLink("link_id", LINK_SOURCE),
          Delete("doc", 1, 100), RetrieveVspanset("doc"),
          FollowLink("link_id", LINK_SOURCE)>>)>>

delete_from_middle_affects_later_links ==
    <<CreateDocument("doc"),
      Editing("doc", <<
          Insert("doc", 1, 30),
          Jump("link_id", "doc", At("doc", 10, 5), At("doc", 20, 5)),
          RetrieveVspanset("doc"), FollowLink("link_id", LINK_SOURCE),
          Delete("doc", 1, 25), RetrieveVspanset("doc"),
          FollowLink("link_id", LINK_SOURCE)>>)>>

-----------------------------------------------------------------------------
\* links/allocation.py

link_allocation_per_document ==
    <<Draft("doc_a", 30), Draft("doc_b", 30), Draft("target_doc", 14),
      Jump("link_a1", "doc_a", At("doc_a", 1, 8), At("target_doc", 1, 6)),
      Jump("link_b1", "doc_b", At("doc_b", 1, 8), At("target_doc", 1, 6)),
      Jump("link_a2", "doc_a", At("doc_a", 15, 4), At("target_doc", 1, 6)),
      Close("doc_a"), Close("doc_b"), Close("target_doc")>>

-----------------------------------------------------------------------------
\* delete_link_gap_closure.py

delete_middle_link_check_gap_closure ==
    <<CreateDocument("doc1"), CreateDocument("doc2"), Open("doc1"),
      Open("doc2"), Insert("doc1", 1, 10), Insert("doc2", 1, 10),
      Jump("link_id_1", "doc1", At("doc1", 1, 2), At("doc2", 1, 2)),
      Jump("link_id_2", "doc1", At("doc1", 3, 2), At("doc2", 3, 2)),
      Jump("link_id_3", "doc1", At("doc1", 5, 2), At("doc2", 5, 2)),
      RetrieveVspanset("doc1"),
      Times(3, LAMBDA k : <<RetrieveContents(LinksAt("doc1", k, 1))>>),
      DeleteLinks("doc1", 2, 1), RetrieveVspanset("doc1"),
      Times(3, LAMBDA k : <<RetrieveContents(LinksAt("doc1", k, 1))>>),
      FollowLink("link_id_1", LINK_TARGET),
      FollowLink("link_id_3", LINK_TARGET), Close("doc1"), Close("doc2")>>

-----------------------------------------------------------------------------
\* subspace_shifts.py

insert_text_check_link_positions ==
    <<CreateDocument("doc1"), CreateDocument("doc2"), Open("doc1"),
      Insert("doc1", 1, 5), Open("doc2"), Insert("doc2", 1, 5),
      Jump("link", "doc1", At("doc1", 2, 2), At("doc2", 2, 2)),
      RetrieveVspanset("doc1"), RetrieveContents(At("doc1", 3, 1)),
      Insert("doc1", 3, 2), RetrieveVspanset("doc1"),
      RetrieveContents(At("doc1", 3, 1)), RetrieveContents(At("doc1", 5, 1)),
      RetrieveContents(LinksAt("doc1", 1, 1)),
      RetrieveContents(Whole("doc1")), LinksFrom(Whole("doc1")),
      Close("doc1"), Close("doc2")>>

createlink_check_text_positions ==
    <<CreateDocument("doc1"), CreateDocument("doc2"), Open("doc1"),
      Open("doc2"), Insert("doc1", 1, 5), Insert("doc2", 1, 5),
      RetrieveContents(At("doc1", 3, 1)), RetrieveVspanset("doc1"),
      Jump("link", "doc1", At("doc1", 2, 1), At("doc2", 2, 1)),
      RetrieveVspanset("doc1"),
      Jump("link2", "doc1", At("doc1", 4, 1), At("doc2", 4, 1)),
      RetrieveVspanset("doc1"), RetrieveContents(At("doc1", 3, 1)),
      Close("doc1"), Close("doc2")>>

displacement_tumbler_value ==
    <<CreateDocument("doc"),
      Editing("doc", <<
          Times(2, LAMBDA k : <<
              Insert("doc", 2 * k - 1, 7 - 2 * k),
              RetrieveContents(At("doc", 4, 1))>>),
          RetrieveContents(At("doc", 6, 1)), RetrieveContents(At("doc", 7, 1))>>)>>

insert_text_check_both_link_positions ==
    <<CreateDocument("doc1"), CreateDocument("doc2"), Open("doc1"),
      Open("doc2"), Insert("doc1", 1, 5), Insert("doc2", 1, 5),
      Jump("link_id", "doc1", At("doc1", 2, 2), At("doc2", 2, 2)),
      RetrieveContents(LinksAt("doc1", 1, 1)), Insert("doc1", 3, 2),
      RetrieveContents(LinksAt("doc1", 1, 1)),
      RetrieveContents(LinksAt("doc1", 3, 1)), LinksFrom(At("doc1", 1, 10)),
      FollowLink("link_id", LINK_TARGET), RetrieveContents(At("doc1", 1, 10)),
      Close("doc1"), Close("doc2")>>

-----------------------------------------------------------------------------
\* version_link_test.py

version_copies_what ==
    <<Draft("parent", 21), Draft("target", 6),
      Jump("link_id", "parent", At("parent", 18, 4), At("target", 1, 6)),
      RetrieveVspanset("parent"), LinksFrom(Whole("parent")), Close("parent"),
      Close("target"), CreateVersion("version", "parent"),
      Reading("version", <<Show("version"), LinksFrom(Whole("version"))>>)>>

-----------------------------------------------------------------------------
PlacesScenarios ==
    <<retrieve_endsets, endsets_after_source_insert,
      endsets_after_source_delete, endsets_multispan_link, endsets_after_pivot,
      endsets_transcluded_source, endsets_after_version,
      link_on_discontiguous_transcluded_content,
      text_insert_preserves_link_vpositions,
      multiple_text_insertions_with_links, delete_link_subspace,
      link_poom_no_shift, link_orgl_vposition_observation,
      three_links_vspan_growth, delete_text_before_link,
      delete_partial_text_before_link, delete_at_root_origin_height_1,
      delete_width_larger_than_content, delete_from_middle_affects_later_links,
      link_allocation_per_document, delete_middle_link_check_gap_closure,
      insert_text_check_link_positions, createlink_check_text_positions,
      displacement_tumbler_value, insert_text_check_both_link_positions,
      version_copies_what>>
=============================================================================
