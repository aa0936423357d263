------------------------- MODULE ScenariosDiscovery -------------------------
(***************************************************************************)
(* The scenarios about finding the documents that show some content, and   *)
(* what they share.  Each is the function of the same name (scenario_...)  *)
(* with the requests it makes, in their order, on a back end that has just *)
(* been started.  Addresses that a scenario works out from an answer are   *)
(* given as what they come to.                                             *)
(***************************************************************************)
EXTENDS Requests

\* discovery.py

discovery_find_documents_basic ==
    <<CreateDocument("doc"),
      Editing("doc", <<
          Insert("doc", 1, 11), FindDocuments(At("doc", 1, 11))>>)>>

find_documents_transcluded ==
    <<Doc("source", 19), CreateDocument("dest"),
      Editing("dest", <<
          Insert("dest", 1, 8),
          Reading("source", <<
              RetrieveVspanset("dest"), Vcopy("dest", 9, At("source", 1, 14)),
              Show("dest"), FindDocuments(At("source", 1, 6))>>)>>)>>

find_documents_versions ==
    <<Doc("original", 16), CreateVersion("version1", "original"),
      CreateVersion("version2", "original"),
      CreateVersion("version3", "original"),
      Editing("version2", <<Extend("version2", 17, 18)>>),
      Reading("original", <<FindDocuments(At("original", 1, 8))>>)>>

find_documents_no_match ==
    <<Doc("doc1", 22), Doc("doc2", 23),
      Reading("doc1", <<FindDocuments(At("doc1", 1, 5))>>)>>

find_documents_empty_spec ==
    <<Doc("doc", 12), FindDocuments(NOSPECS)>>

find_documents_version_chain ==
    <<Doc("v1", 12), CreateVersion("v2", "v1"),
      Editing("v2", <<Extend("v2", 13, 8)>>), CreateVersion("v3", "v2"),
      Editing("v3", <<Extend("v3", 21, 8)>>),
      Reading("v1", <<FindDocuments(At("v1", 1, 4))>>),
      Reading("v2", <<
          RetrieveVspanset("v2"), FindDocuments(At("v2", 14, 7))>>)>>

find_documents_transitive_transclusion ==
    <<Doc("doc_c", 15), CreateDocument("doc_b"),
      Editing("doc_b", <<
          Insert("doc_b", 1, 10),
          Reading("doc_c", <<
              RetrieveVspanset("doc_b"), Vcopy("doc_b", 11, At("doc_c", 1, 8))>>)>>),
      CreateDocument("doc_a"),
      Editing("doc_a", <<
          Insert("doc_a", 1, 10),
          Reading("doc_b", <<
              RetrieveVspanset("doc_b"), RetrieveVspanset("doc_a"),
              Vcopy("doc_a", 11, At("doc_b", 11, 8))>>)>>),
      Reading("doc_c", <<FindDocuments(At("doc_c", 1, 8))>>), Look("doc_a"),
      Look("doc_b"), Look("doc_c")>>

find_documents_after_delete ==
    <<Doc("source", 16), Draft("dest", 8), Read("source"),
      RetrieveVspanset("dest"), Vcopy("dest", 9, At("source", 1, 8)),
      Close("dest"), FindDocuments(At("source", 1, 8)), Close("source"),
      Editing("dest", <<Delete("dest", 9, 8), Show("dest")>>),
      Reading("source", <<FindDocuments(At("source", 1, 8))>>)>>

find_documents_partial_content ==
    <<Doc("source", 10), New("dest"), Read("source"),
      Vcopy("dest", 1, At("source", 1, 10)), Close("dest"),
      FindDocuments(At("source", 4, 3)), FindDocuments(At("source", 1, 3)),
      FindDocuments(At("source", 8, 3)), Close("source")>>

find_documents_multiple_transclusions ==
    <<Doc("source", 18),
      Each(<<"dest", "dest2", "dest3", "dest4", "dest5">>, LAMBDA d : <<
          CreateDocument(d),
          Editing(d, <<
              Insert(d, 1, 7),
              Reading("source", <<
                  RetrieveVspanset(d), Vcopy(d, 8, At("source", 1, 6))>>)>>)>>),
      Reading("source", <<FindDocuments(At("source", 1, 6))>>)>>

find_documents_with_link_content ==
    <<Draft("source", 19), CreateDocument("target"),
      Editing("target", <<
          Insert("target", 1, 11),
          Jump("link_id", "source", At("source", 7, 4), At("target", 1, 11))>>),
      CreateDocument("dest"),
      Editing("dest", <<Vcopy("dest", 1, At("source", 1, 10))>>),
      Close("source"),
      Reading("source", <<FindDocuments(At("source", 1, 10))>>)>>

find_documents_empty_document ==
    <<CreateDocument("empty"), CreateDocument("full"),
      Editing("full", <<
          Insert("full", 1, 11),
          Reading("empty", <<RetrieveVspanset("empty")>>)>>)>>

-----------------------------------------------------------------------------
\* partial_overlap.py

partial_vcopy_of_linked_span ==
    <<Draft("source", 33), CreateDocument("target"),
      Editing("target", <<
          Insert("target", 1, 19),
          Jump("link_id", "source", At("source", 15, 14), At("target", 1, 6))>>),
      Close("source"), CreateDocument("copy"),
      Editing("copy", <<
          Insert("copy", 1, 14),
          Reading("source", <<
              RetrieveVspanset("copy"), Vcopy("copy", 15, At("source", 20, 4))>>),
          Show("copy"), LinksFrom(At("copy", 1, 20)),
          Reading("source", <<
              FollowLink("link_id", LINK_SOURCE), RetrieveContents(Answer)>>),
          Reading("source", <<
              LinksFrom(At("source", 1, 35)),
              FollowLink("link_id", LINK_SOURCE), RetrieveContents(Answer)>>)>>)>>

link_spanning_multiple_transclusions ==
    <<Doc("doc_a", 18), Doc("doc_b", 19), New("combined"),
      Reading("doc_a", <<Vcopy("combined", 1, At("doc_a", 1, 5))>>),
      Extend("combined", 6, 5),
      Reading("doc_b", <<
          RetrieveVspanset("combined"),
          Vcopy("combined", 11, At("doc_b", 1, 6))>>),
      Show("combined"), CreateDocument("target"),
      Editing("target", <<
          Insert("target", 1, 11),
          Jump("link_id", "combined", At("combined", 1, 16),
              At("target", 1, 4))>>),
      Close("combined"),
      Each(<<"combined", "doc_a", "doc_b">>, LAMBDA d : <<
          Reading(d, <<LinksFrom(At(d, 1, 20))>>)>>)>>

partial_delete_overlaps_link_and_transclusion ==
    <<Doc("source", 10), CreateDocument("copy"),
      Editing("copy", <<
          Insert("copy", 1, 6),
          Reading("source", <<
              RetrieveVspanset("copy"), Vcopy("copy", 7, At("source", 4, 5))>>)>>),
      Draft("target", 6), Open("source"),
      Jump("link_id", "source", At("source", 3, 5), At("target", 1, 6)),
      Close("target"), FollowLink("link_id", LINK_SOURCE),
      RetrieveContents(Answer),
      Reading("copy", <<
          LinksFrom(At("copy", 1, 15)), FollowLink("link_id", LINK_SOURCE),
          RetrieveContents(Answer)>>),
      Delete("source", 4, 3), Show("source"),
      FollowLink("link_id", LINK_SOURCE), RetrieveContents(Answer),
      Close("source"),
      Reading("copy", <<
          Show("copy"),
          Reading("source", <<
              LinksFrom(At("copy", 1, 15)),
              FollowLink("link_id", LINK_SOURCE), RetrieveContents(Answer)>>)>>)>>

compare_versions_partial_content_overlap ==
    <<Doc("original", 43), CreateDocument("partial"),
      Editing("partial", <<
          Insert("partial", 1, 12),
          Reading("original", <<
              RetrieveVspanset("partial"),
              Vcopy("partial", 13, At("original", 10, 17))>>),
          Extend("partial", 30, 16)>>),
      Read("original"), Show("original"), Read("partial"), Show("partial"),
      CompareVersions(Whole("original"), Whole("partial")), Close("original"),
      Close("partial")>>

overlapping_transclusions_shared_link ==
    <<Draft("origin", 10), CreateDocument("target"),
      Editing("target", <<
          Insert("target", 1, 6),
          Jump("link_id", "origin", At("origin", 4, 3), At("target", 1, 6))>>),
      Close("origin"), CreateDocument("copy1"),
      Editing("copy1", <<
          Insert("copy1", 1, 7),
          Reading("origin", <<
              RetrieveVspanset("copy1"), Vcopy("copy1", 8, At("origin", 2, 6))>>)>>),
      CreateDocument("copy2"),
      Editing("copy2", <<
          Insert("copy2", 1, 7),
          Reading("origin", <<
              RetrieveVspanset("copy2"), Vcopy("copy2", 8, At("origin", 5, 6))>>)>>),
      Read("copy1"), Show("copy1"), Read("copy2"), Show("copy2"),
      LinksFrom(At("copy1", 1, 15)), LinksFrom(At("copy2", 1, 15)),
      Reading("origin", <<
          FollowLink("link_id", LINK_SOURCE), RetrieveContents(Answer),
          FollowLink("link_id", LINK_SOURCE), RetrieveContents(Answer)>>),
      CompareVersions(Whole("copy1"), Whole("copy2")), Close("copy1"),
      Close("copy2")>>

nested_partial_transclusions ==
    <<Draft("origin", 16), CreateDocument("target"),
      Editing("target", <<
          Insert("target", 1, 6),
          Jump("link_id", "origin", At("origin", 6, 6), At("target", 1, 6))>>),
      Close("origin"), CreateDocument("level1"),
      Editing("level1", <<
          Reading("origin", <<Vcopy("level1", 1, At("origin", 4, 10))>>)>>),
      CreateDocument("level2"),
      Editing("level2", <<
          Reading("level1", <<Vcopy("level2", 1, At("level1", 4, 4))>>)>>),
      Read("origin"), Show("origin"), Read("level1"), Show("level1"),
      Read("level2"), Show("level2"), LinksFrom(At("origin", 1, 20)),
      LinksFrom(At("level1", 1, 12)), LinksFrom(At("level2", 1, 6)),
      FollowLink("link_id", LINK_SOURCE), RetrieveContents(Answer),
      FollowLink("link_id", LINK_SOURCE), RetrieveContents(Answer),
      FollowLink("link_id", LINK_SOURCE), RetrieveContents(Answer),
      CompareVersions(Whole("origin"), Whole("level2")), Close("origin"),
      Close("level1"), Close("level2")>>

link_endpoints_shared_origin ==
    <<Doc("origin", 28), CreateDocument("source_doc"),
      Editing("source_doc", <<
          Insert("source_doc", 1, 8),
          Reading("origin", <<
              RetrieveVspanset("source_doc"),
              Vcopy("source_doc", 9, At("origin", 5, 14))>>)>>),
      CreateDocument("target_doc"),
      Editing("target_doc", <<
          Insert("target_doc", 1, 8),
          Reading("origin", <<
              RetrieveVspanset("target_doc"),
              Vcopy("target_doc", 9, At("origin", 12, 12))>>)>>),
      Read("source_doc"), Show("source_doc"), Read("target_doc"),
      Show("target_doc"), Close("source_doc"), Close("target_doc"),
      Editing("source_doc", <<
          Reading("target_doc", <<
              Jump("link_id", "source_doc", At("source_doc", 9, 14),
                  At("target_doc", 9, 12))>>)>>),
      Reading("origin", <<LinksFrom(At("origin", 1, 30))>>),
      Reading("source_doc", <<LinksFrom(At("source_doc", 1, 25))>>),
      Read("source_doc"), Read("target_doc"), RetrieveVspanset("source_doc"),
      RetrieveVspanset("target_doc"),
      CompareVersions(Whole("source_doc"), Whole("target_doc")),
      Close("source_doc"), Close("target_doc")>>

-----------------------------------------------------------------------------
\* provenance.py

createnewversion_text_vs_links ==
    <<Draft("original", 33), CreateDocument("target"),
      Editing("target", <<
          Insert("target", 1, 6),
          Jump("link_id", "original", At("original", 19, 8),
              At("target", 1, 6))>>),
      RetrieveVspanset("original"), Close("original"),
      CreateVersion("version", "original"),
      Reading("version", <<Show("version"), LinksFrom(At("version", 1, 35))>>),
      Reading("original", <<LinksFrom(At("original", 1, 35))>>)>>

same_iaddress_multiple_vpositions ==
    <<Doc("source", 3), CreateDocument("target"),
      Editing("target", <<
          Insert("target", 1, 6),
          Reading("source", <<
              Vcopy("target", 7, At("source", 1, 3)), Extend("target", 10, 8),
              RetrieveVspanset("target"),
              Vcopy("target", 18, At("source", 1, 3)), Extend("target", 21, 4)>>),
          Show("target")>>)>>

-----------------------------------------------------------------------------
\* docispan_granularity.py

docispan_granularity_insert_contiguous ==
    <<CreateDocument("doc"),
      Editing("doc", <<
          Insert("doc", 1, 10),
          Times(2, LAMBDA k : <<
              FindDocuments(At("doc", 5 * k - 4, 1)),
              FindDocuments(At("doc", 1, 7 * k - 4))>>)>>)>>

docispan_granularity_multiple_inserts ==
    <<CreateDocument("doc"),
      Editing("doc", <<
          Times(10, LAMBDA k : <<Insert("doc", k, 1)>>),
          FindDocuments(At("doc", 1, 1)), FindDocuments(At("doc", 1, 3)),
          FindDocuments(At("doc", 1, 10))>>)>>

docispan_granularity_copy_contiguous ==
    <<Doc("source", 10), CreateDocument("dest"),
      Editing("dest", <<
          Reading("source", <<Vcopy("dest", 1, At("source", 1, 10))>>),
          FindDocuments(At("dest", 1, 1)), FindDocuments(At("dest", 1, 10))>>)>>

-----------------------------------------------------------------------------
\* spanfilade_cleanup.py

delete_transcluded_content_spanfilade_cleanup ==
    <<CreateDocument("source_doc"),
      Editing("source_doc", <<
          Insert("source_doc", 1, 28), RetrieveVspanset("source_doc")>>),
      CreateDocument("target_doc"),
      Editing("target_doc", <<
          Insert("target_doc", 1, 8), RetrieveVspanset("target_doc"),
          Reading("source_doc", <<
              Vcopy("target_doc", 9, At("source_doc", 1, 14))>>),
          Show("target_doc")>>),
      Reading("source_doc", <<FindDocuments(At("source_doc", 1, 14))>>),
      Editing("target_doc", <<
          RetrieveVspanset("target_doc"), Delete("target_doc", 9, 14),
          Show("target_doc")>>),
      Reading("source_doc", <<FindDocuments(At("source_doc", 1, 14))>>)>>

delete_destination_multiple_transclusions ==
    <<Doc("source_doc", 26),
      Each(<<"target_doc", "target_doc2", "target_doc3">>, LAMBDA d : <<
          CreateDocument(d),
          Editing(d, <<
              Insert(d, 1, 10),
              Reading("source_doc", <<
                  RetrieveVspanset(d), Vcopy(d, 11, At("source_doc", 1, 24))>>)>>)>>),
      Reading("source_doc", <<FindDocuments(At("source_doc", 1, 24))>>),
      Editing("target_doc2", <<Delete("target_doc2", 11, 24)>>),
      Reading("source_doc", <<FindDocuments(At("source_doc", 1, 24))>>)>>

delete_all_transcluded_content ==
    <<Doc("source_doc", 15), CreateDocument("target_doc"),
      Editing("target_doc", <<
          Reading("source_doc", <<
              Vcopy("target_doc", 1, At("source_doc", 1, 15))>>),
          Show("target_doc")>>),
      Reading("source_doc", <<FindDocuments(At("source_doc", 1, 15))>>),
      Editing("target_doc", <<
          RetrieveVspanset("target_doc"), Delete("target_doc", 1, 15),
          RetrieveVspanset("target_doc")>>),
      Reading("source_doc", <<FindDocuments(At("source_doc", 1, 15))>>)>>

-----------------------------------------------------------------------------
\* insert_docispan.py

insert_creates_docispan ==
    <<CreateDocument("doc"),
      Editing("doc", <<Insert("doc", 1, 13), FindDocuments(At("doc", 1, 8))>>)>>

insert_vs_append_docispan ==
    <<Doc("doc_insert", 10), Doc("doc_append", 10),
      Reading("doc_insert", <<FindDocuments(At("doc_insert", 1, 10))>>),
      Reading("doc_append", <<FindDocuments(At("doc_append", 1, 10))>>)>>

insert_content_discoverable_elsewhere ==
    <<Doc("source", 13), New("dest"), Read("source"),
      Vcopy("dest", 1, At("source", 1, 8)), Close("dest"),
      FindDocuments(At("source", 1, 8)), Close("source")>>

insert_multiple_times_accumulates_docispan ==
    <<CreateDocument("doc"),
      Editing("doc", <<
          Insert("doc", 1, 6), Extend("doc", 7, 7), Extend("doc", 14, 5),
          FindDocuments(At("doc", 1, 5)), FindDocuments(At("doc", 7, 6)),
          FindDocuments(At("doc", 14, 5))>>)>>

-----------------------------------------------------------------------------
DiscoveryScenarios ==
    <<discovery_find_documents_basic, find_documents_transcluded,
      find_documents_versions, find_documents_no_match,
      find_documents_empty_spec, find_documents_version_chain,
      find_documents_transitive_transclusion, find_documents_after_delete,
      find_documents_partial_content, find_documents_multiple_transclusions,
      find_documents_with_link_content, find_documents_empty_document,
      partial_vcopy_of_linked_span, link_spanning_multiple_transclusions,
      partial_delete_overlaps_link_and_transclusion,
      compare_versions_partial_content_overlap,
      overlapping_transclusions_shared_link, nested_partial_transclusions,
      link_endpoints_shared_origin, createnewversion_text_vs_links,
      same_iaddress_multiple_vpositions,
      docispan_granularity_insert_contiguous,
      docispan_granularity_multiple_inserts,
      docispan_granularity_copy_contiguous,
      delete_transcluded_content_spanfilade_cleanup,
      delete_destination_multiple_transclusions,
      delete_all_transcluded_content, insert_creates_docispan,
      insert_vs_append_docispan, insert_content_discoverable_elsewhere,
      insert_multiple_times_accumulates_docispan>>
=============================================================================
