------------------------- MODULE ScenariosVersions --------------------------
(***************************************************************************)
(* The scenarios about versions, and the identity of content that is       *)
(* copied, moved and shared.  Each is the function of the same name        *)
(* (scenario_...) with the requests it makes, in their order, on a back    *)
(* end that has just been started.  Addresses that a scenario works out    *)
(* from an answer are given as what they come to.                          *)
(***************************************************************************)
EXTENDS Requests

\* versions.py

create_version ==
    <<CreateDocument("docid"),
      Editing("docid", <<Insert("docid", 1, 13), RetrieveVspanset("docid")>>),
      CreateVersion("version_docid", "docid"),
      Editing("version_docid", <<
          Extend("version_docid", 14, 15),
          Reading("docid", <<Show("docid"), Show("version_docid")>>)>>)>>

compare_versions ==
    <<Doc("original", 14), CreateVersion("version", "original"),
      Editing("version", <<Extend("version", 15, 14)>>), Read("original"),
      Read("version"), RetrieveVspanset("original"),
      RetrieveVspanset("version"),
      CompareVersions(Whole("original"), Whole("version")), Close("original"),
      Close("version")>>

version_chain ==
    <<Doc("v1", 14), CreateVersion("v2", "v1"),
      Editing("v2", <<Extend("v2", 15, 7)>>), CreateVersion("v3", "v2"),
      Editing("v3", <<Extend("v3", 22, 7)>>), Read("v1"), Read("v3"),
      RetrieveVspanset("v1"), RetrieveVspanset("v3"),
      CompareVersions(Whole("v1"), Whole("v3")), Close("v1"), Close("v3")>>

multiple_versions_same_source ==
    <<Doc("source", 11),
      Each(<<"v1", "v2">>, LAMBDA d : <<
          CreateVersion(d, "source"), Editing(d, <<Extend(d, 12, 3)>>)>>),
      Read("source"), Read("v1"), Read("v2"), RetrieveVspanset("source"),
      RetrieveVspanset("v1"), RetrieveVspanset("v2"),
      RetrieveContents(Whole("source")), RetrieveContents(Whole("v1")),
      RetrieveContents(Whole("v2")), Close("source"), Close("v1"), Close("v2")>>

compare_unrelated_documents ==
    <<Doc("doc1", 14), Doc("doc2", 15), Read("doc1"), Read("doc2"),
      RetrieveVspanset("doc1"), RetrieveVspanset("doc2"),
      CompareVersions(Whole("doc1"), Whole("doc2")), Close("doc1"),
      Close("doc2")>>

version_delete_preserves_original ==
    <<Doc("original", 14), CreateVersion("version", "original"),
      Editing("version", <<Delete("version", 1, 5)>>), Read("original"),
      Read("version"), RetrieveVspanset("original"),
      RetrieveVspanset("version"), RetrieveContents(Whole("original")),
      RetrieveContents(Whole("version")), Close("original"), Close("version")>>

modify_original_after_version ==
    <<CreateDocument("original"),
      Editing("original", <<
          Insert("original", 1, 13), RetrieveVspanset("original")>>),
      CreateVersion("version", "original"),
      Editing("original", <<Extend("original", 14, 9)>>), Read("original"),
      Read("version"), RetrieveVspanset("original"),
      RetrieveVspanset("version"), RetrieveContents(Whole("original")),
      RetrieveContents(Whole("version")), Close("original"), Close("version")>>

version_preserves_transclusion ==
    <<Doc("source", 26), CreateDocument("doc"),
      Editing("doc", <<
          Insert("doc", 1, 8),
          Reading("source", <<
              RetrieveVspanset("source"), RetrieveVspanset("doc"),
              Vcopy("doc", 9, At("source", 1, 6))>>)>>),
      CreateVersion("version", "doc"), Read("version"), Read("source"),
      RetrieveVspanset("version"), RetrieveVspanset("source"),
      CompareVersions(Whole("version"), Whole("source")), Close("version"),
      Close("source")>>

delete_from_original_check_version ==
    <<Doc("original", 14), CreateVersion("version", "original"),
      Editing("original", <<Delete("original", 1, 5)>>), Read("original"),
      Read("version"), RetrieveVspanset("original"),
      RetrieveVspanset("version"), RetrieveContents(Whole("original")),
      RetrieveContents(Whole("version")), Close("original"), Close("version")>>

compare_across_version_chain ==
    <<Doc("v1", 16), CreateVersion("v2", "v1"),
      Editing("v2", <<Extend("v2", 17, 8)>>), CreateVersion("v3", "v2"),
      Editing("v3", <<Extend("v3", 25, 8)>>), Read("v1"), Read("v3"),
      RetrieveVspanset("v1"), RetrieveVspanset("v3"),
      CompareVersions(Whole("v1"), Whole("v3")), Close("v1"), Close("v3")>>

version_with_links ==
    <<Draft("source", 19), Doc("target", 19),
      Jump("link_id", "source", At("source", 7, 4), At("target", 1, 19)),
      Close("source"), CreateVersion("version", "source"),
      Each(<<"version", "source">>, LAMBDA d : <<
          Reading(d, <<RetrieveVspanset(d), LinksFrom(Whole(d))>>)>>)>>

version_of_empty_document ==
    <<CreateDocument("empty"), CreateVersion("version", "empty"),
      Editing("version", <<Insert("version", 1, 23)>>), Read("empty"),
      Read("version"), RetrieveVspanset("empty"), Show("version"),
      Close("empty"), Close("version")>>

cross_version_vcopy ==
    <<Doc("original", 13), CreateVersion("version", "original"),
      Editing("version", <<
          Extend("version", 14, 27), RetrieveVspanset("version")>>),
      Editing("original", <<
          Reading("version", <<
              RetrieveVspanset("original"),
              Vcopy("original", 14, At("version", 15, 12))>>)>>),
      Read("original"), Read("version"), RetrieveVspanset("original"),
      RetrieveVspanset("version"),
      CompareVersions(Whole("original"), Whole("version")), Close("original"),
      Close("version")>>

version_insert_in_middle ==
    <<Doc("original", 11), CreateVersion("version", "original"),
      Editing("version", <<Insert("version", 6, 8)>>), Read("original"),
      Read("version"), RetrieveVspanset("original"),
      RetrieveVspanset("version"),
      CompareVersions(Whole("original"), Whole("version")), Close("original"),
      Close("version")>>

both_versions_modified ==
    <<Doc("original", 12), CreateVersion("version", "original"),
      Editing("original", <<Extend("original", 13, 16)>>),
      Editing("version", <<Extend("version", 13, 15)>>), Read("original"),
      Read("version"), RetrieveVspanset("original"),
      RetrieveVspanset("version"), RetrieveContents(Whole("original")),
      RetrieveContents(Whole("version")),
      CompareVersions(Whole("original"), Whole("version")), Close("original"),
      Close("version")>>

version_copies_link_subspace ==
    <<Draft("source", 14), Doc("target", 6),
      Jump("link_id", "source", At("source", 11, 4), At("target", 1, 6)),
      RetrieveVspanset("source"), Close("source"),
      CreateVersion("version", "source"),
      Reading("version", <<RetrieveVspanset("version")>>),
      Reading("source", <<RetrieveVspanset("source")>>)>>

version_address_allocation ==
    <<CreateDocument("doc1"), CreateDocument("doc2"),
      CreateVersion("version1", "doc1"), CreateVersion("version2", "doc1"),
      CreateVersion("version3", "doc2"),
      CreateVersion("version_of_version", "version1")>>

-----------------------------------------------------------------------------
\* identity.py

find_documents_basic ==
    <<Doc("source", 23), CreateDocument("target"),
      Editing("target", <<
          Insert("target", 1, 15),
          Reading("source", <<
              RetrieveVspanset("target"),
              Vcopy("target", 16, At("source", 1, 14))>>)>>),
      Reading("source", <<FindDocuments(At("source", 1, 14))>>)>>

find_documents_transitive ==
    <<Doc("doc_c", 23), CreateDocument("doc_b"),
      Editing("doc_b", <<
          Insert("doc_b", 1, 3),
          Reading("doc_c", <<Vcopy("doc_b", 4, At("doc_c", 1, 16))>>)>>),
      CreateDocument("doc_a"),
      Editing("doc_a", <<
          Insert("doc_a", 1, 3),
          Reading("doc_b", <<
              RetrieveVspanset("doc_b"), Vcopy("doc_a", 4, Whole("doc_b"))>>)>>),
      Reading("doc_c", <<FindDocuments(At("doc_c", 1, 8))>>), Look("doc_a"),
      Look("doc_b"), Look("doc_c")>>

find_documents_after_source_deletion ==
    <<Doc("source", 27), CreateDocument("target"),
      Editing("target", <<
          Insert("target", 1, 12),
          Reading("source", <<Vcopy("target", 13, At("source", 7, 15))>>)>>),
      Reading("source", <<FindDocuments(At("source", 7, 15))>>),
      Editing("source", <<Delete("source", 7, 16), Show("source")>>),
      Reading("target", <<
          Show("target"), FindDocuments(At("target", 13, 15))>>)>>

identity_through_rearrange_pivot ==
    <<Doc("doc", 12), CreateVersion("version_before", "doc"),
      Editing("doc", <<Pivot("doc", 1, 7, 13), Show("doc")>>), Read("doc"),
      Read("version_before"), RetrieveVspanset("doc"),
      RetrieveVspanset("version_before"),
      CompareVersions(Whole("doc"), Whole("version_before")),
      RetrieveContents(Whole("version_before")), Close("doc"),
      Close("version_before")>>

identity_through_rearrange_swap ==
    <<Doc("doc", 14), CreateVersion("version_before", "doc"),
      Editing("doc", <<Swap("doc", 1, 4, 12, 15), Show("doc")>>), Read("doc"),
      Read("version_before"), RetrieveVspanset("doc"),
      RetrieveVspanset("version_before"),
      CompareVersions(Whole("doc"), Whole("version_before")),
      RetrieveContents(Whole("version_before")), Close("doc"),
      Close("version_before")>>

identity_multi_document_sharing ==
    <<Doc("source", 22),
      Each(<<"target", "target2", "target3", "target4">>, LAMBDA d : <<
          CreateDocument(d),
          Editing(d, <<
              Insert(d, 1, 7),
              Reading("source", <<
                  RetrieveVspanset(d), Vcopy(d, 8, At("source", 1, 14))>>)>>)>>),
      Reading("source", <<FindDocuments(At("source", 1, 14))>>),
      Look("target"), Look("target2"), Look("target3"), Look("target4")>>

identity_through_version_chain ==
    <<Doc("original", 13), CreateVersion("new_ver", "original"),
      Editing("new_ver", <<Extend("new_ver", 14, 3)>>),
      CreateVersion("new_ver2", "new_ver"),
      Editing("new_ver2", <<Extend("new_ver2", 17, 3)>>),
      CreateVersion("new_ver3", "new_ver2"),
      Editing("new_ver3", <<Extend("new_ver3", 20, 3)>>), Read("original"),
      Read("new_ver3"), RetrieveVspanset("original"),
      RetrieveVspanset("new_ver3"), RetrieveContents(Whole("original")),
      RetrieveContents(Whole("new_ver3")),
      CompareVersions(Whole("original"), Whole("new_ver3")),
      FindDocuments(At("original", 1, 8)), Close("original"),
      Close("new_ver3")>>

identity_partial_transclusion ==
    <<Doc("doc_c", 10), CreateDocument("doc_b"),
      Editing("doc_b", <<
          Reading("doc_c", <<Vcopy("doc_b", 1, At("doc_c", 1, 10))>>)>>),
      CreateDocument("doc_a"),
      Editing("doc_a", <<
          Reading("doc_b", <<Vcopy("doc_a", 1, At("doc_b", 4, 5))>>)>>),
      Look("doc_a"), Look("doc_b"), Look("doc_c"), Read("doc_a"),
      Read("doc_c"), RetrieveVspanset("doc_a"), RetrieveVspanset("doc_c"),
      CompareVersions(Whole("doc_a"), Whole("doc_c")),
      FindDocuments(At("doc_c", 4, 3)), Close("doc_a"), Close("doc_c")>>

identity_mixed_sources ==
    <<Doc("source1", 15), Doc("source2", 15), CreateDocument("target"),
      Editing("target", <<
          Insert("target", 1, 7),
          Reading("source1", <<
              RetrieveVspanset("target"),
              Vcopy("target", 8, At("source1", 1, 11))>>),
          Extend("target", 19, 3),
          Reading("source2", <<
              RetrieveVspanset("target"),
              Vcopy("target", 22, At("source2", 1, 11))>>)>>),
      Read("target"), Show("target"), Read("source1"), Read("source2"),
      RetrieveVspanset("source1"), RetrieveVspanset("source2"),
      CompareVersions(Whole("target"), Whole("source1")),
      CompareVersions(Whole("target"), Whole("source2")),
      CompareVersions(Whole("source1"), Whole("source2")), Close("target"),
      Close("source1"), Close("source2")>>

find_documents_empty_result ==
    <<Doc("doc", 25), Doc("other", 17),
      Reading("doc", <<FindDocuments(At("doc", 1, 10))>>)>>

-----------------------------------------------------------------------------
\* internal.py

ispan_consolidation_fragmented ==
    <<CreateDocument("source"),
      Editing("source", <<
          Times(10, LAMBDA k : <<Extend("source", k, 1)>>),
          RetrieveVspanset("source")>>),
      CreateDocument("dest"),
      Editing("dest", <<
          Reading("source", <<
              Vcopy("dest", 1, Whole("source")), RetrieveVspanset("dest"),
              RetrieveContents(Whole("source")),
              RetrieveContents(Whole("dest")),
              CompareVersions(Whole("source"), Whole("dest"))>>)>>)>>

ispan_consolidation_bulk ==
    <<CreateDocument("source"),
      Editing("source", <<
          Insert("source", 1, 10), RetrieveVspanset("source")>>),
      CreateDocument("dest"),
      Editing("dest", <<
          Reading("source", <<
              Vcopy("dest", 1, Whole("source")), RetrieveVspanset("dest"),
              CompareVersions(Whole("source"), Whole("dest"))>>)>>)>>

ispan_partial_overlap ==
    <<CreateDocument("source"),
      Editing("source", <<Times(10, LAMBDA k : <<Extend("source", k, 1)>>)>>),
      CreateDocument("dest"),
      Editing("dest", <<
          Reading("source", <<
              Vcopy("dest", 1, At("source", 3, 5)), RetrieveVspanset("dest"),
              RetrieveContents(At("source", 3, 5)),
              RetrieveContents(Whole("dest")),
              CompareVersions(At("source", 3, 5), Whole("dest"))>>)>>)>>

internal_transclusion_identity ==
    <<Draft("docid", 18), RetrieveVspanset("docid"),
      OpenDocument("source_ro", "docid", READ_ONLY, CONFLICT_COPY),
      Vcopy("docid", 19, At("source_ro", 10, 4)), Show("docid"),
      Close("source_ro"), Close("docid"),
      Reading("docid", <<
          RetrieveVspanset("docid"),
          CompareVersions(At("docid", 10, 4), At("docid", 19, 4))>>)>>

internal_transclusion_multiple_copies ==
    <<Draft("docid", 3),
      OpenDocument("source_ro", "docid", READ_ONLY, CONFLICT_COPY),
      Times(2, LAMBDA k : <<
          RetrieveVspanset("docid"),
          Vcopy("docid", k + 3, At("source_ro", 2, 1))>>),
      Close("source_ro"), Show("docid"), Close("docid"),
      Reading("docid", <<
          Times(2, LAMBDA k : <<
              CompareVersions(At("docid", 2, 1), At("docid", k + 3, 1))>>),
          CompareVersions(At("docid", 4, 1), At("docid", 5, 1))>>)>>

-----------------------------------------------------------------------------
\* interactions.py

transclude_linked_content ==
    <<Draft("source", 22), CreateDocument("target"),
      Editing("target", <<
          Insert("target", 1, 18),
          Jump("link_id", "source", At("source", 7, 4), At("target", 1, 6))>>),
      Close("source"), CreateDocument("copy_doc"),
      Editing("copy_doc", <<
          Insert("copy_doc", 1, 13),
          Reading("source", <<
              RetrieveVspanset("copy_doc"),
              Vcopy("copy_doc", 14, At("source", 7, 4))>>),
          Show("copy_doc"), LinksFrom(At("copy_doc", 1, 20)),
          Reading("source", <<LinksFrom(At("source", 1, 25))>>)>>)>>

link_to_transcluded_then_version ==
    <<Doc("source", 28), Draft("doc", 8),
      Reading("source", <<
          RetrieveVspanset("doc"), Vcopy("doc", 9, At("source", 1, 14))>>),
      CreateDocument("target"),
      Editing("target", <<
          Insert("target", 1, 11),
          Jump("link_id", "doc", At("doc", 16, 7), At("target", 1, 4))>>),
      Close("doc"), CreateVersion("version", "doc"),
      Reading("doc", <<LinksFrom(At("doc", 1, 25)), Show("doc")>>),
      Reading("version", <<LinksFrom(At("version", 1, 25)), Show("version")>>),
      Reading("source", <<LinksFrom(At("source", 1, 30))>>)>>

version_add_link_check_original ==
    <<Doc("original", 19), CreateVersion("version", "original"),
      CreateDocument("target"),
      Editing("target", <<
          Insert("target", 1, 11),
          Editing("version", <<
              Jump("link_id", "version", At("version", 8, 7),
                  At("target", 1, 4))>>)>>),
      Reading("version", <<LinksFrom(At("version", 1, 20))>>),
      Reading("original", <<LinksFrom(At("original", 1, 20))>>)>>

transitive_link_discovery ==
    <<Doc("doc_c", 21), CreateVersion("doc_b", "doc_c"),
      CreateDocument("doc_a"),
      Editing("doc_a", <<
          Insert("doc_a", 1, 10),
          Reading("doc_b", <<
              RetrieveVspanset("doc_b"), RetrieveVspanset("doc_a"),
              Vcopy("doc_a", 11, Whole("doc_b"))>>)>>),
      CreateDocument("target"),
      Editing("target", <<
          Insert("target", 1, 11),
          Editing("doc_c", <<
              Jump("link_id", "doc_c", At("doc_c", 10, 7), At("target", 1, 4))>>)>>),
      Read("doc_c"), Show("doc_c"), Read("doc_b"), Show("doc_b"),
      Read("doc_a"), Show("doc_a"), LinksFrom(At("doc_c", 1, 25)),
      LinksFrom(At("doc_b", 1, 25)), LinksFrom(At("doc_a", 1, 35)),
      Close("doc_c"), Close("doc_b"), Close("doc_a")>>

link_both_endpoints_transcluded ==
    <<Doc("source_origin", 21), Doc("target_origin", 23),
      CreateDocument("link_doc"),
      Editing("link_doc", <<
          Insert("link_doc", 1, 10),
          Reading("source_origin", <<
              RetrieveVspanset("link_doc"),
              Vcopy("link_doc", 11, At("source_origin", 1, 9))>>),
          Extend("link_doc", 20, 4),
          Reading("target_origin", <<
              RetrieveVspanset("link_doc"),
              Vcopy("link_doc", 24, At("target_origin", 1, 6))>>),
          Show("link_doc"),
          Jump("link_id", "link_doc", At("link_doc", 11, 9),
              At("link_doc", 24, 6))>>),
      Reading("link_doc", <<LinksFrom(At("link_doc", 1, 35))>>),
      Reading("source_origin", <<LinksFrom(At("source_origin", 1, 25))>>),
      Reading("target_origin", <<LinksTo(At("target_origin", 1, 25))>>)>>

version_transcluded_linked_content ==
    <<Draft("source", 28), CreateDocument("target"),
      Editing("target", <<
          Insert("target", 1, 11),
          Jump("link_id", "source", At("source", 13, 6), At("target", 1, 4))>>),
      Close("source"), CreateDocument("doc"),
      Editing("doc", <<
          Insert("doc", 1, 12),
          Reading("source", <<
              RetrieveVspanset("doc"), Vcopy("doc", 13, At("source", 13, 11))>>)>>),
      CreateVersion("version", "doc"),
      Editing("version", <<Extend("version", 24, 17)>>), Read("source"),
      Show("source"), Read("doc"), Show("doc"), Read("version"),
      Show("version"), LinksFrom(At("source", 1, 30)),
      LinksFrom(At("doc", 1, 30)), LinksFrom(At("version", 1, 45)),
      Close("source"), Close("doc"), Close("version")>>

compare_versions_with_different_links ==
    <<Doc("original", 31), CreateVersion("version", "original"),
      Draft("target1", 19), Draft("target2", 18),
      Editing("original", <<
          Jump("link1", "original", At("original", 1, 6), At("target1", 1, 6))>>),
      Editing("version", <<
          Jump("link2", "version", At("version", 27, 5), At("target2", 1, 6))>>),
      Close("target1"), Close("target2"), Read("original"), Read("version"),
      RetrieveVspanset("original"), RetrieveVspanset("version"),
      CompareVersions(Whole("original"), Whole("version")),
      RetrieveContents(Whole("original")), RetrieveContents(Whole("version")),
      LinksFrom(At("original", 1, 35)), LinksFrom(At("version", 1, 35)),
      Close("original"), Close("version")>>

-----------------------------------------------------------------------------
VersionsScenarios ==
    <<create_version, compare_versions, version_chain,
      multiple_versions_same_source, compare_unrelated_documents,
      version_delete_preserves_original, modify_original_after_version,
      version_preserves_transclusion, delete_from_original_check_version,
      compare_across_version_chain, version_with_links,
      version_of_empty_document, cross_version_vcopy, version_insert_in_middle,
      both_versions_modified, version_copies_link_subspace,
      version_address_allocation, find_documents_basic,
      find_documents_transitive, find_documents_after_source_deletion,
      identity_through_rearrange_pivot, identity_through_rearrange_swap,
      identity_multi_document_sharing, identity_through_version_chain,
      identity_partial_transclusion, identity_mixed_sources,
      find_documents_empty_result, ispan_consolidation_fragmented,
      ispan_consolidation_bulk, ispan_partial_overlap,
      internal_transclusion_identity, internal_transclusion_multiple_copies,
      transclude_linked_content, link_to_transcluded_then_version,
      version_add_link_check_original, transitive_link_discovery,
      link_both_endpoints_transcluded, version_transcluded_linked_content,
      compare_versions_with_different_links>>
=============================================================================
