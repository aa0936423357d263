--------------------------- MODULE ScenariosText ----------------------------
(***************************************************************************)
(* The scenarios about new documents and their text: inserting, copying,   *)
(* deleting and rearranging it.  Each is the function of the same name     *)
(* (scenario_...) with the requests it makes, in their order, on a back    *)
(* end that has just been started.  Addresses that a scenario works out    *)
(* from an answer are given as what they come to.                          *)
(***************************************************************************)
EXTENDS Requests

\* documents.py

create_document ==
    <<CreateDocument("docid")>>

multiple_documents ==
    <<Each(<<"doc1", "doc2">>, LAMBDA d : <<
          CreateDocument(d), Editing(d, <<Insert(d, 1, 12), Show(d)>>)>>)>>

read_only_access ==
    <<Doc("docid", 26),
      OpenDocument("docid", "docid", READ_ONLY, CONFLICT_FAIL), Show("docid"),
      Close("docid")>>

reopen_document ==
    <<CreateDocument("docid"),
      Editing("docid", <<Insert("docid", 1, 18), RetrieveVspanset("docid")>>),
      Editing("docid", <<
          Show("docid"), Insert("docid", 19, 15), Show("docid")>>)>>

conflict_copy ==
    <<Draft("docid", 23), RetrieveVspanset("docid"),
      OpenDocument("opened2", "docid", READ_ONLY, CONFLICT_COPY),
      Show("opened2"), Close("docid"), Close("opened2")>>

find_documents ==
    <<CreateDocument("doc1"),
      Editing("doc1", <<Insert("doc1", 1, 28), RetrieveVspanset("doc1")>>),
      Doc("doc2", 21), Reading("doc1", <<FindDocuments(At("doc1", 1, 8))>>)>>

-----------------------------------------------------------------------------
\* accounts.py

account_set ==
    <<Account("1.1.0.1"), CreateDocument("docid")>>

account_switch ==
    <<Account("1.1.0.1"), CreateDocument("doc1"), Account("1.1.0.2"),
      CreateDocument("doc2"), Account("1.1.0.1"), CreateDocument("doc3")>>

documents_single_account ==
    <<Account("1.1.0.1"), CreateDocument("doc1"),
      Editing("doc1", <<Insert("doc1", 1, 14), Show("doc1")>>),
      CreateDocument("doc2"),
      Editing("doc2", <<Insert("doc2", 1, 15), Show("doc2")>>)>>

-----------------------------------------------------------------------------
\* content/basic.py

insert_text ==
    <<CreateDocument("docid"),
      Editing("docid", <<Insert("docid", 1, 13), Show("docid")>>)>>

multiple_inserts ==
    <<CreateDocument("docid"),
      Editing("docid", <<
          Insert("docid", 1, 6), Extend("docid", 7, 7),
          Extend("docid", 14, 5), Show("docid")>>)>>

insert_middle ==
    <<CreateDocument("docid"),
      Editing("docid", <<
          Insert("docid", 1, 10), Extend("docid", 6, 2), Show("docid")>>)>>

insert_beginning ==
    <<CreateDocument("docid"),
      Editing("docid", <<
          Insert("docid", 1, 6), Extend("docid", 1, 7), Show("docid")>>)>>

delete_text ==
    <<CreateDocument("docid"),
      Editing("docid", <<
          Insert("docid", 1, 13), RetrieveVspanset("docid"),
          Delete("docid", 6, 7), Show("docid")>>)>>

multiple_deletes ==
    <<CreateDocument("docid"),
      Editing("docid", <<
          Insert("docid", 1, 25), RetrieveVspanset("docid"),
          Delete("docid", 5, 6), Show("docid"), Delete("docid", 11, 4),
          Show("docid")>>)>>

delete_all ==
    <<CreateDocument("docid"),
      Editing("docid", <<
          Insert("docid", 1, 17), RetrieveVspanset("docid"),
          Delete("docid", 1, 17), RetrieveVspanset("docid")>>)>>

partial_retrieve ==
    <<CreateDocument("docid"),
      Editing("docid", <<
          Insert("docid", 1, 43), RetrieveVspanset("docid"),
          RetrieveContents(At("docid", 5, 11))>>)>>

rearrange_content ==
    <<Draft("docid", 11), RetrieveVspanset("docid"),
      OpenDocument("source_ro", "docid", READ_ONLY, CONFLICT_COPY),
      Vcopy("docid", 1, At("source_ro", 7, 5)), Insert("docid", 6, 1),
      Show("docid"), Close("source_ro"), Close("docid")>>

retrieve_noncontiguous_spans ==
    <<CreateDocument("docid"),
      Editing("docid", <<
          Insert("docid", 1, 43), RetrieveVspanset("docid"),
          RetrieveContents(At("docid", 5, 5) \o At("docid", 36, 4)),
          RetrieveContents(At("docid", 5, 5)),
          RetrieveContents(At("docid", 36, 4))>>)>>

retrieve_multiple_documents ==
    <<Doc("docid", 13), Doc("docid2", 12), Doc("docid3", 13), Read("docid"),
      Read("docid2"), Read("docid3"), RetrieveVspanset("docid"),
      RetrieveVspanset("docid2"), RetrieveVspanset("docid3"),
      RetrieveContents(At("docid", 1, 5) \o At("docid2", 1, 5) \o
          At("docid3", 1, 5)),
      Close("docid"), Close("docid2"), Close("docid3")>>

compare_multispan_specsets ==
    <<Doc("doc1", 38), CreateVersion("doc2", "doc1"),
      Editing("doc2", <<Insert("doc2", 1, 7), RetrieveVspanset("doc2")>>),
      Read("doc1"), Read("doc2"), RetrieveVspanset("doc1"),
      RetrieveVspanset("doc2"), RetrieveContents(Whole("doc1")),
      RetrieveContents(Whole("doc2")),
      CompareVersions(Whole("doc1"), Whole("doc2")),
      CompareVersions(At("doc1", 13, 6), Whole("doc2")), Close("doc1"),
      Close("doc2")>>

-----------------------------------------------------------------------------
\* content/vcopy.py

vcopy ==
    <<CreateDocument("source_docid"),
      Editing("source_docid", <<
          Insert("source_docid", 1, 24), RetrieveVspanset("source_docid")>>),
      CreateDocument("target_docid"),
      Editing("target_docid", <<
          Insert("target_docid", 1, 8), RetrieveVspanset("target_docid"),
          Reading("source_docid", <<
              Vcopy("target_docid", 9, At("source_docid", 1, 16)),
              Show("target_docid")>>)>>)>>

vcopy_preserves_identity ==
    <<CreateDocument("source_docid"),
      Editing("source_docid", <<
          Insert("source_docid", 1, 39), RetrieveVspanset("source_docid")>>),
      Draft("target_docid", 8), Read("source_docid"),
      RetrieveVspanset("target_docid"),
      Vcopy("target_docid", 9, At("source_docid", 1, 14)),
      RetrieveVspanset("target_docid"), Close("target_docid"),
      Read("source_docid"), Read("target_docid"),
      RetrieveVspanset("source_docid"), RetrieveVspanset("target_docid"),
      CompareVersions(Whole("source_docid"), Whole("target_docid")),
      Close("source_docid"), Close("source_docid"), Close("target_docid")>>

multiple_vcopy_same_source ==
    <<Doc("source_docid", 22),
      Each(<<"target_docid", "target_docid2", "target_docid3">>, LAMBDA d : <<
          CreateDocument(d),
          Editing(d, <<
              Insert(d, 1, 10),
              Reading("source_docid", <<
                  RetrieveVspanset(d), Vcopy(d, 11, At("source_docid", 1, 8)),
                  Show(d)>>)>>)>>)>>

nested_vcopy ==
    <<Doc("doc_c", 15), CreateDocument("doc_b"),
      Editing("doc_b", <<
          Insert("doc_b", 1, 10),
          Reading("doc_c", <<
              RetrieveVspanset("doc_b"), Vcopy("doc_b", 11, At("doc_c", 1, 8))>>)>>),
      CreateDocument("doc_a"),
      Editing("doc_a", <<
          Insert("doc_a", 1, 10),
          Reading("doc_b", <<
              RetrieveVspanset("doc_b"), RetrieveVspanset("doc_a"),
              Vcopy("doc_a", 11, Whole("doc_b"))>>),
          Show("doc_a")>>),
      Look("doc_b"), Look("doc_c"), Read("doc_a"), Read("doc_c"),
      RetrieveVspanset("doc_a"), RetrieveVspanset("doc_c"),
      CompareVersions(Whole("doc_a"), Whole("doc_c")), Close("doc_a"),
      Close("doc_c")>>

vcopy_source_modified ==
    <<Doc("source_doc", 21), CreateDocument("target_doc"),
      Editing("target_doc", <<
          Insert("target_doc", 1, 8),
          Reading("source_doc", <<
              RetrieveVspanset("target_doc"),
              Vcopy("target_doc", 9, At("source_doc", 1, 16))>>)>>),
      Look("target_doc"),
      Editing("source_doc", <<
          Insert("source_doc", 1, 5), Show("source_doc")>>),
      Look("target_doc")>>

vcopy_source_deleted ==
    <<CreateDocument("source_doc"),
      Editing("source_doc", <<
          Insert("source_doc", 1, 33), RetrieveVspanset("source_doc")>>),
      CreateDocument("target_doc"),
      Editing("target_doc", <<
          Insert("target_doc", 1, 13),
          Reading("source_doc", <<
              RetrieveVspanset("target_doc"),
              Vcopy("target_doc", 14, At("source_doc", 12, 12))>>)>>),
      Look("target_doc"), Look("source_doc"),
      Editing("source_doc", <<
          Delete("source_doc", 12, 13), Show("source_doc")>>),
      Look("target_doc")>>

vcopy_from_version ==
    <<Doc("original", 17), CreateVersion("version", "original"),
      Editing("version", <<Extend("version", 18, 25)>>),
      CreateDocument("target"),
      Editing("target", <<
          Insert("target", 1, 14),
          Reading("version", <<
              RetrieveVspanset("version"), RetrieveVspanset("target"),
              Vcopy("target", 15, Whole("version"))>>)>>),
      Look("original"), Look("version"), Look("target"), Read("target"),
      Read("original"), Read("version"), RetrieveVspanset("target"),
      RetrieveVspanset("original"), RetrieveVspanset("version"),
      CompareVersions(Whole("target"), Whole("original")),
      CompareVersions(Whole("target"), Whole("version")), Close("target"),
      Close("original"), Close("version")>>

vcopy_multiple_spans ==
    <<Doc("source", 35), CreateDocument("target"),
      Editing("target", <<
          Insert("target", 1, 8),
          Reading("source", <<
              RetrieveVspanset("target"),
              Vcopy("target", 9, At("source", 1, 10) \o At("source", 26, 10))>>),
          Show("target")>>),
      Read("source"), Read("target"), RetrieveVspanset("source"),
      RetrieveVspanset("target"),
      CompareVersions(Whole("source"), Whole("target")), Close("source"),
      Close("target")>>

vcopy_from_multiple_documents ==
    <<Doc("docid", 13), Doc("docid2", 13), Doc("docid3", 13),
      CreateDocument("target"),
      Editing("target", <<
          Insert("target", 1, 10),
          Reading("docid", <<
              RetrieveVspanset("target"),
              Vcopy("target", 11, At("docid", 1, 8)), Extend("target", 19, 3)>>),
          Reading("docid2", <<
              RetrieveVspanset("target"),
              Vcopy("target", 22, At("docid2", 1, 8)), Extend("target", 30, 3)>>),
          Reading("docid3", <<
              RetrieveVspanset("target"),
              Vcopy("target", 33, At("docid3", 1, 8)), Extend("target", 41, 3)>>),
          Show("target")>>),
      Reading("target", <<
          RetrieveVspanset("target"),
          Each(<<"docid", "docid2", "docid3">>, LAMBDA d : <<
              Reading(d, <<
                  RetrieveVspanset(d),
                  CompareVersions(Whole("target"), Whole(d))>>)>>)>>)>>

-----------------------------------------------------------------------------
\* rearrange.py

pivot_adjacent_regions ==
    <<CreateDocument("doc"),
      Editing("doc", <<
          Insert("doc", 1, 5), RetrieveContents(At("doc", 1, 5)),
          Pivot("doc", 2, 4, 6), RetrieveContents(At("doc", 1, 5))>>)>>

pivot_word_swap ==
    <<CreateDocument("doc"),
      Editing("doc", <<
          Insert("doc", 1, 11), RetrieveContents(At("doc", 1, 11)),
          Pivot("doc", 1, 7, 12), RetrieveContents(At("doc", 1, 11))>>)>>

pivot_single_char ==
    <<CreateDocument("doc"),
      Editing("doc", <<
          Insert("doc", 1, 3), RetrieveContents(At("doc", 1, 3)),
          Pivot("doc", 1, 2, 3), RetrieveContents(At("doc", 1, 3))>>)>>

swap_non_adjacent ==
    <<CreateDocument("doc"),
      Editing("doc", <<
          Insert("doc", 1, 8), RetrieveContents(At("doc", 1, 8)),
          Swap("doc", 2, 4, 6, 8), RetrieveContents(At("doc", 1, 8))>>)>>

swap_first_and_last ==
    <<CreateDocument("doc"),
      Editing("doc", <<
          Insert("doc", 1, 5), RetrieveContents(At("doc", 1, 5)),
          Swap("doc", 1, 2, 5, 6), RetrieveContents(At("doc", 1, 5))>>)>>

swap_words_in_sentence ==
    <<CreateDocument("doc"),
      Editing("doc", <<
          Insert("doc", 1, 19), RetrieveContents(At("doc", 1, 19)),
          Swap("doc", 5, 10, 11, 16), RetrieveContents(At("doc", 1, 19))>>)>>

pivot_preserves_identity ==
    <<CreateDocument("doc"),
      Editing("doc", <<
          Insert("doc", 1, 5), RetrieveVspanset("doc"), Pivot("doc", 2, 4, 6),
          RetrieveVspanset("doc"), RetrieveContents(At("doc", 1, 5))>>)>>

swap_with_links ==
    <<CreateDocument("doc"),
      Editing("doc", <<
          Insert("doc", 1, 8),
          Jump("link_id", "doc", At("doc", 2, 2), At("doc", 6, 2)),
          LinksFrom(At("doc", 1, 8)), Swap("doc", 2, 4, 6, 8),
          RetrieveContents(At("doc", 1, 8)), LinksFrom(At("doc", 1, 8))>>)>>

double_pivot ==
    <<CreateDocument("doc"),
      Editing("doc", <<
          Insert("doc", 1, 5), RetrieveContents(At("doc", 1, 5)),
          Pivot("doc", 2, 4, 6), RetrieveContents(At("doc", 1, 5)),
          Pivot("doc", 2, 4, 6), RetrieveContents(At("doc", 1, 5))>>)>>

-----------------------------------------------------------------------------
\* rearrange_semantics.py

pivot_v3_after_v2 ==
    <<CreateDocument("doc"),
      Editing("doc", <<
          Insert("doc", 1, 8), RetrieveContents(At("doc", 1, 8)),
          RetrieveVspanset("doc"), Pivot("doc", 2, 4, 7),
          RetrieveContents(At("doc", 1, 8)), RetrieveVspanset("doc")>>)>>

pivot_v3_equals_v2 ==
    <<CreateDocument("doc"),
      Editing("doc", <<
          Insert("doc", 1, 8), RetrieveContents(At("doc", 1, 8)),
          RetrieveVspanset("doc"), Pivot("doc", 2, 4, 4),
          RetrieveContents(At("doc", 1, 8)), RetrieveVspanset("doc")>>)>>

pivot_iaddress_preservation_detailed ==
    <<CreateDocument("doc"),
      Editing("doc", <<
          Insert("doc", 1, 8), RetrieveVspanset("doc"),
          RetrieveContents(At("doc", 1, 8)), Pivot("doc", 2, 4, 6),
          RetrieveVspanset("doc"), RetrieveContents(At("doc", 1, 8))>>)>>

-----------------------------------------------------------------------------
\* edgecases.py

insert_single_char ==
    <<CreateDocument("docid"),
      Editing("docid", <<Insert("docid", 1, 1), Show("docid")>>)>>

delete_single_char ==
    <<CreateDocument("docid"),
      Editing("docid", <<
          Insert("docid", 1, 3), RetrieveVspanset("docid"),
          Delete("docid", 2, 1), Show("docid")>>)>>

delete_first_char ==
    <<CreateDocument("docid"),
      Editing("docid", <<
          Insert("docid", 1, 4), RetrieveVspanset("docid"),
          Delete("docid", 1, 1), Show("docid")>>)>>

delete_last_char ==
    <<CreateDocument("docid"),
      Editing("docid", <<
          Insert("docid", 1, 4), RetrieveVspanset("docid"),
          Delete("docid", 4, 1), Show("docid")>>)>>

insert_at_exact_end ==
    <<CreateDocument("docid"),
      Editing("docid", <<
          Insert("docid", 1, 5), Extend("docid", 6, 5), Show("docid")>>)>>

multiple_inserts_same_position ==
    <<CreateDocument("docid"),
      Editing("docid", <<
          Insert("docid", 1, 5), Show("docid"), Insert("docid", 1, 6),
          Show("docid"), Insert("docid", 1, 5), Show("docid")>>)>>

adjacent_deletes ==
    <<CreateDocument("docid"),
      Editing("docid", <<
          Insert("docid", 1, 8), RetrieveVspanset("docid"),
          Delete("docid", 3, 2), Show("docid"), Delete("docid", 3, 2),
          Show("docid")>>)>>

vcopy_single_char ==
    <<Doc("doc1", 6), CreateDocument("doc2"),
      Editing("doc2", <<
          Reading("doc1", <<
              Vcopy("doc2", 1, At("doc1", 1, 1)), Show("doc2"),
              CompareVersions(At("doc1", 1, 1), Whole("doc2"))>>)>>)>>

vcopy_to_same_document ==
    <<Draft("docid", 8), RetrieveVspanset("docid"),
      OpenDocument("source_ro", "docid", READ_ONLY, CONFLICT_COPY),
      Vcopy("docid", 9, At("source_ro", 1, 4)), Show("docid"),
      Close("source_ro"), Close("docid")>>

overlapping_vcopy ==
    <<Doc("source", 8), CreateDocument("dest"),
      Editing("dest", <<
          Reading("source", <<
              Vcopy("dest", 1, At("source", 1, 4)), RetrieveVspanset("dest"),
              Vcopy("dest", 5, At("source", 3, 4)), Show("dest")>>)>>)>>

retrieve_empty_specset ==
    <<CreateDocument("docid"),
      Editing("docid", <<Insert("docid", 1, 7), RetrieveContents(NOSPECS)>>)>>

retrieve_zero_width_span ==
    <<CreateDocument("docid"),
      Editing("docid", <<
          Insert("docid", 1, 7), RetrieveContents(At("docid", 1, 0))>>)>>

version_immediately ==
    <<CreateDocument("doc1"), CreateVersion("doc2", "doc1"),
      Editing("doc2", <<Insert("doc2", 1, 18), Show("doc2")>>)>>

compare_identical_documents ==
    <<Doc("docid", 17),
      Reading("docid", <<
          RetrieveVspanset("docid"),
          CompareVersions(Whole("docid"), Whole("docid"))>>)>>

compare_disjoint_documents ==
    <<Doc("doc1", 22), Doc("doc2", 23), Read("doc1"), Read("doc2"),
      RetrieveVspanset("doc1"), RetrieveVspanset("doc2"),
      CompareVersions(Whole("doc1"), Whole("doc2")), Close("doc1"),
      Close("doc2")>>

find_links_empty_document ==
    <<CreateDocument("docid"),
      Editing("docid", <<
          RetrieveVspanset("docid"), FindLinks(NOSPECS, NOSPECS, NOSPECS)>>)>>

large_insert ==
    <<CreateDocument("docid"),
      Editing("docid", <<Insert("docid", 1, 45), Show("docid")>>)>>

many_small_inserts ==
    <<CreateDocument("docid"),
      Editing("docid", <<
          Times(100, LAMBDA k : <<Extend("docid", k, 1)>>), Show("docid")>>)>>

-----------------------------------------------------------------------------
\* granfilade_split.py

granfilade_single_text_atom ==
    <<CreateDocument("docid"),
      Editing("docid", <<Insert("docid", 1, 5), Show("docid")>>)>>

granfilade_two_inserts ==
    <<CreateDocument("docid"),
      Editing("docid", <<
          Insert("docid", 1, 5), Show("docid"), Insert("docid", 6, 5),
          Show("docid")>>)>>

granfilade_force_split ==
    <<CreateDocument("docid"),
      Editing("docid", <<
          Times(5, LAMBDA k : <<
              Extend("docid", 5 * k - 4, 5), RetrieveVspanset("docid")>>),
          Show("docid")>>)>>

-----------------------------------------------------------------------------
\* interior_typing.py

interior_typing_two_characters ==
    <<CreateDocument("docid"),
      Editing("docid", <<
          Insert("docid", 1, 5), Show("docid"), Insert("docid", 3, 1),
          Show("docid"), Insert("docid", 4, 1), Show("docid")>>)>>

interior_typing_five_characters ==
    <<CreateDocument("docid"),
      Editing("docid", <<
          Insert("docid", 1, 8),
          Times(5, LAMBDA k : <<Insert("docid", k + 4, 1), Show("docid")>>)>>)>>

whereoncrum_boundary_classification ==
    <<CreateDocument("docid"),
      Editing("docid", <<
          Insert("docid", 1, 3), Insert("docid", 4, 3), Insert("docid", 7, 3),
          Show("docid"), Insert("docid", 4, 1), Show("docid")>>)>>

-----------------------------------------------------------------------------
\* insert_coalescing.py

insert_delete_insert_iaddress_gap ==
    <<CreateDocument("docid"),
      Editing("docid", <<
          Insert("docid", 1, 3), Delete("docid", 2, 1), Extend("docid", 3, 3),
          Show("docid")>>),
      CreateDocument("dest"),
      Editing("dest", <<
          Reading("docid", <<
              RetrieveVspanset("docid"), Vcopy("dest", 1, Whole("docid")),
              RetrieveVspanset("dest"),
              CompareVersions(Whole("docid"), Whole("dest"))>>)>>)>>

insert_rearrange_insert_iaddress_gap ==
    <<CreateDocument("docid"),
      Editing("docid", <<
          Insert("docid", 1, 3), Extend("docid", 4, 3), Show("docid")>>),
      CreateDocument("dest"),
      Editing("dest", <<
          Reading("docid", <<
              RetrieveVspanset("docid"), Vcopy("dest", 1, Whole("docid")),
              RetrieveVspanset("dest"),
              CompareVersions(Whole("docid"), Whole("dest"))>>)>>)>>

insert_only_baseline ==
    <<CreateDocument("docid"),
      Editing("docid", <<
          Insert("docid", 1, 3), Extend("docid", 4, 3), Show("docid")>>),
      CreateDocument("dest"),
      Editing("dest", <<
          Reading("docid", <<
              RetrieveVspanset("docid"), Vcopy("dest", 1, Whole("docid")),
              RetrieveVspanset("dest"),
              CompareVersions(Whole("docid"), Whole("dest"))>>)>>)>>

-----------------------------------------------------------------------------
\* insert_vspace_mapping.py

insert_vspace_mapping ==
    <<CreateDocument("docid"),
      Editing("docid", <<
          Insert("docid", 1, 5), RetrieveVspanset("docid"),
          Times(5, LAMBDA k : <<RetrieveContents(At("docid", k, 1))>>)>>),
      CreateVersion("version_before", "docid"),
      Editing("docid", <<
          Insert("docid", 3, 2), Show("docid"),
          Times(7, LAMBDA k : <<RetrieveContents(At("docid", k, 1))>>)>>),
      Read("version_before"), Read("docid"),
      RetrieveVspanset("version_before"), RetrieveVspanset("docid"),
      CompareVersions(Whole("version_before"), Whole("docid")),
      Close("version_before"), Close("docid")>>

-----------------------------------------------------------------------------
\* type_c_delete.py

type_c_interior_delete ==
    <<CreateDocument("docid"),
      Editing("docid", <<
          Insert("docid", 1, 8), Show("docid"), Delete("docid", 4, 1),
          Show("docid")>>)>>

type_c_boundary_left ==
    <<CreateDocument("docid"),
      Editing("docid", <<
          Insert("docid", 1, 8), Show("docid"), Delete("docid", 1, 1),
          Show("docid")>>)>>

type_c_boundary_right ==
    <<CreateDocument("docid"),
      Editing("docid", <<
          Insert("docid", 1, 8), Show("docid"), Delete("docid", 8, 1),
          Show("docid")>>)>>

type_c_sequence ==
    <<CreateDocument("docid"),
      Editing("docid", <<
          Insert("docid", 1, 8), Show("docid"), Delete("docid", 4, 1),
          Show("docid"), Delete("docid", 5, 1), Show("docid"),
          Delete("docid", 2, 1), Show("docid")>>)>>

-----------------------------------------------------------------------------
\* delete_all_content.py

delete_all_content_simple ==
    <<CreateDocument("docid"),
      Editing("docid", <<
          Insert("docid", 1, 12), Show("docid"), Delete("docid", 1, 12),
          RetrieveVspanset("docid"), RetrieveContents(NOSPECS),
          Insert("docid", 1, 12), Show("docid")>>)>>

delete_all_incrementally ==
    <<CreateDocument("docid"),
      Editing("docid", <<
          Insert("docid", 1, 8), Show("docid"), Delete("docid", 1, 3),
          Show("docid"), Delete("docid", 1, 3), Show("docid"),
          Delete("docid", 1, 2), RetrieveVspanset("docid"),
          RetrieveContents(NOSPECS), Insert("docid", 1, 7), Show("docid")>>)>>

empty_document_never_filled ==
    <<CreateDocument("docid"),
      Editing("docid", <<
          RetrieveVspanset("docid"), RetrieveContents(NOSPECS),
          Insert("docid", 1, 13), Show("docid")>>)>>

delete_all_then_transclude ==
    <<Doc("source", 15), CreateDocument("target"),
      Editing("target", <<
          Insert("target", 1, 9), RetrieveVspanset("target"),
          Delete("target", 1, 9), RetrieveVspanset("target"),
          Reading("source", <<
              RetrieveVspanset("source"), Vcopy("target", 1, Whole("source")),
              Show("target")>>)>>)>>

-----------------------------------------------------------------------------
\* bert_enforcement.py

insert_without_write_token ==
    <<CreateDocument("docid"),
      OpenDocument("docid", "docid", READ_ONLY, CONFLICT_FAIL),
      Insert("docid", 1, 19), Close("docid")>>

delete_without_write_token ==
    <<Doc("docid", 17),
      OpenDocument("docid", "docid", READ_ONLY, CONFLICT_FAIL), Close("docid")>>

rearrange_without_write_token ==
    <<Doc("docid", 6),
      OpenDocument("docid", "docid", READ_ONLY, CONFLICT_FAIL), Close("docid")>>

copy_without_write_token_on_target ==
    <<Draft("source_doc", 14), RetrieveVspanset("source_doc"),
      CreateDocument("target_doc"),
      OpenDocument("target_doc", "target_doc", READ_ONLY, CONFLICT_FAIL),
      Close("source_doc"), Close("target_doc")>>

-----------------------------------------------------------------------------
\* iaddress_allocation.py

interleaved_insert_delete ==
    <<CreateDocument("docid"),
      Editing("docid", <<
          Times(2, LAMBDA k : <<
              Insert("docid", k, 3), Show("docid"), Delete("docid", k + 1, k),
              Show("docid")>>),
          Insert("docid", 3, 3), Show("docid")>>)>>

consecutive_inserts_monotonic ==
    <<CreateDocument("docid"),
      Editing("docid", <<
          Insert("docid", 1, 1), Extend("docid", 2, 1), Extend("docid", 3, 1),
          Show("docid")>>)>>

delete_does_not_affect_next_insert ==
    <<CreateDocument("doc1"),
      Editing("doc1", <<
          Insert("doc1", 1, 1), Show("doc1"), Insert("doc1", 2, 1),
          Show("doc1"), Delete("doc1", 1, 1), Show("doc1"),
          Insert("doc1", 2, 1), Show("doc1")>>),
      New("doc2"), Read("doc1"), RetrieveVspanset("doc1"),
      Vcopy("doc2", 1, Whole("doc1")), Close("doc2"), Read("doc2"),
      RetrieveVspanset("doc1"), RetrieveVspanset("doc2"),
      CompareVersions(Whole("doc1"), Whole("doc2")), Close("doc1"),
      Close("doc2")>>

-----------------------------------------------------------------------------
\* allocation_independence.py

insert_link_allocation_independence ==
    <<CreateDocument("docid"),
      Editing("docid", <<
          Insert("docid", 1, 3), RetrieveVspanset("docid"),
          CreateLink("link1_result", "docid", At("docid", 1, 1),
              At("docid", 2, 1), NOSPECS),
          LinksFrom(At("docid", 1, 1)), Insert("docid", 4, 3),
          RetrieveVspanset("docid"),
          CreateLink("link2_result", "docid", At("docid", 1, 2),
              At("docid", 5, 1), NOSPECS),
          LinksFrom(At("docid", 1, 2)), Insert("docid", 7, 3), Show("docid")>>)>>

version_insert_allocation_independence ==
    <<CreateDocument("docid"),
      Editing("docid", <<Insert("docid", 1, 3), RetrieveVspanset("docid")>>),
      CreateVersion("ver1", "docid"),
      Editing("docid", <<Insert("docid", 4, 3), RetrieveVspanset("docid")>>),
      CreateVersion("ver2", "docid"),
      Editing("docid", <<Insert("docid", 7, 3), Show("docid")>>)>>

version_link_allocation_independence ==
    <<CreateDocument("docid"),
      Editing("docid", <<
          Insert("docid", 1, 6),
          CreateLink("link1", "docid", At("docid", 1, 1), At("docid", 2, 1),
              NOSPECS)>>),
      CreateVersion("ver1", "docid"),
      Editing("docid", <<
          CreateLink("link2", "docid", At("docid", 3, 1), At("docid", 4, 1),
              NOSPECS)>>),
      CreateVersion("ver2", "docid"),
      Editing("docid", <<
          CreateLink("link3", "docid", At("docid", 5, 1), At("docid", 6, 1),
              NOSPECS)>>)>>

-----------------------------------------------------------------------------
\* document_isolation.py

insert_does_not_affect_other_documents ==
    <<Each(<<"doc_a", "doc_b">>, LAMBDA d : <<
          CreateDocument(d), Editing(d, <<Insert(d, 1, 18), Show(d)>>)>>),
      Look("doc_b"),
      Editing("doc_a", <<Insert("doc_a", 10, 8), Show("doc_a")>>),
      Look("doc_b")>>

delete_does_not_affect_other_documents ==
    <<Doc("doc_a", 10), Doc("doc_b", 10), Look("doc_b"),
      Editing("doc_a", <<Delete("doc_a", 3, 5), Show("doc_a")>>),
      Look("doc_b")>>

vcopy_does_not_modify_source_document ==
    <<Doc("source", 19), Look("source"), CreateDocument("target"),
      Editing("target", <<
          Reading("source", <<Vcopy("target", 1, At("source", 1, 14))>>),
          Show("target")>>),
      Look("source")>>

cross_document_transclusion_isolation ==
    <<Doc("doc_a", 14),
      Each(<<"doc_b", "doc_c">>, LAMBDA d : <<
          CreateDocument(d),
          Editing(d, <<
              Insert(d, 1, 10),
              Reading("doc_a", <<
                  RetrieveVspanset(d), Vcopy(d, 11, At("doc_a", 1, 14))>>)>>)>>),
      Look("doc_a"), Look("doc_c"),
      Editing("doc_b", <<Delete("doc_b", 11, 7), Show("doc_b")>>),
      Look("doc_a"), Look("doc_c")>>

-----------------------------------------------------------------------------
TextScenarios ==
    <<create_document, multiple_documents, read_only_access, reopen_document,
      conflict_copy, find_documents, account_set, account_switch,
      documents_single_account, insert_text, multiple_inserts, insert_middle,
      insert_beginning, delete_text, multiple_deletes, delete_all,
      partial_retrieve, rearrange_content, retrieve_noncontiguous_spans,
      retrieve_multiple_documents, compare_multispan_specsets, vcopy,
      vcopy_preserves_identity, multiple_vcopy_same_source, nested_vcopy,
      vcopy_source_modified, vcopy_source_deleted, vcopy_from_version,
      vcopy_multiple_spans, vcopy_from_multiple_documents,
      pivot_adjacent_regions, pivot_word_swap, pivot_single_char,
      swap_non_adjacent, swap_first_and_last, swap_words_in_sentence,
      pivot_preserves_identity, swap_with_links, double_pivot,
      pivot_v3_after_v2, pivot_v3_equals_v2,
      pivot_iaddress_preservation_detailed, insert_single_char,
      delete_single_char, delete_first_char, delete_last_char,
      insert_at_exact_end, multiple_inserts_same_position, adjacent_deletes,
      vcopy_single_char, vcopy_to_same_document, overlapping_vcopy,
      retrieve_empty_specset, retrieve_zero_width_span, version_immediately,
      compare_identical_documents, compare_disjoint_documents,
      find_links_empty_document, large_insert, many_small_inserts,
      granfilade_single_text_atom, granfilade_two_inserts,
      granfilade_force_split, interior_typing_two_characters,
      interior_typing_five_characters, whereoncrum_boundary_classification,
      insert_delete_insert_iaddress_gap, insert_rearrange_insert_iaddress_gap,
      insert_only_baseline, insert_vspace_mapping, type_c_interior_delete,
      type_c_boundary_left, type_c_boundary_right, type_c_sequence,
      delete_all_content_simple, delete_all_incrementally,
      empty_document_never_filled, delete_all_then_transclude,
      insert_without_write_token, delete_without_write_token,
      rearrange_without_write_token, copy_without_write_token_on_target,
      interleaved_insert_delete, consecutive_inserts_monotonic,
      delete_does_not_affect_next_insert, insert_link_allocation_independence,
      version_insert_allocation_independence,
      version_link_allocation_independence,
      insert_does_not_affect_other_documents,
      delete_does_not_affect_other_documents,
      vcopy_does_not_modify_source_document,
      cross_document_transclusion_isolation>>
=============================================================================
