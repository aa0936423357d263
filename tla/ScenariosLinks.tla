--------------------------- MODULE ScenariosLinks ---------------------------
(***************************************************************************)
(* The scenarios about links: making, finding and following them while the *)
(* text around them changes.  Each is the function of the same name        *)
(* (scenario_...) with the requests it makes, in their order, on a back    *)
(* end that has just been started.  Addresses that a scenario works out    *)
(* from an answer are given as what they come to.                          *)
(***************************************************************************)
EXTENDS Requests

\* links/basic.py

create_link ==
    <<Draft("source_docid", 30), RetrieveVspanset("source_docid"),
      Draft("target_docid", 23), RetrieveVspanset("target_docid"),
      Jump("link_id", "source_docid", At("source_docid", 22, 9),
          At("target_docid", 1, 23)),
      Close("source_docid"), Close("target_docid")>>

find_links ==
    <<Draft("doc1", 20), Draft("doc2", 20),
      Jump("link_id", "doc1", At("doc1", 1, 8), At("doc2", 1, 8)),
      LinksFrom(At("doc1", 1, 20)), FollowLink("link_id", LINK_TARGET),
      FollowLink("link_id", LINK_TYPE), Close("doc1"), Close("doc2")>>

link_types ==
    <<Draft("source_doc", 33), Draft("target_doc", 28),
      CreateLink("quote_link", "source_doc", At("source_doc", 1, 8),
          At("target_doc", 1, 6), QUOTE_TYPE),
      CreateLink("footnote_link", "source_doc", At("source_doc", 15, 8),
          At("target_doc", 8, 7), FOOTNOTE_TYPE),
      CreateLink("margin_link", "source_doc", At("source_doc", 29, 5),
          At("target_doc", 16, 3), MARGIN_TYPE),
      LinksFrom(At("source_doc", 1, 40)), Close("source_doc"),
      Close("target_doc")>>

multiple_links_same_doc ==
    <<Draft("source_doc", 37), Draft("doc", 17), Draft("doc2", 17),
      Draft("doc3", 17),
      Jump("link1", "source_doc", At("source_doc", 1, 6), At("doc", 1, 6)),
      Jump("link2", "source_doc", At("source_doc", 13, 5), At("doc2", 1, 6)),
      Jump("link3", "source_doc", At("source_doc", 31, 7), At("doc3", 1, 6)),
      LinksFrom(At("source_doc", 1, 40)), Close("source_doc"), Close("doc"),
      Close("doc2"), Close("doc3")>>

bidirectional_links ==
    <<Draft("doc1", 29), Draft("doc2", 29),
      Jump("link1", "doc1", At("doc1", 1, 8), At("doc2", 1, 8)),
      Jump("link2", "doc2", At("doc2", 14, 6), At("doc1", 14, 6)),
      LinksFrom(At("doc1", 1, 30)), LinksFrom(At("doc2", 1, 30)),
      FollowLink("link1", LINK_TARGET), FollowLink("link2", LINK_TARGET),
      Close("doc1"), Close("doc2")>>

find_links_by_target ==
    <<Draft("source_doc", 33), Draft("target_doc", 36),
      Jump("link_id", "source_doc", At("source_doc", 21, 8),
          At("target_doc", 1, 8)),
      LinksTo(At("target_doc", 1, 36)), FollowLink("link_id", LINK_SOURCE),
      RetrieveContents(Answer), Close("source_doc"), Close("target_doc")>>

overlapping_links ==
    <<Draft("docid", 56), Draft("def_doc", 76),
      Jump("link1", "docid", At("docid", 5, 9), At("def_doc", 1, 10)),
      CreateLink("link2", "docid", At("docid", 5, 17), At("def_doc", 1, 30),
          QUOTE_TYPE),
      Jump("link3", "docid", At("docid", 23, 13), At("def_doc", 23, 22)),
      Jump("link4", "docid", At("docid", 51, 5), At("def_doc", 47, 22)),
      LinksFrom(At("docid", 5, 9)), LinksFrom(At("docid", 1, 60)),
      Close("docid"), Close("def_doc")>>

find_links_by_type ==
    <<Draft("source_doc", 41), Draft("target_doc", 25),
      Jump("jump_link", "source_doc", At("source_doc", 13, 4),
          At("target_doc", 1, 6)),
      CreateLink("quote_link", "source_doc", At("source_doc", 18, 5),
          At("target_doc", 8, 8), QUOTE_TYPE),
      CreateLink("footnote_link", "source_doc", At("source_doc", 28, 8),
          At("target_doc", 17, 8), FOOTNOTE_TYPE),
      LinksFrom(At("source_doc", 1, 50)),
      FindLinks(At("source_doc", 1, 50), NOSPECS, JUMP_TYPE),
      FindLinks(At("source_doc", 1, 50), NOSPECS, QUOTE_TYPE),
      FindLinks(At("source_doc", 1, 50), NOSPECS, FOOTNOTE_TYPE),
      Close("source_doc"), Close("target_doc")>>

follow_link ==
    <<Draft("source_doc", 31), Draft("target_doc", 44),
      Jump("link_id", "source_doc", At("source_doc", 9, 9),
          At("target_doc", 12, 32)),
      FollowLink("link_id", LINK_TARGET), RetrieveContents(Answer),
      Close("source_doc"), Close("target_doc")>>

-----------------------------------------------------------------------------
\* links/survival.py

link_survives_source_insert ==
    <<Draft("source_doc", 19), Draft("target_doc", 14),
      Jump("link_id", "source_doc", At("source_doc", 7, 4),
          At("target_doc", 1, 6)),
      LinksFrom(At("source_doc", 1, 20)), FollowLink("link_id", LINK_SOURCE),
      RetrieveContents(Answer), Insert("source_doc", 1, 8),
      Show("source_doc"), LinksFrom(At("source_doc", 1, 30)),
      FollowLink("link_id", LINK_SOURCE), RetrieveContents(Answer),
      Close("source_doc"), Close("target_doc")>>

link_survives_source_delete_adjacent ==
    <<Draft("source_doc", 29), Draft("target_doc", 14),
      Jump("link_id", "source_doc", At("source_doc", 17, 4),
          At("target_doc", 1, 6)),
      FollowLink("link_id", LINK_SOURCE), RetrieveContents(Answer),
      Delete("source_doc", 1, 10), Show("source_doc"),
      LinksFrom(At("source_doc", 1, 25)), FollowLink("link_id", LINK_SOURCE),
      RetrieveContents(Answer), Close("source_doc"), Close("target_doc")>>

link_when_source_span_deleted ==
    <<Draft("source_doc", 24), Draft("target_doc", 14),
      Jump("link_id", "source_doc", At("source_doc", 7, 4),
          At("target_doc", 1, 6)),
      FollowLink("link_id", LINK_SOURCE), RetrieveContents(Answer),
      Delete("source_doc", 7, 5), Show("source_doc"),
      FollowLink("link_id", LINK_SOURCE), RetrieveContents(Answer),
      LinksFrom(At("source_doc", 1, 20)), Close("source_doc"),
      Close("target_doc")>>

link_when_target_span_deleted ==
    <<Draft("source_doc", 19), Draft("target_doc", 19),
      Jump("link_id", "source_doc", At("source_doc", 7, 4),
          At("target_doc", 1, 6)),
      FollowLink("link_id", LINK_TARGET), RetrieveContents(Answer),
      Delete("target_doc", 1, 7), Show("target_doc"),
      FollowLink("link_id", LINK_TARGET), RetrieveContents(Answer),
      Close("source_doc"), Close("target_doc")>>

link_source_partial_delete ==
    <<Draft("source_doc", 24), Draft("target_doc", 14),
      Jump("link_id", "source_doc", At("source_doc", 7, 9),
          At("target_doc", 1, 6)),
      FollowLink("link_id", LINK_SOURCE), RetrieveContents(Answer),
      Delete("source_doc", 7, 5), Show("source_doc"),
      FollowLink("link_id", LINK_SOURCE), RetrieveContents(Answer),
      Close("source_doc"), Close("target_doc")>>

link_with_vcopy_source ==
    <<Draft("source_doc", 22), Draft("target_doc", 18),
      Jump("link_id", "source_doc", At("source_doc", 7, 4),
          At("target_doc", 1, 6)),
      Draft("copy_doc", 8), Vcopy("copy_doc", 9, At("source_doc", 7, 4)),
      Show("copy_doc"), LinksFrom(At("copy_doc", 1, 15)), Close("source_doc"),
      Close("target_doc"), Close("copy_doc")>>

link_survives_target_modify ==
    <<Draft("source_doc", 28), Draft("target_doc", 30),
      Jump("link_id", "source_doc", At("source_doc", 16, 8),
          At("target_doc", 1, 8)),
      FollowLink("link_id", LINK_TARGET), RetrieveContents(Answer),
      Insert("target_doc", 11, 9), Show("target_doc"),
      FollowLink("link_id", LINK_TARGET), RetrieveContents(Answer),
      Close("source_doc"), Close("target_doc")>>

-----------------------------------------------------------------------------
\* links/patterns.py

self_referential_link ==
    <<CreateDocument("doc"),
      Editing("doc", <<
          Insert("doc", 1, 61),
          Jump("link_id", "doc", At("doc", 9, 8), At("doc", 33, 8)),
          FollowLink("link_id", LINK_TARGET), RetrieveContents(Answer),
          FollowLink("link_id", LINK_SOURCE), RetrieveContents(Answer)>>)>>

link_chain ==
    <<Draft("doc_a", 30), Draft("doc_b", 30), Draft("doc_c", 25),
      Jump("link_ab", "doc_a", At("doc_a", 7, 4), At("doc_b", 1, 6)),
      Jump("link_bc", "doc_b", At("doc_b", 22, 4), At("doc_c", 1, 5)),
      FollowLink("link_ab", LINK_TARGET), RetrieveContents(Answer),
      LinksFrom(At("doc_b", 1, 35)), FollowLink("link_bc", LINK_TARGET),
      RetrieveContents(Answer), LinksTo(At("doc_b", 1, 35)), Close("doc_a"),
      Close("doc_b"), Close("doc_c")>>

overlapping_links_different_targets ==
    <<Draft("source_doc", 62), Draft("finance_doc", 53),
      Draft("geography_doc", 39),
      Jump("link1", "source_doc", At("source_doc", 5, 4),
          At("finance_doc", 1, 21)),
      CreateLink("link2", "source_doc", At("source_doc", 5, 4),
          At("geography_doc", 1, 10), QUOTE_TYPE),
      Jump("link3", "source_doc", At("source_doc", 55, 4),
          At("geography_doc", 1, 10)),
      LinksFrom(At("source_doc", 5, 4)), FollowLink("link1", LINK_TARGET),
      RetrieveContents(Answer), FollowLink("link2", LINK_TARGET),
      RetrieveContents(Answer), LinksFrom(At("source_doc", 1, 65)),
      Close("source_doc"), Close("finance_doc"), Close("geography_doc")>>

link_chain_three_hops ==
    <<Draft("doc", 35), Draft("doc2", 37), Draft("doc3", 37),
      Draft("doc4", 36),
      Jump("link_ab", "doc", At("doc", 25, 7), At("doc2", 1, 8)),
      Jump("link_bc", "doc2", At("doc2", 25, 4), At("doc3", 1, 8)),
      Jump("link_cd", "doc3", At("doc3", 22, 11), At("doc4", 1, 8)),
      LinksFrom(At("doc", 1, 40)), FollowLink("link_ab", LINK_TARGET),
      LinksFrom(At("doc2", 1, 40)), LinksFrom(At("doc3", 1, 40)),
      FollowLink("link_cd", LINK_TARGET), RetrieveContents(Answer),
      Close("doc"), Close("doc2"), Close("doc3"), Close("doc4")>>

-----------------------------------------------------------------------------
\* links/orphaned.py

link_permanence_no_delete_operation ==
    <<Draft("source_doc", 23), Draft("target_doc", 23),
      Jump("link_id", "source_doc", At("source_doc", 1, 6),
          At("target_doc", 1, 6)),
      FollowLink("link_id", LINK_SOURCE), RetrieveContents(Answer),
      FollowLink("link_id", LINK_TARGET), RetrieveContents(Answer),
      Close("source_doc"), Close("target_doc")>>

orphaned_link_source_all_deleted ==
    <<Draft("source_doc", 5), Draft("target_doc", 19),
      Jump("link_id", "source_doc", At("source_doc", 1, 5),
          At("target_doc", 1, 6)),
      FollowLink("link_id", LINK_SOURCE), RetrieveContents(Answer),
      LinksFrom(At("source_doc", 1, 10)), Delete("source_doc", 1, 5),
      Show("source_doc"), LinksFrom(At("source_doc", 1, 10)),
      FollowLink("link_id", LINK_SOURCE), RetrieveContents(Answer),
      FollowLink("link_id", LINK_TARGET), RetrieveContents(Answer),
      Close("source_doc"), Close("target_doc")>>

orphaned_link_target_all_deleted ==
    <<Draft("source_doc", 21), Draft("target_doc", 5),
      Jump("link_id", "source_doc", At("source_doc", 1, 6),
          At("target_doc", 1, 5)),
      FollowLink("link_id", LINK_TARGET), RetrieveContents(Answer),
      LinksFrom(At("source_doc", 1, 25)), Delete("target_doc", 1, 5),
      RetrieveVspanset("target_doc"), LinksFrom(At("source_doc", 1, 25)),
      FollowLink("link_id", LINK_TARGET), RetrieveContents(Answer),
      FollowLink("link_id", LINK_SOURCE), RetrieveContents(Answer),
      Close("source_doc"), Close("target_doc")>>

orphaned_link_both_endpoints_deleted ==
    <<Draft("source_doc", 3), Draft("target_doc", 3),
      Jump("link_id", "source_doc", At("source_doc", 1, 3),
          At("target_doc", 1, 3)),
      FollowLink("link_id", LINK_SOURCE), RetrieveContents(Answer),
      FollowLink("link_id", LINK_TARGET), RetrieveContents(Answer),
      Delete("source_doc", 1, 3), Delete("target_doc", 1, 3),
      RetrieveVspanset("source_doc"), RetrieveVspanset("target_doc"),
      LinksFrom(At("source_doc", 1, 10)), LinksTo(At("target_doc", 1, 10)),
      FollowLink("link_id", LINK_SOURCE), RetrieveContents(Answer),
      FollowLink("link_id", LINK_TARGET), RetrieveContents(Answer),
      FollowLink("link_id", LINK_TYPE), Close("source_doc"),
      Close("target_doc")>>

link_home_document_content_deleted ==
    <<Draft("home_doc", 29), Draft("source_doc", 23), Draft("target_doc", 23),
      Jump("link_id", "home_doc", At("source_doc", 1, 6),
          At("target_doc", 1, 6)),
      FollowLink("link_id", LINK_SOURCE), RetrieveContents(Answer),
      FollowLink("link_id", LINK_TARGET), RetrieveContents(Answer),
      LinksFrom(At("source_doc", 1, 25)), Delete("home_doc", 1, 29),
      RetrieveVspanset("home_doc"), LinksFrom(At("source_doc", 1, 25)),
      FollowLink("link_id", LINK_SOURCE), RetrieveContents(Answer),
      FollowLink("link_id", LINK_TARGET), RetrieveContents(Answer),
      Close("home_doc"), Close("source_doc"), Close("target_doc")>>

multiple_orphaned_links_same_content ==
    <<Draft("doc", 19), Draft("doc2", 19), Draft("doc3", 19),
      Draft("target_doc", 21),
      Jump("link_id", "doc", At("doc", 8, 1), At("target_doc", 1, 6)),
      Jump("link_id2", "doc2", At("doc2", 9, 1), At("target_doc", 1, 6)),
      Jump("link_id3", "doc3", At("doc3", 10, 1), At("target_doc", 1, 6)),
      Each(<<"link_id", "link_id2", "link_id3">>, LAMBDA l : <<
          FollowLink(l, LINK_TARGET), RetrieveContents(Answer)>>),
      Delete("target_doc", 1, 21),
      Each(<<"link_id", "link_id2", "link_id3">>, LAMBDA l : <<
          FollowLink(l, LINK_TARGET), RetrieveContents(Answer)>>),
      Each(<<"link_id", "link_id2", "link_id3">>, LAMBDA l : <<
          FollowLink(l, LINK_SOURCE), RetrieveContents(Answer)>>),
      Close("doc"), Close("doc2"), Close("doc3"), Close("target_doc")>>

-----------------------------------------------------------------------------
\* links/discovery.py

find_links_filter_by_homedocid ==
    <<Draft("doc1", 25), Draft("doc2", 25), Draft("doc3", 22),
      Jump("link1", "doc1", At("doc1", 1, 8), At("doc2", 1, 8)),
      Jump("link2", "doc2", At("doc2", 1, 8), At("doc3", 1, 8)),
      CreateLink("link3", "doc1", At("doc1", 10, 7), At("doc3", 10, 7),
          QUOTE_TYPE),
      LinksFrom(At("doc1", 1, 30)), LinksFrom(At("doc1", 1, 30)),
      LinksFrom(At("doc2", 1, 30)), LinksFrom(At("doc2", 1, 30)),
      Close("doc1"), Close("doc2"), Close("doc3")>>

find_links_homedocids_multiple ==
    <<Draft("doc1", 19), Draft("doc2", 20), Draft("doc3", 19),
      Draft("doc4", 20),
      Jump("link1", "doc1", At("doc1", 1, 5), At("doc4", 1, 6)),
      Jump("link2", "doc2", At("doc2", 1, 6), At("doc4", 1, 6)),
      Jump("link3", "doc3", At("doc3", 1, 5), At("doc4", 1, 6)),
      LinksTo(At("doc4", 1, 25)), LinksTo(At("doc4", 1, 25)),
      LinksTo(At("doc4", 1, 25)), LinksTo(At("doc4", 1, 25)), Close("doc1"),
      Close("doc2"), Close("doc3"), Close("doc4")>>

find_links_homedocids_no_match ==
    <<Draft("doc1", 23), Draft("doc2", 23), Draft("doc3", 19),
      Jump("link1", "doc1", At("doc1", 1, 6), At("doc2", 1, 6)),
      LinksFrom(At("doc1", 1, 30)), LinksFrom(At("doc1", 1, 30)),
      LinksFrom(At("doc1", 1, 30)), Close("doc1"), Close("doc2"),
      Close("doc3")>>

-----------------------------------------------------------------------------
\* links/chains.py

circular_link_chain ==
    <<Draft("doc_a", 19), Draft("doc_b", 19), Draft("doc_c", 19),
      Jump("link_ab", "doc_a", At("doc_a", 14, 6), At("doc_b", 1, 10)),
      Jump("link_bc", "doc_b", At("doc_b", 14, 6), At("doc_c", 1, 10)),
      Jump("link_ca", "doc_c", At("doc_c", 14, 6), At("doc_a", 1, 10)),
      LinksFrom(At("doc_a", 1, 20)), FollowLink("link_ab", LINK_TARGET),
      RetrieveContents(Answer), LinksFrom(At("doc_b", 1, 20)),
      FollowLink("link_bc", LINK_TARGET), RetrieveContents(Answer),
      LinksFrom(At("doc_c", 1, 20)), FollowLink("link_ca", LINK_TARGET),
      RetrieveContents(Answer), Close("doc_a"), Close("doc_b"), Close("doc_c")>>

diamond_link_pattern ==
    <<Draft("doc_a", 30), Draft("doc_b", 31), Draft("doc_c", 31),
      Draft("doc_d", 33),
      Jump("link_ab", "doc_a", At("doc_a", 15, 6), At("doc_b", 1, 6)),
      Jump("link_ac", "doc_a", At("doc_a", 25, 6), At("doc_c", 1, 6)),
      Jump("link_bd", "doc_b", At("doc_b", 22, 11), At("doc_d", 1, 11)),
      Jump("link_cd", "doc_c", At("doc_c", 22, 11), At("doc_d", 1, 11)),
      LinksFrom(At("doc_a", 1, 35)), LinksTo(At("doc_d", 1, 35)),
      Each(<<"link_ab", "link_bd", "link_ac", "link_cd">>, LAMBDA l : <<
          FollowLink(l, LINK_TARGET), RetrieveContents(Answer)>>),
      Close("doc_a"), Close("doc_b"), Close("doc_c"), Close("doc_d")>>

star_hub_incoming ==
    <<Draft("hub", 32), Draft("doc", 25),
      Jump("link_id", "doc", At("doc", 15, 11), At("hub", 1, 11)),
      Draft("doc2", 25),
      Jump("link_id2", "doc2", At("doc2", 15, 11), At("hub", 1, 11)),
      Draft("doc3", 25),
      Jump("link_id3", "doc3", At("doc3", 15, 11), At("hub", 1, 11)),
      LinksTo(At("hub", 1, 35)),
      Each(<<"link_id", "link_id2", "link_id3">>, LAMBDA l : <<
          FollowLink(l, LINK_SOURCE), RetrieveContents(Answer)>>),
      Close("hub"), Close("doc"), Close("doc2"), Close("doc3")>>

star_hub_outgoing ==
    <<Draft("hub", 30), Draft("doc", 24),
      Jump("link_id", "hub", At("hub", 18, 4), At("doc", 1, 15)),
      Draft("doc2", 24),
      Jump("link_id2", "hub", At("hub", 23, 4), At("doc2", 1, 15)),
      Draft("doc3", 24),
      Jump("link_id3", "hub", At("hub", 28, 4), At("doc3", 1, 15)),
      LinksFrom(At("hub", 1, 35)),
      Each(<<"link_id", "link_id2", "link_id3">>, LAMBDA l : <<
          FollowLink(l, LINK_TARGET), RetrieveContents(Answer)>>),
      Close("hub"), Close("doc"), Close("doc2"), Close("doc3")>>

bidirectional_explicit_links ==
    <<Draft("doc_a", 31), Draft("doc_b", 31),
      Jump("link_ab", "doc_a", At("doc_a", 22, 10), At("doc_b", 1, 10)),
      Jump("link_ba", "doc_b", At("doc_b", 22, 10), At("doc_a", 1, 10)),
      LinksFrom(At("doc_a", 1, 35)), LinksTo(At("doc_a", 1, 35)),
      LinksFrom(At("doc_b", 1, 35)), LinksTo(At("doc_b", 1, 35)),
      FollowLink("link_ab", LINK_TARGET), RetrieveContents(Answer),
      FollowLink("link_ba", LINK_TARGET), RetrieveContents(Answer),
      Close("doc_a"), Close("doc_b")>>

link_chain_with_transclusion ==
    <<Doc("doc_a", 40), Draft("doc_b", 10),
      Reading("doc_a", <<
          RetrieveVspanset("doc_b"), Vcopy("doc_b", 11, At("doc_a", 1, 24))>>),
      Extend("doc_b", 35, 24), Show("doc_b"), Draft("doc_c", 22),
      Editing("doc_a", <<
          Jump("link_ab", "doc_a", At("doc_a", 30, 11), At("doc_b", 1, 8))>>),
      RetrieveVspanset("doc_b"),
      Jump("link_bc", "doc_b", At("doc_b", 46, 11), At("doc_c", 1, 11)),
      FollowLink("link_ab", LINK_TARGET), RetrieveContents(Answer),
      LinksFrom(At("doc_b", 1, 60)), FollowLink("link_bc", LINK_TARGET),
      RetrieveContents(Answer), LinksFrom(At("doc_b", 11, 8)), Close("doc_b"),
      Close("doc_c")>>

link_to_transcluded_content ==
    <<Doc("doc_b", 40), Draft("doc_a", 12),
      Reading("doc_b", <<
          RetrieveVspanset("doc_a"), Vcopy("doc_a", 13, At("doc_b", 22, 14))>>),
      Show("doc_a"), Draft("doc_c", 36),
      Jump("link_ca", "doc_c", At("doc_c", 19, 14), At("doc_a", 13, 14)),
      FollowLink("link_ca", LINK_TARGET), RetrieveContents(Answer),
      Reading("doc_b", <<LinksTo(At("doc_b", 22, 14))>>),
      LinksTo(At("doc_a", 13, 14)), Close("doc_a"), Close("doc_c")>>

multi_hop_reverse_traversal ==
    <<Draft("doc", 21), Draft("doc2", 16), Draft("doc3", 17),
      Draft("doc4", 24),
      Jump("link_ab", "doc", At("doc", 16, 5), At("doc2", 1, 5)),
      Jump("link_bc", "doc2", At("doc2", 14, 3), At("doc3", 1, 5)),
      Jump("link_cd", "doc3", At("doc3", 15, 3), At("doc4", 1, 5)),
      LinksTo(At("doc4", 1, 25)), FollowLink("link_cd", LINK_SOURCE),
      RetrieveContents(Answer), LinksTo(At("doc3", 1, 20)),
      FollowLink("link_bc", LINK_SOURCE), RetrieveContents(Answer),
      LinksTo(At("doc2", 1, 20)), FollowLink("link_ab", LINK_SOURCE),
      RetrieveContents(Answer), LinksTo(At("doc", 1, 25)), Close("doc"),
      Close("doc2"), Close("doc3"), Close("doc4")>>

-----------------------------------------------------------------------------
\* links/search_endpoint_removal.py

search_by_source_after_source_removed ==
    <<Draft("source_doc", 24), Draft("target_doc", 20),
      Jump("link_id", "source_doc", At("source_doc", 7, 4),
          At("target_doc", 1, 8)),
      LinksFrom(At("source_doc", 1, 25)), Delete("source_doc", 7, 5),
      Show("source_doc"), LinksFrom(At("source_doc", 1, 25)),
      LinksFrom(At("source_doc", 7, 4)), Close("source_doc"),
      Close("target_doc")>>

search_by_target_after_source_removed ==
    <<Draft("source_doc", 16), Draft("target_doc", 24),
      Jump("link_id", "source_doc", At("source_doc", 1, 6),
          At("target_doc", 1, 6)),
      LinksTo(At("target_doc", 1, 25)), Delete("source_doc", 1, 16),
      LinksTo(At("target_doc", 1, 25)), Show("target_doc"),
      Close("source_doc"), Close("target_doc")>>

search_by_source_after_target_removed ==
    <<Draft("source_doc", 24), Draft("target_doc", 16),
      Jump("link_id", "source_doc", At("source_doc", 1, 6),
          At("target_doc", 1, 6)),
      LinksFrom(At("source_doc", 1, 25)), Delete("target_doc", 1, 16),
      LinksFrom(At("source_doc", 1, 25)), Show("source_doc"),
      Close("source_doc"), Close("target_doc")>>

search_by_both_endpoints_one_removed ==
    <<Draft("source_doc", 20), Draft("target_doc", 20),
      Jump("link_id", "source_doc", At("source_doc", 1, 6),
          At("target_doc", 1, 6)),
      FindLinks(At("source_doc", 1, 20), At("target_doc", 1, 20), NOSPECS),
      Delete("source_doc", 1, 20),
      FindLinks(At("source_doc", 1, 20), At("target_doc", 1, 20), NOSPECS),
      LinksTo(At("target_doc", 1, 20)), Close("source_doc"),
      Close("target_doc")>>

search_partial_source_removal ==
    <<Draft("source_doc", 20), Draft("target_doc", 14),
      Jump("link_id", "source_doc", At("source_doc", 7, 9),
          At("target_doc", 1, 6)),
      LinksFrom(At("source_doc", 1, 25)), LinksFrom(At("source_doc", 7, 9)),
      Delete("source_doc", 7, 5), Show("source_doc"),
      LinksFrom(At("source_doc", 1, 25)), LinksFrom(At("source_doc", 7, 4)),
      Close("source_doc"), Close("target_doc")>>

search_multiple_links_selective_removal ==
    <<Draft("source1_doc", 17), Draft("source2_doc", 18),
      Draft("source3_doc", 17), Draft("target_doc", 21),
      Jump("link1_id", "source1_doc", At("source1_doc", 1, 5),
          At("target_doc", 1, 6)),
      Jump("link2_id", "source2_doc", At("source2_doc", 1, 6),
          At("target_doc", 1, 6)),
      Jump("link3_id", "source3_doc", At("source3_doc", 1, 5),
          At("target_doc", 1, 6)),
      LinksTo(At("target_doc", 1, 25)), Delete("source2_doc", 1, 18),
      LinksTo(At("target_doc", 1, 25)), LinksFrom(At("source1_doc", 1, 20)),
      LinksFrom(At("source2_doc", 1, 20)),
      LinksFrom(At("source3_doc", 1, 20)), Close("source1_doc"),
      Close("source2_doc"), Close("source3_doc"), Close("target_doc")>>

search_spanning_deleted_boundary ==
    <<Draft("source_doc", 26), Draft("target_doc", 14),
      Jump("link_id", "source_doc", At("source_doc", 18, 4),
          At("target_doc", 1, 6)),
      LinksFrom(At("source_doc", 1, 26)),
      RetrieveContents(At("source_doc", 1, 26)), Delete("source_doc", 7, 7),
      Show("source_doc"), LinksFrom(At("source_doc", 1, 26)),
      LinksFrom(At("source_doc", 1, 20)), Close("source_doc"),
      Close("target_doc")>>

search_after_vcopy_source_deleted ==
    <<Draft("orig_doc", 28), Draft("target_doc", 14),
      Jump("link_id", "orig_doc", At("orig_doc", 10, 6),
          At("target_doc", 1, 6)),
      Draft("copy_doc", 8), Vcopy("copy_doc", 9, At("orig_doc", 10, 6)),
      LinksFrom(At("orig_doc", 1, 30)), LinksFrom(At("copy_doc", 1, 20)),
      Delete("orig_doc", 10, 7), Show("orig_doc"), Show("copy_doc"),
      LinksFrom(At("orig_doc", 1, 30)), LinksFrom(At("copy_doc", 1, 20)),
      Close("orig_doc"), Close("copy_doc"), Close("target_doc")>>

search_type_filter_with_removed_endpoints ==
    <<Draft("source_doc", 24), Draft("target_doc", 19),
      Jump("jump_link", "source_doc", At("source_doc", 1, 4),
          At("target_doc", 1, 6)),
      CreateLink("quote_link", "source_doc", At("source_doc", 6, 5),
          At("target_doc", 1, 6), QUOTE_TYPE),
      CreateLink("footnote_link", "source_doc", At("source_doc", 12, 8),
          At("target_doc", 1, 6), FOOTNOTE_TYPE),
      LinksFrom(At("source_doc", 1, 25)),
      FindLinks(At("source_doc", 1, 25), NOSPECS, JUMP_TYPE),
      FindLinks(At("source_doc", 1, 25), NOSPECS, QUOTE_TYPE),
      FindLinks(At("source_doc", 1, 25), NOSPECS, FOOTNOTE_TYPE),
      Delete("source_doc", 6, 6), Show("source_doc"),
      LinksFrom(At("source_doc", 1, 25)),
      FindLinks(At("source_doc", 1, 25), NOSPECS, JUMP_TYPE),
      FindLinks(At("source_doc", 1, 25), NOSPECS, QUOTE_TYPE),
      FindLinks(At("source_doc", 1, 25), NOSPECS, FOOTNOTE_TYPE),
      Close("source_doc"), Close("target_doc")>>

-----------------------------------------------------------------------------
LinksScenarios ==
    <<create_link, find_links, link_types, multiple_links_same_doc,
      bidirectional_links, find_links_by_target, overlapping_links,
      find_links_by_type, follow_link, link_survives_source_insert,
      link_survives_source_delete_adjacent, link_when_source_span_deleted,
      link_when_target_span_deleted, link_source_partial_delete,
      link_with_vcopy_source, link_survives_target_modify,
      self_referential_link, link_chain, overlapping_links_different_targets,
      link_chain_three_hops, link_permanence_no_delete_operation,
      orphaned_link_source_all_deleted, orphaned_link_target_all_deleted,
      orphaned_link_both_endpoints_deleted, link_home_document_content_deleted,
      multiple_orphaned_links_same_content, find_links_filter_by_homedocid,
      find_links_homedocids_multiple, find_links_homedocids_no_match,
      circular_link_chain, diamond_link_pattern, star_hub_incoming,
      star_hub_outgoing, bidirectional_explicit_links,
      link_chain_with_transclusion, link_to_transcluded_content,
      multi_hop_reverse_traversal, search_by_source_after_source_removed,
      search_by_target_after_source_removed,
      search_by_source_after_target_removed,
      search_by_both_endpoints_one_removed, search_partial_source_removal,
      search_multiple_links_selective_removal,
      search_spanning_deleted_boundary, search_after_vcopy_source_deleted,
      search_type_filter_with_removed_endpoints>>
=============================================================================
