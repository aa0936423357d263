----------------------------- MODULE MCHarness ------------------------------
(***************************************************************************)
(* All scenarios of the harness that Requests can say, one visit of the    *)
(* neighbour to each.                                                      *)
(***************************************************************************)
EXTENDS Harness, ScenariosText, ScenariosLinks, ScenariosPlaces,
        ScenariosVersions, ScenariosDiscovery, ScenariosSessions

MCScripts ==
    TextScenarios \o LinksScenarios \o PlacesScenarios \o VersionsScenarios
        \o DiscoveryScenarios \o SessionsScenarios
=============================================================================
