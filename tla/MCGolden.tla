------------------------------ MODULE MCGolden ------------------------------
(***************************************************************************)
(* Two scenarios: one that catches the failure of its first request and    *)
(* goes on, and one that follows a link before and after it reads.         *)
(***************************************************************************)
EXTENDS Golden

MCScenarios == <<<<"guarded", "plain">>, <<"follow", "plain", "follow">>>>
=============================================================================
