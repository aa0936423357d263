------------------------------- MODULE MCDisk -------------------------------
(***************************************************************************)
(* Two documents in blocks, with a header and buckets, of the sizes of the *)
(* code.  The instance for many starts has one document, which is never    *)
(* edited; its root is as long as that of the spanfilade of a back end     *)
(* that holds nothing.                                                     *)
(***************************************************************************)
EXTENDS Disk

MCDoc == {1, 2}
MCSizes == {200, 500}
MCGranSizes == {600}

OneDoc == {1}
OneSize == {30}
=============================================================================
