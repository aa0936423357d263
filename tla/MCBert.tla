------------------------------- MODULE MCBert -------------------------------
(***************************************************************************)
(* Two connections and two accounts over three addresses: doc, under       *)
(* account A, is on disk; ver is free under A and copy is free under B, so *)
(* that both places for a new version occur.  doc and copy share a chain,  *)
(* so that both cases of exitbert occur: a predecessor in the cell's own   *)
(* chain, and one left over from the chain before.                         *)
(***************************************************************************)
EXTENDS Bert, TLC

CONSTANTS c0, c1, doc, ver, copy, A, B

MCDoc == {doc, ver, copy}
MCInitDocs == {doc}
MCOwns == {<<A, doc>>, <<A, ver>>, <<B, copy>>}
MCBucket == {0, 1}
MCHashOf == [d \in MCDoc |-> IF d = ver THEN 1 ELSE 0]

\* Only doc is opened twice by one connection.
MCMaxCount == [d \in MCDoc |-> IF d = doc THEN 2 ELSE 1]

\* Connections are interchangeable: no definition orders or names them.
Symmetry == Permutations(Conn)
=============================================================================
