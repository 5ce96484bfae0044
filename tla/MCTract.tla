------------------------------ MODULE MCTract -------------------------------
(***************************************************************************)
(* Instances of Tract for TLC.  Policies differ from stage to stage so     *)
(* that a pass, a publication and the end of the available range fall on   *)
(* different records.                                                      *)
(***************************************************************************)
EXTENDS Tract

ReadTwice == [i \in Stage |-> 2]
PublishPairsFirst == [i \in Stage |-> IF i = 1 THEN 2 ELSE 1]
=============================================================================
