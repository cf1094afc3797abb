------------------------- MODULE MCKnowledgeWorld -------------------------
(***************************************************************************)
(* KnowledgeWorld on a creature and two more entities, of which a batch    *)
(* may make both, set inputs and attach them.  Values are only compared,   *)
(* and no property is temporal: permuting them is sound.                   *)
(***************************************************************************)
EXTENDS KnowledgeWorld, TLC

Symmetry == Permutations(Values)
=============================================================================
