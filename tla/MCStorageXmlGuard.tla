------------------------- MODULE MCStorageXmlGuard -------------------------
(* StorageXmlGuard on every text of up to three characters.                 *)
EXTENDS StorageXmlGuard, SequencesExt

MCTexts == BoundedSeq(Char, 3)
=============================================================================
