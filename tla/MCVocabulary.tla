---------------------------- MODULE MCVocabulary ----------------------------
(* Small instances of a vocabulary practice.                                *)
EXTENDS VocabularyProperties, TLC
=============================================================================
