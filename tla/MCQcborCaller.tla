--------------------------- MODULE MCQcborCaller ---------------------------
(***************************************************************************)
(* The CBOR encoder on small limits; its output is read back and compared  *)
(* with what the caller asked for.                                         *)
(***************************************************************************)
EXTENDS QcborCaller

MCNumbers == {-300, 24}
MCCommonNumber == -300

MCStrings == {<<>>, <<200>>}
MCCommonString == <<200>>
=============================================================================
