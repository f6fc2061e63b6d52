------------------------- MODULE MCCapturePipeline -------------------------
(***************************************************************************)
(* The capture pipeline with two tasks of two turns and two runs.           *)
(***************************************************************************)
EXTENDS CapturePipeline

MCDigitHash == {2}

MCTaskChoices == {<<1, 2>>, <<2>>}

MCCalls == {0, 2}

============================================================================
