--------------------------- MODULE MCResponseCache ---------------------------
(* ResponseCache with responses of three sizes.                            *)
EXTENDS ResponseCache, TLC

CONSTANTS small, large, huge

Sizes == small :> 1 @@ large :> 2 @@ huge :> 4
=============================================================================
