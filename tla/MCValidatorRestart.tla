------------------------- MODULE MCValidatorRestart -------------------------
(* The validators of MCValidatorLoop, some of which may crash.             *)
EXTENDS MCValidatorLoop, ValidatorRestart
=============================================================================
