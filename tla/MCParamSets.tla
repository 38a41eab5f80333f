----------------------------- MODULE MCParamSets -----------------------------
(* ParamSets with texts of three and two characters, a profile id of one to *)
(* three digits and four key frames, so that a DESCRIBE meets several.      *)
EXTENDS ParamSets
MCWidths == {1, 2, 3}
=============================================================================
