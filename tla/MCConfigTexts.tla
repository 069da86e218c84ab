----------------------------- MODULE MCConfigTexts -----------------------------
(***************************************************************************)
(* The texts TLC lets users and other clients write: one that is not YAML, *)
(* one with plain keys and an empty map, and one with everything in it; a  *)
(* value the visual editor does not know is in each of the latter.         *)
(***************************************************************************)
EXTENDS ConfigEditor

SampleTexts ==
    {Broken,
     [Empty EXCEPT !.field = Foreign, !.map = TRUE, !.keys = 1, !.entries = "plain"],
     [Empty EXCEPT !.field = 1, !.map = TRUE, !.member = Foreign, !.opt = 1,
                   !.keys = 1, !.entries = "annotated", !.extra = 1]}
=============================================================================
