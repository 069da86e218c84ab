---------------------------- MODULE MCConfigEditor ----------------------------
(***************************************************************************)
(* TLC's instance of the config.yaml editor on its own, with what it takes *)
(* to say that the source tab keeps the text typed there.                  *)
(***************************************************************************)
EXTENDS MCConfigTexts

VARIABLE pending    \* the visual editor holds edits that the text has not been given

vars == <<configVars, pending>>

Init == ConfigInit /\ pending = FALSE

Next ==
    /\ ConfigNext
    /\ pending' = /\ visual'.dirtyFields # {} /\ activeTab' # "source"
                  /\ pending \/ visual'.values # visual.values

Spec == Init /\ [][Next]_vars

\* "Only rewrite YAML when there are pending visual changes; otherwise preserve
\* raw YAML + comments": going to the source tab with no visual change that the
\* text has not been given leaves the text (handleTabChange).
SourceTextStays ==
    [][activeTab # "source" /\ activeTab' = "source" /\ ~pending
          /\ loadsInFlight' = loadsInFlight /\ saveStep' = saveStep => content' = content]_vars
=============================================================================
