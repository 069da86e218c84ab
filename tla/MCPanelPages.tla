----------------------------- MODULE MCPanelPages -----------------------------
(***************************************************************************)
(* TLC's instance of the panel's pages: quotas, the local inspection, the  *)
(* auth files, the config.yaml editor, the log, the sign-ins and the       *)
(* monitoring centre.  The modules share no state; a behaviour uses one of *)
(* them, so that one run explores each of them in full.                    *)
(***************************************************************************)
EXTENDS QuotaPanel, InspectionPanel, AuthFilesPanel, MCConfigTexts,
        LogsTail, OAuthPanel, MonitoringPanel

VARIABLE part    \* the page this behaviour uses

\* What a page that is not used starts from is fixed.
Init ==
    /\ part \in {"quota", "inspection", "auth files", "config", "logs", "oauth", "monitoring"}
    /\ QuotaInit /\ InspectionInit /\ AuthFilesInit /\ ConfigInit
    /\ LogsInit /\ OAuthInit /\ MonitoringInit
    /\ part # "config" => server = Empty
    /\ part # "logs" => cursors
    /\ part # "monitoring" => scope = CHOOSE s \in Scopes : TRUE

pageVars == <<quotaVars, inspectionVars, authFilesVars, configVars>>
feedVars == <<logsVars, oauthVars, monitoringVars>>

QuotaPart ==
    /\ part = "quota" /\ QuotaNext
    /\ UNCHANGED <<part, inspectionVars, authFilesVars, configVars, feedVars>>
InspectionPart ==
    /\ part = "inspection" /\ InspectionNext
    /\ UNCHANGED <<part, quotaVars, authFilesVars, configVars, feedVars>>
AuthFilesPart ==
    /\ part = "auth files" /\ AuthFilesNext
    /\ UNCHANGED <<part, quotaVars, inspectionVars, configVars, feedVars>>
ConfigPart ==
    /\ part = "config" /\ ConfigNext
    /\ UNCHANGED <<part, quotaVars, inspectionVars, authFilesVars, feedVars>>
LogsPart ==
    part = "logs" /\ LogsNext /\ UNCHANGED <<part, pageVars, oauthVars, monitoringVars>>
OAuthPart ==
    part = "oauth" /\ OAuthNext /\ UNCHANGED <<part, pageVars, logsVars, monitoringVars>>
MonitoringPart ==
    part = "monitoring" /\ MonitoringNext /\ UNCHANGED <<part, pageVars, logsVars, oauthVars>>

Next ==
    \/ QuotaPart \/ InspectionPart \/ AuthFilesPart \/ ConfigPart
    \/ LogsPart \/ OAuthPart \/ MonitoringPart

vars == <<part, pageVars, feedVars>>

Spec == Init /\ [][Next]_vars

\* The state of every page has its type.
TypeOK ==
    /\ QuotaTypeOK /\ InspectionTypeOK /\ AuthFilesTypeOK /\ ConfigTypeOK
    /\ LogsTypeOK /\ OAuthTypeOK /\ MonitoringTypeOK
=============================================================================
