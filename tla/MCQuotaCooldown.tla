-------------------------- MODULE MCQuotaCooldown --------------------------
(***************************************************************************)
(* TLC's instance of QuotaCooldown in which sweeps run beside the run loop *)
(* under every disturbance, with what it takes to tell the behaviours in   *)
(* which they have not met on one file.                                    *)
(***************************************************************************)
EXTENDS QuotaCooldown

VARIABLE undisturbed    \* no two goroutines have met on a file, nor was a disable cut short

UndisturbedInit == Init /\ undisturbed = TRUE

Watch == undisturbed' = (undisturbed /\ OneHandPerFile' /\ ~CutShort)

UndisturbedNext ==
    \/ WorkerNext /\ Watch
    \/ \E f \in Files : OperatorDisable(f) /\ Watch
    \/ \E f \in Files : OperatorEnable(f) /\ Watch
    \/ \E f \in Files : OperatorDelete(f) /\ Watch
    \/ \E f \in Files, idx \in AuthIndex : OperatorUpload(f, idx) /\ Watch

UndisturbedSpec == UndisturbedInit /\ [][UndisturbedNext]_<<vars, undisturbed>>

\* With any number of sweeps and in every environment, a file the worker disabled
\* has an active cooldown once the worker is done disabling it, as long as no two
\* goroutines met on one file and no disable was cut short (handleCandidate
\* against recoverCooldown on the run loop and on the goroutines of Start).
UndisturbedDisableIsOwned == undisturbed => DisableIsOwned
=============================================================================
