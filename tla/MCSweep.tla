------------------------------ MODULE MCSweep -------------------------------
(***************************************************************************)
(* What the runtime must eventually do, on small instances: StopWorld with  *)
(* late answers, MarkWork and Reports, each under the fairness it states.   *)
(* Each behaviour is one of one part; the others stay in their initial      *)
(* states, where nothing they are fair to can happen.                       *)
(***************************************************************************)
EXTENDS StopWorld, MarkWork, Reports

VARIABLE part

Init ==
    /\ part \in {"stop", "mark", "report"}
    /\ StopInit /\ MarkInit
    /\ part # "report" => abortSetting = FALSE /\ disposition = "default"
    /\ ReportsInit

Next ==
    \/ /\ part = "stop" /\ StopNext
       /\ UNCHANGED <<part, workVars, reportVars>>
    \/ /\ part = "mark" /\ MarkNext
       /\ UNCHANGED <<part, stopVars, reportVars>>
    \/ /\ part = "report" /\ ReportsNext
       /\ UNCHANGED <<part, stopVars, workVars>>

Spec ==
    /\ Init
    /\ [][Next]_<<part, stopVars, workVars, reportVars>>
    /\ StopFairness /\ MarkFairness /\ ReportsFairness
=============================================================================
