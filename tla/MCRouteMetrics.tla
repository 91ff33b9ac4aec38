--------------------------- MODULE MCRouteMetrics ---------------------------
(***************************************************************************)
(* The two halves of route_metrics.rs, which share no state, each checked  *)
(* by itself in one run: "part" says which one an execution is about.      *)
(***************************************************************************)
EXTENDS RouteMetrics, MessageCapture

VARIABLE part

allVars == <<part, vars, captureVars>>

MCInit == part \in {"metrics", "capture"} /\ Init /\ CaptureInit

MetricsStep == part = "metrics" /\ Next /\ UNCHANGED <<part, captureVars>>
CaptureStep == part = "capture" /\ CaptureNext /\ UNCHANGED <<part, vars>>

MCNext == MetricsStep \/ CaptureStep

\* The locks of the metrics are fair, as in FairSpec of RouteMetrics.
MCSpec ==
  /\ MCInit /\ [][MCNext]_allVars
  /\ \A t \in Tasks : SF_allVars(MetricsStep /\ TaskStep(t))
  /\ SF_allVars(MetricsStep /\ SamplerStep)
=============================================================================
