----------------------------- MODULE MCReporter -----------------------------
(* Model checking of the reporter on small capacities.                     *)
EXTENDS ReporterProps
=============================================================================
