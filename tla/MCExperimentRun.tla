-------------------------- MODULE MCExperimentRun --------------------------
(* A calibration with a status check and an experiment that writes the same *)
(* dataset.                                                                 *)
EXTENDS ExperimentRun, TLC

CONSTANTS laser, entangle, power

MCDatasetOf == laser :> power @@ entangle :> power

=============================================================================
