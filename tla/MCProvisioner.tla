---------------------------- MODULE MCProvisioner ----------------------------
(* Two runs of initialize on every host the Init of Provisioner allows.   *)
EXTENDS Provisioner

MCMaxRuns == 2
=============================================================================
