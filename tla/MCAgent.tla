------------------------------- MODULE MCAgent -------------------------------
(* The agent's start-up and task supervision, with one run of initialize  *)
(* on every host the Provisioner's Init allows.                           *)
EXTENDS Agent
=============================================================================
