------------------------------ MODULE MCTelemetry ------------------------------
(* Six periods: long enough for a stats round to overrun two periods and  *)
(* for the burst that follows to catch up before the horizon.             *)
EXTENDS Telemetry

MCMaxTime == 6
=============================================================================
