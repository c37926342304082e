---------------------------- MODULE MCTelemetry ----------------------------
EXTENDS Telemetry, TLC

CONSTANTS p, q, d1, d2
=============================================================================
