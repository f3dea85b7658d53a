--------------------------- MODULE MCFlightControl ---------------------------
(* Model values and bounds of FlightControl for TLC.                        *)
EXTENDS FlightControl
=============================================================================
