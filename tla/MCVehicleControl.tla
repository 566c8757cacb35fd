-------------------------- MODULE MCVehicleControl --------------------------
\* Model values and symmetry for checking VehicleControl.
EXTENDS VehicleControl, TLC

\* Destinations are interchangeable in the safety runs.
DestinationSymmetry == Permutations(Destinations)
=============================================================================
