--------------------------- MODULE MCSnortAlerts ---------------------------
EXTENDS SnortAlerts, TLC

\* Sensors and addresses are told apart by their state only.
SensorSymmetry == Permutations(Sensors) \cup Permutations(Ips)
=============================================================================
