------------------------------ MODULE MCTunnel ------------------------------
(* Tunnel for TLC: which builds a run looks at.                             *)
EXTENDS Tunnel

BothBuilds == {"windows", "dev"}
DevOnly    == {"dev"}
=============================================================================
