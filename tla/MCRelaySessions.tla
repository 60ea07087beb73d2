---------------------------- MODULE MCRelaySessions ----------------------------
(* RelaySessions for TLC: one proxy, and an administrator who adds and      *)
(* removes its key and another one with the same id.  Sessions share        *)
(* nothing but the keys and the UDP loop.                                   *)
EXTENDS RelaySessions

CONSTANTS k1, k2

OwnKey    == [s \in Session |-> k1]
SameId    == [k \in Key |-> 0]
AnyKeyDir == SUBSET {k1, k2}
=============================================================================
