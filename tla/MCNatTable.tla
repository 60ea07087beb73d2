------------------------------ MODULE MCNatTable ------------------------------
(* NatTable for TLC: sequence numbers wrap around within the first bytes.   *)
EXTENDS NatTable

LastIsn  == {Modulus - 1}
SomeIsns == {0, Modulus - 1}
=============================================================================
