------------------------------ MODULE MCLtcPoe ------------------------------
(* Values of the constants of LtcPoe for TLC.  Class 3 and 4 devices, with   *)
(* the driver's currents: 280 and 545 mA of the default 575 mA.              *)
EXTENDS LtcPoeInv

CONSTANTS class3, class4

MCClassmA == [c \in Classes |-> IF c = class4 THEN 545 ELSE 280]
=============================================================================
