------------------------------ MODULE MCCiScan ------------------------------
(* The bounds of the run of CiScan: an echo line that does not fit alone and  *)
(* does once its value is masked.                                             *)
EXTENDS CiScan

SecretAndEcho == {"secret", "echo"}
PlainSizes == [k \in SecretAndEcho |-> IF k = "echo" THEN 3 ELSE 1]
MaskedSizes == [k \in SecretAndEcho |-> 1]
=============================================================================
