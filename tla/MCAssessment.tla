---------------------------- MODULE MCAssessment ----------------------------
(* Assessment on small instances: a machine of 16 bits, on which the largest *)
(* override that the multiplication leaves alone is 32 degrees.              *)
EXTENDS Assessment
=============================================================================
