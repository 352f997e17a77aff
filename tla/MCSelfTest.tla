----------------------------- MODULE MCSelfTest -----------------------------
(* The claims, tried on 1.0 and 3.5 where they are about numbers. *)
EXTENDS SelfTest, MCHost

MCBoots == Tries(Float(0, 0, 0), Float(0, 1, 384))

=============================================================================
