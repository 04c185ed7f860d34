----------------------------- MODULE MCSipService -----------------------------
(* Model-checking instance of SipService: INVITEs and client transactions   *)
(* are interchangeable model values.                                        *)
EXTENDS SipService, TLC

Symmetry == Permutations(Invites) \cup Permutations(Txs)

===============================================================================
