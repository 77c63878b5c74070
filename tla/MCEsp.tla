------------------------------- MODULE MCEsp --------------------------------
(* Contexts, links and advertisers are alike to EspBle.                     *)
EXTENDS EspBle, TLC

Alike == Permutations(Ctx) \cup Permutations(Handle) \cup Permutations(Addr)
=============================================================================
