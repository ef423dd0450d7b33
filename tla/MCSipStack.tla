----------------------------- MODULE MCSipStack -----------------------------
(***************************************************************************)
(* SipStack for TLC.  Calls and branches are interchangeable: nothing but  *)
(* equality is asked of them, and the properties are safety properties.    *)
(***************************************************************************)
EXTENDS SipStack, TLC

Symmetry == Permutations(Calls) \cup Permutations(Branches)
=============================================================================
