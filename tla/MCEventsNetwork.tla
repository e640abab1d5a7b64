-------------------------- MODULE MCEventsNetwork --------------------------
(***************************************************************************)
(* EventsNetwork on three descriptors, with a first allocation of one      *)
(* entry so that the array grows twice.                                    *)
(***************************************************************************)
EXTENDS EventsNetwork, TLC

DescriptorSymmetry == Permutations(Fd)
=============================================================================
