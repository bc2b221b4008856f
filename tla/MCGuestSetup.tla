---------------------------- MODULE MCGuestSetup ----------------------------
(***************************************************************************)
(* GuestSetup for TLC: six known capabilities of eight bits.  Targets has  *)
(* the empty set, one the set-up itself uses, two with a gap between them, *)
(* and one with a bit the kernel does not know.                            *)
(***************************************************************************)
EXTENDS GuestSetup

GuestTargets == {{}, {1}, {2, 5}, {3, 6}}

=============================================================================
