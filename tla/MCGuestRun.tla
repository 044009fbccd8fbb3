----------------------------- MODULE MCGuestRun -----------------------------
(***************************************************************************)
(* GuestRun for TLC, with a budget of a few steps and a few pages.  The    *)
(* system stops when Run has returned.                                     *)
(***************************************************************************)
EXTENDS GuestRun
=============================================================================
