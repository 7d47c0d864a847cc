---------------------------- MODULE MCCancelled -----------------------------
(* A small instance of module Cancelled: the constants are those of MCAssignment. *)
EXTENDS Cancelled, MCAssignment
=============================================================================
