------------------------------- MODULE MCLaptop ------------------------------
(***************************************************************************)
(* A small instance of Laptop.                                             *)
(***************************************************************************)
EXTENDS Laptop

CONSTANTS request, supervisor
=============================================================================
