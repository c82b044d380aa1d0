----------------------------- MODULE MCOpenHash -----------------------------
(* OpenHash with eight slots, of which five may be in use, six keys, and homes *)
(* on both sides of the end of the table.                                      *)
EXTENDS OpenHash
=============================================================================
