-------------------------- MODULE MCReceivedRestore --------------------------
(***************************************************************************)
(* Two restores, of a FULL point or its increment, that may ask for the    *)
(* same domain name and the same directory.                                *)
(***************************************************************************)
EXTENDS ReceivedRestore

CONSTANTS vda, n1, r1, r2

MCDisks == {vda}
MCNames == {n1}
MCRoots == {r1, r2}
=============================================================================
