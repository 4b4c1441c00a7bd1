--------------------------- MODULE MCLocalRestore ---------------------------
(***************************************************************************)
(* Two restores that ask for the same domain name, in one of two target    *)
(* directories, from a bundle of one metadata file and one disk.           *)
(***************************************************************************)
EXTENDS LocalRestore

CONSTANTS o1, o2, n1, r1, r2, xml, vda

MCOps   == {o1, o2}
MCNames == {n1}
MCRoots == {r1, r2}
MCFiles == {xml, vda}
MCDisks == {vda}
=============================================================================
