--------------------------- MODULE MCBundleReclaim ---------------------------
(***************************************************************************)
(* A chain of two bundles of two files on this node and one replica.       *)
(***************************************************************************)
EXTENDS BundleReclaim

CONSTANTS full, inc, replica, vda, xml

MCLocal    == {full, inc}
MCRemote   == {replica}
MCDisks    == {vda}
MCMetadata == {xml}
=============================================================================
