------------------------------ MODULE MCLodFrame ------------------------------
(***************************************************************************)
(* A small instance of LodFrame for TLC: a root with two children, one of  *)
(* them with a child of its own, and a second root.                        *)
(***************************************************************************)
EXTENDS LodFrame

MCParent == <<0, 1, 1, 2, 0>>
MCPoints == <<2, 1, 1, 1, 1>>
MCUpload == <<2, 1, 1, 1, 1>>

\* Far; nearer, where the error of the root is between the thresholds; near the
\* left child; near the right one, with the second root out of sight.
MCCameras == {<<1, 1, 1, 1, 1>>, <<3, 2, 1, 1, 1>>, <<5, 4, 2, 3, 2>>, <<4, 3, 6, 1, 0>>}
=============================================================================
