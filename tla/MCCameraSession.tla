--------------------------- MODULE MCCameraSession ---------------------------
(***************************************************************************)
(* A small instance of CameraSession for TLC.                              *)
(***************************************************************************)
EXTENDS CameraSession

\* Two videos that give frames of one size, one turned, one too extreme.
MCFrameSize == [d \in {"large", "small", "turned", "extreme"} |->
    CASE d \in {"large", "small"} -> "wide" [] d = "turned" -> "tall" [] d = "extreme" -> "none"]
=============================================================================
