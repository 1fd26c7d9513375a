--------------------------- MODULE MCCameraStream ---------------------------
(* CameraStream with one place for two clients, so that one is refused.    *)
EXTENDS CameraStream
=============================================================================
