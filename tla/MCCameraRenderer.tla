-------------------------- MODULE MCCameraRenderer --------------------------
(* CameraRenderer with two headers and profiles, one of them with too few  *)
(* bytes for its pictures, and a surface of each kind.                     *)
EXTENDS CameraRenderer
=============================================================================
