--------------------------- MODULE MCRenderWorker ---------------------------
(* RenderWorker with one kind of request: requests are told apart by their *)
(* number.                                                                 *)
EXTENDS RenderWorker
=============================================================================
