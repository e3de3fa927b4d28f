---------------------------- MODULE MCRasterizer ----------------------------
(* Rasterizer on a pipeline of the depth the Animator gives it.              *)
EXTENDS Rasterizer
=============================================================================
