--------------------------- MODULE MCDrawPipeline ---------------------------
(* A screen of 2 x 1 pixels and an image that is as large as it.           *)
EXTENDS DrawPipeline

WideImage == {<<2, 1>>}
=============================================================================
