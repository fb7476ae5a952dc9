--------------------------- MODULE MCFrameBuffer ----------------------------
(* A screen of 3 x 2 pixels; an image that fits, one that is as wide as an *)
(* unsigned number allows, and one without a pixel.                        *)
EXTENDS FrameBuffer

SmallImages == {<<2, 2>>, <<Word - 1, 1>>, <<0, 3>>}
=============================================================================
