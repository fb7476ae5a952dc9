--------------------------- MODULE MCImageBuffer ----------------------------
(* Two pixels whose eight bytes differ, and one word of junk.              *)
EXTENDS ImageBuffer

TwoPixels == {<<1, 2, 3, 4>>, <<5, 6, 7, 8>>}
Zeros == {<<0, 0, 0, 0>>}
=============================================================================
