------------------------- MODULE ImageBufferProofs --------------------------
(* For every set of pixels, every content of unwritten memory and every    *)
(* size: a draw of a byte array or of a big-endian array shows that array. *)
EXTENDS ImageBuffer, TLAPS

\* What the command's buffer has to do with the array it was made from.
BufferIsArray == array.call \in {"u8", "big"} => buffer = {Meant(array)}

IInv == TypeOK /\ BufferIsArray

-----------------------------------------------------------------------------

\* Packing a pixel gives its four bytes in the order that they had, for every
\* channel order: the tables of pixels.c and pack.c are inverse to each other.
LEMMA PackIsCopy ==
  ASSUME NEW o \in Orders, NEW p \in Pixels
  PROVE  PackPixel(o, p) = p
<1>1. p \in [1..4 -> 0..255]
  BY ImageAssumption
<1>2. p = <<p[1], p[2], p[3], p[4]>>
  BY <1>1
<1>3. CASE o = "RGBA"
  BY <1>2, <1>3 DEF PackPixel, Pack, Channel
<1>4. CASE o = "ARGB"
  BY <1>2, <1>4 DEF PackPixel, Pack, Channel
<1>5. CASE o = "BGRA"
  BY <1>2, <1>5 DEF PackPixel, Pack, Channel
<1>6. CASE o = "ABGR"
  BY <1>2, <1>6 DEF PackPixel, Pack, Channel
<1> QED
  BY <1>3, <1>4, <1>5, <1>6 DEF Orders

\* The words packed from an array of pixels are the array.
LEMMA PackedIsArray ==
  ASSUME NEW o \in Orders, NEW img \in Images(Pixels)
  PROVE  Packed(o, img) = img
<1>1. PICK n \in 0..MaxPixels : img \in [1..n -> Pixels]
  BY DEF Images
<1>2. \A i \in DOMAIN img : PackPixel(o, img[i]) = img[i]
  BY <1>1, PackIsCopy
<1> QED
  BY <1>1, <1>2 DEF Packed

\* An image is a sequence of at most MaxPixels elements.
LEMMA ImageIsSeq ==
  ASSUME NEW S, NEW img \in Images(S)
  PROVE  /\ DOMAIN img = 1..Len(img)
         /\ Len(img) \in 0..MaxPixels
         /\ img \in [1..Len(img) -> S]
  BY ImageAssumption DEF Images

\* What the swapping loop writes is an image of the same size.
LEMMA SwappedIsImage ==
  ASSUME NEW img \in Images(Pixels)
  PROVE  /\ Swapped(img) \in Images(Words)
         /\ DOMAIN Swapped(img) = DOMAIN img
<1>1. PICK n \in 0..MaxPixels : img \in [1..n -> Pixels]
  BY DEF Images
<1>2. \A i \in 1..n : Swap(img[i]) \in Words
  BY <1>1 DEF Words
<1>3. Swapped(img) \in [1..n -> Words]
  BY <1>1, <1>2 DEF Swapped
<1> QED
  BY <1>1, <1>3 DEF Images

\* An image of some words is one of more words.
LEMMA ImagesGrow ==
  ASSUME NEW S, NEW T, S \subseteq T
  PROVE  Images(S) \subseteq Images(T)
<1>1. ASSUME NEW n \in 0..MaxPixels, NEW f \in [1..n -> S]
      PROVE  f \in [1..n -> T]
  OBVIOUS
<1> QED
  BY <1>1 DEF Images

-----------------------------------------------------------------------------

\* No array has been converted at the start.
LEMMA InitInvariant == Init => IInv
<1>1. \A S : <<>> \in Images(S)
  <2> SUFFICES ASSUME NEW S PROVE <<>> \in UNION {[1..n -> S] : n \in 0..MaxPixels}
    BY DEF Images
  <2>1. 0 \in 0..MaxPixels
    BY ImageAssumption
  <2>2. <<>> \in [1..0 -> S]
    OBVIOUS
  <2> QED
    BY <2>1, <2>2
<1> QED
  BY <1>1, ImageAssumption DEF Init, IInv, TypeOK, BufferIsArray, Orders

\* Every call leaves in the buffer what the array it records asks for.
LEMMA NextInvariant == IInv /\ [Next]_vars => IInv'
<1> SUFFICES ASSUME IInv, [Next]_vars PROVE IInv'
  OBVIOUS
<1> USE DEF IInv, TypeOK, BufferIsArray
<1>1. CASE SetAttributes
  BY <1>1 DEF SetAttributes, Meant
<1>2. CASE SetBufferFails \/ UNCHANGED vars
  BY <1>2 DEF SetBufferFails, vars, Meant
<1>3. CASE Draw
  <2>1. PICK w \in buffer, s \in [1..area -> Junk] :
          shown' = [i \in 1..area |-> IF i \in DOMAIN w THEN w[i] ELSE s[i]]
    BY <1>3 DEF Draw
  <2>2. w \in [1..Len(w) -> Words] /\ DOMAIN w = 1..Len(w)
    BY <2>1, ImageIsSeq
  <2>3. shown' \in [1..area -> Words]
    BY <2>1, <2>2 DEF Words
  <2>4. shown' \in Images(Words)
    BY <2>3 DEF Images
  <2> QED
    BY <1>3, <2>4 DEF Draw, Meant
<1>4. ASSUME NEW img \in Images(Pixels), SetBufferU8(img) PROVE IInv'
  <2>1. buffer' = {img}
    BY <1>4, PackedIsArray DEF SetBufferU8
  <2>2. img \in Images(Words)
    BY ImagesGrow DEF Words
  <2> QED
    BY <1>4, <2>1, <2>2 DEF SetBufferU8, Meant
<1>5. ASSUME NEW img \in Images(Pixels), SetBufferBig(img) PROVE IInv'
  BY <1>5, SwappedIsImage DEF SetBufferBig, Meant
<1>6. ASSUME NEW img \in Images(Pixels), SetBufferLittle(img) PROVE IInv'
  <2>1. PICK w \in [DOMAIN img -> Junk] : buffer' = {w}
    BY <1>6 DEF SetBufferLittle
  <2>2. w \in Images(Junk)
    BY ImageIsSeq DEF Images
  <2>3. w \in Images(Words)
    BY <2>2, ImagesGrow DEF Words
  <2> QED
    BY <1>6, <2>1, <2>3 DEF SetBufferLittle
<1> QED
  BY <1>1, <1>2, <1>3, <1>4, <1>5, <1>6 DEF Next

\* The type invariant, for every size and every content of memory.
THEOREM TypeCorrect == Spec => []TypeOK
<1>1. IInv => TypeOK
  BY DEF IInv
<1> QED
  BY <1>1, InitInvariant, NextInvariant, PTL DEF Spec

-----------------------------------------------------------------------------

\* A draw reads the first words of the buffer, and they are the array's.
LEMMA DrawReadsArray == IInv => DrawOf({"u8", "big"})
<1> SUFFICES ASSUME IInv, Draw, array.call \in {"u8", "big"},
                    area <= Len(array.px)
             PROVE  shown' = [i \in 1..area |-> Meant(array)[i]]
  BY DEF DrawOf
<1> DEFINE w == Meant(array)
<1>1. buffer = {w}
  BY DEF IInv, BufferIsArray
<1>2. PICK s : shown' = [i \in 1..area |-> IF i \in DOMAIN w THEN w[i] ELSE s[i]]
  BY <1>1 DEF Draw
<1>3. DOMAIN w = 1..Len(array.px) /\ Len(array.px) \in Nat
  BY ImageIsSeq, SwappedIsImage, ImageAssumption DEF IInv, TypeOK, Meant
<1>4. area \in Nat
  BY ImageAssumption DEF IInv, TypeOK
<1>5. 1..area \subseteq DOMAIN w
  BY <1>3, <1>4
<1> QED
  BY <1>2, <1>5

\* Whatever is called in whatever order, a draw no larger than the array puts
\* a byte array on the screen byte for byte, and a big-endian one converted.
THEOREM DrawIsFaithful == Spec => DrawShowsArray
<1>1. IInv => [DrawOf({"u8", "big"})]_vars
  BY DrawReadsArray
<1> QED
  BY <1>1, InitInvariant, NextInvariant, PTL DEF Spec, DrawShowsArray
=============================================================================
