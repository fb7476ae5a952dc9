---------------------------- MODULE ImageBuffer -----------------------------
(***************************************************************************)
(* The image of a cmd_draw_image_t: a Python caller sets the channel order *)
(* and the size, hands an array to set_buffer_u8 or set_buffer_u32 (each   *)
(* runs under the interpreter's lock and is one step) and draws.           *)
(*                                                                         *)
(* A 32-bit word is the sequence of its four bytes as they lie in memory,  *)
(* the lowest first; the host is little-endian, as HOST_ENDIAN says.  What *)
(* a read of memory finds that nothing has written is one of Junk's words. *)
(***************************************************************************)
EXTENDS Naturals, Sequences

CONSTANTS
  Pixels,   \* the pixels of callers' arrays: four bytes each
  Junk,     \* the words that memory nobody wrote may hold
  MaxPixels \* bound: pixels of an image

ASSUME ImageAssumption ==
  /\ MaxPixels \in Nat
  /\ Pixels \union Junk \subseteq [1..4 -> 0..255]

VARIABLES
  order,  \* cmd->order
  area,   \* cmd->width * cmd->height
  buffer, \* the words cmd->buffer points to; no element for NULL
  array,  \* the array that the buffer was made from, and the call
  shown   \* the words that the last draw read

vars == <<order, area, buffer, array, shown>>

Orders == {"RGBA", "ARGB", "BGRA", "ABGR"}

\* The sequences of at most MaxPixels elements of S.
Images(S) == UNION {[1..n -> S] : n \in 0..MaxPixels}

\* CHANNEL_INDEX_TABLE: where a pixel of an array has its channels.  Callers set
\* one of the four orders of the enumeration: what get_channel_indices and the
\* index into PACK_OPS_TABLE do with another number is left out.
Channel ==
  [RGBA |-> [r |-> 1, g |-> 2, b |-> 3, a |-> 4],
   ARGB |-> [r |-> 2, g |-> 3, b |-> 4, a |-> 1],
   BGRA |-> [r |-> 3, g |-> 2, b |-> 1, a |-> 4],
   ABGR |-> [r |-> 4, g |-> 3, b |-> 2, a |-> 1]]

\* Mutant: the shifts of pack_argb_le and pack_abgr_le are confused.
PackConfused(o, r, g, b, a) ==
  CASE o = "RGBA" -> <<r, g, b, a>>
    [] o = "ARGB" -> <<a, b, g, r>>
    [] o = "BGRA" -> <<b, g, r, a>>
    [] o = "ABGR" -> <<a, r, g, b>>

\* PACK_OPS_TABLE: the shift by 8 * i puts a channel into byte i + 1.
Pack(o, r, g, b, a) ==
  CASE o = "RGBA" -> <<r, g, b, a>>
    [] o = "ARGB" -> <<a, r, g, b>>
    [] o = "BGRA" -> <<b, g, r, a>>
    [] o = "ABGR" -> <<a, b, g, r>>

\* pack_pixels, for one pixel p.
PackPixel(o, p) ==
  LET c == Channel[o] IN Pack(o, p[c.r], p[c.g], p[c.b], p[c.a])

\* endian_swap, which is what to_little_endian does.
Swap(w) == <<w[4], w[3], w[2], w[1]>>

\* The two conversion loops.
Packed(o, img) == [i \in DOMAIN img |-> PackPixel(o, img[i])]
Swapped(img) == [i \in DOMAIN img |-> Swap(img[i])]

Init ==
  /\ order = "RGBA" /\ area = 0 /\ buffer = {} /\ shown = <<>>
  /\ array = [call |-> "none", px |-> <<>>]

\* The caller assigns the attributes.
SetAttributes ==
  /\ order' \in Orders /\ area' \in 0..MaxPixels
  /\ UNCHANGED <<buffer, array, shown>>

SetBufferU8(img) ==
  /\ buffer' = {Packed(order, img)}
  /\ array' = [call |-> "u8", px |-> img]
  /\ UNCHANGED <<order, area, shown>>

\* set_buffer_u32 with ENDIAN_BIG: the loop converts every word.
SetBufferBig(img) ==
  /\ buffer' = {Swapped(img)}
  /\ array' = [call |-> "big", px |-> img]
  /\ UNCHANGED <<order, area, shown>>

\* set_buffer_u32 with ENDIAN_LITTLE, which is HOST_ENDIAN: the loop is
\* skipped and the new buffer holds what memalign found.
SetBufferLittle(img) ==
  /\ \E w \in [DOMAIN img -> Junk] : buffer' = {w}
  /\ array' = [call |-> "little", px |-> img]
  /\ UNCHANGED <<order, area, shown>>

\* The object is no array of numbers, its shape or item size is another, or
\* memalign fails: the command keeps the buffer that it had.
SetBufferFails == UNCHANGED vars

\* Mutant: the loop reads one word too many.
DrawTooMany ==
  /\ \E w \in buffer, s \in [1..(area + 1) -> Junk] :
       shown' = [i \in 1..(area + 1) |-> IF i \in DOMAIN w THEN w[i] ELSE s[i]]
  /\ UNCHANGED <<order, area, buffer, array>>

\* fb_draw_image reads width * height words; behind the end of the buffer it
\* finds junk.  Without a buffer it returns and nothing changes.
Draw ==
  /\ \E w \in buffer, s \in [1..area -> Junk] :
       shown' = [i \in 1..area |-> IF i \in DOMAIN w THEN w[i] ELSE s[i]]
  /\ UNCHANGED <<order, area, buffer, array>>

Next ==
  \/ SetAttributes \/ SetBufferFails \/ Draw
  \/ \E img \in Images(Pixels) :
       SetBufferU8(img) \/ SetBufferBig(img) \/ SetBufferLittle(img)

Spec == Init /\ [][Next]_vars

-----------------------------------------------------------------------------

Words == Pixels \union Junk \union {Swap(p) : p \in Pixels}

\* Every variable has its type; in particular a draw reads no more words
\* than the command's width and height ask for.
TypeOK ==
  /\ order \in Orders /\ area \in 0..MaxPixels
  /\ buffer \subseteq Images(Words)
  /\ array \in [call : {"none", "u8", "big", "little"}, px : Images(Pixels)]
  /\ shown \in Images(Words)

\* The words that an array is to put on the screen.
Meant(a) == IF a.call = "big" THEN Swapped(a.px) ELSE a.px

\* A draw of an image no larger than the array puts the array's words on the
\* screen, when the array came by one of Calls.
DrawOf(Calls) ==
  Draw /\ array.call \in Calls /\ area <= Len(array.px)
    => shown' = [i \in 1..area |-> Meant(array)[i]]

\* Whatever the order and whatever the caller changes or fails to set between
\* the conversion and the draw, a byte array reaches the screen byte for byte
\* (so each packing function undoes its row of the index table), and a
\* big-endian one with the bytes of each word turned round.
DrawShowsArray == [][DrawOf({"u8", "big"})]_vars

\* An array in the host's own order needs no conversion and reaches the screen
\* as it is: the loop is to "Convert endianness to little endian".
DrawShowsNativeArray == [][DrawOf({"little"})]_vars
=============================================================================
