------------------------------ MODULE MCAbdLru ------------------------------
(* Instances of AbdLru: one buffer of two chunks, or two buffers of one. *)
EXTENDS AbdLru, TLC

CONSTANTS c1, c2, p, r
Chunk1 == {c1}
Chunk2 == {c1, c2}
OneChunk == c1 :> p
OneBuffer == c1 :> p @@ c2 :> p
TwoBuffers == c1 :> p @@ c2 :> r

\* Folios may be exchanged, and places of the header, and two buffers of one chunk
\* each with their chunks.
BufferSymmetry ==
  Permutations(Folio) \cup Permutations(Hdr)
    \cup {p :> r @@ r :> p @@ c1 :> c2 @@ c2 :> c1}
=============================================================================
