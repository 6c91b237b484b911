---------------------------- MODULE MCRattTable ----------------------------
(* RattTable for TLC: the chunks are interchangeable. *)
EXTENDS RattTable, TLC

CONSTANT Unique

ChunkSymmetry == Permutations(Chunks)
SameChunk(cell, chunk) == cell = chunk
\* One chunk that a constraint lets in once, and chunks that it ignores.
UniqueChunk(cell, chunk) == cell = chunk /\ chunk = Unique
NoFlags == {{}}
NoRealloc == {{"NRA"}}
AllFlags == {{}, {"NRA"}, {"NRU"}, {"NRA", "NRU"}}
=============================================================================
