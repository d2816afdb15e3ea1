----------------------------- MODULE MCMakeImage -----------------------------
(***************************************************************************)
(* An instance of MakeImage for TLC: blocks of two bytes, which are 1024   *)
(* or 2048 of the format's, file systems of six blocks and of six and a    *)
(* half, and pieces that fill a block, part of one, or several, up to the  *)
(* last one.                                                               *)
(***************************************************************************)
EXTENDS MakeImage

MCLengths == {12, 13}
MCModes == {"sparse", "raw", "gz"}
MCSizes == {1}
MCKilos == {1, 2}
Piece(b, n, f) == [block |-> b, size |-> n, file |-> f]
MCPieces == {Piece(2, 1, TRUE), Piece(3, 3, FALSE), Piece(3, 2, TRUE),
             Piece(4, 1, FALSE), Piece(4, 4, TRUE), Piece(5, 1, TRUE),
             Piece(5, 2, FALSE)}
AnyZeroBuf == {<<0, 0>>, <<0, -2>>}
==============================================================================
