------------------------------ MODULE MCWriter ------------------------------
(***************************************************************************)
(* What write_ext4_image relies on, for TLC, each with any caller: the     *)
(* queue, with six pieces queued in every order, two of them for the same  *)
(* block; and the writer, with blocks of two bytes, file systems of four   *)
(* blocks and of three and a half, and writes of one to three bytes        *)
(* anywhere.  MakeImage composes the two; here one of them is used while   *)
(* the other is in its initial state.                                      *)
(***************************************************************************)
EXTENDS OutputFile, BackedBlock

Piece(b, n) == [block |-> b, id |-> n]
MCPieces == {Piece(7, 1), Piece(2, 1), Piece(2, 2), Piece(0, 1), Piece(4, 1), Piece(9, 1)}
MCLengths == {7, 8}
MCModes == {"sparse"}
MCSizes == 1 .. 3

PartsInit == WriterInit /\ QueueInit

PartsNext ==
    \/ out = NewOut /\ QueueNext /\ UNCHANGED outVars
    \/ queued = {} /\ WriterNext /\ UNCHANGED queueVars

PartsSpec == PartsInit /\ [][PartsNext]_<<outVars, queueVars>>
==============================================================================
