------------------------------ MODULE Simg2img ------------------------------
(***************************************************************************)
(* The reader of sparse images, ext4_utils/simg2img.c: it copies raw       *)
(* chunks, seeks over the others, sets the size of the result at the end   *)
(* and only then compares the block count and the crc with the header.     *)
(*                                                                         *)
(* The input is a header and a sequence of chunks, as OutputFile writes    *)
(* them; bytes and crcs are represented as there.                          *)
(***************************************************************************)
EXTENDS Integers, Sequences

CONSTANTS
    BlockSize,  \* blk_sz of the header
    ZeroBufs    \* what a block fresh from malloc may hold

VARIABLES
    image,    \* the input: header and chunks
    zerobuf,  \* never initialized
    i,        \* chunks read
    in_crc,   \* crc32
    total_blocks,
    img,      \* the output: the bytes written, by position
    at,       \* the position in it
    size,     \* its size, once set
    result    \* "reading", "checking", "ok", or the reason for exit(-1)

readerVars == <<image, zerobuf, i, in_crc, total_blocks, img, at, size, result>>

-----------------------------------------------------------------------------

\* zerobuf is allocated and left as it is (simg2img.c:156).
Start(input) ==
    /\ image' = input
    /\ zerobuf' \in ZeroBufs
    /\ i' = 0 /\ in_crc' = <<>> /\ total_blocks' = 0
    /\ img' = <<>> /\ at' = 0 /\ size' = 0
    /\ result' = "reading"

Chunk == image.chunks[i + 1]

More == result = "reading" /\ i < image.header.total_chunks

\* The chunk counts as read, with the file position behind it.
Advance ==
    /\ i' = i + 1
    /\ total_blocks' = total_blocks + Chunk.chunk_sz
    /\ at' = at + Chunk.chunk_sz * BlockSize
    /\ UNCHANGED <<image, zerobuf, size, result>>

RawSizeMatches == Chunk.total_sz = Chunk.chunk_sz * BlockSize

process_raw_chunk ==
    /\ More /\ i < Len(image.chunks)
    /\ Chunk.type = "raw" /\ RawSizeMatches
    /\ in_crc' = in_crc \o Chunk.data
    /\ img' = [u \in DOMAIN img \cup at .. (at + Len(Chunk.data) - 1) |->
                 IF u < at THEN img[u] ELSE Chunk.data[u - at + 1]]
    /\ Advance

\* n blocks of the buffer that the crc of a gap is computed over.
GapBytes(n) == [k \in 1 .. (n * BlockSize) |-> zerobuf[((k - 1) % BlockSize) + 1]]

process_skip_chunk ==
    /\ More /\ i < Len(image.chunks)
    /\ Chunk.type = "dont_care" /\ Chunk.total_sz = 0
    /\ in_crc' = in_crc \o GapBytes(Chunk.chunk_sz)
    /\ UNCHANGED img
    /\ Advance

\* ftruncate makes the file as long as the blocks counted.
set_size ==
    /\ result = "reading" /\ i = image.header.total_chunks
    /\ size' = total_blocks * BlockSize
    /\ result' = "checking"
    /\ UNCHANGED <<image, zerobuf, i, in_crc, total_blocks, img, at>>

\* MUTANT: the crc is computed and not compared.
check_NoCrc ==
    /\ result = "checking"
    /\ result' = IF image.header.total_blks # total_blocks THEN "blocks" ELSE "ok"
    /\ UNCHANGED <<image, zerobuf, i, in_crc, total_blocks, img, at, size>>

\* The comparisons with the header; the output stays whatever they say.
check ==
    /\ result = "checking"
    /\ result' = IF image.header.total_blks # total_blocks THEN "blocks"
                 ELSE IF image.header.image_checksum # in_crc THEN "crc" ELSE "ok"
    /\ UNCHANGED <<image, zerobuf, i, in_crc, total_blocks, img, at, size>>

\* A chunk that is missing or whose sizes disagree.
reject_chunk ==
    /\ More
    /\ i < Len(image.chunks) =>
           ~(IF Chunk.type = "raw" THEN RawSizeMatches ELSE Chunk.total_sz = 0)
    /\ result' = "chunk"
    /\ UNCHANGED <<image, zerobuf, i, in_crc, total_blocks, img, at, size>>

\* The input or output fails: fread, fwrite, ftruncate.
io_failure ==
    /\ result = "reading"
    /\ result' = "io"
    /\ UNCHANGED <<image, zerobuf, i, in_crc, total_blocks, img, at, size>>

Read == process_raw_chunk \/ process_skip_chunk \/ set_size \/ check \/ reject_chunk

-----------------------------------------------------------------------------

\* A byte of the output: what was not written reads as zero.
OutByte(u) == IF u \in DOMAIN img THEN img[u] ELSE 0
=============================================================================
