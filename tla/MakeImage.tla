------------------------------ MODULE MakeImage ------------------------------
(***************************************************************************)
(* From the queue of data to the image and back: pieces are queued in the  *)
(* order the tree is built (backed_block.c), write_ext4_image              *)
(* (ext4_utils.c) writes the superblock, the group descriptors and the     *)
(* queue through the writer (output_file.c), and simg2img may be run on    *)
(* what is then there, after a run that was cut short and on a file that   *)
(* was damaged too.                                                        *)
(***************************************************************************)
EXTENDS OutputFile, BackedBlock

CONSTANTS
    ZeroBufs,     \* see Simg2img
    DescBlocks,   \* aux_info.bg_desc_blocks
    Kilos         \* how many bytes the 1024 bytes of the format may stand for

ASSUME ImageConstants ==
    /\ DescBlocks \in Nat \ {0}
    /\ ZeroBufs \subseteq [1 .. BlockSize -> Int] /\ ZeroBufs # {}
    /\ Kilos \subseteq 1 .. BlockSize
    /\ Pieces \subseteq [block : Nat, size : Nat \ {0}, file : BOOLEAN]

\* The block size is 1024 or a larger power of two, and the file system holds its
\* first superblock and descriptors (see GeometryHolds in FsLayout).
ASSUME HeadFits ==
    \A n \in Lengths, m \in Kilos :
        /\ m = BlockSize \/ 2 * m <= BlockSize
        /\ ((IF m < BlockSize THEN 1 ELSE 2) + DescBlocks) * BlockSize <= n

VARIABLES
    image, zerobuf, i, in_crc, total_blocks, img, at, size, result,  \* the reader
    kilo,        \* 1024 bytes; info.block_size is 1024 when it is BlockSize
    phase,       \* what write_ext4_image does next
    k,           \* for_each_data_block is at data_blocks[k]
    last_block,  \* its last_block
    damaged      \* the sparse image was changed after it was written

readerVars == <<image, zerobuf, i, in_crc, total_blocks, img, at, size, result>>
stepVars   == <<kilo, phase, k, last_block, damaged>>
vars == <<queueVars, outVars, readerVars, stepVars>>

Reader == INSTANCE Simg2img

-----------------------------------------------------------------------------
(* The layout                                                              *)

Blocks(n) == (n + BlockSize - 1) \div BlockSize  \* DIV_ROUND_UP

first_data_block == IF BlockSize > kilo THEN 0 ELSE 1

DescStart == (first_data_block + 1) * BlockSize

PieceStart(p)  == p.block * BlockSize
PieceBlocks(p) == p.block .. (p.block + Blocks(p.size) - 1)

\* What the block allocator promises its callers: a piece gets blocks of its
\* own, behind the descriptors and within the file system.
Allocated(p) ==
    /\ p.block >= first_data_block + 1 + DescBlocks
    /\ p.block + Blocks(p.size) <= len \div BlockSize
    /\ \A q \in queued : PieceBlocks(p) \cap PieceBlocks(q) = {}

\* The bytes of the image that hold something; the others are zero.
Holds(u) ==
    \/ u \in kilo .. (2 * kilo - 1)
    \/ u \in DescStart .. (DescStart + DescBlocks * BlockSize - 1)
    \/ \E p \in queued : u \in PieceStart(p) .. (PieceStart(p) + p.size - 1)

Expected(u) == IF Holds(u) THEN u + 1 ELSE 0

-----------------------------------------------------------------------------
(* write_ext4_image                                                        *)

Init ==
    /\ QueueInit
    /\ WriterInit
    /\ image = <<>> /\ zerobuf = <<>> /\ i = 0 /\ in_crc = <<>> /\ total_blocks = 0
    /\ img = <<>> /\ at = 0 /\ size = 0 /\ result = "none"
    /\ kilo \in Kilos
    /\ phase = "queue" /\ k = 1 /\ last_block = 0
    /\ damaged = FALSE

\* Building the tree queues data; that is over when the image is opened.
queue_piece(p) ==
    /\ phase = "queue" /\ p \notin queued /\ Allocated(p)
    /\ queue_data(p)
    /\ UNCHANGED <<len, mode, force, out, readerVars, stepVars>>

open_image(io) ==
    /\ phase = "queue"
    /\ open_output_file(io)
    /\ phase' = IF out'.state = "open" THEN "super" ELSE "done"
    /\ UNCHANGED <<queueVars, readerVars, kilo, k, last_block, damaged>>

Step(from, to) ==
    /\ phase = from /\ ~out.exited
    /\ phase' = to
    /\ UNCHANGED <<queueVars, readerVars, kilo, damaged>>

\* The superblock is 1024 bytes behind the start; in a larger block the rest is
\* zero.
write_super_block(io) ==
    /\ Step("super", "desc")
    /\ IF BlockSize > kilo
       THEN write_data_block(0,
                [j \in 1 .. BlockSize |-> IF j \in (kilo + 1) .. (2 * kilo) THEN j ELSE 0],
                io)
       ELSE write_data_block(kilo, DataFor(kilo, kilo), io)
    /\ UNCHANGED <<k, last_block>>

write_group_descriptors(io) ==
    /\ Step("desc", "blocks")
    /\ write_data_block(DescStart, DataFor(DescStart, DescBlocks * BlockSize), io)
    /\ UNCHANGED <<k, last_block>>

\* One turn of for_each_data_block.
write_queued(io) ==
    LET d == data_blocks[k]
        checked == IF d.block < last_block THEN Error(out, "order") ELSE out
        data == DataFor(PieceStart(d), d.size)
    IN  /\ k <= Len(data_blocks)
        /\ Step("blocks", "blocks")
        /\ k' = k + 1
        /\ last_block' = d.block + Blocks(d.size) - 1
        /\ out' = IF checked.exited THEN checked
                  ELSE IF d.file THEN WriteFile(checked, PieceStart(d), data, io)
                  ELSE WriteBlock(checked, PieceStart(d), data, io)
        /\ UNCHANGED <<len, mode, force>>

pad(io) ==
    /\ k > Len(data_blocks)
    /\ Step("blocks", "close")
    /\ pad_output_file(len, io)
    /\ UNCHANGED <<k, last_block>>

close(io) ==
    /\ Step("close", "done")
    /\ close_output_file(io)
    /\ UNCHANGED <<k, last_block>>

\* The program is killed while it writes.
killed ==
    /\ phase \in {"super", "desc", "blocks", "close"} /\ ~out.exited
    /\ phase' = "killed"
    /\ UNCHANGED <<queueVars, len, mode, force, out, readerVars, kilo, k, last_block, damaged>>

-----------------------------------------------------------------------------
(* simg2img                                                                *)

\* The image is written, and nothing failed.
Done == phase = "done" /\ out.error = "none" /\ ~out.exited

\* A file to read: its header is there, and its chunks are known unless the
\* header still says that there are none.
Readable ==
    /\ mode = "sparse" /\ (out.exited \/ phase \in {"killed", "done"})
    /\ \/ out.state = "closed" /\ ~out.write_failed
       \/ out.state = "open"

Input == [header |-> out.header, chunks |-> out.chunks]

\* The ways the image may change between the two programs: the end is cut off,
\* a byte of data or a size differs.
Damages(input) ==
    LET c == input.chunks IN
    {[input EXCEPT !.chunks = SubSeq(c, 1, n)] : n \in 0 .. (Len(c) - 1)}
    \cup {[input EXCEPT !.chunks[n].data[1] = -1] :
              n \in {m \in DOMAIN c : c[m].type = "raw"}}
    \cup {[input EXCEPT !.chunks[n].chunk_sz = @ + 1] : n \in DOMAIN c}
    \cup {[input EXCEPT !.chunks[n].total_sz = @ + 1] : n \in DOMAIN c}

convert ==
    /\ result = "none" /\ Readable
    /\ \/ Reader!Start(Input) /\ damaged' = FALSE
       \/ /\ Done
          /\ \E input \in Damages(Input) : Reader!Start(input)
          /\ damaged' = TRUE
    /\ UNCHANGED <<queueVars, len, mode, force, out, kilo, phase, k, last_block>>

read ==
    /\ Reader!Read \/ Reader!io_failure
    /\ UNCHANGED <<queueVars, len, mode, force, out, stepVars>>

Next ==
    \/ \E p \in Pieces : queue_piece(p)
    \/ \E io \in IoResults :
          \/ open_image(io)
          \/ write_super_block(io)
          \/ write_group_descriptors(io)
          \/ write_queued(io)
          \/ pad(io)
          \/ close(io)
    \/ killed
    \/ convert
    \/ read

Spec == Init /\ [][Next]_vars

-----------------------------------------------------------------------------
(* Properties                                                              *)

ByteOfRaw(u) == IF u \in DOMAIN out.raw THEN out.raw[u] ELSE 0

\* A run that reports no error has written the image: every byte of every
\* piece, the superblock and the descriptors in their place, zeroes elsewhere,
\* and the whole length; without chunks the last byte is zero whatever belongs
\* there (output_file.c:347).  Excepted is the failure that no error is reported
\* for: that of the last call, close or gzclose (output_file.c:85-88, 124-127).
ImageExact ==
    Done /\ ~out.lost =>
        IF mode = "sparse"
        THEN /\ Expanded(out.chunks) = [u \in 1 .. len |-> Expected(u - 1)]
             /\ out.header = [total_blks |-> len \div BlockSize,
                              total_chunks |-> Len(out.chunks),
                              image_checksum |-> Expanded(out.chunks)]
        ELSE /\ \A u \in 0 .. (len - 2) : ByteOfRaw(u) = Expected(u)
             /\ \A u \in DOMAIN out.raw : u < len
             /\ len - 1 \in DOMAIN out.raw /\ out.raw[len - 1] = 0

\* A run in which no call of the system fails reports an error only when a file's
\* piece reaches the end, when a sparse image is to have a length that is not a
\* multiple of the block size, or when a compressed one is full up to its last
\* byte: the queue is in order, so nothing is ever behind the writer.
OnlyKnownErrors ==
    LET atEnd(p) == PieceStart(p) + p.size = len IN
    /\ out.error = "past_end" => \E p \in queued : p.file /\ atEnd(p)
    /\ out.error = "dont_care_size" => len % BlockSize # 0
    /\ out.error = "seek_back" => Holds(len - 1)
    /\ out.error \notin {"behind", "unaligned", "accounting", "order", "pad_past_end",
                         "pad_behind"}

\* simg2img accepts an image only if its result is the file system, whole: not
\* what a killed or failed make_ext4fs left, nor a damaged file (simg2img.c:176,
\* 185, 212, 218).
AcceptedIsExact ==
    result = "ok" /\ ~force =>
        /\ Done /\ size = len
        /\ \A u \in 0 .. (len - 1) : Reader!OutByte(u) = Expected(u)

\* It rejects no image that was written without an error and is unchanged, if
\* the block from malloc happens to be zero.
RejectsOnlyBadImages ==
    Done /\ ~damaged /\ (\A j \in DOMAIN zerobuf : zerobuf[j] = 0)
        => result \notin {"blocks", "crc", "chunk"}

\* The checksum is the "CRC32 checksum of the original data, counting "don't
\* care" as 0" (sparse_format.h:26): an image written without an error and
\* unchanged has the one simg2img computes.
ChecksumCountsZeroes == Done /\ ~damaged => result # "crc"
==============================================================================
