----------------------------- MODULE OutputFile -----------------------------
(***************************************************************************)
(* The writer of image files, ext4_utils/output_file.c: the sparse format  *)
(* (a header, then chunks in ascending order), or a raw file, plain or     *)
(* compressed.                                                             *)
(*                                                                         *)
(* A byte of data is the number, from 1, of the place in the file system   *)
(* it is meant for, 0 is a zero byte.  A crc is the sequence of bytes it   *)
(* was computed over: two of them differ when the crcs should.             *)
(***************************************************************************)
EXTENDS Integers, Sequences, SequencesExt

CONSTANTS
    BlockSize,  \* info.block_size
    Lengths,    \* what info.len may be
    Modes,      \* the kinds of file: "sparse", "raw", "gz"
    Sizes       \* the sizes of the writes, where the callers are left open

ASSUME SizeTypes ==
    /\ BlockSize \in Nat \ {0}
    /\ Lengths \subseteq Nat \ {0}
    /\ Modes \subseteq {"sparse", "raw", "gz"}
    /\ Sizes \subseteq Nat \ {0}

VARIABLES
    len,    \* info.len
    mode,   \* "sparse", "raw" or "gz"
    force,  \* error() reports and carries on
    out     \* struct output_file, with the file it writes

outVars == <<len, mode, force, out>>

-----------------------------------------------------------------------------
(* Chunks and the primitives                                               *)

Zeros(n)  == [i \in 1 .. n |-> 0]
RoundUp(n) == ((n + BlockSize - 1) \div BlockSize) * BlockSize

\* total_sz leaves out the constant size of the chunk header.
SkipChunk(n) == [type |-> "dont_care", chunk_sz |-> n \div BlockSize,
                 total_sz |-> 0, data |-> <<>>]
RawChunk(data) == [type |-> "raw", chunk_sz |-> Len(data) \div BlockSize,
                   total_sz |-> Len(data), data |-> data]

\* What a chunk stands for, in bytes.
ChunkBytes(c) == IF c.type = "raw" THEN c.data ELSE Zeros(c.chunk_sz * BlockSize)

Expanded(chunks) == FlattenSeq([i \in DOMAIN chunks |-> ChunkBytes(chunks[i])])

NewOut ==
    [state |-> "none", cur_out_ptr |-> 0, chunk_cnt |-> 0, crc32 |-> <<>>,
     chunks |-> <<>>,
     header |-> [total_blks |-> 0, total_chunks |-> 0, image_checksum |-> <<>>],
     raw |-> <<>>, pos |-> 0, lost |-> FALSE,
     error |-> "none", write_failed |-> FALSE, exited |-> FALSE]

\* The error macro of ext4_utils.h; the first error is remembered.
Error(o, e) == [o EXCEPT !.error = IF @ = "none" THEN e ELSE @, !.exited = ~force]

\* file_write, gz_file_write: a failing or short write reports itself; what
\* the file then holds is unknown.
WriteError(o) == [Error(o, "write") EXCEPT !.write_failed = TRUE]

-----------------------------------------------------------------------------
(* Writing                                                                 *)

\* MUTANT: the crc is not computed over the gap.
emit_skip_chunk_NoCrc(o, skip_len, io) ==
    IF skip_len % BlockSize # 0 THEN Error(o, "dont_care_size")
    ELSE IF io = "skip" THEN WriteError(o)
    ELSE [o EXCEPT !.chunks = Append(@, SkipChunk(skip_len)),
                   !.cur_out_ptr = @ + skip_len,
                   !.chunk_cnt = @ + 1]

\* MUTANT: the pointer stays before the gap.
emit_skip_chunk_NotAdvanced(o, skip_len, io) ==
    IF skip_len % BlockSize # 0 THEN Error(o, "dont_care_size")
    ELSE IF io = "skip" THEN WriteError(o)
    ELSE [o EXCEPT !.chunks = Append(@, SkipChunk(skip_len)),
                   !.chunk_cnt = @ + 1,
                   !.crc32 = @ \o Zeros(skip_len)]

\* io names the write that fails, if any.
emit_skip_chunk(o, skip_len, io) ==
    IF skip_len % BlockSize # 0 THEN Error(o, "dont_care_size")
    ELSE IF io = "skip" THEN WriteError(o)
    ELSE [o EXCEPT !.chunks = Append(@, SkipChunk(skip_len)),
                   !.cur_out_ptr = @ + skip_len,
                   !.chunk_cnt = @ + 1,
                   !.crc32 = @ \o Zeros(skip_len)]

\* MUTANT: the last block of the data is not filled up.
RawData_NotFilled(data) == data

\* The data, rounded up to whole blocks with zeroes.
RawData(data) == data \o Zeros(RoundUp(Len(data)) - Len(data))

\* The end of write_chunk_raw, from "Finally we can safely emit".
EmitRawChunk(o, data, io) ==
    IF io \in {"chunk", "data"} \/ (io = "fill" /\ Len(data) % BlockSize # 0)
    THEN WriteError(o)
    ELSE [o EXCEPT !.chunks = Append(@, RawChunk(RawData(data))),
                   !.crc32 = @ \o RawData(data),
                   !.cur_out_ptr = @ + RoundUp(Len(data)),
                   !.chunk_cnt = @ + 1]

\* The result of emit_skip_chunk is not looked at: what stops the write after
\* it failed is the check of the offset.
write_chunk_raw(o, off, data, io) ==
    LET g == IF off > o.cur_out_ptr
             THEN emit_skip_chunk(o, off - o.cur_out_ptr, io) ELSE o
    IN  IF off < o.cur_out_ptr THEN Error(o, "behind")
        ELSE IF g.exited THEN g
        ELSE IF off % BlockSize # 0 THEN Error(g, "unaligned")
        ELSE IF off # g.cur_out_ptr THEN Error(g, "accounting")
        ELSE EmitRawChunk(g, data, io)

\* Seek (file_seek, gz_file_seek) and write, in the modes without chunks.  zlib
\* refuses to seek backwards in a file it writes.
WriteAt(o, off, data, io) ==
    IF mode = "gz" /\ off < o.pos THEN Error(o, "seek_back")
    ELSE IF io = "seek" THEN Error(o, "seek")
    ELSE IF io = "data" THEN WriteError(o)
    ELSE LET here == off .. (off + Len(data) - 1) IN
         [o EXCEPT !.pos = off + Len(data),
                   !.raw = [u \in DOMAIN o.raw \cup here |->
                              IF u \in here THEN data[u - off + 1] ELSE o.raw[u]]]

\* Both ends of write_data_block and write_data_file.
WriteData(o, off, data, io) ==
    IF mode = "sparse" THEN write_chunk_raw(o, off, data, io)
                       ELSE WriteAt(o, off, data, io)

\* write_data_block
WriteBlock(o, off, data, io) ==
    IF off + Len(data) > len THEN Error(o, "past_end")
    ELSE WriteData(o, off, data, io)

\* write_data_file.  "file": the source file cannot be opened or mapped.
WriteFile(o, off, data, io) ==
    IF off + Len(data) >= len THEN Error(o, "past_end")
    ELSE IF io = "file" THEN Error(o, "file")
    ELSE WriteData(o, off, data, io)

\* MUTANT: the file is padded one block short.
Pad_Short(o, n, io) ==
    IF n > len THEN Error(o, "pad_past_end")
    ELSE IF mode = "sparse" /\ n < o.cur_out_ptr THEN Error(o, "pad_behind")
    ELSE IF mode = "sparse" /\ n - BlockSize > o.cur_out_ptr
    THEN emit_skip_chunk(o, n - BlockSize - o.cur_out_ptr, io)
    ELSE IF mode = "sparse" THEN o
    ELSE WriteAt(o, n - 1, <<0>>, io)

\* Without chunks the last byte becomes zero whatever it held.
Pad(o, n, io) ==
    IF n > len THEN Error(o, "pad_past_end")
    ELSE IF mode = "sparse" /\ n < o.cur_out_ptr THEN Error(o, "pad_behind")
    ELSE IF mode = "sparse" /\ n > o.cur_out_ptr
    THEN emit_skip_chunk(o, n - o.cur_out_ptr, io)
    ELSE IF mode = "sparse" THEN o
    ELSE WriteAt(o, n - 1, <<0>>, io)

Header(o) == [total_blks |-> len \div BlockSize, total_chunks |-> o.chunk_cnt,
              image_checksum |-> o.crc32]

\* MUTANT: the header of the finished file is the one written when it was opened.
Close_KeepsHeader(o, io) == [o EXCEPT !.state = "closed"]

\* A failing seek does not keep the header from being written, wherever the
\* file then is.
Close(o, io) ==
    LET s == IF io = "seek" THEN WriteError(Error(o, "seek")) ELSE o
    IN  IF mode # "sparse" THEN [o EXCEPT !.state = "closed"]
        ELSE IF s.exited THEN s
        ELSE IF io = "header" THEN [WriteError(o) EXCEPT !.state = "closed"]
        ELSE [s EXCEPT !.state = "closed", !.header = Header(o)]

\* Closing fails: of the data that was not on the disk yet only n bytes get there.
\* gzclose, which writes what zlib still holds, and close say so, and file_close
\* and gz_file_close do not look.  The chunks of a sparse file are left: what a cut
\* does to them is among the damages simg2img is tried on (see MakeImage).
Lost(o, n) ==
    [o EXCEPT !.lost = TRUE,
              !.raw = IF mode = "sparse" THEN @
                      ELSE [u \in {v \in DOMAIN o.raw : v < n} |-> o.raw[u]]]

-----------------------------------------------------------------------------
(* The interface                                                           *)

IoResults == {"ok", "open", "skip", "chunk", "data", "fill", "header", "seek", "file",
              "close"}

Running == out.state = "open" /\ ~out.exited

\* The state of the writer after open_output_file returned NULL is "failed".
open_output_file(io) ==
    /\ out.state = "none"
    /\ out' = CASE io = "open" -> [Error(out, "open") EXCEPT !.state = "failed"]
                [] io = "header" /\ mode = "sparse"
                       -> [WriteError(out) EXCEPT !.state = "failed"]
                [] OTHER -> [out EXCEPT !.state = "open",
                                        !.header.total_blks = len \div BlockSize]
    /\ UNCHANGED <<len, mode, force>>

write_data_block(off, data, io) ==
    /\ Running
    /\ out' = WriteBlock(out, off, data, io)
    /\ UNCHANGED <<len, mode, force>>

write_data_file(off, data, io) ==
    /\ Running
    /\ out' = WriteFile(out, off, data, io)
    /\ UNCHANGED <<len, mode, force>>

pad_output_file(n, io) ==
    /\ Running
    /\ out' = Pad(out, n, io)
    /\ UNCHANGED <<len, mode, force>>

close_output_file(io) ==
    /\ Running
    /\ IF io = "close" THEN \E n \in 0 .. len : out' = Lost(Close(out, io), n)
                       ELSE out' = Close(out, io)
    /\ UNCHANGED <<len, mode, force>>

WriterInit ==
    /\ len \in Lengths
    /\ mode \in Modes
    /\ force \in BOOLEAN
    /\ out = NewOut

DataFor(off, n) == [i \in 1 .. n |-> off + i]

\* Callers of any kind, also those that break the rules.
WriterNext ==
    \E io \in IoResults :
        \/ open_output_file(io)
        \/ \E off \in 0 .. len, n \in Sizes :
               \/ write_data_block(off, DataFor(off, n), io)
               \/ write_data_file(off, DataFor(off, n), io)
        \/ \E n \in 1 .. (len + 1) : pad_output_file(n, io)
        \/ close_output_file(io)

WriterSpec == WriterInit /\ [][WriterNext]_outVars

-----------------------------------------------------------------------------
(* Properties                                                              *)

Errors == {"dont_care_size", "write", "behind", "unaligned", "accounting", "seek", "seek_back",
           "past_end", "file", "pad_past_end", "pad_behind", "open"}

\* As long as no write to the file failed, the chunks in it are what the pointer,
\* the chunk count and the crc say, whatever the callers asked for and whichever
\* requests were refused under -f.  Every byte is written where it belongs, also
\* behind a gap and behind data that is not a multiple of the block size
\* (output_file.c:149-249).
StreamConsistent ==
    mode = "sparse" /\ ~out.write_failed =>
        /\ Expanded(out.chunks) = out.crc32
        /\ Len(out.crc32) = out.cur_out_ptr
        /\ Len(out.chunks) = out.chunk_cnt
        /\ out.cur_out_ptr % BlockSize = 0
        /\ \A i \in DOMAIN out.crc32 : out.crc32[i] \in {0, i}

\* "internal error, offset accounting screwy" (output_file.c:215) takes a failed
\* write, which is reported before: gaps otherwise lead exactly to the offset asked
\* for.
AccountingHolds == out.error # "accounting"
==============================================================================
