------------------------------ MODULE Directory ------------------------------
(***************************************************************************)
(* The data of a directory, ext4_utils/contents.c: dentry_size computes how *)
(* long it will be, make_directory then lays the entries out one by one.   *)
(* The two decide separately when an entry goes to the next block.         *)
(*                                                                         *)
(* An entry is the place it starts at, its rec_len and the length of its   *)
(* name; what the name is does not matter.                                 *)
(***************************************************************************)
EXTENDS Integers, Sequences

CONSTANTS
    BlockSize,   \* info.block_size
    NameLens,    \* the lengths names may have
    MaxEntries   \* how many entries a directory may have

ASSUME DirectoryTypes ==
    /\ BlockSize \in Nat /\ BlockSize % 4 = 0 /\ BlockSize > 24
    /\ NameLens \subseteq 1 .. (BlockSize - 12) /\ MaxEntries \in Nat

VARIABLES
    names,   \* the lengths of the names in dentries, in order
    counted, \* the end of the entries as dentry_size counts it, after each of them
    len,     \* the bytes allocated
    dents,   \* the entries laid out so far
    offset,  \* the end of the last one
    i,       \* how many of names are laid out
    pc       \* "idle", "start", "adding", "done" or "internal_error"

directoryVars == <<names, counted, len, dents, offset, i, pc>>

-----------------------------------------------------------------------------

\* The bytes an entry takes: 8 + ALIGN(strlen, 4).
RecLen(n) == 8 + ((n + 3) \div 4) * 4

\* MUTANT: the space left at the end of a block is not counted.
dentry_size_NoBoundary(end, n) == end + RecLen(n)

\* One turn of the loop of dentry_size: an entry behind end.
dentry_size(end, n) ==
    IF (end % BlockSize) + RecLen(n) > BlockSize
    THEN (end \div BlockSize + 1) * BlockSize + RecLen(n)
    ELSE end + RecLen(n)

DirectoryBlocks(n) == (n + BlockSize - 1) \div BlockSize

Dent(off, rec, n) == [off |-> off, rec_len |-> rec, name_len |-> n]

\* MUTANT: the previous entry is not stretched to the end of its block.
add_dentry_NoPad(ds, off, n) ==
    LET next == (off + RecLen(n)) \div BlockSize IN
    IF off \div BlockSize = next
    THEN Append(ds, Dent(off, RecLen(n), n))
    ELSE Append(ds, Dent(next * BlockSize, RecLen(n), n))

\* MUTANT: the previous entry gets only the rest of the block.
add_dentry_PadOnly(ds, off, n) ==
    LET next == (off + RecLen(n)) \div BlockSize IN
    IF off \div BlockSize = next
    THEN Append(ds, Dent(off, RecLen(n), n))
    ELSE Append([ds EXCEPT ![Len(ds)].rec_len = next * BlockSize - off],
                Dent(next * BlockSize, RecLen(n), n))

\* MUTANT: entries are laid out without looking at the blocks.
add_dentry_AcrossBlocks(ds, off, n) == Append(ds, Dent(off, RecLen(n), n))

\* The entries ds, which end at off, and one more.  An entry that would end in
\* another block, or at the end of its own, goes to the next one, and the
\* previous entry is stretched up to there.
add_dentry(ds, off, n) ==
    LET next == (off + RecLen(n)) \div BlockSize IN
    IF off \div BlockSize = next
    THEN Append(ds, Dent(off, RecLen(n), n))
    ELSE Append([ds EXCEPT ![Len(ds)].rec_len = @ + next * BlockSize - off],
                Dent(next * BlockSize, RecLen(n), n))

EndOf(d) == d.off + d.rec_len

\* "." and ".."
DotEntries == add_dentry(add_dentry(<<>>, 0, 1), RecLen(1), 2)

DirectoryInit ==
    /\ names = <<>> /\ counted = <<24>> /\ len = 0 /\ dents = <<>> /\ offset = 0 /\ i = 0
    /\ pc = "idle"

\* The caller has the entries of a directory, the next one when one is done.
new_directory(ns) ==
    /\ pc \in {"idle", "done"}
    /\ names' = ns /\ counted' = <<24>>
    /\ len' = 0 /\ dents' = <<>> /\ offset' = 0 /\ i' = 0
    /\ pc' = "start"

\* make_directory begins with the count.
count_entry ==
    /\ pc = "start" /\ Len(counted) <= Len(names)
    /\ counted' = Append(counted, dentry_size(counted[Len(counted)], names[Len(counted)]))
    /\ UNCHANGED <<names, len, dents, offset, i, pc>>

AllCounted == Len(counted) = Len(names) + 1

make_directory ==
    /\ pc = "start" /\ AllCounted
    /\ len' = DirectoryBlocks(counted[Len(counted)]) * BlockSize
    /\ dents' = DotEntries
    /\ offset' = EndOf(DotEntries[2])
    /\ pc' = "adding"
    /\ UNCHANGED <<names, counted, i>>

\* The check comes when the entry has been written.
add_entry ==
    /\ pc = "adding" /\ i < Len(names)
    /\ dents' = add_dentry(dents, offset, names[i + 1])
    /\ offset' = EndOf(dents'[Len(dents')])
    /\ i' = i + 1
    /\ pc' = IF offset' > len \/ (offset' = len /\ i' # Len(names))
             THEN "internal_error" ELSE "adding"
    /\ UNCHANGED <<names, counted, len>>

\* The entry without a name that takes up the rest of the block.
add_last ==
    /\ pc = "adding" /\ i = Len(names)
    /\ dents' = Append(dents, Dent(offset, len - offset, 0))
    /\ pc' = "done"
    /\ UNCHANGED <<names, counted, len, offset, i>>

AnyNames == UNION {[1 .. n -> NameLens] : n \in 0 .. MaxEntries}

DirectoryNext ==
    \/ \E ns \in AnyNames : new_directory(ns)
    \/ count_entry
    \/ make_directory
    \/ add_entry
    \/ add_last

DirectorySpec == DirectoryInit /\ [][DirectoryNext]_directoryVars

-----------------------------------------------------------------------------
(* Properties                                                              *)

\* A reader that starts at the first entry and follows rec_len meets every entry
\* in order and, once the directory is done, comes out exactly at its end.  And as
\* ext4 reads block by block, no entry crosses the border of a block
\* (contents.c:54-83, 153-160).
WalkFindsEveryEntry ==
    pc \in {"adding", "done"} =>
        /\ dents[1].off = 0
        /\ \A k \in 1 .. (Len(dents) - 1) : dents[k + 1].off = EndOf(dents[k])
        /\ \A k \in 1 .. i : dents[k + 2].name_len = names[k]
        /\ pc = "done" => EndOf(dents[Len(dents)]) = len
        /\ \A k \in DOMAIN dents :
              /\ dents[k].rec_len > 0
              /\ dents[k].off \div BlockSize = (EndOf(dents[k]) - 1) \div BlockSize

\* The space that dentry_size asks for is enough, unless entries fill a block to its
\* last byte: only there do the two computations differ (contents.c:37, 55).
SpaceIsEnough ==
    /\ pc = "internal_error" => \E k \in DOMAIN counted : counted[k] % BlockSize = 0
    /\ pc \in {"adding", "done"} => offset < len

\* The entries end where dentry_size says, so the check that calls anything else an
\* "internal error" never fires (contents.c:143).
NoInternalError == pc # "internal_error"

\* Every entry is as long as ext4.h says an entry with its name is
\* (EXT4_DIR_REC_LEN, ext4.h:562), except that the one for the rest of the block may
\* have four bytes, where its header needs eight (contents.c:155).
EntriesHoldTheirNames ==
    pc = "done" =>
        \A k \in DOMAIN dents :
            \/ dents[k].rec_len >= RecLen(dents[k].name_len)
            \/ k = Len(dents) /\ dents[k].rec_len = 4
==============================================================================
