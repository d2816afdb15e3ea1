# android-tools: TLA+ models of the ext4 image builder and of the boot image tool

Two programs of this repository keep state and can go wrong in ways a test hardly
reaches.

* `make_ext4fs` (`src/img-db/ext4_utils`, about 3800 lines of C) lays out an ext4 file
  system in memory, queues the data that belongs on it, and writes everything in one
  pass, plain, compressed, or as an Android sparse image that `simg2img` turns back.
* `src/python/bootimg.py` takes boot images, ramdisks, splash pictures and updates apart
  and puts them together again, one command at a time, with files that one command
  leaves for the next.

The rest are shell scripts that call other programs.

## Components

Everything runs in one thread of one process; what makes the behaviour hard is not
concurrency but long chains of calls that rely on each other, limits, calls that
fail half way, and images that are cut short between two programs.

| component | code | state | operations | modelled in |
|---|---|---|---|---|
| block allocator | `allocate.c` | per block group: bitmap, free count, first-free cursor, blocks used for data | `allocate_block`, `allocate_blocks`, `reduce_allocation`, `block_allocator_init` | `Allocate`, promised by `BlockPool` |
| region lists | `allocate.c` | doubly linked lists of regions with two iterators | `get_region`, `get_block`, `reserve_oob_blocks`, `append_region`, `advance_blocks` ... | `RegionList` |
| inode allocator | `allocate.c`, `ext4_utils.c` | per group: bitmap, free inodes, first free inode, directories; the counts that are written | `reserve_inodes`, `allocate_inode`, `get_inode`, `add_directory`, `ext4_update_free` | `Inodes` |
| queue of data | `backed_block.c` | singly linked list, last insertion | `queue_data_block`, `queue_data_file`, `for_each_data_block` | `BackedBlock` |
| image writer | `output_file.c` | position, chunk and block counts, crc, the file | `open_output_file`, `write_data_block`, `write_data_file`, `pad_output_file`, `close_output_file` | `OutputFile` |
| sparse image reader | `simg2img.c` | position, counts, crc, the file | `main`, `process_raw_chunk`, `process_skip_chunk` | `Simg2img` |
| image writing | `ext4_utils.c` | where in the sequence | `write_ext4_image` | `MakeImage` |
| directory data | `contents.c` | the entries placed so far | `dentry_size`, `add_dentry`, `make_directory` | `Directory` |
| contents of inodes | `contents.c`, `make_ext4fs.c` | inodes, link counts, the recursion over the source tree | `make_directory`, `make_file`, `make_link`, `build_directory_structure` | `Tree` |
| extent maps | `extent.c` | extent headers and entries | `inode_allocate_extents` | `Extent` |
| indirect maps, resize inode | `indirect.c` | block pointers | `inode_allocate_indirect`, `inode_allocate_data_indirect`, `inode_attach_resize` | `Indirect`; the resize inode in `FsLayout` |
| layout | `ext4_utils.c`, `make_ext4fs.c` | `info`, `aux_info`, superblock, descriptors | `ext4_create_fs_aux_info`, `ext4_fill_in_sb` | `FsLayout`, partly |
| boot image tool | `bootimg.py` | the files in the working directory, between two commands | `unpack_*` and `repack_*` of boot images, ramdisks, pictures, `UPDATA.APP` and yaffs2 images | `WorkDir`, `BootImage`, `Ramdisk`, `Splash`, `Updata`, `Yaffs2`, `BootTool`; all but `--cpio-list` |
| option parsing | `make_ext4fs_main.c` | | | options are initial values of `force`, `mode`, `len` |
| crc, sha1, uuid | vendored functions without state | | | not modelled |
| shell scripts | `src/patch-rom`, `src/*.sh` | none of their own | | not modelled |

How they interact: the recursion over the source tree asks the inode allocator for
inodes, lays directories out before their entries have inodes, and stores each number
afterwards through a pointer into data that is queued already. The contents of inodes ask
the block allocator for blocks (through an extent or indirect map) and hand their data with
a block number to the queue. When the tree is built, the counts of both allocators go to
descriptors and superblock, and `write_ext4_image` writes these and then the queue, in the
queue's order, through the image writer. The writer never goes back, so its
correctness rests on the queue's order, which rests on the allocator giving no block
twice. `simg2img` sees only the file. The commands of `bootimg.py` see only the files
that earlier commands, or the user, left in the directory.

What has to hold, component by component:

* allocator: no block has two holders or is metadata; the counts that go to the
  superblock are those of the bitmaps that go to the image; the caller gets as many
  blocks as it asked for; a request ends;
* queue: ascending, complete, and its shortcut (the search from the last insertion)
  changes neither;
* writer: the chunks say the same as the pointer, the counts and the crc, whatever
  mixture of gaps, whole and partial blocks; each byte ends up in its place;
* reader: it accepts an image only if what it wrote is the file system, and does not
  refuse a good one;
* extents: each block of a file is mapped once, the data lies where the map says, and
  no block is both data and map;
* layout: no two structures share a block, and descriptors and structures agree;
* directories: whoever follows `rec_len` finds all entries, and the space
  computed beforehand is the space used;
* inodes: none is given out twice, bitmaps and counts agree with each other and with what
  is in the tree;
* tree: what was built is the source, with `..` and link counts right and no number stored
  in a wrong entry;
* indirect maps: as many pointer blocks are taken as were counted, each in front of what it
  maps;
* boot tool: the parser finds what the writer wrote, from images that do not say where
  the parts are; what is taken apart and put together again is the same, whatever lay in the
  directory before.

The hazards, each at its line, are in `PROJECT.json`.

## Modules

### Allocate, BlockPool, AllocateProofs, MCAllocate

`Allocate` models `allocate.c:156-296`, `311-480` and `583-607`. A group's bitmap is the set
of the offsets whose bit is set. `reserve_blocks` is translated with its three loops
(bits up to a byte boundary, bytes, bits) as `HeadBits`, `WholeBytes` and `MarkedBits`,
since a wrong boundary there marks other blocks than were counted. `init_bg` reserves the
headers and, with the unsigned 32-bit difference of the code (`U32Sub`), the blocks past
the end. `allocate_block`, `allocate_contiguous`, and the multi-group loop
(`allocate_multiple`, then `partial_take_group`, `partial_take_rest` or `partial_fail` once per
turn of the loop in `ext4_allocate_blocks`) are the actions; the loop is not atomic, which
lets TLC see it not end. `reduce_allocation` returns one block of the *first* region,
because `list.last` is never moved by `allocate_blocks`; its guard (right after an
allocation of at most three regions) is what `extent.c:93-96`, the only caller, does.
A failed split leaves its blocks reserved without an owner: they go to `lost`. With `-f`
(`force`) the process carries on, otherwise it has exited (`nospace`).

`data_blocks_used` is kept as "is not 0", the only thing asked of it. The branch of
`reserve_blocks` for a bit that is set already is not modelled; the theorem `NeverClashes`
shows it cannot be taken.

`BlockPool` is the abstract specification: blocks are free, in the newest allocation,
kept or lost, and only blocks of the newest allocation come back.

### Inodes, Numbers

`Inodes` is the other half of `allocate.c`: bitmap, free count, first free inode and
directories of each group, one action per function, with the callers' side (`given`, `dirs`)
left open, so that it is also the abstract specification of its callers. `get_inode` queues
the table of a group the first time it is asked for one of its inodes. `ext4_update_free` sums
the counts up for descriptors and superblock.

### Directory, DirectoryProofs, MCDirectory

`dentry_size` first computes the space, one entry per step, with its results kept in
`counted`; then `add_dentry` places the entries, the check of `make_directory` behind each of
them, and the rest of the last block is filled. That the two functions decide
separately when an entry goes to the next block is what the properties are about.

### Tree, MirrorProofs, MCTree

`Tree` composes `Inodes` and `Directory`: the calls of `make_ext4fs`, `build_directory_structure`,
`make_directory`, `make_file` and `make_link` are the steps, and the frames of the recursion are `stack`. A node
of the source knows its parent and, in the order of the directory, its `kids`; that the two fit is the
assumption `TreesAreTrees`. An inode on the `disk` has a type, links, a mode and entries; modes are the node
they were taken from, so that a mode on a wrong inode is seen. An entry of the source that is neither directory,
file nor link is refused when its turn comes, any call may fail, and inodes may run out; then the program exits.
Links are counted modulo `U16`, as `i_links_count` has 16 bits. The inode calls implement `InodesSpec`, where
callers may do anything that the allocator expects of them (a `PROPERTY` of the run, and the theorem
`TreeUsesAllocator`).

### BackedBlock, ImageProofs, MCWriter

The list is a sequence; `last_used` is an index into it (0 before the first insertion).
`queue_data` is one insertion, with its three cases: in front, behind the last
insertion when it is not above the new block, from the start otherwise.
`MCWriter` runs the queue and the writer each under any caller, beside each other.

### OutputFile, ImageProofs, MCWriter

A byte at position `p` that is not zero is the number `p + 1`, so a byte in a wrong place
is seen; the crc of a stream is the stream (a crc without collisions). A write
carries the outcome of the first failing system call (`io`), and the record `out` holds
the file as the code leaves it, with the first error reported. `error` exits unless
`-f` was given, in which case the code's error paths run on, and so do the model's. The last call, `close` or
`gzclose`, may fail too, but its result is dropped: what was not on the disk yet is lost without an
error (`Lost`), and `lost` remembers it for the property that excepts it.
In a raw file the map of written positions stands for the file.

### Simg2img, MakeImage, ImageProofs, MCMakeImage

`MakeImage` extends the queue and the writer and has the reader as an instance; the order of the steps is
that of `write_ext4_image`. Pieces are queued in any order (with the
allocator's promise as the guard `Allocated`), the image is opened, superblock, group
descriptors, the queue, the padding and the final header are written, any call may
fail, the process may be killed between two of them, and `simg2img` reads what is there, whole
or damaged (cut off, a byte changed, a size changed). `kilo` says how many bytes
stand for 1024, so that both layouts of the superblock occur; `HeadFits` says what the layout guarantees
(`GeometryHolds`): a block is 1024 bytes or at least twice as many, and superblock and descriptors are inside the file
system.


### RegionList, Extent, Indirect, ExtentProofs, MCIndirect

`RegionList` has the lists of an allocation as they are in memory: `mem` is what malloc returned so far,
pointers are indices of it. The operators change the fields the code changes and no others, so that stale `prev`
and `last` pointers are in the model. `Extent` is `extent.c` on top of it: it takes an allocation of any shape
the allocator may return (`LayoutsAreAllocations`), decides whether the extents fit the inode, refuses those
that are more than the limit of `extent.c:128` (`TooMany`), gives a block back or makes it the leaf, writes the
extents one per step, and queues the data one region per step. That limit is not what a leaf holds: when the
leaf is full (`LeafFull`) the loop goes on behind its block (`overrun_leaf`), and since nobody knows what it
overwrites, the model ends there. The properties compare three independent things: the allocation, the map, and
the queue.

`Indirect` adds the other kind of map to the same module, as an inode has one or the other:
`indirect_blocks_needed`, the reservation of pointer blocks out of the allocation while it is
walked, one `reserve_block` per pointer block, and the attaching, one pointer block per step, for
all three levels; and `inode_allocate_data_indirect`, which the program uses for long
symbolic links. The capacity of a triply indirect block is squared as `ext4_utils.c:122` squares it.

What `LayoutsAreAllocations` says of regions that are not the last (more than one block) is needed:
a first region of one block would be split at its end, and the wrong regions would become out-of-band.
The theorem `SplitRegionsAreLong` says that the block allocator never returns such a region.

### FsLayout, FsLayoutProofs, MCFsLayout

The parameters (`ext4_create_fs_aux_info`), then the loops over the groups, one group per step: the
bitmaps of `block_allocator_init`, the superblock copies and descriptors of `ext4_fill_in_sb`, the
reserved blocks of `ext4_create_resize_inode`; then `inode_attach_resize`, one entry per step, and
the inode tables that `get_inode` queues when a group is first used. `bgs[g].used` is the bitmap as
`AllocateProofs` shows `reserve_blocks` to leave it. `GeometryHolds` is the assumption
`Geometry` of `Allocate`, as far as it does not depend on the options being sensible (a group larger than its
header). Two cases are excepted, in the code's own terms: `LastGroupMisjudged`, and `TooShort`, a device that ends
within its first header and is left without a group. When no group has a free block for the resize inode, the
allocator never returns (the first finding below), and `no_oob_block` leaves the model hanging, too.

### WorkDir, BootImage, Ramdisk, Splash, Updata, Yaffs2, BootTool, BootToolProofs, MCBootTool

`WorkDir` is the directory `bootimg.py` is run in, and what all formats share. A binary file is
its length and the pieces in it with their offsets: a reader gets a piece only if it reads
exactly where somebody wrote it, with that length, and garbage otherwise. So the arithmetic of
headers and paddings is in the model, with the sizes of the code, and the bytes are not. A content knows its
size, how many zeros it begins with (which `parse_bootimg` mistakes for padding), and whether
it begins like a gzip file.

`BootImage` writes and parses boot images, with the file names that differ on the two ways; `Ramdisk` takes cpio
archives apart into `initrd` and `cpiolist.txt`, one entry per step, and puts them together again, one line per
step. The list is text: a line is the words that `split()` makes of names, paths and targets (`split`, a
constant), so that a blank moves the words behind it, and the word that is then in the place of the mode counts
if it is an octal number (`octal`); `Splash` converts pictures, a run or a pixel per step; `Updata` reads
packets and their checksums block by block, from updates that may end anywhere; `Yaffs2` reads one chunk per
step, and any directory, file or link may fail to be created (a directory's mode, which is left out, may be the
reason), where links that fail are only `reported`. `BootTool` composes them: commands one after the other, an
exception that leaves behind what was written by then, and a user who edits or removes files in between. What
the names `initlogo.rle` and `UPDATA.APP` promise of a file, `PicturesIn`, `HeadersIn` and `PacketsIn` say;
`FilesAreGood` checks that all directories `MCBootTool` begins with keep the first two, and those with whole
updates the third.

## Runs

| run | what it shows | bounds |
|---|---|---|
| `allocate` | exact counts, each block one holder, requests satisfied in full, splits take whole groups, refinement of `BlockPool`, the loop ends | 4 groups of 32 blocks, groups 0, 1 and 3 with a superblock copy, group 2 without, group 3 short; requests of 1, 12, 26 and 40 blocks |
| `allocate_hang` | a last group that holds its header and nothing else makes the loop run for ever | 3 groups of 16, the last with 3 blocks |
| `writer` | order and completeness of the queue; chunks, counts, crc, position and bytes of the writer agree, with every failing call, with and without `-f` | 6 pieces in every order, two for one block; blocks of 2 bytes, file systems of 7 and 8 bytes, writes of 1 to 3 bytes anywhere |
| `image` | an image reported as written is exact, unless the close at the end failed; the only errors without a failing call are the known ones; `simg2img` accepts only exact images and refuses no good one | 6 or 6.5 blocks of 2 bytes; 7 pieces, some of which exclude each other; sparse, raw and compressed |
| `image_zerobuf` | a good image is refused with a crc error | as `image` |
| `files` | lists keep their blocks; extents, and pointers of small files, are what was allocated; data is queued where the map says; pointer blocks lie in front of what they map, as many as were counted | blocks of 10 bytes, entries of 2, so a leaf holds 4; every allocation of 1 to 4 regions of 1 to 3 blocks, with the last in front or behind, and of 5, 9, 10 and 11 regions, of which the first two overrun the leaf and the others are refused; files that end at a block and one byte before; 3 pointers in the inode and 2 in a block, files of 1 to 14 blocks and of the largest size, in one region or two |
| `files_connect` | the data of a long symbolic link is queued, and no pointer leads there | as `files` |
| `tree` | the tree built is the source, no inode is lost or doubled, bitmaps, counts and links agree, numbers are stored once, directories can be read and fit their space, inode calls implement `InodesSpec` | 2 groups of 4 inodes, 3 of them reserved; all trees of up to 4 nodes, flat directories of up to 5 entries with every combination of 4 name lengths in blocks of 44 bytes, trees that need one inode too many; links counted modulo 4 |
| `directory_full` | the internal error is reached | blocks of 44 bytes, up to 5 entries of 12 to 24 bytes |
| `layout` | geometry, metadata apart, descriptors right, resize inode in order and charged | block sizes 1024, 2048 and 4096; groups just larger than their headers; 1 to 4 groups with a last one of 0, 1, 2, 4, 6, 9, 40 or nearly all blocks, and one that is all header; single groups of 2 to all of their blocks, which end in each part of the header and behind it |
| `layout_resize` | reserved blocks that no entry of the resize inode names | as `layout` |
| `boottool` | parts of images are found; unpacking and repacking reproduce images, ramdisks and pictures, except where the properties say; only checked blocks of an update are written and all of its packets are delivered; yaffs2 images are unpacked completely, but for links that were reported | the sizes of the code, with runs of at most 2 pixels; whole updates, and updates that end in the checksums or in the content of their last packet; up to 5 commands from each of the directories of `MCBootTool` |

Why the bounds are enough: 32 blocks per group are four bytes of the bitmap, so requests cover head, whole bytes
and rest; 12 fits into a group once, 26 only into an empty group, 40 must be split over two; the short last
group and the two kinds of header occur. The queue's code looks at two neighbours and one pointer; six pieces
give it every relative order of four and more. A writer's step depends only on the position, the offset and the
length modulo the block size; two-byte blocks have both remainders, and the lengths have both kinds of end. The
pieces of `image` contain whole, partial, adjacent, distant and last blocks, for both kinds of data. The lists
of `Extent` treat the first, the middle and the last region differently and change over to a leaf at the fourth;
four regions have all of them. The leaf has room for four extents and the limit is nine: five and nine regions
are the first and the last number that overruns it, ten the first that is refused. With two pointers per block
the files of `Indirect` end in the inode, at the end of each level and within it. In `FsLayout` the sizes are
real, and only the groups are small; 32-bit differences wrap at 2^16 there and at 1024 in `Allocate`, because
TLC's integers have 32 bits. In `Directory` what matters is how an entry lies in its block; 44 bytes hold three
short entries and leave every multiple of four, and the block is met exactly. What `Tree` does depends on a
node, its parent and its siblings, and the inodes of a tree of four nodes go over the border of the first group.
The beginnings of `MCBootTool` are chosen per question: parts of sizes at, below and above a page, padding of
one, two and four pages and of less than a page, gzip files where plain ones are expected, leftovers of earlier
commands; archives with duplicates, missing parents, names and targets with blanks in front of a number, of
another word and of another name, and empty targets; pictures with every sequence of three colours up to five
pixels; packets of none, one and two blocks with sums right, wrong and missing, and last packets without all of
their sums, or of their first or second block; objects without parents, cut files and hard links.

`CHECK_DEADLOCK FALSE` is said where the program ends: the image is written, the reader
has finished, the directory is laid out, the tree is built, no command follows.

Fairness: only `Allocate` has any, `WF_vars(AllocateLoop)`: one thread executes the loop, nothing
else runs meanwhile, and no call in it blocks. Nobody is assumed to call the allocator again.

## Proofs

`AllocateProofs` proves for every number and size of groups, every geometry that
satisfies `ConstantTypes`, `Geometry` and `FitsU32`, and every set of request lengths,

* `TypeCorrect`, `NeverClashes`, `FreeCountsExact`, `EveryBlockAccounted`: the
  invariants `TypeOK`, `NoClash`, `FreeCountExact` and `BlocksAccounted`;
* `AllocateImplementsPool`: the refinement of `BlockPool`;
* `RequestsAreMet` and `SplitsAreWhole`: `RequestSatisfied` and `SplitTakesWholeGroups`;
* `SplitRegionsAreLong`: a region with others behind it has more than one block.

The argument: none of them is inductive by itself. What makes first-fit with a cursor
work is that the bitmap of a group is always *a prefix and a tail*: the set bits
are those below the cursor and those past the end of the group, and the free count is the
distance between the two. The inductive invariant `IndInv` states this for every group, together with
where the newest allocation lies: each region ends at or before its group's cursor, and the
first region, as long as it may be reduced, ends *at* it (otherwise clearing the
bits below the cursor would free somebody else's block), and regions of one split lie in
groups of their own. A chain of lemmas about the constants leads there: `MarkedBits` is the
interval asked for, `init_bg` yields a prefix and a tail, the blocks of different groups are
disjoint. `Invariance` is the inductive theorem; the first five are its consequences, and each of the last three adds
an invariant of its own: a group without data gives up all its blocks (`WholeInv`), the blocks of the list
and those still to find add up to the request (`CountInv`, from the cardinality of a region, of a disjoint
union and of a set without one element), and a region of one block can only come from the last empty
group (`LongInv`).

`ImageProofs` proves for every set of pieces with distinct or equal blocks `QueueSorted`,
`QueueComplete` and `QueueTypeCorrect`; the insertion keeps the order whichever of the
two starting points is used, because the one at `last_used` is taken only if its block is
not above the new one.

The assumptions: `Geometry` is what `ext4_create_fs_aux_info` establishes for block sizes above
1024 (only the last group is short, and holds its header); `FitsU32` says that block
numbers do not wrap. `FsLayoutProofs` proves `Geometry` in the form `GeometryHolds`, for a device of any length and any
number of inodes (`GroupsHoldHeaders`), also for one shorter than a group and with 1K blocks too, outside the cases
`LastGroupMisjudged` and `TooShort` name, provided that the options are `Sensible`: a full group could hold its header,
and there is a block behind `first_data_block`. The step is only that the parameters stay
(`ParametersKept`); the rest is the lemma `LastGroup`, about a remainder that is taken from another number than
the one that was divided, as the code does for 1K blocks.

The rest of the layout is proved from one invariant, `LayoutInv` (`LaidOut`), under the same `Sensible` (blocks
of 1K to 16K, room for the header in a full group, a block for the groups, fewer blocks in a group than a u32
counts). It says by formulas over the number of a group where everything is: which bits of which bitmaps are
set, what each descriptor says, which pieces are queued, how far each loop has come, what regions the list of
the resize inode has, which bit `append_oob_allocation` took, and what its map lists. It was checked by TLC on
the instance of the run `layout` before it was proved. Three properties follow:

* `DescriptorsAgree` (`DescriptorsPoint`): three functions compute the same places;
* `ResizeInodeMapsReserve` (`ResizeInOrder`). The map is read from the reserve through linked regions, with an index that
  is reduced modulo 2^32 and then modulo the reserve. So there are lemmas on chains of regions of the same length
  (`RowSkip`: the n-th block is in region `n \div len`), which go by induction over the chain. The charge is a cardinality: the
  reserved blocks are as many as pairs of a group and a place, since no block is at two places (`PlacesApart`),
  and the doubly indirect block is none of them, since it is outside of every header;
* `MetadataIsApart` (`MetadataApart`): each piece lies between two edges of a group (`SlotPlace`), the edges rise
  (`EdgesRise`), and so no two pieces meet; each is inside the header, where the bits are set, or is the block the bit was
  set for; and as that bit was clear, it is not past the end of the device (`TakenOnDevice`).

`ImageProofs` also proves for blocks, file systems and writes of any size, with any call failing and `-f` or
not, that the sparse writer's position is a multiple of the block size, the checksum covers exactly the bytes up
to it, each zero or in its place, that the chunks are counted and that reading them one after the other gives
these bytes (`PositionIsExact`, `ChunksAreTheStream`: `StreamConsistent`), and that "offset accounting screwy"
is never the first error (`AccountingNeverFirst`). One lemma per function carries `WriterInv` through it; the
interesting one is `WriteChunkKeeps`: if the skip in front of the data is refused or fails and the program goes
on, then the offset is not a multiple of the block size, or an error has been reported already. That the chunks
expand to the stream needs that expanding a list with one more chunk appends the bytes of that chunk, an
induction over the list.

The image as a whole is the third part of `ImageProofs`, which proves, for every block size, length, number of
descriptors and set of pieces, in the three kinds of file, with `-f` or not:

* `ErrorsAreKnown` (`OnlyKnownErrors`): without a failing call, the writer has only three reasons to complain;
* `ImageIsExact` (`ImageExact`): after a run without an error the file is the file system, unless it was the close at the
  end that failed, whose result is dropped;
* `AcceptedImages` (`AcceptedIsExact`): what `simg2img` accepts is the file system, whatever failed, was killed or was
  damaged before;
* `GoodImagesAccepted` (`RejectsOnlyBadImages`): it rejects no good image, if its buffer of zeroes holds zeroes.

The invariant has two halves. `WriterSide` is about the writer: the pieces lie apart, behind the descriptors and
inside the file system (`PlacesInv`, from the guard `Allocated` and the order of the queue); `PhaseInv` says how
far `write_ext4_image` is; `WrittenInv` says that, until the first error, the writer is not beyond the
`Frontier` (the end of the piece before the one that is next) and every byte below it is what it is to be. So
the next piece is never behind the writer: that is why `OnlyKnownErrors`, a statement about errors, takes the
exactness of the bytes and the order of the queue together. In a compressed file, a position at the very end
means that the last byte holds data, which is when zlib refuses the padding. `WriteSettles` is the central
lemma: a write at the next aligned place moves the frontier behind its data, in a sparse file by a gap and a
chunk, and the steps cite it for the superblock, the descriptors and a piece. `ReaderInv` is about the reader:
its input is the header of a run that was cut short, which counts no chunks but all blocks; or what was written
(`ReadsWritten`: counts, checksum, position and bytes are those of the first `i` chunks); or that with one
change (`ReadsDamaged`), which `simg2img` has still to meet or has met: a chunk that is malformed stops it, a
byte that nobody wrote stays in the checksum, a block too many stays in the count, a chunk that is missing keeps
it from the end (`TakeDiffers`). Both halves were checked by TLC on the instance of the run `image` before they
were proved. A checksum is the sequence of the bytes, so what is proved is up to collisions of crc32.

`ExtentProofs` proves for allocations of any number of regions of any length, blocks of any size and files of any length
(where the extents overrun the leaf, the model ends, and nothing is said of what comes then):

* `DataIsMapped` (`DataFollowsMap`): the pieces that are queued continue each other from the first byte of the file to the last,
  and each lies on the blocks its bytes are mapped to;
* `InodesMapTheirBlocks` (`MapsExact`): the extents are the allocation without the leaf or without the block that is given back,
  in order and without a gap, for as many as the inode or a leaf has room for (with more the file is refused, or the leaf
  overrun); a file that fits the pointers of the inode has its blocks there, in order;
* `ListsLoseNoBlock` (`BlocksKept`): what is split off, moved to the list of pointer blocks or given back is neither lost nor
  in two places.

The three have an inductive invariant each, and TLC checked each on the instance of the run `files` before it
was proved. `ExtentInv` says where the regions are: the first one gave up its first block (for the leaf, and its
rest is then a new region at the end of the memory) or its last, as `list.last` stays at the first region
(`Kept`), the others are where they were allocated (`Node`), each one's `next` is the node of the next, the
iterator is in the region whose extent, or whose piece, is next (`FillInv`, `BackingInv`), and what is left of
the file is what the regions from there on hold. `PointerInv` is about files that fit the pointers of the inode:
no pointer block is reserved, so that the memory stays as it was allocated, and the walk over it collects the
blocks in order. `KeptInv` is about an allocation of one region, of which pointer blocks are reserved while the
region is walked. Splits leave behind `prev` and `last` pointers that nobody maintains, so the invariant has to
say which of them can be relied on: there are a list of data regions and a list of pointer blocks that have no
region in common and fill the memory together (`Lists`), in the first of them every `prev` is right, and the
iterator is in its last region, with at least one block left in it (`Open`). Hence each split appends, and each
pointer block moves the last region but one, which is the only way of unlinking a region that works with such
pointers. The blocks of both lists together stay those of the allocation (`Holds`); once all are reserved, only
positions change (`SameLists`). An allocation of two regions with pointer blocks is what `BlocksKept` excepts:
there the pointers are wrong, and blocks do get lost.

Lists are walked by recursive functions (`Chain` and the walks of `RegionList`), which have a value where
pointers never lead outside of the memory (`Linked`) and to which the lemmas on paths apply (`PathChain`,
`SkipSpot`): if a sequence of nodes follows the `next` pointers to the end, the walk is that sequence, whatever
the order of the nodes in memory. The assumptions are `LayoutsAreAllocations` (where `SplitRegionsAreLong` is
used), `Sizes` and `PointerSizes`.

`MirrorProofs` first proves of `Inodes`, for any number of groups and inodes, that the bitmaps are the inodes in
use (`BitmapIsExact`), that `allocate_inode` returns none of them (`InodesAreNew`) and that
directories are counted (`DirectoriesAreCounted`), beside the type invariant. The argument is again a
prefix: what a group has given away are the inodes below its `first_free_inode` (`PrefixTaken`, and
`PrefixGiven` for what the callers hold), and as inodes are numbered over all groups from 1 and set in bitmaps from
0, the lemmas `PlaceOf` and `AtPlace` relate the two, with the facts about division by an unknown number in `Numbers`.
`CountsAreWritten` says of `ext4_update_free` that the sums it writes are those of the bitmaps (`CountsWritten`).

It then proves that the recursion, over a tree of any size and depth, uses the inode allocator as `Inodes` lets
its callers (`TreeUsesAllocator`, the refinement the run `tree` checks), so that what is proved of the allocator
holds of every tree (`TreeInodes`). Why it needs an invariant: `get_inode` and `add_directory` may be called
only for inodes that were given out, and a directory may be counted only once, while the inodes lie in frames of
the recursion. `TreeInv` says that all frames below the one at hand have their inodes, that the one at hand has
got its own from a certain call on, and that only the root is entered without a parent.

And it proves what the recursion is for. For a tree of any size and depth, in which any entry may be refused and
any call may fail: when it ends well, the disk is a copy of the source (`TreeIsMirrored`), every inode given out
belongs to exactly one node (`NoneIsLost`), link counts are the numbers of entries that lead to an inode, modulo
2^16 (`LinksAreCounted`), and on the way no number is stored over another (`DiskOnlyGrows`, an action property).
The inductive invariant `MirrorInv` (`CopyingMirrors`) has to say, in the middle of the recursion, which inode
belongs to which node and which nodes are done; the program has neither of them in one place (the numbers are in
directory entries, in frames and in local variables, and are stored behind the callers' backs). So the invariant
says that *there are* a function `ino` and a set `done` that fit the stack, the allocator and the disk, and each
step says how they change. TLC checked it with the witness that is computed from the state, before it was
proved. In the end all nodes are done, and `ino` is the `InodeOf` that follows the directories from the root, by
induction over the numbers of the nodes.

`DirectoryProofs` proves for blocks of any size and names of any lengths that what is laid out can be read
by following `rec_len` and crosses no border (`DirectoriesAreRead`), that the space counted is enough unless a count
meets the end of a block (`CountIsEnough`), and that entries are long enough for their names (`NamesFit`). The
argument: both functions place an entry, and one step of `add_dentry` is never behind one of `dentry_size` from any
end that is not ahead (`CountsNoMore`), and is equal to it unless the count meets the end of a block
(`NextPlace`); so in `AddingInv` the end of the entries is at least the count, which puts it into the
last block when the rest is filled, and exactly the count as long as no count met the end of a block. That the end of the
entries never is the end of a block, and is a multiple of four, is part of the invariant, as the check of
`make_directory` lets an end at `len` pass and the rest must not be shorter than four bytes.
The theorems are about `DirectorySpec`; that `Tree` passes it sequences of names goes through
`SelectSeq`, which is recursive, and is checked by the run `tree`.

`BootToolProofs` proves of the commands of `bootimg.py`, after any sequence of other commands, failures and edits:

* `PicturesAreKept` (`PicturesKept`): pictures of any size are converted pixel by pixel, from runs and to runs, from words and
  to words, and runs are as long as they can be;
* `OnlyChecked` (`OnlyCheckedBlocks`): with debug, no block of an update is written whose checksum is not right, wherever
  the update ends;
* `PacketsAreDelivered` (`PacketsDelivered`): every place gets the content of the last packet for it, whatever the
  numbers and the lengths of packets and of the zeros between them.

The files come from outside, and the user may edit them between commands; so a theorem has a hypothesis about
the files: as long as a picture is a sequence of pixels, runs or words, possibly cut within one (`PicturesIn`),
as long as the headers of an update are headers (`HeadersIn`), as long as its packets are behind each other at
multiples of four, with zeros in between (`PacketsIn`), the property holds. All states of the run `boottool`
fulfil the first two, and those with whole updates the third, which TLC was asked before the proof, as it was
asked about the invariants below. That no command breaks into another (`StepFrame`) is proved first.
`PictureInv` says how far each of the four conversions has come (`RleIsRead`, `RleIsWritten`, `WordsAreRead`,
`WordsAreWritten`). `ChecksUsed` says that the blocks written have used the first checksums of the list, and
that all of these were right. `DeliveredInv` says that between packets the position is a multiple of four and
all packets before it are where they belong, and that within one the file at hand is written so far. The search
for the next packet takes four bytes at a time; `NothingElse` shows that, before the end of the file, four bytes
that are not zeros begin a packet. Only the padding needs the bits of a number: `padding` is `-n & 3`, and
`AndOfThree` finds by the recursion of `And` that this is what is missing to a multiple of four. The assumption
is `RunsCount`: a run has at least one pixel (`MaxRun` is 0xffff in the code).

Proved, but in no run, as they say little by themselves: `TypeOK`, `NoClash`, `QueueTypeOK`,
`InodesTypeOK`, `DirectoriesCounted`, and the inductive invariants.

`Numbers` has what the proofs share: division, induction, and that a recursion has a function (`Recursion`). The
induction theorems of the library take an operator as a parameter, which the provers do not instantiate;
`SetInduction` and `BoundedInduction` therefore speak of a *set* of numbers, and what is proved by induction is
stated as such a set. In the same way a recursive definition is proved to have a value everywhere: its step is a
function, and `Recursion` builds the function that it determines. Lists in memory (`RegionList`) are recursive
functions of one argument at a time for this reason.

Only model-checked:

* `PointersPrecedeData`: the number of pointer blocks in front of each block is computed by divisions in one place and by
  the nesting of three loops in another; the bound of the run reaches a triply indirect block;
* `PartsFound`, `RepackReproduces`, `RamdiskSurvives` and `TreeUnpacked` of the boot tool: each compares with what a whole archive
  should become, described by a recursion of its own over its entries;
* `AllocationTerminates`, as liveness and `ENABLED` are out of the prover's reach.

## Findings

Five disagreements between the code and what it says of itself, each with a run:

1. `allocate.c:409`: a group with no free block and no data counts as empty, so a split
   request takes nothing from it for ever (`allocate_hang`).
2. `simg2img.c:156`: the buffer of zeroes is not cleared, so the crc of gaps is
   computed over whatever malloc returned (`image_zerobuf`).
3. `contents.c:54`: `add_dentry` moves an entry that ends exactly at a block boundary,
   `dentry_size` does not, and `make_directory` ends in its own internal error (`directory_full`).
4. `indirect.c:453`: an unsigned difference is corrected as if it were signed; the first entries
   of the resize inode's map are wrong (`layout_resize`).
5. `indirect.c:483`: `inode_allocate_data_indirect` promises to connect the blocks to the inode and
   connects none; the text of a long link is out of reach (`files_connect`).

More are in the properties rather than in runs of their own:

* `EntriesHoldTheirNames`: the entry for the rest of a block may have four bytes, less than its own
  header (`contents.c:155`);
* `OnlyKnownErrors`: `write_data_file` refuses a piece that ends exactly at the end of the file
  system (`output_file.c:391`, one byte stricter than `write_data_block`);
* `LastGroupMisjudged`: the sizes for which `ext4_utils.c:137` is wrong with 1K blocks;
* `MapsExact` speaks of files whose extents fit a leaf, or are refused: the limit above which a file is "too big to
  fit in a single extent block" (`extent.c:128`) divides before it subtracts; with 4K blocks, 341 to 4095
  extents are not refused and are written behind the leaf (`overrun_leaf`);
* `TooShort`: a device that ends within the header of its only group loses it like any other last group
  (`ext4_utils.c:142`), and `make_ext4fs` goes on without one;
* `ImageExact` excepts a failing `close` or `gzclose`, whose results are dropped (`output_file.c:85-88`, `124-127`):
  the image may be cut short, and no error says so;
* `LinkCounts` counts modulo 2^16: a directory with 65534 directories in it has no links (`contents.c:123`);
* `BlocksKept` excepts reservations across the border of two regions: `advance_list_ptr` (`allocate.c:611`) never stores
  the list it has advanced, and the stale `prev` pointers of a split unlink the wrong region;
* `MapsExact` speaks of indirect maps only for files that fit the inode: behind that, the blocks of a level are
  advanced once by the caller and once inside (`indirect.c:235-240`), so that `inode_allocate_indirect` repeats some
  blocks and skips others. Nothing in the program calls that function; it is a part of the interface in `indirect.h`;
* `PartsFound`: a kernel that begins with blank pages, or padding to less than a page, is not parsed right
  (`bootimg.py:106-114`);
* `RepackReproduces`: a gzipped kernel is written as `kernel.gz` and read as `kernel`; `ramdisk.cpio.gz` and `second` of
  an earlier command are preferred to what was just unpacked; `boot.img` is emptied before the parts are
  opened, so that a repack that fails has destroyed the image (`bootimg.py:656-704`);
* `RamdiskSurvives`: of entries with one name the first line is kept with the last content, `su`, `busybox` and
  `/tmp` get modes of their own, special files are lost; a name or a target with a blank, or an empty target, comes back as
  something else, with a part of it taken for the mode, or makes `repack_ramdisk` fail and leave a cut file
  (`bootimg.py:419-431`);
* `repack_ramdisk` empties `ramdisk.cpio.gz` before it looks for the list (`bootimg.py:766`);
* `PacketsDelivered`: a content that is cut short is written as far as it goes, and without debug no error says so
  (`bootimg.py:228`);
* `TreeUnpacked`: whatever goes wrong with a link is only printed (`bootimg.py:509`), and hard links are made without the
  directory in front (`bootimg.py:518`);
* an empty picture makes `write_rle` raise (`bootimg.py:597`).

A few were met outside any property: after a successful write the file is closed a second
time on the way through the error path (`output_file.c:426`); padding a raw image writes a zero into its last
byte, also when it holds data, and seeks back in a compressed one (`output_file.c:351`, with a comment that says so;
`ImageExact` excepts that byte); an entry that `lstat` refuses under `-f` is skipped by stepping the index back, so
that its name is used and freed again (`make_ext4fs.c:106`).

## Not modelled

* `-f` is modelled for allocator and writer only. In `Tree`, `Inodes` and `Indirect` an error ends the program; with
  `-f` it runs on with inode numbers and pointers that are not any.
* Of the layout: the constant fields of the superblock, the journal superblock, and the choice of block
  size, inodes and journal size in `make_ext4fs`: single assignments and formulas.
* Owners, times and flags of inodes, and the text of files; what a write behind the leaf of an extent map overwrites.
* `--cpio-list`, which only lists a directory; checksums beyond right and wrong; gzip; names with line breaks in
  an archive; the modes of what a yaffs2 image is unpacked to; picture formats that PIL reads
  and writes; file names other than the default ones.
* Option parsing, vendored code (crc16, crc32, sha1, uuid, headers of ext4 and jbd2), and the shell scripts,
  which are sequences of calls of other programs.

## What could follow

1. A theorem for `PointersPrecedeData`, on the lemmas about lists in `ExtentProofs`: the reservation of one pointer block
   per region, counted by levels.
2. The image of a whole tree: `Tree` with the block allocator, the maps and `MakeImage` in one module, to discharge
   `Allocated` and `Geometry` by composition rather than by the runs and theorems named above.
