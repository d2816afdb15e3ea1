------------------------------- MODULE Yaffs2 -------------------------------
(***************************************************************************)
(* parse_yaffs2 of python/bootimg.py: an image is a sequence of chunks, of *)
(* which some describe an object and the others are the data of the file   *)
(* in front of them.  Every chunk is a step.  A path is the sequence of    *)
(* its names, from "." on; numbers are known from the objects in front.    *)
(* Modes are left out: whatever a directory's mode (or the system) has     *)
(* against it, any file, directory or link may not be created.             *)
(***************************************************************************)
EXTENDS WorkDir

\* The byte count that marks an object, the bytes of data in a chunk, the end of an
\* image that stops within one.
ObjectMark == 65535
ChunkBytes == 2048
CutChunk   == [bytecount |-> -1]

Joined(path) ==
    LET s[k \in 0 .. Len(path)] == IF k = 0 THEN "" ELSE s[k - 1] \o "/" \o path[k] IN s[Len(path)]

FullName(path) == "userdata" \o Joined(path)

\* A path that is used without the directory in front of it.
InWorkDir(path) == LET s == Joined(Tail(path)) IN SubSeq(s, 2, Len(s))

Chunks(c)   == IF c.data.kind = "yaffs" THEN c.data.chunks ELSE <<>>
FileOf(seq) == Content(0, 0, FALSE, [kind |-> "chunks", chunks |-> seq])
Link(alias) == Content(0, 0, FALSE, [kind |-> "slink", alias |-> alias])

unpack_yaffs ==
    /\ job = Idle /\ Exists("userdata.img") /\ files["userdata.img"].data.kind = "yaffs"
    /\ IF Exists(FullName(<<>>))
       THEN Raise
       ELSE Start([cmd |-> "unpack_yaffs", image |-> Chunks(files["userdata.img"]), next |-> 1,
                   filelist |-> (1 :> <<".">>), path |-> <<>>, left |-> 0, reported |-> {}])
    /\ UNCHANGED files

Reading == Running("unpack_yaffs") /\ job.next <= Len(job.image)
Chunk   == job.image[job.next]

\* Complete, also while a file is not.
yaffs_end ==
    /\ Running("unpack_yaffs") /\ job.next > Len(job.image)
    /\ End
    /\ UNCHANGED files

yaffs_cut ==
    /\ Reading /\ Chunk = CutChunk
    /\ Raise
    /\ UNCHANGED files

\* MUTANT: the last chunk of a file is taken for an object.
file_chunk_OneLess ==
    /\ Reading /\ Chunk # CutChunk /\ job.left > 0
    /\ LET size == IF job.left < Chunk.bytecount THEN job.left ELSE Chunk.bytecount IN
       /\ files' = With(files, FullName(job.path),
                        FileOf(Append(files[FullName(job.path)].data.chunks, [chunk |-> Chunk, size |-> size])))
       /\ job' = [job EXCEPT !.next = @ + 1, !.left = IF @ - size < ChunkBytes THEN 0 ELSE @ - size]
    /\ UNCHANGED status

\* The next chunk of the file at hand, whatever it is.
file_chunk ==
    /\ Reading /\ Chunk # CutChunk /\ job.left > 0
    /\ LET size == IF job.left < Chunk.bytecount THEN job.left ELSE Chunk.bytecount IN
       /\ files' = With(files, FullName(job.path),
                        FileOf(Append(files[FullName(job.path)].data.chunks, [chunk |-> Chunk, size |-> size])))
       /\ job' = [job EXCEPT !.next = @ + 1, !.left = @ - size]
    /\ UNCHANGED status

AtObject == Reading /\ Chunk # CutChunk /\ job.left = 0 /\ Chunk.bytecount = ObjectMark

stray_chunk ==
    /\ Reading /\ Chunk # CutChunk /\ job.left = 0 /\ Chunk.bytecount # ObjectMark
    /\ job' = [job EXCEPT !.next = @ + 1]
    /\ UNCHANGED <<files, status>>

KnownObject == AtObject /\ Chunk.parent \in DOMAIN job.filelist

ParentPath == job.filelist[Chunk.parent]
ObjectPath == IF Chunk.name = "" THEN ParentPath ELSE Append(ParentPath, Chunk.name)
ObjectName == FullName(ObjectPath)

\* The object is entered in filelist; what is reported was not created.
NextObject(path, left, reported) ==
    /\ job' = [job EXCEPT !.next = @ + 1, !.filelist = (Chunk.objectid :> ObjectPath) @@ @,
                          !.path = path, !.left = left, !.reported = @ \cup reported]
    /\ UNCHANGED status

no_parent ==
    /\ AtObject /\ ~KnownObject
    /\ Raise
    /\ UNCHANGED files

yaffs_file ==
    /\ KnownObject /\ Chunk.type = "file"
    /\ IsDirectory(FullName(ParentPath)) /\ ~IsDirectory(ObjectName)
    /\ files' = With(files, ObjectName, FileOf(<<>>))
    /\ NextObject(ObjectPath, Chunk.filesize, {})

\* The prefixes of a path, all of which os.makedirs creates.
Above(path) == {FullName(SubSeq(path, 1, k)) : k \in 0 .. Len(path)}

MakeDirectories(names) ==
    /\ \A n \in names \cap DOMAIN files : IsDirectory(n)
    /\ files' = [n \in names |-> Directory] @@ files

yaffs_dir ==
    /\ KnownObject /\ Chunk.type = "dir"
    /\ MakeDirectories(Above(ObjectPath))
    /\ NextObject(<<>>, 0, {})

\* os.open or os.makedirs fail, the second perhaps half way.
object_fails ==
    /\ KnownObject
    /\ \/ Chunk.type \in {"file", "dir"} /\ UNCHANGED files
       \/ /\ Chunk.type = "dir"
          /\ \E k \in 1 .. (Len(ObjectPath) - 1) : MakeDirectories(Above(SubSeq(ObjectPath, 1, k)))
    /\ Raise

CanLink == IsDirectory(FullName(ParentPath)) /\ ~Exists(ObjectName)

LinkTo(c) == CanLink /\ files' = With(files, ObjectName, c) /\ NextObject(<<>>, 0, {})

\* Any error is only reported.
link_fails == UNCHANGED files /\ NextObject(<<>>, 0, {ObjectName})

yaffs_slink ==
    /\ KnownObject /\ Chunk.type = "slink"
    /\ LinkTo(Link(Chunk.alias)) \/ link_fails

\* os.link gets the path of the object within the image.
yaffs_hlink ==
    /\ KnownObject /\ Chunk.type = "hlink"
    /\ \/ /\ Chunk.equivalent \in DOMAIN job.filelist
          /\ LET from == InWorkDir(job.filelist[Chunk.equivalent])
             IN  Exists(from) /\ ~IsDirectory(from) /\ LinkTo(files[from])
       \/ link_fails

yaffs_special ==
    /\ KnownObject /\ Chunk.type = "special"
    /\ NextObject(<<>>, 0, {})
    /\ UNCHANGED files

YaffsStep ==
    \/ yaffs_end \/ yaffs_cut
    \/ file_chunk \/ stray_chunk \/ no_parent
    \/ yaffs_file \/ yaffs_dir \/ object_fails \/ yaffs_slink \/ yaffs_hlink \/ yaffs_special

-----------------------------------------------------------------------------
(* Properties                                                              *)

Objects(image) == {k \in DOMAIN image : image[k].bytecount = ObjectMark}

\* The chunks of a file of n bytes.
ChunkCount(n) == (n + ChunkBytes - 1) \div ChunkBytes

\* The files and directories form a tree with the root, number 1, first, parents
\* before children and no two of one name in a directory; every file is followed by
\* its chunks, and nothing else is.
Proper(image) ==
    /\ 1 \in Objects(image) /\ image[1].objectid = 1 /\ image[1].type = "dir"
    /\ \A k \in Objects(image) \ {1} :
          /\ \E j \in Objects(image) : j < k /\ image[j].type = "dir" /\ image[j].objectid = image[k].parent
          /\ \A j \in Objects(image) \ {k} :
                /\ image[j].objectid # image[k].objectid
                /\ image[j].parent = image[k].parent => image[j].name # image[k].name
    /\ \A k \in Objects(image) :
          LET n == IF image[k].type = "file" THEN ChunkCount(image[k].filesize) ELSE 0 IN
          /\ k + n <= Len(image)
          /\ \A d \in 1 .. n :
                image[k + d].bytecount = IF d < n THEN ChunkBytes ELSE image[k].filesize - (n - 1) * ChunkBytes
          /\ k + n < Len(image) => k + n + 1 \in Objects(image)

\* Where object k is, by the chain of its parents.
PathAt(image, k) ==
    LET path[j \in Objects(image)] ==
            IF j = 1 THEN <<".">>
            ELSE Append(path[CHOOSE p \in Objects(image) : p < j /\ image[p].objectid = image[j].parent],
                        image[j].name)
    IN  path[k]

\* What a proper image holds lies in the directory when the command ends without an
\* error: the directories, the files with all of their data, and the links except those
\* that a line on stderr tells of.  A hard link that is there is one to a file that has
\* nothing to do with the image (bootimg.py:465-525).
TreeUnpacked ==
    [][job.cmd = "unpack_yaffs" /\ job' = Idle /\ status' = "ok" /\ Proper(job.image) =>
          \A k \in Objects(job.image) :
              LET o    == job.image[k]
                  name == FullName(PathAt(job.image, k))
              IN  /\ o.type \in {"dir", "file"} => name \in DOMAIN files'
                  /\ o.type \in {"slink", "hlink"} => name \in DOMAIN files' \cup job.reported
                  /\ o.type = "dir" => files'[name] = Directory
                  /\ o.type = "slink" /\ name \notin job.reported => files'[name] = Link(o.alias)
                  /\ o.type = "file" =>
                        files'[name] = FileOf([d \in 1 .. ChunkCount(o.filesize) |->
                                                  [chunk |-> job.image[k + d],
                                                   size  |-> job.image[k + d].bytecount]])
                  /\ o.type = "hlink" /\ name \in DOMAIN files' =>
                        \E n \in DOMAIN files : (Len(n) < 9 \/ SubSeq(n, 1, 9) # "userdata/") /\ files'[name] = files[n]]_dirVars
==============================================================================
