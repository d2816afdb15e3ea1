------------------------------ MODULE Ramdisk ------------------------------
(***************************************************************************)
(* parse_cpio, write_cpio and their commands of python/bootimg.py.  The    *)
(* ramdisk is a cpio archive; it is taken apart into a directory, initrd,  *)
(* and a list, cpiolist.txt, and put together from the list again.  The    *)
(* list is text: what is read from it are words, wherever there are        *)
(* blanks.  Each turn of the two loops is a step.                          *)
(***************************************************************************)
EXTENDS WorkDir

CONSTANTS
    normpath,  \* of a name that begins with a slash, the other names of it gone
    dirname,   \* the directory of a normal name
    basename,  \* its last part
    split,     \* of a text with blanks, and of the empty one, what split() makes of it
    octal      \* of a word that int(word, 8) takes, the mode it stands for

VARIABLE rebuilt  \* the archive last unpacked, and the one packed from its list

CpioHeader == 110

Head110(type, mode, filesize, namesize) ==
    [size |-> CpioHeader, blank |-> 0, type |-> type, mode |-> mode, filesize |-> filesize,
     namesize |-> namesize]

\* A name in an archive, without the zero at its end.
NamePiece(name) == [size |-> Len(name), blank |-> 0, name |-> name]

\* MUTANT: the name is aligned, but not the header with it.
write_cpio_header_NameOnly(f, name, type, mode, filesize) ==
    LET namesize == Len(name) + 1
        named == Put(Put(f, Head110(type, mode, filesize, namesize)), NamePiece(name))
    IN  Zeros(named, 1 + padding(namesize, 4))

write_cpio_header(f, name, type, mode, filesize) ==
    LET namesize == Len(name) + 1
        named == Put(Put(f, Head110(type, mode, filesize, namesize)), NamePiece(name))
    IN  Zeros(named, 1 + padding(namesize + CpioHeader, 4))

Data(f, c) == Zeros(Put(f, c), padding(c.size, 4))

Trailer == "TRAILER!!!"

cpio_tailer(f) ==
    LET g == write_cpio_header(f, Trailer, "none", "0", 0) IN Zeros(g, padding(g.len, 512))

-----------------------------------------------------------------------------
(* From the archive to the directory and the list                          *)

WordsOf(text) == IF text \in DOMAIN split THEN split[text] ELSE <<text>>

\* What a link leads to, and its text; an empty one is read as nothing.
Target(text) == Content(Len(text), 0, FALSE, [kind |-> "text", text |-> text])
TextOf(c)    == IF c.data.kind = "text" THEN c.data.text ELSE ""

\* The name that is used, and the file it stands for.
Normal(name)      == IF SubSeq(name, 1, 1) = "/" THEN normpath[name] ELSE normpath["/" \o name]
InDirectory(name) == IF name = "/" THEN "initrd" ELSE "initrd" \o name

\* os.makedirs; where a file is in the way the error is ignored.
makedirs(fs, name) ==
    LET up[k \in 0 .. 3] == IF k = 0 THEN name ELSE dirname[up[k - 1]]
        above == {InDirectory(up[k]) : k \in 0 .. 3} \cup {"initrd"}
    IN  IF \E n \in above \cap DOMAIN fs : fs[n] # Directory THEN fs
        ELSE [n \in above |-> Directory] @@ fs

\* A header, which begins with 070701.
IsHeader(p)    == "namesize" \in DOMAIN p.what
IsHead(f, pos) == \E p \in f.pieces : p.at = pos /\ IsHeader(p)

NotRebuilt == [old |-> EmptyFile, new |-> EmptyFile]

\* The ramdisk may be named on the command line; gzip is noticed.
unpack_ramdisk(ramdisk) ==
    /\ job = Idle /\ Exists(ramdisk)
    /\ LET cpio == Binary(files[ramdisk]) IN
       IF Exists("initrd") \/ ~(files[ramdisk].gz \/ IsHead(cpio, 0))
       THEN Raise /\ UNCHANGED <<files, rebuilt>>
       ELSE /\ Start([cmd |-> "unpack_ramdisk", cpio |-> cpio, pos |-> 0])
            /\ files' = With(files, "cpiolist.txt", <<>>)
            /\ rebuilt' = NotRebuilt

HeadAt(f, pos) == ReadAt(f, pos, CpioHeader)
NameAt(f, pos) == ReadAt(f, pos + CpioHeader, HeadAt(f, pos).namesize - 1).name

DataPos(f, pos) ==
    LET namesize == HeadAt(f, pos).namesize
    IN  pos + CpioHeader + namesize + padding(namesize + CpioHeader, 4)

DataAt(f, pos) == ReadAt(f, DataPos(f, pos), HeadAt(f, pos).filesize)

\* The header of an entry is read; behind a directory there is nothing to skip.
AtEntry(type) ==
    /\ Running("unpack_ramdisk") /\ IsHead(job.cpio, job.pos)
    /\ NameAt(job.cpio, job.pos) # Trailer
    /\ HeadAt(job.cpio, job.pos).type = type

EntryName == Normal(NameAt(job.cpio, job.pos))

NextEntry ==
    LET h == HeadAt(job.cpio, job.pos)
        n == IF h.type = "dir" THEN 0 ELSE h.filesize + padding(h.filesize, 4)
    IN  job' = [job EXCEPT !.pos = DataPos(job.cpio, job.pos) + n] /\ UNCHANGED status

\* One line more: the name, the words of a path or a target, and the mode.
Listed(kind, path) ==
    LET line == [kind |-> kind, words |-> WordsOf(EntryName) \o path \o <<HeadAt(job.cpio, job.pos).mode>>]
    IN  With(files, "cpiolist.txt", Append(files["cpiolist.txt"], line))

parse_slink ==
    /\ AtEntry("slink") /\ NextEntry
    /\ files' = Listed("slink", WordsOf(TextOf(DataAt(job.cpio, job.pos))))
    /\ UNCHANGED rebuilt

parse_dir ==
    /\ AtEntry("dir") /\ NextEntry
    /\ files' = makedirs(Listed("dir", <<>>), EntryName)
    /\ UNCHANGED rebuilt

\* MUTANT: a file that was there is kept.
parse_file_Keeps ==
    /\ AtEntry("file") /\ NextEntry
    /\ IsDirectory(InDirectory(dirname[EntryName])) /\ ~IsDirectory(InDirectory(EntryName))
    /\ files' = Listed("file", WordsOf(InDirectory(EntryName)))
                @@ (InDirectory(EntryName) :> DataAt(job.cpio, job.pos))
    /\ UNCHANGED rebuilt

parse_file ==
    /\ AtEntry("file") /\ NextEntry
    /\ IsDirectory(InDirectory(dirname[EntryName])) /\ ~IsDirectory(InDirectory(EntryName))
    /\ files' = With(Listed("file", WordsOf(InDirectory(EntryName))), InDirectory(EntryName),
                     DataAt(job.cpio, job.pos))
    /\ UNCHANGED rebuilt

\* open fails
parse_file_fails ==
    /\ AtEntry("file")
    /\ ~IsDirectory(InDirectory(dirname[EntryName])) \/ IsDirectory(InDirectory(EntryName))
    /\ Raise
    /\ UNCHANGED <<files, rebuilt>>

parse_node ==
    /\ AtEntry("node") /\ NextEntry
    /\ UNCHANGED <<files, rebuilt>>

\* "invalid cpio"
parse_invalid ==
    /\ Running("unpack_ramdisk") /\ ~IsHead(job.cpio, job.pos)
    /\ Raise
    /\ UNCHANGED <<files, rebuilt>>

parse_trailer ==
    /\ Running("unpack_ramdisk") /\ IsHead(job.cpio, job.pos)
    /\ NameAt(job.cpio, job.pos) = Trailer
    /\ End
    /\ rebuilt' = [old |-> job.cpio, new |-> EmptyFile]
    /\ UNCHANGED files

-----------------------------------------------------------------------------
(* From the list to an archive                                             *)

repack_ramdisk ==
    /\ job = Idle /\ Exists("cpiolist.txt")
    /\ Start([cmd |-> "repack_ramdisk", next |-> 1, names |-> {}, out |-> EmptyFile])
    /\ files' = With(files, "ramdisk.cpio.gz", Stored(TRUE, EmptyFile))
    /\ UNCHANGED rebuilt

\* Without a list: the output is opened, and emptied, before the list is.
repack_without_list ==
    /\ job = Idle /\ ~Exists("cpiolist.txt")
    /\ Raise
    /\ files' = With(files, "ramdisk.cpio.gz", Stored(TRUE, EmptyFile))
    /\ UNCHANGED rebuilt

Lines   == files["cpiolist.txt"]
AtLine  == Lines[job.next]
Word(k) == AtLine.words[k]
NewLine == Running("repack_ramdisk") /\ job.next <= Len(Lines) /\ Word(1) \notin job.names

write_duplicate ==
    /\ Running("repack_ramdisk") /\ job.next <= Len(Lines) /\ Word(1) \in job.names
    /\ job' = [job EXCEPT !.next = @ + 1]
    /\ UNCHANGED <<files, status, rebuilt>>

\* An entry is written.
Entry(f) ==
    /\ job' = [job EXCEPT !.next = @ + 1, !.names = @ \cup {Word(1)}, !.out = f]
    /\ UNCHANGED <<files, status, rebuilt>>

\* Names with a mode of their own, whatever the list says.
OwnMode(kind, name, mode) ==
    CASE kind = "file" /\ basename[name] \in {"su", "busybox"} -> "4555"
      [] kind = "dir" /\ name = "/tmp" -> "1777"
      [] OTHER -> mode

\* The word that is taken for the mode: the last one, unless a blank made more words,
\* or an empty target one less.
ModeWord ==
    OwnMode(AtLine.kind, Word(1),
            CASE AtLine.kind = "dir" -> Word(2)
              [] AtLine.kind = "slink" /\ Len(AtLine.words) = 2 -> "777"
              [] OTHER -> Word(3))

AtEntryLine(kind) == NewLine /\ AtLine.kind = kind /\ ModeWord \in DOMAIN octal

EntryHeader(kind, size) == write_cpio_header(job.out, Word(1), kind, octal[ModeWord], size)

cpio_mkdir == AtEntryLine("dir") /\ Entry(EntryHeader("dir", 0))

cpio_mkslink ==
    /\ AtEntryLine("slink")
    /\ LET c == Target(Word(2)) IN Entry(Data(EntryHeader("slink", c.size), c))

cpio_mkfile ==
    /\ AtEntryLine("file") /\ Exists(Word(2)) /\ ~IsDirectory(Word(2))
    /\ LET c == files[Word(2)] IN Entry(Data(EntryHeader("file", c.size), c))

\* The word for the mode is none, or the file is gone, or, when another word was taken
\* for its path, a directory, which has a size but cannot be read.  What is written by
\* then stays.
write_fails ==
    /\ NewLine
    /\ \/ ModeWord \notin DOMAIN octal
       \/ AtLine.kind = "file" /\ (~Exists(Word(2)) \/ IsDirectory(Word(2)))
    /\ LET out == IF ModeWord \in DOMAIN octal /\ Exists(Word(2))
                  THEN EntryHeader("file", files[Word(2)].size) ELSE job.out
       IN  files' = With(files, "ramdisk.cpio.gz", Stored(TRUE, out))
    /\ Raise
    /\ UNCHANGED rebuilt

write_trailer ==
    /\ Running("repack_ramdisk") /\ job.next > Len(Lines)
    /\ LET f == cpio_tailer(job.out)
       IN  /\ files' = With(files, "ramdisk.cpio.gz", Stored(TRUE, f))
           /\ rebuilt' = IF rebuilt = NotRebuilt THEN NotRebuilt ELSE [rebuilt EXCEPT !.new = f]
    /\ End

\* The user changes a file of the ramdisk, or takes it away, or clears the directory.
edit(path, c) ==
    /\ job = Idle /\ Exists(path) /\ files[path] # Directory /\ files[path] # c
    /\ files' = With(files, path, c)
    /\ rebuilt' = NotRebuilt
    /\ UNCHANGED <<job, status>>

remove(paths) ==
    /\ job = Idle /\ paths \cap DOMAIN files # {}
    /\ files' = [n \in DOMAIN files \ paths |-> files[n]]
    /\ rebuilt' = NotRebuilt
    /\ UNCHANGED <<job, status>>

RamdiskStep ==
    \/ parse_slink \/ parse_dir \/ parse_file \/ parse_file_fails \/ parse_node
    \/ parse_invalid \/ parse_trailer
    \/ write_duplicate \/ cpio_mkdir \/ cpio_mkslink \/ cpio_mkfile \/ write_fails \/ write_trailer

-----------------------------------------------------------------------------
(* Properties                                                              *)

Positions(f) ==
    {p.at : p \in {q \in f.pieces : IsHeader(q) /\ NameAt(f, q.at) # Trailer}}

IsWhole(f) == \E p \in f.pieces : p.what = NamePiece(Trailer)

\* The entries of a name, but for special files, and what it is in the end: a later
\* entry takes the place of an earlier one.
Named(f, n) ==
    {pos \in Positions(f) : Normal(NameAt(f, pos)) = n /\ HeadAt(f, pos).type # "node"}

Names(f) == {n \in {Normal(NameAt(f, pos)) : pos \in Positions(f)} : Named(f, n) # {}}

FileAt(f, pos) == [type |-> HeadAt(f, pos).type, mode |-> HeadAt(f, pos).mode, data |-> DataAt(f, pos)]

InTheEnd(f, n) == FileAt(f, CHOOSE p \in Named(f, n) : \A q \in Named(f, n) : q <= p)

\* The list gives the name, and the target of a link, back as they were.
Listable(f, pos) ==
    /\ Len(WordsOf(Normal(NameAt(f, pos)))) = 1
    /\ HeadAt(f, pos).type = "slink" => Len(WordsOf(TextOf(DataAt(f, pos)))) = 1

\* The names that the other entries are taken for, which may be those of others.
Mistaken(f) ==
    {WordsOf(Normal(NameAt(f, pos)))[1] :
        pos \in {p \in Positions(f) : HeadAt(f, p).type # "node" /\ ~Listable(f, p)}}

\* An archive that is taken apart and put together from its list has the same names
\* with the same contents and modes, but for "su", "busybox" and "/tmp", which get
\* modes of their own, special files, which are lost, names whose entries do not
\* agree: there the first line counts, with what the last entry left in the file; and
\* names and targets with a blank or nothing in them, which the list does not hold:
\* unless the word taken for the mode is refused, they come back as something else,
\* under a name cut short, without an error.  Nothing but that name is touched by it.
\* Whoever wrote the archive, the reader stays in step with its headers, whatever the
\* lengths of names and files (bootimg.py:304, 323-343, 365-389, 419-431).
RamdiskSurvives ==
    /\ Running("unpack_ramdisk") /\ IsWhole(job.cpio) => IsHead(job.cpio, job.pos)
    /\ rebuilt.new # EmptyFile =>
        LET same == {n \in Names(rebuilt.old) : Len(WordsOf(n)) = 1} \ Mistaken(rebuilt.old) IN
        /\ Names(rebuilt.new) \ Mistaken(rebuilt.old) = same
        /\ \A n \in same :
              LET old == InTheEnd(rebuilt.old, n)
                  agree == \A p \in Named(rebuilt.old, n) :
                              LET e == FileAt(rebuilt.old, p) IN
                              /\ e.type = old.type /\ e.mode = old.mode
                              /\ e.type = "slink" => e.data = old.data
              IN  agree => InTheEnd(rebuilt.new, n) =
                              [old EXCEPT !.mode = octal[OwnMode(old.type, n, old.mode)]]
==============================================================================
