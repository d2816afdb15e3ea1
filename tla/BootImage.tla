----------------------------- MODULE BootImage -----------------------------
(***************************************************************************)
(* write_bootimg, parse_bootimg and their commands of python/bootimg.py: a *)
(* header, a kernel, a ramdisk and perhaps a second stage, each padded.    *)
(* The header does not say to what: parse_bootimg takes the offset of the  *)
(* first page that is not blank.  The file names differ on the two ways:   *)
(* one writes "kernel.gz" and the other reads "kernel".                    *)
(***************************************************************************)
EXTENDS WorkDir

VARIABLE shown  \* the image last unpacked, and what came of packing it again

HeaderSize == 608

None == [size |-> 0]

Header(kernel, ramdisk, second, name, args) ==
    [size |-> HeaderSize, blank |-> 0, kernel_size |-> kernel.size, ramdisk_size |-> ramdisk.size,
     second_size |-> second.size, base |-> args.base, page_size |-> args.page_size,
     name |-> name, cmdline |-> args.cmdline]

writecontent(f, c, padding_size) ==
    IF c = None THEN f ELSE Zeros(Put(f, c), padding(c.size, padding_size))

\* MUTANT: the header is padded to a page.
write_bootimg_PageOnly(kernel, ramdisk, second, name, args) ==
    LET head == Put(EmptyFile, Header(kernel, ramdisk, second, name, args))
        top  == Zeros(head, padding(HeaderSize, args.page_size))
        one  == writecontent(top, kernel, args.padding_size)
        two  == writecontent(one, ramdisk, args.padding_size)
    IN  writecontent(two, second, args.padding_size)

write_bootimg(kernel, ramdisk, second, name, args) ==
    LET head == Put(EmptyFile, Header(kernel, ramdisk, second, name, args))
        top  == Zeros(head, padding(HeaderSize, args.padding_size))
        one  == writecontent(top, kernel, args.padding_size)
        two  == writecontent(one, ramdisk, args.padding_size)
    IN  writecontent(two, second, args.padding_size)

-----------------------------------------------------------------------------

\* The loop that reads a page at a time, and goes back over the last.
FirstPage(f, page_size) ==
    LET at == CHOOSE p \in {k * page_size : k \in 1 .. (f.len \div page_size + 2)} :
                 /\ ~IsBlank(f, p, page_size)
                 /\ \A k \in 1 .. (p \div page_size - 1) : IsBlank(f, k * page_size, page_size)
        end == IF at >= f.len THEN at
               ELSE IF at + page_size <= f.len THEN at + page_size ELSE f.len
    IN  end - page_size

gzname(base, c) == IF c.gz THEN base \o ".gz" ELSE base

\* "invald bootimg", or too short.
IsImage(f) == \E p \in f.pieces : p.at = 0 /\ p.what.size = HeaderSize

\* What parse_bootimg finds in a file with header h.
Parsed(f, h) ==
    LET size    == FirstPage(f, h.page_size)
        ramdisk == size + h.kernel_size + padding(h.kernel_size, size)
        second  == ramdisk + h.ramdisk_size + padding(h.ramdisk_size, size)
    IN  [kernel  |-> ReadAt(f, size, h.kernel_size),
         ramdisk |-> ReadAt(f, ramdisk, h.ramdisk_size),
         second  |-> ReadAt(f, second, h.second_size),
         args    |-> [base |-> h.base, page_size |-> h.page_size, padding_size |-> size,
                      cmdline |-> h.cmdline]]

Defaults == [base |-> "0x200000", page_size |-> 2048, padding_size |-> 4096, cmdline |-> "default"]

NotShown == [image |-> EmptyFile, again |-> EmptyFile]

\* The names that repack_bootimg looks for before others.
Preferred == {"ramdisk.cpio.gz", "second.gz", "second"}

unpack_bootimg ==
    /\ job = Idle /\ Exists("boot.img")
    /\ LET f == Binary(files["boot.img"])
           h == ReadAt(f, 0, HeaderSize)
           p == Parsed(f, h)
           second == IF h.second_size = 0 THEN files
                     ELSE With(files, gzname("second", p.second), p.second)
       IN  IF ~IsImage(f)
           THEN Raise /\ UNCHANGED <<files, shown>>
           ELSE /\ files' = With(With(second, gzname("ramdisk", p.ramdisk), p.ramdisk),
                                 gzname("kernel", p.kernel), p.kernel)
                /\ shown' = [image |-> f, header |-> h, parsed |-> p, again |-> EmptyFile,
                             stale |-> DOMAIN files \cap Preferred]
                /\ End

\* MUTANT: a second stage is not looked for.
repack_bootimg_NoSecond(args) ==
    /\ job = Idle
    /\ Exists("kernel") /\ Exists("ramdisk.gz")
    /\ LET image == write_bootimg(files["kernel"], files["ramdisk.gz"], None, "", args)
       IN  /\ files' = With(files, "boot.img", Stored(FALSE, image))
           /\ shown' = IF shown # NotShown /\ args = shown.parsed.args
                       THEN [shown EXCEPT !.again = image] ELSE NotShown
    /\ End

\* boot.img is opened, and so emptied, before the other files are.
repack_bootimg(args) ==
    /\ job = Idle
    /\ LET ramdisk == IF Exists("ramdisk.cpio.gz") THEN "ramdisk.cpio.gz" ELSE "ramdisk.gz"
           second  == IF Exists("second.gz") THEN files["second.gz"]
                      ELSE IF Exists("second") THEN files["second"] ELSE None
           image   == write_bootimg(files["kernel"], files[ramdisk], second, "", args)
       IN  IF Exists("kernel") /\ Exists(ramdisk)
           THEN /\ files' = With(files, "boot.img", Stored(FALSE, image))
                /\ shown' = IF shown # NotShown /\ args = shown.parsed.args
                            THEN [shown EXCEPT !.again = image,
                                               !.stale = @ \cup (DOMAIN files \cap {"ramdisk.cpio.gz"})]
                            ELSE NotShown
                /\ End
           ELSE /\ files' = With(files, "boot.img", Empty)
                /\ shown' = NotShown
                /\ Raise

-----------------------------------------------------------------------------
(* Properties                                                              *)

\* The parts begin at a page that is not blank.
PaddingShows(f, page_size) ==
    \E q \in f.pieces :
        /\ q.at > 0 /\ q.at % page_size = 0 /\ q.what.blank < page_size
        /\ \A r \in f.pieces : r.at = 0 \/ r.at >= q.at

HoldsPart(f, c) == c.size = 0 \/ \E p \in f.pieces : p.what = c

\* The parser finds every part, though the image does not say where, if the padding
\* is a multiple of the page and the kernel does not begin with a blank page
\* (bootimg.py:106-114).
PartsFound ==
    shown # NotShown /\ PaddingShows(shown.image, shown.header.page_size) =>
        LET h == shown.header
            p == shown.parsed
        IN  /\ HoldsPart(shown.image, p.kernel) /\ p.kernel.size = h.kernel_size
            /\ HoldsPart(shown.image, p.ramdisk) /\ p.ramdisk.size = h.ramdisk_size
            /\ HoldsPart(shown.image, p.second) /\ p.second.size = h.second_size

\* An image that is unpacked and packed again, with the arguments that unpack_bootimg
\* prints, keeps every part, but for the kernel when it is a gzip file, the ramdisk
\* when it is none or ramdisk.cpio.gz lies there, and the second stage when an
\* earlier one lies there.  Otherwise it is the same image, without its name
\* (bootimg.py:656-666, 673, 702-704).
RepackReproduces ==
    shown # NotShown /\ shown.again # EmptyFile =>
        LET p  == shown.parsed
            k  == ~p.kernel.gz
            r  == p.ramdisk.gz /\ "ramdisk.cpio.gz" \notin shown.stale
            s  == shown.stale \cap {"second", "second.gz"} = {}
            unnamed(f) == {IF q.at = 0 THEN [q EXCEPT !.what.name = ""] ELSE q : q \in f.pieces}
        IN  /\ k => HoldsPart(shown.again, p.kernel)
            /\ r => HoldsPart(shown.again, p.ramdisk)
            /\ s => HoldsPart(shown.again, p.second)
            /\ k /\ r /\ s /\ PaddingShows(shown.image, shown.header.page_size) =>
                  shown.again = [shown.image EXCEPT !.pieces = unnamed(shown.image)]
==============================================================================
