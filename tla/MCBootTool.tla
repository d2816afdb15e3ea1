----------------------------- MODULE MCBootTool -----------------------------
(***************************************************************************)
(* An instance of BootTool for TLC, with the sizes of the code.  Each      *)
(* directory to begin with is for one of its questions.                    *)
(***************************************************************************)
EXTENDS BootTool

Plain(id, size, blank) == Content(size, blank, FALSE, [kind |-> "plain", id |-> id])
Gzip(id, size)         == Content(size, 0, TRUE, [kind |-> "plain", id |-> id])

MCMaxRun == 2
MCEdits  == {Plain(100, 6, 0)}

-----------------------------------------------------------------------------
(* Ramdisks, from any program                                              *)

MCNames    == {"/", "/init", "/sbin", "/sbin/su", "/sbin/x", "/tmp", "/lib", "/d", "/d 7", "/a", "/a b",
               "/su", "/su initrd", "/su ramdisk.gz"}
MCnormpath == [n \in MCNames \cup {"/."} |-> IF n = "/." THEN "/" ELSE n]
MCdirname  == [n \in MCNames |-> IF n \in {"/sbin/su", "/sbin/x"} THEN "/sbin" ELSE "/"]
MCbasename == [n \in MCNames |-> IF n \in {"/su", "/sbin/su"} THEN "su" ELSE n]

MCsplit ==
    "/d 7" :> <<"/d", "7">> @@ "/a b" :> <<"/a", "b">> @@ "initrd/a b" :> <<"initrd/a", "b">>
    @@ "/su initrd" :> <<"/su", "initrd">> @@ "initrd/su initrd" :> <<"initrd/su", "initrd">>
    @@ "/su ramdisk.gz" :> <<"/su", "ramdisk.gz">>
    @@ "initrd/su ramdisk.gz" :> <<"initrd/su", "ramdisk.gz">>
    @@ "x 7" :> <<"x", "7">> @@ "x y" :> <<"x", "y">> @@ "" :> <<>>

MCoctal ==
    [m \in {"0750", "0700", "0755", "0644", "0777", "4555", "1777"} |-> m]
    @@ "7" :> "0007" @@ "777" :> "0777"

E(name, type, mode, size) == [name |-> name, type |-> type, mode |-> mode, size |-> size]
L(name, mode, text) ==
    [name |-> name, type |-> "slink", mode |-> mode, size |-> Len(text), text |-> text]

\* The number makes the contents of two entries differ.
Archive(entries) ==
    LET f[k \in 0 .. Len(entries)] ==
            IF k = 0 THEN EmptyFile
            ELSE LET e == entries[k] IN
                 Data(write_cpio_header(f[k - 1], e.name, e.type, e.mode, e.size),
                      IF e.type = "slink" THEN Target(e.text) ELSE Plain(k, e.size, 0))
    IN  f[Len(entries)]

Root == E("/", "dir", "0755", 0)

EntryLists ==
    {<<Root, E("init", "file", "0750", n), E("sbin", "dir", "0755", 0), E("sbin/su", "file", "0755", m),
       E("tmp", "dir", "0755", 0), L("lib", "0777", "sbin"), E("sbin/x", "node", "0600", 0)>> :
        n \in {0, 5}, m \in {3, 8}}
    \cup {<<E(".", "dir", "0755", 0), E("/init", "file", "0750", 5), e>> :
             e \in {E("init", "file", m, 6) : m \in {"0750", "0700"}}
                   \cup {L("init", m, "sbin/x") : m \in {"0750", "0700"}}}
    \cup {<<E("/init", t, "0750", IF t = "dir" THEN 0 ELSE 5), L("/lib", "0777", "sbin/su"),
            L("lib", "0777", "sbin/x")>> :
             t \in {"file", "dir"}}
    \cup {<<Root, E("sbin", "file", "0644", 4), E("sbin/x", t, "0755", 0)>> : t \in {"file", "dir"}}
    \cup {<<Root, e, E("init", "file", "0750", 2)>> :
             e \in {E("a b", "file", "0644", 4), E("a b", "dir", "0755", 0), E("d 7", "dir", "0755", 0),
                    E("d 7", "file", "0644", 3), L("d 7", "0777", "x"), L("lib", "0777", "x 7"),
                    L("lib", "0777", "x y"), L("lib", "0777", ""), E("su initrd", "file", "0644", 3),
                    E("su ramdisk.gz", "file", "0644", 3)}}
    \cup {<<Root, E("d 7", "dir", "0755", 0), E("d", "dir", "0700", 0)>>,
          <<Root, E("d", "dir", "0700", 0), E("d 7", "dir", "0755", 0)>>}

Archives == {cpio_tailer(Archive(es)) : es \in EntryLists} \cup {Archive(<<Root, E("init", "file", "0750", 5)>>)}

Small == cpio_tailer(Archive(<<Root, E("init", "file", "0750", 5)>>))

RamdiskBeginnings ==
    {[files |-> ("ramdisk.gz" :> Stored(TRUE, a)), commands |-> 3] : a \in Archives}
    \cup {[files |-> ("ramdisk" :> c @@ "ramdisk.gz" :> Stored(TRUE, Small)), commands |-> 5] :
             c \in {Stored(FALSE, Small)}}
    \cup {[files |-> ("ramdisk" :> Plain(101, 20, 0)), commands |-> 1]}

-----------------------------------------------------------------------------
(* Boot images                                                             *)

Args(page_size, padding_size) ==
    [base |-> "0x10000000", page_size |-> page_size, padding_size |-> padding_size, cmdline |-> "vendor"]

Kernels  == {Plain(102, 5000, 0), Plain(102, 4096, 2047), Plain(102, 9000, 2048), Gzip(102, 100)}
Ramdisks == {Stored(TRUE, Small), Stored(FALSE, Small)}
Seconds  == {None, Plain(103, 2048, 0), Gzip(103, 10)}

Image(kernel, ramdisk, second, args) ==
    Stored(FALSE, write_bootimg(kernel, ramdisk, second, "vendor", args))

Left ==
    {<<>>,
     "kernel" :> Plain(104, 700, 0),
     "kernel" :> Plain(104, 700, 0) @@ "second" :> Plain(104, 9, 0),
     "ramdisk.cpio.gz" :> Stored(TRUE, EmptyFile) @@ "second.gz" :> Gzip(104, 9)}

ImageBeginnings ==
    {[files |-> ("boot.img" :> Image(k, r, s, a)) @@ l, commands |-> 3] :
        k \in Kernels, r \in Ramdisks, s \in Seconds, l \in Left,
        a \in {Args(p[1], p[2]) : p \in {<<2048, 2048>>, <<2048, 4096>>, <<2048, 8192>>, <<4096, 4096>>,
                                         <<2048, 1024>>, <<4096, 2048>>}}}
    \cup {[files |-> ("boot.img" :> c), commands |-> 2] : c \in {Empty, Plain(101, 700, 0)}}

\* All the way and back.
WholeWay ==
    {[files |-> ("boot.img" :> Image(Plain(102, 5000, 0), Stored(TRUE, Small), None, Args(2048, 4096))),
      commands |-> 5]}

-----------------------------------------------------------------------------
(* Pictures                                                                *)

Colours3 == {<<0, 0, 0>>, <<7, 3, 7>>, <<255, 36, 8>>}

Raws == UNION {[1 .. n -> Colours3] : n \in 0 .. 5}
Runs == UNION {[1 .. n -> {1, 2} \X {0, 65535, 18721}] : n \in 0 .. 2} \cup {<<<<0, 5>>, <<1, 5>>>>}

PictureBeginnings ==
    {[files |-> ("initlogo.raw" :> r), commands |-> 2] : r \in Raws \cup {<<<<8, 8, 8>>, Half>>}}
    \cup {[files |-> ("initlogo.rle" :> r), commands |-> 3] : r \in Runs \cup {<<<<1, 7>>, Half>>}}
    \cup {[files |-> ("splash.565" :> [k \in DOMAIN r |-> <<r[k][2]>>]), commands |-> 3] : r \in Runs}
    \cup {[files |-> (n :> <<Half>>), commands |-> 1] : n \in {"splash.565", "splash.raw"}}

-----------------------------------------------------------------------------
(* UPDATA.APP                                                              *)

AddPacket(f, position, c, sums) ==
    LET hl == PacketHeader + 2 * Len(sums)
        g  == Put(Put(Put(f, Packet(position, hl, c.size)), Checksums(sums)), c)
    IN  Zeros(g, padding(hl + c.size, 4))

Positions2 == {<<"0x30000000", "0x40000000">>, <<"0x30000000", "0x30000000">>, <<"0x10000000", "0x30000000">>}

\* Contents of one block, of two and of none; sums that are right, wrong and missing.
Updatas ==
    {Zeros(AddPacket(Zeros(AddPacket(Zeros(EmptyFile, z), p[1], Plain(105, n, 0), s1), z),
                     p[2], Plain(106, 5, 0), <<TRUE>>), z) :
        p \in Positions2, z \in {0, 8}, n \in {0, 4095, 4096, 4097},
        s1 \in {<<>>, <<TRUE>>, <<TRUE, TRUE>>, <<TRUE, FALSE>>}}

\* The last packet is not all there: its checksums, its content, or what its header says.
AddCut(f, header_length, content_length, sums, c) ==
    Put(Put(Put(f, Packet("0x30000000", header_length, content_length)), Checksums(sums)), c)

CutUpdatas ==
    {AddCut(f, PacketHeader + 4, 5000, sums, Empty) :
        f \in {EmptyFile, AddPacket(EmptyFile, "0x40000000", Plain(105, 5, 0), <<TRUE>>)},
        sums \in {<<>>, <<TRUE>>, <<TRUE, TRUE>>}}
    \cup {AddCut(f, PacketHeader + 4, 5000, <<TRUE, TRUE>>, Plain(106, n, 0)) :
             f \in {EmptyFile, AddPacket(EmptyFile, "0x30000000", Plain(105, 5, 0), <<TRUE>>)},
             n \in {9, 4096, 4999}}
    \cup {AddCut(EmptyFile, PacketHeader - 1, 5, <<>>, Plain(106, 5, 0))}

UpdataBeginnings ==
    {[files |-> ("UPDATA.APP" :> Stored(FALSE, u)), commands |-> 2] : u \in Updatas \cup CutUpdatas}
    \cup {[files |-> ("UPDATA.APP" :> Plain(101, 20, 0)), commands |-> 1]}

-----------------------------------------------------------------------------
(* userdata.img                                                            *)

O(id, type, parent, name, n) ==
    [bytecount |-> ObjectMark, objectid |-> id, type |-> type, parent |-> parent, name |-> name,
     filesize |-> n, equivalent |-> 2, alias |-> "a"]
D(n, k) == [bytecount |-> n, objectid |-> 0, data |-> k]

Top2 == O(1, "dir", 1, "", 0)

Images ==
    {<<Top2, O(2, "file", 1, "a", n)>> \o ds \o <<O(3, "dir", 1, "d", 0), O(4, t, 3, "b", 0), O(5, "hlink", 3, x, 0)>> :
        n \in {2049}, ds \in {<<D(2048, 1), D(1, 2)>>, <<D(2048, 1)>>}, t \in {"file", "slink", "special", "hlink"},
        x \in {"b", "c"}}
    \cup {<<Top2, O(2, t, p, "a", 0), O(3, u, 2, "b", 0)>> :
             t \in {"file", "dir", "slink", "special"}, p \in {1, 7}, u \in {"file", "dir", "slink"}}
    \cup {<<O(2, "file", 1, "a", 3), D(3, 1)>>, <<Top2, D(5, 1), CutChunk>>,
          <<Top2, O(2, "file", 1, "a", 4096), D(2048, 1), CutChunk>>,
          <<Top2, O(2, "dir", 1, "a", 0), O(2, "file", 1, "a", 0)>>,
          <<Top2, O(2, "file", 1, "a", 5000), D(2048, 1), D(2048, 2), D(904, 3), O(6, "file", 1, "e", 1), D(1, 4)>>}

YaffsBeginnings ==
    {[files |-> ("userdata.img" :> Content(Len(i), 0, FALSE, [kind |-> "yaffs", chunks |-> i])) @@ l,
      commands |-> 2] :
        i \in Images, l \in {<<>>, "a" :> Plain(107, 3, 0)}}

MCBeginnings ==
    ImageBeginnings \cup WholeWay \cup RamdiskBeginnings \cup PictureBeginnings
    \cup UpdataBeginnings \cup YaffsBeginnings

\* What is called a picture or an update is one, as the theorems about BootTool ask.
ASSUME FilesAreGood ==
    /\ \A b \in MCBeginnings : PicturesIn(b.files) /\ HeadersIn(b.files)
    /\ \A u \in Updatas : Lined(u)
==============================================================================
