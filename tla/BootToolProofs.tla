--------------------------- MODULE BootToolProofs ---------------------------
(***************************************************************************)
(* Proofs about BootTool: pictures of any size and updates of any number   *)
(* of packets of any length, among all other commands.                     *)
(*                                                                         *)
(* Files come from outside, so a theorem says what they are, as long as    *)
(* which the property holds: a picture is a sequence of pixels, an update  *)
(* has its packets behind each other.                                      *)
(***************************************************************************)
EXTENDS BootTool, Numbers, SequenceTheorems

-----------------------------------------------------------------------------
(* Commands do not meet                                                    *)

RamdiskJobs == {"unpack_ramdisk", "repack_ramdisk"}
PictureJobs == {"unpack_rle", "repack_rle", "unpack_565", "repack_565"}
Jobs == {"none", "unpack_updata", "unpack_yaffs"} \cup RamdiskJobs \cup PictureJobs

IsJob(j) == "cmd" \in DOMAIN j /\ j = [x \in DOMAIN j |-> j[x]]

JobInv == IsJob(job) /\ job.cmd \in Jobs

LEMMA IdleIsJob == IsJob(Idle) /\ Idle.cmd = "none"
BY DEF IsJob, Idle

\* A field that changes leaves the command what it is.
Same(j, k) == IsJob(k) /\ k.cmd = j.cmd

LEMMA Changed ==
    ASSUME NEW j, IsJob(j), NEW f, f # "cmd", NEW v
    PROVE  Same(j, [j EXCEPT ![f] = v])
BY DEF IsJob, Same

\* A step of a ramdisk.
LEMMA RamdiskFrame ==
    ASSUME JobInv, RamdiskStep
    PROVE  job.cmd \in RamdiskJobs /\ (job' = Idle \/ Same(job, job'))
<1>1. CASE parse_slink \/ parse_dir \/ parse_file \/ parse_node
  <2>1. Running("unpack_ramdisk") /\ NextEntry
    BY <1>1 DEF parse_slink, parse_dir, parse_file, parse_node, AtEntry
  <2>2. PICK pos : job' = [job EXCEPT !.pos = pos]
    BY <2>1 DEF NextEntry
  <2> QED BY <2>1, <2>2, Changed DEF Running, RamdiskJobs, JobInv
<1>2. CASE parse_file_fails \/ parse_invalid \/ parse_trailer
  <2>1. Running("unpack_ramdisk") /\ job' = Idle
    BY <1>2 DEF parse_file_fails, parse_invalid, parse_trailer, AtEntry, Raise, End
  <2> QED BY <2>1 DEF Running, RamdiskJobs
<1>3. CASE write_duplicate
  <2>1. PICK n : Running("repack_ramdisk") /\ job' = [job EXCEPT !.next = n]
    BY <1>3 DEF write_duplicate
  <2> QED BY <2>1, Changed DEF Running, RamdiskJobs, JobInv
<1>4. CASE cpio_mkdir \/ cpio_mkslink \/ cpio_mkfile
  <2>1. Running("repack_ramdisk") /\ \E f : Entry(f)
    BY <1>4 DEF cpio_mkdir, cpio_mkslink, cpio_mkfile, AtEntryLine, NewLine
  <2>2. PICK n, names, out : job' = [job EXCEPT !.next = n, !.names = names, !.out = out]
    BY <2>1 DEF Entry
  <2>3. Same(job, job')
    BY <2>2 DEF JobInv, IsJob, Same
  <2> QED BY <2>1, <2>3 DEF Running, RamdiskJobs
<1>5. CASE write_fails \/ write_trailer
  <2>1. Running("repack_ramdisk") /\ job' = Idle
    BY <1>5 DEF write_fails, write_trailer, NewLine, Raise, End
  <2> QED BY <2>1 DEF Running, RamdiskJobs
<1> QED BY <1>1, <1>2, <1>3, <1>4, <1>5 DEF RamdiskStep

LEMMA YaffsFrame ==
    ASSUME JobInv, YaffsStep
    PROVE  job.cmd = "unpack_yaffs" /\ (job' = Idle \/ Same(job, job'))
<1>1. CASE yaffs_end \/ yaffs_cut \/ no_parent \/ object_fails
  BY <1>1 DEF yaffs_end, yaffs_cut, no_parent, object_fails, KnownObject, AtObject, Reading, Running,
              Raise, End
<1>2. CASE file_chunk
  <2>1. PICK n, more : Running("unpack_yaffs") /\ job' = [job EXCEPT !.next = n, !.left = more]
    BY <1>2 DEF file_chunk, Reading
  <2> QED BY <2>1 DEF Running, JobInv, IsJob, Same
<1>3. CASE stray_chunk
  <2>1. PICK n : Running("unpack_yaffs") /\ job' = [job EXCEPT !.next = n]
    BY <1>3 DEF stray_chunk, Reading
  <2> QED BY <2>1, Changed DEF Running, JobInv
<1>4. CASE yaffs_file \/ yaffs_dir \/ yaffs_slink \/ yaffs_hlink \/ yaffs_special
  <2>1. Running("unpack_yaffs") /\ \E path, more, reported : NextObject(path, more, reported)
    BY <1>4 DEF yaffs_file, yaffs_dir, yaffs_slink, yaffs_hlink, yaffs_special, LinkTo, link_fails,
                KnownObject, AtObject, Reading
  <2>2. PICK path, more, reported : NextObject(path, more, reported)
    BY <2>1
  <2> DEFINE n     == job.next + 1
             list  == (Chunk.objectid :> ObjectPath) @@ job.filelist
             names == job.reported \cup reported
  <2>3. job' = [job EXCEPT !.next = n, !.filelist = list, !.path = path, !.left = more,
                           !.reported = names]
    BY <2>2, Zenon DEF NextObject
  <2> HIDE DEF n, list, names
  <2> DEFINE a == [job EXCEPT !.next = n, !.filelist = list, !.path = path]
             b == [a EXCEPT !.left = more]
  <2>4. Same(job, a)
    BY DEF JobInv, IsJob, Same
  <2>5. job' = [b EXCEPT !.reported = names]
    BY <2>3
  <2> HIDE DEF a
  <2>6. Same(a, b)
    BY <2>4, Changed DEF Same
  <2> HIDE DEF b
  <2>7. Same(b, job')
    BY <2>5, <2>6, Changed DEF Same
  <2> QED BY <2>1, <2>4, <2>6, <2>7 DEF Running, Same
<1> QED BY <1>1, <1>2, <1>3, <1>4 DEF YaffsStep

LEMMA UpdataFrame ==
    ASSUME JobInv, UpdataStep
    PROVE  job.cmd = "unpack_updata" /\ (job' = Idle \/ Same(job, job'))
<1>1. CASE updata_zeros
  BY <1>1 DEF updata_zeros, Between, Searching, Running, IsJob, Same
<1>2. CASE updata_packet
  BY <1>2 DEF updata_packet, Between, Running, IsJob, Same
<1>3. CASE updata_packet_fails \/ updata_invalid \/ updata_end \/ updata_block_fails
  BY <1>3 DEF updata_packet_fails, updata_invalid, updata_end, updata_block_fails, Between, Inside, Running, Raise, End
<1>4. CASE updata_block
  <2>1. PICK done, header :
           Running("unpack_updata") /\ job' = [job EXCEPT !.done = done, !.header = header]
    BY <1>4 DEF updata_block, Inside
  <2> QED BY <2>1 DEF Running, JobInv, IsJob, Same
<1>5. CASE updata_content_end
  BY <1>5 DEF updata_content_end, Inside, Searching, Running, IsJob, Same
<1> QED BY <1>1, <1>2, <1>3, <1>4, <1>5 DEF UpdataStep

LEMMA PictureFrame ==
    ASSUME JobInv, SplashStep
    PROVE  job.cmd \in PictureJobs /\ (job' = Idle \/ Same(job, job'))
<1>1. CASE parse_rle \/ parse_565 \/ write_565
  <2>1. PICK n : job.cmd \in PictureJobs /\ job' = [job EXCEPT !.next = n]
    BY <1>1 DEF parse_rle, parse_565, write_565, Turn, Running, Next1, PictureJobs
  <2> QED BY <2>1, Changed DEF JobInv
<1>2. CASE write_rle_first \/ write_rle_same \/ write_rle_run
  <2>1. Running("repack_rle") /\ \E n, c, count : job' = Counting(n, c, count)
    BY <1>2 DEF write_rle_first, write_rle_same, write_rle_run, Turn, NextPixel
  <2>2. Same(job, job')
    BY <2>1 DEF Counting, IsJob, Same, Running
  <2> QED BY <2>1, <2>2 DEF Running, PictureJobs
<1>4. CASE write_rle_end \/ end_of_picture
  BY <1>4 DEF write_rle_end, end_of_picture, Ended, Running, Raise, End, PictureJobs
<1>5. ASSUME NEW cmd \in PictureJobs, NEW input, half_item(cmd, input)
      PROVE  job.cmd \in PictureJobs /\ job' = Idle
  BY <1>5 DEF half_item, Turn, Running, Raise
<1> QED BY <1>1, <1>2, <1>4, <1>5 DEF SplashStep, PictureJobs

\* What a step does to the command that runs.
LEMMA StepFrame ==
    ASSUME JobInv, [Next]_toolVars
    PROVE  /\ JobInv'
           /\ \/ UNCHANGED dirVars
              \/ job = Idle /\ job'.cmd \in Jobs \ (PictureJobs \cup {"unpack_updata"})
              \/ job = Idle /\ (SplashCommand \/ UpdataCommand)
              \/ job.cmd \in RamdiskJobs \cup {"unpack_yaffs"} /\ job'.cmd \in {job.cmd, "none"}
              \/ SplashStep
              \/ UpdataStep
<1>1. CASE Command /\ boot_image
  <2>1. job = Idle /\ job' = Idle
    BY <1>1 DEF Command, boot_image, unpack_bootimg, repack_bootimg, Raise, End
  <2> QED BY <2>1, IdleIsJob DEF JobInv, Jobs, PictureJobs
<1>2. CASE Command /\ (ramdisk_command \/ user)
  <2>1. job = Idle /\ (job' = Idle \/ (IsJob(job') /\ job'.cmd \in RamdiskJobs))
    <3>1. CASE \E ramdisk : unpack_ramdisk(ramdisk)
      BY <3>1 DEF unpack_ramdisk, Raise, Start, IsJob, RamdiskJobs
    <3>2. CASE repack_ramdisk
      BY <3>2 DEF repack_ramdisk, Start, IsJob, RamdiskJobs
    <3>4. CASE repack_without_list
      BY <3>4 DEF repack_without_list, Raise
    <3>3. CASE user
      BY <3>3 DEF user, edit, remove
    <3> QED BY <1>2, <3>1, <3>2, <3>3, <3>4 DEF ramdisk_command
  <2> QED BY <2>1, IdleIsJob DEF JobInv, Jobs, PictureJobs, RamdiskJobs
<1>3. CASE Command /\ SplashCommand
  <2>1. job = Idle /\ IsJob(job') /\ job'.cmd \in PictureJobs
    BY <1>3 DEF Command, SplashCommand, unpack_rle, repack_rle, unpack_565, repack_565, Convert, Start,
                Counting, PictureJobs, IsJob
  <2> QED BY <1>3, <2>1 DEF JobInv, Jobs
<1>4. CASE Command /\ UpdataCommand
  <2>1. PICK debug \in BOOLEAN : unpack_updata(debug)
    BY <1>4 DEF UpdataCommand
  <2>2. job = Idle /\ IsJob(job') /\ job'.cmd = "unpack_updata"
    BY <2>1 DEF unpack_updata, Searching, Start, IsJob
  <2> QED BY <1>4, <2>2 DEF JobInv, Jobs
<1>5. CASE Command /\ unpack_yaffs
  <2>1. job = Idle /\ (job' = Idle \/ (IsJob(job') /\ job'.cmd = "unpack_yaffs"))
    BY <1>5 DEF Command, unpack_yaffs, Start, Raise, IsJob
  <2> QED BY <2>1, IdleIsJob DEF JobInv, Jobs, PictureJobs
<1>6. CASE RamdiskStep
  BY <1>6, RamdiskFrame, IdleIsJob DEF JobInv, Jobs, Same
<1>7. CASE SplashStep
  BY <1>7, PictureFrame, IdleIsJob DEF JobInv, Jobs, Same
<1>8. CASE UpdataStep
  BY <1>8, UpdataFrame, IdleIsJob DEF JobInv, Jobs, Same
<1>9. CASE YaffsStep
  BY <1>9, YaffsFrame, IdleIsJob DEF JobInv, Jobs, Same
<1>10. CASE UNCHANGED toolVars
  BY <1>10 DEF toolVars, dirVars, JobInv
<1> QED BY <1>1, <1>2, <1>3, <1>4, <1>5, <1>6, <1>7, <1>8, <1>9, <1>10 DEF Next, Step

-----------------------------------------------------------------------------
(* Pictures                                                                *)

LEMMA ColourOf ==
    ASSUME NEW p \in Pixels
    PROVE  rgb565(p) \in Colour
<1> DEFINE r == p[1] \div 8
           g == p[2] \div 4
           b == p[3] \div 8
<1>1. r \in 0 .. 31 /\ g \in 0 .. 63 /\ b \in 0 .. 31
  BY DEF Pixels
<1>2. rgb565(p) = Coloured(r, g, b)
  BY DEF rgb565, Coloured
<1> HIDE DEF r, g, b
<1>3. <<r, g, b>> \in (0 .. 31) \X (0 .. 63) \X (0 .. 31)
  BY <1>1
<1> DEFINE c == <<r, g, b>>
<1>4. rgb565(p) = Coloured(c[1], c[2], c[3])
  BY <1>2
<1> QED BY <1>3, <1>4, Zenon DEF Colour

\* The parts of a colour.
Red(x)   == x \div 2048
Green(x) == (x \div 32) % 64
Blue(x)  == x % 32

HasParts(x, r, g, b) == Red(x) = r /\ Green(x) = g /\ Blue(x) = b

LEMMA PartsOfColour ==
    ASSUME NEW r \in 0 .. 31, NEW g \in 0 .. 63, NEW b \in 0 .. 31, NEW x, x = Coloured(r, g, b)
    PROVE  HasParts(x, r, g, b)
<1> DEFINE low == g * 32 + b
           h == r * 64 + g
<1>1. x = r * 2048 + low /\ low \in 0 .. (2048 - 1) /\ r \in Int /\ 2048 \in Nat \ {0}
  BY DEF Coloured
<1>2. x = h * 32 + b /\ h \in Int /\ b \in 0 .. (32 - 1)
  BY DEF Coloured
<1>3. x \div 2048 = r
  <2> HIDE DEF low
  <2> DEFINE k == 2048
  <2>1. x = r * k + low /\ low \in 0 .. (k - 1) /\ r \in Int /\ k \in Nat \ {0}
    BY <1>1
  <2> HIDE DEF k
  <2>2. x \div k = r
    BY <2>1, UniqueDivision
  <2> QED BY <2>2 DEF k
<1>4. h % 64 = g
  <2> DEFINE k == 64
  <2>1. h = r * k + g /\ g \in 0 .. (k - 1) /\ r \in Int /\ k \in Nat \ {0}
    OBVIOUS
  <2> HIDE DEF h, k
  <2>2. h % k = g
    BY <2>1, UniqueDivision
  <2> QED BY <2>2 DEF k
<1> HIDE DEF h
<1>5. x \div 32 = h /\ x % 32 = b
  <2> DEFINE k == 32
  <2>1. x = h * k + b /\ b \in 0 .. (k - 1) /\ h \in Int /\ k \in Nat \ {0}
    BY <1>2
  <2> HIDE DEF k
  <2>2. x \div k = h /\ x % k = b
    BY <2>1, UniqueDivision
  <2> QED BY <2>2 DEF k
<1> DEFINE y == x \div 32
<1>6. y = h /\ x % 32 = b
  BY <1>5
<1> HIDE DEF y
<1>7. y % 64 = g
  BY <1>4, <1>6
<1> QED BY <1>3, <1>6, <1>7 DEF y, HasParts, Red, Green, Blue

\* A colour of two bytes loses nothing in three.
LEMMA TwoBytesInThree ==
    ASSUME NEW x \in Colour
    PROVE  rgb888(x) \in Pixels /\ rgb565(rgb888(x)) = x
<1>1. PICK r \in 0 .. 31, g \in 0 .. 63, b \in 0 .. 31 : x = Coloured(r, g, b)
  BY ZenonT(60) DEF Colour
<1> DEFINE p == <<r * 8, g * 4, b * 8>>
<1>2. rgb888(x) = <<(Red(x) % 32) * 8, Green(x) * 4, Blue(x) * 8>>
  BY DEF rgb888, Red, Green, Blue
<1>3. Red(x) = r /\ Green(x) = g /\ Blue(x) = b
  BY <1>1, PartsOfColour, ZenonT(30) DEF HasParts
<1>4. rgb888(x) = p
  BY <1>2, <1>3
<1>5. p \in Pixels
  <2>1. r * 8 \in 0 .. 255 /\ g * 4 \in 0 .. 255 /\ b * 8 \in 0 .. 255
    OBVIOUS
  <2>2. p \in [1 .. 3 -> 0 .. 255]
    BY <2>1
  <2> QED BY <2>2 DEF Pixels
<1>6. p[1] \div 8 = r /\ p[2] \div 4 = g /\ p[3] \div 8 = b
  OBVIOUS
<1> HIDE DEF p
<1> DEFINE k == p[1] \div 8
           l == p[2] \div 4
           m == p[3] \div 8
<1>7. rgb565(p) = Coloured(k, l, m)
  BY DEF rgb565, Coloured
<1>8. k = r /\ l = g /\ m = b
  BY <1>6
<1> HIDE DEF k, l, m
<1> QED BY <1>1, <1>4, <1>5, <1>7, <1>8

\* What one run stands for.
Spread(r) == [n \in 1 .. r[1] |-> r[2]]

LEMMA SpreadFacts ==
    ASSUME NEW r \in Run
    PROVE  /\ Spread(r) \in Seq(Colour) /\ Len(Spread(r)) = r[1] /\ r[1] \in Nat /\ r[2] \in Colour
           /\ \A n \in 1 .. r[1] : Spread(r)[n] = r[2]
<1>1. r[1] \in Nat /\ r[2] \in Colour
  BY DEF Run
<1> QED BY <1>1 DEF Spread

LEMMA PixelsJoined ==
    ASSUME NEW s \in Seq(Colour), NEW t \in Seq(Colour)
    PROVE  /\ s \o t \in Seq(Colour) /\ Len(s \o t) = Len(s) + Len(t)
           /\ \A n \in 1 .. (Len(s) + Len(t)) :
                 (s \o t)[n] = IF n <= Len(s) THEN s[n] ELSE t[n - Len(s)]
BY ConcatProperties

\* The pixels of the first runs.
Grows(g, runs) ==
    /\ g \in [0 .. Len(runs) -> Seq(Colour)] /\ g[0] = <<>>
    /\ \A m \in 1 .. Len(runs) : g[m] = g[m - 1] \o Spread(runs[m])

\* What Expanded chooses.
IsExpanded(f, runs) ==
    f = [k \in 0 .. Len(runs) |->
            IF k = 0 THEN <<>> ELSE f[k - 1] \o [n \in 1 .. runs[k][1] |-> runs[k][2]]]

LEMMA ExpandedIs ==
    ASSUME NEW runs \in Seq(Run), NEW g, Grows(g, runs)
    PROVE  Expanded(runs) = g[Len(runs)]
<1> DEFINE n == Len(runs)
           c == CHOOSE f : IsExpanded(f, runs)
<1>1. n \in Nat
  OBVIOUS
<1>2. Expanded(runs) = c[n]
  BY DEF Expanded, IsExpanded
<1>3. IsExpanded(g, runs)
  <2>1. ASSUME NEW k \in 0 .. n
        PROVE  g[k] = IF k = 0 THEN <<>> ELSE g[k - 1] \o Spread(runs[k])
    <3>1. CASE k = 0
      BY <3>1 DEF Grows
    <3>2. CASE k # 0
      <4>1. k \in 1 .. n
        BY <1>1, <3>2
      <4> QED BY <3>2, <4>1 DEF Grows
    <3> QED BY <3>1, <3>2
  <2> DEFINE f == [k \in 0 .. n |-> IF k = 0 THEN <<>> ELSE g[k - 1] \o Spread(runs[k])]
  <2>2. g = [k \in 0 .. n |-> g[k]]
    BY DEF Grows
  <2>3. g = f
    BY <2>1, <2>2, Zenon
  <2> QED BY <2>3 DEF IsExpanded, Spread
<1>4. IsExpanded(c, runs)
  BY <1>3
<1> HIDE DEF c
<1>5. ASSUME NEW k \in 0 .. n
      PROVE  c[k] = IF k = 0 THEN <<>> ELSE c[k - 1] \o Spread(runs[k])
  <2> DEFINE V(l) == IF l = 0 THEN <<>> ELSE c[l - 1] \o Spread(runs[l])
  <2>1. c = [l \in 0 .. n |-> V(l)]
    BY <1>4 DEF IsExpanded, Spread
  <2> HIDE DEF V
  <2>2. c[k] = V(k)
    BY <2>1
  <2> QED BY <2>2 DEF V
<1> DEFINE S == {k \in 0 .. n : c[k] = g[k]}
<1> HIDE DEF n
<1>6. 0 \in S
  <2>1. 0 \in 0 .. n
    BY <1>1
  <2> QED BY <1>5, <2>1 DEF Grows
<1>7. ASSUME NEW k \in 0 .. (n - 1), k \in S PROVE k + 1 \in S
  <2>1. k + 1 \in 1 .. n /\ k + 1 \in 0 .. n /\ (k + 1) - 1 = k /\ k + 1 # 0
    BY <1>1
  <2>2. c[k + 1] = c[k] \o Spread(runs[k + 1])
    BY <1>5, <2>1
  <2>3. g[k + 1] = g[k] \o Spread(runs[k + 1])
    BY <2>1 DEF Grows, n
  <2> QED BY <1>7, <2>1, <2>2, <2>3
<1> HIDE DEF S
<1>8. \A k \in 0 .. n : k \in S
  BY <1>1, <1>6, <1>7, BoundedInduction
<1>9. n \in S
  BY <1>1, <1>8
<1> QED BY <1>2, <1>9 DEF S, n

LEMMA Closed == \A s, t \in Seq(Colour) : s \o t \in Seq(Colour)
BY PixelsJoined

LEMMA GrowsExists ==
    ASSUME NEW runs \in Seq(Run)
    PROVE  \E g : Grows(g, runs)
<1> DEFINE n == Len(runs)
           V == Seq(Colour)
           step == [kv \in (1 .. n) \X V |-> kv[2] \o Spread(runs[kv[1]])]
<1>1. n \in Nat /\ <<>> \in V /\ \A k \in 1 .. n : Spread(runs[k]) \in V
  BY SpreadFacts
<1>2. \A k \in 1 .. n : \A v \in V : step[<<k, v>>] = v \o Spread(runs[k])
  OBVIOUS
<1> HIDE DEF step
<1>3. IsStep(step, n, V)
  BY <1>1, <1>2, Closed, ZenonT(60) DEF IsStep
<1>4. PICK g \in [0 .. n -> V] : BuiltBy(g, n, <<>>, step)
  BY <1>1, <1>3, Recursion
<1>5. ASSUME NEW k \in 1 .. n PROVE g[k] = g[k - 1] \o Spread(runs[k])
  <2>1. k - 1 \in 0 .. n
    BY <1>1
  <2> QED BY <1>2, <1>4, <2>1 DEF BuiltBy
<1>6. Grows(g, runs)
  BY <1>4, <1>5 DEF Grows, BuiltBy
<1> QED BY <1>6

LEMMA ExpandedAppended ==
    ASSUME NEW runs \in Seq(Run), NEW r \in Run
    PROVE  /\ Expanded(runs) \in Seq(Colour)
           /\ Expanded(Append(runs, r)) = Expanded(runs) \o Spread(r)
<1> DEFINE n == Len(runs)
           more == Append(runs, r)
<1>1. /\ n \in Nat /\ more \in Seq(Run) /\ Len(more) = n + 1 /\ more[n + 1] = r
      /\ \A k \in 1 .. n : more[k] = runs[k]
  OBVIOUS
<1>2. PICK g : Grows(g, runs)
  BY GrowsExists
<1>3. PICK h : Grows(h, more)
  BY <1>1, GrowsExists
<1>4. Expanded(runs) = g[n] /\ Expanded(more) = h[n + 1]
  BY <1>1, <1>2, <1>3, ExpandedIs
<1> HIDE DEF more
<1> DEFINE S == {k \in 0 .. n : g[k] = h[k]}
<1>5. 0 \in S
  BY <1>1, <1>2, <1>3 DEF Grows
<1>6. ASSUME NEW k \in 0 .. (n - 1), k \in S PROVE k + 1 \in S
  <2>1. k + 1 \in 1 .. n /\ k + 1 \in 1 .. (n + 1) /\ k + 1 \in 0 .. n /\ (k + 1) - 1 = k
    BY <1>1
  <2>2. g[k + 1] = g[k] \o Spread(runs[k + 1]) /\ h[k + 1] = h[k] \o Spread(more[k + 1])
    BY <1>1, <1>2, <1>3, <2>1 DEF Grows
  <2> QED BY <1>1, <1>6, <2>1, <2>2
<1> HIDE DEF S
<1>7. n \in S
  <2>1. n \in Nat
    BY <1>1
  <2> HIDE DEF n
  <2>2. \A k \in 0 .. n : k \in S
    BY <1>5, <1>6, <2>1, BoundedInduction
  <2> QED BY <2>1, <2>2
<1>8. h[n + 1] = h[n] \o Spread(r)
  <2>1. n + 1 \in 1 .. (n + 1) /\ (n + 1) - 1 = n
    BY <1>1
  <2> QED BY <1>1, <1>3, <2>1 DEF Grows
<1>9. g[n] \in Seq(Colour)
  BY <1>1, <1>2 DEF Grows
<1> QED BY <1>4, <1>7, <1>8, <1>9 DEF S, more

LEMMA ExpandedNothing == Expanded(<<>>) = <<>>
<1>1. <<>> \in Seq(Run) /\ Len(<<>>) = 0
  OBVIOUS
<1>2. PICK g : Grows(g, <<>>)
  BY <1>1, GrowsExists
<1> QED BY <1>1, <1>2, ExpandedIs DEF Grows


-----------------------------------------------------------------------------
(* What is converted so far                                                *)

LEMMA ColoursOf ==
    ASSUME NEW raw \in Seq(Pixels)
    PROVE  /\ Colours(raw) \in Seq(Colour) /\ Len(Colours(raw)) = Len(raw)
           /\ \A k \in 1 .. Len(raw) : Colours(raw)[k] = rgb565(raw[k])
<1>1. \A k \in 1 .. Len(raw) : rgb565(raw[k]) \in Colour
  BY ColourOf
<1>2. DOMAIN raw = 1 .. Len(raw) /\ Len(raw) \in Nat
  OBVIOUS
<1> DEFINE c(k) == rgb565(raw[k])
<1>3. Colours(raw) = [k \in 1 .. Len(raw) |-> c(k)]
  BY <1>2 DEF Colours
<1>4. \A k \in 1 .. Len(raw) : c(k) \in Colour
  BY <1>1
<1> HIDE DEF c
<1>5. [k \in 1 .. Len(raw) |-> c(k)] \in Seq(Colour)
  BY <1>2, <1>4
<1> QED BY <1>2, <1>3, <1>5 DEF c

LEMMA ColoursJoined ==
    ASSUME NEW raw \in Seq(Pixels), NEW more \in Seq(Pixels)
    PROVE  raw \o more \in Seq(Pixels) /\ Colours(raw \o more) = Colours(raw) \o Colours(more)
<1> DEFINE all == raw \o more
           n == Len(raw)
           m == Len(more)
           a == Colours(all)
           c == Colours(raw)
           d == Colours(more)
           b == c \o d
<1>1. /\ all \in Seq(Pixels) /\ Len(all) = n + m /\ n \in Nat /\ m \in Nat
      /\ \A k \in 1 .. (n + m) : all[k] = IF k <= n THEN raw[k] ELSE more[k - n]
  BY ConcatProperties
<1> HIDE DEF all
<1>2. /\ a \in Seq(Colour) /\ Len(a) = n + m
      /\ \A k \in 1 .. (n + m) : a[k] = rgb565(all[k])
  BY <1>1, ColoursOf
<1>3. /\ c \in Seq(Colour) /\ Len(c) = n
      /\ d \in Seq(Colour) /\ Len(d) = m
      /\ \A k \in 1 .. n : c[k] = rgb565(raw[k])
      /\ \A k \in 1 .. m : d[k] = rgb565(more[k])
  BY ColoursOf
<1> HIDE DEF a, c, d, n, m
<1>4. /\ b \in Seq(Colour) /\ Len(b) = n + m
      /\ \A k \in 1 .. (n + m) : b[k] = IF k <= n THEN c[k] ELSE d[k - n]
  BY <1>3, PixelsJoined
<1> HIDE DEF b
<1>5. ASSUME NEW k \in 1 .. (n + m) PROVE a[k] = b[k]
  <2>1. CASE k <= n
    <3>1. k \in 1 .. n
      BY <1>1, <2>1
    <3>2. a[k] = rgb565(raw[k])
      BY <1>1, <1>2, <2>1
    <3>3. b[k] = rgb565(raw[k])
      BY <1>3, <1>4, <2>1, <3>1
    <3> QED BY <3>2, <3>3
  <2>2. CASE ~(k <= n)
    <3>1. k - n \in 1 .. m
      BY <1>1, <2>2
    <3>2. a[k] = rgb565(more[k - n])
      BY <1>1, <1>2, <2>2
    <3>3. b[k] = rgb565(more[k - n])
      BY <1>3, <1>4, <2>2, <3>1
    <3> QED BY <3>2, <3>3
  <2> QED BY <2>1, <2>2
<1>6. a = b
  BY <1>1, <1>2, <1>4, <1>5, SeqEqual
<1> QED BY <1>1, <1>6 DEF a, b, c, d, all

\* The first n - 1 items of a file are whole.
Whole(file, n, S) == n \in 1 .. (Len(file) + 1) /\ SubSeq(file, 1, n - 1) \in Seq(S)

LEMMA WholeGrows ==
    ASSUME NEW S, NEW file \in Seq(S \cup {Half}), NEW n, Whole(file, n, S), n <= Len(file),
           file[n] # Half
    PROVE  /\ Whole(file, n + 1, S) /\ file[n] \in S /\ (n + 1) - 1 = n
           /\ SubSeq(file, 1, n) = Append(SubSeq(file, 1, n - 1), file[n])
<1>1. n \in Nat /\ n \in 1 .. Len(file) /\ Len(file) \in Nat
  BY DEF Whole
<1>2. file[n] \in S
  BY <1>1
<1> DEFINE a == SubSeq(file, 1, n - 1)
           b == SubSeq(file, 1, n)
<1>3. /\ a \in Seq(S) /\ Len(a) = n - 1 /\ \A k \in 1 .. (n - 1) : a[k] = file[k]
      /\ b \in Seq(S \cup {Half}) /\ Len(b) = n /\ \A k \in 1 .. n : b[k] = file[k]
  BY <1>1 DEF Whole
<1> HIDE DEF a, b
<1>4. b = Append(a, file[n])
  <2>1. /\ Append(a, file[n]) \in Seq(S \cup {Half}) /\ Len(Append(a, file[n])) = n
        /\ \A k \in 1 .. n : Append(a, file[n])[k] = file[k]
    BY <1>1, <1>2, <1>3
  <2> QED BY <1>1, <1>3, <2>1, SeqEqual
<1>5. b \in Seq(S)
  BY <1>2, <1>3, <1>4
<1> QED BY <1>1, <1>2, <1>4, <1>5 DEF a, b, Whole

LEMMA WholeStarts ==
    ASSUME NEW S, NEW file \in Seq(S \cup {Half})
    PROVE  Whole(file, 1, S) /\ SubSeq(file, 1, 1 - 1) = <<>>
<1>1. SubSeq(file, 1, 0) = <<>> /\ 1 - 1 = 0 /\ 1 \in 1 .. (Len(file) + 1)
  OBVIOUS
<1> QED BY <1>1 DEF Whole

LEMMA WholeEnds ==
    ASSUME NEW S, NEW file \in Seq(S \cup {Half}), NEW n, Whole(file, n, S), n > Len(file)
    PROVE  file \in Seq(S) /\ SubSeq(file, 1, n - 1) = file
<1>1. n - 1 = Len(file) /\ Len(file) \in Nat
  BY DEF Whole
<1>2. SubSeq(file, 1, Len(file)) = file
  OBVIOUS
<1> QED BY <1>1, <1>2 DEF Whole

\* unpack_rle
RawSoFar(rle, n, raw) ==
    /\ Whole(rle, n, Run) /\ raw \in Seq(Pixels)
    /\ Colours(raw) = Expanded(SubSeq(rle, 1, n - 1))

LEMMA ColoursNothing == Colours(<<>>) = <<>>
BY DEF Colours

LEMMA RawStarts ==
    ASSUME NEW rle \in Seq(Run \cup {Half})
    PROVE  RawSoFar(rle, 1, <<>>)
<1>1. Whole(rle, 1, Run) /\ SubSeq(rle, 1, 1 - 1) = <<>>
  BY WholeStarts
<1>2. <<>> \in Seq(Pixels) /\ Colours(<<>>) = Expanded(<<>>)
  BY ColoursNothing, ExpandedNothing
<1> QED BY <1>1, <1>2, Zenon DEF RawSoFar

LEMMA RawGrows ==
    ASSUME NEW rle \in Seq(Run \cup {Half}), NEW n, NEW raw, RawSoFar(rle, n, raw), n <= Len(rle),
           rle[n] # Half
    PROVE  RawSoFar(rle, n + 1, raw \o [k \in 1 .. rle[n][1] |-> rgb888(rle[n][2])])
<1> DEFINE more == [k \in 1 .. rle[n][1] |-> rgb888(rle[n][2])]
           runs == SubSeq(rle, 1, n - 1)
<1>1. /\ Whole(rle, n + 1, Run) /\ rle[n] \in Run /\ (n + 1) - 1 = n /\ runs \in Seq(Run)
      /\ SubSeq(rle, 1, n) = Append(runs, rle[n])
  BY WholeGrows DEF RawSoFar, Whole
<1>2. rle[n][1] \in Nat /\ rle[n][2] \in Colour
  BY <1>1, SpreadFacts
<1>3. rgb888(rle[n][2]) \in Pixels /\ rgb565(rgb888(rle[n][2])) = rle[n][2]
  BY <1>2, TwoBytesInThree
<1>4. more \in Seq(Pixels) /\ Len(more) = rle[n][1] /\ \A k \in 1 .. rle[n][1] : more[k] = rgb888(rle[n][2])
  <2> DEFINE l == rle[n][1]
             p == rgb888(rle[n][2])
  <2>1. l \in Nat /\ p \in Pixels
    BY <1>2, <1>3
  <2> HIDE DEF l, p
  <2> DEFINE s == [k \in 1 .. l |-> p]
  <2>2. s \in Seq(Pixels) /\ Len(s) = l /\ \A k \in 1 .. l : s[k] = p
    BY <2>1
  <2> QED BY <2>2 DEF l, p
<1> HIDE DEF more, runs
<1>5. Colours(more) = Spread(rle[n])
  <2>1. /\ Colours(more) \in Seq(Colour) /\ Len(Colours(more)) = rle[n][1]
        /\ \A k \in 1 .. rle[n][1] : Colours(more)[k] = rle[n][2]
    BY <1>3, <1>4, ColoursOf
  <2>2. /\ Spread(rle[n]) \in Seq(Colour) /\ Len(Spread(rle[n])) = rle[n][1]
        /\ \A k \in 1 .. rle[n][1] : Spread(rle[n])[k] = rle[n][2]
    BY <1>1, SpreadFacts
  <2> QED BY <2>1, <2>2, SeqEqual
<1>6. raw \in Seq(Pixels) /\ Colours(raw) = Expanded(runs)
  BY DEF RawSoFar, runs
<1>7. raw \o more \in Seq(Pixels) /\ Colours(raw \o more) = Expanded(runs) \o Spread(rle[n])
  BY <1>4, <1>5, <1>6, ColoursJoined
<1>8. Expanded(SubSeq(rle, 1, n)) = Expanded(runs) \o Spread(rle[n])
  BY <1>1, ExpandedAppended
<1> QED BY <1>1, <1>7, <1>8 DEF RawSoFar, more

LEMMA RawEnds ==
    ASSUME NEW rle \in Seq(Run \cup {Half}), NEW n, NEW raw, RawSoFar(rle, n, raw), n > Len(rle)
    PROVE  Colours(raw) = Expanded(rle)
BY WholeEnds DEF RawSoFar

LEMMA OnePixel ==
    ASSUME NEW p \in Pixels
    PROVE  Colours(<<p>>) = <<rgb565(p)>>
<1> DEFINE one == <<p>>
           d   == Colours(one)
<1>1. one \in Seq(Pixels) /\ Len(one) = 1 /\ one[1] = p
  OBVIOUS
<1> HIDE DEF one
<1>2. d \in Seq(Colour) /\ Len(d) = 1 /\ d[1] = rgb565(p)
  BY <1>1, ColoursOf
<1> HIDE DEF d
<1>3. d = <<rgb565(p)>>
  BY <1>2
<1> QED BY <1>3 DEF d, one

\* repack_rle
GoodRuns(runs, pixels) ==
    /\ runs \in Seq(Run) /\ Expanded(runs) = pixels
    /\ \A k \in DOMAIN runs : runs[k][1] \in 1 .. MaxRun
    /\ \A k \in 1 .. (Len(runs) - 1) : runs[k][2] = runs[k + 1][2] => runs[k][1] = MaxRun

LEMMA RunOf ==
    ASSUME NEW count \in 1 .. MaxRun, NEW c \in Colour
    PROVE  <<count, c>> \in Run
BY RunsCount DEF Run

LEMMA AppendedRun ==
    ASSUME NEW runs \in Seq(Run), NEW r \in Run
    PROVE  LET more == Append(runs, r) IN
           /\ more \in Seq(Run) /\ Len(more) = Len(runs) + 1 /\ Len(runs) \in Nat
           /\ DOMAIN more = 1 .. (Len(runs) + 1) /\ DOMAIN runs = 1 .. Len(runs)
           /\ more[Len(runs) + 1] = r /\ \A k \in 1 .. Len(runs) : more[k] = runs[k]
OBVIOUS

LEMMA ColourAppended ==
    ASSUME NEW s \in Seq(Colour), NEW t \in Seq(Colour), NEW c \in Colour
    PROVE  /\ s \o Append(t, c) = Append(s \o t, c) /\ s \o <<c>> = Append(s, c)
           /\ Append(s, c) \in Seq(Colour)
<1> DEFINE u == Append(t, c)
           a == s \o u
           st == s \o t
           b == Append(st, c)
           n == Len(s)
           m == Len(t)
<1>1. /\ u \in Seq(Colour) /\ Len(u) = m + 1 /\ m \in Nat /\ n \in Nat
      /\ u[m + 1] = c /\ \A k \in 1 .. m : u[k] = t[k]
  OBVIOUS
<1> HIDE DEF u, n, m
<1>2. /\ a \in Seq(Colour) /\ Len(a) = n + (m + 1)
      /\ \A k \in 1 .. (n + (m + 1)) : a[k] = IF k <= n THEN s[k] ELSE u[k - n]
  <2>1. /\ a \in Seq(Colour) /\ Len(a) = n + Len(u)
        /\ \A k \in 1 .. (n + Len(u)) : a[k] = IF k <= n THEN s[k] ELSE u[k - n]
    BY <1>1, PixelsJoined DEF n
  <2> QED BY <1>1, <2>1
<1>3. /\ st \in Seq(Colour) /\ Len(st) = n + m
      /\ \A k \in 1 .. (n + m) : st[k] = IF k <= n THEN s[k] ELSE t[k - n]
  BY PixelsJoined DEF n, m
<1> HIDE DEF a, st
<1>4. /\ b \in Seq(Colour) /\ Len(b) = n + m + 1 /\ b[n + m + 1] = c
      /\ \A k \in 1 .. (n + m) : b[k] = st[k]
  BY <1>1, <1>3
<1> HIDE DEF b
<1>5. ASSUME NEW k \in 1 .. (n + (m + 1)) PROVE a[k] = b[k]
  <2>1. CASE k = n + m + 1
    <3>1. k - n = m + 1 /\ ~(k <= n)
      BY <1>1, <2>1
    <3> QED BY <1>1, <1>2, <1>4, <2>1, <3>1
  <2>2. CASE k # n + m + 1
    <3>1. k \in 1 .. (n + m) /\ (k <= n \/ k - n \in 1 .. m)
      BY <1>1, <2>2
    <3>2. a[k] = st[k]
      <4>1. CASE k <= n
        BY <1>2, <1>3, <3>1, <4>1
      <4>2. CASE ~(k <= n)
        BY <1>1, <1>2, <1>3, <3>1, <4>2
      <4> QED BY <4>1, <4>2
    <3> QED BY <1>4, <3>1, <3>2
  <2> QED BY <2>1, <2>2
<1>6. Len(a) = Len(b)
  BY <1>1, <1>2, <1>4
<1>7. a = b
  BY <1>2, <1>4, <1>5, <1>6, SeqEqual
<1>8. s \o <<c>> = Append(s, c) /\ Append(s, c) \in Seq(Colour)
  OBVIOUS
<1> QED BY <1>7, <1>8 DEF a, b, u, st

LEMMA SpreadMore ==
    ASSUME NEW count \in Nat, NEW c \in Colour
    PROVE  /\ Spread(<<count + 1, c>>) = Append(Spread(<<count, c>>), c)
           /\ Spread(<<1, c>>) = <<c>>
<1> DEFINE s == Spread(<<count, c>>)
           t == Spread(<<count + 1, c>>)
           u == Spread(<<1, c>>)
<1>1. <<count, c>> \in Run /\ <<count + 1, c>> \in Run /\ <<1, c>> \in Run
  BY DEF Run
<1>2. s \in Seq(Colour) /\ Len(s) = count /\ \A n \in 1 .. count : s[n] = c
  BY <1>1, SpreadFacts
<1>3. t \in Seq(Colour) /\ Len(t) = count + 1 /\ \A n \in 1 .. (count + 1) : t[n] = c
  BY <1>1, SpreadFacts
<1>4. u \in Seq(Colour) /\ Len(u) = 1 /\ \A n \in 1 .. 1 : u[n] = c
  BY <1>1, SpreadFacts
<1> HIDE DEF s, t, u
<1> DEFINE v == Append(s, c)
<1>5. v \in Seq(Colour) /\ Len(v) = count + 1 /\ \A n \in 1 .. (count + 1) : v[n] = c
  BY <1>2
<1> HIDE DEF v
<1>6. t = v
  BY <1>3, <1>5, SeqEqual
<1>7. u = <<c>>
  BY <1>4
<1> QED BY <1>6, <1>7 DEF s, t, u, v

LEMMA OneMore ==
    ASSUME NEW rle \in Seq(Run), NEW count \in 1 .. MaxRun, NEW c \in Colour, NEW pixels,
           GoodRuns(Append(rle, <<count, c>>), pixels), count # MaxRun
    PROVE  count + 1 \in 1 .. MaxRun /\ GoodRuns(Append(rle, <<count + 1, c>>), Append(pixels, c))
<1> DEFINE r == <<count, c>>
           q == <<count + 1, c>>
           old == Append(rle, r)
           new == Append(rle, q)
           n == Len(rle)
<1>1. count \in Nat /\ count + 1 \in 1 .. MaxRun /\ MaxRun \in Nat
  BY RunsCount
<1>2. r \in Run /\ q \in Run /\ r[2] = c /\ q[2] = c /\ q[1] = count + 1
  BY <1>1, RunOf
<1> HIDE DEF r, q
<1>3. /\ old \in Seq(Run) /\ Len(old) = n + 1 /\ DOMAIN old = 1 .. (n + 1) /\ old[n + 1] = r
      /\ \A k \in 1 .. n : old[k] = rle[k]
  BY <1>2, AppendedRun
<1>4. /\ new \in Seq(Run) /\ Len(new) = n + 1 /\ DOMAIN new = 1 .. (n + 1) /\ new[n + 1] = q
      /\ \A k \in 1 .. n : new[k] = rle[k]
  BY <1>2, AppendedRun
<1>5. Expanded(new) = Append(Expanded(old), c)
  <2>1. /\ Expanded(rle) \in Seq(Colour)
        /\ Expanded(old) = Expanded(rle) \o Spread(r) /\ Expanded(new) = Expanded(rle) \o Spread(q)
    BY <1>2, ExpandedAppended
  <2>2. Spread(q) = Append(Spread(r), c) /\ Spread(r) \in Seq(Colour)
    BY <1>1, <1>2, SpreadMore, SpreadFacts DEF r, q
  <2> QED BY <2>1, <2>2, ColourAppended
<1>6. /\ Expanded(old) = pixels /\ \A k \in 1 .. (n + 1) : old[k][1] \in 1 .. MaxRun
      /\ \A k \in 1 .. n : old[k][2] = old[k + 1][2] => old[k][1] = MaxRun
  <2>1. n \in Nat /\ (n + 1) - 1 = n
    OBVIOUS
  <2> QED BY <1>3, <2>1 DEF GoodRuns, r
<1>7. n \in Nat
  OBVIOUS
<1> HIDE DEF old, new, n
<1>8. \A k \in 1 .. (n + 1) : new[k][1] \in 1 .. MaxRun
  BY <1>1, <1>2, <1>3, <1>4, <1>6, <1>7
<1>9. ASSUME NEW k \in 1 .. n, new[k][2] = new[k + 1][2] PROVE new[k][1] = MaxRun
  <2>1. new[k] = old[k] /\ k \in 1 .. n
    BY <1>3, <1>4
  <2>2. new[k + 1][2] = old[k + 1][2]
    <3>1. k + 1 = n + 1 \/ k + 1 \in 1 .. n
      BY <1>7
    <3> QED BY <1>2, <1>3, <1>4, <3>1
  <2> QED BY <1>6, <1>9, <2>1, <2>2
<1>10. (n + 1) - 1 = n
  BY <1>7
<1>11. GoodRuns(new, Append(pixels, c))
  BY <1>4, <1>5, <1>6, <1>8, <1>9, <1>10 DEF GoodRuns
<1> QED BY <1>1, <1>11 DEF new, q

LEMMA NewRun ==
    ASSUME NEW runs, NEW pixels, GoodRuns(runs, pixels), NEW c \in Colour,
           Len(runs) = 0 \/ runs[Len(runs)][2] # c \/ runs[Len(runs)][1] = MaxRun
    PROVE  1 \in 1 .. MaxRun /\ GoodRuns(Append(runs, <<1, c>>), Append(pixels, c))
<1> DEFINE q == <<1, c>>
           new == Append(runs, q)
           n == Len(runs)
<1>1. 1 \in 1 .. MaxRun /\ MaxRun \in Nat
  BY RunsCount
<1>2. q \in Run /\ q[1] = 1 /\ q[2] = c
  BY <1>1, RunOf
<1> HIDE DEF q
<1>3. /\ runs \in Seq(Run) /\ Expanded(runs) = pixels
      /\ \A k \in DOMAIN runs : runs[k][1] \in 1 .. MaxRun
      /\ \A k \in 1 .. (n - 1) : runs[k][2] = runs[k + 1][2] => runs[k][1] = MaxRun
  BY DEF GoodRuns
<1>4. /\ new \in Seq(Run) /\ Len(new) = n + 1 /\ DOMAIN new = 1 .. (n + 1) /\ new[n + 1] = q
      /\ DOMAIN runs = 1 .. n /\ n \in Nat
      /\ \A k \in 1 .. n : new[k] = runs[k]
  BY <1>2, <1>3, AppendedRun
<1>5. Expanded(new) = Append(pixels, c)
  <2>1. Expanded(runs) \in Seq(Colour) /\ Expanded(new) = Expanded(runs) \o Spread(q)
    BY <1>2, <1>3, ExpandedAppended
  <2>2. Spread(q) = <<c>>
    BY SpreadMore DEF q
  <2>3. pixels \in Seq(Colour) /\ pixels \o <<c>> = Append(pixels, c)
    BY <1>3, <2>1, ColourAppended
  <2> QED BY <1>3, <2>1, <2>2, <2>3
<1> HIDE DEF new
<1>6. \A k \in 1 .. (n + 1) : new[k][1] \in 1 .. MaxRun
  <2> TAKE k \in 1 .. (n + 1)
  <2>1. k = n + 1 \/ k \in 1 .. n
    BY <1>4
  <2> QED BY <1>1, <1>2, <1>3, <1>4, <2>1
<1>7. ASSUME NEW k \in 1 .. n, new[k][2] = new[k + 1][2] PROVE new[k][1] = MaxRun
  <2>1. CASE k = n
    <3>1. new[k + 1] = q /\ new[k] = runs[n] /\ n # 0
      BY <1>4, <2>1
    <3> QED BY <1>2, <1>7, <3>1
  <2>2. CASE k # n
    <3>1. k \in 1 .. (n - 1) /\ k + 1 \in 1 .. n
      <4>1. n \in Nat
        BY <1>4
      <4> HIDE DEF n
      <4> QED BY <4>1, <2>2
    <3> QED BY <1>3, <1>4, <1>7, <3>1
  <2> QED BY <2>1, <2>2
<1>8. (n + 1) - 1 = n
  BY <1>4
<1>9. GoodRuns(new, Append(pixels, c))
  BY <1>4, <1>5, <1>6, <1>7, <1>8 DEF GoodRuns
<1> QED BY <1>1, <1>9 DEF new, q

RunsSoFar(raw, n, last, count, rle) ==
    /\ Whole(raw, n, Pixels) /\ rle \in Seq(Run)
    /\ IF last = -1 THEN n = 1 /\ rle = <<>>
       ELSE /\ last \in Colour /\ count \in 1 .. MaxRun
            /\ GoodRuns(Append(rle, <<count, last>>), Colours(SubSeq(raw, 1, n - 1)))

LEMMA NotAColour == \A c \in Colour : c # -1
<1>1. ASSUME NEW c \in Colour PROVE c # -1
  <2>1. PICK t \in (0 .. 31) \X (0 .. 63) \X (0 .. 31) : c = Coloured(t[1], t[2], t[3])
    BY DEF Colour
  <2>2. t[1] \in 0 .. 31 /\ t[2] \in 0 .. 63 /\ t[3] \in 0 .. 31
    OBVIOUS
  <2>3. \A r \in 0 .. 31, g \in 0 .. 63, b \in 0 .. 31 : Coloured(r, g, b) # -1
    BY DEF Coloured
  <2> QED BY <2>1, <2>2, <2>3
<1> QED BY <1>1

LEMMA NoRuns == GoodRuns(<<>>, <<>>)
<1>1. <<>> \in Seq(Run) /\ Expanded(<<>>) = <<>> /\ DOMAIN <<>> = {} /\ Len(<<>>) = 0
  BY ExpandedNothing
<1> QED BY <1>1 DEF GoodRuns

LEMMA RunsStart ==
    ASSUME NEW raw \in Seq(Pixels \cup {Half}), NEW count
    PROVE  RunsSoFar(raw, 1, -1, count, <<>>)
<1>1. Whole(raw, 1, Pixels) /\ <<>> \in Seq(Run)
  BY WholeStarts
<1> QED BY <1>1 DEF RunsSoFar

LEMMA RunsGrow ==
    ASSUME NEW raw \in Seq(Pixels \cup {Half}), NEW n, NEW last, NEW count, NEW rle,
           RunsSoFar(raw, n, last, count, rle), n <= Len(raw), raw[n] # Half
    PROVE  LET c == rgb565(raw[n]) IN
           /\ last = -1 => RunsSoFar(raw, n + 1, c, 1, rle)
           /\ last = c /\ count # MaxRun => RunsSoFar(raw, n + 1, c, count + 1, rle)
           /\ last # -1 /\ ~(last = c /\ count # MaxRun)
              => RunsSoFar(raw, n + 1, c, 1, rle \o <<<<count, last>>>>)
<1> DEFINE c == rgb565(raw[n])
           before == SubSeq(raw, 1, n - 1)
           after  == SubSeq(raw, 1, n)
<1>1. /\ Whole(raw, n + 1, Pixels) /\ raw[n] \in Pixels /\ (n + 1) - 1 = n /\ before \in Seq(Pixels)
      /\ after = Append(before, raw[n]) /\ n \in Nat
  <2>1. Whole(raw, n, Pixels)
    BY DEF RunsSoFar
  <2>2. before \in Seq(Pixels) /\ n \in Nat
    BY <2>1 DEF Whole
  <2> QED BY <2>1, <2>2, WholeGrows
<1>2. c \in Colour /\ c # -1
  BY <1>1, ColourOf, NotAColour
<1> HIDE DEF before, after
<1>3. Colours(after) = Append(Colours(before), c)
  <2>1. <<raw[n]>> \in Seq(Pixels) /\ Append(before, raw[n]) = before \o <<raw[n]>>
    BY <1>1
  <2>2. Colours(after) = Colours(before) \o Colours(<<raw[n]>>)
    BY <1>1, <2>1, ColoursJoined
  <2>3. Colours(<<raw[n]>>) = <<c>>
    BY <1>1, OnePixel
  <2>4. Colours(before) \in Seq(Colour)
    BY <1>1, ColoursOf
  <2> QED BY <1>2, <2>2, <2>3, <2>4, ColourAppended
<1> HIDE DEF c
<1>4. rle \in Seq(Run) /\ Whole(raw, n, Pixels)
  BY DEF RunsSoFar
<1>5. CASE last = -1
  <2>1. n = 1 /\ rle = <<>>
    BY <1>5 DEF RunsSoFar
  <2>2. before = <<>>
    <3>1. 1 - 1 = 0 /\ SubSeq(raw, 1, 0) = <<>>
      OBVIOUS
    <3> QED BY <2>1, <3>1 DEF before
  <2>3. 1 \in 1 .. MaxRun /\ GoodRuns(Append(<<>>, <<1, c>>), Append(<<>>, c))
    BY <1>2, NoRuns, NewRun
  <2>4. GoodRuns(Append(rle, <<1, c>>), Colours(after))
    BY <1>3, <2>1, <2>2, <2>3, ColoursNothing
  <2>5. RunsSoFar(raw, n + 1, c, 1, rle)
    BY <1>1, <1>2, <1>4, <2>3, <2>4 DEF RunsSoFar, after
  <2>6. last # c
    BY <1>2, <1>5
  <2> QED BY <1>5, <2>5, <2>6 DEF c
<1>6. CASE last # -1
  <2> DEFINE runs == Append(rle, <<count, last>>)
  <2>1. last \in Colour /\ count \in 1 .. MaxRun /\ GoodRuns(runs, Colours(before))
    BY <1>6 DEF RunsSoFar, before
  <2>2. CASE last = c /\ count # MaxRun
    <3>1. count + 1 \in 1 .. MaxRun /\ GoodRuns(Append(rle, <<count + 1, c>>), Append(Colours(before), c))
      BY <1>2, <1>4, <2>1, <2>2, OneMore
    <3>2. RunsSoFar(raw, n + 1, c, count + 1, rle)
      BY <1>1, <1>2, <1>3, <1>4, <3>1 DEF RunsSoFar, after
    <3> QED BY <1>6, <2>2, <3>2 DEF c
  <2>3. CASE ~(last = c /\ count # MaxRun)
    <3>1. <<count, last>> \in Run
      BY <2>1, RunOf
    <3>2. /\ runs \in Seq(Run) /\ Len(runs) = Len(rle) + 1 /\ runs[Len(rle) + 1] = <<count, last>>
          /\ rle \o <<<<count, last>>>> = runs
      BY <1>4, <3>1
    <3> HIDE DEF runs
    <3>3. runs[Len(runs)][2] # c \/ runs[Len(runs)][1] = MaxRun
      BY <2>3, <3>2
    <3>4. 1 \in 1 .. MaxRun /\ GoodRuns(Append(runs, <<1, c>>), Append(Colours(before), c))
      BY <1>2, <2>1, <3>3, NewRun
    <3>5. RunsSoFar(raw, n + 1, c, 1, runs)
      BY <1>1, <1>2, <1>3, <3>2, <3>4 DEF RunsSoFar, after
    <3> QED BY <1>6, <2>3, <3>2, <3>5 DEF c
  <2> QED BY <2>2, <2>3
<1> QED BY <1>5, <1>6

LEMMA RunsEnd ==
    ASSUME NEW raw \in Seq(Pixels \cup {Half}), NEW n, NEW last, NEW count, NEW rle,
           RunsSoFar(raw, n, last, count, rle), n > Len(raw), last # -1
    PROVE  GoodRuns(rle \o <<<<count, last>>>>, Colours(raw))
<1>1. /\ last \in Colour /\ count \in 1 .. MaxRun /\ rle \in Seq(Run)
      /\ GoodRuns(Append(rle, <<count, last>>), Colours(SubSeq(raw, 1, n - 1)))
  BY DEF RunsSoFar
<1>2. SubSeq(raw, 1, n - 1) = raw
  BY WholeEnds DEF RunsSoFar
<1>3. rle \o <<<<count, last>>>> = Append(rle, <<count, last>>)
  <2>1. <<count, last>> \in Run
    BY <1>1, RunOf
  <2> QED BY <1>1, <2>1
<1> QED BY <1>1, <1>2, <1>3

\* unpack_565
PixelsSoFar(words, n, raw) ==
    /\ Whole(words, n, Words) /\ raw \in Seq(Pixels)
    /\ Colours(raw) = [k \in 1 .. (n - 1) |-> words[k][1]]

LEMMA PixelsStart ==
    ASSUME NEW words \in Seq(Words \cup {Half})
    PROVE  PixelsSoFar(words, 1, <<>>)
<1>1. Whole(words, 1, Words) /\ <<>> \in Seq(Pixels) /\ Colours(<<>>) = <<>>
  BY WholeStarts, ColoursNothing
<1>2. [k \in 1 .. (1 - 1) |-> words[k][1]] = <<>>
  OBVIOUS
<1> QED BY <1>1, <1>2, Zenon DEF PixelsSoFar

LEMMA PixelsGrow ==
    ASSUME NEW words \in Seq(Words \cup {Half}), NEW n, NEW raw, PixelsSoFar(words, n, raw),
           n <= Len(words), words[n] # Half
    PROVE  PixelsSoFar(words, n + 1, raw \o <<rgb888(words[n][1])>>)
<1> DEFINE c == words[n][1]
           p == rgb888(c)
           w(k) == words[k][1]
<1>1. Whole(words, n + 1, Words) /\ words[n] \in Words /\ (n + 1) - 1 = n /\ n \in Nat /\ n # 0
  BY WholeGrows DEF PixelsSoFar, Whole
<1>2. c \in Colour
  BY <1>1 DEF Words
<1>3. p \in Pixels /\ rgb565(p) = c
  BY <1>2, TwoBytesInThree
<1>4. raw \in Seq(Pixels) /\ Colours(raw) = [k \in 1 .. (n - 1) |-> w(k)]
  BY DEF PixelsSoFar
<1>5. w(n) = c
  OBVIOUS
<1> HIDE DEF c, p, w
<1>6. /\ raw \o <<p>> \in Seq(Pixels)
      /\ Colours(raw \o <<p>>) = Colours(raw) \o Colours(<<p>>)
  <2>1. <<p>> \in Seq(Pixels)
    BY <1>3
  <2> QED BY <1>4, <2>1, ColoursJoined
<1>7. Colours(<<p>>) = <<c>>
  BY <1>3, OnePixel
<1>8. Colours(raw) \o <<c>> = [k \in 1 .. n |-> w(k)]
  <2> DEFINE s == Colours(raw)
             a == s \o <<c>>
             b == [k \in 1 .. n |-> w(k)]
  <2>1. s \in Seq(Colour) /\ Len(s) = n - 1 /\ \A k \in 1 .. (n - 1) : s[k] = w(k)
    <3>1. s \in Seq(Colour)
      BY <1>4, ColoursOf
    <3> QED BY <1>1, <1>4, <3>1
  <2> HIDE DEF s
  <2>2. a \in Seq(Colour) /\ Len(a) = n /\ \A k \in 1 .. n : a[k] = w(k)
    BY <1>1, <1>2, <1>5, <2>1
  <2>3. a = [k \in 1 .. n |-> a[k]]
    BY <2>2
  <2> HIDE DEF a
  <2>4. a = b
    BY <2>2, <2>3
  <2> QED BY <2>4 DEF a, s
<1>9. Colours(raw \o <<p>>) = [k \in 1 .. ((n + 1) - 1) |-> w(k)]
  BY <1>1, <1>6, <1>7, <1>8
<1> QED BY <1>1, <1>6, <1>9, Zenon DEF PixelsSoFar, p, c, w

LEMMA PixelsEnd ==
    ASSUME NEW words \in Seq(Words \cup {Half}), NEW n, NEW raw, PixelsSoFar(words, n, raw),
           n > Len(words)
    PROVE  WordColours(words) = Colours(raw)
<1>1. n - 1 = Len(words) /\ DOMAIN words = 1 .. Len(words)
  BY DEF PixelsSoFar, Whole
<1> QED BY <1>1 DEF PixelsSoFar, WordColours

\* repack_565
WordsSoFar(raw, n, words) ==
    /\ Whole(raw, n, Pixels)
    /\ words = [k \in 1 .. (n - 1) |-> <<rgb565(raw[k])>>]

LEMMA WordsStart ==
    ASSUME NEW raw \in Seq(Pixels \cup {Half})
    PROVE  WordsSoFar(raw, 1, <<>>)
<1>1. Whole(raw, 1, Pixels)
  BY WholeStarts
<1>2. [k \in 1 .. (1 - 1) |-> <<rgb565(raw[k])>>] = <<>>
  OBVIOUS
<1> QED BY <1>1, <1>2, Zenon DEF WordsSoFar

LEMMA WordsGrow ==
    ASSUME NEW raw \in Seq(Pixels \cup {Half}), NEW n, NEW words, WordsSoFar(raw, n, words),
           n <= Len(raw), raw[n] # Half
    PROVE  WordsSoFar(raw, n + 1, words \o <<<<rgb565(raw[n])>>>>)
<1> DEFINE w(k) == <<rgb565(raw[k])>>
           a == words \o <<w(n)>>
<1>1. Whole(raw, n + 1, Pixels) /\ (n + 1) - 1 = n /\ n \in Nat /\ n # 0
  BY WholeGrows DEF WordsSoFar, Whole
<1>2. words = [k \in 1 .. (n - 1) |-> w(k)]
  BY DEF WordsSoFar
<1> DEFINE S == {w(k) : k \in 1 .. n}
<1>3. \A k \in 1 .. n : w(k) \in S
  OBVIOUS
<1> HIDE DEF w, S
<1>4. words \in Seq(S) /\ Len(words) = n - 1 /\ <<w(n)>> \in Seq(S) /\ Len(<<w(n)>>) = 1
  BY <1>1, <1>2, <1>3
<1>5. a \in Seq(S) /\ Len(a) = n /\ \A k \in 1 .. n : a[k] = w(k)
  BY <1>1, <1>2, <1>4
<1>6. a = [k \in 1 .. n |-> a[k]]
  BY <1>5
<1> HIDE DEF a
<1>7. a = [k \in 1 .. n |-> w(k)]
  BY <1>5, <1>6
<1>8. a = [k \in 1 .. ((n + 1) - 1) |-> w(k)]
  BY <1>1, <1>7
<1> QED BY <1>1, <1>8, Zenon DEF WordsSoFar, a, w

LEMMA WordsEnd ==
    ASSUME NEW raw \in Seq(Pixels \cup {Half}), NEW n, NEW words, WordsSoFar(raw, n, words),
           n > Len(raw)
    PROVE  WordColours(words) = Colours(raw)
<1> DEFINE c(k) == rgb565(raw[k])
<1>1. n - 1 = Len(raw) /\ DOMAIN raw = 1 .. Len(raw)
  BY DEF WordsSoFar, Whole
<1>2. words = [k \in 1 .. Len(raw) |-> <<c(k)>>]
  BY <1>1 DEF WordsSoFar
<1>3. Colours(raw) = [k \in 1 .. Len(raw) |-> c(k)]
  BY <1>1 DEF Colours
<1> HIDE DEF c
<1>4. WordColours(words) = [k \in 1 .. Len(raw) |-> c(k)]
  BY <1>2 DEF WordColours
<1> QED BY <1>3, <1>4

-----------------------------------------------------------------------------
(* The invariant of the pictures                                           *)

Logo == {"initlogo.rle", "initlogo.raw"}

RleIsRead ==
    /\ job = [cmd |-> "unpack_rle", next |-> job.next] /\ Logo \subseteq DOMAIN files
    /\ RawSoFar(files["initlogo.rle"], job.next, files["initlogo.raw"])

RleIsWritten ==
    /\ job = Counting(job.next, job.last, job.count) /\ Logo \subseteq DOMAIN files
    /\ RunsSoFar(files["initlogo.raw"], job.next, job.last, job.count, files["initlogo.rle"])

WordsAreRead ==
    /\ job = [cmd |-> "unpack_565", next |-> job.next]
    /\ {"splash.565", "splash.raw"} \subseteq DOMAIN files
    /\ PixelsSoFar(files["splash.565"], job.next, files["splash.raw"])

Screen == {"splash.raw", "splash.565"}

WordsAreWritten ==
    /\ job = [cmd |-> "repack_565", next |-> job.next] /\ Screen \subseteq DOMAIN files
    /\ WordsSoFar(files["splash.raw"], job.next, files["splash.565"])

PictureInv ==
    /\ Running("unpack_rle") => RleIsRead
    /\ Running("repack_rle") => RleIsWritten
    /\ Running("unpack_565") => WordsAreRead
    /\ Running("repack_565") => WordsAreWritten

LEMMA Wrote ==
    ASSUME NEW name, NEW c, NEW other \in DOMAIN files, other # name, files' = With(files, name, c)
    PROVE  {name, other} \subseteq DOMAIN files' /\ files'[name] = c /\ files'[other] = files[other]
BY DEF With

LEMMA PictureStarts ==
    ASSUME PicturesIn(files), SplashCommand
    PROVE  PictureInv'
<1>1. CASE unpack_rle
  <2>1. /\ "initlogo.rle" \in DOMAIN files /\ job' = [cmd |-> "unpack_rle", next |-> 1]
        /\ files' = With(files, "initlogo.raw", <<>>)
    BY <1>1 DEF unpack_rle, Convert, Exists, Start
  <2>2. /\ Logo \subseteq DOMAIN files' /\ files'["initlogo.raw"] = <<>>
        /\ files'["initlogo.rle"] = files["initlogo.rle"]
    BY <2>1, Wrote DEF Logo
  <2>3. RawSoFar(files["initlogo.rle"], 1, <<>>)
    BY <2>1, RawStarts DEF PicturesIn
  <2> QED BY <2>1, <2>2, <2>3 DEF PictureInv, RleIsRead, Running
<1>2. CASE repack_rle
  <2>1. /\ "initlogo.raw" \in DOMAIN files
        /\ job' = Counting(1, -1, 0)
        /\ files' = With(files, "initlogo.rle", <<>>)
    BY <1>2 DEF repack_rle, Convert, Exists, Start
  <2>2. /\ Logo \subseteq DOMAIN files' /\ files'["initlogo.rle"] = <<>>
        /\ files'["initlogo.raw"] = files["initlogo.raw"]
    BY <2>1, Wrote DEF Logo
  <2>3. RunsSoFar(files["initlogo.raw"], 1, -1, 0, <<>>)
    BY <2>1, RunsStart DEF PicturesIn
  <2> QED BY <2>1, <2>2, <2>3 DEF PictureInv, RleIsWritten, Counting, Running
<1>3. CASE unpack_565
  <2>1. /\ "splash.565" \in DOMAIN files /\ job' = [cmd |-> "unpack_565", next |-> 1]
        /\ files' = With(files, "splash.raw", <<>>)
    BY <1>3 DEF unpack_565, Convert, Exists, Start
  <2>2. /\ {"splash.565", "splash.raw"} \subseteq DOMAIN files' /\ files'["splash.raw"] = <<>>
        /\ files'["splash.565"] = files["splash.565"]
    BY <2>1, Wrote
  <2>3. PixelsSoFar(files["splash.565"], 1, <<>>)
    BY <2>1, PixelsStart DEF PicturesIn
  <2> QED BY <2>1, <2>2, <2>3 DEF PictureInv, WordsAreRead, Running
<1>4. CASE repack_565
  <2>1. /\ "splash.raw" \in DOMAIN files /\ job' = [cmd |-> "repack_565", next |-> 1]
        /\ files' = With(files, "splash.565", <<>>)
    BY <1>4 DEF repack_565, Convert, Exists, Start
  <2>2. /\ Screen \subseteq DOMAIN files' /\ files'["splash.565"] = <<>>
        /\ files'["splash.raw"] = files["splash.raw"]
    BY <2>1, Wrote DEF Screen
  <2>3. WordsSoFar(files["splash.raw"], 1, <<>>)
    BY <2>1, WordsStart DEF PicturesIn
  <2> QED BY <2>1, <2>2, <2>3 DEF PictureInv, WordsAreWritten, Running
<1> QED BY <1>1, <1>2, <1>3, <1>4 DEF SplashCommand

LEMMA PictureGoesOn ==
    ASSUME PicturesIn(files), PictureInv, SplashStep
    PROVE  PictureInv'
<1>1. CASE parse_rle
  <2>1. /\ Running("unpack_rle") /\ RleIsRead /\ job.next <= Len(files["initlogo.rle"])
        /\ files["initlogo.rle"][job.next] # Half
    BY <1>1 DEF parse_rle, Turn, Item, PictureInv
  <2> DEFINE run  == files["initlogo.rle"][job.next]
             more == [k \in 1 .. run[1] |-> rgb888(run[2])]
  <2>2. files' = With(files, "initlogo.raw", files["initlogo.raw"] \o more)
    BY <1>1 DEF parse_rle, Appended, Item
  <2>3. job' = [job EXCEPT !.next = @ + 1]
    BY <1>1 DEF parse_rle, Next1
  <2>4. /\ job' = [cmd |-> "unpack_rle", next |-> job'.next] /\ job'.next = job.next + 1
    BY <2>1, <2>3 DEF RleIsRead
  <2>5. /\ Logo \subseteq DOMAIN files' /\ files'["initlogo.rle"] = files["initlogo.rle"]
        /\ files'["initlogo.raw"] = files["initlogo.raw"] \o more
    <3> DEFINE w == files["initlogo.raw"] \o more
    <3>1. files' = With(files, "initlogo.raw", w) /\ Logo \subseteq DOMAIN files
      BY <2>1, <2>2 DEF RleIsRead
    <3> HIDE DEF w
    <3>2. /\ Logo \subseteq DOMAIN files' /\ files'["initlogo.rle"] = files["initlogo.rle"]
          /\ files'["initlogo.raw"] = w
      BY <3>1 DEF With, Logo
    <3> QED BY <3>2, Zenon DEF w
  <2>6. RawSoFar(files["initlogo.rle"], job.next + 1, files["initlogo.raw"] \o more)
    BY <2>1, RawGrows DEF RleIsRead, PicturesIn, Logo
  <2>7. RawSoFar(files'["initlogo.rle"], job'.next, files'["initlogo.raw"])
    BY <2>4, <2>5, <2>6, ZenonT(30)
  <2>8. job'.cmd = "unpack_rle"
    BY <2>4
  <2> QED BY <2>4, <2>5, <2>7, <2>8 DEF PictureInv, RleIsRead, Running
<1>2. ASSUME Turn("repack_rle", "initlogo.raw"), Item("initlogo.raw") # Half,
             write_rle_first \/ write_rle_same \/ write_rle_run
      PROVE  PictureInv'
  <2> DEFINE raw == files["initlogo.raw"]
             rle == files["initlogo.rle"]
             c   == rgb565(raw[job.next])
  <2>1. /\ Running("repack_rle") /\ RleIsWritten /\ job.next <= Len(raw) /\ raw[job.next] # Half
        /\ Pixel = c
    BY <1>2 DEF Turn, Item, Pixel, PictureInv
  <2>2. /\ job.last = -1 => RunsSoFar(raw, job.next + 1, c, 1, rle)
        /\ job.last = c /\ job.count # MaxRun => RunsSoFar(raw, job.next + 1, c, job.count + 1, rle)
        /\ job.last # -1 /\ ~(job.last = c /\ job.count # MaxRun)
           => RunsSoFar(raw, job.next + 1, c, 1, rle \o <<<<job.count, job.last>>>>)
    BY <2>1, RunsGrow DEF RleIsWritten, PicturesIn, Logo
  <2>3. PICK count, runs :
           /\ job' = Counting(job.next + 1, c, count)
           /\ RunsSoFar(raw, job.next + 1, c, count, runs)
           /\ \/ files' = files /\ runs = rle
              \/ files' = With(files, "initlogo.rle", runs)
    <3> HIDE DEF raw, rle, c
    <3>1. CASE write_rle_first
      BY <2>1, <2>2, <3>1 DEF write_rle_first, NextPixel
    <3>2. CASE write_rle_same
      BY <2>1, <2>2, <3>2 DEF write_rle_same, NextPixel
    <3>3. CASE write_rle_run
      <4>1. files' = With(files, "initlogo.rle", rle \o <<<<job.count, job.last>>>>)
        BY <3>3 DEF write_rle_run, Appended, rle
      <4> QED BY <2>1, <2>2, <3>3, <4>1 DEF write_rle_run, NextPixel
    <3> QED BY <1>2, <3>1, <3>2, <3>3
  <2>4. /\ Logo \subseteq DOMAIN files' /\ files'["initlogo.raw"] = raw /\ files'["initlogo.rle"] = runs
    <3>1. Logo \subseteq DOMAIN files
      BY <2>1 DEF RleIsWritten
    <3>2. CASE files' = files /\ runs = rle
      BY <3>1, <3>2
    <3>3. CASE files' = With(files, "initlogo.rle", runs)
      BY <3>1, <3>3, Wrote DEF Logo
    <3> QED BY <2>3, <3>2, <3>3
  <2> HIDE DEF raw, rle, c
  <2>5. /\ job'.cmd = "repack_rle" /\ job'.next = job.next + 1 /\ job'.last = c /\ job'.count = count
        /\ job' = Counting(job'.next, job'.last, job'.count)
    BY <2>3 DEF Counting
  <2>6. RunsSoFar(files'["initlogo.raw"], job'.next, job'.last, job'.count, files'["initlogo.rle"])
    BY <2>3, <2>4, <2>5, ZenonT(30)
  <2> QED BY <2>4, <2>5, <2>6 DEF PictureInv, RleIsWritten, Running
<1>3. CASE parse_565
  <2>1. /\ Running("unpack_565") /\ WordsAreRead /\ job.next <= Len(files["splash.565"])
        /\ files["splash.565"][job.next] # Half
    BY <1>3 DEF parse_565, Turn, Item, PictureInv
  <2> DEFINE p == rgb888(files["splash.565"][job.next][1])
  <2>2. files' = With(files, "splash.raw", files["splash.raw"] \o <<p>>)
    BY <1>3 DEF parse_565, Appended, Item
  <2>3. job' = [job EXCEPT !.next = @ + 1]
    BY <1>3 DEF parse_565, Next1
  <2>4. job' = [cmd |-> "unpack_565", next |-> job'.next] /\ job'.next = job.next + 1
    BY <2>1, <2>3 DEF WordsAreRead
  <2>5. /\ {"splash.565", "splash.raw"} \subseteq DOMAIN files'
        /\ files'["splash.565"] = files["splash.565"]
        /\ files'["splash.raw"] = files["splash.raw"] \o <<p>>
    <3> DEFINE w == files["splash.raw"] \o <<p>>
    <3>1. files' = With(files, "splash.raw", w) /\ {"splash.565", "splash.raw"} \subseteq DOMAIN files
      BY <2>1, <2>2 DEF WordsAreRead
    <3> HIDE DEF w
    <3>2. /\ {"splash.565", "splash.raw"} \subseteq DOMAIN files'
          /\ files'["splash.565"] = files["splash.565"] /\ files'["splash.raw"] = w
      BY <3>1 DEF With
    <3> QED BY <3>2, Zenon DEF w
  <2>6. PixelsSoFar(files["splash.565"], job.next + 1, files["splash.raw"] \o <<p>>)
    BY <2>1, PixelsGrow DEF WordsAreRead, PicturesIn
  <2>7. PixelsSoFar(files'["splash.565"], job'.next, files'["splash.raw"])
    BY <2>4, <2>5, <2>6, ZenonT(30)
  <2>8. job'.cmd = "unpack_565"
    BY <2>4
  <2> QED BY <2>4, <2>5, <2>7, <2>8 DEF PictureInv, WordsAreRead, Running
<1>4. CASE write_565
  <2>1. /\ Running("repack_565") /\ WordsAreWritten /\ job.next <= Len(files["splash.raw"])
        /\ files["splash.raw"][job.next] # Half
    BY <1>4 DEF write_565, Turn, Item, PictureInv
  <2> DEFINE c == <<rgb565(files["splash.raw"][job.next])>>
             w == files["splash.565"] \o <<c>>
  <2>2. files' = With(files, "splash.565", w) /\ job' = [job EXCEPT !.next = @ + 1]
    BY <1>4 DEF write_565, Appended, Item, Next1
  <2>3. WordsSoFar(files["splash.raw"], job.next + 1, w)
    BY <2>1, WordsGrow DEF WordsAreWritten, PicturesIn, Screen
  <2> HIDE DEF w
  <2>4. job' = [cmd |-> "repack_565", next |-> job'.next] /\ job'.next = job.next + 1
    BY <2>1, <2>2 DEF WordsAreWritten
  <2>5. /\ Screen \subseteq DOMAIN files'
        /\ files'["splash.raw"] = files["splash.raw"] /\ files'["splash.565"] = w
    BY <2>1, <2>2 DEF With, WordsAreWritten, Screen
  <2>6. WordsSoFar(files'["splash.raw"], job'.next, files'["splash.565"])
    BY <2>3, <2>4, <2>5, ZenonT(30)
  <2>7. job'.cmd = "repack_565"
    BY <2>4
  <2> QED BY <2>4, <2>5, <2>6, <2>7 DEF PictureInv, WordsAreWritten, Running
<1>5. ASSUME job' = Idle PROVE PictureInv'
  BY <1>5, IdleIsJob DEF PictureInv, Running
<1>6. CASE write_rle_end \/ end_of_picture
  BY <1>5, <1>6 DEF write_rle_end, end_of_picture, Raise, End
<1>7. ASSUME NEW cmd, NEW input, half_item(cmd, input) PROVE PictureInv'
  BY <1>5, <1>7 DEF half_item, Raise
<1> QED BY <1>1, <1>2, <1>3, <1>4, <1>6, <1>7
        DEF SplashStep, write_rle_first, write_rle_same, write_rle_run

\* What ends well is converted.
LEMMA PictureEnds ==
    ASSUME PicturesIn(files), PictureInv, SplashStep, job' = Idle, status' = "ok"
    PROVE  /\ Running("unpack_rle") => Colours(files'["initlogo.raw"]) = Expanded(files["initlogo.rle"])
           /\ Running("repack_rle") => GoodRuns(files'["initlogo.rle"], Colours(files["initlogo.raw"]))
           /\ Running("unpack_565") =>
                 WordColours(files["splash.565"]) = Colours(files'["splash.raw"])
           /\ Running("repack_565") =>
                 WordColours(files'["splash.565"]) = Colours(files["splash.raw"])
<1>1. ASSUME NEW cmd, NEW input PROVE ~half_item(cmd, input)
  BY DEF half_item, Raise
<1>2. CASE write_rle_end
  <2>1. Running("repack_rle") /\ RleIsWritten /\ job.next > Len(files["initlogo.raw"]) /\ job.last # -1
    BY <1>2 DEF write_rle_end, Ended, Raise, PictureInv
  <2>2. files'["initlogo.rle"] = files["initlogo.rle"] \o <<<<job.count, job.last>>>>
    <3>1. files' = With(files, "initlogo.rle", files["initlogo.rle"] \o <<<<job.count, job.last>>>>)
      BY <1>2, <2>1 DEF write_rle_end, Appended
    <3>2. "initlogo.raw" \in DOMAIN files
      BY <2>1 DEF RleIsWritten, Logo
    <3> QED BY <3>1, <3>2, Wrote
  <2>3. GoodRuns(files'["initlogo.rle"], Colours(files["initlogo.raw"]))
    BY <2>1, <2>2, RunsEnd DEF RleIsWritten, PicturesIn, Logo
  <2> QED BY <2>1, <2>3 DEF Running
<1>3. CASE end_of_picture
  <2>1. CASE Ended("unpack_rle", "initlogo.rle")
    <3>1. Running("unpack_rle") /\ RleIsRead /\ job.next > Len(files["initlogo.rle"]) /\ files' = files
      BY <1>3, <2>1 DEF end_of_picture, Ended, PictureInv
    <3>2. Colours(files["initlogo.raw"]) = Expanded(files["initlogo.rle"])
      BY <3>1, RawEnds DEF RleIsRead, PicturesIn, Logo
    <3> QED BY <3>1, <3>2 DEF Running
  <2>2. CASE Ended("unpack_565", "splash.565")
    <3>1. Running("unpack_565") /\ WordsAreRead /\ job.next > Len(files["splash.565"]) /\ files' = files
      BY <1>3, <2>2 DEF end_of_picture, Ended, PictureInv
    <3>2. WordColours(files["splash.565"]) = Colours(files["splash.raw"])
      BY <3>1, PixelsEnd DEF WordsAreRead, PicturesIn
    <3> QED BY <3>1, <3>2 DEF Running
  <2>3. CASE Ended("repack_565", "splash.raw")
    <3>1. /\ Running("repack_565") /\ WordsAreWritten /\ job.next > Len(files["splash.raw"])
          /\ files' = files
      BY <1>3, <2>3 DEF end_of_picture, Ended, PictureInv
    <3>2. WordColours(files["splash.565"]) = Colours(files["splash.raw"])
      BY <3>1, WordsEnd DEF WordsAreWritten, PicturesIn, Screen
    <3> QED BY <3>1, <3>2 DEF Running
  <2> QED BY <1>3, <2>1, <2>2, <2>3 DEF end_of_picture
<1>4. ASSUME NEW n, job' = [job EXCEPT !.next = n], job.cmd \in PictureJobs PROVE FALSE
  <2>1. job'.cmd = job.cmd
    BY <1>4
  <2> QED BY <1>4, <2>1, IdleIsJob DEF PictureJobs
<1>5. ~parse_rle /\ ~parse_565 /\ ~write_565
  BY <1>4 DEF parse_rle, parse_565, write_565, Next1, Turn, Running, PictureJobs
<1>6. ~write_rle_first /\ ~write_rle_same /\ ~write_rle_run
  BY DEF write_rle_first, write_rle_same, write_rle_run, NextPixel, Counting, Idle
<1> QED BY <1>1, <1>2, <1>3, <1>5, <1>6 DEF SplashStep

LEMMA PicturesOnlyHere ==
    ASSUME JobInv, [Next]_toolVars, PicturesIn(files), PictureInv
    PROVE  /\ PictureInv'
           /\ (job.cmd \in PictureJobs /\ job' = Idle /\ ~UNCHANGED dirVars) => SplashStep
<1>1. "none" \notin PictureJobs /\ "unpack_updata" \notin PictureJobs
  BY DEF PictureJobs
<1>2. CASE UNCHANGED dirVars
  BY <1>2 DEF dirVars, PictureInv, RleIsRead, RleIsWritten, WordsAreRead,
                   WordsAreWritten, Running
<1>3. ASSUME job'.cmd \notin PictureJobs PROVE PictureInv'
  BY <1>3 DEF PictureInv, Running, PictureJobs
<1>4. CASE job = Idle /\ (SplashCommand \/ UpdataCommand)
  <2>1. CASE SplashCommand
    BY <1>1, <1>4, <2>1, PictureStarts, IdleIsJob
  <2>2. CASE UpdataCommand
    <3>1. job'.cmd = "unpack_updata"
      <4>1. PICK debug \in BOOLEAN : unpack_updata(debug)
        BY <2>2 DEF UpdataCommand
      <4> QED BY <4>1 DEF unpack_updata, Start, Searching
    <3> QED BY <1>1, <1>3, <1>4, <3>1, IdleIsJob
  <2> QED BY <1>4, <2>1, <2>2
<1>5. CASE job = Idle /\ job'.cmd \in Jobs \ (PictureJobs \cup {"unpack_updata"})
  BY <1>1, <1>3, <1>5, IdleIsJob
<1>6. CASE job.cmd \in RamdiskJobs \cup {"unpack_yaffs"} /\ job'.cmd \in {job.cmd, "none"}
  <2>1. job.cmd \notin PictureJobs /\ job'.cmd \notin PictureJobs
    BY <1>6 DEF RamdiskJobs, PictureJobs
  <2> QED BY <1>3, <2>1
<1>7. CASE SplashStep
  BY <1>7, PictureGoesOn
<1>8. CASE UpdataStep
  <2>1. job.cmd = "unpack_updata" /\ job'.cmd \in {"unpack_updata", "none"}
    BY <1>8, UpdataFrame, IdleIsJob DEF Same
  <2> QED BY <1>1, <1>3, <2>1
<1> QED BY <1>2, <1>4, <1>5, <1>6, <1>7, <1>8, StepFrame

LEMMA ToolStarts ==
    ASSUME Init
    PROVE  JobInv /\ PictureInv
BY IdleIsJob DEF Init, JobInv, Jobs, PictureInv, Running

\* A conversion of pictures that ends well loses no pixel and no more of a colour than two
\* bytes can say, whatever the size of the picture, whatever happened in the directory
\* before, as long as what is called a picture is one (bootimg.py:551-561, 578-588,
\* 594-613, 623-632).
THEOREM PicturesAreKept == Spec /\ []PicturesIn(files) => PicturesKept
<1> DEFINE I == JobInv /\ PictureInv /\ PicturesIn(files)
           Kept ==
              /\ Finished("unpack_rle") =>
                    Colours(files'["initlogo.raw"]) = Expanded(files["initlogo.rle"])
              /\ Finished("repack_rle") =>
                    LET runs == files'["initlogo.rle"] IN
                    /\ Expanded(runs) = Colours(files["initlogo.raw"])
                    /\ \A k \in DOMAIN runs : runs[k][1] \in 1 .. MaxRun
                    /\ \A k \in 1 .. (Len(runs) - 1) : runs[k][2] = runs[k + 1][2] => runs[k][1] = MaxRun
              /\ Finished("unpack_565") =>
                    WordColours(files["splash.565"]) = Colours(files'["splash.raw"])
              /\ Finished("repack_565") =>
                    WordColours(files'["splash.565"]) = Colours(files["splash.raw"])
<1>1. Init => JobInv /\ PictureInv
  BY ToolStarts
<1>2. JobInv /\ PictureInv /\ PicturesIn(files) /\ [Next]_toolVars => (JobInv /\ PictureInv)'
  BY StepFrame, PicturesOnlyHere
<1>3. JobInv /\ PictureInv /\ PicturesIn(files) /\ [Next]_toolVars => [Kept]_dirVars
  <2> SUFFICES ASSUME JobInv, PictureInv, PicturesIn(files), [Next]_toolVars, ~UNCHANGED dirVars
               PROVE  Kept
    BY Zenon
  <2>1. ASSUME job.cmd \in PictureJobs, job' = Idle, status' = "ok" PROVE Kept
    <3>1. SplashStep
      BY <2>1, PicturesOnlyHere
    <3>2. /\ Running("unpack_rle") => Colours(files'["initlogo.raw"]) = Expanded(files["initlogo.rle"])
          /\ Running("repack_rle") => GoodRuns(files'["initlogo.rle"], Colours(files["initlogo.raw"]))
          /\ Running("unpack_565") =>
                WordColours(files["splash.565"]) = Colours(files'["splash.raw"])
          /\ Running("repack_565") =>
                WordColours(files'["splash.565"]) = Colours(files["splash.raw"])
      BY <2>1, <3>1, PictureEnds
    <3> QED BY <3>2, Zenon DEF Finished, Running, GoodRuns
  <2> QED BY <2>1 DEF Finished, PictureJobs
<1> QED BY <1>1, <1>2, <1>3, PTL DEF Spec, PicturesKept

-----------------------------------------------------------------------------
(* UPDATA.APP                                                              *)

NameOf(debug, p) ==
    IF debug THEN p.what.position
    ELSE IF p.what.position \in DOMAIN POSITION THEN POSITION[p.what.position] ELSE Null

\* The blocks that are written used the first checksums, which are right.
ChecksUsed ==
    Inside /\ job.debug =>
        \E p \in PacketsOf(job.updata) :
            /\ p.at + p.what.header_length = job.pos
            /\ \E k \in 0 .. Len(SumsOf(job.updata, p)) :
                  /\ job.done <= k * BlockBytes
                  /\ job.header = SubSeq(SumsOf(job.updata, p), k + 1, Len(SumsOf(job.updata, p)))
                  /\ \A n \in 1 .. k : SumsOf(job.updata, p)[n] = TRUE

\* The last packet before pos for its place.
LastBefore(u, p, pos) ==
    p.at < pos /\ \A q \in PacketsOf(u) : q.what.position = p.what.position /\ q.at < pos => q.at <= p.at

\* The packets before pos, other than those for a name, are where they belong.
Delivered(fs, debug, u, pos, other) ==
    \A p \in PacketsOf(u) :
        LastBefore(u, p, pos) /\ NameOf(debug, p) # Null /\ NameOf(debug, p) # other
            => NameOf(debug, p) \in DOMAIN fs /\ fs[NameOf(debug, p)] = ContentOf(u, p)

\* No packet has begun and not ended.
Apart(u, pos) == \A p \in PacketsOf(u) : pos <= p.at \/ EndOf(p) <= pos

BetweenAt(fs, debug, u, pos) ==
    pos \in Nat /\ pos % 4 = 0 /\ Apart(u, pos) /\ Delivered(fs, debug, u, pos, "")

\* The file for a packet, of which so much is written.
WrittenSoFar(fs, debug, u, p, done) ==
    LET name == NameOf(debug, p)
        c    == ContentOf(u, p)
    IN  name # Null => name \in DOMAIN fs /\ fs[name] = IF done = 0 THEN Empty ELSE Part(c, done)

DeliveredInv ==
    /\ Between /\ PacketsOf(job.updata) # {} => BetweenAt(files, job.debug, job.updata, job.pos)
    /\ Inside =>
          \E p \in PacketsOf(job.updata) :
              /\ job.pos = p.at + p.what.header_length /\ job.output = NameOf(job.debug, p)
              /\ job.content = ContentOf(job.updata, p) /\ job.length = p.what.content_length
              /\ job.padding = padding(p.what.header_length + p.what.content_length, 4)
              /\ Delivered(files, job.debug, job.updata, p.at, job.output)
              /\ WrittenSoFar(files, job.debug, job.updata, p, job.done)


LEMMA UpdataOnlyHere ==
    ASSUME JobInv, [Next]_toolVars
    PROVE  /\ \/ UNCHANGED dirVars
              \/ ~Running("unpack_updata")'
              \/ \E debug \in BOOLEAN : unpack_updata(debug)
              \/ UpdataStep
           /\ Running("unpack_updata") => UNCHANGED dirVars \/ UpdataStep
<1>1. CASE job = Idle /\ (SplashCommand \/ UpdataCommand)
  <2>1. ASSUME SplashCommand PROVE ~Running("unpack_updata")'
    BY <2>1 DEF SplashCommand, unpack_rle, repack_rle, unpack_565, repack_565, Convert, Start, Counting,
                Running
  <2>2. ~Running("unpack_updata")
    BY <1>1, IdleIsJob DEF Running
  <2> QED BY <1>1, <2>1, <2>2 DEF UpdataCommand
<1>2. CASE job = Idle /\ job'.cmd \in Jobs \ (PictureJobs \cup {"unpack_updata"})
  BY <1>2, IdleIsJob DEF Running
<1>3. CASE job.cmd \in RamdiskJobs \cup {"unpack_yaffs"} /\ job'.cmd \in {job.cmd, "none"}
  BY <1>3 DEF Running, RamdiskJobs
<1>4. CASE SplashStep
  <2>1. job.cmd \in PictureJobs /\ job'.cmd \in PictureJobs \cup {"none"}
    BY <1>4, PictureFrame, IdleIsJob DEF Same
  <2> QED BY <2>1 DEF PictureJobs, Running
<1> QED BY <1>1, <1>2, <1>3, <1>4, StepFrame

-----------------------------------------------------------------------------
(* What is read                                                            *)

LEMMA HitIsThePiece ==
    ASSUME NEW f, Separate(f), NEW x \in f.pieces
    PROVE  ReadAt(f, x.at, x.what.size) = x.what
<1> DEFINE hit == {p \in f.pieces : p.at = x.at /\ p.what.size = x.what.size}
<1>1. hit = {x}
  BY DEF Separate
<1>2. (CHOOSE p \in hit : TRUE) = x
  BY <1>1
<1> HIDE DEF hit
<1>3. hit # {}
  BY <1>1
<1> QED BY <1>2, <1>3 DEF ReadAt, hit

LEMMA ReadIs ==
    ASSUME NEW f, Separate(f), NEW pos \in Nat, NEW size \in Nat
    PROVE  \/ \E x \in f.pieces : x.at = pos /\ x.what.size = size /\ ReadAt(f, pos, size) = x.what
           \/ \E n \in Nat : ReadAt(f, pos, size) = Garbage(n) /\ n <= size /\ (pos + size <= f.len => n = size)
<1>1. CASE \E x \in f.pieces : x.at = pos /\ x.what.size = size
  BY <1>1, HitIsThePiece
<1>2. CASE ~\E x \in f.pieces : x.at = pos /\ x.what.size = size
  <2> DEFINE more == IF pos > f.len THEN 0 ELSE f.len - pos
             n == IF size < more THEN size ELSE more
  <2>1. ReadAt(f, pos, size) = Garbage(n)
    BY <1>2 DEF ReadAt
  <2>2. n \in Nat /\ n <= size /\ (pos + size <= f.len => n = size)
    BY DEF Separate
  <2> HIDE DEF n
  <2> QED BY <2>1, <2>2
<1> QED BY <1>1, <1>2

LEMMA SizeOfRead ==
    ASSUME NEW f, Separate(f), NEW pos \in Nat, NEW size \in Nat
    PROVE  /\ ReadAt(f, pos, size).size \in Nat
           /\ pos + size <= f.len => ReadAt(f, pos, size).size = size
           /\ size = 0 => ReadAt(f, pos, size) = Empty
<1> DEFINE c == ReadAt(f, pos, size)
<1>1. CASE \E x \in f.pieces : x.at = pos /\ x.what.size = size /\ c = x.what
  BY <1>1 DEF Separate
<1>2. CASE \E n \in Nat : c = Garbage(n) /\ n <= size /\ (pos + size <= f.len => n = size)
  <2>1. PICK n \in Nat : c = Garbage(n) /\ n <= size /\ (pos + size <= f.len => n = size)
    BY <1>2
  <2>2. Garbage(n).size = n
    BY DEF Garbage, Content
  <2> HIDE DEF c
  <2>3. size = 0 => n = 0
    BY <2>1
  <2> QED BY <2>1, <2>2, <2>3 DEF Empty, c
<1> QED BY <1>1, <1>2, ReadIs

LEMMA HeaderIsRead ==
    ASSUME NEW f, Separate(f), Headed(f), NEW pos, IsPacket(f, pos)
    PROVE  \E p \in PacketsOf(f) : p.at = pos /\ ReadAt(f, pos, PacketHeader) = p.what
<1>1. PICK p \in f.pieces : p.at = pos /\ "header_length" \in DOMAIN p.what
  BY DEF IsPacket
<1>2. p \in PacketsOf(f) /\ p.what.size = PacketHeader
  BY <1>1 DEF PacketsOf, Headed
<1> QED BY <1>1, <1>2, HitIsThePiece

LEMMA PacketFacts ==
    ASSUME NEW f, Separate(f), Headed(f), NEW p \in PacketsOf(f)
    PROVE  /\ p \in f.pieces /\ p.at \in Nat /\ p.what.size = 98
           /\ p.what.header_length \in Nat /\ p.what.content_length \in Nat
           /\ p.at + PacketHeader \in Nat /\ p.at + p.what.header_length \in Nat
<1> DEFINE at == p.at
           hl == p.what.header_length
           cl == p.what.content_length
<1>1. p \in f.pieces
  BY DEF PacketsOf
<1>2. at \in Nat
  BY <1>1 DEF Separate
<1>3. p.what.size = 98 /\ hl \in Nat /\ cl \in Nat
  BY ZenonT(30) DEF Headed, PacketHeader
<1> HIDE DEF at, hl, cl
<1>4. at + 98 \in Nat /\ at + hl \in Nat
  BY <1>2, <1>3
<1> QED BY <1>1, <1>2, <1>3, <1>4, Zenon DEF at, hl, cl, PacketHeader

\* So much needs no numbers.
LEMMA ReadsSomething ==
    ASSUME NEW f, NEW pos, NEW size
    PROVE  \/ \E x \in f.pieces : ReadAt(f, pos, size) = x.what
           \/ \E n : ReadAt(f, pos, size) = Garbage(n)
<1> DEFINE hit == {p \in f.pieces : p.at = pos /\ p.what.size = size}
<1>1. CASE hit = {}
  BY <1>1, Zenon DEF ReadAt
<1>2. CASE hit # {}
  <2>1. PICK x \in hit : x = CHOOSE p \in hit : TRUE
    BY <1>2
  <2>2. x \in f.pieces /\ ReadAt(f, pos, size) = x.what
    BY <1>2, <2>1 DEF ReadAt
  <2> QED BY <2>2
<1> QED BY <1>1, <1>2

LEMMA SumsAreKnown ==
    ASSUME NEW f, Headed(f), NEW p \in PacketsOf(f)
    PROVE  SumsOf(f, p) \in Seq(BOOLEAN)
<1> DEFINE s == SumsAt(f, p.at, p.what.header_length)
<1>1. SumsOf(f, p) = IF "right" \in DOMAIN s THEN s.right ELSE <<>>
  BY DEF SumsOf
<1>2. \/ \E x \in f.pieces : s = x.what
      \/ \E n : s = Garbage(n)
  BY ReadsSomething DEF SumsAt
<1> HIDE DEF s
<1>3. CASE \E x \in f.pieces : s = x.what
  <2>1. "right" \in DOMAIN s => s.right \in Seq(BOOLEAN)
    BY <1>3 DEF Headed
  <2>2. <<>> \in Seq(BOOLEAN)
    OBVIOUS
  <2> QED BY <1>1, <2>1, <2>2, Zenon
<1>4. CASE \E n : s = Garbage(n)
  <2>1. "right" \notin DOMAIN s
    BY <1>4 DEF Garbage, Content
  <2>2. <<>> \in Seq(BOOLEAN)
    OBVIOUS
  <2> QED BY <1>1, <2>1, <2>2, Zenon
<1> QED BY <1>2, <1>3, <1>4

-----------------------------------------------------------------------------
(* Checksums                                                               *)

BlockFields == {"cmd", "debug", "updata", "pos", "output", "content", "header", "length", "done",
                "padding"}

SearchShape(j) == j = Searching(j.debug, j.updata, j.pos)
BlockShape(j)  == BlockFields \subseteq DOMAIN j /\ j.done \in Nat /\ j.length \in Nat

UpdataShape ==
    Running("unpack_updata") =>
        /\ Separate(job.updata) /\ Headed(job.updata)
        /\ Between => SearchShape(job)
        /\ Inside => BlockShape(job)

\* What a block of a content leaves as it is.
LEMMA BlockIs ==
    ASSUME JobInv, BlockFields \subseteq DOMAIN job, NEW done, NEW header,
           job' = [job EXCEPT !.done = done, !.header = header]
    PROVE  /\ job'.cmd = job.cmd /\ job'.debug = job.debug /\ job'.updata = job.updata
           /\ job'.pos = job.pos /\ job'.output = job.output /\ job'.content = job.content
           /\ job'.length = job.length /\ job'.padding = job.padding /\ job'.done = done /\ job'.header = header
           /\ BlockFields \subseteq DOMAIN job'
<1> DEFINE k == [job EXCEPT !.done = done]
<1>1. job = [x \in DOMAIN job |-> job[x]]
  BY DEF JobInv, IsJob
<1>2. DOMAIN k = DOMAIN job /\ \A x \in DOMAIN job : k[x] = IF x = "done" THEN done ELSE job[x]
  BY <1>1
<1>3. k = [x \in DOMAIN k |-> k[x]]
  BY <1>1
<1> HIDE DEF k
<1>4. job' = [k EXCEPT !.header = header]
  BY DEF k
<1>5. DOMAIN job' = DOMAIN k /\ \A x \in DOMAIN k : job'[x] = IF x = "header" THEN header ELSE k[x]
  BY <1>3, <1>4
<1> QED BY <1>2, <1>5 DEF BlockFields

\* A step of the loop of blocks.
LEMMA OneBlock ==
    ASSUME JobInv, UpdataShape, updata_block
    PROVE  /\ Running("unpack_updata") /\ job.done < job.length /\ (job.debug => NextSumRight)
           /\ job'.cmd = job.cmd /\ job'.debug = job.debug /\ job'.updata = job.updata
           /\ job'.pos = job.pos /\ job'.output = job.output /\ job'.content = job.content
           /\ job'.length = job.length /\ job'.padding = job.padding /\ job'.done = NextDone
           /\ job'.header = IF job.debug THEN Tail(job.header) ELSE job.header
           /\ BlockFields \subseteq DOMAIN job' /\ job.output # "" /\ job.done \in Nat
           /\ NextDone \in Nat /\ NextDone <= job.done + BlockBytes /\ NextDone <= job.length
           /\ NextDone # 0
           /\ files' = Written(job.output, NextPart)
<1>1. /\ Running("unpack_updata") /\ job.output # "" /\ job.done < job.length
      /\ job.debug => NextSumRight
      /\ files' = Written(job.output, NextPart)
  BY Zenon DEF updata_block, Inside
<1> DEFINE header == IF job.debug THEN Tail(job.header) ELSE job.header
<1>2. job' = [job EXCEPT !.done = NextDone, !.header = header]
  BY Zenon DEF updata_block
<1>3. BlockFields \subseteq DOMAIN job /\ job.done \in Nat /\ job.length \in Nat
  BY <1>1 DEF UpdataShape, Inside, BlockShape
<1>4. NextDone \in Nat /\ NextDone <= job.done + BlockBytes /\ NextDone <= job.length /\ NextDone # 0
  <2> DEFINE d == job.done
             s == job.length
             n == NextDone
  <2>1. d \in Nat /\ s \in Nat /\ d < s
    BY <1>1, <1>3
  <2>2. n = IF s - d > 4096 THEN d + 4096 ELSE s
    BY Zenon DEF NextDone, BlockBytes
  <2> HIDE DEF d, s, n
  <2>3. n \in Nat /\ n <= d + 4096 /\ n <= s /\ n # 0
    BY <2>1, <2>2
  <2> QED BY <2>3, Zenon DEF d, s, n, BlockBytes
<1> HIDE DEF header
<1>5. /\ job'.cmd = job.cmd /\ job'.debug = job.debug /\ job'.updata = job.updata
      /\ job'.pos = job.pos /\ job'.output = job.output /\ job'.content = job.content
      /\ job'.length = job.length /\ job'.padding = job.padding /\ job'.done = NextDone /\ job'.header = header
      /\ BlockFields \subseteq DOMAIN job'
  BY <1>2, <1>3, BlockIs
<1> QED BY <1>1, <1>3, <1>4, <1>5, Zenon DEF header

\* What updata_packet reads.
LEMMA OnePacket ==
    ASSUME UpdataShape, updata_packet
    PROVE  \E p \in PacketsOf(job.updata) :
              /\ p.at = job.pos /\ Between
              /\ job' = [cmd |-> "unpack_updata", debug |-> job.debug, updata |-> job.updata,
                         pos |-> p.at + p.what.header_length, output |-> NameOf(job.debug, p),
                         content |-> ContentOf(job.updata, p), header |-> SumsOf(job.updata, p),
                         length |-> p.what.content_length, done |-> 0,
                         padding |-> padding(p.what.header_length + p.what.content_length, 4)]
              /\ files' = Written(NameOf(job.debug, p), Empty)
<1>1. Between /\ IsPacket(job.updata, job.pos) /\ job.cmd = "unpack_updata"
  BY DEF updata_packet, Between, Running
<1>2. Separate(job.updata) /\ Headed(job.updata)
  BY <1>1 DEF UpdataShape, Between
<1>3. PICK p \in PacketsOf(job.updata) :
         p.at = job.pos /\ ReadAt(job.updata, job.pos, PacketHeader) = p.what
  BY <1>1, <1>2, HeaderIsRead
<1> QED BY <1>1, <1>3, Zenon DEF updata_packet, SumsOf, SumsAt, ContentOf, NameOf

LEMMA NamesAreNotEmpty ==
    ASSUME NEW f, Headed(f), NEW p \in PacketsOf(f), NEW debug
    PROVE  NameOf(debug, p) # ""
<1>1. p.what.position # ""
  BY Zenon DEF Headed
<1>2. \A x \in DOMAIN POSITION : POSITION[x] # ""
  BY DEF POSITION
<1>3. Null # ""
  BY DEF Null
<1> QED BY <1>1, <1>2, <1>3, Zenon DEF NameOf

LEMMA ContentSize ==
    ASSUME NEW f, Separate(f), Headed(f), NEW p \in PacketsOf(f)
    PROVE  /\ ContentOf(f, p).size \in Nat
           /\ p.at + p.what.header_length + p.what.content_length <= f.len
              => ContentOf(f, p).size = p.what.content_length
           /\ p.what.content_length = 0 => ContentOf(f, p) = Empty
<1> DEFINE at == p.at + p.what.header_length
           cl == p.what.content_length
<1>1. at \in Nat /\ cl \in Nat
  BY PacketFacts, ZenonT(60)
<1>2. ContentOf(f, p) = ReadAt(f, at, cl)
  BY DEF ContentOf
<1> HIDE DEF at, cl
<1>3. /\ ContentOf(f, p).size \in Nat
      /\ at + cl <= f.len => ContentOf(f, p).size = cl
      /\ cl = 0 => ContentOf(f, p) = Empty
  BY <1>1, <1>2, SizeOfRead
<1> QED BY <1>3, Zenon DEF at, cl

LEMMA UpdataStarts ==
    ASSUME HeadersIn(files), NEW debug \in BOOLEAN, unpack_updata(debug)
    PROVE  /\ job' = Searching(debug, Update(files), 0) /\ files' = files
           /\ Separate(Update(files)) /\ Headed(Update(files)) /\ "UPDATA.APP" \in DOMAIN files
BY DEF unpack_updata, Start, Exists, HeadersIn, Update

\* What a step leaves of the shape.
LEMMA ShapeStays ==
    ASSUME JobInv, [Next]_toolVars, HeadersIn(files), UpdataShape
    PROVE  UpdataShape'
<1>1. CASE UNCHANGED dirVars
  BY <1>1 DEF dirVars, UpdataShape, Between, Inside, Running
<1>2. CASE ~Running("unpack_updata")'
  BY <1>2 DEF UpdataShape, Running
<1>3. ASSUME NEW updata, NEW debug, NEW pos, Separate(updata), Headed(updata),
             job' = Searching(debug, updata, pos)
      PROVE  UpdataShape'
  <2>1. job'.debug = debug /\ job'.updata = updata /\ job'.pos = pos /\ job'.output = ""
    BY <1>3 DEF Searching
  <2>2. SearchShape(job')
    BY <1>3, <2>1, Zenon DEF SearchShape
  <2>3. Separate(job'.updata) /\ Headed(job'.updata) /\ ~Inside'
    BY <1>3, <2>1, Zenon DEF Inside
  <2> QED BY <2>2, <2>3, Zenon DEF UpdataShape
<1>4. CASE \E debug \in BOOLEAN : unpack_updata(debug)
  BY <1>3, <1>4, UpdataStarts
<1>5. ASSUME Running("unpack_updata") PROVE Separate(job.updata) /\ Headed(job.updata)
  BY <1>5 DEF UpdataShape
<1>6. CASE updata_zeros \/ updata_content_end
  BY <1>3, <1>5, <1>6 DEF updata_zeros, updata_content_end, Between, Inside
<1>7. CASE updata_packet
  <2>1. PICK p \in PacketsOf(job.updata) :
           /\ p.at = job.pos /\ Between
           /\ job' = [cmd |-> "unpack_updata", debug |-> job.debug, updata |-> job.updata,
                      pos |-> p.at + p.what.header_length, output |-> NameOf(job.debug, p),
                      content |-> ContentOf(job.updata, p), header |-> SumsOf(job.updata, p),
                      length |-> p.what.content_length, done |-> 0,
                      padding |-> padding(p.what.header_length + p.what.content_length, 4)]
    BY <1>7, OnePacket
  <2>2. Separate(job.updata) /\ Headed(job.updata)
    BY <1>5, <2>1 DEF Between
  <2>3. NameOf(job.debug, p) # "" /\ p.what.content_length \in Nat
    BY <2>2, NamesAreNotEmpty, PacketFacts
  <2>4. /\ job'.output = NameOf(job.debug, p) /\ job'.updata = job.updata /\ job'.done = 0
        /\ job'.length = p.what.content_length /\ BlockFields \subseteq DOMAIN job'
    BY <2>1 DEF BlockFields
  <2>5. BlockShape(job')
    <3>1. 0 \in Nat
      OBVIOUS
    <3> QED BY <2>3, <2>4, <3>1, Zenon DEF BlockShape
  <2>6. Separate(job'.updata) /\ Headed(job'.updata) /\ ~Between'
    BY <2>2, <2>3, <2>4, Zenon DEF Between
  <2> QED BY <2>5, <2>6, Zenon DEF UpdataShape
<1>8. CASE updata_block
  <2>1. /\ Running("unpack_updata") /\ job'.output # "" /\ job'.updata = job.updata
        /\ job'.done \in Nat /\ job'.length = job.length /\ BlockFields \subseteq DOMAIN job'
    BY <1>8, OneBlock
  <2>2. BlockShape(job) /\ Separate(job.updata) /\ Headed(job.updata)
    BY <1>8, OneBlock DEF UpdataShape, Inside
  <2>3. BlockShape(job')
    BY <2>1, <2>2 DEF BlockShape
  <2> QED BY <2>1, <2>2, <2>3 DEF UpdataShape, Between
<1>9. CASE updata_packet_fails \/ updata_invalid \/ updata_end \/ updata_block_fails
  BY <1>9, <1>2, IdleIsJob DEF updata_packet_fails, updata_invalid, updata_end, updata_block_fails, Raise,
                               End, Running
<1> QED BY <1>1, <1>2, <1>4, <1>6, <1>7, <1>8, <1>9, UpdataOnlyHere DEF UpdataStep

\* What is left of a list when its head is used.
LEMMA UseTheHead ==
    ASSUME NEW S, NEW s \in Seq(S), NEW k \in 0 .. Len(s),
           SubSeq(s, k + 1, Len(s)) # <<>>
    PROVE  /\ k + 1 \in 1 .. Len(s)
           /\ Head(SubSeq(s, k + 1, Len(s))) = s[k + 1]
           /\ Tail(SubSeq(s, k + 1, Len(s))) = SubSeq(s, (k + 1) + 1, Len(s))
<1> DEFINE t == SubSeq(s, k + 1, Len(s))
<1>1. t \in Seq(S) /\ Len(t) = Len(s) - k /\ \A n \in 1 .. Len(t) : t[n] = s[k + n]
  BY SMT
<1>2. t # <<>> /\ k < Len(s)
  BY <1>1
<1>3. Tail(t) \in Seq(S) /\ Len(Tail(t)) = Len(t) - 1
      /\ \A n \in 1 .. Len(t) - 1 : Tail(t)[n] = t[n + 1]
  BY <1>1, <1>2
<1> DEFINE u == SubSeq(s, (k + 1) + 1, Len(s))
<1>4. u \in Seq(S) /\ Len(u) = Len(s) - (k + 1) /\ \A n \in 1 .. Len(u) : u[n] = s[(k + 1) + n]
  BY <1>2, SMT
<1> HIDE DEF t, u
<1>5. Tail(t) = u
  <2>1. Len(Tail(t)) = Len(u) /\ Len(u) \in Nat
    BY <1>1, <1>2, <1>3, <1>4
  <2>2. \A n \in 1 .. Len(u) : Tail(t)[n] = u[n]
    <3> SUFFICES ASSUME NEW n \in 1 .. Len(u) PROVE Tail(t)[n] = u[n]
      OBVIOUS
    <3>1. n \in 1 .. Len(t) - 1 /\ n + 1 \in 1 .. Len(t) /\ k + (n + 1) = k + 1 + n
      BY <1>1, <1>2, <1>4
    <3> QED BY <1>1, <1>3, <1>4, <3>1
  <2> QED BY <1>3, <1>4, <2>1, <2>2, SeqEqual, Zenon
<1>6. Head(t) = s[k + 1]
  BY <1>1, <1>2
<1> QED BY <1>2, <1>5, <1>6 DEF t, u

LEMMA ChecksStay ==
    ASSUME JobInv, [Next]_toolVars, HeadersIn(files), UpdataShape, ChecksUsed
    PROVE  ChecksUsed'
<1>1. CASE UNCHANGED dirVars
  BY <1>1 DEF dirVars, ChecksUsed, Inside, Running
<1>2. CASE ~Running("unpack_updata")'
  BY <1>2 DEF ChecksUsed, Inside
<1>3. ASSUME NEW updata, NEW debug, NEW pos, job' = Searching(debug, updata, pos)
      PROVE  ChecksUsed'
  <2>1. job'.output = ""
    BY <1>3 DEF Searching
  <2> QED BY <2>1, Zenon DEF ChecksUsed, Inside
<1>4. CASE \E debug \in BOOLEAN : unpack_updata(debug)
  BY <1>3, <1>4, UpdataStarts
<1>5. CASE updata_zeros \/ updata_content_end
  BY <1>3, <1>5 DEF updata_zeros, updata_content_end
<1>6. CASE updata_packet
  <2>1. PICK p \in PacketsOf(job.updata) :
           /\ p.at = job.pos /\ Between
           /\ job' = [cmd |-> "unpack_updata", debug |-> job.debug, updata |-> job.updata,
                      pos |-> p.at + p.what.header_length, output |-> NameOf(job.debug, p),
                      content |-> ContentOf(job.updata, p), header |-> SumsOf(job.updata, p),
                      length |-> p.what.content_length, done |-> 0,
                      padding |-> padding(p.what.header_length + p.what.content_length, 4)]
    BY <1>6, OnePacket
  <2>2. /\ job'.updata = job.updata /\ job'.pos = p.at + p.what.header_length /\ job'.done = 0
        /\ job'.header = SumsOf(job.updata, p)
    BY <2>1
  <2>3. Separate(job.updata) /\ Headed(job.updata)
    BY <2>1 DEF Between, UpdataShape
  <2> DEFINE sums == SumsOf(job.updata, p)
  <2>4. sums \in Seq(BOOLEAN)
    BY <2>3, SumsAreKnown
  <2> HIDE DEF sums
  <2>5. 0 \in 0 .. Len(sums) /\ sums = SubSeq(sums, 0 + 1, Len(sums)) /\ 0 <= 0 * BlockBytes
    BY <2>4 DEF BlockBytes
  <2>6. \A n \in 1 .. 0 : sums[n] = TRUE
    OBVIOUS
  <2>7. \E k \in 0 .. Len(sums) :
           /\ job'.done <= k * BlockBytes /\ job'.header = SubSeq(sums, k + 1, Len(sums))
           /\ \A n \in 1 .. k : sums[n] = TRUE
    <3>1. job'.done = 0 /\ job'.header = sums
      BY <2>2, Zenon DEF sums
    <3> QED BY <2>5, <2>6, <3>1, ZenonT(60)
  <2> QED BY <2>2, <2>7, Zenon DEF ChecksUsed, sums
<1>7. CASE updata_block
  <2> SUFFICES ASSUME Inside', job'.debug PROVE ChecksUsed'
    BY DEF ChecksUsed
  <2>1. /\ job'.debug = job.debug /\ job'.updata = job.updata /\ job'.pos = job.pos
        /\ job'.done = NextDone /\ NextDone \in Nat /\ NextDone <= job.done + BlockBytes
        /\ Running("unpack_updata") /\ job.output # "" /\ job.done \in Nat
        /\ job.debug => NextSumRight
        /\ job'.header = IF job.debug THEN Tail(job.header) ELSE job.header
    BY <1>7, OneBlock
  <2>2. job.debug /\ Inside /\ job'.header = Tail(job.header) /\ job.header # <<>> /\ Head(job.header) = TRUE
    BY <2>1, Zenon DEF Inside, NextSumRight
  <2>3. PICK p \in PacketsOf(job.updata) :
           /\ p.at + p.what.header_length = job.pos
           /\ \E k \in 0 .. Len(SumsOf(job.updata, p)) :
                 /\ job.done <= k * BlockBytes
                 /\ job.header = SubSeq(SumsOf(job.updata, p), k + 1, Len(SumsOf(job.updata, p)))
                 /\ \A n \in 1 .. k : SumsOf(job.updata, p)[n] = TRUE
    BY <2>2 DEF ChecksUsed
  <2> DEFINE sums == SumsOf(job.updata, p)
  <2>4. PICK k \in 0 .. Len(sums) :
           /\ job.done <= k * BlockBytes /\ job.header = SubSeq(sums, k + 1, Len(sums))
           /\ \A n \in 1 .. k : sums[n] = TRUE
    BY <2>3
  <2>5. sums \in Seq(BOOLEAN)
    BY <2>1, SumsAreKnown DEF UpdataShape
  <2> HIDE DEF sums
  <2>6. k + 1 \in 1 .. Len(sums)
    BY <2>2, <2>4, <2>5, UseTheHead, Zenon
  <2>7. Head(job.header) = sums[k + 1] /\ Tail(job.header) = SubSeq(sums, (k + 1) + 1, Len(sums))
    BY <2>2, <2>4, <2>5, UseTheHead, Zenon
  <2>8. NextDone <= (k + 1) * BlockBytes
    <3> DEFINE d == job.done
               n == NextDone
    <3>1. Len(sums) \in Nat
      BY <2>5, LenProperties, Zenon
    <3>2. k \in Nat
      BY <3>1
    <3>3. d \in Nat /\ n \in Nat /\ n <= d + BlockBytes /\ d <= k * BlockBytes
      BY <2>1, <2>4, Zenon
    <3> HIDE DEF d, n
    <3>4. n <= (k + 1) * BlockBytes
      BY <3>2, <3>3 DEF BlockBytes
    <3> QED BY <3>4, Zenon DEF n
  <2>9. \A n \in 1 .. (k + 1) : sums[n] = TRUE
    <3>1. sums[k + 1] = TRUE
      BY <2>2, <2>7, Zenon
    <3>2. \A n \in 1 .. (k + 1) : n \in 1 .. k \/ n = k + 1
      OBVIOUS
    <3> QED BY <2>4, <3>1, <3>2, Zenon
  <2>10. k + 1 \in 0 .. Len(sums)
    BY <2>6, SMT
  <2>11. job'.done <= (k + 1) * BlockBytes /\ job'.header = SubSeq(sums, (k + 1) + 1, Len(sums))
    BY <2>1, <2>2, <2>7, <2>8, Zenon
  <2>12. p \in PacketsOf(job'.updata) /\ p.at + p.what.header_length = job'.pos
         /\ sums = SumsOf(job'.updata, p)
    BY <2>1, <2>3, Zenon DEF sums
  <2> QED BY <2>9, <2>10, <2>11, <2>12, Zenon DEF ChecksUsed
<1>8. CASE updata_packet_fails \/ updata_invalid \/ updata_end \/ updata_block_fails
  BY <1>8, <1>2, IdleIsJob DEF updata_packet_fails, updata_invalid, updata_end, updata_block_fails, Raise,
                               End, Running
<1> QED BY <1>1, <1>2, <1>4, <1>5, <1>6, <1>7, <1>8, UpdataOnlyHere DEF UpdataStep

\* With debug no block of an update is written whose checksum is not right, whatever the
\* numbers and the lengths of its packets, as long as the header of a packet is a header and
\* a list of checksums is one (bootimg.py:229-233).
THEOREM OnlyChecked == Spec /\ []HeadersIn(files) => []OnlyCheckedBlocks
<1> DEFINE I == JobInv /\ UpdataShape /\ ChecksUsed
<1>1. Init => I
  BY IdleIsJob DEF Init, JobInv, Jobs, UpdataShape, ChecksUsed, Inside, Running
<1>2. I /\ HeadersIn(files) /\ [Next]_toolVars => I'
  BY StepFrame, ShapeStays, ChecksStay
<1>3. I => OnlyCheckedBlocks
  <2> SUFFICES ASSUME I, Inside, job.debug PROVE OnlyCheckedBlocks
    BY DEF OnlyCheckedBlocks
  <2>1. PICK p \in PacketsOf(job.updata) :
           /\ p.at + p.what.header_length = job.pos
           /\ \E k \in 0 .. Len(SumsOf(job.updata, p)) :
                 /\ job.done <= k * BlockBytes
                 /\ job.header = SubSeq(SumsOf(job.updata, p), k + 1, Len(SumsOf(job.updata, p)))
                 /\ \A n \in 1 .. k : SumsOf(job.updata, p)[n] = TRUE
    BY DEF ChecksUsed
  <2> DEFINE sums == SumsOf(job.updata, p)
             m == (job.done + BlockBytes - 1) \div BlockBytes
  <2>2. PICK k \in 0 .. Len(sums) : job.done <= k * BlockBytes /\ \A n \in 1 .. k : sums[n] = TRUE
    BY <2>1
  <2>3. job.done \in Nat
    BY Zenon DEF UpdataShape, BlockShape, Inside
  <2>4. sums \in Seq(BOOLEAN)
    BY SumsAreKnown DEF UpdataShape, Inside
  <2> HIDE DEF sums
  <2>5. m \in Nat /\ m <= k /\ k <= Len(sums) /\ k \in Nat /\ Len(sums) \in Nat
    <3> DEFINE d == job.done
               l == Len(sums)
    <3>1. d \in Nat /\ l \in Nat /\ k \in 0 .. l /\ d <= k * BlockBytes
      BY <2>2, <2>3, <2>4, LenProperties, Zenon
    <3>2. m = (d + BlockBytes - 1) \div BlockBytes
      OBVIOUS
    <3> HIDE DEF d, l, m
    <3>3. m \in Nat /\ m <= k /\ k <= l /\ k \in Nat
      BY <3>1, <3>2 DEF BlockBytes
    <3> QED BY <3>1, <3>3, Zenon DEF l
  <2> HIDE DEF m
  <2>6. \A n \in 1 .. m : n <= Len(sums) /\ n \in 1 .. k
    BY <2>5
  <2>7. \A n \in 1 .. m : n <= Len(sums) /\ sums[n] = TRUE
    BY <2>2, <2>6, Zenon
  <2> QED BY <2>1, <2>7, Zenon DEF OnlyCheckedBlocks, sums, m
<1> QED BY <1>1, <1>2, <1>3, PTL DEF Spec

-----------------------------------------------------------------------------
(* What pads to four bytes                                                 *)

\* The function inside And.
Bit(v, a, b) == (a % 2) * (b % 2) + 2 * v[a \div 2][b \div 2]

IsAnd(f) ==
    f = [n \in 0 .. Bits |->
            [a \in Int |-> [b \in Nat |-> IF n = 0 THEN 0 ELSE Bit(f[n - 1], a, b)]]]

LEMMA AndExists == \E f : IsAnd(f)
<1> DEFINE V == [Int -> [Nat -> Int]]
           base == [a \in Int |-> [b \in Nat |-> 0]]
           At(v) == [a \in Int |-> [b \in Nat |-> Bit(v, a, b)]]
           step == [nv \in (1 .. Bits) \X V |-> At(nv[2])]
<1>1. base \in V
  OBVIOUS
<1>2. ASSUME NEW v \in V PROVE At(v) \in V
  <2>1. ASSUME NEW a \in Int, NEW b \in Nat PROVE Bit(v, a, b) \in Int
    <3>1. a \div 2 \in Int /\ a % 2 \in Int /\ b \div 2 \in Nat /\ b % 2 \in Int
      OBVIOUS
    <3>2. v[a \div 2][b \div 2] \in Int
      BY <3>1
    <3>3. (a % 2) * (b % 2) \in Int
      BY <3>1
    <3> QED BY <3>2, <3>3 DEF Bit
  <2> QED BY <2>1
<1>3. \A k \in 1 .. Bits : \A v \in V : step[<<k, v>>] = At(v)
  OBVIOUS
<1> HIDE DEF base, step, V
<1>4. IsStep(step, Bits, V)
  <2> HIDE DEF At
  <2> QED BY <1>2, <1>3 DEF IsStep
<1>5. Bits \in Nat
  BY DEF Bits
<1>6. PICK f \in [0 .. Bits -> V] : BuiltBy(f, Bits, base, step)
  BY <1>1, <1>4, <1>5, Recursion
<1> DEFINE Body(n) == [a \in Int |-> [b \in Nat |-> IF n = 0 THEN 0 ELSE Bit(f[n - 1], a, b)]]
<1>7. ASSUME NEW n \in 0 .. Bits
      PROVE  f[n] = Body(n)
  <2>1. CASE n = 0
    BY <1>6, <2>1 DEF BuiltBy, base
  <2>2. CASE n # 0
    <3>1. n \in 1 .. Bits /\ n - 1 \in 0 .. Bits
      BY <1>5, <2>2
    <3>2. f[n - 1] \in V
      BY <1>6, <3>1
    <3>3. f[n] = At(f[n - 1])
      <4> HIDE DEF At
      <4> QED BY <1>3, <1>6, <3>1, <3>2 DEF BuiltBy
    <3> QED BY <2>2, <3>3
  <2> QED BY <2>1, <2>2
<1>8. f = [n \in 0 .. Bits |-> Body(n)]
  <2> HIDE DEF Body
  <2> QED BY <1>6, <1>7
<1> QED BY <1>8, Zenon DEF IsAnd

LEMMA AndIs == \E f : IsAnd(f) /\ \A x, y : And(x, y) = f[Bits][x][y]
<1> DEFINE f == CHOOSE g : IsAnd(g)
<1>1. IsAnd(f)
  BY AndExists
<1>2. \A x, y : And(x, y) = f[Bits][x][y]
  BY Zenon DEF And, IsAnd, Bit
<1> HIDE DEF f
<1> QED BY <1>1, <1>2

LEMMA AndValues ==
    ASSUME NEW f, IsAnd(f)
    PROVE  /\ \A a \in Int, b \in Nat : f[0][a][b] = 0
           /\ \A n \in 1 .. 20, a \in Int, b \in Nat : f[n][a][b] = Bit(f[n - 1], a, b)
<1> DEFINE Value(m, c, d) == IF m = 0 THEN 0 ELSE Bit(f[m - 1], c, d)
           Body(m) == [c \in Int |-> [d \in Nat |-> Value(m, c, d)]]
<1>1. f = [m \in 0 .. 20 |-> Body(m)]
  BY Zenon DEF IsAnd, Bits
<1>2. \A m \in 0 .. 20 : f[m] = Body(m)
  <2> HIDE DEF Body
  <2> QED BY <1>1
<1>3. \A m \in 0 .. 20, a \in Int, b \in Nat : f[m][a][b] = Value(m, a, b)
  <2> SUFFICES ASSUME NEW m \in 0 .. 20, NEW a \in Int, NEW b \in Nat
               PROVE  f[m][a][b] = Value(m, a, b)
    OBVIOUS
  <2>1. f[m] = Body(m)
    BY <1>2
  <2> HIDE DEF Value
  <2> QED BY <2>1
<1>4. 0 \in 0 .. 20 /\ \A n \in 1 .. 20 : n \in 0 .. 20 /\ n # 0
  OBVIOUS
<1> QED BY <1>3, <1>4, Zenon

\* The last two bits of a number.
LEMMA AndOfThree == \A a \in Int : And(a, 3) = a % 4
<1> SUFFICES ASSUME NEW a \in Int PROVE And(a, 3) = a % 4
  OBVIOUS
<1>1. PICK f : IsAnd(f) /\ \A x, y : And(x, y) = f[Bits][x][y]
  BY AndIs
<1>2. /\ \A c \in Int, b \in Nat : f[0][c][b] = 0
      /\ \A n \in 1 .. 20, c \in Int, b \in Nat : f[n][c][b] = Bit(f[n - 1], c, b)
  BY <1>1, AndValues, Zenon
<1> DEFINE S == {n \in Nat : n <= 20 => \A c \in Int : f[n][c][0] = 0}
<1>3. 0 \in S
  BY <1>2
<1>4. ASSUME NEW n \in Nat, n \in S PROVE n + 1 \in S
  <2> SUFFICES ASSUME n + 1 <= 20, NEW c \in Int PROVE f[n + 1][c][0] = 0
    OBVIOUS
  <2>1. n + 1 \in 1 .. 20 /\ n + 1 - 1 = n /\ n <= 20
    OBVIOUS
  <2>2. f[n + 1][c][0] = Bit(f[n], c, 0)
    <3> DEFINE m == n + 1
    <3>1. m \in 1 .. 20 /\ m - 1 = n
      BY <2>1
    <3> HIDE DEF m
    <3>2. f[m][c][0] = Bit(f[m - 1], c, 0)
      BY <1>2, <3>1
    <3> QED BY <3>1, <3>2, Zenon DEF m
  <2>3. 0 % 2 = 0 /\ 0 \div 2 = 0 /\ c \div 2 \in Int /\ c % 2 \in Int
    OBVIOUS
  <2>4. f[n][c \div 2][0] = 0
    BY <1>4, <2>1, <2>3
  <2> QED BY <2>2, <2>3, <2>4 DEF Bit
<1> HIDE DEF S
<1>5. \A n \in Nat : n \in S
  BY <1>3, <1>4, SetInduction
<1>6. \A c \in Int : f[18][c][0] = 0
  BY <1>5 DEF S
<1>7. \A c \in Int : f[19][c][1] = c % 2
  <2> SUFFICES ASSUME NEW c \in Int PROVE f[19][c][1] = c % 2
    OBVIOUS
  <2>1. f[19][c][1] = Bit(f[18], c, 1)
    BY <1>2, 19 \in 1 .. 20, 19 - 1 = 18
  <2>2. 1 % 2 = 1 /\ 1 \div 2 = 0 /\ c \div 2 \in Int /\ c % 2 \in Int
    OBVIOUS
  <2> QED BY <1>6, <2>1, <2>2 DEF Bit
<1>8. f[20][a][3] = (a % 2) + 2 * ((a \div 2) % 2)
  <2>1. f[20][a][3] = Bit(f[19], a, 3)
    BY <1>2, 20 \in 1 .. 20, 20 - 1 = 19
  <2>2. 3 % 2 = 1 /\ 3 \div 2 = 1 /\ a \div 2 \in Int /\ a % 2 \in Int
    OBVIOUS
  <2> QED BY <1>7, <2>1, <2>2 DEF Bit
<1>9. (a % 2) + 2 * ((a \div 2) % 2) = a % 4
  OBVIOUS
<1> QED BY <1>1, <1>8, <1>9 DEF Bits

LEMMA PaddingOfFour ==
    ASSUME NEW n \in Nat
    PROVE  padding(n, 4) \in 0 .. 3 /\ (n + padding(n, 4)) % 4 = 0
<1>1. padding(n, 4) = (-n) % 4
  BY AndOfThree DEF padding
<1>2. (-n) % 4 \in 0 .. 3 /\ (n + ((-n) % 4)) % 4 = 0
  OBVIOUS
<1> QED BY <1>1, <1>2

-----------------------------------------------------------------------------
(* Packets                                                                 *)

Packed(u) == Separate(u) /\ Headed(u) /\ Lined(u)

\* Where a packet ends.
LEMMA EndFacts ==
    ASSUME NEW u, Packed(u), NEW p \in PacketsOf(u)
    PROVE  /\ p.at \in Nat /\ EndOf(p) \in Nat /\ p.at + 98 <= EndOf(p) /\ EndOf(p) <= u.len
           /\ p.at % 4 = 0 /\ EndOf(p) % 4 = 0 /\ u.len \in Nat /\ u.len % 4 = 0
           /\ p \in u.pieces /\ p.what.blank = 0 /\ p.what.size = 98
           /\ ContentOf(u, p).size = p.what.content_length /\ p.what.content_length \in Nat
           /\ p.what.content_length = 0 => ContentOf(u, p) = Empty
           /\ HasSums(u, p.at, p.what.header_length)
<1> DEFINE a == p.at
           h == p.what.header_length
           c == p.what.content_length
           g == padding(h + c, 4)
<1>1. a \in Nat /\ h \in Nat /\ c \in Nat /\ h >= 98 /\ p \in u.pieces /\ p.what.size = 98
  <2>1. Separate(u) /\ Headed(u) /\ h >= PacketHeader
    BY Zenon DEF Packed, Lined
  <2> HIDE DEF h
  <2>2. h >= 98
    BY <2>1 DEF PacketHeader
  <2> USE DEF h
  <2>3. a \in Nat /\ h \in Nat /\ c \in Nat /\ p \in u.pieces /\ p.what.size = 98
    BY <2>1, PacketFacts
  <2> QED BY <2>2, <2>3, Zenon
<1>2. /\ u.len \in Nat /\ u.len % 4 = 0 /\ p.what.blank = 0 /\ a % 4 = 0 /\ EndOf(p) <= u.len
  BY Zenon DEF Packed, Separate, Lined
<1>3. EndOf(p) = a + h + c + g
  BY DEF EndOf
<1>4. /\ ContentOf(u, p).size \in Nat
      /\ a + h + c <= u.len => ContentOf(u, p).size = c
      /\ c = 0 => ContentOf(u, p) = Empty
  BY ContentSize, Zenon DEF Packed
<1> HIDE DEF a, h, c
<1>5. h + c \in Nat
  BY <1>1
<1>6. g \in 0 .. 3 /\ (h + c + g) % 4 = 0
  BY <1>5, PaddingOfFour
<1> HIDE DEF g
<1>7. EndOf(p) \in Nat /\ a + 98 <= EndOf(p) /\ EndOf(p) % 4 = 0 /\ a + h + c <= EndOf(p)
  BY <1>1, <1>2, <1>3, <1>6
<1>8. a + h + c <= u.len
  BY <1>1, <1>2, <1>7
<1>9. HasSums(u, a, h)
  <2>1. a + 98 \in Nat /\ h - 98 \in Nat /\ a + 98 + (h - 98) <= u.len
    BY <1>1, <1>2, <1>8
  <2>2. ReadAt(u, a + 98, h - 98).size = h - 98
    BY <2>1, SizeOfRead, Zenon DEF Packed
  <2> QED BY <1>1, <2>2 DEF HasSums, SumsAt, PacketHeader
<1> QED BY <1>1, <1>2, <1>4, <1>7, <1>8, <1>9, Zenon DEF a, h, c

\* One packet is behind the other.
LEMMA PacketsApart ==
    ASSUME NEW u, Packed(u), NEW p \in PacketsOf(u), NEW q \in PacketsOf(u)
    PROVE  p = q \/ EndOf(p) <= q.at \/ EndOf(q) <= p.at
<1>1. p.at \in Nat /\ q.at \in Nat /\ p \in u.pieces /\ q \in u.pieces
  BY EndFacts, ZenonT(60)
<1>2. p.at = q.at => p = q
  BY <1>1, Zenon DEF Packed, Separate
<1>3. (p.at < q.at => EndOf(p) <= q.at) /\ (q.at < p.at => EndOf(q) <= p.at)
  BY Zenon DEF Packed, Lined
<1> DEFINE a == p.at
           b == q.at
<1>4. a = b \/ a < b \/ b < a
  BY <1>1
<1> QED BY <1>2, <1>3, <1>4, Zenon

LEMMA DeliveredAtFirst ==
    ASSUME NEW u, Packed(u), NEW fs, NEW debug
    PROVE  BetweenAt(fs, debug, u, 0)
<1>1. ASSUME NEW p \in PacketsOf(u) PROVE 0 <= p.at /\ ~(p.at < 0)
  <2> DEFINE a == p.at
  <2>1. a \in Nat
    BY EndFacts, ZenonT(60)
  <2> HIDE DEF a
  <2>2. 0 <= a /\ ~(a < 0)
    BY <2>1
  <2> QED BY <2>2, Zenon DEF a
<1>2. 0 \in Nat /\ 0 % 4 = 0
  OBVIOUS
<1>3. Apart(u, 0) /\ Delivered(fs, debug, u, 0, "")
  BY <1>1, Zenon DEF Apart, Delivered, LastBefore
<1> QED BY <1>2, <1>3, Zenon DEF BetweenAt

\* Zeros are outside of the packets.
LEMMA DeliveredAfterZeros ==
    ASSUME NEW u, Packed(u), NEW fs, NEW debug, NEW pos, BetweenAt(fs, debug, u, pos),
           IsBlank(u, pos, 4)
    PROVE  BetweenAt(fs, debug, u, pos + 4)
<1>1. pos \in Nat /\ pos % 4 = 0 /\ pos + 4 \in Nat /\ (pos + 4) % 4 = 0
  <2>1. pos \in Nat /\ pos % 4 = 0
    BY Zenon DEF BetweenAt
  <2> QED BY <2>1
<1>2. ASSUME NEW p \in PacketsOf(u)
      PROVE  (p.at < pos + 4 <=> p.at < pos) /\ (pos + 4 <= p.at \/ EndOf(p) <= pos + 4)
  <2> DEFINE a == p.at
             e == EndOf(p)
  <2>1. a \in Nat /\ e \in Nat /\ a + 98 <= e /\ p \in u.pieces /\ p.what.size = 98 /\ p.what.blank = 0
    BY EndFacts, ZenonT(60)
  <2>2. a + 98 <= pos \/ pos + 4 <= a + 0
    BY <2>1, Zenon DEF IsBlank
  <2>3. pos <= a \/ e <= pos
    BY Zenon DEF BetweenAt, Apart
  <2> HIDE DEF a, e
  <2>4. (a < pos + 4 <=> a < pos) /\ (pos + 4 <= a \/ e <= pos + 4)
    BY <1>1, <2>1, <2>2, <2>3
  <2> QED BY <2>4, Zenon DEF a, e
<1>3. Apart(u, pos + 4)
  BY <1>2, Zenon DEF Apart
<1>4. \A p \in PacketsOf(u) : LastBefore(u, p, pos + 4) => LastBefore(u, p, pos)
  BY <1>2, Zenon DEF LastBefore
<1>5. Delivered(fs, debug, u, pos + 4, "")
  BY <1>4, Zenon DEF BetweenAt, Delivered
<1> QED BY <1>1, <1>3, <1>5, Zenon DEF BetweenAt

\* What is written to a file leaves those for other names.
LEMMA Rewritten ==
    ASSUME NEW name, NEW c, files' = Written(name, c)
    PROVE  /\ name # Null => name \in DOMAIN files' /\ files'[name] = c
           /\ \A n \in DOMAIN files : n # name \/ name = Null => n \in DOMAIN files' /\ files'[n] = files[n]
BY DEF Written, With

DeliveredOr(u, debug, pos, name) ==
    Delivered(files, debug, u, pos, "") \/ Delivered(files, debug, u, pos, name)

LEMMA DeliveredWhileWriting ==
    ASSUME NEW u, Headed(u), NEW debug, NEW pos, NEW name, DeliveredOr(u, debug, pos, name),
           \E c : files' = Written(name, c)
    PROVE  Delivered(files', debug, u, pos, name)
<1>1. \A p \in PacketsOf(u) : NameOf(debug, p) # ""
  BY NamesAreNotEmpty
<1>2. \A n \in DOMAIN files : n # name \/ name = Null => n \in DOMAIN files' /\ files'[n] = files[n]
  BY Rewritten, Zenon
<1>3. ASSUME NEW p \in PacketsOf(u), LastBefore(u, p, pos), NameOf(debug, p) # Null,
             NameOf(debug, p) # name
      PROVE  NameOf(debug, p) \in DOMAIN files /\ files[NameOf(debug, p)] = ContentOf(u, p)
  BY <1>1, <1>3, Zenon DEF Delivered, DeliveredOr
<1> QED BY <1>2, <1>3, Zenon DEF Delivered

\* Two places do not have the same name.
LEMMA NamesAreDistinct ==
    ASSUME NEW debug, NEW p, NEW q, NameOf(debug, p) = NameOf(debug, q), NameOf(debug, p) # Null
    PROVE  p.what.position = q.what.position
<1> DEFINE x == p.what.position
           y == q.what.position
<1>1. CASE debug
  BY <1>1, Zenon DEF NameOf
<1>2. CASE ~debug
  <2>1. x \in DOMAIN POSITION /\ y \in DOMAIN POSITION /\ POSITION[x] = POSITION[y]
    BY <1>2, Zenon DEF NameOf
  <2> HIDE DEF x, y
  <2>2. x = y
    BY <2>1 DEF POSITION
  <2> QED BY <2>2, Zenon DEF x, y
<1> QED BY <1>1, <1>2

\* A packet that is written is where it belongs.
LEMMA DeliveredAfterPacket ==
    ASSUME NEW u, Packed(u), NEW fs, NEW debug, NEW p \in PacketsOf(u), NEW name,
           name = NameOf(debug, p), Delivered(fs, debug, u, p.at, name),
           name # Null => name \in DOMAIN fs /\ fs[name] = ContentOf(u, p)
    PROVE  BetweenAt(fs, debug, u, EndOf(p))
<1> DEFINE a == p.at
           e == EndOf(p)
<1>1. a \in Nat /\ e \in Nat /\ e % 4 = 0 /\ a + 98 <= e
  BY EndFacts, ZenonT(60)
<1>2. ASSUME NEW q \in PacketsOf(u)
      PROVE  /\ e <= q.at \/ EndOf(q) <= e
             /\ q.at < e => q = p \/ q.at < a
             /\ q.at < a => q.at < e
             /\ a < e /\ (a <= q.at => ~(q.at < a))
  <2> DEFINE b == q.at
             d == EndOf(q)
  <2>1. b \in Nat /\ d \in Nat /\ b + 98 <= d /\ (p = q \/ e <= b \/ d <= a)
    BY EndFacts, PacketsApart, Zenon
  <2>2. p = q => a = b /\ e = d
    OBVIOUS
  <2> HIDE DEF a, b, d, e
  <2>3. /\ e <= b \/ d <= e
        /\ b < e => q = p \/ b < a
        /\ b < a => b < e
        /\ a < e /\ (a <= b => ~(b < a))
    BY <1>1, <2>1, <2>2
  <2> QED BY <2>3, Zenon DEF b, d
<1>3. Apart(u, e)
  BY <1>2, Zenon DEF Apart
<1>4. ASSUME NEW q \in PacketsOf(u), LastBefore(u, q, e), NameOf(debug, q) # Null
      PROVE  NameOf(debug, q) \in DOMAIN fs /\ fs[NameOf(debug, q)] = ContentOf(u, q)
  <2>1. CASE q = p
    BY <1>4, <2>1, Zenon
  <2>2. CASE q # p
    <3>1. q.at < a
      BY <1>2, <1>4, <2>2, Zenon DEF LastBefore
    <3>2. LastBefore(u, q, a)
      BY <1>2, <1>4, <3>1, Zenon DEF LastBefore
    <3>3. NameOf(debug, q) # name
      <4> SUFFICES ASSUME NameOf(debug, q) = name PROVE FALSE
        OBVIOUS
      <4>1. p.what.position = q.what.position
        BY <1>4, NamesAreDistinct, ZenonT(60)
      <4>2. p.at <= q.at
        BY <1>2, <1>4, <4>1, Zenon DEF LastBefore
      <4> QED BY <1>2, <3>1, <4>2, Zenon
    <3> QED BY <1>4, <3>2, <3>3, Zenon DEF Delivered
  <2> QED BY <2>1, <2>2
<1>5. Delivered(fs, debug, u, e, "")
  BY <1>4, Zenon DEF Delivered
<1> QED BY <1>1, <1>3, <1>5, Zenon DEF BetweenAt

\* Where neither zeros nor a packet come the file is at its end.
LEMMA NothingElse ==
    ASSUME NEW u, Packed(u), NEW fs, NEW debug, NEW pos, BetweenAt(fs, debug, u, pos),
           PacketsOf(u) # {}, pos < u.len, ~IsBlank(u, pos, 4)
    PROVE  IsPacket(u, pos)
<1>1. pos \in Nat /\ pos % 4 = 0 /\ u.len \in Nat /\ u.len % 4 = 0
  BY EndFacts, Zenon DEF BetweenAt
<1> DEFINE len == u.len
<1>2. pos + 4 <= len
  <2> HIDE DEF len
  <2>1. len \in Nat /\ len % 4 = 0 /\ pos < len
    BY <1>1, Zenon DEF len
  <2> QED BY <1>1, <2>1
<1>3. PICK x \in u.pieces : ~(x.at + x.what.size <= pos) /\ ~(pos + 4 <= x.at + x.what.blank)
  BY <1>2, Zenon DEF IsBlank
<1>4. PICK p \in PacketsOf(u) : p.at <= x.at /\ x.at + x.what.size <= EndOf(p)
  BY Zenon DEF Packed, Lined
<1> DEFINE a == p.at
           e == EndOf(p)
           b == x.at
           s == x.what.size
           z == x.what.blank
<1>5. /\ a \in Nat /\ a % 4 = 0 /\ e \in Nat /\ b \in Nat /\ s \in Nat /\ z \in Nat
      /\ ~(b + s <= pos) /\ ~(pos + 4 <= b + z) /\ a <= b /\ b + s <= e
      /\ pos <= a \/ e <= pos
  <2>1. a \in Nat /\ a % 4 = 0 /\ e \in Nat
    BY EndFacts, ZenonT(60)
  <2>2. b \in Nat /\ s \in Nat \ {0} /\ z \in Nat
    BY Zenon DEF Packed, Separate
  <2>3. pos <= a \/ e <= pos
    BY Zenon DEF BetweenAt, Apart
  <2>4. s \in Nat
    BY <2>2
  <2> QED BY <1>3, <1>4, <2>1, <2>2, <2>3, <2>4, Zenon
<1> HIDE DEF a, e, b, s, z
<1>6. a = pos
  BY <1>1, <1>5
<1>7. p \in u.pieces /\ "header_length" \in DOMAIN p.what
  BY DEF PacketsOf
<1> QED BY <1>6, <1>7, Zenon DEF IsPacket, a

LEMMA AllDelivered ==
    ASSUME NEW u, Packed(u), NEW fs, NEW debug, NEW pos, BetweenAt(fs, debug, u, pos), u.len <= pos,
           NEW p \in PacketsOf(u), NameOf(debug, p) # Null,
           \A q \in PacketsOf(u) : q.what.position = p.what.position => q.at <= p.at
    PROVE  NameOf(debug, p) \in DOMAIN fs /\ fs[NameOf(debug, p)] = ContentOf(u, p)
<1>1. p.at < pos
  <2> DEFINE a == p.at
             e == EndOf(p)
             len == u.len
  <2>1. a \in Nat /\ e \in Nat /\ a + 98 <= e /\ e <= len /\ len \in Nat /\ len <= pos /\ pos \in Nat
    BY EndFacts, Zenon DEF BetweenAt
  <2> HIDE DEF a, e, len
  <2>2. a < pos
    BY <2>1
  <2> QED BY <2>2, Zenon DEF a
<1>2. LastBefore(u, p, pos)
  BY <1>1, Zenon DEF LastBefore
<1>3. NameOf(debug, p) # ""
  BY NamesAreNotEmpty, Zenon DEF Packed
<1> QED BY <1>2, <1>3, Zenon DEF BetweenAt, Delivered

LEMMA PackedStart ==
    ASSUME PacketsIn(files), "UPDATA.APP" \in DOMAIN files
    PROVE  Packed(Update(files))
BY Zenon DEF PacketsIn, HeadersIn, Packed

\* An update is read as it was at first.
UpdataPacked == Running("unpack_updata") => Packed(job.updata)

LEMMA PackedStays ==
    ASSUME JobInv, [Next]_toolVars, PacketsIn(files), UpdataShape, UpdataPacked
    PROVE  UpdataPacked'
<1>1. CASE UNCHANGED dirVars
  BY <1>1 DEF dirVars, UpdataPacked, Running
<1>2. CASE ~Running("unpack_updata")'
  BY <1>2 DEF UpdataPacked
<1>3. ASSUME Running("unpack_updata"), job'.updata = job.updata PROVE UpdataPacked'
  BY <1>3, Zenon DEF UpdataPacked
<1>4. CASE \E debug \in BOOLEAN : unpack_updata(debug)
  <2>1. PICK debug \in BOOLEAN : unpack_updata(debug)
    BY <1>4
  <2>2. job' = Searching(debug, Update(files), 0) /\ "UPDATA.APP" \in DOMAIN files
    BY <2>1, UpdataStarts DEF PacketsIn
  <2>3. job'.updata = Update(files)
    BY <2>2 DEF Searching
  <2> QED BY <2>2, <2>3, PackedStart, Zenon DEF UpdataPacked
<1>5. CASE updata_zeros \/ updata_content_end
  <2>1. PICK pos : Running("unpack_updata") /\ job' = Searching(job.debug, job.updata, pos)
    BY <1>5 DEF updata_zeros, updata_content_end, Between, Inside
  <2>2. job'.updata = job.updata
    BY <2>1, Zenon DEF Searching
  <2> QED BY <1>3, <2>1, <2>2
<1>6. CASE updata_packet
  <2>1. Running("unpack_updata") /\ job'.updata = job.updata
    BY <1>6 DEF updata_packet, Between
  <2> QED BY <1>3, <2>1
<1>7. CASE updata_block
  BY <1>3, <1>7, OneBlock
<1>8. CASE updata_packet_fails \/ updata_invalid \/ updata_end \/ updata_block_fails
  BY <1>8, <1>2, IdleIsJob DEF updata_packet_fails, updata_invalid, updata_end, updata_block_fails, Raise,
                               End, Running
<1> QED BY <1>1, <1>2, <1>4, <1>5, <1>6, <1>7, <1>8, UpdataOnlyHere DEF UpdataStep

LEMMA NowBetween ==
    ASSUME NEW debug, NEW updata, NEW pos, job' = Searching(debug, updata, pos),
           PacketsOf(updata) # {} => BetweenAt(files', debug, updata, pos)
    PROVE  DeliveredInv' /\ job'.updata = updata
<1>1. job'.debug = debug /\ job'.updata = updata /\ job'.pos = pos
  BY DEF Searching
<1>2. job'.output = ""
  BY DEF Searching
<1> QED BY <1>1, <1>2, Zenon DEF DeliveredInv, Inside

InsideAt(p) ==
    /\ p \in PacketsOf(job.updata)
    /\ job.pos = p.at + p.what.header_length /\ job.output = NameOf(job.debug, p)
    /\ job.content = ContentOf(job.updata, p) /\ job.length = p.what.content_length
    /\ job.padding = padding(p.what.header_length + p.what.content_length, 4)
    /\ Delivered(files, job.debug, job.updata, p.at, job.output)
    /\ WrittenSoFar(files, job.debug, job.updata, p, job.done)

LEMMA NowInside ==
    ASSUME NEW p, InsideAt(p)', job'.output # ""
    PROVE  DeliveredInv'
BY Zenon DEF DeliveredInv, InsideAt, Between

LEMMA IsInside ==
    ASSUME DeliveredInv, Inside
    PROVE  \E p : InsideAt(p)
BY Zenon DEF DeliveredInv, InsideAt

\* The packets before stay where they belong.
LEMMA DeliveredStays ==
    ASSUME JobInv, [Next]_toolVars, PacketsIn(files), UpdataShape, UpdataPacked, DeliveredInv
    PROVE  DeliveredInv'
<1>1. CASE UNCHANGED dirVars
  BY <1>1, Zenon DEF dirVars, DeliveredInv, Between, Inside, Running
<1>2. CASE ~Running("unpack_updata")'
  BY <1>2 DEF DeliveredInv, Between, Inside
<1>3. CASE \E debug \in BOOLEAN : unpack_updata(debug)
  <2>1. PICK debug \in BOOLEAN : unpack_updata(debug)
    BY <1>3
  <2>2. job' = Searching(debug, Update(files), 0) /\ "UPDATA.APP" \in DOMAIN files
    BY <2>1, UpdataStarts DEF PacketsIn
  <2>3. BetweenAt(files', debug, Update(files), 0)
    BY <2>2, PackedStart, DeliveredAtFirst
  <2> QED BY <2>2, <2>3, NowBetween
<1>4. ASSUME Running("unpack_updata") PROVE Packed(job.updata) /\ Headed(job.updata)
  BY <1>4, Zenon DEF UpdataPacked, Packed
<1>5. CASE updata_zeros
  <2>1. /\ Between /\ IsBlank(job.updata, job.pos, 4) /\ files' = files
        /\ job' = Searching(job.debug, job.updata, job.pos + 4)
    BY <1>5, Zenon DEF updata_zeros
  <2>2. Packed(job.updata)
    BY <1>4, <2>1, Zenon DEF Between
  <2>3. PacketsOf(job.updata) # {} => BetweenAt(files', job.debug, job.updata, job.pos + 4)
    BY <2>1, <2>2, DeliveredAfterZeros, Zenon DEF DeliveredInv
  <2> QED BY <2>1, <2>3, NowBetween
<1>6. CASE updata_packet
  <2>1. PICK p \in PacketsOf(job.updata) :
           /\ p.at = job.pos /\ Between
           /\ job' = [cmd |-> "unpack_updata", debug |-> job.debug, updata |-> job.updata,
                      pos |-> p.at + p.what.header_length, output |-> NameOf(job.debug, p),
                      content |-> ContentOf(job.updata, p), header |-> SumsOf(job.updata, p),
                      length |-> p.what.content_length, done |-> 0,
                      padding |-> padding(p.what.header_length + p.what.content_length, 4)]
           /\ files' = Written(NameOf(job.debug, p), Empty)
    BY <1>6, OnePacket
  <2>2. /\ job'.debug = job.debug /\ job'.updata = job.updata
        /\ job'.pos = p.at + p.what.header_length /\ job'.output = NameOf(job.debug, p)
        /\ job'.content = ContentOf(job.updata, p) /\ job'.length = p.what.content_length /\ job'.done = 0
        /\ job'.padding = padding(p.what.header_length + p.what.content_length, 4)
    BY <2>1
  <2>3. Packed(job.updata) /\ Headed(job.updata)
    BY <1>4, <2>1, Zenon DEF Between
  <2> DEFINE name == NameOf(job.debug, p)
  <2>4. name # ""
    BY <2>3, NamesAreNotEmpty
  <2>5. Delivered(files, job.debug, job.updata, p.at, "")
    BY <2>1, Zenon DEF DeliveredInv, BetweenAt
  <2>6. /\ Delivered(files', job.debug, job.updata, p.at, name)
        /\ name # Null => name \in DOMAIN files' /\ files'[name] = Empty
    <3>1. files' = Written(name, Empty)
      BY <2>1, Zenon
    <3>2. DeliveredOr(job.updata, job.debug, p.at, name)
      BY <2>5, Zenon DEF DeliveredOr
    <3> HIDE DEF name
    <3>3. Delivered(files', job.debug, job.updata, p.at, name)
      BY ONLY <2>3, <3>1, <3>2, DeliveredWhileWriting, Zenon
    <3> QED BY <3>1, <3>3, Rewritten, Zenon
  <2>7. WrittenSoFar(files', job.debug, job.updata, p, 0)
    BY <2>6, Zenon DEF WrittenSoFar
  <2>8. InsideAt(p)' /\ job'.output # ""
    BY <2>2, <2>4, <2>6, <2>7, Zenon DEF InsideAt
  <2> QED BY <2>8, NowInside
<1>7. CASE updata_block
  <2>1. /\ Running("unpack_updata") /\ job'.debug = job.debug /\ job'.updata = job.updata
        /\ job'.pos = job.pos /\ job'.output = job.output /\ job'.content = job.content
        /\ job'.padding = job.padding /\ job'.done = NextDone /\ job.output # "" /\ NextDone # 0
        /\ job'.length = job.length /\ NextDone \in Nat /\ NextDone <= job.length
        /\ files' = Written(job.output, NextPart)
    BY <1>7, OneBlock
  <2>2. PICK p : InsideAt(p)
    BY <2>1, IsInside DEF Inside
  <2>3. Headed(job.updata) /\ Packed(job.updata)
    BY <1>4, <2>1
  <2>5. NextPart = Part(job.content, NextDone)
    <3> DEFINE size == job.content.size
               n    == NextDone
    <3>1. size = job.length /\ job.length \in Nat
      <4>1. /\ p \in PacketsOf(job.updata) /\ job.content = ContentOf(job.updata, p)
            /\ job.length = p.what.content_length
        BY <2>2, Zenon DEF InsideAt
      <4>2. /\ ContentOf(job.updata, p).size = p.what.content_length
            /\ p.what.content_length \in Nat
        BY <2>3, <4>1, EndFacts, ZenonT(60)
      <4> QED BY <4>1, <4>2, Zenon
    <3>2. n \in Nat /\ n <= job.length
      BY <2>1, Zenon
    <3> HIDE DEF size, n
    <3>3. (IF n < size THEN n ELSE size) = n
      BY <3>1, <3>2
    <3> QED BY <3>3, Zenon DEF NextPart, size, n
  <2> DEFINE name == NameOf(job.debug, p)
             c == Part(job.content, NextDone)
  <2>4. name = job.output /\ Delivered(files, job.debug, job.updata, p.at, name)
    BY <2>2, Zenon DEF InsideAt
  <2>6. /\ Delivered(files', job.debug, job.updata, p.at, name)
        /\ name # Null => name \in DOMAIN files' /\ files'[name] = c
    <3>1. files' = Written(name, c)
      BY <2>1, <2>4, <2>5, Zenon
    <3> HIDE DEF name, c
    <3>2. DeliveredOr(job.updata, job.debug, p.at, name)
      BY <2>4, Zenon DEF DeliveredOr
    <3>3. Delivered(files', job.debug, job.updata, p.at, name)
      BY ONLY <2>3, <3>1, <3>2, DeliveredWhileWriting, Zenon
    <3> QED BY <3>1, <3>3, Rewritten, Zenon
  <2>7. WrittenSoFar(files', job.debug, job.updata, p, NextDone)
    BY <2>1, <2>2, <2>6, Zenon DEF WrittenSoFar, InsideAt
  <2>8. InsideAt(p)' /\ job'.output # ""
    BY <2>1, <2>2, <2>4, <2>6, <2>7, Zenon DEF InsideAt
  <2> QED BY <2>8, NowInside
<1>8. CASE updata_content_end
  <2>1. /\ Inside /\ job.done = job.length /\ files' = files
        /\ job' = Searching(job.debug, job.updata, job.pos + job.content.size + job.padding)
    BY <1>8, Zenon DEF updata_content_end
  <2>2. PICK p : InsideAt(p)
    BY <2>1, IsInside
  <2>3. Packed(job.updata)
    BY <1>4, <2>1, Zenon DEF Inside
  <2> DEFINE name == NameOf(job.debug, p)
             u == job.updata
             c == ContentOf(u, p)
  <2>4. /\ p \in PacketsOf(u) /\ name = job.output /\ job.content = c
        /\ Delivered(files, job.debug, u, p.at, name) /\ job.length = p.what.content_length
        /\ WrittenSoFar(files, job.debug, u, p, job.length)
    BY <2>1, <2>2, Zenon DEF InsideAt
  <2>5. c.size = p.what.content_length /\ (p.what.content_length = 0 => c = Empty)
    BY <2>3, <2>4, EndFacts, ZenonT(60)
  <2>6. job.pos + job.content.size + job.padding = EndOf(p)
    BY <2>2, <2>4, <2>5, Zenon DEF InsideAt, EndOf
  <2>7. name # Null => name \in DOMAIN files /\ files[name] = c
    <3>1. c.size = 0 => c = Empty
      BY <2>5, Zenon
    <3>2. Part(c, c.size) = c
      BY Zenon DEF Part
    <3>3. WrittenSoFar(files, job.debug, u, p, c.size)
      BY <2>4, <2>5, Zenon
    <3> QED BY <3>1, <3>2, <3>3, Zenon DEF WrittenSoFar
  <2>8. BetweenAt(files, job.debug, u, EndOf(p))
    BY <2>3, <2>4, <2>7, DeliveredAfterPacket, Zenon
  <2>9. BetweenAt(files', job.debug, u, job.pos + job.content.size + job.padding)
    BY <2>1, <2>6, <2>8, Zenon
  <2> QED BY <2>1, <2>9, NowBetween
<1>9. CASE updata_packet_fails \/ updata_invalid \/ updata_end \/ updata_block_fails
  BY <1>9, <1>2, IdleIsJob DEF updata_packet_fails, updata_invalid, updata_end, updata_block_fails, Raise,
                               End, Running
<1> QED BY <1>1, <1>2, <1>3, <1>5, <1>6, <1>7, <1>8, <1>9, UpdataOnlyHere DEF UpdataStep

\* When the loop ends no packet is left.
LEMMA EndDelivers ==
    ASSUME JobInv, [Next]_toolVars, UpdataShape, UpdataPacked, DeliveredInv, Between, job' = Idle,
           NEW p \in PacketsOf(job.updata), NameOf(job.debug, p) # Null,
           \A q \in PacketsOf(job.updata) : q.what.position = p.what.position => q.at <= p.at
    PROVE  /\ NameOf(job.debug, p) \in DOMAIN files'
           /\ files'[NameOf(job.debug, p)] = ContentOf(job.updata, p)
<1>1. Packed(job.updata) /\ Running("unpack_updata") /\ job.output = ""
  BY Zenon DEF UpdataPacked, Between
<1>2. PacketsOf(job.updata) # {}
  OBVIOUS
<1>3. BetweenAt(files, job.debug, job.updata, job.pos)
  BY <1>2, Zenon DEF DeliveredInv
<1>4. ~Running("unpack_updata")'
  BY IdleIsJob DEF Running
<1>5. UpdataStep
  <2>1. ~UNCHANGED dirVars
    BY <1>1, <1>4 DEF dirVars, Running
  <2> QED BY <1>1, <2>1, UpdataOnlyHere
<1>6. ~updata_invalid /\ ~updata_packet_fails
  <2>1. ASSUME updata_invalid PROVE FALSE
    <3>1. /\ job.pos < job.updata.len /\ ~IsBlank(job.updata, job.pos, 4)
          /\ ~IsPacket(job.updata, job.pos)
      BY <2>1, Zenon DEF updata_invalid
    <3> QED BY <1>1, <1>2, <1>3, <3>1, NothingElse, Zenon
  <2>2. ASSUME updata_packet_fails PROVE FALSE
    <3>1. /\ IsPacket(job.updata, job.pos)
          /\ ~HasSums(job.updata, job.pos, ReadAt(job.updata, job.pos, PacketHeader).header_length)
      BY <2>2, Zenon DEF updata_packet_fails
    <3>2. PICK q \in PacketsOf(job.updata) :
             q.at = job.pos /\ ReadAt(job.updata, job.pos, PacketHeader) = q.what
      <4>1. Separate(job.updata) /\ Headed(job.updata)
        BY <1>1, Zenon DEF Packed
      <4> QED BY <3>1, <4>1, HeaderIsRead
    <3>3. HasSums(job.updata, q.at, q.what.header_length)
      BY <1>1, EndFacts, ZenonT(60)
    <3> QED BY <3>1, <3>2, <3>3, Zenon
  <2> QED BY <2>1, <2>2
<1>7. ~updata_zeros /\ ~updata_content_end
  <2>1. \A debug, u, pos : Searching(debug, u, pos).cmd = "unpack_updata"
    BY DEF Searching
  <2>2. ASSUME NEW pos, job' = Searching(job.debug, job.updata, pos) PROVE FALSE
    <3>1. job'.cmd = "unpack_updata"
      BY <2>1, <2>2, Zenon
    <3> QED BY <1>4, <3>1, Zenon DEF Running
  <2> QED BY <2>2, Zenon DEF updata_zeros, updata_content_end
<1>8. ~updata_packet
  <2>1. UpdataShape
    OBVIOUS
  <2>2. updata_packet => job'.cmd = "unpack_updata"
    BY <2>1, OnePacket
  <2> QED BY <1>4, <2>2, Zenon DEF Running
<1>9. ~updata_block /\ ~updata_block_fails
  BY <1>1, Zenon DEF updata_block, updata_block_fails, Inside
<1>10. updata_end
  BY <1>5, <1>6, <1>7, <1>8, <1>9, Zenon DEF UpdataStep
<1>11. files' = files /\ job.pos >= job.updata.len
  BY <1>10, Zenon DEF updata_end
<1>12. job.updata.len <= job.pos
  <2> DEFINE len == job.updata.len
             pos == job.pos
  <2>1. len \in Nat /\ pos \in Nat /\ pos >= len
    BY <1>1, <1>3, <1>11, EndFacts, Zenon DEF BetweenAt
  <2> HIDE DEF len, pos
  <2>2. len <= pos
    BY <2>1
  <2> QED BY <2>2, Zenon DEF len, pos
<1>13. NameOf(job.debug, p) \in DOMAIN files /\ files[NameOf(job.debug, p)] = ContentOf(job.updata, p)
  <2> DEFINE u == job.updata
             debug == job.debug
             pos == job.pos
  <2>1. /\ Packed(u) /\ BetweenAt(files, debug, u, pos) /\ u.len <= pos
        /\ p \in PacketsOf(u) /\ NameOf(debug, p) # Null
        /\ \A q \in PacketsOf(u) : q.what.position = p.what.position => q.at <= p.at
    BY <1>1, <1>3, <1>12, Zenon
  <2> HIDE DEF u, debug, pos
  <2>2. NameOf(debug, p) \in DOMAIN files /\ files[NameOf(debug, p)] = ContentOf(u, p)
    BY <2>1, AllDelivered
  <2> QED BY <2>2, Zenon DEF u, debug
<1> QED BY <1>11, <1>13, Zenon

\* Every place has in the end the content of the last packet for it, whatever the number, the
\* lengths and the contents of the packets and the zeros between them, as long as the packets
\* of an update are behind each other (bootimg.py:184-238).
THEOREM PacketsAreDelivered == Spec /\ []PacketsIn(files) => PacketsDelivered
<1> DEFINE I == JobInv /\ UpdataShape /\ UpdataPacked /\ DeliveredInv
<1>1. Init => I
  BY IdleIsJob DEF Init, JobInv, Jobs, UpdataShape, UpdataPacked, DeliveredInv, Between, Inside, Running
<1>2. I /\ PacketsIn(files) /\ [Next]_toolVars => I'
  BY StepFrame, ShapeStays, PackedStays, DeliveredStays DEF PacketsIn
<1> DEFINE D == Between /\ job' = Idle /\ (status' = "ok" \/ Lined(job.updata)) =>
                  \A p \in PacketsOf(job.updata) :
                      LET at   == p.what.position
                          name == IF job.debug THEN at
                                  ELSE IF at \in DOMAIN POSITION THEN POSITION[at] ELSE Null
                          last == \A q \in PacketsOf(job.updata) : q.what.position = at => q.at <= p.at
                      IN  name # Null /\ last
                            => name \in DOMAIN files' /\ files'[name] = ContentOf(job.updata, p)
<1>3. I /\ [Next]_toolVars => D
  BY EndDelivers, Zenon DEF NameOf
<1>4. I /\ [Next]_toolVars => [D]_dirVars
  BY <1>3
<1> QED BY <1>1, <1>2, <1>4, PTL DEF Spec, PacketsDelivered
==============================================================================
