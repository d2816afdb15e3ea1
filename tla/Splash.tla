------------------------------- MODULE Splash -------------------------------
(***************************************************************************)
(* The pictures of python/bootimg.py: raw pixels of three bytes, and the   *)
(* formats of two bytes per pixel (.565) and of runs of those (.rle).  A   *)
(* turn of a loop is a step.  A file may end within an item, here Half.    *)
(***************************************************************************)
EXTENDS WorkDir

CONSTANT MaxRun  \* 0xffff, the most a count can say

ASSUME RunsCount == MaxRun \in Nat \ {0}

Half == <<>>

\* The loops of the shifts, as divisions.
rgb565(p) == (p[1] \div 8) * 2048 + (p[2] \div 4) * 32 + p[3] \div 8

\* MUTANT: green has as many bits as red.
rgb888_FiveGreen(x) == <<((x \div 2048) % 32) * 8, ((x \div 64) % 32) * 8, (x % 32) * 8>>

rgb888(x) == <<((x \div 2048) % 32) * 8, ((x \div 32) % 64) * 4, (x % 32) * 8>>

Appended(name, items) == With(files, name, files[name] \o items)

Turn(cmd, input) == Running(cmd) /\ job.next <= Len(files[input])
Item(input)      == files[input][job.next]
Ended(cmd, input) == Running(cmd) /\ job.next > Len(files[input])

\* The output is emptied before the input is looked at.
Convert(input, output, locals) ==
    /\ job = Idle /\ Exists(input)
    /\ Start(locals)
    /\ files' = With(files, output, <<>>)

half_item(cmd, input) ==
    /\ Turn(cmd, input) /\ Item(input) = Half
    /\ Raise
    /\ UNCHANGED files

Next1 == job' = [job EXCEPT !.next = @ + 1] /\ UNCHANGED status

-----------------------------------------------------------------------------

unpack_rle == Convert("initlogo.rle", "initlogo.raw", [cmd |-> "unpack_rle", next |-> 1])

parse_rle ==
    /\ Turn("unpack_rle", "initlogo.rle") /\ Item("initlogo.rle") # Half
    /\ LET run == Item("initlogo.rle") IN
       files' = Appended("initlogo.raw", [k \in 1 .. run[1] |-> rgb888(run[2])])
    /\ Next1

Counting(next, last, count) == [cmd |-> "repack_rle", next |-> next, last |-> last, count |-> count]

repack_rle == Convert("initlogo.raw", "initlogo.rle", Counting(1, -1, 0))

Pixel == rgb565(Item("initlogo.raw"))

NextPixel(count) == job' = Counting(job.next + 1, Pixel, count)

write_rle_first ==
    /\ Turn("repack_rle", "initlogo.raw") /\ Item("initlogo.raw") # Half
    /\ job.last = -1
    /\ NextPixel(1)
    /\ UNCHANGED <<files, status>>

\* MUTANT: a count may become too large for its field.
write_rle_same_NoLimit ==
    /\ Turn("repack_rle", "initlogo.raw") /\ Item("initlogo.raw") # Half
    /\ job.last = Pixel
    /\ NextPixel((job.count + 1) % (MaxRun + 1))
    /\ UNCHANGED <<files, status>>

write_rle_same ==
    /\ Turn("repack_rle", "initlogo.raw") /\ Item("initlogo.raw") # Half
    /\ job.last = Pixel /\ job.count # MaxRun
    /\ NextPixel(job.count + 1)
    /\ UNCHANGED <<files, status>>

write_rle_run ==
    /\ Turn("repack_rle", "initlogo.raw") /\ Item("initlogo.raw") # Half
    /\ job.last # -1 /\ ~(job.last = Pixel /\ job.count # MaxRun)
    /\ files' = Appended("initlogo.rle", <<<<job.count, job.last>>>>)
    /\ NextPixel(1)
    /\ UNCHANGED status

\* Without a pixel count has no value, which is an error.
write_rle_end ==
    /\ Ended("repack_rle", "initlogo.raw")
    /\ IF job.last = -1
       THEN Raise /\ UNCHANGED files
       ELSE End /\ files' = Appended("initlogo.rle", <<<<job.count, job.last>>>>)

unpack_565 == Convert("splash.565", "splash.raw", [cmd |-> "unpack_565", next |-> 1])

parse_565 ==
    /\ Turn("unpack_565", "splash.565") /\ Item("splash.565") # Half
    /\ files' = Appended("splash.raw", <<rgb888(Item("splash.565")[1])>>)
    /\ Next1

repack_565 == Convert("splash.raw", "splash.565", [cmd |-> "repack_565", next |-> 1])

\* MUTANT: red and blue change places.
write_565_Swapped ==
    /\ Turn("repack_565", "splash.raw") /\ Item("splash.raw") # Half
    /\ LET p == Item("splash.raw") IN
       files' = Appended("splash.565", <<<<rgb565(<<p[3], p[2], p[1]>>)>>>>)
    /\ Next1

write_565 ==
    /\ Turn("repack_565", "splash.raw") /\ Item("splash.raw") # Half
    /\ files' = Appended("splash.565", <<<<rgb565(Item("splash.raw"))>>>>)
    /\ Next1

end_of_picture ==
    /\ \/ Ended("unpack_rle", "initlogo.rle")
       \/ Ended("unpack_565", "splash.565")
       \/ Ended("repack_565", "splash.raw")
    /\ End
    /\ UNCHANGED files

SplashCommand == unpack_rle \/ repack_rle \/ unpack_565 \/ repack_565

SplashStep ==
    \/ parse_rle \/ parse_565 \/ write_565
    \/ write_rle_first \/ write_rle_same \/ write_rle_run \/ write_rle_end
    \/ end_of_picture
    \/ half_item("unpack_rle", "initlogo.rle") \/ half_item("repack_rle", "initlogo.raw")
    \/ half_item("unpack_565", "splash.565") \/ half_item("repack_565", "splash.raw")

-----------------------------------------------------------------------------
(* Properties                                                              *)

\* The pixels that runs stand for.
Expanded(runs) ==
    LET pixels[k \in 0 .. Len(runs)] ==
            IF k = 0 THEN <<>> ELSE pixels[k - 1] \o [n \in 1 .. runs[k][1] |-> runs[k][2]]
    IN  pixels[Len(runs)]

Colours(raw)   == [k \in DOMAIN raw |-> rgb565(raw[k])]
WordColours(colors) == [k \in DOMAIN colors |-> colors[k][1]]

Finished(cmd) == job.cmd = cmd /\ job' = Idle /\ status' = "ok"

\* A picture that is converted has the same pixels, in the colours that two bytes can
\* say, in either direction, whatever the lengths of its runs; the runs that are
\* written fit their field and cannot be joined (bootimg.py:551-561, 578-588, 594-613,
\* 623-632).
PicturesKept ==
    [][/\ Finished("unpack_rle") => Colours(files'["initlogo.raw"]) = Expanded(files["initlogo.rle"])
       /\ Finished("repack_rle") =>
             LET runs == files'["initlogo.rle"] IN
             /\ Expanded(runs) = Colours(files["initlogo.raw"])
             /\ \A k \in DOMAIN runs : runs[k][1] \in 1 .. MaxRun
             /\ \A k \in 1 .. (Len(runs) - 1) : runs[k][2] = runs[k + 1][2] => runs[k][1] = MaxRun
       /\ Finished("unpack_565") =>
             WordColours(files["splash.565"]) = Colours(files'["splash.raw"])
       /\ Finished("repack_565") =>
             WordColours(files'["splash.565"]) = Colours(files["splash.raw"])
      ]_dirVars

-----------------------------------------------------------------------------
(* Pictures from outside                                                   *)

\* What two bytes can say: five bits of red, six of green, five of blue.
Coloured(r, g, b) == r * 2048 + g * 32 + b

Colour == {Coloured(c[1], c[2], c[3]) : c \in (0 .. 31) \X (0 .. 63) \X (0 .. 31)}
Pixels == [1 .. 3 -> 0 .. 255]
Run    == Nat \X Colour
Words  == {<<c>> : c \in Colour}

\* What is called a picture is one.
PicturesIn(fs) ==
    /\ "initlogo.raw" \in DOMAIN fs => fs["initlogo.raw"] \in Seq(Pixels \cup {Half})
    /\ "initlogo.rle" \in DOMAIN fs => fs["initlogo.rle"] \in Seq(Run \cup {Half})
    /\ "splash.raw" \in DOMAIN fs => fs["splash.raw"] \in Seq(Pixels \cup {Half})
    /\ "splash.565" \in DOMAIN fs => fs["splash.565"] \in Seq(Words \cup {Half})
==============================================================================
