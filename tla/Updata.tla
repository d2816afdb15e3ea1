------------------------------- MODULE Updata -------------------------------
(***************************************************************************)
(* parse_updata of python/bootimg.py takes UPDATA.APP apart: packets with  *)
(* a header, checksums of every 4096 bytes and a content, each padded to   *)
(* four bytes, and zeros in between.  A turn of a loop is a step.  With    *)
(* debug the checksums are looked at and every content is kept.            *)
(***************************************************************************)
EXTENDS WorkDir

PacketHeader == 98
BlockBytes   == 4096

POSITION ==
    [p \in {"0x30000000", "0x40000000", "0x50000000", "0x60000000", "0xf2000000"} |->
        CASE p = "0x30000000" -> "boot.img"
          [] p = "0x40000000" -> "system.img"
          [] p = "0x50000000" -> "userdata.img"
          [] p = "0x60000000" -> "recovery.img"
          [] p = "0xf2000000" -> "splash.565"]

Packet(position, header_length, content_length) ==
    [size |-> PacketHeader, blank |-> 0, position |-> position, header_length |-> header_length,
     content_length |-> content_length]

\* Two bytes each; whether they are right.
Checksums(right) == [size |-> 2 * Len(right), blank |-> 0, right |-> right]

\* The first n bytes.
Part(c, n) == IF n = c.size THEN c ELSE Content(n, 0, FALSE, [kind |-> "part", of |-> c.data])

Null == "/dev/null"

Written(name, c) == IF name = Null THEN files ELSE With(files, name, c)

\* The loop looks at what comes at pos.
Searching(debug, updata, pos) ==
    [cmd |-> "unpack_updata", debug |-> debug, updata |-> updata, pos |-> pos, output |-> ""]

unpack_updata(debug) ==
    /\ job = Idle /\ Exists("UPDATA.APP")
    /\ Start(Searching(debug, Binary(files["UPDATA.APP"]), 0))
    /\ UNCHANGED files

Between == Running("unpack_updata") /\ job.output = ""

updata_zeros ==
    /\ Between /\ IsBlank(job.updata, job.pos, 4)
    /\ job' = Searching(job.debug, job.updata, job.pos + 4)
    /\ UNCHANGED <<files, status>>

IsPacket(f, pos) == \E p \in f.pieces : p.at = pos /\ "header_length" \in DOMAIN p.what

SumsAt(f, pos, header_length) == ReadAt(f, pos + PacketHeader, header_length - PacketHeader)

\* The list of checksums that a header announces is there.
HasSums(f, pos, header_length) ==
    /\ header_length >= PacketHeader
    /\ SumsAt(f, pos, header_length).size = header_length - PacketHeader

\* The file is emptied; header is the list of checksums.
updata_packet ==
    /\ Between /\ IsPacket(job.updata, job.pos)
    /\ LET h    == ReadAt(job.updata, job.pos, PacketHeader)
           sums == SumsAt(job.updata, job.pos, h.header_length)
           name == IF job.debug THEN h.position
                   ELSE IF h.position \in DOMAIN POSITION THEN POSITION[h.position] ELSE Null
       IN  /\ HasSums(job.updata, job.pos, h.header_length)
           /\ job' = [cmd |-> job.cmd, debug |-> job.debug, updata |-> job.updata,
                      pos |-> job.pos + h.header_length, output |-> name,
                      content |-> ReadAt(job.updata, job.pos + h.header_length, h.content_length),
                      header |-> IF "right" \in DOMAIN sums THEN sums.right ELSE <<>>,
                      length |-> h.content_length, done |-> 0,
                      padding |-> padding(h.header_length + h.content_length, 4)]
           /\ files' = Written(name, Empty)
    /\ UNCHANGED status

\* struct.unpack gets less than it asks for, or is asked for less than nothing.
updata_packet_fails ==
    /\ Between /\ IsPacket(job.updata, job.pos)
    /\ ~HasSums(job.updata, job.pos, ReadAt(job.updata, job.pos, PacketHeader).header_length)
    /\ Raise
    /\ UNCHANGED files

\* "invalid updata"
updata_invalid ==
    /\ Between /\ job.pos < job.updata.len
    /\ ~IsBlank(job.updata, job.pos, 4) /\ ~IsPacket(job.updata, job.pos)
    /\ Raise
    /\ UNCHANGED files

updata_end ==
    /\ Between /\ job.pos >= job.updata.len
    /\ End
    /\ UNCHANGED files

Inside == Running("unpack_updata") /\ job.output # ""

\* The bytes that are asked for by the end of this turn, and those that there are.
NextDone == IF job.length - job.done > BlockBytes THEN job.done + BlockBytes ELSE job.length
NextPart == Part(job.content, IF NextDone < job.content.size THEN NextDone ELSE job.content.size)

BlockCut     == NextDone > job.content.size
NextSumRight == job.header # <<>> /\ Head(job.header)

\* MUTANT: the checksums are not used up.
updata_block_SameSum ==
    /\ Inside /\ job.done < job.length
    /\ job.debug => ~BlockCut /\ NextSumRight
    /\ files' = Written(job.output, NextPart)
    /\ job' = [job EXCEPT !.done = NextDone]
    /\ UNCHANGED status

updata_block ==
    /\ Inside /\ job.done < job.length
    /\ job.debug => ~BlockCut /\ NextSumRight
    /\ files' = Written(job.output, NextPart)
    /\ job' = [job EXCEPT !.done = NextDone, !.header = IF job.debug THEN Tail(@) ELSE @]
    /\ UNCHANGED status

\* The block is cut short, or its checksum is missing or wrong.
updata_block_fails ==
    /\ Inside /\ job.done < job.length /\ job.debug
    /\ BlockCut \/ ~NextSumRight
    /\ Raise
    /\ UNCHANGED files

\* MUTANT: what pads a content is left in front of the next packet.
updata_content_end_NoPadding ==
    /\ Inside /\ job.done = job.length
    /\ job' = Searching(job.debug, job.updata, job.pos + job.content.size)
    /\ UNCHANGED <<files, status>>

updata_content_end ==
    /\ Inside /\ job.done = job.length
    /\ job' = Searching(job.debug, job.updata, job.pos + job.content.size + job.padding)
    /\ UNCHANGED <<files, status>>

UpdataCommand == \E debug \in BOOLEAN : unpack_updata(debug)

UpdataStep ==
    \/ updata_zeros \/ updata_packet \/ updata_packet_fails \/ updata_invalid \/ updata_end
    \/ updata_block \/ updata_block_fails \/ updata_content_end

-----------------------------------------------------------------------------
(* Properties                                                              *)

PacketsOf(f) == {p \in f.pieces : "header_length" \in DOMAIN p.what}

SumsOf(f, p) == LET s == SumsAt(f, p.at, p.what.header_length)
                IN  IF "right" \in DOMAIN s THEN s.right ELSE <<>>

ContentOf(f, p) == ReadAt(f, p.at + p.what.header_length, p.what.content_length)

\* The packet ends where the next thing may begin.
EndOf(p) ==
    p.at + p.what.header_length + p.what.content_length
      + padding(p.what.header_length + p.what.content_length, 4)

\* Packets behind each other with zeros in between.
Lined(f) ==
    PacketsOf(f) # {} =>
       /\ f.len % 4 = 0
       /\ \A p \in PacketsOf(f) : p.what.blank = 0 /\ p.at % 4 = 0
       /\ \A p \in PacketsOf(f) : p.what.header_length >= PacketHeader /\ EndOf(p) <= f.len
       /\ \A p, q \in PacketsOf(f) : p.at < q.at => EndOf(p) <= q.at
       /\ \A x \in f.pieces : \E p \in PacketsOf(f) : p.at <= x.at /\ x.at + x.what.size <= EndOf(p)

\* Unless a checksum is wrong every place has in the end the content of the last packet
\* for it, and no packet is missed, whatever their lengths and the zeros between them;
\* so too when the update ends within its last packet and no error is reported (what
\* there is of its content).  Without debug, places that have no name are left out
\* (bootimg.py:184-238).
PacketsDelivered ==
    [][Between /\ job' = Idle /\ (status' = "ok" \/ Lined(job.updata)) =>
          \A p \in PacketsOf(job.updata) :
              LET at   == p.what.position
                  name == IF job.debug THEN at ELSE IF at \in DOMAIN POSITION THEN POSITION[at] ELSE Null
                  last == \A q \in PacketsOf(job.updata) : q.what.position = at => q.at <= p.at
              IN  name # Null /\ last => name \in DOMAIN files' /\ files'[name] = ContentOf(job.updata, p)]_dirVars

\* With debug no block is written whose checksum is not right (bootimg.py:229-233).
OnlyCheckedBlocks ==
    Inside /\ job.debug =>
        \E p \in PacketsOf(job.updata) :
            /\ p.at + p.what.header_length = job.pos
            /\ \A k \in 1 .. ((job.done + BlockBytes - 1) \div BlockBytes) :
                  k <= Len(SumsOf(job.updata, p)) /\ SumsOf(job.updata, p)[k]

-----------------------------------------------------------------------------
(* Updates from outside                                                    *)

\* Pieces that are not empty, one at a place.
Separate(f) ==
    /\ f.len \in Nat
    /\ \A x \in f.pieces : x.at \in Nat /\ x.what.size \in Nat \ {0} /\ x.what.blank \in Nat
    /\ \A x, y \in f.pieces : x.at = y.at => x = y

\* Headers of packets, and lists of checksums.
Headed(f) ==
    /\ \A p \in PacketsOf(f) :
          /\ p.what.size = PacketHeader /\ p.what.header_length \in Nat
          /\ p.what.content_length \in Nat /\ p.what.position # ""
    /\ \A x \in f.pieces : "right" \in DOMAIN x.what => x.what.right \in Seq(BOOLEAN)

Update(fs) == Binary(fs["UPDATA.APP"])

HeadersIn(fs) == "UPDATA.APP" \in DOMAIN fs => Separate(Update(fs)) /\ Headed(Update(fs))
PacketsIn(fs) == HeadersIn(fs) /\ ("UPDATA.APP" \in DOMAIN fs => Lined(Update(fs)))
==============================================================================
