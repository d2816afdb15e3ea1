------------------------------ MODULE BootTool ------------------------------
(***************************************************************************)
(* python/bootimg.py as it is used: commands one after the other in one    *)
(* directory, where UPDATA.APP gives boot.img, that gives ramdisk.gz, that *)
(* gives initrd and cpiolist.txt, and the way back.  The user may change   *)
(* or remove files in between.                                             *)
(***************************************************************************)
EXTENDS BootImage, Ramdisk, Splash, Updata, Yaffs2

CONSTANTS
    Beginnings,  \* directories to begin with: their files, and how many commands follow
    Edits        \* what the user may put into a file of the ramdisk

VARIABLE left    \* the commands that may still follow

toolVars == <<files, job, status, shown, rebuilt, left>>

Init ==
    /\ \E b \in Beginnings : files = b.files /\ left = b.commands
    /\ job = Idle /\ status = "ok"
    /\ shown = NotShown /\ rebuilt = NotRebuilt

\* The arguments that a user would give: none, or those that were printed.
Arguments == {Defaults} \cup (IF shown = NotShown THEN {} ELSE {shown.parsed.args})

boot_image == unpack_bootimg \/ \E args \in Arguments : repack_bootimg(args)

RamdiskFiles == {n \in DOMAIN files : Len(n) >= 6 /\ SubSeq(n, 1, 6) = "initrd"}

ramdisk_command ==
    \/ \E ramdisk \in {"ramdisk.gz", "ramdisk", "ramdisk.cpio.gz"} : unpack_ramdisk(ramdisk)
    \/ repack_ramdisk
    \/ repack_without_list

user ==
    \/ \E path \in RamdiskFiles, c \in Edits : edit(path, c)
    \/ \E path \in RamdiskFiles : ~IsDirectory(path) /\ remove({path})
    \/ remove(RamdiskFiles)

Command == job = Idle /\ left > 0 /\ left' = left - 1
Step    == job # Idle /\ UNCHANGED left

Next ==
    \/ Command /\ boot_image /\ UNCHANGED rebuilt
    \/ Command /\ (ramdisk_command \/ user) /\ UNCHANGED shown
    \/ Command /\ (SplashCommand \/ UpdataCommand \/ unpack_yaffs) /\ UNCHANGED <<shown, rebuilt>>
    \/ Step /\ RamdiskStep /\ UNCHANGED shown
    \/ Step /\ (SplashStep \/ UpdataStep \/ YaffsStep) /\ UNCHANGED <<shown, rebuilt>>

Spec == Init /\ [][Next]_toolVars
==============================================================================
