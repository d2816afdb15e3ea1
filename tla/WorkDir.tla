------------------------------ MODULE WorkDir ------------------------------
(***************************************************************************)
(* The directory python/bootimg.py is run in, one command after the other, *)
(* each of which takes what earlier commands or the user left there.       *)
(*                                                                         *)
(* A binary file is a length and the pieces in it that are not zero, each  *)
(* at its offset: a reader gets what it looks for if it reads the very     *)
(* piece that somebody wrote.  Everything else is a content: its size, how *)
(* many zero bytes come first, whether it begins like a gzip file, and     *)
(* what it is.                                                             *)
(***************************************************************************)
EXTENDS Integers, Sequences, FiniteSets, TLC

VARIABLES
    files,   \* the files that exist, by name
    job,     \* the command that runs, with its local variables
    status   \* how the last one ended: "ok" or "error"

dirVars == <<files, job, status>>

Idle == [cmd |-> "none"]

Exists(name) == name \in DOMAIN files

With(fs, name, c) == [n \in DOMAIN fs \cup {name} |-> IF n = name THEN c ELSE fs[n]]

Running(cmd) == job.cmd = cmd

Start(j) == job' = j /\ UNCHANGED status
End      == job' = Idle /\ status' = "ok"

\* An exception that nobody catches; what is written by then stays.
Raise == job' = Idle /\ status' = "error"

-----------------------------------------------------------------------------
(* Contents                                                                *)

Content(size, blank, gz, data) == [size |-> size, blank |-> blank, gz |-> gz, data |-> data]

\* Bytes that nothing else is known of.
Garbage(size) == Content(size, 0, FALSE, [kind |-> "garbage"])

Empty == Garbage(0)

Directory == Content(0, 0, FALSE, [kind |-> "directory"])

IsDirectory(path) == Exists(path) /\ files[path] = Directory

-----------------------------------------------------------------------------
(* Binary files                                                            *)

EmptyFile == [pieces |-> {}, len |-> 0]

\* A binary file as a content, and back.
Stored(gz, f) == Content(f.len, 0, gz, [kind |-> "binary", f |-> f])

Put(f, what) ==
    [pieces |-> IF what.size = 0 THEN f.pieces ELSE f.pieces \cup {[at |-> f.len, what |-> what]},
     len    |-> f.len + what.size]

Binary(c) == IF c.data.kind = "binary" THEN c.data.f ELSE Put(EmptyFile, c)

Zeros(f, n) == [f EXCEPT !.len = @ + n]

\* read(size) at pos
ReadAt(f, pos, size) ==
    LET hit  == {p \in f.pieces : p.at = pos /\ p.what.size = size}
        left == IF pos > f.len THEN 0 ELSE f.len - pos
    IN  IF hit # {} THEN (CHOOSE p \in hit : TRUE).what
        ELSE Garbage(IF size < left THEN size ELSE left)

\* A whole read that gives zeros only.
IsBlank(f, pos, size) ==
    /\ pos + size <= f.len
    /\ \A p \in f.pieces : \/ p.at + p.what.size <= pos
                           \/ pos + size <= p.at + p.what.blank

\* x & y of Python, where x has as many bits as it takes, also in front of a negative
\* number, and y has no more than Bits.
Bits == 20

And(x, y) ==
    LET and[n \in 0 .. Bits] ==
            [a \in Int |-> [b \in Nat |->
                IF n = 0 THEN 0 ELSE (a % 2) * (b % 2) + 2 * and[n - 1][a \div 2][b \div 2]]]
    IN  and[Bits][x][y]

\* (~x + 1) & (y - 1), which is what is left to a multiple of y if y is a power of two.
padding(x, y) == IF y = 0 THEN -x ELSE And(-x, y - 1)
==============================================================================
