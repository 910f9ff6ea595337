------------------------------ MODULE DosShell ------------------------------
(***************************************************************************)
(* The commands of ARC DOS (ported/arcdos.c) on a FAT volume: type, dir,   *)
(* copy, xcopy, md, del and attrib, as sequences of calls of the ARC       *)
(* vector, one call a step.  A device that can be written may stop to      *)
(* accept writes at any of them; the RAM disk of this build has no Write   *)
(* routine, so there it refuses the first.  Reads do not fail here, and    *)
(* xcopy's recursion into subdirectories is left out: a directory that is  *)
(* typed is one of the root's, which have none (PathsAssumption).          *)
(***************************************************************************)
EXTENDS FatVolume

CONSTANTS
    Files,          \* paths of files that are typed at the prompt
    Directories,    \* paths of directories that are
    Volumes,        \* volumes the program may find
    MoveAmount,     \* BUFFER_MOVE_AMOUNT
    WriteBound,     \* at least the writes one call makes
    CommandBound    \* commands typed before exit

ASSUME ShellAssumption ==
    /\ FileIds = {"src", "dst", "dir"}
    /\ MoveAmount \in Nat \ {0} /\ WriteBound \in Nat /\ CommandBound \in Nat
    /\ Files \cup Directories \subseteq Seq(Names) \ {<<>>}

\* A volume the program finds has nothing cached yet.
ASSUME VolumesAssumption ==
    /\ Volumes \subseteq AnyVolume
    /\ \A v \in Volumes : v.saved = v.fat /\ ~v.dirty /\ ~v.refused

\* Paths lead to files of the root and of directories in it, the entries that the
\* properties are about; what is typed has none of the names the program marks entries
\* with.
ASSUME PathsAssumption ==
    /\ Names \cap {"", Deleted, Dot, DotDot} = {}
    /\ \A p \in Files : Len(p) <= 2
    /\ \A d \in Directories : Len(d) = 1

VARIABLES
    vol,   \* the volume
    job,   \* the command that is running, and how far it is
    typed  \* commands typed so far

vars == <<vol, job, typed>>

(* A job has the fields                                                    *)
(*   at     the call to make next      cmd    the command                  *)
(*   src    SourceFile, or the operand dst    DestinFile                   *)
(*   from   SourceDir of xcopy         to     DestinDir of xcopy           *)
(*   left   SrcLength                  buffer what was read last           *)
(*   moved  everything read so far     failed whether a call failed        *)
(*   was    what the operand held when the command opened it               *)
Idle == [at |-> "idle", cmd |-> "", src |-> <<>>, dst |-> <<>>, from |-> <<>>,
         to |-> <<>>, left |-> 0, buffer |-> <<>>, moved |-> <<>>, failed |-> FALSE,
         was |-> <<>>]

\* What a file holds, in its own words: the units of its chain, up to its size.
ContentOf(m, e) ==
    LET cs == Chain(m.fat, e.first)
    IN  IF Units * Len(cs) < e.size THEN <<Blank>>
        ELSE [i \in 1 .. e.size |->
                 m.disk[cs[((i - 1) \div Units) + 1]][((i - 1) % Units) + 1]]

\* The entries a directory lists, in order: those in use, up to the first never used.
ListingOf(m, e) ==
    LET cs == Chain(m.fat, e.first)
        all == [i \in 1 .. Units * Len(cs) |->
                   m.disk[cs[((i - 1) \div Units) + 1]][((i - 1) % Units) + 1]]
        Shown(i) == InUse(all[i]) /\ \A j \in 1 .. i : all[j].name # Blank.name
        Upto[i \in 0 .. Len(all)] ==
            IF i = 0 THEN <<>>
            ELSE IF Shown(i) THEN Append(Upto[i - 1], all[i]) ELSE Upto[i - 1]
    IN  Upto[Len(all)]

\* A call that starts now: the device accepts some writes, or all there are.
Budgets == IF vol.refused THEN {0} ELSE 0 .. WriteBound
Fresh(n) == [vol EXCEPT !.writes = n, !.status = "ESUCCESS", !.got = <<>>]

\* The volume after the call: what belonged to the call only is forgotten.
After(m) == [m EXCEPT !.writes = 0, !.status = "ESUCCESS", !.got = <<>>]

\* The command returns to the prompt, or a copy to xcopy.  An entry of the file table
\* it leaves open (del and attrib when they fail, md and xcopy of a directory that
\* exists) is never used again; it is not part of the volume.
Leave(m) == [After(m) EXCEPT !.file = [f \in FileIds |-> NoFile]]
Return(j) ==
    IF j.cmd = "xcopy"
    THEN [j EXCEPT !.at = "next", !.src = <<>>, !.dst = <<>>, !.left = 0,
                   !.buffer = <<>>, !.moved = <<>>, !.was = <<>>, !.failed = FALSE]
    ELSE Idle

Init ==
    /\ vol \in Volumes
    /\ job = Idle
    /\ typed = 0

-----------------------------------------------------------------------------
(* The prompt.                                                             *)

Prompt(j) ==
    /\ job = Idle /\ typed < CommandBound
    /\ job' = j /\ typed' = typed + 1
    /\ UNCHANGED vol

\* "exit" ends the program.
Exit == job = Idle /\ job' = [Idle EXCEPT !.at = "exit"] /\ UNCHANGED <<vol, typed>>
Exited == job.at = "exit" /\ UNCHANGED vars

Type(p) == Prompt([Idle EXCEPT !.cmd = "type", !.at = "source", !.src = p])
Delete(p) == Prompt([Idle EXCEPT !.cmd = "del", !.at = "source", !.src = p])
Attrib(p, on) ==
    Prompt([Idle EXCEPT !.cmd = IF on THEN "attrib+r" ELSE "attrib-r",
                        !.at = "source", !.src = p])
Copy(p, q) == Prompt([Idle EXCEPT !.cmd = "copy", !.at = "source", !.src = p, !.dst = q])
Md(d) == Prompt([Idle EXCEPT !.cmd = "md", !.at = "try", !.to = d])
XCopy(d, e) ==
    /\ d # e
    /\ Prompt([Idle EXCEPT !.cmd = "xcopy", !.at = "try", !.from = d, !.to = e])
Dir(d) == Prompt([Idle EXCEPT !.cmd = "dir", !.at = "directory", !.from = d])

-----------------------------------------------------------------------------
(* Copy_Routine, and the other commands that open one file.                *)

Next1(cmd) ==
    CASE cmd \in {"copy", "xcopy"} -> "target"
      [] cmd = "type" -> "read"
      [] OTHER -> "set"

OpenSource ==
    /\ job.at = "source"
    /\ \E m \in {FatOpen(Fresh(0), "src", job.src, "OpenReadOnly")} :
         /\ vol' = After(m)
         /\ job' = IF Ok(m)
                   THEN [job EXCEPT !.at = Next1(job.cmd),
                                    !.left = FatGetFileInformation(m, "src"),
                                    !.was = ContentOf(m, m.file["src"].dirent)]
                   ELSE [job EXCEPT !.at = "done", !.failed = TRUE]

OpenTarget ==
    /\ job.at = "target"
    /\ \E m \in {FatOpen(Fresh(n), "dst", job.dst, "SupersedeWriteOnly") : n \in Budgets} :
         /\ vol' = After(m)
         /\ job' = IF Ok(m) THEN [job EXCEPT !.at = "read"]
                   ELSE [job EXCEPT !.at = "closeSource", !.failed = TRUE]

\* As much as is left, up to BUFFER_MOVE_AMOUNT.
ReadAmount == IF job.left > MoveAmount THEN MoveAmount ELSE job.left

CheckFileIOResults(m, wanted, count) == Ok(m) /\ wanted = count

Read ==
    /\ job.at = "read" /\ job.left > 0
    /\ \E m \in {FatRead(Fresh(0), "src", ReadAmount)} :
         /\ vol' = After(m)
         /\ job' = IF ~CheckFileIOResults(m, ReadAmount, Len(m.got))
                   THEN [job EXCEPT !.at = "closeSource", !.failed = TRUE]
                   ELSE IF job.cmd = "type"
                   THEN [job EXCEPT !.moved = @ \o m.got, !.left = @ - ReadAmount]
                   ELSE [job EXCEPT !.moved = @ \o m.got, !.buffer = m.got,
                                    !.at = "write"]

WriteTarget ==
    /\ job.at = "write"
    /\ \E m \in {FatWrite(Fresh(n), "dst", job.buffer) : n \in Budgets} :
         /\ vol' = After(m)
         /\ job' = IF Ok(m)
                   THEN [job EXCEPT !.at = "read", !.left = @ - ReadAmount, !.buffer = <<>>]
                   ELSE [job EXCEPT !.at = "closeSource", !.failed = TRUE]

ReadAll ==
    /\ job.at = "read" /\ job.left = 0
    /\ job' = [job EXCEPT !.at = "closeSource"]
    /\ UNCHANGED vol

CloseSource ==
    /\ job.at = "closeSource"
    /\ \E m \in {FatClose(Fresh(n), "src") : n \in Budgets} : vol' = After(m)
    /\ job' = [job EXCEPT !.at = IF vol.file["dst"].open THEN "closeTarget" ELSE "done"]

CloseTarget ==
    /\ job.at = "closeTarget"
    /\ \E m \in {FatClose(Fresh(n), "dst") : n \in Budgets} :
         /\ vol' = After(m)
         /\ job' = [job EXCEPT !.at = "done", !.failed = @ \/ ~Ok(m)]

\* Delete and Attrib: when the call fails they return without a close.
SetInformation(m) ==
    IF job.cmd = "del" THEN DeleteFile(m, "src")
    ELSE SetReadOnly(m, "src", job.cmd = "attrib+r")

SetFileInformation ==
    /\ job.at = "set"
    /\ \E m \in {SetInformation(Fresh(n)) : n \in Budgets} :
         /\ vol' = After(m)
         /\ job' = IF Ok(m) THEN [job EXCEPT !.at = "closeSource"]
                   ELSE [job EXCEPT !.at = "done", !.failed = TRUE]

\* Copy_Routine has no return statement at its end, so after a copy that went well
\* xcopy continues or stops.
Done ==
    /\ job.at = "done"
    /\ \/ job.cmd # "xcopy" /\ vol' = Leave(vol) /\ job' = Idle
       \/ job.cmd = "xcopy" /\ ~job.failed /\ vol' = vol /\ job' = Return(job)
       \/ job.cmd = "xcopy" /\ vol' = vol /\ job' = [Return(job) EXCEPT !.at = "leave"]

-----------------------------------------------------------------------------
(* Create_Dir_Routine and XCopy_Routine.  xcopy first looks itself whether *)
(* the directory exists.                                                   *)

TryDirectory ==
    /\ job.at = "try"
    /\ \E m \in {FatOpen(Fresh(0), "dst", job.to, "OpenDirectory")} :
         /\ vol' = Leave(m)
         /\ job' = IF ~Ok(m) THEN [job EXCEPT !.at = "create"]
                   ELSE IF job.cmd = "xcopy" THEN [job EXCEPT !.at = "directory"]
                   ELSE Idle

MakeDirectory ==
    /\ job.at = "create"
    /\ \E m \in {FatOpen(Fresh(n), "dst", job.to, "CreateDirectory") : n \in Budgets} :
         /\ vol' = After(m)
         /\ job' = [job EXCEPT !.at = "created", !.failed = ~Ok(m)]

\* The id is closed in any case; after a failed open that flushes the table too.
CloseDirectory ==
    /\ job.at = "created"
    /\ \E m \in {FatClose(Fresh(n), "dst") : n \in Budgets} : vol' = After(m)
    /\ job' = IF job.cmd = "xcopy" /\ ~job.failed THEN [job EXCEPT !.at = "directory"]
              ELSE Idle

OpenSourceDirectory ==
    /\ job.at = "directory"
    /\ \E m \in {FatOpen(Fresh(0), "dir", job.from, "OpenDirectory")} :
         /\ vol' = After(m)
         /\ job' = IF ~Ok(m) THEN Idle
                   ELSE [job EXCEPT !.at = "next",
                                    !.was = IF job.cmd = "dir"
                                            THEN ListingOf(m, m.file["dir"].dirent)
                                            ELSE <<>>]

NextEntry ==
    /\ job.at = "next"
    /\ \E m \in {FatGetDirectoryEntry(Fresh(0), "dir")} :
         /\ vol' = After(m)
         /\ job' = IF ~Ok(m) THEN [job EXCEPT !.at = "leave"]
                   ELSE IF job.cmd = "dir" THEN [job EXCEPT !.moved = @ \o m.got]
                   ELSE IF m.got[1].dir THEN job
                   ELSE [job EXCEPT !.at = "source",
                                    !.src = Append(job.from, m.got[1].name),
                                    !.dst = Append(job.to, m.got[1].name)]

CloseSourceDirectory ==
    /\ job.at = "leave"
    /\ \E m \in {FatClose(Fresh(n), "dir") : n \in Budgets} : vol' = Leave(m)
    /\ job' = Idle

-----------------------------------------------------------------------------
Calls ==
    \/ OpenSource \/ OpenTarget \/ Read \/ WriteTarget \/ ReadAll
    \/ CloseSource \/ CloseTarget \/ SetFileInformation \/ Done
    \/ TryDirectory \/ MakeDirectory \/ CloseDirectory
    \/ OpenSourceDirectory \/ NextEntry \/ CloseSourceDirectory

Next ==
    \/ \E p \in Files : Type(p) \/ Delete(p)
    \/ \E p \in Files, on \in BOOLEAN : Attrib(p, on)
    \/ \E p, q \in Files : Copy(p, q)
    \/ \E d \in Directories : Md(d) \/ Dir(d)
    \/ \E d, e \in Directories : XCopy(d, e)
    \/ Exit \/ Exited
    \/ Calls /\ UNCHANGED typed

Spec == Init /\ [][Next]_vars

-----------------------------------------------------------------------------
(* Properties.                                                             *)

\* The program finds a sound volume, with "." and ".." in directories other than the
\* root alone.
ASSUME SoundAssumption ==
    \A v \in Volumes :
        /\ Sound(v) /\ ~v.full
        /\ \A d \in {Root} \cup Subdirectories(v) : \A at \in SlotsIn(v, d) :
              UnitAt(v, at).name \in {Dot, DotDot} => UnitAt(v, at).dir /\ d # Root

\* The volume is sound after every call.  Whatever the device refused, chains of live
\* entries share no cluster; while it has refused no write they also end, and a file's
\* chain is long enough for its size; and while besides no allocation has failed, every
\* cluster in use is on one of them.  (A program reads through the cache, so the table
\* is the cached one.)
SoundVolume == Sound(vol)

\* While the device has refused no write, no command returns to the prompt with a change
\* of the table that is not on the disk, though several leave without closing what they
\* opened: the next open forgets such changes.
SavedAtPrompt == job = Idle /\ ~vol.refused => ~vol.dirty

\* A copy of a file to itself: the target is emptied before the source is read.
OntoItself == Walk(vol, job.src).where = Walk(vol, job.dst).where

\* What type shows is the file, what dir lists is the directory, and a copy that was
\* not refused holds what the source held when it was opened: also when the target lies
\* in a directory that grows, when the files are read and written in turn through the
\* one cached mapping, and when the source is the target, as long as a cluster is not
\* larger than the buffer.
Exact ==
    /\ job.at = "done" /\ ~job.failed /\ (OntoItself => Units <= MoveAmount) =>
          /\ job.cmd \in {"type", "copy", "xcopy"} => job.moved = job.was
          /\ job.cmd \in {"copy", "xcopy"} =>
                LET w == Walk(vol, job.dst)
                IN  w.found /\ ContentOf(vol, w.dirent) = job.was
    /\ job.at = "leave" /\ job.cmd = "dir" => job.moved = job.was

\* What a command writes to: the target of a copy, the operand of del and attrib.
WrittenFile(m) ==
    {m.file[f].where : f \in IF job.cmd \in {"copy", "xcopy", "md"} THEN {"dst"} ELSE {"src"}}

\* What is in a file; a directory holds what is made in it.
Holds(m, at) == IF UnitAt(m, at).dir THEN <<>> ELSE ContentOf(m, UnitAt(m, at))

\* The volume as the next open will find it, and the entries that have their place and
\* their clusters there too.
Reopened(m) == [m EXCEPT !.fat = m.saved]
OnDisk(m) ==
    {at \in Live(m) \cap Live(Reopened(m)) : Holds(Reopened(m), at) = Holds(m, at)}

\* No call changes another file than the one its command is to change, neither its
\* entry nor what it holds, also when writes are refused half way or the volume fills
\* up; no directory loses its entry.  (The target of a copy that was refused half way
\* may change again when the next open forgets the table that was not saved.)
OthersStay == [][\A at \in OnDisk(vol) \ (WrittenFile(vol) \cup WrittenFile(vol')) :
                    /\ at \in Live(vol')
                    /\ UnitAt(vol', at) = UnitAt(vol, at)
                    /\ Holds(vol', at) = Holds(vol, at)]_vars
=============================================================================
