----------------------------- MODULE FileHandles -----------------------------
(***************************************************************************)
(* What a caller of the firmware vector and of the Bl I/O routines counts  *)
(* on: each handle stands for what it was opened as until it is closed,    *)
(* with a file position of its own.  Any call may fail, and then changes   *)
(* nothing of the handles, except that one is gone once closing it was     *)
(* tried.  One partition at a time is mounted, the last a file was opened  *)
(* on: only its files are sure to be read as they are, by whichever handle *)
(* they were opened.  A read that succeeds may yield nothing, which is no  *)
(* sign that the file has ended.                                           *)
(***************************************************************************)
EXTENDS Naturals

CONSTANTS
    Handles,   \* the callers' variables that hold a file id
    Consoles,  \* what may be opened: the console, in or out,
    Devices,   \* partitions as raw devices,
    FilesAt,   \* and files, each on the partition that starts at its .start
    FileSize   \* units in every file

VARIABLES
    opened,    \* what each handle was opened as
    mounted,   \* the partition whose files are read as they are, if any
    reply      \* what the last call returned

vars == <<opened, mounted, reply>>

None == [kind |-> "none"]
AsConsole(c) == [kind |-> "console", name |-> c]
AsDevice(d) == [kind |-> "device", name |-> d]
AsFile(f, p) == [kind |-> "file", name |-> f, position |-> p]

NoVolume == [mounted |-> FALSE]
VolumeOf(f) == [mounted |-> TRUE, start |-> f.start]

Done == [status |-> "done"]
Failed(why) == [status |-> "failed", why |-> why]
Data(name, p) == [status |-> "data", name |-> name, at |-> p]
End == [status |-> "end"]
Garbled == [status |-> "garbled"]
Failures == {Failed("error"), Failed("full")}

Init ==
    /\ opened = [h \in Handles |-> None]
    /\ mounted = NoVolume
    /\ reply = Done

Open(h, what) ==
    /\ opened[h] = None
    /\ \/ opened' = [opened EXCEPT ![h] = what] /\ reply' = Done
       \/ UNCHANGED opened /\ reply' \in Failures

\* Whether a file is found or not, its partition may have been mounted on the
\* way, and the one before it is not mounted any more then.
OpenFile(h, f) ==
    /\ Open(h, AsFile(f, 0))
    /\ mounted' \in IF reply' = Done THEN {VolumeOf(f)}
                    ELSE {mounted, VolumeOf(f), NoVolume}

Close(h) ==
    /\ opened[h] # None
    /\ opened' = [opened EXCEPT ![h] = None]
    /\ reply' \in {Done} \cup Failures
    /\ UNCHANGED mounted

ReadDevice(h, p) ==
    /\ opened[h].kind = "device"
    /\ reply' = Data(opened[h].name, p)
    /\ UNCHANGED <<opened, mounted>>

ReadFile(h) ==
    /\ opened[h].kind = "file"
    /\ \/ /\ opened[h].position < FileSize
          /\ \/ reply' = Data(opened[h].name, opened[h].position)
             \/ mounted # VolumeOf(opened[h].name) /\ reply' = Garbled
          /\ opened' = [opened EXCEPT ![h].position = @ + 1]
       \/ /\ reply' \in {End} \cup Failures
          /\ UNCHANGED opened
    /\ UNCHANGED mounted

Seek(h, p) ==
    /\ opened[h].kind = "file"
    /\ \/ p <= FileSize /\ opened' = [opened EXCEPT ![h].position = p] /\ reply' = Done
       \/ UNCHANGED opened /\ reply' \in Failures
    /\ UNCHANGED mounted

\* A call about no handle.
Initialize == reply' = Done /\ UNCHANGED <<opened, mounted>>

Next ==
    \/ Initialize
    \/ \E h \in Handles :
          \/ \E c \in Consoles : Open(h, AsConsole(c)) /\ UNCHANGED mounted
          \/ \E d \in Devices : Open(h, AsDevice(d)) /\ UNCHANGED mounted
          \/ \E f \in FilesAt : OpenFile(h, f)
          \/ Close(h)
          \/ \E p \in 0 .. FileSize : ReadDevice(h, p)
          \/ ReadFile(h)
          \/ \E p \in 0 .. (FileSize + 1) : Seek(h, p)

Spec == Init /\ [][Next]_vars
=============================================================================
