---------------------------- MODULE DosShellProofs ----------------------------
(***************************************************************************)
(* What the commands of arcdos.c leave on a volume, for every volume,      *)
(* every set of paths and every device that may refuse writes.             *)
(*                                                                         *)
(* The commands are followed from call to call. The invariant Inv says     *)
(* where in a command a change of the table may still wait for the disk;   *)
(* Safe says which entries the handles of a command lead to, and that the  *)
(* volume is Settled, so that every call finds what the lemmas of          *)
(* FatVolumeProofs ask for. The second half says of each routine that the  *)
(* files it is not called for stay as they are (Stays).                    *)
(***************************************************************************)
EXTENDS DosShell, FatVolumeProofs

-----------------------------------------------------------------------------
(* Calls.                                                                  *)

\* One call takes the volume v to w: once the device has refused a write, nothing
\* changes on it any more.
Goes(v, w) ==
    /\ Sane(w)
    /\ v.refused => w.refused /\ w.disk = v.disk /\ w.saved = v.saved

\* What a call is handed, and what it hands back.
LEMMA FreshFacts ==
    ASSUME Sane(vol), NEW n \in Nat
    PROVE  /\ Sane(Fresh(n)) /\ Fresh(n).writes = n /\ Ok(Fresh(n))
           /\ Fresh(n).dirty = vol.dirty /\ Fresh(n).refused = vol.refused
           /\ Fresh(n).disk = vol.disk /\ Fresh(n).saved = vol.saved
<1>1. vol \in AnyVolume
  BY DEF Sane
<1>2. Fresh(n) \in AnyVolume
  <2>1. <<>> \in Seq(AnyUnit)
    BY EmptySeq
  <2> QED BY <1>1, <2>1 DEF Fresh, AnyVolume, AnyStatus
<1>3. /\ Fresh(n).writes = n /\ Fresh(n).status = "ESUCCESS"
      /\ Fresh(n).dirty = vol.dirty /\ Fresh(n).refused = vol.refused
      /\ Fresh(n).disk = vol.disk /\ Fresh(n).saved = vol.saved /\ Fresh(n).fat = vol.fat
  BY <1>1 DEF Fresh, AnyVolume
<1> QED BY <1>2, <1>3 DEF Sane, Ok

LEMMA AfterUntouched ==
    ASSUME NEW m \in AnyVolume
    PROVE  /\ After(m) \in AnyVolume /\ After(m).disk = m.disk /\ After(m).saved = m.saved
           /\ After(m).fat = m.fat /\ After(m).dirty = m.dirty
           /\ After(m).refused = m.refused
<1>1. After(m) \in AnyVolume
  <2>1. <<>> \in Seq(AnyUnit)
    BY EmptySeq
  <2> QED BY <2>1 DEF After, AnyVolume, AnyStatus
<1> QED BY <1>1 DEF After, AnyVolume

LEMMA LeaveUntouched ==
    ASSUME NEW m \in AnyVolume
    PROVE  /\ Leave(m) \in AnyVolume /\ Leave(m).disk = m.disk /\ Leave(m).saved = m.saved
           /\ Leave(m).fat = m.fat /\ Leave(m).dirty = m.dirty
           /\ Leave(m).refused = m.refused
<1> DEFINE file == [f \in FileIds |-> NoFile]
           n == After(m)
<1>1. file \in [FileIds -> AnyFile]
  BY NoFileType
<1>2. n \in AnyVolume
  BY AfterUntouched
<1>3. Leave(m) = [n EXCEPT !.file = file]
  BY DEF Leave
<1> HIDE DEF n, file
<1>4. Leave(m) \in AnyVolume
  BY <1>1, <1>2, <1>3, FileType
<1>5. /\ Leave(m).disk = n.disk /\ Leave(m).saved = n.saved /\ Leave(m).fat = n.fat
      /\ Leave(m).dirty = n.dirty /\ Leave(m).refused = n.refused
  BY <1>2, <1>3 DEF AnyVolume
<1> QED BY <1>4, <1>5, AfterUntouched DEF n

LEMMA CallGoes ==
    ASSUME Sane(vol), NEW n \in Budgets, NEW m, Follows(Fresh(n), m),
           NEW w \in {After(m), Leave(m)}
    PROVE  /\ Goes(vol, w) /\ w.dirty = m.dirty /\ w.refused = m.refused
           /\ n = 0 => w.disk = vol.disk /\ w.saved = vol.saved
<1>1. n \in Nat /\ (vol.refused => n = 0)
  BY ShellAssumption DEF Budgets
<1>2. m \in AnyVolume /\ Sane(m)
  BY FollowsSane
<1>3. /\ w \in AnyVolume /\ w.disk = m.disk /\ w.saved = m.saved
      /\ w.fat = m.fat /\ w.dirty = m.dirty /\ w.refused = m.refused
  BY <1>2, AfterUntouched, LeaveUntouched
<1>4. Sane(w)
  BY <1>2, <1>3 DEF Sane
<1> QED BY <1>1, <1>3, <1>4, FreshFacts DEF Goes, Follows

LEMMA NoBudget == 0 \in Budgets
BY ShellAssumption DEF Budgets

LEMMA BudgetType ==
    ASSUME NEW n \in Budgets
    PROVE  n \in Nat
BY ShellAssumption DEF Budgets

-----------------------------------------------------------------------------
(* The invariant.                                                          *)

Paths == Seq(AnyName)

Ats == {"idle", "exit", "source", "target", "read", "write", "closeSource", "closeTarget",
        "set", "done", "try", "create", "created", "directory", "next", "leave"}

Commands == {"", "type", "del", "attrib+r", "attrib-r", "copy", "md", "xcopy", "dir"}

IsJob(j) ==
    j \in [at : Ats, cmd : Commands, src : Paths, dst : Paths, from : Paths, to : Paths,
           left : Nat, buffer : Seq(AnyUnit), moved : {j.moved}, failed : BOOLEAN,
           was : {j.was}]

\* What is to be created has a name.
Named(j) ==
    /\ j.at = "source" /\ j.cmd \in {"copy", "xcopy"} => j.dst # <<>>
    /\ j.at = "target" => j.dst # <<>>
    /\ j.at \in {"try", "create"} => j.to # <<>>

\* Where a change of the table may wait to be saved: in a copy until its source is
\* closed, behind a deletion, and in a new directory.
Waiting(v, j) ==
    v.dirty /\ ~v.refused => j.at \in {"read", "write", "closeSource", "created"}

\* type and dir leave the table as they found it when they opened their operand.
Reading(v, j) ==
    /\ j.cmd = "type" =>
          /\ j.at \in {"source", "read", "closeSource", "closeTarget", "done"}
          /\ j.at \in {"read", "closeSource", "closeTarget"} => ~v.dirty
    /\ j.cmd = "dir" =>
          /\ j.at \in {"directory", "next", "leave"}
          /\ j.at \in {"next", "leave"} => ~v.dirty

Inv(v, j) == Sane(v) /\ IsJob(j) /\ Named(j) /\ Waiting(v, j) /\ Reading(v, j)

\* What a step does to the disk, by the command that makes it.
Kept(v, j, w) ==
    Goes(v, w) /\ (j.cmd \in {"type", "dir"} => w.disk = v.disk /\ w.saved = v.saved)

LEMMA IdleJob == IsJob(Idle) /\ Named(Idle) /\ Idle.at = "idle" /\ Idle.cmd = ""
BY EmptySeq DEF IsJob, Named, Idle, Ats, Commands, Paths

\* The job goes on at another call.
LEMMA JobAt ==
    ASSUME NEW j, IsJob(j), NEW at \in Ats, NEW k, k = [j EXCEPT !.at = at]
    PROVE  /\ IsJob(k) /\ k.at = at /\ k.cmd = j.cmd /\ k.dst = j.dst /\ k.to = j.to
           /\ k.failed = j.failed
BY DEF IsJob

\* Nothing happens to the volume.
LEMMA StaysKept ==
    ASSUME NEW v, Sane(v), NEW j
    PROVE  Kept(v, j, v)
BY DEF Kept, Goes

-----------------------------------------------------------------------------
(* Every step keeps the invariant.                                         *)

LEMMA Ids == "src" \in FileIds /\ "dst" \in FileIds /\ "dir" \in FileIds
BY ShellAssumption

LEMMA InvFacts ==
    ASSUME Inv(vol, job)
    PROVE  /\ Sane(vol) /\ vol \in AnyVolume /\ IsJob(job)
           /\ job.src \in Paths /\ job.dst \in Paths /\ job.from \in Paths
           /\ job.to \in Paths /\ job.left \in Nat /\ job.buffer \in Seq(AnyUnit)
           /\ job.failed \in BOOLEAN /\ job.at \in Ats /\ job.cmd \in Commands
BY DEF Inv, Sane, IsJob

LEMMA OpenSourceKeeps ==
    ASSUME Inv(vol, job), OpenSource
    PROVE  Inv(vol', job') /\ Kept(vol, job, vol')
<1> DEFINE m == FatOpen(Fresh(0), "src", job.src, "OpenReadOnly")
           left == FatGetFileInformation(m, "src")
           was == ContentOf(m, m.file["src"].dirent)
           good == [job EXCEPT !.at = Next1(job.cmd), !.left = left, !.was = was]
           bad == [job EXCEPT !.at = "done", !.failed = TRUE]
<1>1. /\ vol' = After(m) /\ job' \in {good, bad} /\ job.at = "source"
  BY DEF OpenSource
<1>2. Follows(Fresh(0), m) /\ ~m.dirty /\ m \in AnyVolume
  <2>1. Sane(Fresh(0)) /\ job.src \in Seq(AnyName)
    BY FreshFacts, InvFacts DEF Paths
  <2>2. NamedPath("OpenReadOnly", job.src)
    BY DEF NamedPath, ReadModes
  <2> QED BY <2>1, <2>2, Ids, OpenFollows, FollowsSane DEF ReadModes
<1>3. left \in Nat
  BY <1>2, Ids, EntryFields DEF FatGetFileInformation
<1> HIDE DEF m, left, was
<1>4. /\ Goes(vol, vol') /\ ~vol'.dirty
      /\ vol'.disk = vol.disk /\ vol'.saved = vol.saved
  BY <1>1, <1>2, InvFacts, NoBudget, CallGoes
<1>5. Next1(job.cmd) \in {"target", "read", "set"} /\ (job.cmd = "type" => Next1(job.cmd) = "read")
      /\ (Next1(job.cmd) = "target" => job.cmd \in {"copy", "xcopy"})
  BY DEF Next1
<1>6. job.dst # <<>> \/ job.cmd \notin {"copy", "xcopy"}
  BY <1>1 DEF Inv, Named
<1>7. job.cmd # "dir"
  BY <1>1 DEF Inv, Reading
<1>8. IsJob(good) /\ good.at = Next1(job.cmd) /\ good.cmd = job.cmd /\ good.dst = job.dst
  BY <1>3, <1>5, InvFacts DEF IsJob, Ats
<1>9. IsJob(bad) /\ bad.at = "done" /\ bad.cmd = job.cmd
  BY InvFacts DEF IsJob, Ats
<1> HIDE DEF good, bad
<1>10. Named(job') /\ IsJob(job') /\ job'.cmd = job.cmd
       /\ job'.at \in {"target", "read", "set", "done"}
       /\ (job.cmd = "type" => job'.at \in {"read", "done"})
  BY <1>1, <1>5, <1>6, <1>8, <1>9 DEF Named
<1> QED BY <1>4, <1>7, <1>10 DEF Inv, Goes, Waiting, Reading, Kept

LEMMA OpenTargetKeeps ==
    ASSUME Inv(vol, job), OpenTarget
    PROVE  Inv(vol', job') /\ Kept(vol, job, vol')
<1> DEFINE good == [job EXCEPT !.at = "read"]
           bad == [job EXCEPT !.at = "closeSource", !.failed = TRUE]
<1>1. PICK n \in Budgets :
         /\ vol' = After(FatOpen(Fresh(n), "dst", job.dst, "SupersedeWriteOnly"))
         /\ job' \in {good, bad} /\ job.at = "target"
  BY DEF OpenTarget
<1> DEFINE m == FatOpen(Fresh(n), "dst", job.dst, "SupersedeWriteOnly")
<1>2. Follows(Fresh(n), m)
  <2>1. Sane(Fresh(n)) /\ job.dst \in Seq(AnyName)
    BY FreshFacts, InvFacts, BudgetType DEF Paths
  <2>2. NamedPath("SupersedeWriteOnly", job.dst)
    BY <1>1 DEF NamedPath, Inv, Named
  <2> QED BY <2>1, <2>2, Ids, OpenFollows
<1> HIDE DEF m
<1>3. Goes(vol, vol')
  BY <1>1, <1>2, InvFacts, CallGoes DEF m
<1>4. job.cmd \notin {"type", "dir"}
  BY <1>1 DEF Inv, Reading
<1>5. IsJob(good) /\ good.at = "read" /\ good.cmd = job.cmd
  BY InvFacts, JobAt DEF Ats
<1>6. IsJob(bad) /\ bad.at = "closeSource" /\ bad.cmd = job.cmd
  BY InvFacts DEF IsJob, Ats
<1> HIDE DEF good, bad
<1>7. IsJob(job') /\ job'.cmd = job.cmd /\ job'.at \in {"read", "closeSource"}
  BY <1>1, <1>5, <1>6
<1> QED BY <1>3, <1>4, <1>7 DEF Inv, Goes, Waiting, Reading, Kept, Named

LEMMA ReadKeeps ==
    ASSUME Inv(vol, job), Read
    PROVE  Inv(vol', job') /\ Kept(vol, job, vol')
<1> DEFINE m == FatRead(Fresh(0), "src", ReadAmount)
           bad == [job EXCEPT !.at = "closeSource", !.failed = TRUE]
           shown == [job EXCEPT !.moved = @ \o m.got, !.left = @ - ReadAmount]
           got == [job EXCEPT !.moved = @ \o m.got, !.buffer = m.got, !.at = "write"]
<1>1. /\ vol' = After(m) /\ job.at = "read"
      /\ job' \in {bad, shown} \/ (job' = got /\ job.cmd # "type")
  BY DEF Read
<1>2. ReadAmount \in Nat /\ job.left - ReadAmount \in Nat
  BY InvFacts, ShellAssumption DEF ReadAmount
<1>3. Sane(Fresh(0)) /\ Untouched(Fresh(0), m) /\ Follows(Fresh(0), m)
  BY <1>2, InvFacts, FreshFacts, Ids, ReadUntouched, UntouchedFollows DEF Sane
<1>4. m.got \in Seq(AnyUnit)
  BY <1>3, FieldTypes DEF Untouched
<1> HIDE DEF m
<1>5. /\ Goes(vol, vol') /\ vol'.dirty = vol.dirty
      /\ vol'.disk = vol.disk /\ vol'.saved = vol.saved
      /\ vol'.refused = vol.refused
  BY <1>1, <1>3, InvFacts, NoBudget, CallGoes, FreshFacts DEF Untouched
<1>6. IsJob(bad) /\ bad.at = "closeSource" /\ bad.cmd = job.cmd
  BY InvFacts DEF IsJob, Ats
<1>7. IsJob(shown) /\ shown.at = "read" /\ shown.cmd = job.cmd
  BY <1>1, <1>2, InvFacts DEF IsJob, Ats
<1>8. IsJob(got) /\ got.at = "write" /\ got.cmd = job.cmd
  BY <1>4, InvFacts DEF IsJob, Ats
<1>9. job.cmd # "dir"
  BY <1>1 DEF Inv, Reading
<1> HIDE DEF bad, shown, got
<1>10. /\ IsJob(job') /\ job'.cmd = job.cmd /\ job'.at \in {"closeSource", "read", "write"}
       /\ job.cmd = "type" => job'.at # "write"
  BY <1>1, <1>6, <1>7, <1>8
<1> QED BY <1>1, <1>5, <1>9, <1>10 DEF Inv, Goes, Waiting, Reading, Kept, Named

LEMMA WriteTargetKeeps ==
    ASSUME Inv(vol, job), WriteTarget
    PROVE  Inv(vol', job') /\ Kept(vol, job, vol')
<1> DEFINE good == [job EXCEPT !.at = "read", !.left = @ - ReadAmount, !.buffer = <<>>]
           bad == [job EXCEPT !.at = "closeSource", !.failed = TRUE]
<1>1. PICK n \in Budgets :
         /\ vol' = After(FatWrite(Fresh(n), "dst", job.buffer))
         /\ job' \in {good, bad} /\ job.at = "write"
  BY DEF WriteTarget
<1> DEFINE m == FatWrite(Fresh(n), "dst", job.buffer)
<1>2. Follows(Fresh(n), m)
  <2>1. Sane(Fresh(n)) /\ job.buffer \in Seq(AnyUnit)
    BY FreshFacts, InvFacts, BudgetType
  <2> QED BY <2>1, Ids, WriteFollows
<1> HIDE DEF m
<1>3. Goes(vol, vol')
  BY <1>1, <1>2, InvFacts, CallGoes DEF m
<1>4. job.cmd \notin {"type", "dir"}
  BY <1>1 DEF Inv, Reading
<1>5. IsJob(good) /\ good.at = "read" /\ good.cmd = job.cmd
  <2>1. job.left - ReadAmount \in Nat /\ <<>> \in Seq(AnyUnit)
    BY InvFacts, ShellAssumption, EmptySeq DEF ReadAmount
  <2> QED BY <2>1, InvFacts DEF IsJob, Ats
<1>6. IsJob(bad) /\ bad.at = "closeSource" /\ bad.cmd = job.cmd
  BY InvFacts DEF IsJob, Ats
<1> HIDE DEF good, bad
<1>7. IsJob(job') /\ job'.cmd = job.cmd /\ job'.at \in {"read", "closeSource"}
  BY <1>1, <1>5, <1>6
<1> QED BY <1>3, <1>4, <1>7 DEF Inv, Goes, Waiting, Reading, Kept, Named

LEMMA ReadAllKeeps ==
    ASSUME Inv(vol, job), ReadAll
    PROVE  Inv(vol', job') /\ Kept(vol, job, vol')
<1>1. vol' = vol /\ job.at = "read" /\ job' = [job EXCEPT !.at = "closeSource"]
  BY DEF ReadAll
<1>2. IsJob(job') /\ job'.at = "closeSource" /\ job'.cmd = job.cmd
  BY <1>1, InvFacts, JobAt DEF Ats
<1> QED BY <1>1, <1>2, StaysKept DEF Inv, Waiting, Reading, Named

LEMMA CloseSourceKeeps ==
    ASSUME Inv(vol, job), CloseSource
    PROVE  Inv(vol', job') /\ Kept(vol, job, vol')
<1>1. PICK n \in Budgets : vol' = After(FatClose(Fresh(n), "src"))
  BY DEF CloseSource
<1>2. PICK at \in {"closeTarget", "done"} : job' = [job EXCEPT !.at = at]
  BY DEF CloseSource
<1>3. job.at = "closeSource"
  BY DEF CloseSource
<1> DEFINE m == FatClose(Fresh(n), "src")
<1>4. /\ Follows(Fresh(n), m) /\ (~m.dirty \/ m.refused)
      /\ ~vol.dirty => Untouched(Fresh(n), m)
  <2>1. Sane(Fresh(n)) /\ Ok(Fresh(n)) /\ Fresh(n).dirty = vol.dirty
    BY FreshFacts, InvFacts, BudgetType
  <2> QED BY <2>1, Ids, CloseSaves
<1> HIDE DEF m
<1>5. Goes(vol, vol') /\ vol'.dirty = m.dirty /\ vol'.refused = m.refused
  BY <1>1, <1>4, InvFacts, CallGoes DEF m
<1>6. ~vol.dirty => ~m.dirty /\ vol'.disk = vol.disk /\ vol'.saved = vol.saved
  BY <1>1, <1>4, InvFacts, FreshFacts, BudgetType, FollowsSane, AfterUntouched
     DEF m, Untouched
<1>7. IsJob(job') /\ job'.at = at /\ job'.cmd = job.cmd
  BY <1>2, InvFacts, JobAt DEF Ats
<1> QED BY <1>2, <1>3, <1>4, <1>5, <1>6, <1>7
        DEF Inv, Goes, Waiting, Reading, Kept, Named

LEMMA CloseTargetKeeps ==
    ASSUME Inv(vol, job), CloseTarget
    PROVE  Inv(vol', job') /\ Kept(vol, job, vol')
<1>1. PICK n \in Budgets :
         /\ vol' = After(FatClose(Fresh(n), "dst")) /\ job.at = "closeTarget"
         /\ \E failed \in BOOLEAN : job' = [job EXCEPT !.at = "done", !.failed = failed]
  <2>1. \A ok : (job.failed \/ ~ok) \in BOOLEAN
    OBVIOUS
  <2> QED BY <2>1, InvFacts DEF CloseTarget, IsJob
<1> DEFINE m == FatClose(Fresh(n), "dst")
<1>2. /\ Follows(Fresh(n), m) /\ (~m.dirty \/ m.refused)
      /\ ~vol.dirty => Untouched(Fresh(n), m)
  <2>1. Sane(Fresh(n)) /\ Ok(Fresh(n)) /\ Fresh(n).dirty = vol.dirty
    BY FreshFacts, InvFacts, BudgetType
  <2> QED BY <2>1, Ids, CloseSaves
<1> HIDE DEF m
<1>3. Goes(vol, vol') /\ vol'.dirty = m.dirty /\ vol'.refused = m.refused
  BY <1>1, <1>2, InvFacts, CallGoes DEF m
<1>4. ~vol.dirty => ~m.dirty /\ vol'.disk = vol.disk /\ vol'.saved = vol.saved
  BY <1>1, <1>2, InvFacts, FreshFacts, BudgetType, FollowsSane, AfterUntouched
     DEF m, Untouched
<1>5. IsJob(job') /\ job'.at = "done" /\ job'.cmd = job.cmd
  <2>1. PICK failed \in BOOLEAN : job' = [job EXCEPT !.at = "done", !.failed = failed]
    BY <1>1
  <2> QED BY <2>1, InvFacts DEF IsJob, Ats
<1> QED BY <1>1, <1>2, <1>3, <1>4, <1>5 DEF Inv, Goes, Waiting, Reading, Kept, Named

LEMMA SetInformationKeeps ==
    ASSUME Inv(vol, job), SetFileInformation
    PROVE  Inv(vol', job') /\ Kept(vol, job, vol')
<1> DEFINE good == [job EXCEPT !.at = "closeSource"]
           bad == [job EXCEPT !.at = "done", !.failed = TRUE]
<1>1. PICK n \in Budgets :
         /\ vol' = After(SetInformation(Fresh(n))) /\ job.at = "set"
         /\ job' = IF Ok(SetInformation(Fresh(n))) THEN good ELSE bad
  BY DEF SetFileInformation
<1> DEFINE m == SetInformation(Fresh(n))
<1>2. Sane(Fresh(n)) /\ Ok(Fresh(n)) /\ Fresh(n).dirty = vol.dirty
      /\ Fresh(n).refused = vol.refused
  BY FreshFacts, InvFacts, BudgetType
<1>3. ~vol.dirty \/ vol.refused
  BY <1>1 DEF Inv, Waiting
<1>4. Follows(Fresh(n), m) /\ (~Ok(m) => m.refused \/ ~m.dirty)
  <2>1. CASE job.cmd = "del"
    <3>1. SetInformation(Fresh(n)) = DeleteFile(Fresh(n), "src")
      BY <2>1 DEF SetInformation
    <3> QED BY <1>2, <1>3, <3>1, Ids, DeleteFollows DEF Follows
  <2>2. CASE job.cmd # "del"
    <3>1. PICK on \in BOOLEAN : SetInformation(Fresh(n)) = SetReadOnly(Fresh(n), "src", on)
      <4>1. (job.cmd = "attrib+r") \in BOOLEAN
        OBVIOUS
      <4>2. SetInformation(Fresh(n)) = SetReadOnly(Fresh(n), "src", job.cmd = "attrib+r")
        BY <2>2 DEF SetInformation
      <4> QED BY <4>1, <4>2, Zenon
    <3>2. Follows(Fresh(n), m) /\ m.dirty = Fresh(n).dirty
      BY <1>2, <3>1, Ids, ReadOnlyFollows
    <3> HIDE DEF m
    <3> QED BY <1>2, <1>3, <3>2 DEF Follows
  <2> QED BY <2>1, <2>2
<1> HIDE DEF m
<1>5. Goes(vol, vol') /\ vol'.dirty = m.dirty /\ vol'.refused = m.refused
  BY <1>1, <1>4, InvFacts, CallGoes DEF m
<1>6. job.cmd \notin {"type", "dir"}
  BY <1>1 DEF Inv, Reading
<1>7. IsJob(good) /\ good.at = "closeSource" /\ good.cmd = job.cmd
  BY InvFacts, JobAt DEF Ats
<1>8. IsJob(bad) /\ bad.at = "done" /\ bad.cmd = job.cmd
  BY InvFacts DEF IsJob, Ats
<1> HIDE DEF good, bad
<1>9. /\ IsJob(job') /\ job'.cmd = job.cmd /\ job'.at \in {"closeSource", "done"}
      /\ job'.at = "done" => ~Ok(m)
  BY <1>1, <1>7, <1>8 DEF m
<1> QED BY <1>4, <1>5, <1>6, <1>9 DEF Inv, Goes, Waiting, Reading, Kept, Named

\* The volume when the command leaves its files behind.
LEMMA LeaveKeeps ==
    ASSUME Inv(vol, job)
    PROVE  /\ Sane(Leave(vol)) /\ Kept(vol, job, Leave(vol))
           /\ Leave(vol).dirty = vol.dirty /\ Leave(vol).refused = vol.refused
BY InvFacts, LeaveUntouched DEF Sane, Kept, Goes

LEMMA ReturnType ==
    ASSUME IsJob(job), job.cmd = "xcopy", NEW k,
           k \in {Return(job), [Return(job) EXCEPT !.at = "leave"]}
    PROVE  IsJob(k) /\ k.at \in {"next", "leave"} /\ k.cmd = "xcopy"
<1> DEFINE back == [job EXCEPT !.at = "next", !.src = <<>>, !.dst = <<>>, !.left = 0,
                               !.buffer = <<>>, !.moved = <<>>, !.was = <<>>,
                               !.failed = FALSE]
           gone == [back EXCEPT !.at = "leave"]
<1>1. <<>> \in Paths /\ <<>> \in Seq(AnyUnit)
  BY EmptySeq DEF Paths
<1>2. IsJob(back) /\ back.at = "next" /\ back.cmd = "xcopy"
  BY <1>1 DEF IsJob, Ats
<1>3. Return(job) = back
  BY DEF Return
<1> HIDE DEF back
<1>4. IsJob(gone) /\ gone.at = "leave" /\ gone.cmd = "xcopy"
  BY <1>2, JobAt DEF Ats
<1> QED BY <1>2, <1>3, <1>4

LEMMA DoneKeeps ==
    ASSUME Inv(vol, job), Done
    PROVE  Inv(vol', job') /\ Kept(vol, job, vol')
<1>1. job.at = "done"
  BY DEF Done
<1>2. ~vol.dirty \/ vol.refused
  BY <1>1 DEF Inv, Waiting
<1>3. CASE job.cmd # "xcopy"
  <2>1. vol' = Leave(vol) /\ job' = Idle
    BY <1>3 DEF Done
  <2> QED BY <1>2, <2>1, IdleJob, LeaveKeeps DEF Inv, Waiting, Reading
<1>4. CASE job.cmd = "xcopy"
  <2>1. vol' = vol /\ job' \in {Return(job), [Return(job) EXCEPT !.at = "leave"]}
    BY <1>4 DEF Done
  <2>2. IsJob(job') /\ job'.at \in {"next", "leave"} /\ job'.cmd = "xcopy"
    BY <1>4, <2>1, InvFacts, ReturnType
  <2> QED BY <1>2, <2>1, <2>2, InvFacts, StaysKept DEF Inv, Waiting, Reading, Named
<1> QED BY <1>3, <1>4

LEMMA TryDirectoryKeeps ==
    ASSUME Inv(vol, job), TryDirectory
    PROVE  Inv(vol', job') /\ Kept(vol, job, vol')
<1> DEFINE m == FatOpen(Fresh(0), "dst", job.to, "OpenDirectory")
           missing == [job EXCEPT !.at = "create"]
           there == [job EXCEPT !.at = "directory"]
<1>1. /\ vol' = Leave(m) /\ job.at = "try"
      /\ job' \in {missing, Idle} \/ (job' = there /\ job.cmd = "xcopy")
  BY DEF TryDirectory
<1>2. Follows(Fresh(0), m) /\ ~m.dirty
  <2>1. Sane(Fresh(0)) /\ job.to \in Seq(AnyName)
    BY FreshFacts, InvFacts DEF Paths
  <2>2. NamedPath("OpenDirectory", job.to)
    BY DEF NamedPath, ReadModes
  <2> QED BY <2>1, <2>2, Ids, OpenFollows DEF ReadModes
<1> HIDE DEF m
<1>3. Goes(vol, vol') /\ ~vol'.dirty
  BY <1>1, <1>2, InvFacts, NoBudget, CallGoes
<1>4. job.cmd \notin {"type", "dir"} /\ job.to # <<>>
  BY <1>1 DEF Inv, Reading, Named
<1>5. IsJob(missing) /\ missing.at = "create" /\ missing.cmd = job.cmd /\ missing.to = job.to
  BY InvFacts, JobAt DEF Ats
<1>6. IsJob(there) /\ there.at = "directory" /\ there.cmd = job.cmd
  BY InvFacts, JobAt DEF Ats
<1> HIDE DEF missing, there
<1>7. IsJob(job') /\ Named(job') /\ job'.cmd \notin {"type", "dir"}
  BY <1>1, <1>4, <1>5, <1>6, IdleJob DEF Named
<1> QED BY <1>3, <1>4, <1>7 DEF Inv, Goes, Waiting, Reading, Kept

LEMMA MakeDirectoryKeeps ==
    ASSUME Inv(vol, job), MakeDirectory
    PROVE  Inv(vol', job') /\ Kept(vol, job, vol')
<1>1. PICK n \in Budgets, failed \in BOOLEAN :
         /\ vol' = After(FatOpen(Fresh(n), "dst", job.to, "CreateDirectory"))
         /\ job.at = "create" /\ job' = [job EXCEPT !.at = "created", !.failed = failed]
  <2>1. \A ok : (~ok) \in BOOLEAN
    OBVIOUS
  <2> QED BY <2>1 DEF MakeDirectory
<1> DEFINE m == FatOpen(Fresh(n), "dst", job.to, "CreateDirectory")
<1>2. Follows(Fresh(n), m)
  <2>1. Sane(Fresh(n)) /\ job.to \in Seq(AnyName)
    BY FreshFacts, InvFacts, BudgetType DEF Paths
  <2>2. NamedPath("CreateDirectory", job.to)
    BY <1>1 DEF NamedPath, Inv, Named
  <2> QED BY <2>1, <2>2, Ids, OpenFollows
<1> HIDE DEF m
<1>3. Goes(vol, vol')
  BY <1>1, <1>2, InvFacts, CallGoes DEF m
<1>4. job.cmd \notin {"type", "dir"}
  BY <1>1 DEF Inv, Reading
<1>5. IsJob(job') /\ job'.at = "created" /\ job'.cmd = job.cmd
  BY <1>1, InvFacts DEF IsJob, Ats
<1> QED BY <1>3, <1>4, <1>5 DEF Inv, Goes, Waiting, Reading, Kept, Named

LEMMA CloseDirectoryKeeps ==
    ASSUME Inv(vol, job), CloseDirectory
    PROVE  Inv(vol', job') /\ Kept(vol, job, vol')
<1> DEFINE there == [job EXCEPT !.at = "directory"]
<1>1. PICK n \in Budgets : vol' = After(FatClose(Fresh(n), "dst"))
  BY DEF CloseDirectory
<1>2. job.at = "created" /\ (job' = Idle \/ (job' = there /\ job.cmd = "xcopy"))
  BY DEF CloseDirectory
<1> DEFINE m == FatClose(Fresh(n), "dst")
<1>3. Follows(Fresh(n), m) /\ (~m.dirty \/ m.refused)
  <2>1. Sane(Fresh(n)) /\ Ok(Fresh(n))
    BY FreshFacts, InvFacts, BudgetType
  <2> QED BY <2>1, Ids, CloseSaves
<1> HIDE DEF m
<1>4. Goes(vol, vol') /\ vol'.dirty = m.dirty /\ vol'.refused = m.refused
  BY <1>1, <1>3, InvFacts, CallGoes DEF m
<1>5. job.cmd \notin {"type", "dir"}
  BY <1>2 DEF Inv, Reading
<1>6. IsJob(there) /\ there.at = "directory" /\ there.cmd = job.cmd
  BY InvFacts, JobAt DEF Ats
<1> HIDE DEF there
<1>7. IsJob(job') /\ Named(job') /\ job'.cmd \notin {"type", "dir"}
  BY <1>2, <1>6, IdleJob DEF Named
<1> QED BY <1>3, <1>4, <1>5, <1>7 DEF Inv, Goes, Waiting, Reading, Kept

LEMMA OpenDirectoryKeeps ==
    ASSUME Inv(vol, job), OpenSourceDirectory
    PROVE  Inv(vol', job') /\ Kept(vol, job, vol')
<1> DEFINE m == FatOpen(Fresh(0), "dir", job.from, "OpenDirectory")
           was == IF job.cmd = "dir" THEN ListingOf(m, m.file["dir"].dirent) ELSE <<>>
           good == [job EXCEPT !.at = "next", !.was = was]
<1>1. vol' = After(m) /\ job.at = "directory" /\ job' \in {Idle, good}
  BY DEF OpenSourceDirectory
<1>2. Follows(Fresh(0), m) /\ ~m.dirty
  <2>1. Sane(Fresh(0)) /\ job.from \in Seq(AnyName)
    BY FreshFacts, InvFacts DEF Paths
  <2>2. NamedPath("OpenDirectory", job.from)
    BY DEF NamedPath, ReadModes
  <2> QED BY <2>1, <2>2, Ids, OpenFollows DEF ReadModes
<1> HIDE DEF m, was
<1>3. Goes(vol, vol') /\ ~vol'.dirty /\ vol'.disk = vol.disk /\ vol'.saved = vol.saved
  BY <1>1, <1>2, InvFacts, NoBudget, CallGoes
<1>4. job.cmd # "type"
  BY <1>1 DEF Inv, Reading
<1>5. IsJob(good) /\ good.at = "next" /\ good.cmd = job.cmd
  BY InvFacts DEF IsJob, Ats
<1> HIDE DEF good
<1>6. IsJob(job') /\ Named(job') /\ (job' = Idle \/ (job'.at = "next" /\ job'.cmd = job.cmd))
  BY <1>1, <1>5, IdleJob DEF Named
<1> QED BY <1>3, <1>4, <1>6, IdleJob DEF Inv, Goes, Waiting, Reading, Kept

LEMMA NextEntryKeeps ==
    ASSUME Inv(vol, job), NextEntry
    PROVE  Inv(vol', job') /\ Kept(vol, job, vol')
<1> DEFINE m == FatGetDirectoryEntry(Fresh(0), "dir")
           name == m.got[1].name
           over == [job EXCEPT !.at = "leave"]
           shown == [job EXCEPT !.moved = @ \o m.got]
           found == [job EXCEPT !.at = "source", !.src = Append(job.from, name),
                                !.dst = Append(job.to, name)]
<1>1. /\ vol' = After(m) /\ job.at = "next"
      /\ \/ job' = over \/ job' = job \/ job' = shown
         \/ job' = found /\ job.cmd # "dir" /\ Ok(m)
  BY DEF NextEntry
<1>2. Sane(Fresh(0)) /\ Untouched(Fresh(0), m) /\ (Ok(m) => m.got # <<>>)
      /\ Follows(Fresh(0), m)
  BY InvFacts, FreshFacts, Ids, EntryUntouchedBy, UntouchedFollows DEF Sane
<1>3. m.got \in Seq(AnyUnit)
  BY <1>2, FieldTypes DEF Untouched
<1>4. Ok(m) => name \in AnyName
  <2>1. Ok(m) => 1 \in 1 .. Len(m.got)
    BY <1>2, <1>3, LenProperties, EmptySeq
  <2>2. Ok(m) => m.got[1] \in AnyUnit
    BY <1>3, <2>1, ElementOfSeq
  <2> QED BY <2>2 DEF AnyUnit
<1> HIDE DEF m
<1>5. /\ Goes(vol, vol') /\ vol'.dirty = vol.dirty
      /\ vol'.disk = vol.disk /\ vol'.saved = vol.saved /\ vol'.refused = vol.refused
  BY <1>1, <1>2, InvFacts, NoBudget, CallGoes, FreshFacts DEF Untouched
<1>6. job.cmd # "type"
  BY <1>1 DEF Inv, Reading
<1>7. IsJob(over) /\ over.at = "leave" /\ over.cmd = job.cmd
  BY InvFacts, JobAt DEF Ats
<1>8. IsJob(shown) /\ shown.at = "next" /\ shown.cmd = job.cmd
  BY <1>1, InvFacts DEF IsJob
<1> HIDE DEF name
<1>9. Ok(m) => IsJob(found) /\ found.at = "source" /\ found.cmd = job.cmd /\ found.dst # <<>>
  <2> SUFFICES ASSUME Ok(m)
               PROVE  /\ IsJob(found) /\ found.at = "source" /\ found.cmd = job.cmd
                      /\ found.dst # <<>>
    OBVIOUS
  <2>1. /\ Append(job.from, name) \in Paths /\ Append(job.to, name) \in Paths
        /\ Append(job.to, name) # <<>>
    BY <1>4, InvFacts, AppendProperties DEF Paths
  <2> QED BY <2>1, InvFacts DEF IsJob, Ats
<1> HIDE DEF over, shown, found
<1>10. \/ (job'.at \in {"leave", "next"} /\ IsJob(job') /\ job'.cmd = job.cmd)
       \/ (/\ job'.at = "source" /\ IsJob(job') /\ job'.cmd = job.cmd /\ job'.dst # <<>>
           /\ job.cmd # "dir")
  BY <1>1, <1>7, <1>8, <1>9, InvFacts
<1> QED BY <1>1, <1>5, <1>6, <1>10 DEF Inv, Goes, Waiting, Reading, Kept, Named

LEMMA CloseSourceDirectoryKeeps ==
    ASSUME Inv(vol, job), CloseSourceDirectory
    PROVE  Inv(vol', job') /\ Kept(vol, job, vol')
<1>1. PICK n \in Budgets : vol' = Leave(FatClose(Fresh(n), "dir"))
  BY DEF CloseSourceDirectory
<1>2. job.at = "leave" /\ job' = Idle
  BY DEF CloseSourceDirectory
<1> DEFINE m == FatClose(Fresh(n), "dir")
<1>3. /\ Follows(Fresh(n), m) /\ (~m.dirty \/ m.refused)
      /\ ~vol.dirty => Untouched(Fresh(n), m)
  <2>1. Sane(Fresh(n)) /\ Ok(Fresh(n)) /\ Fresh(n).dirty = vol.dirty
    BY FreshFacts, InvFacts, BudgetType
  <2> QED BY <2>1, Ids, CloseSaves
<1> HIDE DEF m
<1>4. Goes(vol, vol') /\ vol'.dirty = m.dirty /\ vol'.refused = m.refused
  BY <1>1, <1>3, InvFacts, CallGoes DEF m
<1>5. ~vol.dirty => ~m.dirty /\ vol'.disk = vol.disk /\ vol'.saved = vol.saved
  BY <1>1, <1>3, InvFacts, FreshFacts, BudgetType, FollowsSane, LeaveUntouched
     DEF m, Untouched
<1>6. job.cmd # "type"
  BY <1>2 DEF Inv, Reading
<1> QED BY <1>2, <1>3, <1>4, <1>5, <1>6, IdleJob
        DEF Inv, Goes, Waiting, Reading, Kept

-----------------------------------------------------------------------------
(* Theorems.                                                               *)

\* A step that is no call is one of the prompt.
Prompts == \/ \E p \in Files : Type(p) \/ Delete(p)
           \/ \E p \in Files, on \in BOOLEAN : Attrib(p, on)
           \/ \E p, q \in Files : Copy(p, q)
           \/ \E d \in Directories : Md(d) \/ Dir(d)
           \/ \E d, e \in Directories : XCopy(d, e)
           \/ Exit \/ Exited

LEMMA PathTypes ==
    ASSUME NEW p \in Files \cup Directories
    PROVE  p \in Paths /\ p # <<>>
<1>1. p \in Seq(Names) /\ p # <<>>
  BY ShellAssumption
<1>2. Names \subseteq AnyName
  BY DEF AnyName
<1> QED BY <1>1, <1>2, SeqMonotonic DEF Paths

\* A command that starts has the operands it needs.
LEMMA TypedJob ==
    ASSUME NEW j, Prompt(j), IsJob(j), Named(j), Inv(vol, job),
           j.cmd = "type" => j.at = "source", j.cmd = "dir" => j.at = "directory"
    PROVE  Inv(vol', job') /\ Kept(vol, job, vol')
<1>1. job = Idle /\ job' = j /\ vol' = vol
  BY DEF Prompt
<1>2. ~vol.dirty \/ vol.refused
  BY <1>1, IdleJob DEF Inv, Waiting
<1> QED BY <1>1, <1>2, InvFacts, StaysKept DEF Inv, Waiting, Reading

LEMMA PromptKeeps ==
    ASSUME Inv(vol, job), Prompts
    PROVE  Inv(vol', job') /\ Kept(vol, job, vol')
<1> USE EmptySeq DEF Paths
<1>1. ASSUME NEW p \in Files, Type(p) PROVE Inv(vol', job') /\ Kept(vol, job, vol')
  <2> DEFINE j == [Idle EXCEPT !.cmd = "type", !.at = "source", !.src = p]
  <2>1. p \in Paths
    BY PathTypes
  <2>2. IsJob(j) /\ Named(j) /\ j.cmd = "type" /\ j.at = "source"
    BY <2>1 DEF IsJob, Named, Idle, Ats, Commands
  <2> HIDE DEF j
  <2>3. Prompt(j)
    BY <1>1 DEF Type, j
  <2> QED BY <2>2, <2>3, TypedJob
<1>2. ASSUME NEW p \in Files, Delete(p) PROVE Inv(vol', job') /\ Kept(vol, job, vol')
  <2> DEFINE j == [Idle EXCEPT !.cmd = "del", !.at = "source", !.src = p]
  <2>1. p \in Paths
    BY PathTypes
  <2>2. IsJob(j) /\ Named(j) /\ j.cmd = "del"
    BY <2>1 DEF IsJob, Named, Idle, Ats, Commands
  <2> HIDE DEF j
  <2>3. Prompt(j)
    BY <1>2 DEF Delete, j
  <2> QED BY <2>2, <2>3, TypedJob
<1>3. ASSUME NEW p \in Files, NEW on \in BOOLEAN, Attrib(p, on)
      PROVE  Inv(vol', job') /\ Kept(vol, job, vol')
  <2> DEFINE cmd == IF on THEN "attrib+r" ELSE "attrib-r"
             j == [Idle EXCEPT !.cmd = cmd, !.at = "source", !.src = p]
  <2>1. p \in Paths /\ cmd \in {"attrib+r", "attrib-r"}
    BY PathTypes
  <2>2. Prompt(j)
    BY <1>3 DEF Attrib
  <2> HIDE DEF cmd
  <2>3. IsJob(j) /\ Named(j) /\ j.cmd = cmd
    BY <2>1 DEF IsJob, Named, Idle, Ats, Commands
  <2> HIDE DEF j
  <2> QED BY <2>1, <2>2, <2>3, TypedJob
<1>4. ASSUME NEW p \in Files, NEW q \in Files, Copy(p, q)
      PROVE  Inv(vol', job') /\ Kept(vol, job, vol')
  <2> DEFINE j == [Idle EXCEPT !.cmd = "copy", !.at = "source", !.src = p, !.dst = q]
  <2>1. p \in Paths /\ q \in Paths /\ q # <<>>
    BY PathTypes
  <2>2. IsJob(j) /\ Named(j) /\ j.cmd = "copy"
    BY <2>1 DEF IsJob, Named, Idle, Ats, Commands
  <2> HIDE DEF j
  <2>3. Prompt(j)
    BY <1>4 DEF Copy, j
  <2> QED BY <2>2, <2>3, TypedJob
<1>5. ASSUME NEW d \in Directories, Md(d) PROVE Inv(vol', job') /\ Kept(vol, job, vol')
  <2> DEFINE j == [Idle EXCEPT !.cmd = "md", !.at = "try", !.to = d]
  <2>1. d \in Paths /\ d # <<>>
    BY PathTypes
  <2>2. IsJob(j) /\ Named(j) /\ j.cmd = "md"
    BY <2>1 DEF IsJob, Named, Idle, Ats, Commands
  <2> HIDE DEF j
  <2>3. Prompt(j)
    BY <1>5 DEF Md, j
  <2> QED BY <2>2, <2>3, TypedJob
<1>6. ASSUME NEW d \in Directories, Dir(d) PROVE Inv(vol', job') /\ Kept(vol, job, vol')
  <2> DEFINE j == [Idle EXCEPT !.cmd = "dir", !.at = "directory", !.from = d]
  <2>1. d \in Paths
    BY PathTypes
  <2>2. IsJob(j) /\ Named(j) /\ j.cmd = "dir" /\ j.at = "directory"
    BY <2>1 DEF IsJob, Named, Idle, Ats, Commands
  <2> HIDE DEF j
  <2>3. Prompt(j)
    BY <1>6 DEF Dir, j
  <2> QED BY <2>2, <2>3, TypedJob
<1>7. ASSUME NEW d \in Directories, NEW e \in Directories, XCopy(d, e)
      PROVE  Inv(vol', job') /\ Kept(vol, job, vol')
  <2> DEFINE j == [Idle EXCEPT !.cmd = "xcopy", !.at = "try", !.from = d, !.to = e]
  <2>1. d \in Paths /\ e \in Paths /\ e # <<>>
    BY PathTypes
  <2>2. IsJob(j) /\ Named(j) /\ j.cmd = "xcopy"
    BY <2>1 DEF IsJob, Named, Idle, Ats, Commands
  <2> HIDE DEF j
  <2>3. Prompt(j)
    BY <1>7 DEF XCopy, j
  <2> QED BY <2>2, <2>3, TypedJob
<1>8. CASE Exit
  <2> DEFINE j == [Idle EXCEPT !.at = "exit"]
  <2>1. job = Idle /\ job' = j /\ vol' = vol
    BY <1>8 DEF Exit
  <2>2. IsJob(j) /\ Named(j) /\ j.cmd = "" /\ j.at = "exit"
    BY DEF IsJob, Named, Idle, Ats, Commands
  <2> HIDE DEF j
  <2>3. ~vol.dirty \/ vol.refused
    BY <2>1, IdleJob DEF Inv, Waiting
  <2> QED BY <2>1, <2>2, <2>3, InvFacts, StaysKept DEF Inv, Waiting, Reading
<1>9. CASE Exited
  <2>1. vol' = vol /\ job' = job
    BY <1>9 DEF Exited, vars
  <2> QED BY <2>1, InvFacts, StaysKept
<1> QED BY <1>1, <1>2, <1>3, <1>4, <1>5, <1>6, <1>7, <1>8, <1>9 DEF Prompts

LEMMA CallsKeep ==
    ASSUME Inv(vol, job), Calls
    PROVE  Inv(vol', job') /\ Kept(vol, job, vol')
BY OpenSourceKeeps, OpenTargetKeeps, ReadKeeps, WriteTargetKeeps, ReadAllKeeps,
   CloseSourceKeeps, CloseTargetKeeps, SetInformationKeeps, DoneKeeps, TryDirectoryKeeps,
   MakeDirectoryKeeps, CloseDirectoryKeeps, OpenDirectoryKeeps, NextEntryKeeps,
   CloseSourceDirectoryKeeps
   DEF Calls

LEMMA StepKeeps ==
    ASSUME Inv(vol, job), [Next]_vars
    PROVE  Inv(vol', job') /\ Kept(vol, job, vol')
<1>1. CASE Calls
  BY <1>1, CallsKeep
<1>2. CASE Prompts
  BY <1>2, PromptKeeps
<1>3. CASE UNCHANGED vars
  <2>1. vol' = vol /\ job' = job
    BY <1>3 DEF vars
  <2> QED BY <2>1, InvFacts, StaysKept
<1> QED BY <1>1, <1>2, <1>3 DEF Next, Prompts

LEMMA InvInit ==
    ASSUME Init
    PROVE  Inv(vol, job)
<1>1. vol \in AnyVolume /\ vol.saved = vol.fat /\ ~vol.dirty /\ ~vol.refused
  BY VolumesAssumption DEF Init
<1>2. job = Idle
  BY DEF Init
<1> QED BY <1>1, <1>2, IdleJob DEF Inv, Sane, Waiting, Reading

Invariant == Inv(vol, job)

LEMMA InvariantHolds == Spec => []Invariant
<1>1. Init => Invariant
  BY InvInit DEF Invariant
<1>2. Invariant /\ [Next]_vars => Invariant'
  BY StepKeeps DEF Invariant
<1> QED BY <1>1, <1>2, PTL DEF Spec

\* Whatever the device refuses, the volume stays one: every field of every entry, chain
\* and open file is in range after every call (the routines of fatboot.c).
THEOREM VolumeStaysTyped == Spec => [](vol \in AnyVolume)
<1>1. Invariant => vol \in AnyVolume
  BY DEF Invariant, Inv, Sane
<1> QED BY <1>1, InvariantHolds, PTL DEF Spec

\* While no write was refused, no command returns to the prompt with a change of the table
\* that is not on the disk (the closes at the end of the commands of arcdos.c).
THEOREM SavedWhenPrompted == Spec => []SavedAtPrompt
<1>1. Invariant => SavedAtPrompt
  BY IdleJob DEF Invariant, Inv, Waiting, SavedAtPrompt
<1> QED BY <1>1, InvariantHolds, PTL DEF Spec

\* ... so the disk then has the very table that programs worked with.
THEOREM TableOnDisk == Spec => [](job = Idle /\ ~vol.refused => vol.saved = vol.fat)
<1>1. Invariant => (job = Idle /\ ~vol.refused => vol.saved = vol.fat)
  BY IdleJob DEF Invariant, Inv, Waiting, Sane
<1> QED BY <1>1, InvariantHolds, PTL DEF Spec

\* A device that refused one write is never changed again: not its directories and
\* files, not its table.
THEOREM RefusedForGood ==
    Spec => [][vol.refused => /\ vol'.refused /\ vol'.disk = vol.disk
                              /\ vol'.saved = vol.saved]_vars
<1>1. Invariant /\ [Next]_vars =>
         [vol.refused => vol'.refused /\ vol'.disk = vol.disk /\ vol'.saved = vol.saved]_vars
  BY StepKeeps DEF Invariant, Kept, Goes
<1> QED BY <1>1, InvariantHolds, PTL DEF Spec

\* type and dir write nothing, although they close what they open and a close saves a
\* table that is dirty.
THEOREM ReadersWriteNothing ==
    Spec => [][job.cmd \in {"type", "dir"} =>
                  vol'.disk = vol.disk /\ vol'.saved = vol.saved]_vars
<1>1. Invariant /\ [Next]_vars =>
         [job.cmd \in {"type", "dir"} =>
             vol'.disk = vol.disk /\ vol'.saved = vol.saved]_vars
  BY StepKeeps DEF Invariant, Kept
<1> QED BY <1>1, InvariantHolds, PTL DEF Spec

-----------------------------------------------------------------------------
(* Calls on a whole volume.                                                *)

LEMMA OpenFine ==
    ASSUME NEW m, NEW f \in FileIds, Rested(m), Ok(m),
           NEW path \in Seq(AnyName) \ {<<>>}, ~m.refused => GoodPath(path),
           NEW mode \in Modes,
           mode \in {"OpenDirectory", "CreateDirectory"} => GoodPath(path) /\ Len(path) = 1
    PROVE  OpenedFor(m, FatOpen(m, f, path, mode), f, mode)
<1> DEFINE r == Recognized(m)
           walk == Walk(r, path)
           name == Last(path)
           o == OpenAt(r, f, name, mode, walk)
           n == Answered(o, f)
<1>1. /\ Clean(r) /\ Later(m, r, f) /\ r.mcb = NoMcb /\ r.status = m.status
      /\ r.refused = m.refused
  BY RecognizedFine
<1>2. FatOpen(m, f, path, mode) = n
  BY DEF FatOpen
<1> HIDE DEF r
<1>3. r.mcb.owner # f
  <2>1. NoMcb.owner = ""
    BY DEF NoMcb
  <2>2. "" \notin FileIds
    BY ShellAssumption
  <2> QED BY <1>1, <2>1, <2>2
<1>4. Begins(r, f)
  BY <1>1, <1>3 DEF Begins, Ok
<1>5. r \in AnyVolume
  BY <1>1 DEF Clean, Sane
<1>6. path \in Seq(AnyName) /\ path # <<>>
  OBVIOUS
<1>7. walk \in Walks
  BY <1>5, <1>6, WalkType
<1>8. ~r.refused => walk.left \/ Finds(r, walk)
  <2>1. ~r.refused => Whole(r.disk, r.fat, r.full, {})
    BY <1>1 DEF Clean
  <2> QED BY <1>1, <1>5, <2>1, WalkFinds
<1>9. mode \in {"OpenDirectory", "CreateDirectory"} => InRoot(walk)
  BY <1>5, WalkInRoot
<1>10. name \in AnyName /\ (GoodPath(path) => Ordinary(name))
  <2>1. name = path[Len(path)]
    BY DEF Last
  <2>2. Len(path) \in 1 .. Len(path)
    BY <1>6, LenProperties, EmptySeq
  <2>3. GoodPath(path) => \A i \in 1 .. Len(path) : Ordinary(path[i])
    BY DEF GoodPath
  <2>4. path[Len(path)] \in AnyName
    BY <2>2, ElementOfSeq
  <2> HIDE DEF name
  <2> QED BY <2>1, <2>2, <2>3, <2>4
<1> HIDE DEF walk, name
<1>11. mode \in {"OpenDirectory", "CreateDirectory"} => Ordinary(name) /\ InRoot(walk)
  BY <1>9, <1>10
<1>12. ~r.refused => Ordinary(name) /\ (walk.left \/ Finds(r, walk))
  BY <1>1, <1>8, <1>10
<1>13. OpenedFor(r, o, f, mode)
  BY <1>4, <1>7, <1>10, <1>11, <1>12, OpenAtOpens
<1> HIDE DEF o
<1>14. OpenedFor(r, n, f, mode)
  BY <1>13, AnsweredOpens
<1> HIDE DEF n
<1> QED BY <1>1, <1>2, <1>14, OpenedLater

LEMMA FreshLike ==
    ASSUME Sane(vol), NEW n \in Budgets
    PROVE  Like(vol, Fresh(n)) /\ Ok(Fresh(n))
<1>1. n \in Nat /\ (vol.refused => n = 0)
  BY ShellAssumption DEF Budgets
<1>2. vol \in AnyVolume
  BY DEF Sane
<1>3. /\ Sane(Fresh(n)) /\ Fresh(n).writes = n /\ Ok(Fresh(n))
      /\ Fresh(n).dirty = vol.dirty /\ Fresh(n).refused = vol.refused
      /\ Fresh(n).disk = vol.disk /\ Fresh(n).saved = vol.saved
  BY <1>1, FreshFacts
<1>4. /\ Fresh(n).fat = vol.fat /\ Fresh(n).full = vol.full
      /\ Fresh(n).file = vol.file /\ Fresh(n).mcb = vol.mcb
  BY <1>2 DEF Fresh, AnyVolume
<1> QED BY <1>1, <1>3, <1>4 DEF Like, Sane

LEMMA AfterLike ==
    ASSUME NEW m \in AnyVolume
    PROVE  Like(m, After(m))
<1>1. /\ After(m) \in AnyVolume /\ After(m).disk = m.disk /\ After(m).saved = m.saved
      /\ After(m).fat = m.fat /\ After(m).dirty = m.dirty /\ After(m).refused = m.refused
  BY AfterUntouched
<1>2. /\ After(m).full = m.full /\ After(m).file = m.file /\ After(m).mcb = m.mcb
      /\ After(m).writes = 0
  BY DEF After, AnyVolume
<1> QED BY <1>1, <1>2 DEF Like

LEMMA LeaveSettled ==
    ASSUME NEW m, Settled(m)
    PROVE  Settled(Leave(m)) /\ Leave(m).refused = m.refused
<1> DEFINE n == After(m)
           o == Leave(m)
<1>1. m \in AnyVolume
  BY SettledType
<1>2. Like(m, n)
  BY <1>1, AfterLike
<1>3. PICK T : Fine(n, {}, T)
  BY <1>2, LikeSettled DEF Settled
<1>4. o = [n EXCEPT !.file = [f \in FileIds |-> NoFile]]
  BY DEF Leave
<1>5. n \in AnyVolume
  BY <1>2 DEF Like
<1>6. /\ o \in AnyVolume /\ o.disk = m.disk /\ o.saved = m.saved /\ o.fat = m.fat
      /\ o.dirty = m.dirty /\ o.refused = m.refused
  BY <1>1, LeaveUntouched
<1> HIDE DEF n
<1>7. o.full = n.full /\ o.writes = n.writes
  BY <1>4, <1>5 DEF AnyVolume
<1> HIDE DEF o
<1>8. Untouched(n, o)
  BY <1>2, <1>6, <1>7 DEF Untouched, Like
<1>9. Fine(o, {}, T)
  BY <1>3, <1>8, UntouchedFine
<1> QED BY <1>6, <1>9 DEF Settled, o

\* A call on another file leaves the directory open that it found open.
LEMMA CallDir ==
    ASSUME Sane(vol), NEW n \in Budgets, NEW m \in AnyVolume, NEW f, f # "dir",
           Later(Fresh(n), m, f), ~After(m).refused,
           ~vol.refused => DirOpen(vol, "dir")
    PROVE  DirOpen(After(m), "dir")
<1>1. Like(vol, Fresh(n)) /\ Like(m, After(m))
  BY FreshLike, AfterLike
<1>2. ~m.refused
  BY <1>1 DEF Like
<1>3. ~Fresh(n).refused
  BY <1>2 DEF Later
<1>4. DirOpen(vol, "dir")
  BY <1>1, <1>3 DEF Like
<1>5. DirOpen(Fresh(n), "dir")
  BY <1>1, <1>4, LikeFiles
<1>6. DirOpen(m, "dir")
  <2>1. "dir" \in FileIds /\ "dir" # ""
    BY Ids
  <2> HIDE DEF Fresh
  <2> QED BY <1>2, <1>5, <2>1, DirOpenKept
<1> QED BY <1>1, <1>6, LikeFiles

-----------------------------------------------------------------------------
(* Commands on a whole volume.                                             *)

\* The path of a directory of the root.
ShortPath(path) == GoodPath(path) /\ Len(path) = 1

\* The calls of each command.
Course(j) ==
    /\ j.at = "source" => j.cmd \notin {"", "md", "dir"}
    /\ j.at \in {"target", "write"} => j.cmd \in {"copy", "xcopy"}
    /\ j.at = "read" => j.cmd \in {"type", "copy", "xcopy"}
    /\ j.at = "set" => j.cmd \notin {"copy", "xcopy", "md"}
    /\ j.at \in {"try", "create"} => j.cmd \in {"md", "xcopy"}
    /\ j.at \in {"directory", "next", "leave"} => j.cmd \in {"dir", "xcopy"}
    /\ j.cmd \in {"md", "xcopy"} => ShortPath(j.to)
    /\ j.cmd \in {"dir", "xcopy"} => ShortPath(j.from)

\* What the paths name that are opened next.
Guided(v, j) ==
    /\ j.at = "source" => j.src # <<>> /\ (~v.refused => GoodPath(j.src))
    /\ j.at = "target" \/ (j.at = "source" /\ j.cmd \in {"copy", "xcopy"}) =>
          j.dst # <<>> /\ (~v.refused => GoodPath(j.dst))

\* The target of a copy, the operand of del and attrib, and the directory of xcopy and
\* dir.
Copying(v, j) ==
    j.at \in {"read", "write"} /\ j.cmd \in {"copy", "xcopy"} =>
        Fine(v, {}, v.file["dst"].where) /\ (~v.refused => Writable(v, "dst"))

Changing(v, j) ==
    j.at = "set" => ~v.file["src"].dirent.dir /\ (~v.refused => Held(v, "src"))

Listing(v, j) ==
    /\ j.cmd \in {"dir", "xcopy"} /\ j.at \notin {"try", "create", "created", "directory"}
    /\ ~v.refused
    => DirOpen(v, "dir")

\* Between two calls: the volume is settled, and the handles of the command lead to what
\* the calls that are left rely on.
Safe(v, j) ==
    Settled(v) /\ Course(j) /\ Guided(v, j) /\ Copying(v, j) /\ Changing(v, j) /\ Listing(v, j)

\* The command goes on with the same operands.
SameOperands(j, k) ==
    /\ k.cmd = j.cmd /\ k.src = j.src /\ k.dst = j.dst /\ k.from = j.from /\ k.to = j.to

LEMMA SafeFacts ==
    ASSUME Inv(vol, job), Safe(vol, job)
    PROVE  /\ Settled(vol) /\ Sane(vol) /\ Course(job) /\ Guided(vol, job)
           /\ Copying(vol, job) /\ Changing(vol, job) /\ Listing(vol, job)
           /\ job.src \in Paths /\ job.dst \in Paths /\ job.from \in Paths /\ job.to \in Paths
BY InvFacts DEF Safe

\* A call that starts when nothing waits to be saved.
LEMMA FreshRested ==
    ASSUME Settled(vol), Sane(vol), vol.refused \/ ~vol.dirty, NEW n \in Budgets
    PROVE  /\ Rested(Fresh(n)) /\ Ok(Fresh(n)) /\ Fresh(n).refused = vol.refused
           /\ Fresh(n) \in AnyVolume
<1>1. Like(vol, Fresh(n)) /\ Ok(Fresh(n))
  BY FreshLike
<1>2. Rested(vol)
  BY DEF Rested
<1> QED BY <1>1, <1>2, LikeSettled DEF Like

\* The volume after a call.
LEMMA AfterFacts ==
    ASSUME NEW m, Settled(m), NEW w, w = After(m)
    PROVE  /\ Like(m, w) /\ Settled(w) /\ w.refused = m.refused /\ w.file = m.file
           /\ \A T : Fine(m, {}, T) => Fine(w, {}, T)
           /\ \A f : /\ Held(m, f) => Held(w, f)
                     /\ Writable(m, f) => Writable(w, f)
                     /\ DirOpen(m, f) => DirOpen(w, f)
<1>1. Like(m, w)
  BY SettledType, AfterLike
<1>2. Settled(w)
  BY <1>1, LikeSettled
<1>3. \A T : Fine(m, {}, T) => Fine(w, {}, T)
  BY <1>1, LikeFine
<1>4. \A f : /\ Held(m, f) => Held(w, f)
             /\ Writable(m, f) => Writable(w, f)
             /\ DirOpen(m, f) => DirOpen(w, f)
  BY <1>1, LikeFiles
<1> QED BY <1>1, <1>2, <1>3, <1>4 DEF Like

LEMMA OpenSourceSafe ==
    ASSUME Inv(vol, job), Safe(vol, job), OpenSource
    PROVE  Safe(vol', job')
<1> DEFINE m == FatOpen(Fresh(0), "src", job.src, "OpenReadOnly")
           good == [job EXCEPT !.at = Next1(job.cmd),
                               !.left = FatGetFileInformation(m, "src"),
                               !.was = ContentOf(m, m.file["src"].dirent)]
           bad == [job EXCEPT !.at = "done", !.failed = TRUE]
<1>1. /\ vol' = After(m) /\ job.at = "source"
      /\ (Ok(m) /\ job' = good) \/ job' = bad
  BY DEF OpenSource
<1>2. OpenedFor(Fresh(0), m, "src", "OpenReadOnly")
  <2>1. Rested(Fresh(0)) /\ Ok(Fresh(0)) /\ Fresh(0).refused = vol.refused
    <3>1. vol.refused \/ ~vol.dirty
      BY <1>1 DEF Inv, Waiting
    <3> QED BY <3>1, SafeFacts, NoBudget, FreshRested
  <2>2. job.src \in Seq(AnyName) \ {<<>>} /\ (~vol.refused => GoodPath(job.src))
    BY <1>1, SafeFacts DEF Guided, Paths
  <2>3. "OpenReadOnly" \in Modes /\ "OpenReadOnly" \notin {"OpenDirectory", "CreateDirectory"}
    BY DEF Modes
  <2> HIDE DEF Fresh
  <2> QED BY <2>1, <2>2, <2>3, Ids, OpenFine
<1>3. Settled(m) /\ Later(Fresh(0), m, "src")
      /\ (Ok(m) => ~m.file["src"].dirent.dir /\ (~m.refused => Held(m, "src")))
  BY <1>2 DEF OpenedFor
<1>4. Next1(job.cmd) \in {"target", "read", "set"}
      /\ (Next1(job.cmd) = "target" <=> job.cmd \in {"copy", "xcopy"})
      /\ (Next1(job.cmd) = "read" <=> job.cmd = "type")
      /\ (Next1(job.cmd) = "set" <=> job.cmd \notin {"copy", "xcopy", "type"})
  BY DEF Next1
<1>5. SameOperands(job, good) /\ good.at = Next1(job.cmd)
      /\ SameOperands(job, bad) /\ bad.at = "done"
  <2> HIDE DEF m
  <2> QED BY InvFacts DEF IsJob, SameOperands
<1> HIDE DEF m, good, bad
<1>6. /\ SameOperands(job, job') /\ job'.at \in {"target", "read", "set", "done"}
      /\ job'.at # "done" => Ok(m)
      /\ job'.at = "target" => job.cmd \in {"copy", "xcopy"}
      /\ job'.at = "read" => job.cmd = "type"
      /\ job'.at = "set" => job.cmd \notin {"copy", "xcopy"}
  BY <1>1, <1>4, <1>5
<1>7. /\ Settled(vol') /\ vol'.refused = m.refused /\ vol'.file = m.file
      /\ Held(m, "src") => Held(vol', "src")
  BY <1>1, <1>3, AfterFacts
<1>8. vol.refused => vol'.refused
  BY <1>3, <1>7, SafeFacts, NoBudget, FreshLike DEF Later, Like
<1>9. Course(job') /\ Guided(vol', job') /\ Copying(vol', job')
  <2>1. Course(job')
    <3>1. job.cmd \notin {"", "md", "dir"} /\ Course(job)
      BY <1>1, SafeFacts DEF Course
    <3>2. job'.at = "set" => job'.cmd \notin {"copy", "xcopy", "md"}
      BY <1>6, <3>1 DEF SameOperands
    <3> QED BY <1>6, <3>1, <3>2 DEF Course, SameOperands
  <2>2. Guided(vol', job')
    BY <1>1, <1>6, <1>8, SafeFacts DEF Guided, SameOperands
  <2>3. Copying(vol', job')
    BY <1>6 DEF Copying, SameOperands
  <2> QED BY <2>1, <2>2, <2>3
<1>10. Changing(vol', job')
  BY <1>3, <1>6, <1>7 DEF Changing
<1>11. Listing(vol', job')
  <2> SUFFICES ASSUME job.cmd \in {"dir", "xcopy"}, ~vol'.refused PROVE DirOpen(vol', "dir")
    BY <1>6 DEF Listing, SameOperands
  <2>1. ~vol.refused => DirOpen(vol, "dir")
    BY <1>1, SafeFacts DEF Listing
  <2>2. m \in AnyVolume
    BY <1>3, SettledType
  <2>3. DirOpen(After(m), "dir")
    BY <1>1, <1>3, <2>1, <2>2, SafeFacts, NoBudget, CallDir
  <2> QED BY <1>1, <2>3
<1> QED BY <1>7, <1>9, <1>10, <1>11 DEF Safe

\* What a call on another file leaves of the command's directory.
StillListing(v, j, w) ==
    (~v.refused => DirOpen(v, "dir")) => (~w.refused => DirOpen(w, "dir"))

LEMMA CallSafe ==
    ASSUME Inv(vol, job), Safe(vol, job), NEW n \in Budgets, NEW f, f # "dir",
           NEW m, Settled(m), Later(Fresh(n), m, f)
    PROVE  /\ Settled(After(m)) /\ (vol.refused => After(m).refused)
           /\ StillListing(vol, job, After(m))
<1>1. Like(m, After(m)) /\ Settled(After(m)) /\ m \in AnyVolume
  BY AfterFacts, SettledType
<1>2. Like(vol, Fresh(n))
  BY SafeFacts, FreshLike
<1>3. vol.refused => After(m).refused
  BY <1>1, <1>2 DEF Later, Like
<1>4. StillListing(vol, job, After(m))
  BY <1>1, SafeFacts, CallDir DEF StillListing
<1> QED BY <1>1, <1>3, <1>4

LEMMA ListingKept ==
    ASSUME Safe(vol, job), NEW w, StillListing(vol, job, w), NEW k, k.cmd = job.cmd,
           job.at \notin {"try", "create", "created", "directory"}
    PROVE  Listing(w, k)
BY DEF Safe, Listing, StillListing

LEMMA OpenTargetSafe ==
    ASSUME Inv(vol, job), Safe(vol, job), OpenTarget
    PROVE  Safe(vol', job')
<1> DEFINE good == [job EXCEPT !.at = "read"]
           bad == [job EXCEPT !.at = "closeSource", !.failed = TRUE]
<1>1. PICK n \in Budgets :
         LET m == FatOpen(Fresh(n), "dst", job.dst, "SupersedeWriteOnly")
         IN  /\ vol' = After(m) /\ job.at = "target"
             /\ (Ok(m) /\ job' = good) \/ job' = bad
  BY DEF OpenTarget
<1> DEFINE m == FatOpen(Fresh(n), "dst", job.dst, "SupersedeWriteOnly")
<1>2. OpenedFor(Fresh(n), m, "dst", "SupersedeWriteOnly")
  <2>1. Rested(Fresh(n)) /\ Ok(Fresh(n)) /\ Fresh(n).refused = vol.refused
    <3>1. vol.refused \/ ~vol.dirty
      BY <1>1 DEF Inv, Waiting
    <3> QED BY <3>1, SafeFacts, FreshRested
  <2>2. job.dst \in Seq(AnyName) \ {<<>>} /\ (~vol.refused => GoodPath(job.dst))
    BY <1>1, SafeFacts DEF Guided, Paths
  <2>3. /\ "SupersedeWriteOnly" \in Modes
        /\ "SupersedeWriteOnly" \notin {"OpenDirectory", "CreateDirectory"}
    BY DEF Modes
  <2> HIDE DEF Fresh
  <2> QED BY <2>1, <2>2, <2>3, Ids, OpenFine
<1>3. /\ Settled(m) /\ Later(Fresh(n), m, "dst")
      /\ Ok(m) /\ ~m.refused => Fine(m, {}, m.file["dst"].where) /\ Writable(m, "dst")
  BY <1>2 DEF OpenedFor
<1>4. /\ SameOperands(job, good) /\ good.at = "read"
      /\ SameOperands(job, bad) /\ bad.at = "closeSource"
  <2> HIDE DEF m
  <2> QED BY InvFacts DEF IsJob, SameOperands
<1>5. vol' = After(m) /\ job.at = "target" /\ ((Ok(m) /\ job' = good) \/ job' = bad)
  BY <1>1
<1> HIDE DEF m, good, bad
<1>6. /\ SameOperands(job, job') /\ job'.at \in {"read", "closeSource"}
      /\ job'.at = "read" => Ok(m)
  BY <1>4, <1>5
<1>7. Settled(vol') /\ (vol.refused => vol'.refused) /\ StillListing(vol, job, vol')
  BY <1>3, <1>5, CallSafe
<1>8. Course(job') /\ Guided(vol', job')
  BY <1>5, <1>6, SafeFacts DEF Course, Guided, SameOperands
<1>9. Copying(vol', job')
  <2> SUFFICES ASSUME job'.at = "read"
               PROVE  Fine(vol', {}, vol'.file["dst"].where)
                      /\ (~vol'.refused => Writable(vol', "dst"))
    BY <1>6 DEF Copying
  <2>1. /\ vol'.refused = m.refused /\ vol'.file = m.file
        /\ \A T : Fine(m, {}, T) => Fine(vol', {}, T)
        /\ Writable(m, "dst") => Writable(vol', "dst")
    BY <1>3, <1>5, AfterFacts
  <2>2. CASE m.refused
    <3>1. PICK T : Fine(m, {}, T)
      BY <1>3 DEF Settled
    <3>2. Fine(m, {}, m.file["dst"].where)
      BY <2>2, <3>1 DEF Fine
    <3> QED BY <2>1, <2>2, <3>2
  <2>3. CASE ~m.refused
    BY <1>3, <1>6, <2>1, <2>3
  <2> QED BY <2>2, <2>3
<1>10. Changing(vol', job')
  BY <1>6 DEF Changing
<1>11. Listing(vol', job')
  BY <1>5, <1>6, <1>7, ListingKept DEF SameOperands
<1> QED BY <1>7, <1>8, <1>9, <1>10, <1>11 DEF Safe

\* A read of the source leaves the target of a copy as it is.
LEMMA ReadSafe ==
    ASSUME Inv(vol, job), Safe(vol, job), Read
    PROVE  Safe(vol', job')
<1> DEFINE m == FatRead(Fresh(0), "src", ReadAmount)
           bad == [job EXCEPT !.at = "closeSource", !.failed = TRUE]
           shown == [job EXCEPT !.moved = @ \o m.got, !.left = @ - ReadAmount]
           got == [job EXCEPT !.moved = @ \o m.got, !.buffer = m.got, !.at = "write"]
<1>1. /\ vol' = After(m) /\ job.at = "read"
      /\ job' = bad \/ job' = shown \/ (job' = got /\ job.cmd # "type")
  BY DEF Read
<1>2. ReadAmount \in Nat
  BY InvFacts, ShellAssumption DEF ReadAmount
<1>3. Like(vol, Fresh(0)) /\ Fresh(0) \in AnyVolume
  BY SafeFacts, NoBudget, FreshLike DEF Like
<1>4. Untouched(Fresh(0), m) /\ Frame(Fresh(0), m, "src")
  <2> HIDE DEF Fresh
  <2> QED BY <1>2, <1>3, Ids, ReadUntouched, ReadFrame
<1>5. /\ SameOperands(job, bad) /\ bad.at = "closeSource"
      /\ SameOperands(job, shown) /\ shown.at = job.at
      /\ SameOperands(job, got) /\ got.at = "write"
  <2> HIDE DEF m
  <2> QED BY InvFacts DEF IsJob, SameOperands
<1> HIDE DEF m, bad, shown, got
<1>6. /\ SameOperands(job, job') /\ job'.at \in {"closeSource", "read", "write"}
      /\ job'.at = "write" => job.cmd # "type"
  BY <1>1, <1>5
<1>7. \A T : Fine(vol, {}, T) => Fine(m, {}, T) /\ Later(Fresh(0), m, "src")
  <2> SUFFICES ASSUME NEW T, Fine(vol, {}, T)
               PROVE  Fine(m, {}, T) /\ Later(Fresh(0), m, "src")
    OBVIOUS
  <2>1. Fine(Fresh(0), {}, T)
    BY <1>3, LikeFine
  <2> HIDE DEF Fresh
  <2> QED BY <1>4, <2>1, OnlyFiles
<1>8. Settled(m) /\ Later(Fresh(0), m, "src")
  BY <1>7, SafeFacts DEF Settled
<1>9. Settled(vol') /\ (vol.refused => vol'.refused) /\ StillListing(vol, job, vol')
  BY <1>1, <1>8, NoBudget, CallSafe
<1>10. Course(job') /\ Guided(vol', job')
  BY <1>1, <1>6, SafeFacts DEF Course, Guided, SameOperands
<1>11. Copying(vol', job')
  <2> SUFFICES ASSUME job'.at \in {"read", "write"}, job.cmd \in {"copy", "xcopy"}
               PROVE  Fine(vol', {}, vol'.file["dst"].where)
                      /\ (~vol'.refused => Writable(vol', "dst"))
    BY <1>6 DEF Copying, SameOperands
  <2>1. /\ Fine(vol, {}, vol.file["dst"].where) /\ (~vol.refused => Writable(vol, "dst"))
    BY <1>1, SafeFacts DEF Copying
  <2>2. /\ vol'.refused = m.refused /\ vol'.file = m.file
        /\ \A T : Fine(m, {}, T) => Fine(vol', {}, T)
        /\ Writable(m, "dst") => Writable(vol', "dst")
    BY <1>1, <1>8, AfterFacts
  <2>3. m.file["dst"] = Fresh(0).file["dst"] /\ Fresh(0).file = vol.file
        /\ m.refused = vol.refused
    BY <1>3, <1>4, Ids DEF Frame, Like, Untouched
  <2>4. ~vol.refused => Writable(m, "dst")
    <3>1. ~vol.refused => Writable(Fresh(0), "dst")
      BY <1>3, <2>1, LikeFiles
    <3>2. "dst" \in FileIds /\ "dst" # "src" /\ "dst" # ""
      BY Ids
    <3> HIDE DEF Fresh
    <3> QED BY <1>4, <3>1, <3>2, WritableKept
  <2>5. Fine(m, {}, m.file["dst"].where)
    BY <1>7, <2>1, <2>3
  <2> QED BY <2>2, <2>3, <2>4, <2>5
<1>12. Changing(vol', job')
  BY <1>6 DEF Changing
<1>13. Listing(vol', job')
  BY <1>1, <1>6, <1>9, ListingKept DEF SameOperands
<1> QED BY <1>9, <1>10, <1>11, <1>12, <1>13 DEF Safe

LEMMA WriteTargetSafe ==
    ASSUME Inv(vol, job), Safe(vol, job), WriteTarget
    PROVE  Safe(vol', job')
<1> DEFINE good == [job EXCEPT !.at = "read", !.left = @ - ReadAmount, !.buffer = <<>>]
           bad == [job EXCEPT !.at = "closeSource", !.failed = TRUE]
<1>1. PICK n \in Budgets :
         LET m == FatWrite(Fresh(n), "dst", job.buffer)
         IN  /\ vol' = After(m) /\ job.at = "write"
             /\ (Ok(m) /\ job' = good) \/ job' = bad
  BY DEF WriteTarget
<1> DEFINE m == FatWrite(Fresh(n), "dst", job.buffer)
           T == vol.file["dst"].where
<1>2. Fine(vol, {}, T) /\ (~vol.refused => Writable(vol, "dst"))
  BY <1>1, SafeFacts DEF Copying, Course
<1>3. /\ Like(vol, Fresh(n)) /\ Ok(Fresh(n)) /\ Fresh(n).file = vol.file
      /\ Fresh(n).refused = vol.refused
  BY SafeFacts, FreshLike DEF Like
<1>4. Writing(Fresh(n), "dst", T)
  <2>1. Fine(Fresh(n), {}, T)
    BY <1>2, <1>3, LikeFine
  <2>2. ~vol.refused => Writable(Fresh(n), "dst")
    BY <1>2, <1>3, LikeFiles
  <2> QED BY <1>3, <2>1, <2>2 DEF Writing
<1>5. Writes(Fresh(n), m, "dst", T)
  <2>1. job.buffer \in Seq(AnyUnit)
    BY InvFacts
  <2> HIDE DEF Fresh, T
  <2> QED BY <1>3, <1>4, <2>1, Ids, WriteWrites
<1>6. /\ Settled(m) /\ Later(Fresh(n), m, "dst")
      /\ Fine(m, {}, m.file["dst"].where) /\ (Ok(m) /\ ~m.refused => Writable(m, "dst"))
  BY <1>5 DEF Writes, Writing, Settled
<1>7. /\ SameOperands(job, good) /\ good.at = "read"
      /\ SameOperands(job, bad) /\ bad.at = "closeSource"
  <2> HIDE DEF m
  <2> QED BY InvFacts DEF IsJob, SameOperands
<1>8. vol' = After(m) /\ job.at = "write" /\ ((Ok(m) /\ job' = good) \/ job' = bad)
  BY <1>1
<1> HIDE DEF m, good, bad
<1>9. /\ SameOperands(job, job') /\ job'.at \in {"read", "closeSource"}
      /\ job'.at = "read" => Ok(m)
  BY <1>7, <1>8
<1>10. Settled(vol') /\ (vol.refused => vol'.refused) /\ StillListing(vol, job, vol')
  BY <1>6, <1>8, CallSafe
<1>11. Course(job') /\ Guided(vol', job')
  BY <1>8, <1>9, SafeFacts DEF Course, Guided, SameOperands
<1>12. Copying(vol', job')
  <2>1. /\ vol'.refused = m.refused /\ vol'.file = m.file
        /\ \A t : Fine(m, {}, t) => Fine(vol', {}, t)
        /\ Writable(m, "dst") => Writable(vol', "dst")
    BY <1>6, <1>8, AfterFacts
  <2> QED BY <1>6, <1>9, <2>1 DEF Copying
<1>13. Changing(vol', job')
  BY <1>9 DEF Changing
<1>14. Listing(vol', job')
  BY <1>8, <1>9, <1>10, ListingKept DEF SameOperands
<1> QED BY <1>10, <1>11, <1>12, <1>13, <1>14 DEF Safe

LEMMA ReadAllSafe ==
    ASSUME Inv(vol, job), Safe(vol, job), ReadAll
    PROVE  Safe(vol', job')
<1>1. vol' = vol /\ job' = [job EXCEPT !.at = "closeSource"] /\ job.at = "read"
  BY DEF ReadAll
<1>2. SameOperands(job, job') /\ job'.at = "closeSource"
  BY <1>1, InvFacts DEF IsJob, SameOperands
<1> QED BY <1>1, <1>2 DEF Safe, Course, Guided, Copying, Changing, Listing, SameOperands

\* The rest of a command whose files are closed.
LEMMA ClosedSafe ==
    ASSUME Inv(vol, job), Safe(vol, job), NEW n \in Budgets, NEW f \in FileIds, f # "dir",
           NEW w, w = After(FatClose(Fresh(n), f)), NEW k, SameOperands(job, k),
           k.at \in {"closeTarget", "done"}, job.at \in {"closeSource", "closeTarget"}
    PROVE  Safe(w, k)
<1> DEFINE m == FatClose(Fresh(n), f)
<1>1. Like(vol, Fresh(n))
  BY SafeFacts, FreshLike
<1>2. PICK T : Fine(Fresh(n), {}, T)
  BY <1>1, SafeFacts, LikeSettled DEF Settled
<1>3. Settled(m) /\ Later(Fresh(n), m, f)
  <2> HIDE DEF Fresh
  <2> QED BY <1>2, CloseFine DEF Settled
<1> HIDE DEF m
<1>4. Settled(w) /\ StillListing(vol, job, w)
  BY <1>3, CallSafe DEF m
<1>5. Course(k) /\ Guided(w, k) /\ Copying(w, k) /\ Changing(w, k)
  BY SafeFacts DEF Course, Guided, Copying, Changing, SameOperands
<1>6. Listing(w, k)
  BY <1>4, ListingKept DEF SameOperands
<1> QED BY <1>4, <1>5, <1>6 DEF Safe

LEMMA CloseSourceSafe ==
    ASSUME Inv(vol, job), Safe(vol, job), CloseSource
    PROVE  Safe(vol', job')
<1>1. PICK n \in Budgets : vol' = After(FatClose(Fresh(n), "src"))
  BY DEF CloseSource
<1>2. /\ job.at = "closeSource"
      /\ job' \in {[job EXCEPT !.at = "closeTarget"], [job EXCEPT !.at = "done"]}
  BY DEF CloseSource
<1>3. SameOperands(job, job') /\ job'.at \in {"closeTarget", "done"}
  BY <1>2, InvFacts DEF IsJob, SameOperands
<1> QED BY <1>1, <1>2, <1>3, Ids, ClosedSafe

LEMMA CloseTargetSafe ==
    ASSUME Inv(vol, job), Safe(vol, job), CloseTarget
    PROVE  Safe(vol', job')
<1>1. PICK n \in Budgets :
         LET m == FatClose(Fresh(n), "dst")
         IN  /\ vol' = After(m) /\ job.at = "closeTarget"
             /\ job' = [job EXCEPT !.at = "done", !.failed = @ \/ ~Ok(m)]
  BY DEF CloseTarget
<1> DEFINE m == FatClose(Fresh(n), "dst")
<1>2. job' = [job EXCEPT !.at = "done", !.failed = @ \/ ~Ok(m)]
  BY <1>1
<1> HIDE DEF m
<1>3. SameOperands(job, job') /\ job'.at = "done"
  BY <1>2, InvFacts DEF IsJob, SameOperands
<1> QED BY <1>1, <1>3, Ids, ClosedSafe

LEMMA SetInformationSafe ==
    ASSUME Inv(vol, job), Safe(vol, job), SetFileInformation
    PROVE  Safe(vol', job')
<1> DEFINE good == [job EXCEPT !.at = "closeSource"]
           bad == [job EXCEPT !.at = "done", !.failed = TRUE]
<1>1. PICK n \in Budgets : /\ vol' = After(SetInformation(Fresh(n))) /\ job.at = "set"
                           /\ job' \in {good, bad}
  BY DEF SetFileInformation
<1> DEFINE m == SetInformation(Fresh(n))
<1>2. /\ Rested(Fresh(n)) /\ Ok(Fresh(n)) /\ Fresh(n).refused = vol.refused
      /\ Like(vol, Fresh(n))
  <2>1. vol.refused \/ ~vol.dirty
    BY <1>1 DEF Inv, Waiting
  <2> QED BY <2>1, SafeFacts, FreshRested, FreshLike
<1>3. /\ Fresh(n).file = vol.file
      /\ ~vol.file["src"].dirent.dir /\ (~vol.refused => Held(Fresh(n), "src"))
  BY <1>1, <1>2, SafeFacts, LikeFiles DEF Changing, Like
<1>4. Settled(m) /\ Later(Fresh(n), m, "src")
  <2>1. Fine(Fresh(n), {}, Fresh(n).file["src"].where)
    BY <1>2, RestedFine
  <2>2. ~Fresh(n).file["src"].dirent.dir /\ (~Fresh(n).refused => Held(Fresh(n), "src"))
    BY <1>2, <1>3
  <2>3. m = DeleteFile(Fresh(n), "src")
        \/ m = SetReadOnly(Fresh(n), "src", job.cmd = "attrib+r")
    BY DEF SetInformation
  <2>4. (job.cmd = "attrib+r") \in BOOLEAN
    OBVIOUS
  <2> HIDE DEF Fresh, m
  <2> QED BY <1>2, <2>1, <2>2, <2>3, <2>4, Ids, DeleteFine, ReadOnlyFine
<1> HIDE DEF m
<1>5. SameOperands(job, good) /\ good.at = "closeSource"
      /\ SameOperands(job, bad) /\ bad.at = "done"
  BY InvFacts DEF IsJob, SameOperands
<1> HIDE DEF good, bad
<1>6. SameOperands(job, job') /\ job'.at \in {"closeSource", "done"}
  BY <1>1, <1>5
<1>7. Settled(vol') /\ StillListing(vol, job, vol')
  BY <1>1, <1>4, CallSafe DEF m
<1>8. Course(job') /\ Guided(vol', job') /\ Copying(vol', job') /\ Changing(vol', job')
  BY <1>6, SafeFacts DEF Course, Guided, Copying, Changing, SameOperands
<1>9. Listing(vol', job')
  BY <1>1, <1>6, <1>7, ListingKept DEF SameOperands
<1> QED BY <1>7, <1>8, <1>9 DEF Safe

LEMMA IdleSafe ==
    ASSUME NEW v, Settled(v)
    PROVE  Safe(v, Idle)
BY DEF Safe, Course, Guided, Copying, Changing, Listing, Idle

LEMMA DoneSafe ==
    ASSUME Inv(vol, job), Safe(vol, job), Done
    PROVE  Safe(vol', job')
<1>1. \/ vol' = Leave(vol) /\ job' = Idle
      \/ /\ vol' = vol /\ job.cmd = "xcopy" /\ job.at = "done"
         /\ job' \in {Return(job), [Return(job) EXCEPT !.at = "leave"]}
  BY DEF Done
<1>2. CASE vol' = Leave(vol) /\ job' = Idle
  BY <1>2, SafeFacts, LeaveSettled, IdleSafe
<1>3. CASE /\ vol' = vol /\ job.cmd = "xcopy" /\ job.at = "done"
           /\ job' \in {Return(job), [Return(job) EXCEPT !.at = "leave"]}
  <2>1. /\ job'.cmd = "xcopy" /\ job'.at \in {"next", "leave"}
        /\ job'.from = job.from /\ job'.to = job.to
    BY <1>3, InvFacts DEF Return, IsJob
  <2>2. Course(job') /\ Guided(vol', job') /\ Copying(vol', job') /\ Changing(vol', job')
    BY <1>3, <2>1, SafeFacts DEF Course, Guided, Copying, Changing
  <2>3. Listing(vol', job') /\ Settled(vol')
    BY <1>3, <2>1, SafeFacts DEF Listing
  <2> QED BY <2>2, <2>3 DEF Safe
<1> QED BY <1>1, <1>2, <1>3

LEMMA NotWaiting ==
    ASSUME Inv(vol, job), Safe(vol, job), NEW n \in Budgets,
           job.at \in {"try", "create", "directory"}
    PROVE  /\ Rested(Fresh(n)) /\ Ok(Fresh(n)) /\ Fresh(n).refused = vol.refused
           /\ Fresh(n) \in AnyVolume
<1>1. vol.refused \/ ~vol.dirty
  BY DEF Inv, Waiting
<1> QED BY <1>1, SafeFacts, FreshRested

\* An open of a directory of the root.
LEMMA ShortOpens ==
    ASSUME Inv(vol, job), Safe(vol, job), NEW n \in Budgets,
           job.at \in {"try", "create", "directory"}, NEW f \in FileIds, NEW path,
           ShortPath(path), NEW mode \in Modes
    PROVE  OpenedFor(Fresh(n), FatOpen(Fresh(n), f, path, mode), f, mode)
<1>1. Rested(Fresh(n)) /\ Ok(Fresh(n))
  BY NotWaiting
<1>2. GoodPath(path) /\ Len(path) = 1
  BY DEF ShortPath
<1>3. path \in Seq(AnyName) \ {<<>>}
  <2>1. Len(path) = 1 /\ path \in Seq(AnyName)
    BY <1>2, Zenon DEF GoodPath
  <2>2. <<>> \in Seq(AnyName) /\ Len(<<>>) = 0
    BY EmptySeq, Zenon
  <2>3. path # <<>>
    BY <2>1, <2>2
  <2> QED BY <2>1, <2>3, Zenon
<1> HIDE DEF Fresh
<1> QED BY <1>1, <1>2, <1>3, OpenFine

\* The command goes on with another directory.
LEMMA BeforeListing ==
    ASSUME Inv(vol, job), Safe(vol, job), NEW w, Settled(w), NEW k, SameOperands(job, k),
           k.at \in {"create", "created", "directory"},
           k.at = "create" => job.cmd \in {"md", "xcopy"},
           k.at = "directory" => job.cmd = "xcopy"
    PROVE  Safe(w, k)
BY SafeFacts DEF Safe, Course, Guided, Copying, Changing, Listing, SameOperands

LEMMA TryDirectorySafe ==
    ASSUME Inv(vol, job), Safe(vol, job), TryDirectory
    PROVE  Safe(vol', job')
<1> DEFINE m == FatOpen(Fresh(0), "dst", job.to, "OpenDirectory")
           make == [job EXCEPT !.at = "create"]
           list == [job EXCEPT !.at = "directory"]
<1>1. /\ vol' = Leave(m) /\ job.at = "try"
      /\ \/ job' = make
         \/ job' = list /\ job.cmd = "xcopy"
         \/ job' = Idle
  BY DEF TryDirectory
<1>2. job.cmd \in {"md", "xcopy"} /\ ShortPath(job.to)
  BY <1>1, SafeFacts DEF Course
<1>3. OpenedFor(Fresh(0), m, "dst", "OpenDirectory")
  <2>1. "OpenDirectory" \in Modes
    BY DEF Modes
  <2> QED BY <1>1, <1>2, <2>1, NoBudget, Ids, ShortOpens
<1>4. Settled(vol')
  BY <1>1, <1>3, LeaveSettled DEF OpenedFor
<1>5. SameOperands(job, make) /\ make.at = "create"
      /\ SameOperands(job, list) /\ list.at = "directory"
  BY InvFacts DEF IsJob, SameOperands
<1> HIDE DEF m, make, list
<1> QED BY <1>1, <1>2, <1>4, <1>5, BeforeListing, IdleSafe

LEMMA MakeDirectorySafe ==
    ASSUME Inv(vol, job), Safe(vol, job), MakeDirectory
    PROVE  Safe(vol', job')
<1>1. PICK n \in Budgets :
         LET m == FatOpen(Fresh(n), "dst", job.to, "CreateDirectory")
         IN  /\ vol' = After(m) /\ job.at = "create"
             /\ job' = [job EXCEPT !.at = "created", !.failed = ~Ok(m)]
  BY DEF MakeDirectory
<1> DEFINE m == FatOpen(Fresh(n), "dst", job.to, "CreateDirectory")
<1>2. /\ vol' = After(m) /\ job.at = "create"
      /\ job' = [job EXCEPT !.at = "created", !.failed = ~Ok(m)]
  BY <1>1
<1>3. ShortPath(job.to)
  BY <1>2, SafeFacts DEF Course
<1>4. OpenedFor(Fresh(n), m, "dst", "CreateDirectory")
  <2>1. "CreateDirectory" \in Modes
    BY DEF Modes
  <2> QED BY <1>2, <1>3, <2>1, Ids, ShortOpens
<1> HIDE DEF m
<1>5. Settled(vol')
  BY <1>2, <1>4, AfterFacts DEF OpenedFor
<1>6. SameOperands(job, job') /\ job'.at = "created"
  BY <1>2, InvFacts DEF IsJob, SameOperands
<1> QED BY <1>5, <1>6, BeforeListing

\* A close of whatever file.
LEMMA CloseSettles ==
    ASSUME Safe(vol, job), Inv(vol, job), NEW n \in Budgets, NEW f \in FileIds
    PROVE  Settled(FatClose(Fresh(n), f))
<1>1. Like(vol, Fresh(n))
  BY SafeFacts, FreshLike
<1>2. PICK T : Fine(Fresh(n), {}, T)
  BY <1>1, SafeFacts, LikeSettled DEF Settled
<1> HIDE DEF Fresh
<1> QED BY <1>2, CloseFine DEF Settled

LEMMA CloseDirectorySafe ==
    ASSUME Inv(vol, job), Safe(vol, job), CloseDirectory
    PROVE  Safe(vol', job')
<1>1. PICK n \in Budgets : vol' = After(FatClose(Fresh(n), "dst"))
  BY DEF CloseDirectory
<1>2. \/ job' = [job EXCEPT !.at = "directory"] /\ job.cmd = "xcopy"
      \/ job' = Idle
  BY DEF CloseDirectory
<1>3. Settled(vol')
  BY <1>1, Ids, CloseSettles, AfterFacts
<1>4. CASE job' = [job EXCEPT !.at = "directory"] /\ job.cmd = "xcopy"
  <2>1. SameOperands(job, job') /\ job'.at = "directory"
    BY <1>4, InvFacts DEF IsJob, SameOperands
  <2> QED BY <1>3, <1>4, <2>1, BeforeListing
<1>5. CASE job' = Idle
  BY <1>3, <1>5, IdleSafe
<1> QED BY <1>2, <1>4, <1>5

LEMMA OpenDirectorySafe ==
    ASSUME Inv(vol, job), Safe(vol, job), OpenSourceDirectory
    PROVE  Safe(vol', job')
<1> DEFINE m == FatOpen(Fresh(0), "dir", job.from, "OpenDirectory")
           was == IF job.cmd = "dir" THEN ListingOf(m, m.file["dir"].dirent) ELSE <<>>
           good == [job EXCEPT !.at = "next", !.was = was]
<1>1. /\ vol' = After(m) /\ job.at = "directory"
      /\ \/ job' = good /\ Ok(m)
         \/ job' = Idle
  BY DEF OpenSourceDirectory
<1>2. job.cmd \in {"dir", "xcopy"} /\ ShortPath(job.from)
  BY <1>1, SafeFacts DEF Course
<1>3. OpenedFor(Fresh(0), m, "dir", "OpenDirectory")
  <2>1. "OpenDirectory" \in Modes
    BY DEF Modes
  <2> QED BY <1>1, <1>2, <2>1, NoBudget, Ids, ShortOpens
<1>4. Settled(m) /\ (Ok(m) /\ ~m.refused => DirOpen(m, "dir"))
  BY <1>3 DEF OpenedFor
<1> HIDE DEF m, was
<1>5. /\ Settled(vol') /\ vol'.refused = m.refused
      /\ DirOpen(m, "dir") => DirOpen(vol', "dir")
  BY <1>1, <1>4, AfterFacts
<1>6. SameOperands(job, good) /\ good.at = "next"
  BY InvFacts DEF IsJob, SameOperands
<1> HIDE DEF good
<1>7. CASE job' = good /\ Ok(m)
  <2>1. Course(job') /\ Guided(vol', job') /\ Copying(vol', job') /\ Changing(vol', job')
    BY <1>2, <1>6, <1>7, SafeFacts DEF Course, Guided, Copying, Changing, SameOperands
  <2>2. Listing(vol', job')
    BY <1>4, <1>5, <1>7 DEF Listing
  <2> QED BY <1>5, <2>1, <2>2 DEF Safe
<1>8. CASE job' = Idle
  BY <1>5, <1>8, IdleSafe
<1> QED BY <1>1, <1>7, <1>8

LEMMA CloseSourceDirectorySafe ==
    ASSUME Inv(vol, job), Safe(vol, job), CloseSourceDirectory
    PROVE  Safe(vol', job')
<1>1. PICK n \in Budgets : vol' = Leave(FatClose(Fresh(n), "dir"))
  BY DEF CloseSourceDirectory
<1>2. job' = Idle
  BY DEF CloseSourceDirectory
<1>3. Settled(vol')
  BY <1>1, Ids, CloseSettles, LeaveSettled
<1> QED BY <1>2, <1>3, IdleSafe

LEMMA Appended ==
    ASSUME NEW S, NEW s \in Seq(S), NEW e \in S
    PROVE  /\ Append(s, e) \in Seq(S) /\ Len(Append(s, e)) = Len(s) + 1
           /\ Append(s, e) # <<>> /\ Append(s, e)[Len(s) + 1] = e
           /\ \A i \in 1 .. Len(s) : Append(s, e)[i] = s[i]
OBVIOUS

\* A path to a file of a directory of the root.
LEMMA LongerPath ==
    ASSUME NEW path, ShortPath(path), NEW name, Ordinary(name)
    PROVE  GoodPath(Append(path, name)) /\ Append(path, name) # <<>>
<1>1. path \in Seq(AnyName) /\ Len(path) = 1
  BY DEF ShortPath, GoodPath
<1>2. Ordinary(path[1])
  <2>1. 1 \in 1 .. Len(path)
    BY <1>1
  <2> QED BY <2>1 DEF ShortPath, GoodPath
<1>3. name \in AnyName
  BY DEF Ordinary
<1> DEFINE longer == Append(path, name)
<1>4. longer \in Seq(AnyName) /\ Len(longer) = 2 /\ longer # <<>>
  <2>1. Len(longer) = Len(path) + 1
    BY <1>1, <1>3, Appended
  <2>2. longer \in Seq(AnyName) /\ longer # <<>>
    BY <1>1, <1>3, Appended
  <2> HIDE DEF longer
  <2> QED BY <1>1, <2>1, <2>2
<1>5. longer[1] = path[1] /\ longer[2] = name
  <2>1. longer[Len(path) + 1] = name
    BY <1>1, <1>3, Appended
  <2>2. \A i \in 1 .. Len(path) : longer[i] = path[i]
    BY <1>1, <1>3, Appended
  <2> HIDE DEF longer
  <2>3. longer[2] = name
    BY <1>1, <2>1
  <2>4. longer[1] = path[1]
    BY <1>1, <2>2
  <2> QED BY <2>3, <2>4
<1> HIDE DEF longer
<1>6. \A i \in 1 .. Len(longer) : Ordinary(longer[i])
  <2>1. \A i \in 1 .. Len(longer) : i = 1 \/ i = 2
    BY <1>4
  <2> QED BY <1>2, <1>5, <2>1
<1>7. GoodPath(longer)
  BY <1>4, <1>6 DEF GoodPath
<1> QED BY <1>4, <1>7 DEF longer

LEMMA NextEntrySafe ==
    ASSUME Inv(vol, job), Safe(vol, job), NextEntry
    PROVE  Safe(vol', job')
<1> DEFINE m == FatGetDirectoryEntry(Fresh(0), "dir")
           name == m.got[1].name
           over == [job EXCEPT !.at = "leave"]
           shown == [job EXCEPT !.moved = @ \o m.got]
           found == [job EXCEPT !.at = "source", !.src = Append(job.from, name),
                                !.dst = Append(job.to, name)]
<1>1. /\ vol' = After(m) /\ job.at = "next"
      /\ \/ job' \in {over, shown, job}
         \/ job' = found /\ job.cmd # "dir" /\ Ok(m) /\ ~m.got[1].dir
  BY DEF NextEntry
<1>2. /\ Like(vol, Fresh(0)) /\ Fresh(0).refused = vol.refused /\ Fresh(0) \in AnyVolume
  BY SafeFacts, NoBudget, FreshLike DEF Like
<1>3. PICK T : Fine(Fresh(0), {}, T)
  BY <1>2, SafeFacts, LikeSettled DEF Settled
<1>4. job.cmd \in {"dir", "xcopy"}
  BY <1>1, SafeFacts DEF Course
<1>5. /\ Settled(m) /\ m.refused = vol.refused /\ (Ok(m) => m.got # <<>>)
      /\ m.got \in Seq(AnyUnit)
  <2>1. Untouched(Fresh(0), m) /\ (Ok(m) => m.got # <<>>)
    <3> HIDE DEF Fresh
    <3> QED BY <1>2, Ids, EntryUntouchedBy
  <2>2. Fine(m, {}, T) /\ m.refused = Fresh(0).refused
    <3> HIDE DEF Fresh, m
    <3> QED BY <1>3, <2>1, UntouchedFine
  <2> QED BY <1>2, <2>1, <2>2, FieldTypes DEF Settled, Untouched
<1>6. ~vol.refused => /\ DirOpen(m, "dir")
                      /\ Ok(m) /\ ~m.got[1].dir => Ordinary(name)
  <2> SUFFICES ASSUME ~vol.refused
               PROVE  /\ DirOpen(m, "dir")
                      /\ Ok(m) /\ ~m.got[1].dir => Ordinary(name)
    OBVIOUS
  <2>1. DirOpen(vol, "dir")
    BY <1>1, <1>4, SafeFacts DEF Listing
  <2>2. DirOpen(Fresh(0), "dir")
    BY <1>2, <2>1, LikeFiles
  <2> HIDE DEF Fresh
  <2> QED BY <1>2, <1>3, <2>2, Ids, EntryListed
<1>7. Ok(m) => name \in AnyName
  <2>1. Ok(m) => 1 \in 1 .. Len(m.got)
    BY <1>5, LenProperties, EmptySeq
  <2>2. Ok(m) => m.got[1] \in AnyUnit
    BY <1>5, <2>1, ElementOfSeq
  <2> QED BY <2>2 DEF AnyUnit
<1> HIDE DEF m, name
<1>8. /\ Settled(vol') /\ vol'.refused = vol.refused
      /\ ~vol.refused => DirOpen(vol', "dir")
  BY <1>1, <1>5, <1>6, AfterFacts
<1>9. CASE job' \in {over, shown, job}
  <2>1. SameOperands(job, job') /\ job'.at \in {"next", "leave"}
    BY <1>1, <1>9, InvFacts DEF IsJob, SameOperands
  <2>2. Course(job') /\ Guided(vol', job') /\ Copying(vol', job') /\ Changing(vol', job')
    BY <1>4, <2>1, SafeFacts DEF Course, Guided, Copying, Changing, SameOperands
  <2>3. Listing(vol', job')
    BY <1>8 DEF Listing
  <2> QED BY <1>8, <2>2, <2>3 DEF Safe
<1>10. CASE job' = found /\ job.cmd # "dir" /\ Ok(m) /\ ~m.got[1].dir
  <2>1. /\ job'.cmd = "xcopy" /\ job'.at = "source" /\ job'.from = job.from
        /\ job'.to = job.to /\ job'.src = Append(job.from, name)
        /\ job'.dst = Append(job.to, name)
    BY <1>4, <1>10, InvFacts DEF IsJob
  <2>2. ShortPath(job.from) /\ ShortPath(job.to)
    BY <1>4, <1>10, SafeFacts DEF Course
  <2>3. job'.src # <<>> /\ job'.dst # <<>>
    <3>1. job.from \in Seq(AnyName) /\ job.to \in Seq(AnyName) /\ name \in AnyName
      BY <1>7, <1>10, SafeFacts DEF Paths
    <3>2. Append(job.from, name) # <<>>
      BY <3>1, Appended
    <3>3. Append(job.to, name) # <<>>
      BY <3>1, Appended
    <3> QED BY <2>1, <3>2, <3>3
  <2>4. ~vol'.refused => GoodPath(job'.src) /\ GoodPath(job'.dst)
    BY <1>6, <1>8, <1>10, <2>1, <2>2, LongerPath
  <2>5. Course(job') /\ Guided(vol', job') /\ Copying(vol', job') /\ Changing(vol', job')
    BY <2>1, <2>2, <2>3, <2>4 DEF Course, Guided, Copying, Changing
  <2>6. Listing(vol', job')
    BY <1>8 DEF Listing
  <2> QED BY <1>8, <2>5, <2>6 DEF Safe
<1> QED BY <1>1, <1>9, <1>10

-----------------------------------------------------------------------------
(* Sound volumes.                                                          *)

\* The volumes that the program finds.
LEMMA FoundDotted ==
    ASSUME NEW v \in Volumes
    PROVE  Dotted(v.disk, v.fat)
<1>1. \A d \in {Root} \cup Subdirectories(v) : \A at \in SlotsIn(v, d) :
         UnitAt(v, at).name \in {Dot, DotDot} => UnitAt(v, at).dir /\ d # Root
  BY SoundAssumption
<1> SUFFICES ASSUME NEW p \in Places, p[1] \in AreaOf(v.disk, v.fat),
                    At(v.disk, p).name \in {Dot, DotDot}
             PROVE  At(v.disk, p).dir /\ p[1] # Root
  BY DEF Dotted
<1>2. UnitAt(v, p) = At(v.disk, p)
  BY DEF UnitAt, At
<1>3. Root \in Firsts
  BY ClusterFacts DEF Firsts
<1>4. CASE p[1] = Root
  <2>1. p \in SlotsIn(v, Root)
    BY <1>3, <1>4, SlotsInIs
  <2> QED BY <1>1, <1>2, <2>1
<1>5. CASE p[1] # Root
  <2>1. PICK r \in Places : RootDir(v.disk, r) /\ p[1] \in On(v.fat, At(v.disk, r).first)
    BY <1>5 DEF AreaOf
  <2> DEFINE d == At(v.disk, r).first
  <2>2. v.disk \in AnyDisk
    BY VolumesAssumption, FieldTypes
  <2>3. d \in Firsts /\ d # Root
    BY <2>1, <2>2, AtType DEF RootDir
  <2>4. d \in Subdirectories(v)
    <3>1. r[1] = Root /\ r[2] \in 1 .. RootSlots
      BY <2>1, PlaceFacts, Sizes DEF RootDir
    <3>2. v.disk[Root][r[2]] = At(v.disk, r)
      BY <3>1 DEF At
    <3> QED BY <2>1, <2>3, <3>1, <3>2 DEF Subdirectories, RootDir
  <2> HIDE DEF d
  <2>5. p \in SlotsIn(v, d)
    BY <2>1, <2>3, SlotsInIs DEF d
  <2> QED BY <1>1, <1>2, <1>5, <2>4, <2>5
<1> QED BY <1>4, <1>5

LEMMA InitSafe ==
    ASSUME Init
    PROVE  Safe(vol, job)
<1>1. vol \in Volumes /\ job = Idle
  BY DEF Init
<1>2. /\ vol \in AnyVolume /\ vol.saved = vol.fat /\ ~vol.refused
      /\ Sound(vol) /\ ~vol.full
  BY <1>1, VolumesAssumption, SoundAssumption
<1>3. vol.disk \in AnyDisk /\ vol.fat \in AnyTable /\ vol.refused = FALSE /\ vol.full = FALSE
  BY <1>2, FieldTypes
<1>4. SoundTable(vol.disk, vol.fat)
  BY <1>2, <1>3, SoundIs DEF SoundTable
<1>5. Whole(vol.disk, vol.fat, vol.full, {})
  BY <1>1, <1>3, <1>4, FoundDotted, SoundWhole
<1>6. Behind(vol.disk, vol.fat, vol.saved, {})
  BY <1>2, <1>5, SavedTable
<1>7. Fine(vol, {}, {})
  BY <1>2, <1>5, <1>6 DEF Fine, Good, Sane
<1> QED BY <1>1, <1>7, IdleSafe DEF Settled

\* What is typed.
LEMMA TypedPath ==
    ASSUME NEW p \in Files \cup Directories
    PROVE  /\ GoodPath(p) /\ p # <<>>
           /\ p \in Directories => ShortPath(p)
<1>1. p \in Seq(Names) /\ p # <<>>
  BY ShellAssumption
<1>2. Len(p) \in {1, 2} /\ (p \in Directories => Len(p) = 1)
  <2> DEFINE n == Len(p)
  <2>1. n \in Nat /\ n # 0
    BY <1>1, EmptySeq
  <2>2. p \in Files => n <= 2
    BY PathsAssumption, Zenon
  <2>3. p \in Directories => n = 1
    BY PathsAssumption, Zenon
  <2> HIDE DEF n
  <2>4. n = 1 \/ n = 2
    BY <2>1, <2>2, <2>3
  <2> QED BY <2>3, <2>4 DEF n
<1>3. \A i \in 1 .. Len(p) : Ordinary(p[i])
  <2> SUFFICES ASSUME NEW i \in 1 .. Len(p) PROVE Ordinary(p[i])
    OBVIOUS
  <2>1. p[i] \in Names
    BY <1>1, ElementOfSeq
  <2> QED BY <2>1, PathsAssumption DEF Ordinary, AnyName
<1>4. p \in Seq(AnyName)
  BY PathTypes DEF Paths
<1> QED BY <1>1, <1>2, <1>3, <1>4 DEF GoodPath, ShortPath

LEMMA TypedSafe ==
    ASSUME NEW j, Prompt(j), Course(j), Guided(vol, j), Inv(vol, job), Safe(vol, job),
           j.at \in {"source", "try", "directory"}, j.at = "source" => j.cmd # "xcopy"
    PROVE  Safe(vol', job')
<1>1. job' = j /\ vol' = vol
  BY DEF Prompt
<1> QED BY <1>1 DEF Safe, Course, Copying, Changing, Listing

LEMMA PromptSafe ==
    ASSUME Inv(vol, job), Safe(vol, job), Prompts
    PROVE  Safe(vol', job')
<1> USE DEF Idle, Course, Guided
<1>1. ASSUME NEW p \in Files, Type(p) PROVE Safe(vol', job')
  BY <1>1, TypedPath, TypedSafe DEF Type
<1>2. ASSUME NEW p \in Files, Delete(p) PROVE Safe(vol', job')
  BY <1>2, TypedPath, TypedSafe DEF Delete
<1>3. ASSUME NEW p \in Files, NEW on \in BOOLEAN, Attrib(p, on) PROVE Safe(vol', job')
  <2> DEFINE cmd == IF on THEN "attrib+r" ELSE "attrib-r"
             j == [Idle EXCEPT !.cmd = cmd, !.at = "source", !.src = p]
  <2>1. Prompt(j)
    BY <1>3 DEF Attrib
  <2>2. cmd \in {"attrib+r", "attrib-r"}
    OBVIOUS
  <2> HIDE DEF cmd
  <2>3. j.cmd = cmd /\ j.at = "source" /\ j.src = p
    OBVIOUS
  <2> HIDE DEF j
  <2> QED BY <2>1, <2>2, <2>3, TypedPath, TypedSafe
<1>4. ASSUME NEW p \in Files, NEW q \in Files, Copy(p, q) PROVE Safe(vol', job')
  BY <1>4, TypedPath, TypedSafe DEF Copy
<1>5. ASSUME NEW d \in Directories, Md(d) PROVE Safe(vol', job')
  BY <1>5, TypedPath, TypedSafe DEF Md
<1>6. ASSUME NEW d \in Directories, Dir(d) PROVE Safe(vol', job')
  BY <1>6, TypedPath, TypedSafe DEF Dir
<1>7. ASSUME NEW d \in Directories, NEW e \in Directories, XCopy(d, e)
      PROVE  Safe(vol', job')
  BY <1>7, TypedPath, TypedSafe DEF XCopy
<1>8. CASE Exit
  <2>1. vol' = vol /\ job' = [Idle EXCEPT !.at = "exit"]
    BY <1>8 DEF Exit
  <2> QED BY <2>1, SafeFacts DEF Safe, Copying, Changing, Listing
<1>9. CASE Exited
  <2>1. vol' = vol /\ job' = job
    BY <1>9 DEF Exited, vars
  <2> QED BY <2>1
<1> QED BY <1>1, <1>2, <1>3, <1>4, <1>5, <1>6, <1>7, <1>8, <1>9 DEF Prompts

LEMMA CallsSafe ==
    ASSUME Inv(vol, job), Safe(vol, job), Calls
    PROVE  Safe(vol', job')
BY OpenSourceSafe, OpenTargetSafe, ReadSafe, WriteTargetSafe, ReadAllSafe,
   CloseSourceSafe, CloseTargetSafe, SetInformationSafe, DoneSafe, TryDirectorySafe,
   MakeDirectorySafe, CloseDirectorySafe, OpenDirectorySafe, NextEntrySafe,
   CloseSourceDirectorySafe
   DEF Calls

LEMMA StepSafe ==
    ASSUME Inv(vol, job), Safe(vol, job), [Next]_vars
    PROVE  Safe(vol', job')
<1>1. CASE Calls
  BY <1>1, CallsSafe
<1>2. CASE Prompts
  BY <1>2, PromptSafe
<1>3. CASE UNCHANGED vars
  <2>1. vol' = vol /\ job' = job
    BY <1>3 DEF vars
  <2> QED BY <2>1
<1> QED BY <1>1, <1>2, <1>3 DEF Next, Prompts

\* The inductive invariant.
SafeInvariant == Invariant /\ Safe(vol, job)

LEMMA SafeInvariantHolds == Spec => []SafeInvariant
<1>1. Init => SafeInvariant
  BY InvInit, InitSafe DEF SafeInvariant, Invariant
<1>2. SafeInvariant /\ [Next]_vars => SafeInvariant'
  BY StepKeeps, StepSafe DEF SafeInvariant, Invariant
<1> QED BY <1>1, <1>2, PTL DEF Spec

\* The volume is sound after every call of every command, for every volume that is sound
\* at the start and every device: no two entries share a cluster, whatever it refused;
\* while it has refused no write, chains end and have room for the file; and while besides
\* no allocation has failed, every cluster in use is on one (the order in which fatboot.c
\* writes entries, frees and links clusters and saves the table).
THEOREM VolumeStaysSound == Spec => []SoundVolume
<1>1. SafeInvariant => SoundVolume
  BY SettledSound DEF SafeInvariant, Safe, SoundVolume
<1> QED BY <1>1, SafeInvariantHolds, PTL DEF Spec

-----------------------------------------------------------------------------
(* What stays of the other files.                                          *)

\* The chain from h and what its clusters hold are the same in m and n.
SameData(m, n, h) ==
    /\ Chain(n.fat, h) = Chain(m.fat, h)
    /\ \A c \in On(m.fat, h) : \A u \in 1 .. Units :
           At(n.disk, <<c, u>>) = At(m.disk, <<c, u>>)

\* The entry p of m is one of n; a file holds what it held.
SameFile(m, n, p) ==
    /\ p \in LiveOf(n.disk, n.fat) /\ At(n.disk, p) = At(m.disk, p)
    /\ ~At(m.disk, p).dir => SameData(m, n, At(m.disk, p).first)

\* All entries but T.
Stays(m, n, T) == \A p \in LiveOf(m.disk, m.fat) : p # T => SameFile(m, n, p)

LEMMA StaysTransitive ==
    ASSUME NEW m, NEW n, NEW o, NEW T, Stays(m, n, T), Stays(n, o, T)
    PROVE  Stays(m, o, T)
<1> SUFFICES ASSUME NEW p \in LiveOf(m.disk, m.fat), p # T PROVE SameFile(m, o, p)
  BY Zenon DEF Stays
<1>1. SameFile(m, n, p)
  BY Zenon DEF Stays
<1>2. p \in LiveOf(n.disk, n.fat) /\ At(n.disk, p) = At(m.disk, p)
  BY <1>1, Zenon DEF SameFile
<1>3. SameFile(n, o, p)
  BY <1>2, Zenon DEF Stays
<1>4. p \in LiveOf(o.disk, o.fat) /\ At(o.disk, p) = At(m.disk, p)
  BY <1>2, <1>3, Zenon DEF SameFile
<1> DEFINE h == At(m.disk, p).first
<1>5. ASSUME ~At(m.disk, p).dir PROVE SameData(m, o, h)
  <2>1. SameData(m, n, h) /\ SameData(n, o, h)
    BY <1>1, <1>2, <1>3, <1>5, Zenon DEF SameFile
  <2>2. On(n.fat, h) = On(m.fat, h)
    BY <2>1, Zenon DEF SameData, On
  <2> HIDE DEF h
  <2> QED BY <2>1, <2>2, Zenon DEF SameData
<1> QED BY <1>4, <1>5, Zenon DEF SameFile

LEMMA StaysSame ==
    ASSUME NEW m, NEW n, n.disk = m.disk, n.fat = m.fat, NEW T
    PROVE  Stays(m, n, T)
BY Zenon DEF Stays, SameFile, SameData

\* An entry that m has not need not be told apart.
LEMMA StaysAll ==
    ASSUME NEW m, NEW n, NEW T, Stays(m, n, T), T \notin LiveOf(m.disk, m.fat), NEW S
    PROVE  Stays(m, n, S)
BY Zenon DEF Stays

\* What is made of the same entries of the same files.
LEMMA StaysFrom ==
    ASSUME NEW m, NEW n, NEW o, NEW T, n.disk = m.disk, n.fat = m.fat, Stays(n, o, T)
    PROVE  Stays(m, o, T)
BY StaysSame, StaysTransitive, Zenon

\* The table changes, the directories keep their clusters, and so do the other files.
LEMMA TableStays ==
    ASSUME NEW m, NEW n, n.disk = m.disk, NEW T,
           AreaOf(m.disk, m.fat) \subseteq AreaOf(n.disk, n.fat),
           \A p \in LiveOf(m.disk, m.fat) : p # T /\ ~At(m.disk, p).dir =>
               \A c \in On(m.fat, At(m.disk, p).first) : Alike(m.fat, n.fat, c)
    PROVE  Stays(m, n, T)
<1> SUFFICES ASSUME NEW p \in LiveOf(m.disk, m.fat), p # T PROVE SameFile(m, n, p)
  BY Zenon DEF Stays
<1>1. p \in LiveOf(n.disk, n.fat) /\ At(n.disk, p) = At(m.disk, p)
  BY DEF LiveOf
<1>2. ASSUME ~At(m.disk, p).dir PROVE SameData(m, n, At(m.disk, p).first)
  <2>1. \A c \in On(m.fat, At(m.disk, p).first) : Alike(m.fat, n.fat, c)
    BY <1>2
  <2>2. Chain(n.fat, At(m.disk, p).first) = Chain(m.fat, At(m.disk, p).first)
    BY <2>1, ChainSame, Zenon
  <2> QED BY <2>2, Zenon DEF SameData
<1> QED BY <1>1, <1>2, Zenon DEF SameFile

\* Two tables that lead the same way.
LikeTable(m, n) == \A c \in Clusters : Alike(m.fat, n.fat, c)

LEMMA LikeReflexive ==
    ASSUME NEW m, NEW n, n.fat = m.fat
    PROVE  LikeTable(m, n)
BY Zenon DEF LikeTable, Alike

LEMMA LikeTransitive ==
    ASSUME NEW m, NEW n, NEW o, LikeTable(m, n), LikeTable(n, o)
    PROVE  LikeTable(m, o)
BY Zenon DEF LikeTable, Alike

LEMMA LikeStays ==
    ASSUME NEW m, NEW n, n.disk = m.disk, LikeTable(m, n), NEW T
    PROVE  Stays(m, n, T)
<1>1. \A h : On(n.fat, h) = On(m.fat, h)
  <2> TAKE h
  <2>1. \A c \in On(m.fat, h) : Alike(m.fat, n.fat, c)
    BY OnFinite, Zenon DEF LikeTable
  <2> QED BY <2>1, ChainSame, Zenon
<1>2. AreaOf(n.disk, n.fat) = AreaOf(m.disk, m.fat)
  BY <1>1, Zenon DEF AreaOf
<1>3. \A h : \A c \in On(m.fat, h) : Alike(m.fat, n.fat, c)
  BY OnFinite, Zenon DEF LikeTable
<1> QED BY <1>2, <1>3, TableStays, Zenon

\* What was in use in m is in n what it was.
Spare(m, n) ==
    /\ \A c \in Clusters : m.fat[c] # Available => n.fat[c] = m.fat[c]
    /\ \A p \in Places : p[1] = Root \/ m.fat[p[1]] # Available =>
           At(n.disk, p) = At(m.disk, p)

\* The clusters of entries and of directories are in use.
LEMMA UsedClusters ==
    ASSUME NEW disk, NEW fat, NEW full, NEW X, Whole(disk, fat, full, X)
    PROVE  /\ \A p \in LiveOf(disk, fat) : \A c \in On(fat, At(disk, p).first) :
                  c \in Clusters /\ fat[c] # Available
           /\ \A c \in AreaOf(disk, fat) : c = Root \/ fat[c] # Available
<1>1. ASSUME NEW p \in LiveOf(disk, fat), NEW c \in On(fat, At(disk, p).first)
      PROVE  c \in Clusters /\ fat[c] # Available
  <2> DEFINE h == At(disk, p).first
  <2>1. c \in Clusters
    BY OnFinite, Zenon
  <2>2. h \in Clusters
    BY OnNothing, Zenon
  <2>3. h # Available
    BY <2>2, ClusterFacts
  <2>4. h \in HeadsOf(disk, fat)
    BY <2>3, HeadOf, Zenon
  <2>5. Shape(fat, HeadsOf(disk, fat) \cup X)
    BY Zenon DEF Whole
  <2> HIDE DEF h
  <2>6. h \in HeadsOf(disk, fat) \cup X
    BY <2>4
  <2>7. c \in On(fat, h)
    BY DEF h
  <2> QED BY <2>1, <2>5, <2>6, <2>7, OnUsed, Zenon
<1>2. ASSUME NEW c \in AreaOf(disk, fat), c # Root PROVE fat[c] # Available
  <2>1. Dotted(disk, fat)
    BY Zenon DEF Whole
  <2>2. PICK p \in LiveOf(disk, fat) : c \in On(fat, At(disk, p).first)
    BY <1>2, <2>1, AreaLive, Zenon
  <2> QED BY <1>1, <2>2, Zenon
<1> QED BY <1>1, <1>2, Zenon

LEMMA SpareStays ==
    ASSUME NEW m, NEW full, NEW X, Whole(m.disk, m.fat, full, X), NEW n, Spare(m, n), NEW T
    PROVE  Stays(m, n, T)
<1>1. /\ \A p \in LiveOf(m.disk, m.fat) : \A c \in On(m.fat, At(m.disk, p).first) :
             c \in Clusters /\ m.fat[c] # Available
      /\ \A c \in AreaOf(m.disk, m.fat) : c = Root \/ m.fat[c] # Available
  BY UsedClusters, Zenon
<1>2. ASSUME NEW p \in LiveOf(m.disk, m.fat)
      PROVE  /\ Chain(n.fat, At(m.disk, p).first) = Chain(m.fat, At(m.disk, p).first)
             /\ On(n.fat, At(m.disk, p).first) = On(m.fat, At(m.disk, p).first)
  <2>1. \A c \in On(m.fat, At(m.disk, p).first) : Alike(m.fat, n.fat, c)
    BY <1>1, Zenon DEF Spare, Alike
  <2> QED BY <2>1, ChainSame, Zenon
<1>3. Dotted(m.disk, m.fat)
  BY Zenon DEF Whole
<1>4. ASSUME NEW q \in Places, RootDir(m.disk, q)
      PROVE  /\ RootDir(n.disk, q) /\ At(n.disk, q).first = At(m.disk, q).first
             /\ On(n.fat, At(m.disk, q).first) = On(m.fat, At(m.disk, q).first)
  <2>1. q[1] = Root
    BY <1>4, Zenon DEF RootDir
  <2>2. At(n.disk, q) = At(m.disk, q)
    BY <2>1, Zenon DEF Spare
  <2>3. q \in LiveOf(m.disk, m.fat)
    BY <1>3, <1>4, RootDirLive, Zenon
  <2>4. RootDir(n.disk, q) /\ At(n.disk, q).first = At(m.disk, q).first
    BY <1>4, <2>2 DEF RootDir
  <2>5. On(n.fat, At(m.disk, q).first) = On(m.fat, At(m.disk, q).first)
    BY <1>2, <2>3, Zenon
  <2> QED BY <2>4, <2>5, Zenon
<1>5. AreaOf(m.disk, m.fat) \subseteq AreaOf(n.disk, n.fat)
  <2> SUFFICES ASSUME NEW c \in AreaOf(m.disk, m.fat) PROVE c \in AreaOf(n.disk, n.fat)
    BY Zenon
  <2>1. c \in {Root} \cup Clusters
    BY DEF AreaOf
  <2>2. CASE c = Root
    BY <2>2, RootArea, Zenon
  <2>3. CASE c # Root
    <3>1. PICK q \in Places : RootDir(m.disk, q) /\ c \in On(m.fat, At(m.disk, q).first)
      BY <2>3, Zenon DEF AreaOf
    <3>2. RootDir(n.disk, q) /\ c \in On(n.fat, At(n.disk, q).first)
      BY <1>4, <3>1, Zenon
    <3> QED BY <2>1, <3>2, Zenon DEF AreaOf
  <2> QED BY <2>2, <2>3, Zenon
<1> SUFFICES ASSUME NEW p \in LiveOf(m.disk, m.fat), p # T PROVE SameFile(m, n, p)
  BY Zenon DEF Stays
<1>6. p \in Places /\ p[1] \in AreaOf(m.disk, m.fat) /\ Entry(At(m.disk, p))
  BY LivePlace, Zenon
<1>7. At(n.disk, p) = At(m.disk, p)
  BY <1>1, <1>6, Zenon DEF Spare
<1>8. p \in LiveOf(n.disk, n.fat)
  BY <1>5, <1>6, <1>7 DEF LiveOf
<1>9. ASSUME NEW c \in On(m.fat, At(m.disk, p).first), NEW u \in 1 .. Units
      PROVE  At(n.disk, <<c, u>>) = At(m.disk, <<c, u>>)
  <2>1. c \in Clusters /\ m.fat[c] # Available
    BY <1>1, Zenon
  <2>2. u \in 1 .. Size(c)
    BY <2>1, Sizes, Zenon
  <2>3. <<c, u>> \in Places
    BY <2>1, <2>2, PlaceOf
  <2>4. <<c, u>>[1] = c
    OBVIOUS
  <2> QED BY <2>1, <2>3, <2>4, Zenon DEF Spare
<1> QED BY <1>2, <1>7, <1>8, <1>9, Zenon DEF SameFile, SameData

\* A unit is written where entries are, in the place of no directory of the root.
LEMMA EntryStays ==
    ASSUME NEW m, NEW full, NEW X, Whole(m.disk, m.fat, full, X),
           NEW at \in Places, at[1] \in AreaOf(m.disk, m.fat), ~RootDir(m.disk, at),
           NEW v \in AnyUnit, NEW n, n.fat = m.fat,
           n.disk = m.disk \/ n.disk = Put(m.disk, at, v)
    PROVE  Stays(m, n, at)
<1>1. CASE n.disk = m.disk
  BY <1>1, StaysSame, Zenon
<1>2. CASE n.disk = Put(m.disk, at, v)
  <2>1. m.disk \in AnyDisk
    BY Zenon DEF Whole
  <2>2. \A p \in Places : p # at => At(n.disk, p) = At(m.disk, p)
    <3>1. \A p \in Places : p # at => At(Put(m.disk, at, v), p) = At(m.disk, p)
      BY <2>1, PutAtPlace, Zenon
    <3> QED BY <1>2, <3>1
  <2>3. \A q \in Places : RootDir(m.disk, q) =>
           RootDir(n.disk, q) /\ At(n.disk, q) = At(m.disk, q)
    BY <2>2, Zenon DEF RootDir
  <2>4. AreaOf(m.disk, m.fat) \subseteq AreaOf(n.disk, n.fat)
    BY <2>3 DEF AreaOf
  <2> SUFFICES ASSUME NEW p \in LiveOf(m.disk, m.fat), p # at PROVE SameFile(m, n, p)
    BY Zenon DEF Stays
  <2>5. p \in Places /\ p[1] \in AreaOf(m.disk, m.fat) /\ Entry(At(m.disk, p))
    BY LivePlace, Zenon
  <2>6. At(n.disk, p) = At(m.disk, p)
    BY <2>2, <2>5, Zenon
  <2>7. p \in LiveOf(n.disk, n.fat)
    BY <2>4, <2>5, <2>6 DEF LiveOf
  <2>8. ASSUME ~At(m.disk, p).dir, NEW c \in On(m.fat, At(m.disk, p).first),
               NEW u \in 1 .. Units
        PROVE  At(n.disk, <<c, u>>) = At(m.disk, <<c, u>>)
    <3>1. c \notin AreaOf(m.disk, m.fat)
      BY <2>8, FileOutside, Zenon
    <3>2. c \in Clusters
      BY OnFinite, Zenon
    <3>3. <<c, u>> \in Places
      <4>1. u \in 1 .. Size(c)
        BY <3>2, Sizes, Zenon
      <4> QED BY <3>2, <4>1, PlaceOf
    <3>4. <<c, u>> # at
      <4>1. <<c, u>>[1] = c
        OBVIOUS
      <4> QED BY <3>1, <4>1, Zenon
    <3> QED BY <2>2, <3>3, <3>4, Zenon
  <2>9. Chain(n.fat, At(m.disk, p).first) = Chain(m.fat, At(m.disk, p).first)
    OBVIOUS
  <2> QED BY <2>6, <2>7, <2>8, <2>9, Zenon DEF SameFile, SameData
<1> QED BY <1>1, <1>2, Zenon

-----------------------------------------------------------------------------
(* The table.                                                              *)

\* A chain goes on as it went when the end of one leads further.
LEMMA EndLeads ==
    ASSUME NEW fat \in AnyTable, NEW last \in Clusters, fat[last] \notin Clusters, NEW v,
           NEW g, Changed(fat, last, v, g), NEW h
    PROVE  On(fat, h) \subseteq On(g, h)
<1> DEFINE cs == Chain(fat, h)
           es == Chain(g, h)
<1>1. /\ Along(fat, h, cs) /\ Len(cs) \in Nat /\ Len(cs) <= TotalClustersInVolume
  BY ChainAlong
<1>2. /\ Along(g, h, es) /\ Len(es) \in Nat /\ Len(es) <= TotalClustersInVolume
      /\ Len(es) < TotalClustersInVolume => Ended(g, h, es)
  BY ChainAlong
<1>3. cs \in Seq(Clusters) /\ es \in Seq(Clusters)
  BY <1>1, <1>2 DEF Along
<1> HIDE DEF cs, es
<1>4. \A c \in Clusters : c # last => g[c] = fat[c]
  BY DEF Changed, AnyTable
<1>5. \A i \in 1 .. Len(cs) - 1 : cs[i + 1] = g[cs[i]]
  <2> SUFFICES ASSUME NEW i \in 1 .. Len(cs) - 1 PROVE cs[i + 1] = g[cs[i]]
    OBVIOUS
  <2>1. cs[i + 1] = fat[cs[i]]
    BY <1>1 DEF Along
  <2>2. cs[i] \in Clusters /\ cs[i + 1] \in Clusters
    BY <1>1, <1>3, ElementOfSeq
  <2>3. cs[i] # last
    BY <2>1, <2>2
  <2> QED BY <1>4, <2>1, <2>2, <2>3
<1>6. Along(g, h, cs)
  BY <1>1, <1>5 DEF Along
<1>7. Len(cs) <= Len(es)
  <2>1. CASE Ended(g, h, es)
    BY <1>2, <1>6, <2>1, ShorterEnds
  <2>2. CASE Len(es) >= TotalClustersInVolume
    BY <1>1, <1>2, <2>2, VolumeAssumption
  <2> QED BY <1>2, <2>1, <2>2, VolumeAssumption
<1>8. \A i \in 1 .. Len(cs) : cs[i] = es[i]
  BY <1>2, <1>6, <1>7, AlongAlike
<1>9. On(fat, h) = {cs[i] : i \in 1 .. Len(cs)} /\ On(g, h) = {es[i] : i \in 1 .. Len(es)}
  BY DEF On, cs, es
<1> QED BY <1>1, <1>2, <1>7, <1>8, <1>9

\* The end of a chain is set.
LEMMA LinkStays ==
    ASSUME NEW m, NEW n, n.disk = m.disk, m.fat \in AnyTable, NEW last \in Clusters,
           m.fat[last] \notin Clusters, NEW v, Changed(m.fat, last, v, n.fat), NEW T,
           \A p \in LiveOf(m.disk, m.fat) : p # T /\ ~At(m.disk, p).dir =>
               last \notin On(m.fat, At(m.disk, p).first)
    PROVE  Stays(m, n, T)
<1>1. \A h : On(m.fat, h) \subseteq On(n.fat, h)
  BY EndLeads, Zenon
<1>2. AreaOf(m.disk, m.fat) \subseteq AreaOf(n.disk, n.fat)
  BY <1>1 DEF AreaOf
<1>3. \A c \in Clusters : c # last => n.fat[c] = m.fat[c]
  BY DEF Changed, AnyTable
<1>4. ASSUME NEW p \in LiveOf(m.disk, m.fat), p # T, ~At(m.disk, p).dir,
             NEW c \in On(m.fat, At(m.disk, p).first)
      PROVE  Alike(m.fat, n.fat, c)
  <2>1. c # last
    BY <1>4, Zenon
  <2>2. c \in Clusters
    BY OnFinite, Zenon
  <2> QED BY <1>3, <2>1, <2>2, Zenon DEF Alike
<1> QED BY <1>2, <1>4, TableStays, Zenon

\* The chain from h, that no entry leads to, is freed.
LEMMA FreedStays ==
    ASSUME NEW m, NEW n, NEW full, NEW h, Whole(m.disk, m.fat, full, {h}), n.disk = m.disk,
           \A c \in Clusters : c \notin On(m.fat, h) => n.fat[c] = m.fat[c], NEW T
    PROVE  Stays(m, n, T)
<1>1. ASSUME NEW p \in LiveOf(m.disk, m.fat), NEW c \in On(m.fat, At(m.disk, p).first)
      PROVE  Alike(m.fat, n.fat, c)
  <2> DEFINE k == At(m.disk, p).first
  <2>1. c \in Clusters
    BY OnFinite, Zenon
  <2>2. k \in Clusters
    BY OnNothing, Zenon
  <2>3. k # Available
    BY <2>2, ClusterFacts
  <2>4. Starts(m.fat, k) /\ k \notin {h}
    BY <2>3, HeadOf, Zenon
  <2>5. Starts(m.fat, h)
    BY ExtraHead
  <2> HIDE DEF k
  <2>6. k # h
    BY <2>4
  <2>7. On(m.fat, k) \cap On(m.fat, h) = {}
    BY <2>4, <2>5, <2>6, OnApart, Zenon
  <2>8. c \in On(m.fat, k)
    BY DEF k
  <2>9. c \notin On(m.fat, h)
    BY <2>7, <2>8
  <2> QED BY <2>1, <2>9, Zenon DEF Alike
<1>2. Dotted(m.disk, m.fat)
  BY Zenon DEF Whole
<1>3. ASSUME NEW q \in Places, RootDir(m.disk, q)
      PROVE  On(n.fat, At(m.disk, q).first) = On(m.fat, At(m.disk, q).first)
  <2>1. q \in LiveOf(m.disk, m.fat)
    BY <1>2, <1>3, RootDirLive, Zenon
  <2> QED BY <1>1, <2>1, ChainSame, Zenon
<1>4. AreaOf(m.disk, m.fat) \subseteq AreaOf(n.disk, n.fat)
  BY <1>3 DEF AreaOf
<1> QED BY <1>1, <1>4, TableStays, Zenon

-----------------------------------------------------------------------------
(* Writes.                                                                 *)

\* A write changes one unit, or none.
LEMMA WriteOne ==
    ASSUME NEW m \in AnyVolume, NEW at \in Places, NEW unit \in AnyUnit
    PROVE  LET n == Write(m, at, unit)
           IN  /\ n.fat = m.fat /\ n.file = m.file
               /\ n.disk = m.disk \/ n.disk = Put(m.disk, at, unit)
               /\ \A p \in Places : p # at => At(n.disk, p) = At(m.disk, p)
               /\ ~Ok(n) => n.disk = m.disk
<1>1. /\ Write(m, at, unit).fat = m.fat /\ Write(m, at, unit).file = m.file
      /\ \/ Write(m, at, unit).disk = m.disk
         \/ Write(m, at, unit).disk = Put(m.disk, at, unit) /\ Ok(Write(m, at, unit))
  BY DEF Write, AnyVolume, Put, Ok
<1>2. \A p \in Places : p # at => At(Put(m.disk, at, unit), p) = At(m.disk, p)
  BY PutAtPlace, FieldTypes, Zenon
<1> DEFINE n == Write(m, at, unit)
<1> HIDE DEF n
<1>3. /\ n.fat = m.fat /\ n.file = m.file
      /\ n.disk = m.disk \/ (n.disk = Put(m.disk, at, unit) /\ Ok(n))
  BY <1>1, Zenon DEF n
<1>4. \A p \in Places : p # at => At(n.disk, p) = At(m.disk, p)
  BY <1>2, <1>3 
<1> QED BY <1>3, <1>4, Zenon DEF n

\* A device that takes no write.
LEMMA WriteNone ==
    ASSUME NEW m \in AnyVolume, m.writes = 0, NEW at, NEW unit
    PROVE  LET n == Write(m, at, unit)
           IN  ~Ok(n) /\ n.fat = m.fat /\ n.disk = m.disk /\ n.writes = 0
BY DEF Write, AnyVolume, Ok

-----------------------------------------------------------------------------
(* Allocation: only what is free changes.                                  *)

\* Only units of c changed.
LEMMA BlankedOnly ==
    ASSUME NEW m, Sane(m), NEW c \in Clusters
    PROVE  LET n == Blanked(m, c)
           IN  n.fat = m.fat /\ \A p \in Places : p[1] # c => At(n.disk, p) = At(m.disk, p)
<1>1. PICK h : BlankTurns(m, c, h) /\ Blanked(m, c) = h[Units]
  BY BlankedTurns
<1> DEFINE Only(n) == n.fat = m.fat /\ \A p \in Places : p[1] # c => At(n.disk, p) = At(m.disk, p)
           B == {k \in 0 .. Units : Follows(m, h[k]) /\ Only(h[k])}
<1>2. 0 \in B
  BY <1>1, Sizes, FollowsReflexive DEF BlankTurns
<1>3. ASSUME NEW k \in 1 .. Units, k - 1 \in B PROVE k \in B
  <2>1. Follows(m, h[k - 1]) /\ Sane(h[k - 1]) /\ h[k] = Write(h[k - 1], <<c, k>>, Blank)
    BY <1>1, <1>3, FollowsSane DEF BlankTurns
  <2>2. Only(h[k - 1])
    BY <1>3
  <2> DEFINE x == h[k - 1]
  <2> HIDE DEF x
  <2>3. Follows(m, x) /\ Sane(x) /\ x \in AnyVolume /\ h[k] = Write(x, <<c, k>>, Blank)
    BY <2>1, FollowsSane, Zenon DEF x
  <2>4. Only(x)
    BY <2>2, Zenon DEF x
  <2>5. Follows(m, h[k])
    BY <2>3, BlankType, WriteDisk, FollowsTransitive, Zenon
  <2>6. <<c, k>> \in Places
    <3>1. k \in 1 .. Size(c)
      BY Sizes, Zenon
    <3> QED BY <3>1, PlaceOf
  <2>7. /\ Write(x, <<c, k>>, Blank).fat = x.fat
        /\ \A p \in Places : p # <<c, k>> =>
              At(Write(x, <<c, k>>, Blank).disk, p) = At(x.disk, p)
    BY <2>3, <2>6, BlankType, WriteOne, Zenon
  <2>8. \A p : p[1] # c => p # <<c, k>>
    OBVIOUS
  <2>9. Only(h[k])
    BY <2>3, <2>4, <2>7, <2>8, Zenon
  <2> HIDE DEF Only
  <2> QED BY <2>5, <2>9, Sizes
<1>4. Units \in B
  <2> HIDE DEF B
  <2> QED BY <1>2, <1>3, Sizes, UpTo
<1> HIDE DEF Only
<1>5. Only(h[Units])
  BY <1>4
<1> QED BY <1>1, <1>5, Zenon DEF Only

LEMMA LinkedOnly ==
    ASSUME NEW m, Sane(m), NEW previous \in Firsts, NEW c \in Clusters
    PROVE  LET n == Linked(m, previous, c)
           IN  /\ Sane(n) /\ n.disk = m.disk
               /\ \A x \in Clusters : x # c /\ x # previous => n.fat[x] = m.fat[x]
<1>1. c \in Firsts /\ LAST \in Firsts \cup {LAST} /\ c \in Firsts \cup {LAST}
  BY DEF Firsts
<1>2. Sane(Linked(m, previous, c))
  BY <1>1, LinkedFollows, FollowsSane, Zenon
<1>3. m \in AnyVolume /\ DOMAIN m.fat = Clusters
  BY DEF Sane, AnyVolume, AnyTable
<1>4. Linked(m, previous, c).disk = m.disk
  BY <1>3 DEF Linked, SetFatEntry, Ok, AnyVolume
<1>5. \A x \in Clusters : x # c /\ x # previous => Linked(m, previous, c).fat[x] = m.fat[x]
  BY <1>3 DEF Linked, SetFatEntry, Ok, AnyVolume, AnyTable
<1> QED BY <1>2, <1>4, <1>5, Zenon

\* The state of the loop of an allocation that started with m.
Taking(m, a) ==
    /\ Spare(m, a.m)
    /\ a.previous \in Clusters => m.fat[a.previous] = Available

LEMMA SpareMore ==
    ASSUME NEW m, NEW n, Spare(m, n), Sane(n), NEW previous \in Firsts, NEW c \in Clusters,
           n.fat[c] = Available, previous \in Clusters => m.fat[previous] = Available
    PROVE  Spare(m, Blanked(Linked(n, previous, c), c)) /\ m.fat[c] = Available
<1> DEFINE l == Linked(n, previous, c)
           o == Blanked(l, c)
<1>1. m.fat[c] = Available
  BY Zenon DEF Spare
<1>2. /\ Sane(l) /\ l.disk = n.disk
      /\ \A x \in Clusters : x # c /\ x # previous => l.fat[x] = n.fat[x]
  BY LinkedOnly, Zenon
<1> HIDE DEF l
<1>3. o.fat = l.fat /\ \A p \in Places : p[1] # c => At(o.disk, p) = At(l.disk, p)
  BY <1>2, BlankedOnly, Zenon
<1> HIDE DEF o
<1>4. ASSUME NEW x \in Clusters, m.fat[x] # Available PROVE o.fat[x] = m.fat[x]
  <2>1. x # c /\ x # previous
    BY <1>1, <1>4, Zenon
  <2>2. n.fat[x] = m.fat[x]
    BY <1>4, Zenon DEF Spare
  <2> QED BY <1>2, <1>3, <2>1, <2>2, Zenon
<1>5. ASSUME NEW p \in Places, p[1] = Root \/ m.fat[p[1]] # Available
      PROVE  At(o.disk, p) = At(m.disk, p)
  <2>1. p[1] # c
    BY <1>1, <1>5, ClusterFacts
  <2>2. At(n.disk, p) = At(m.disk, p)
    BY <1>5, Zenon DEF Spare
  <2>3. At(o.disk, p) = At(l.disk, p)
    BY <1>3, <2>1, Zenon
  <2> QED BY <1>2, <2>2, <2>3, Zenon
<1>6. Spare(m, o)
  BY <1>4, <1>5, Zenon DEF Spare
<1> QED BY <1>1, <1>6, Zenon DEF o, l

LEMMA ExamineTakes ==
    ASSUME NEW m, Sane(m), NEW a \in Searches(m), NEW c \in Clusters, NEW count,
           Taking(m, a)
    PROVE  Taking(m, Examine(a, c, count))
<1>1. /\ a.m \in AnyVolume /\ Sane(a.m) /\ a.previous \in Firsts
      /\ a = [m |-> a.m, taken |-> a.taken, first |-> a.first, previous |-> a.previous,
              done |-> a.done]
  BY FollowsSane DEF Searches, Made
<1>2. Spare(m, a.m) /\ (a.previous \in Clusters => m.fat[a.previous] = Available)
  BY Zenon DEF Taking
<1> DEFINE n == Blanked(Linked(a.m, a.previous, c), c)
<1> HIDE DEF n
<1>3. ASSUME a.m.fat[c] = Available PROVE Spare(m, n) /\ m.fat[c] = Available
  BY <1>1, <1>2, <1>3, SpareMore, Zenon DEF n
<1> DEFINE b == Examine(a, c, count)
<1>4. \/ b.m = a.m /\ b.previous = a.previous
      \/ a.m.fat[c] = Available /\ b.m = n /\ b.previous = c
  BY <1>1 DEF Examine, n
<1> HIDE DEF b
<1>5. Spare(m, b.m) /\ (b.previous \in Clusters => m.fat[b.previous] = Available)
  BY <1>2, <1>3, <1>4, Zenon
<1> QED BY <1>5, Zenon DEF Taking, b

LEMMA AllocationSpare ==
    ASSUME NEW m, Sane(m), NEW count, NEW hint \in Nat
    PROVE  Spare(m, FatAllocateClusters(m, count, hint).m)
<1> DEFINE total == TotalClustersInVolume
<1>1. PICK h : /\ SearchTurns(m, count, hint, h)
               /\ FatAllocateClusters(m, count, hint) = NoneLeft(h[total])
               /\ h[total] \in Searches(m)
  BY AllocationTurns
<1> DEFINE B == {k \in 0 .. total : h[k] \in Searches(m) /\ Taking(m, h[k])}
<1>2. total \in Nat
  BY VolumeAssumption
<1>3. 0 \in B
  <2>1. Taking(m, Search0(m))
    BY ClusterFacts DEF Taking, Search0, Spare
  <2>2. Search0(m) \in Searches(m)
    BY FollowsReflexive, FollowsSane DEF Search0, Searches, Made, Firsts, Available
  <2> QED BY <1>1, <1>2, <2>1, <2>2 DEF SearchTurns
<1>4. \A k \in 1 .. total : k - 1 \in B => k \in B
  <2> SUFFICES ASSUME NEW k \in 1 .. total, h[k - 1] \in Searches(m), Taking(m, h[k - 1])
               PROVE  h[k] \in Searches(m) /\ Taking(m, h[k])
    BY <1>2
  <2>1. Order(hint)[k] \in Clusters
    BY OrderType
  <2>2. /\ Taking(m, Examine(h[k - 1], Order(hint)[k], count))
        /\ Examine(h[k - 1], Order(hint)[k], count) \in Searches(m)
    BY <2>1, ExamineTakes, ExamineType
  <2> QED BY <1>1, <2>2 DEF SearchTurns
<1>5. Taking(m, h[total]) /\ h[total] \in Searches(m)
  <2>1. total \in B
    <3> HIDE DEF B, total
    <3> QED BY <1>2, <1>3, <1>4, UpTo
  <2> QED BY <2>1
<1> DEFINE b == h[total]
<1> HIDE DEF b
<1>6. b \in Searches(m) /\ Spare(m, b.m) /\ FatAllocateClusters(m, count, hint) = NoneLeft(b)
  BY <1>1, <1>5 DEF Taking, b
<1>7. b.m \in AnyVolume
  BY <1>6 DEF Searches, Made
<1>8. NoneLeft(b).m.fat = b.m.fat /\ NoneLeft(b).m.disk = b.m.disk
  BY <1>6, <1>7 DEF NoneLeft, Searches, AnyVolume
<1> QED BY <1>6, <1>8 DEF Spare

-----------------------------------------------------------------------------
(* A device that takes no write.                                           *)

LEMMA BlankedNone ==
    ASSUME NEW m, Sane(m), m.writes = 0, NEW c \in Clusters
    PROVE  ~Ok(Blanked(m, c)) /\ Blanked(m, c).fat = m.fat
<1>1. PICK h : BlankTurns(m, c, h) /\ Blanked(m, c) = h[Units]
  BY BlankedTurns
<1>2. Blanked(m, c).fat = m.fat
  BY BlankedOnly
<1> DEFINE B == {k \in 0 .. Units : k = 0 \/ ~Ok(h[k])}
<1>3. 0 \in B
  BY Sizes
<1>4. ASSUME NEW k \in 1 .. Units, k - 1 \in B PROVE k \in B
  <2>1. h[k] = Write(h[k - 1], <<c, k>>, Blank) /\ h[0] = m
    BY <1>1 DEF BlankTurns
  <2>2. ~Ok(h[k])
    <3>1. CASE k = 1
      <4>1. h[k] = Write(m, <<c, k>>, Blank)
        BY <2>1, <3>1
      <4> QED BY <4>1, WriteNone DEF Sane
    <3>2. CASE k # 1
      <4>1. ~Ok(h[k - 1])
        BY <1>4, <3>2
      <4> QED BY <2>1, <4>1 DEF Write
    <3> QED BY <3>1, <3>2
  <2> QED BY <2>2, Sizes
<1>5. Units \in B
  <2> HIDE DEF B
  <2> QED BY <1>3, <1>4, Sizes, UpTo
<1> QED BY <1>1, <1>2, <1>5, Sizes

\* The state of the loop of an allocation that started with m.
Stalled(m, a) ==
    \/ a.m = m /\ a.taken = 0 /\ a.previous = 0 /\ ~a.done
    \/ ~Ok(a.m) /\ LikeTable(m, a.m)

LEMMA ExamineStalls ==
    ASSUME NEW m, Sane(m), m.writes = 0, NEW count \in Nat, count >= 1,
           NEW a \in Searches(m), Stalled(m, a), NEW c \in Clusters
    PROVE  Stalled(m, Examine(a, c, count))
<1> DEFINE l == Linked(m, 0, c)
           n == Blanked(l, c)
<1>1. m \in AnyVolume /\ DOMAIN m.fat = Clusters
  BY DEF Sane, AnyVolume, AnyTable
<1>2. ASSUME m.fat[c] = Available PROVE ~Ok(n) /\ LikeTable(m, n)
  <2>1. 0 \in Firsts /\ c \in Firsts /\ LAST \notin Clusters /\ Available \notin Clusters
    BY ClusterFacts DEF Firsts, Available, Root
  <2>2. Sane(l)
    BY <2>1, LinkedOnly
  <2>3. l.writes = 0 /\ (l.fat = m.fat \/ Changed(m.fat, c, LAST, l.fat))
    BY <1>1 DEF Linked, SetFatEntry, AnyVolume, Changed
  <2> HIDE DEF l
  <2>4. ~Ok(n) /\ n.fat = l.fat
    BY <2>2, <2>3, BlankedNone
  <2>5. \A x \in Clusters : Alike(m.fat, l.fat, x)
    BY <1>1, <1>2, <2>1, <2>3 DEF Alike, Changed
  <2> HIDE DEF n
  <2> QED BY <2>4, <2>5, Zenon DEF LikeTable
<1>3. CASE a.done \/ ~Ok(a.m)
  BY <1>3, Zenon DEF Examine
<1>4. CASE ~a.done /\ Ok(a.m)
  <2>1. a.m = m /\ a.taken = 0 /\ a.previous = 0
    BY <1>4, Zenon DEF Stalled
  <2>2. ~(a.taken >= count)
    BY <2>1
  <2> DEFINE b == Examine(a, c, count)
  <2>3. CASE m.fat[c] # Available
    <3>1. b = a
      BY <1>4, <2>1, <2>2, <2>3, Zenon DEF Examine
    <3> QED BY <3>1
  <2>4. CASE m.fat[c] = Available
    <3>1. b.m = n
      BY <1>4, <2>1, <2>2, <2>4 DEF Examine, Searches
    <3> HIDE DEF b, n
    <3>2. ~Ok(b.m) /\ LikeTable(m, b.m)
      BY <1>2, <2>4, <3>1
    <3> QED BY <3>2, Zenon DEF Stalled, b
  <2> QED BY <2>3, <2>4
<1> QED BY <1>3, <1>4

LEMMA AllocationNone ==
    ASSUME NEW m, Sane(m), m.writes = 0, NEW count \in Nat, count >= 1, NEW hint \in Nat
    PROVE  LET a == FatAllocateClusters(m, count, hint) IN ~Ok(a.m) /\ LikeTable(m, a.m)
<1> DEFINE total == TotalClustersInVolume
<1>1. PICK h : /\ SearchTurns(m, count, hint, h)
               /\ FatAllocateClusters(m, count, hint) = NoneLeft(h[total])
               /\ h[total] \in Searches(m)
  BY AllocationTurns
<1> DEFINE B == {k \in 0 .. total : h[k] \in Searches(m) /\ Stalled(m, h[k])}
<1>2. total \in Nat
  BY VolumeAssumption
<1>3. 0 \in B
  <2>1. Stalled(m, Search0(m))
    BY DEF Stalled, Search0
  <2>2. Search0(m) \in Searches(m)
    BY FollowsReflexive, FollowsSane DEF Search0, Searches, Made, Firsts, Available
  <2> QED BY <1>1, <1>2, <2>1, <2>2 DEF SearchTurns
<1>4. \A k \in 1 .. total : k - 1 \in B => k \in B
  <2> SUFFICES ASSUME NEW k \in 1 .. total, h[k - 1] \in Searches(m), Stalled(m, h[k - 1])
               PROVE  h[k] \in Searches(m) /\ Stalled(m, h[k])
    BY <1>2
  <2>1. Order(hint)[k] \in Clusters
    BY OrderType
  <2>2. /\ Stalled(m, Examine(h[k - 1], Order(hint)[k], count))
        /\ Examine(h[k - 1], Order(hint)[k], count) \in Searches(m)
    BY <2>1, ExamineStalls, ExamineType
  <2> QED BY <1>1, <2>2 DEF SearchTurns
<1>5. Stalled(m, h[total]) /\ h[total] \in Searches(m)
  <2>1. total \in B
    <3> HIDE DEF B, total
    <3> QED BY <1>2, <1>3, <1>4, UpTo
  <2> QED BY <2>1
<1> DEFINE b == h[total]
           a == FatAllocateClusters(m, count, hint)
<1> HIDE DEF a, b
<1>6. b \in Searches(m) /\ Stalled(m, b) /\ a = NoneLeft(b)
  BY <1>1, <1>5 DEF a, b
<1>7. b.m \in AnyVolume
  BY <1>6 DEF Searches, Made
<1>8. CASE ~Ok(b.m)
  <2>1. a = b
    BY <1>6, <1>8 DEF NoneLeft
  <2>2. LikeTable(m, b.m)
    <3>1. CASE b.m = m
      BY <3>1, LikeReflexive
    <3>2. CASE b.m # m
      BY <1>6, <3>2, Zenon DEF Stalled
    <3> QED BY <3>1, <3>2
  <2> QED BY <1>8, <2>1, <2>2 DEF a
<1>9. CASE Ok(b.m)
  <2>1. b.m = m /\ ~b.done
    BY <1>6, <1>9, Zenon DEF Stalled
  <2>2. a.m.fat = m.fat /\ a.m.status = "ENOSPC"
    BY <1>6, <1>7, <1>9, <2>1 DEF NoneLeft, Searches, AnyVolume
  <2>3. LikeTable(m, a.m)
    BY <2>2, LikeReflexive
  <2> QED BY <2>2, <2>3 DEF Ok, a
<1> QED BY <1>8, <1>9

\* An increase is an allocation or nothing.
Lengthens(m, f, n) ==
    \E count \in Nat, hint \in Nat :
        /\ count >= 1
        /\ n = Joined(FatAllocateClusters(m, count, hint), f,
                      Chain(m.fat, m.file[f].dirent.first))

LEMMA IncreaseIs ==
    ASSUME NEW m, NEW f, NEW size \in Nat
    PROVE  LET n == FatIncreaseFileAllocation(m, f, size) IN n = m \/ Lengthens(m, f, n)
<1> DEFINE cs == Chain(m.fat, m.file[f].dirent.first)
           needed == (size + Units - 1) \div Units
           n == FatIncreaseFileAllocation(m, f, size)
           hint == IF cs = <<>> THEN 2 ELSE Last(cs)
           a == FatAllocateClusters(m, needed - Len(cs), hint)
<1>1. needed \in Nat
  <2>1. size + Units - 1 \in Nat
    BY Sizes
  <2> QED BY <2>1, Sizes, Division
<1>2. Len(cs) \in Nat /\ cs \in Seq(Clusters)
  BY ChainAlong, ChainType
<1>3. n = IF Len(cs) >= needed THEN m ELSE Joined(a, f, cs)
  BY DEF FatIncreaseFileAllocation, GrownTo
<1>4. hint \in Nat
  <2>1. CASE cs = <<>>
    BY <2>1
  <2>2. CASE cs # <<>>
    <3> HIDE DEF cs
    <3>1. Last(cs) \in Clusters
      BY <1>2, <2>2 DEF Last
    <3> QED BY <2>2, <3>1, ClusterFacts
  <2> QED BY <2>1, <2>2
<1> HIDE DEF n, needed, hint
<1>5. CASE ~(Len(cs) >= needed)
  <2>1. needed - Len(cs) \in Nat /\ needed - Len(cs) >= 1
    BY <1>1, <1>2, <1>5
  <2>2. n = Joined(a, f, cs)
    BY <1>3, <1>5
  <2> QED BY <1>4, <2>1, <2>2, Zenon DEF Lengthens, n
<1> QED BY <1>3, <1>5 DEF n

LEMMA GrowNone ==
    ASSUME NEW m, Sane(m), m.writes = 0, NEW f, NEW size \in Nat
    PROVE  LikeTable(m, FatIncreaseFileAllocation(m, f, size))
<1> DEFINE n == FatIncreaseFileAllocation(m, f, size)
<1>1. CASE n = m
  BY <1>1, LikeReflexive
<1>2. CASE Lengthens(m, f, n)
  <2>1. PICK count \in Nat, hint \in Nat :
           /\ count >= 1
           /\ n = Joined(FatAllocateClusters(m, count, hint), f,
                         Chain(m.fat, m.file[f].dirent.first))
    BY <1>2, Zenon DEF Lengthens
  <2> DEFINE a == FatAllocateClusters(m, count, hint)
  <2>2. ~Ok(a.m) /\ LikeTable(m, a.m)
    BY <2>1, AllocationNone
  <2> HIDE DEF a, n
  <2>3. n = a.m
    BY <2>1, <2>2, Zenon DEF Joined, a
  <2> QED BY <2>2, <2>3 DEF n
<1> QED BY <1>1, <1>2, IncreaseIs

-----------------------------------------------------------------------------
(* Entries and files that grow.                                            *)

\* A device that takes no write keeps its disk, and its entries as long as the table
\* leads the same way.
LEMMA NoneStays ==
    ASSUME NEW m, m.writes = 0, NEW n, Follows(m, n), LikeTable(m, n), NEW T
    PROVE  Stays(m, n, T)
<1>1. n.disk = m.disk
  BY DEF Follows
<1> QED BY <1>1, LikeStays, Zenon

\* An entry of the file table is written to its place.
LEMMA DirentStays ==
    ASSUME NEW m, NEW full, NEW X, Whole(m.disk, m.fat, full, X), NEW f \in FileIds,
           NEW o \in AnyVolume, o.disk = m.disk, o.fat = m.fat,
           o.file[f].where \in Places, o.file[f].where[1] \in AreaOf(m.disk, m.fat),
           ~RootDir(m.disk, o.file[f].where)
    PROVE  Stays(m, WriteDirent(o, f), o.file[f].where)
<1> DEFINE T == o.file[f].where
           v == o.file[f].dirent
           n == Write(o, T, v)
<1>1. v \in AnyUnit
  BY EntryFields
<1> HIDE DEF T, v, n
<1>2. T \in Places /\ T[1] \in AreaOf(m.disk, m.fat) /\ ~RootDir(m.disk, T)
  BY Zenon DEF T
<1>3. n.fat = m.fat /\ (n.disk = m.disk \/ n.disk = Put(m.disk, T, v))
  <2>1. n.fat = o.fat /\ (n.disk = o.disk \/ n.disk = Put(o.disk, T, v))
    BY <1>1, <1>2, WriteOne, Zenon DEF n
  <2> QED BY <2>1
<1>4. Stays(m, n, T)
  BY <1>1, <1>2, <1>3, EntryStays, Zenon
<1>5. WriteDirent(o, f) = n
  BY Zenon DEF WriteDirent, n, T, v
<1> QED BY <1>4, <1>5, Zenon DEF T

\* The place of an entry that leads to no directory.
LEMMA HeldPlace ==
    ASSUME NEW disk, NEW fat, NEW p \in LiveOf(disk, fat),
           At(disk, p).dir => At(disk, p).first = Available
    PROVE  p \in Places /\ p[1] \in AreaOf(disk, fat) /\ ~RootDir(disk, p)
<1>1. p \in Places /\ p[1] \in AreaOf(disk, fat)
  BY LivePlace
<1>2. ~RootDir(disk, p)
  BY ClusterFacts DEF RootDir
<1> QED BY <1>1, <1>2

\* No cluster of an entry is one of a file that is another entry.
LEMMA OtherChain ==
    ASSUME NEW disk, NEW fat, NEW full, NEW X, Whole(disk, fat, full, X),
           NEW T \in LiveOf(disk, fat), NEW c \in On(fat, At(disk, T).first),
           NEW p \in LiveOf(disk, fat), p # T
    PROVE  c \notin On(fat, At(disk, p).first)
<1>1. Apart(disk, fat)
  BY WholeApart
<1>2. On(fat, At(disk, p).first) \cap On(fat, At(disk, T).first) = {}
  BY <1>1, Zenon DEF Apart
<1> QED BY <1>2

LEMMA AttachStays ==
    ASSUME NEW n \in AnyVolume, NEW f \in FileIds, NEW T, NEW full, NEW X,
           Whole(n.disk, n.fat, full, X), T = n.file[f].where, T \in LiveOf(n.disk, n.fat),
           At(n.disk, T).dir => At(n.disk, T).first = Available, NEW first \in Firsts
    PROVE  Stays(n, Attached(n, f, first), T)
<1> DEFINE v == [n.file[f].dirent EXCEPT !.first = first]
           o == [n EXCEPT !.file[f].dirent = v]
<1>1. n.file[f].dirent \in AnyUnit
  BY EntryFields
<1>2. v \in AnyUnit
  BY <1>1 DEF AnyUnit, Firsts
<1> HIDE DEF v
<1>3. Untouched(n, o) /\ o.file[f].where = T
  BY <1>2, DirentSet
<1>4. [n EXCEPT !.file[f].dirent.first = first] = o
  BY FieldTypes DEF AnyVolume, AnyFile, v
<1>5. Attached(n, f, first) = WriteDirent(o, f)
  BY <1>4 DEF Attached
<1> HIDE DEF o
<1>6. o \in AnyVolume /\ o.disk = n.disk /\ o.fat = n.fat
  BY <1>3 DEF Untouched
<1>7. T \in Places /\ T[1] \in AreaOf(n.disk, n.fat) /\ ~RootDir(n.disk, T)
  BY HeldPlace
<1>8. Stays(n, WriteDirent(o, f), o.file[f].where)
  BY <1>3, <1>6, <1>7, DirentStays
<1> QED BY <1>3, <1>5, <1>8

LEMMA JoinedStays ==
    ASSUME NEW m, NEW f \in FileIds, NEW T, T = m.file[f].where, Fine(m, {}, T), Held(m, f),
           m.file[f].dirent.dir => m.file[f].dirent.first = Available,
           NEW a, NEW k, Found(m, a.m, a.first, k), Fine(a.m, {a.first}, T), Ok(a.m),
           SameFiles(m, a.m)
    PROVE  Stays(a.m, Joined(a, f, Chain(m.fat, m.file[f].dirent.first)), T)
<1> DEFINE h == m.file[f].dirent.first
           cs == Chain(m.fat, h)
           n == a.m
           o == Joined(a, f, cs)
<1> HIDE DEF n, o
<1>1. n \in AnyVolume /\ m \in AnyVolume /\ h \in Firsts /\ a.first \in Clusters
      /\ ~n.refused /\ ~m.refused
  BY EntryFields DEF n, Fine, Sane, Found
<1>2. Whole(n.disk, n.fat, n.full, {a.first}) /\ Whole(m.disk, m.fat, m.full, {})
  BY <1>1, Zenon DEF n, Fine, Good
<1>3. T \in LiveOf(m.disk, m.fat) /\ At(m.disk, T) = m.file[f].dirent
  BY DEF Held
<1>4. T \in LiveOf(n.disk, n.fat) /\ At(n.disk, T) = m.file[f].dirent
  <2>1. Found(m, n, a.first, k)
    BY DEF n
  <2> QED BY <1>3, <2>1, FoundLive
<1>5. n.file = m.file
  BY DEF n, SameFiles
<1>6. CASE cs = <<>>
  <2>1. h = Available
    BY <1>1, <1>6, ChainStarts DEF Firsts
  <2>2. o = Attached(n, f, a.first)
    BY <1>6 DEF Joined, Attached, n, o
  <2>3. a.first \in Firsts
    BY <1>1 DEF Firsts
  <2>4. Stays(n, Attached(n, f, a.first), T)
    BY <1>1, <1>2, <1>4, <1>5, <2>1, <2>3, AttachStays
  <2> QED BY <2>2, <2>4 DEF n, o
<1>7. CASE cs # <<>>
  <2>1. h \in Clusters
    BY <1>7, OnNothing
  <2>2. h # Available
    BY <2>1, ClusterFacts
  <2>3. ~m.file[f].dirent.dir
    BY <2>2
  <2>4. h \in HeadsOf(m.disk, m.fat) /\ Starts(m.fat, h)
    BY <1>2, <1>3, <2>2, HeadOf
  <2>5. On(n.fat, h) = On(m.fat, h) /\ \A c \in On(m.fat, h) : n.fat[c] = m.fat[c]
    <3>1. Aside(m, n, a.first, h)
      BY <2>4, FoundHeads DEF n
    <3> QED BY <3>1 DEF Aside
  <2> DEFINE last == Last(cs)
  <2>6. cs \in Seq(Clusters) /\ Len(cs) >= 1 /\ cs[Len(cs)] \in On(m.fat, h)
    BY <2>1, ChainFacts
  <2>7. m.fat[cs[Len(cs)]] \notin Clusters
    BY <2>4, HeadEnds
  <2>8. last = cs[Len(cs)]
    BY <2>6 DEF Last
  <2> HIDE DEF last
  <2>9. last \in On(n.fat, h) /\ n.fat[last] \notin Clusters /\ last \in Clusters
    BY <2>5, <2>6, <2>7, <2>8, OnFinite
  <2>10. o = SetFatEntry(n, last, a.first)
    BY <1>7 DEF Joined, n, o, last
  <2>11. o.disk = n.disk /\ Changed(n.fat, last, a.first, o.fat)
    <3>1. Ok(n)
      BY DEF n
    <3> QED BY <1>1, <2>10, <3>1 DEF SetFatEntry, Changed, AnyVolume
  <2>12. n.fat \in AnyTable
    BY <1>1, FieldTypes
  <2>13. \A p \in LiveOf(n.disk, n.fat) : p # T /\ ~At(n.disk, p).dir =>
            last \notin On(n.fat, At(n.disk, p).first)
    BY <1>2, <1>4, <2>9, OtherChain
  <2>14. Stays(n, o, T)
    BY <2>9, <2>11, <2>12, <2>13, LinkStays
  <2> QED BY <2>14 DEF n, o
<1> QED BY <1>6, <1>7

LEMMA GrowStays ==
    ASSUME NEW m, NEW f \in FileIds, NEW T, T = m.file[f].where, Fine(m, {}, T), Ok(m),
           ~m.refused => /\ Held(m, f)
                         /\ m.file[f].dirent.dir => m.file[f].dirent.first = Available,
           NEW size \in Nat
    PROVE  Stays(m, FatIncreaseFileAllocation(m, f, size), T)
<1> DEFINE n == FatIncreaseFileAllocation(m, f, size)
<1>1. Sane(m) /\ (m.refused => m.writes = 0)
  BY Zenon DEF Fine
<1>2. CASE m.refused
  <2>1. Follows(m, n) /\ LikeTable(m, n)
    BY <1>1, <1>2, GrownFollows, GrowNone
  <2> QED BY <1>1, <1>2, <2>1, NoneStays
<1>3. CASE ~m.refused /\ n = m
  BY <1>3, StaysSame
<1>4. CASE ~m.refused /\ Lengthens(m, f, n)
  <2>1. PICK count \in Nat, hint \in Nat :
           /\ count >= 1
           /\ n = Joined(FatAllocateClusters(m, count, hint), f,
                         Chain(m.fat, m.file[f].dirent.first))
    BY <1>4, Zenon DEF Lengthens
  <2> DEFINE a == FatAllocateClusters(m, count, hint)
  <2>2. /\ Fine(a.m, IF Ok(a.m) THEN {a.first} ELSE {}, T) /\ SameFiles(m, a.m)
        /\ Ok(a.m) => FoundEnough(m, a.m, a.first, count)
    BY <2>1, AllocationFine
  <2>3. Whole(m.disk, m.fat, m.full, {})
    BY <1>4, Zenon DEF Fine, Good
  <2>4. Stays(m, a.m, T)
    BY <1>1, <2>3, AllocationSpare, SpareStays
  <2> HIDE DEF a, n
  <2>5. n = Joined(a, f, Chain(m.fat, m.file[f].dirent.first))
    BY <2>1 DEF a
  <2>6. CASE ~Ok(a.m)
    <3>1. n = a.m
      BY <2>5, <2>6, Zenon DEF Joined
    <3> QED BY <2>4, <3>1 DEF n
  <2>7. CASE Ok(a.m)
    <3>1. PICK k \in Nat : Found(m, a.m, a.first, k)
      BY <2>2, <2>7, Zenon DEF FoundEnough
    <3>2. Fine(a.m, {a.first}, T)
      BY <2>2, <2>7
    <3>3. Stays(a.m, n, T)
      BY <1>4, <2>2, <2>5, <2>7, <3>1, <3>2, JoinedStays
    <3> QED BY <2>4, <3>3, StaysTransitive DEF n
  <2> QED BY <2>6, <2>7
<1> QED BY <1>2, <1>3, <1>4, IncreaseIs

-----------------------------------------------------------------------------
(* Writes to a file.                                                       *)

\* A device that takes no write takes no entry.
LEMMA DirentNone ==
    ASSUME NEW o \in AnyVolume, o.writes = 0, NEW f
    PROVE  WriteDirent(o, f).disk = o.disk /\ WriteDirent(o, f).fat = o.fat
<1>1. LET n == Write(o, o.file[f].where, o.file[f].dirent)
      IN  ~Ok(n) /\ n.fat = o.fat /\ n.disk = o.disk /\ n.writes = 0
  BY WriteNone
<1> QED BY <1>1, Zenon DEF WriteDirent

\* The entry of a held file is written anew.
LEMMA AgainStays ==
    ASSUME NEW m, NEW f \in FileIds, NEW T, T = m.file[f].where, Fine(m, {}, T),
           ~m.refused => Held(m, f) /\ ~m.file[f].dirent.dir, NEW v \in AnyUnit
    PROVE  Stays(m, WriteDirent([m EXCEPT !.file[f].dirent = v], f), T)
<1> DEFINE o == [m EXCEPT !.file[f].dirent = v]
<1>1. Sane(m) /\ m \in AnyVolume /\ (m.refused => m.writes = 0)
  BY Zenon DEF Fine, Sane
<1>2. Untouched(m, o) /\ o.file[f].where = T
  BY <1>1, DirentSet
<1> HIDE DEF o
<1>3. o \in AnyVolume /\ o.disk = m.disk /\ o.fat = m.fat /\ o.writes = m.writes
  BY <1>2, Zenon DEF Untouched
<1>4. CASE m.refused
  <2>1. WriteDirent(o, f).disk = m.disk /\ WriteDirent(o, f).fat = m.fat
    BY <1>1, <1>3, <1>4, DirentNone
  <2> QED BY <2>1, StaysSame DEF o
<1>5. CASE ~m.refused
  <2>1. Whole(m.disk, m.fat, m.full, {})
    BY <1>5, Zenon DEF Fine, Good
  <2>2. T \in LiveOf(m.disk, m.fat) /\ ~At(m.disk, T).dir
    BY <1>5 DEF Held
  <2>3. T \in Places /\ T[1] \in AreaOf(m.disk, m.fat) /\ ~RootDir(m.disk, T)
    BY <2>2, HeldPlace
  <2>4. Stays(m, WriteDirent(o, f), o.file[f].where)
    BY <1>2, <1>3, <2>1, <2>3, DirentStays
  <2> QED BY <1>2, <2>4 DEF o
<1> QED BY <1>4, <1>5

LEMMA ExtendedStays ==
    ASSUME NEW m, NEW f \in FileIds, NEW T, T = m.file[f].where, Fine(m, {}, T),
           Ok(m) /\ ~m.refused => Held(m, f) /\ ~m.file[f].dirent.dir, NEW beyond \in Nat
    PROVE  Stays(m, Extended(m, f, beyond), T)
<1> DEFINE v == [m.file[f].dirent EXCEPT !.size = beyond]
<1>1. CASE ~Ok(m)
  BY <1>1, StaysSame DEF Extended
<1>2. CASE Ok(m)
  <2>1. m \in AnyVolume /\ m.file[f].dirent \in AnyUnit /\ m.file[f] \in AnyFile
    BY EntryFields DEF Fine, Sane
  <2>2. [m EXCEPT !.file[f].dirent.size = beyond] = [m EXCEPT !.file[f].dirent = v]
    BY <2>1, FieldTypes DEF AnyVolume, AnyFile
  <2>3. v \in AnyUnit
    BY <2>1 DEF AnyUnit
  <2>4. Extended(m, f, beyond) = WriteDirent([m EXCEPT !.file[f].dirent = v], f)
    BY <1>2, <2>2 DEF Extended
  <2> HIDE DEF v
  <2> QED BY <1>2, <2>3, <2>4, AgainStays
<1> QED BY <1>1, <1>2

LEMMA SizedStays ==
    ASSUME NEW m, NEW f \in FileIds, NEW T, Writing(m, f, T), Ok(m), NEW beyond \in Nat
    PROVE  Stays(m, Sized(m, f, beyond), T)
<1> DEFINE a == FatIncreaseFileAllocation(m, f, beyond)
           n == Extended(a, f, beyond)
<1>1. CASE beyond <= m.file[f].dirent.size
  BY <1>1, StaysSame DEF Sized
<1>2. CASE ~(beyond <= m.file[f].dirent.size)
  <2>1. Sized(m, f, beyond) = n
    BY <1>2 DEF Sized
  <2>2. Fine(m, {}, T) /\ m.file[f].where = T
    BY DEF Writing
  <2>3. ~m.refused => Held(m, f) /\ ~m.file[f].dirent.dir
    BY DEF Writing, Writable
  <2>4. Enlarged(m, a, f, T, beyond)
    BY <2>2, <2>3, GrowEnlarges
  <2>5. Stays(m, a, T)
    BY <2>2, <2>3, GrowStays
  <2> HIDE DEF a
  <2>6. /\ Fine(a, {}, T) /\ Later(m, a, f) /\ a.file[f].where = T
        /\ Ok(a) /\ ~a.refused => Grown(m, a, f, beyond)
    BY <2>4 DEF Enlarged
  <2>7. ASSUME Ok(a), ~a.refused
        PROVE  Held(a, f) /\ ~a.file[f].dirent.dir
    <3>1. /\ Held(a, f)
          /\ a.file[f].dirent = [m.file[f].dirent EXCEPT !.first = a.file[f].dirent.first]
      BY <2>6, <2>7 DEF Grown
    <3>2. ~m.refused
      BY <2>6, <2>7 DEF Later
    <3>3. m.file[f].dirent \in AnyUnit
      BY EntryFields DEF Writing, Fine, Sane
    <3> QED BY <2>3, <3>1, <3>2, <3>3 DEF AnyUnit
  <2>8. Stays(a, n, T)
    BY <2>6, <2>7, ExtendedStays
  <2> HIDE DEF n
  <2> QED BY <2>1, <2>5, <2>8, StaysTransitive
<1> QED BY <1>1, <1>2

\* A unit put into a file changes no table, and one unit of the disk or none.
LEMMA PutTable ==
    ASSUME NEW m \in AnyVolume, NEW f \in FileIds, NEW vbo \in Nat, NEW unit
    PROVE  LET n == PutAt(m, f, vbo, unit)
           IN  /\ n.fat = m.fat
               /\ m.writes = 0 => n.disk = m.disk
               /\ n.refused /\ ~m.refused => n.disk = m.disk
<1> DEFINE l == Loaded(m, f, vbo)
           n == PutAt(m, f, vbo, unit)
<1>1. l \in AnyVolume /\ l.disk = m.disk /\ l.fat = m.fat /\ l.writes = m.writes
      /\ l.refused = m.refused
  BY LoadedUntouched, Zenon DEF Untouched
<1>2. n = m \/ n = Failed(l, "EINVAL") \/ n = Write(l, Lbo(l, vbo), unit)
  BY DEF PutAt, WriteAt
<1> HIDE DEF l, n
<1>3. CASE n = m
  BY <1>3 DEF n
<1>4. CASE n = Failed(l, "EINVAL")
  BY <1>1, <1>4 DEF Failed, AnyVolume, n
<1>5. CASE n = Write(l, Lbo(l, vbo), unit)
  BY <1>1, <1>5 DEF Write, AnyVolume, n
<1> QED BY <1>2, <1>3, <1>4, <1>5

\* A unit is put into a held file.
LEMMA PutStays ==
    ASSUME NEW m, NEW f \in FileIds, NEW T, T = m.file[f].where, Fine(m, {}, T), Ok(m),
           NEW vbo \in Nat, NEW unit \in AnyUnit,
           ~m.refused => Held(m, f) /\ PutReady(m, f, unit)
    PROVE  Stays(m, PutAt(m, f, vbo, unit), T)
<1> DEFINE n == PutAt(m, f, vbo, unit)
<1>1. m \in AnyVolume /\ (m.refused => m.writes = 0)
  BY Zenon DEF Fine, Sane
<1>2. PutDone(m, n, f, unit, T)
  BY PutFine
<1>3. /\ n.fat = m.fat
      /\ m.writes = 0 => n.disk = m.disk
      /\ n.refused /\ ~m.refused => n.disk = m.disk
  BY <1>1, PutTable
<1> HIDE DEF n
<1>4. CASE n.refused \/ m.refused
  BY <1>1, <1>3, <1>4, StaysSame DEF n
<1>5. CASE ~n.refused /\ ~m.refused
  <2>1. /\ LiveOf(n.disk, n.fat) = LiveOf(m.disk, m.fat)
        /\ \A p \in LiveOf(m.disk, m.fat) : At(n.disk, p) = At(m.disk, p)
        /\ \A p \in Places : \/ At(n.disk, p) = At(m.disk, p)
                             \/ p[1] \in On(m.fat, m.file[f].dirent.first)
    BY <1>2, <1>5 DEF PutDone, PutKept
  <2>2. Whole(m.disk, m.fat, m.full, {})
    BY <1>5, Zenon DEF Fine, Good
  <2>3. T \in LiveOf(m.disk, m.fat) /\ At(m.disk, T) = m.file[f].dirent
    BY <1>5 DEF Held
  <2>4. ASSUME NEW p \in LiveOf(m.disk, m.fat), p # T
        PROVE  SameFile(m, n, p)
    <3>1. ASSUME NEW c \in On(m.fat, At(m.disk, p).first), NEW u \in 1 .. Units
          PROVE  At(n.disk, <<c, u>>) = At(m.disk, <<c, u>>)
      <4>1. c \in Clusters
        BY OnFinite
      <4>2. <<c, u>> \in Places
        BY <4>1, ClusterFacts, PlaceOf DEF Size
      <4>3. c \notin On(m.fat, m.file[f].dirent.first)
        BY <2>2, <2>3, <2>4, OtherChain
      <4> QED BY <2>1, <4>2, <4>3
    <3>2. SameData(m, n, At(m.disk, p).first)
      BY <1>3, <3>1 DEF SameData
    <3> QED BY <2>1, <2>4, <3>2 DEF SameFile
  <2> QED BY <2>4 DEF Stays, n
<1> QED BY <1>4, <1>5

LEMMA PutNextStays ==
    ASSUME NEW m, NEW f \in FileIds, NEW T, Writing(m, f, T), NEW unit \in AnyUnit
    PROVE  Stays(m, PutNext(m, f, unit), T)
<1> DEFINE n == PutAt(m, f, m.file[f].position, unit)
           o == Advanced(n, f)
<1>1. Fine(m, {}, T) /\ m.file[f].where = T /\ m \in AnyVolume
      /\ m.file[f].position \in Nat
  BY EntryFields DEF Writing, Fine, Sane
<1>2. Stays(m, n, T)
  <2>1. CASE ~Ok(m)
    BY <2>1, StaysSame DEF PutAt
  <2>2. CASE Ok(m)
    <3>1. ~m.refused => Held(m, f) /\ ~m.file[f].dirent.dir /\ McbHeld(m, f)
      BY <2>2 DEF Writing, Writable
    <3>2. ~m.refused => PutReady(m, f, unit)
      BY <1>1, <3>1, DataReady
    <3> QED BY <1>1, <2>2, <3>1, <3>2, PutStays
  <2> QED BY <2>1, <2>2
<1>3. PutNext(m, f, unit) = o
  BY DEF PutNext
<1>4. n \in AnyVolume
  <2>1. Writes(m, n, f, T)
    BY <1>1, PutWrites
  <2> QED BY <2>1 DEF Writes, Writing, Fine, Sane
<1> HIDE DEF n
<1>5. o.disk = n.disk /\ o.fat = n.fat
  BY <1>4 DEF Advanced, AnyVolume
<1> HIDE DEF o
<1>6. Stays(n, o, T)
  BY <1>5, StaysSame
<1> QED BY <1>2, <1>3, <1>6, StaysTransitive

\* What a flush changes is not in the cached table.
LEMMA FlushSame ==
    ASSUME NEW m \in AnyVolume
    PROVE  Flush(m).disk = m.disk /\ Flush(m).fat = m.fat
BY DEF Flush, AnyVolume

\* Data is written to the file that is open.
LEMMA WriteStays ==
    ASSUME NEW m, NEW f \in FileIds, NEW T, Writing(m, f, T), Ok(m),
           NEW units \in Seq(AnyUnit)
    PROVE  Stays(m, FatWrite(m, f, units), T)
<1>1. Sane(m)
  BY DEF Writing, Fine
<1>2. PICK h : /\ PutTurns(m, f, units, h)
               /\ FatWrite(m, f, units) = Flush(h[Len(units)])
  BY <1>1, WriteTurns
<1> DEFINE K == {k \in 0 .. Len(units) : Writing(h[k], f, T) /\ Stays(m, h[k], T)}
<1>3. Len(units) \in Nat /\ m.file[f].position + Len(units) \in Nat
  <2>1. m.file[f].position \in Nat
    BY EntryFields DEF Writing, Fine, Sane
  <2> QED BY <2>1
<1>4. 0 \in K
  <2>1. h[0] = Sized(m, f, m.file[f].position + Len(units))
    BY <1>2 DEF PutTurns
  <2>2. Writing(h[0], f, T)
    BY <1>3, <2>1, SizedWrites DEF Writes
  <2>3. Stays(m, h[0], T)
    BY <1>3, <2>1, SizedStays
  <2> QED BY <1>3, <2>2, <2>3
<1>5. ASSUME NEW k \in 1 .. Len(units), k - 1 \in K PROVE k \in K
  <2>1. Writing(h[k - 1], f, T) /\ Stays(m, h[k - 1], T)
    BY <1>5
  <2>2. units[k] \in AnyUnit
    BY <1>3
  <2>3. h[k] = PutNext(h[k - 1], f, units[k])
    BY <1>2 DEF PutTurns
  <2>4. Writing(h[k], f, T)
    BY <2>1, <2>2, <2>3, PutNextWrites DEF Writes
  <2>5. Stays(h[k - 1], h[k], T)
    BY <2>1, <2>2, <2>3, PutNextStays
  <2>6. Stays(m, h[k], T)
    BY <2>1, <2>5, StaysTransitive
  <2> QED BY <1>3, <2>4, <2>6
<1> HIDE DEF K
<1>6. Len(units) \in K
  BY <1>3, <1>4, <1>5, UpTo
<1>7. Writing(h[Len(units)], f, T) /\ Stays(m, h[Len(units)], T)
  BY <1>6 DEF K
<1>8. h[Len(units)] \in AnyVolume
  BY <1>7 DEF Writing, Fine, Sane
<1>9. Stays(h[Len(units)], Flush(h[Len(units)]), T)
  BY <1>8, FlushSame, StaysSame
<1> QED BY <1>2, <1>7, <1>9, StaysTransitive

-----------------------------------------------------------------------------
(* Truncation and deletion.                                                *)

\* Every entry stays.
AllStay(m, n) == \A p \in LiveOf(m.disk, m.fat) : SameFile(m, n, p)

LEMMA AllStays ==
    ASSUME NEW m, NEW n, AllStay(m, n), NEW T
    PROVE  Stays(m, n, T)
BY DEF AllStay, Stays

LEMMA AllSame ==
    ASSUME NEW m, NEW n, n.disk = m.disk, n.fat = m.fat
    PROVE  AllStay(m, n)
BY DEF AllStay, SameFile, SameData

LEMMA NewStays ==
    ASSUME NEW m, NEW n, NEW T, Stays(m, n, T), T \notin LiveOf(m.disk, m.fat)
    PROVE  AllStay(m, n)
BY DEF AllStay, Stays

\* What is freed is the chain, and nothing else changes.
LEMMA FreedOnly ==
    ASSUME NEW m \in AnyVolume, NEW h
    PROVE  LET n == Freed(m, Chain(m.fat, h))
           IN  /\ n.disk = m.disk /\ n.status = m.status /\ n.file = m.file
               /\ \A c \in Clusters : c \notin On(m.fat, h) => n.fat[c] = m.fat[c]
               /\ ~Ok(m) => n = m
<1> DEFINE cs == Chain(m.fat, h)
           n == Freed(m, cs)
<1>1. CASE ~Ok(m) \/ cs = <<>>
  BY <1>1 DEF Freed
<1>2. CASE Ok(m) /\ cs # <<>>
  <2>1. n = [m EXCEPT !.fat = [c \in Clusters |->
                  IF \E i \in DOMAIN cs : cs[i] = c THEN Available ELSE m.fat[c]],
                      !.dirty = TRUE]
    BY <1>2 DEF Freed
  <2>2. cs \in Seq(Clusters)
    BY ChainAlong DEF Along
  <2>3. On(m.fat, h) = {cs[i] : i \in DOMAIN cs}
    BY <2>2 DEF On
  <2> DEFINE g == [c \in Clusters |->
                      IF \E i \in DOMAIN cs : cs[i] = c THEN Available ELSE m.fat[c]]
  <2>4. \A c \in Clusters : c \notin On(m.fat, h) => g[c] = m.fat[c]
    BY <2>3
  <2> HIDE DEF cs, g
  <2>5. n = [m EXCEPT !.fat = g, !.dirty = TRUE]
    BY <2>1 DEF g
  <2> HIDE DEF n
  <2>6. n.disk = m.disk /\ n.status = m.status /\ n.file = m.file /\ n.fat = g
    BY <2>5 DEF AnyVolume
  <2> QED BY <1>2, <2>4, <2>6 DEF n, cs
<1> QED BY <1>1, <1>2

\* The file of f loses its clusters.
LEMMA TruncateStays ==
    ASSUME NEW m, NEW f \in FileIds, NEW X, NEW T, T = m.file[f].where, Fine(m, X, T),
           Ok(m), T # Nowhere, m.file[f].dirent.first # Available,
           ~m.refused => Truncates(m, X, f)
    PROVE  LET n == FatTruncateFileAllocation(m, f)
           IN  /\ Stays(m, n, T) /\ n.file[f].where = T
               /\ ~Ok(n) => AllStay(m, n)
<1> DEFINE d == m.file[f].dirent
           h == d.first
           e == BareFile(m, f)
           a == [m EXCEPT !.file[f] = e]
           w == WriteDirent(a, f)
           n == Freed(w, Chain(m.fat, h))
<1>1. m \in AnyVolume /\ m.file[f] \in AnyFile /\ d \in AnyUnit /\ h \in Clusters
      /\ (m.refused => m.writes = 0)
  BY EntryFields DEF Fine, Sane, Firsts
<1>2. e \in AnyFile /\ e.where = T /\ e.dirent = Bare(d)
  BY <1>1, BareFacts DEF AnyFile, BareFile
<1>3. [m EXCEPT !.file[f].dirent = Bare(d)] = a
  BY <1>1, FieldTypes DEF AnyVolume, AnyFile, BareFile
<1>4. FatTruncateFileAllocation(m, f) = n
  <2>1. FatTruncateFileAllocation(m, f)
           = Freed(WriteDirent([m EXCEPT !.file[f].dirent = Bare(d)], f), Chain(m.fat, h))
    BY <1>1, FieldTypes DEF FatTruncateFileAllocation, AnyVolume, AnyFile, Bare
  <2> QED BY <1>3, <2>1
<1>5. /\ a \in AnyVolume /\ a.disk = m.disk /\ a.fat = m.fat /\ a.writes = m.writes
      /\ a.file[f].where = T /\ a.file[f].dirent = Bare(d)
  BY <1>1, <1>2, EntryUntouched, Zenon DEF Untouched
<1>6. w = Write(a, T, Bare(d))
  BY <1>5 DEF WriteDirent
<1> HIDE DEF e, a, n
<1>7. CASE m.refused
  <2>1. ~Ok(w) /\ w.fat = m.fat /\ w.disk = m.disk
    BY <1>1, <1>5, <1>6, <1>7, WriteNone
  <2>2. n = w
    BY <2>1 DEF n, Freed
  <2>3. w.file = a.file
    BY <1>5, <1>6 DEF Write, AnyVolume
  <2> HIDE DEF w
  <2> QED BY <1>4, <1>5, <2>1, <2>2, <2>3, StaysSame, AllSame
<1>8. CASE ~m.refused
  <2>1. /\ T \in Places /\ T[1] \in AreaOf(m.disk, m.fat)
        /\ At(m.disk, T).name \notin {Dot, DotDot} /\ d.name \notin {Dot, DotDot}
        /\ Entry(At(m.disk, T)) => ~At(m.disk, T).dir
        /\ Lead(At(m.disk, T)) \cup X = {h}
    BY <1>8 DEF Truncates
  <2>2. ~RootDir(m.disk, T)
    BY <2>1 DEF RootDir, Entry
  <2>3. Whole(m.disk, m.fat, m.full, X)
    BY <1>8, Zenon DEF Fine, Good
  <2>4. Stays(m, w, a.file[f].where)
    BY <1>5, <2>1, <2>2, <2>3, DirentStays
  <2>5. Bare(d) \in AnyUnit /\ Bare(d).name \notin {Dot, DotDot} /\ Lead(Bare(d)) = {}
        /\ Bare(d).first = Available /\ Bare(d).size = 0
    BY <1>1, <2>1, BareFacts
  <2>6. w.fat = m.fat /\ w.file = a.file /\ (~Ok(w) => w.disk = m.disk)
    BY <1>5, <1>6, <2>1, <2>5, WriteOne
  <2>7. Rewrites(m.disk, m.fat, m.saved, X, {h}, T, Bare(d))
    BY <2>1, <2>5, BareRewrites
  <2>8. Fine(w, {h}, T) /\ (w.refused <=> ~Ok(w))
    <3>1. e.where = T /\ e.dirent = Bare(d) /\ e \in AnyFile
      BY <1>2
    <3>2. Fine(m, X, e.where)
      BY <3>1
    <3>3. ~m.refused => e.where \in Places
                        /\ Rewrites(m.disk, m.fat, m.saved, X, {h}, e.where, e.dirent)
      BY <2>1, <2>7, <3>1
    <3> QED BY <3>1, <3>2, <3>3, WrittenFine DEF a
  <2>9. w \in AnyVolume
    BY <2>8 DEF Fine, Sane
  <2> HIDE DEF w
  <2>10. n = Freed(w, Chain(w.fat, h))
    BY <2>6 DEF n
  <2>11. /\ n.disk = w.disk /\ n.status = w.status /\ n.file = w.file
         /\ \A c \in Clusters : c \notin On(w.fat, h) => n.fat[c] = w.fat[c]
         /\ ~Ok(w) => n = w
    BY <2>9, <2>10, FreedOnly
  <2>12. n.file[f].where = T
    BY <1>5, <2>6, <2>11
  <2>13. CASE ~Ok(w)
    <3>1. n = w /\ w.disk = m.disk /\ w.fat = m.fat
      BY <2>6, <2>11, <2>13
    <3> QED BY <1>4, <2>12, <3>1, StaysSame, AllSame
  <2>14. CASE Ok(w)
    <3>1. Whole(w.disk, w.fat, w.full, {h})
      BY <2>8, <2>14, Zenon DEF Fine, Good
    <3>2. Stays(w, n, T)
      BY <2>11, <3>1, FreedStays
    <3>3. Stays(m, n, T)
      BY <1>5, <2>4, <3>2, StaysTransitive
    <3>4. Ok(n)
      BY <2>11, <2>14 DEF Ok
    <3> QED BY <1>4, <2>12, <3>3, <3>4
  <2> QED BY <2>13, <2>14
<1> QED BY <1>7, <1>8

LEMMA HeldTruncates ==
    ASSUME NEW m, NEW f \in FileIds, NEW T, T = m.file[f].where, Fine(m, {}, T), Ok(m),
           ~m.refused => Held(m, f), ~m.file[f].dirent.dir
    PROVE  LET n == FatTruncateFileAllocation(m, f)
           IN  /\ Stays(m, n, T) /\ n.file[f].where = T
               /\ ~Ok(n) => AllStay(m, n)
<1> DEFINE d == m.file[f].dirent
<1>1. CASE T = Nowhere \/ d.first = Available
  <2>1. FatTruncateFileAllocation(m, f) = m
    BY <1>1 DEF FatTruncateFileAllocation
  <2> QED BY <2>1, StaysSame, AllSame
<1>2. CASE T # Nowhere /\ d.first # Available
  <2>1. ~m.refused => Truncates(m, {}, f)
    <3> SUFFICES ASSUME ~m.refused PROVE Truncates(m, {}, f)
      OBVIOUS
    <3>1. /\ T \in Places /\ T[1] \in AreaOf(m.disk, m.fat) /\ At(m.disk, T) = d
          /\ Entry(d) /\ d.name \notin {Dot, DotDot}
      BY HeldFacts
    <3>2. Lead(At(m.disk, T)) = {d.first}
      BY <1>2, <3>1 DEF Lead
    <3> QED BY <3>1, <3>2 DEF Truncates
  <2> QED BY <1>2, <2>1, TruncateStays
<1> QED BY <1>1, <1>2

LEMMA ReadOnlyStays ==
    ASSUME NEW m, NEW f \in FileIds, NEW T, T = m.file[f].where, Fine(m, {}, T), Ok(m),
           ~m.refused => Held(m, f), ~m.file[f].dirent.dir, NEW on \in BOOLEAN
    PROVE  Stays(m, SetReadOnly(m, f, on), T)
<1> DEFINE v == [m.file[f].dirent EXCEPT !.readOnly = on]
           n == SetReadOnly(m, f, on)
<1>1. m \in AnyVolume /\ m.file[f].dirent \in AnyUnit /\ m.file[f] \in AnyFile
  BY EntryFields DEF Fine, Sane
<1>2. v \in AnyUnit
  BY <1>1 DEF AnyUnit
<1>3. CASE T = Nowhere
  <2>1. n = Failed(m, "EACCES")
    BY <1>3 DEF SetReadOnly
  <2>2. n.disk = m.disk /\ n.fat = m.fat
    BY <1>1, <2>1 DEF Failed, AnyVolume
  <2> QED BY <2>2, StaysSame
<1>4. CASE T # Nowhere
  <2>1. n = WriteDirent([m EXCEPT !.file[f].dirent = v], f)
    BY <1>1, <1>4, FieldTypes DEF SetReadOnly, AnyVolume, AnyFile
  <2> HIDE DEF v, n
  <2>2. Stays(m, WriteDirent([m EXCEPT !.file[f].dirent = v], f), T)
    BY <1>2, AgainStays
  <2> QED BY <2>1, <2>2 DEF n
<1> QED BY <1>3, <1>4

LEMMA DeleteStays ==
    ASSUME NEW m, NEW f \in FileIds, NEW T, T = m.file[f].where, Fine(m, {}, T), Ok(m),
           ~m.refused => Held(m, f), ~m.file[f].dirent.dir
    PROVE  Stays(m, DeleteFile(m, f), T)
<1> DEFINE X == {m.file[f].dirent.first} \ {Available}
           v == [m.file[f].dirent EXCEPT !.name = Deleted]
           w == WriteDirent([m EXCEPT !.file[f].dirent.name = Deleted], f)
           n == DeleteFile(m, f)
<1>1. m \in AnyVolume /\ Sane(m) /\ m.file[f].dirent \in AnyUnit /\ m.file[f] \in AnyFile
  BY EntryFields DEF Fine, Sane
<1>2. CASE T = Nowhere \/ m.file[f].dirent.readOnly
  <2>1. n = Failed(m, "EACCES")
    BY <1>2 DEF DeleteFile
  <2>2. n.disk = m.disk /\ n.fat = m.fat
    BY <1>1, <2>1 DEF Failed, AnyVolume
  <2> QED BY <2>2, StaysSame
<1>3. CASE T # Nowhere /\ ~m.file[f].dirent.readOnly
  <2>1. [m EXCEPT !.file[f].dirent.name = Deleted] = [m EXCEPT !.file[f].dirent = v]
    BY <1>1, FieldTypes DEF AnyVolume, AnyFile
  <2>2. v \in AnyUnit
    BY <1>1 DEF AnyUnit, AnyName
  <2> HIDE DEF v
  <2>3. Stays(m, w, T)
    BY <2>1, <2>2, AgainStays
  <2>4. w.file[f].where = T
    <3> DEFINE a == [m EXCEPT !.file[f].dirent = v]
    <3>1. Untouched(m, a) /\ a.file[f].where = T
      BY <1>1, <2>2, DirentSet
    <3> HIDE DEF a
    <3>2. Sane(a)
      BY <1>1, <3>1, UntouchedFollows, FollowsSane
    <3>3. WriteDirent(a, f).file = a.file
      BY <3>2, WriteDirentDisk
    <3> QED BY <2>1, <3>1, <3>3 DEF a
  <2>5. /\ Fine(w, X, w.file[f].where) /\ w.file[f].dirent.first = m.file[f].dirent.first
        /\ Ok(w) /\ w.file[f].dirent.first # Available => Truncates(w, X, f)
    BY <1>3, MarkedDeleted
  <2>6. n = Emptied(w, f)
    BY <1>1, <1>3 DEF DeleteFile
  <2> HIDE DEF w, n
  <2>7. CASE ~Ok(w) \/ w.file[f].dirent.first = Available
    <3>1. n = w
      BY <2>6, <2>7 DEF Emptied, FatTruncateFileAllocation
    <3> QED BY <2>3, <3>1 DEF n
  <2>8. CASE Ok(w) /\ w.file[f].dirent.first # Available
    <3>1. n = FatTruncateFileAllocation(w, f)
      BY <2>6, <2>8 DEF Emptied
    <3>2. Fine(w, X, T) /\ T = w.file[f].where /\ (~w.refused => Truncates(w, X, f))
      BY <2>4, <2>5, <2>8
    <3> HIDE DEF X
    <3>3. Stays(w, n, T)
      BY <1>3, <2>8, <3>1, <3>2, TruncateStays
    <3> QED BY <2>3, <3>3, StaysTransitive DEF n
  <2> QED BY <2>7, <2>8
<1> QED BY <1>2, <1>3

-----------------------------------------------------------------------------
(* Creation.                                                               *)

LEMMA AllTransitive ==
    ASSUME NEW m, NEW n, NEW o, AllStay(m, n), AllStay(n, o)
    PROVE  AllStay(m, o)
<1>1. Stays(m, n, Nowhere) /\ Stays(n, o, Nowhere)
  BY AllStays
<1>2. Stays(m, o, Nowhere)
  BY <1>1, StaysTransitive
<1>3. Nowhere \notin LiveOf(m.disk, m.fat)
  <2>1. ASSUME Nowhere \in Places PROVE FALSE
    <3>1. Nowhere[2] \in 1 .. Size(Nowhere[1])
      BY <2>1, PlaceFacts
    <3> QED BY <3>1 DEF Nowhere
  <2> QED BY <2>1 DEF LiveOf
<1> QED BY <1>2, <1>3, NewStays

LEMMA AllFrom ==
    ASSUME NEW m, NEW n, NEW o, n.disk = m.disk, n.fat = m.fat, AllStay(n, o)
    PROVE  AllStay(m, o)
BY AllSame, AllTransitive

\* A free place is not that of an entry.
LEMMA FreeNotLive ==
    ASSUME NEW disk, NEW fat, NEW at, IsFree(At(disk, at))
    PROVE  at \notin LiveOf(disk, fat) /\ ~RootDir(disk, at)
BY DEF LiveOf, RootDir, Entry, InUse

\* What a creation leaves of the entries there were: all, and the new one is none of them.
Adds(m, n, f) ==
    AllStay(m, n) /\ (Ok(n) => n.file[f].where \notin LiveOf(m.disk, m.fat))

\* The entry is written to a free place.
LEMMA PlacedAdds ==
    ASSUME NEW m, NEW f \in FileIds, Sane(m), NEW full, NEW X,
           Whole(m.disk, m.fat, full, X), NEW at \in Places,
           at[1] \in AreaOf(m.disk, m.fat), IsFree(At(m.disk, at))
    PROVE  LET n == WriteDirent([m EXCEPT !.file[f].where = at], f)
           IN  /\ Stays(m, n, at) /\ n.file[f].where = at
               /\ ~Ok(n) => n.disk = m.disk
<1> DEFINE e == [m.file[f] EXCEPT !.where = at]
           o == [m EXCEPT !.file[f] = e]
           n == WriteDirent(o, f)
<1>1. m \in AnyVolume /\ m.file[f] \in AnyFile /\ at \in Nat \X Nat
  BY EntryFields, PlaceFacts DEF Sane
<1>2. [m EXCEPT !.file[f].where = at] = o
  BY <1>1, FieldTypes DEF AnyVolume, AnyFile
<1>3. e \in AnyFile /\ e.where = at /\ e.dirent \in AnyUnit
  BY <1>1 DEF AnyFile
<1>4. Untouched(m, o) /\ o.file[f] = e
  BY <1>1, <1>3, EntryUntouched
<1> HIDE DEF o, e
<1>5. o \in AnyVolume /\ o.disk = m.disk /\ o.fat = m.fat /\ o.file[f].where = at
      /\ o.file[f].dirent \in AnyUnit
  BY <1>3, <1>4 DEF Untouched
<1>6. ~RootDir(m.disk, at)
  BY FreeNotLive
<1>7. Stays(m, n, o.file[f].where)
  BY <1>5, <1>6, DirentStays
<1>8. n.file = o.file /\ (~Ok(n) => n.disk = o.disk)
  <2>1. n = Write(o, at, o.file[f].dirent)
    BY <1>5 DEF WriteDirent
  <2> HIDE DEF n
  <2> QED BY <1>5, <2>1, WriteOne
<1> HIDE DEF n
<1> QED BY <1>2, <1>5, <1>7, <1>8 DEF n

PlacedAt(m, n, f, at) == Stays(m, n, at) /\ n.file[f].where = at

LEMMA WrittenAdds ==
    ASSUME NEW m, NEW f \in FileIds, Sane(m), NEW full, NEW X,
           Whole(m.disk, m.fat, full, X), NEW at \in Places,
           at[1] \in AreaOf(m.disk, m.fat), IsFree(At(m.disk, at)),
           NEW n, n = WriteDirent([m EXCEPT !.file[f].where = at], f)
    PROVE  PlacedAt(m, n, f, at)
<1>1. LET o == WriteDirent([m EXCEPT !.file[f].where = at], f)
      IN  /\ Stays(m, o, at) /\ o.file[f].where = at
          /\ ~Ok(o) => o.disk = m.disk
  BY PlacedAdds
<1> QED BY <1>1 DEF PlacedAt

\* The last cluster of a directory is linked to a new one.
LEMMA DirectoryLinks ==
    ASSUME NEW m, Clean(m), ~m.refused, NEW first \in Clusters, DirAt(m.disk, first),
           NEW n, NEW c, NEW k, Found(m, n, c, k), NEW T, Fine(n, {c}, T), Ok(n), NEW last,
           last = Chain(m.fat, first)[Len(Chain(m.fat, first))]
    PROVE  Stays(n, SetFatEntry(n, last, c), T)
<1> DEFINE o == SetFatEntry(n, last, c)
<1>1. Whole(m.disk, m.fat, m.full, {}) /\ Fine(m, {}, T)
  BY CleanFine DEF Clean
<1>2. first \in HeadsOf(m.disk, m.fat)
  BY <1>1, DirHead
<1>3. Chain(n.fat, first) = Chain(m.fat, first)
  <2>1. Aside(m, n, c, first)
    BY <1>1, <1>2, FoundHeads
  <2> QED BY <2>1 DEF Aside
<1>4. ~n.refused /\ Dirs(m, n) /\ c \in Clusters
  BY DEF Found
<1>5. Whole(n.disk, n.fat, n.full, {c}) /\ n \in AnyVolume
  BY <1>4, Zenon DEF Fine, Good, Sane
<1>6. DirAt(n.disk, first)
  BY <1>4, DirStays
<1>7. Starts(n.fat, first) /\ On(n.fat, first) \subseteq AreaOf(n.disk, n.fat)
  BY <1>5, <1>6, DirHead
<1>8. last \in On(n.fat, first) /\ n.fat[last] \notin Clusters
  BY <1>3, <1>7, ChainFacts, HeadEnds
<1>9. last \in Clusters /\ last \in AreaOf(n.disk, n.fat) /\ n.fat \in AnyTable
  BY <1>5, <1>7, <1>8, OnFinite, FieldTypes
<1>10. o.disk = n.disk /\ Changed(n.fat, last, c, o.fat)
  BY <1>5 DEF SetFatEntry, Changed, AnyVolume
<1> HIDE DEF o
<1>11. \A p \in LiveOf(n.disk, n.fat) : p # T /\ ~At(n.disk, p).dir =>
           last \notin On(n.fat, At(n.disk, p).first)
  BY <1>5, <1>9, FileOutside
<1>12. Stays(n, o, T)
  BY <1>8, <1>9, <1>10, <1>11, LinkStays
<1> QED BY <1>12 DEF o

\* The directory grows.
LEMMA ExtendedAdds ==
    ASSUME NEW m, NEW f \in FileIds, Clean(m), Ok(m), ~m.refused, NEW first \in Clusters,
           DirAt(m.disk, first), NEW last,
           last = Chain(m.fat, first)[Len(Chain(m.fat, first))]
    PROVE  Adds(m, ExtendedDirectory(FatAllocateClusters(m, 1, last), f, last), f)
<1> DEFINE a == FatAllocateClusters(m, 1, last)
           n == a.m
           at == <<a.first, 1>>
           o == SetFatEntry(n, last, a.first)
           w == WriteDirent([o EXCEPT !.file[f].where = at], f)
<1>1. last \in Nat /\ Sane(m) /\ Whole(m.disk, m.fat, m.full, {}) /\ Fine(m, {}, at)
  BY ChainFacts, ClusterFacts, CleanFine DEF Clean
<1>2. /\ Fine(n, IF Ok(n) THEN {a.first} ELSE {}, at)
      /\ Ok(n) => FoundEnough(m, n, a.first, 1)
  <2>1. 1 \in Nat /\ 1 >= 1
    OBVIOUS
  <2> HIDE DEF at
  <2> QED BY <1>1, <2>1, AllocationFine
<1>3. AllStay(m, n)
  <2>1. Spare(m, n)
    BY <1>1, AllocationSpare
  <2>2. Stays(m, n, Nowhere)
    BY <1>1, <2>1, SpareStays
  <2>3. Nowhere \notin LiveOf(m.disk, m.fat)
    <3>1. ASSUME Nowhere \in Places PROVE FALSE
      <4>1. Nowhere[2] \in 1 .. Size(Nowhere[1])
        BY <3>1, PlaceFacts
      <4> QED BY <4>1 DEF Nowhere
    <3> QED BY <3>1 DEF LiveOf
  <2> HIDE DEF n
  <2> QED BY <2>2, <2>3, NewStays
<1> HIDE DEF a, n, o, at
<1>4. CASE ~Ok(n)
  <2>1. ExtendedDirectory(a, f, last) = n
    BY <1>4 DEF ExtendedDirectory, n
  <2> QED BY <1>3, <1>4, <2>1 DEF Adds, a
<1>5. CASE Ok(n)
  <2>1. PICK k \in Nat : k >= 1 /\ Found(m, n, a.first, k)
    BY <1>2, <1>5 DEF FoundEnough
  <2>2. Found(m, n, a.first, k) /\ Fine(n, {a.first}, at)
    BY <1>2, <1>5, <2>1
  <2>3. a.first \in Clusters /\ ~n.refused
    BY <2>2 DEF Found
  <2>4. Stays(n, o, at)
    BY <1>5, <2>2, DirectoryLinks DEF o
  <2>5. /\ Fine(o, {}, at) /\ SameFiles(n, o) /\ SameDisk(n, o) /\ Dirs(n, o)
        /\ at \in Places /\ a.first \in AreaOf(o.disk, o.fat) /\ At(o.disk, at) = Blank
    BY <1>1, <1>5, <2>2, LinkedDirectory DEF o, at
  <2>6. Sane(o) /\ Whole(o.disk, o.fat, o.full, {})
    <3>1. ~o.refused
      BY <2>3, <2>5 DEF SameDisk
    <3> QED BY <2>5, <3>1, Zenon DEF Fine, Good
  <2>7. at[1] = a.first /\ IsFree(Blank)
    BY DEF at, IsFree, Blank, Dirent
  <2>8. at[1] \in AreaOf(o.disk, o.fat) /\ IsFree(At(o.disk, at))
    BY <2>5, <2>7
  <2> HIDE DEF w
  <2>9. Stays(o, w, at) /\ w.file[f].where = at
    <3>1. w = WriteDirent([o EXCEPT !.file[f].where = at], f)
      BY DEF w
    <3>2. Sane(o) /\ Whole(o.disk, o.fat, o.full, {}) /\ at \in Places
          /\ at[1] \in AreaOf(o.disk, o.fat) /\ IsFree(At(o.disk, at))
      BY <2>5, <2>6, <2>8
    <3>3. PlacedAt(o, w, f, at)
      BY <3>1, <3>2, WrittenAdds, Zenon
    <3> QED BY <3>3 DEF PlacedAt
  <2>10. Stays(m, n, at)
    BY <1>3, AllStays
  <2>11. Stays(m, w, at)
    BY <2>4, <2>9, <2>10, StaysTransitive
  <2>12. at \notin LiveOf(m.disk, m.fat)
    <3>1. a.first \in On(n.fat, a.first)
      BY <2>3, ChainFacts
    <3>2. m.fat[a.first] = Available
      BY <2>2, <3>1 DEF Found
    <3>3. a.first \notin AreaOf(m.disk, m.fat)
      BY <1>1, <2>3, <3>2, FreeOutside
    <3> QED BY <2>7, <3>3 DEF LiveOf
  <2>13. AllStay(m, w)
    BY <2>11, <2>12, NewStays
  <2>14. ExtendedDirectory(a, f, last) = w
    BY <1>5 DEF ExtendedDirectory, n, o, w, at
  <2> QED BY <2>9, <2>12, <2>13, <2>14 DEF Adds, a
<1> QED BY <1>4, <1>5

\* A device that takes no write takes no new entry.
LEMMA CreateDirentNone ==
    ASSUME NEW m, Sane(m), m.writes = 0, NEW f \in FileIds, NEW first \in Firsts
    PROVE  LET n == FatCreateDirent(m, f, first) IN ~Ok(n) /\ LikeTable(m, n)
<1> DEFINE slots == Slots(m, first)
           Free(p) == IsFree(UnitAt(m, p))
           i == SelectInSeq(slots, Free)
           last == Last(slots)[1]
           at == slots[i]
           o == [m EXCEPT !.file[f].where = at]
           a == FatAllocateClusters(m, 1, last)
           n == FatCreateDirent(m, f, first)
<1>1. slots \in Seq(Places) /\ Len(slots) >= 1 /\ Len(slots) \in Nat
  BY SlotsType, LenProperties
<1>2. n = IF i # 0 THEN WriteDirent(o, f)
          ELSE IF first = Root THEN Failed(m, "ENOSPC") ELSE ExtendedDirectory(a, f, last)
  BY DEF FatCreateDirent, PlacedAmong
<1>3. last \in Nat
  <2> HIDE DEF slots
  <2>1. Last(slots) \in Places
    BY <1>1, ElementOfSeq DEF Last
  <2> QED BY <2>1, PlaceFacts
<1>4. m \in AnyVolume
  BY DEF Sane
<1> HIDE DEF slots, i, last, at
<1>5. ~Ok(WriteDirent(o, f)) /\ WriteDirent(o, f).fat = m.fat
  <2>1. o.writes = 0 /\ o.fat = m.fat
    BY <1>4 DEF AnyVolume
  <2> HIDE DEF o
  <2>2. WriteDirent(o, f) = Write(o, o.file[f].where, o.file[f].dirent)
    BY DEF WriteDirent
  <2>3. Write(o, o.file[f].where, o.file[f].dirent)
           = IF ~Ok(o) THEN o ELSE [o EXCEPT !.status = "EACCES", !.refused = TRUE]
    BY <2>1 DEF Write
  <2>4. o.status = m.status /\ DOMAIN o = DOMAIN m
    BY DEF o
  <2>5. CASE ~Ok(o)
    BY <2>1, <2>2, <2>3, <2>5
  <2>6. CASE Ok(o)
    <3>1. WriteDirent(o, f) = [o EXCEPT !.status = "EACCES", !.refused = TRUE]
      BY <2>2, <2>3, <2>6
    <3>2. WriteDirent(o, f).status = "EACCES" /\ WriteDirent(o, f).fat = o.fat
      BY <1>4, <3>1, <2>4 DEF AnyVolume
    <3> QED BY <2>1, <3>2 DEF Ok
  <2> QED BY <2>5, <2>6
<1>6. ~Ok(Failed(m, "ENOSPC")) /\ Failed(m, "ENOSPC").fat = m.fat
  BY <1>4 DEF Failed, Ok, AnyVolume
<1>7. ~Ok(ExtendedDirectory(a, f, last)) /\ LikeTable(m, ExtendedDirectory(a, f, last))
  <2>1. 1 \in Nat /\ 1 >= 1
    OBVIOUS
  <2>2. ~Ok(a.m) /\ LikeTable(m, a.m)
    BY <1>3, <2>1, AllocationNone
  <2> HIDE DEF a
  <2>3. ExtendedDirectory(a, f, last) = a.m
    BY <2>2 DEF ExtendedDirectory
  <2> QED BY <2>2, <2>3
<1> HIDE DEF n, o, a
<1>8. CASE i # 0
  BY <1>2, <1>5, <1>8, LikeReflexive DEF n
<1>9. CASE i = 0 /\ first = Root
  BY <1>2, <1>6, <1>9, LikeReflexive DEF n
<1>10. CASE i = 0 /\ first # Root
  BY <1>2, <1>7, <1>10 DEF n
<1> QED BY <1>8, <1>9, <1>10

LEMMA CreateDirentAdds ==
    ASSUME NEW m, NEW f \in FileIds, Clean(m), Ok(m), NEW first \in Firsts,
           ~m.refused => DirAt(m.disk, first)
    PROVE  Adds(m, FatCreateDirent(m, f, first), f)
<1> DEFINE slots == Slots(m, first)
           Free(p) == IsFree(UnitAt(m, p))
           I == {k \in 1 .. Len(slots) : Free(slots[k])}
           i == SelectInSeq(slots, Free)
           last == Last(slots)[1]
           at == slots[i]
           n == FatCreateDirent(m, f, first)
<1>1. slots \in Seq(Places) /\ Len(slots) >= 1 /\ Len(slots) \in Nat
  BY SlotsType, LenProperties
<1>2. i = IF I # {} THEN Min(I) ELSE 0
  BY DEF SelectInSeq
<1>3. i = 0 \/ (i \in 1 .. Len(slots) /\ Free(slots[i]))
  <2>1. I \in SUBSET Nat /\ I \subseteq 1 .. Len(slots)
    OBVIOUS
  <2>2. i \in I => i \in 1 .. Len(slots) /\ Free(slots[i])
    OBVIOUS
  <2> HIDE DEF I, i
  <2> QED BY <1>2, <2>1, <2>2, FirstIndex
<1>4. n = IF i # 0 THEN WriteDirent([m EXCEPT !.file[f].where = at], f)
          ELSE IF first = Root THEN Failed(m, "ENOSPC")
          ELSE ExtendedDirectory(FatAllocateClusters(m, 1, last), f, last)
  BY DEF FatCreateDirent, PlacedAmong
<1> HIDE DEF slots, I, i
<1>5. Sane(m) /\ m \in AnyVolume /\ (m.refused => m.writes = 0)
  BY DEF Clean, Sane
<1> HIDE DEF n
<1>6. CASE m.refused
  <2>1. ~Ok(n) /\ LikeTable(m, n)
    BY <1>5, <1>6, CreateDirentNone DEF n
  <2>2. Follows(m, n)
    BY <1>5, CreateDirentFollows DEF n
  <2>3. Stays(m, n, Nowhere)
    BY <1>5, <1>6, <2>1, <2>2, NoneStays
  <2>4. ASSUME NEW p \in LiveOf(m.disk, m.fat) PROVE p # Nowhere
    <3>1. p[2] \in 1 .. Size(p[1])
      BY PlaceFacts DEF LiveOf
    <3> QED BY <3>1 DEF Nowhere
  <2>5. AllStay(m, n)
    BY <2>3, <2>4, NewStays
  <2> QED BY <2>1, <2>5 DEF Adds, n
<1>7. CASE ~m.refused /\ i # 0
  <2>1. i \in 1 .. Len(slots) /\ at \in Places /\ IsFree(At(m.disk, at))
    BY <1>1, <1>3, <1>7, ElementOfSeq DEF UnitAt, At
  <2>2. Whole(m.disk, m.fat, m.full, {})
    BY <1>7 DEF Clean
  <2>3. at[1] \in AreaOf(m.disk, m.fat)
    BY <1>7, <2>1, <2>2, SlotArea DEF slots
  <2> HIDE DEF at
  <2>4. n = WriteDirent([m EXCEPT !.file[f].where = at], f)
    BY <1>4, <1>7
  <2>5. Stays(m, n, at) /\ n.file[f].where = at
    <3>1. Sane(m) /\ Whole(m.disk, m.fat, m.full, {}) /\ at \in Places
          /\ at[1] \in AreaOf(m.disk, m.fat) /\ IsFree(At(m.disk, at))
      BY <1>5, <2>1, <2>2, <2>3
    <3>2. PlacedAt(m, n, f, at)
      BY <2>4, <3>1, WrittenAdds, Zenon
    <3> QED BY <3>2 DEF PlacedAt
  <2>6. at \notin LiveOf(m.disk, m.fat)
    BY <2>1, FreeNotLive
  <2> QED BY <2>5, <2>6, NewStays DEF Adds, n
<1>8. CASE ~m.refused /\ i = 0 /\ first = Root
  <2>1. n = Failed(m, "ENOSPC")
    BY <1>4, <1>8
  <2>2. n.disk = m.disk /\ n.fat = m.fat /\ ~Ok(n)
    BY <1>5, <2>1 DEF Failed, AnyVolume, Ok
  <2> QED BY <2>2, AllSame DEF Adds, n
<1>9. CASE ~m.refused /\ i = 0 /\ first # Root
  <2>1. first \in Clusters
    BY <1>9, ClusterFacts DEF Firsts
  <2>2. last = Chain(m.fat, first)[Len(Chain(m.fat, first))]
    BY <2>1, LastSlot DEF slots
  <2> HIDE DEF last
  <2>3. Adds(m, ExtendedDirectory(FatAllocateClusters(m, 1, last), f, last), f)
    BY <1>9, <2>1, <2>2, ExtendedAdds
  <2> QED BY <1>4, <1>9, <2>3 DEF n
<1> QED BY <1>6, <1>7, <1>8, <1>9

-----------------------------------------------------------------------------
(* Opens.                                                                  *)

LEMMA ClusterStays ==
    ASSUME NEW m, NEW f \in FileIds, NEW T, T = m.file[f].where, Fine(m, {}, T),
           m.file[f].dirent.dir => m.file[f].dirent.first = Available,
           Ok(m) /\ ~m.refused => Held(m, f)
    PROVE  Stays(m, WithCluster(m, f), T)
<1>1. CASE ~Ok(m)
  BY <1>1, StaysSame DEF WithCluster
<1>2. CASE Ok(m)
  <2>1. WithCluster(m, f) = FatIncreaseFileAllocation(m, f, 2) /\ 2 \in Nat
    BY <1>2 DEF WithCluster
  <2>2. ~m.refused => /\ Held(m, f)
                      /\ m.file[f].dirent.dir => m.file[f].dirent.first = Available
    BY <1>2
  <2>3. Stays(m, FatIncreaseFileAllocation(m, f, 2), T)
    BY <1>2, <2>1, <2>2, GrowStays
  <2> QED BY <2>1, <2>3
<1> QED BY <1>1, <1>2

\* What ClusterFurnishes says, and that the entry is held.
LEMMA ClusterHolds ==
    ASSUME NEW m, NEW f \in FileIds, NEW T, T = m.file[f].where, Fine(m, {}, T),
           m.file[f].dirent.dir, m.file[f].dirent.first = Available,
           Ok(m) /\ ~m.refused => Held(m, f) /\ m.saved = m.fat
    PROVE  LET n == WithCluster(m, f)
           IN  n.file[f].where = T /\ (Ok(n) /\ ~n.refused => Held(n, f))
<1> DEFINE n == WithCluster(m, f)
<1>1. CASE ~Ok(m)
  BY <1>1 DEF WithCluster
<1>2. CASE Ok(m)
  <2>1. n = FatIncreaseFileAllocation(m, f, 2) /\ 2 \in Nat
    BY <1>2 DEF WithCluster
  <2>2. ~m.refused => Held(m, f)
    BY <1>2
  <2>3. ~m.refused /\ m.file[f].dirent.dir =>
            m.file[f].dirent.first = Available /\ m.saved = m.fat
    BY <1>2
  <2> HIDE DEF n
  <2>4. Enlarged(m, n, f, m.file[f].where, 2)
    BY <1>2, <2>1, <2>2, <2>3, GrowEnlarges
  <2>5. n.file[f].where = T /\ (Ok(n) /\ ~n.refused => Grown(m, n, f, 2))
    BY <2>4 DEF Enlarged
  <2> QED BY <2>5 DEF Grown, n
<1> QED BY <1>1, <1>2

\* A put after which the entry is held as before.
LEMMA DotStays ==
    ASSUME NEW m, NEW f \in FileIds, NEW T, T = m.file[f].where, Fine(m, {}, T),
           NEW vbo \in Nat, NEW unit, DotUnit(unit),
           ~m.refused => /\ McbHeld(m, f) /\ m.file[f].where # Nowhere
                         /\ NoEntries(m.disk, On(m.fat, m.file[f].dirent.first)),
           Ok(m) /\ ~m.refused => Held(m, f)
    PROVE  LET n == PutAt(m, f, vbo, unit)
           IN  Stays(m, n, T) /\ (Ok(n) /\ ~n.refused => Held(n, f))
<1> DEFINE n == PutAt(m, f, vbo, unit)
<1>1. ~m.refused => PutReady(m, f, unit)
  BY DotsReady
<1>2. unit \in AnyUnit
  BY DEF DotUnit
<1>3. CASE ~Ok(m)
  <2>1. n = m
    BY <1>3 DEF PutAt
  <2> HIDE DEF n
  <2> QED BY <1>3, <2>1, StaysSame DEF n
<1>4. CASE Ok(m)
  <2>1. Stays(m, n, T)
    BY <1>1, <1>2, <1>4, PutStays
  <2>2. PutDone(m, n, f, unit, T)
    BY <1>1, <1>2, PutFine
  <2> HIDE DEF n
  <2>3. ASSUME ~n.refused PROVE Held(n, f)
    <3>1. ~m.refused /\ n.file = m.file /\ PutKept(m, n, f, unit)
      BY <2>2, <2>3 DEF PutDone, Later
    <3>2. Held(m, f)
      BY <1>4, <3>1
    <3> QED BY <3>1, <3>2 DEF PutKept, Held
  <2> QED BY <2>1, <2>3 DEF n
<1> QED BY <1>3, <1>4

LEMMA DotsStay ==
    ASSUME NEW m, NEW f \in FileIds, Furnished(m, f), NEW parent \in Firsts,
           NEW T, T = m.file[f].where, Ok(m) /\ ~m.refused => Held(m, f)
    PROVE  Stays(m, WithDots(m, f, parent), T)
<1> DEFINE dot == Dirent(Dot, TRUE, m.file[f].dirent.first)
           dots == Dirent(DotDot, TRUE, parent)
           o == PutAt(m, f, 0, dot)
           n == PutAt(o, f, 1, dots)
<1>1. m.file[f].dirent.first \in Firsts
  BY EntryFields DEF Furnished, Fine, Sane
<1>2. DotUnit(dot) /\ DotUnit(dots)
  BY <1>1, DotUnits
<1>3. CASE ~Ok(m)
  BY <1>3, StaysSame DEF WithDots
<1>4. CASE Ok(m)
  <2>1. WithDots(m, f, parent) = n
    BY <1>4 DEF WithDots, Dots
  <2>2. Fine(m, {}, T)
    BY DEF Furnished
  <2>3. ~m.refused => /\ McbHeld(m, f) /\ m.file[f].where # Nowhere
                      /\ NoEntries(m.disk, On(m.fat, m.file[f].dirent.first))
    BY <1>4 DEF Furnished
  <2> HIDE DEF dot, dots
  <2>4. 0 \in Nat /\ 1 \in Nat
    OBVIOUS
  <2>5. /\ Fine(o, {}, T) /\ o.file = m.file
        /\ ~o.refused => /\ McbHeld(o, f) /\ o.file[f].where # Nowhere
                         /\ NoEntries(o.disk, On(o.fat, o.file[f].dirent.first))
    BY <1>2, <2>2, <2>3, <2>4, DotPut
  <2>6. Stays(m, o, T) /\ (Ok(o) /\ ~o.refused => Held(o, f))
    BY <1>2, <2>2, <2>3, <2>4, DotStays
  <2> HIDE DEF o
  <2>7. T = o.file[f].where
    BY <2>5
  <2>8. Stays(o, n, T)
    BY <1>2, <2>4, <2>5, <2>6, <2>7, DotStays
  <2> HIDE DEF n
  <2> QED BY <2>1, <2>6, <2>8, StaysTransitive
<1> QED BY <1>3, <1>4

LEMMA OpenedSame ==
    ASSUME NEW m \in AnyVolume, NEW f
    PROVE  LET n == Opened(m, f) IN n.disk = m.disk /\ n.fat = m.fat /\ (Ok(n) <=> Ok(m))
BY DEF Opened, AnyVolume, Ok

\* A directory is made beside everything there is.
LEMMA CreateDirectoryStays ==
    ASSUME NEW m, NEW f \in FileIds, Clean(m), Ok(m), m.mcb.owner # f, NEW name,
           Ordinary(name)
    PROVE  AllStay(m, CreateDirectory(m, f, name, Root))
<1> DEFINE v == Dirent(name, TRUE, Available)
           a == [m EXCEPT !.file[f].dirent = v]
           b == FatCreateDirent(a, f, Root)
           c == WithCluster(b, f)
           d == WithDots(c, f, Root)
           n == Opened(d, f)
           T == b.file[f].where
<1>1. CreateDirectory(m, f, name, Root) = n
  BY DEF CreateDirectory
<1>2. New(v) /\ v.dir /\ v.first = Available
  BY NewDirent
<1>3. v \in AnyUnit
  BY <1>2 DEF New
<1>4. m.file[f] \in AnyFile
  BY EntryFields DEF Clean, Sane
<1> HIDE DEF v
<1>5. /\ Clean(a) /\ a.file[f] = [m.file[f] EXCEPT !.dirent = v] /\ a.mcb = m.mcb
      /\ a.status = m.status /\ a.disk = m.disk /\ a.fat = m.fat
  BY <1>3, DirentClean
<1>6. a.file[f].dirent = v /\ Ok(a)
  BY <1>4, <1>5 DEF AnyFile, Ok
<1> HIDE DEF a
<1>7. Root \in Firsts /\ DirAt(a.disk, Root)
  BY DEF Firsts, DirAt, Root, Available
<1>8. Created(a, b, f, Root)
  BY <1>2, <1>5, <1>6, <1>7, CreateDirentFine
<1>9. Adds(a, b, f)
  BY <1>5, <1>6, <1>7, CreateDirentAdds
<1> HIDE DEF b
<1>10. /\ Fine(b, {}, T) /\ Later(a, b, f) /\ b.mcb = a.mcb
       /\ b.file[f].dirent = v /\ b.fat = a.fat /\ b.saved = a.saved
       /\ Ok(b) /\ ~b.refused => Held(b, f)
  BY <1>6, <1>8 DEF Created
<1>11. ASSUME ~b.refused PROVE b.saved = b.fat
  BY <1>5, <1>10, <1>11 DEF Later, Clean
<1>12. Furnished(c, f)
  BY <1>2, <1>5, <1>10, <1>11, ClusterFurnishes
<1>13. Stays(b, c, T)
  BY <1>2, <1>10, ClusterStays
<1>14. c.file[f].where = T /\ (Ok(c) /\ ~c.refused => Held(c, f))
  BY <1>2, <1>10, <1>11, ClusterHolds
<1>15. ~Ok(b) => c = b
  BY DEF WithCluster
<1> HIDE DEF c
<1>16. Stays(c, d, T)
  BY <1>7, <1>12, <1>14, DotsStay
<1>17. ~Ok(c) => d = c
  BY DEF WithDots
<1>18. d \in AnyVolume
  BY <1>7, <1>12, DotsFine DEF Fine, Sane
<1> HIDE DEF d
<1>19. AllStay(a, d)
  <2>1. CASE ~Ok(b)
    BY <1>9, <1>15, <1>17, <2>1 DEF Adds
  <2>2. CASE Ok(b)
    <3>1. Stays(b, d, T)
      BY <1>13, <1>16, StaysTransitive
    <3>2. Stays(a, b, T) /\ T \notin LiveOf(a.disk, a.fat)
      BY <1>9, <2>2, AllStays DEF Adds
    <3>3. Stays(a, d, T)
      BY <3>1, <3>2, StaysTransitive
    <3> HIDE DEF T
    <3> QED BY <3>2, <3>3, NewStays
  <2> QED BY <2>1, <2>2
<1>20. n.disk = d.disk /\ n.fat = d.fat
  BY <1>18, OpenedSame
<1> HIDE DEF n
<1>21. AllStay(d, n)
  BY <1>20, AllSame
<1>22. AllStay(a, n)
  BY <1>19, <1>21, AllTransitive
<1>23. AllStay(m, n)
  BY <1>5, <1>22, AllFrom
<1> QED BY <1>1, <1>23

\* An open of what does not exist changes nothing that does.
LEMMA MissingStays ==
    ASSUME NEW m, NEW f \in FileIds, Begins(m, f), NEW mode \in Modes,
           NEW name \in AnyName, NEW parent \in Firsts,
           ~m.refused => Ordinary(name) /\ DirAt(m.disk, parent),
           mode = "CreateDirectory" => Ordinary(name) /\ parent = Root
    PROVE  AllStay(m, OpenMissing(m, f, name, parent, mode))
<1> DEFINE n == OpenMissing(m, f, name, parent, mode)
           v == Dirent(name, FALSE, Available)
           a == [m EXCEPT !.file[f].dirent = v]
           b == FatCreateDirent(a, f, parent)
<1>1. Clean(m) /\ Ok(m) /\ m.mcb.owner # f /\ m \in AnyVolume
  BY DEF Begins, Clean, Sane
<1>2. CASE mode = "SupersedeWriteOnly"
  <2>1. n = Opened(b, f)
    BY <1>2 DEF OpenMissing
  <2>2. v \in AnyUnit
    BY DirentType DEF Firsts
  <2> HIDE DEF v
  <2>3. /\ Clean(a) /\ a.status = m.status /\ a.disk = m.disk /\ a.fat = m.fat
        /\ a.refused = m.refused
    BY <1>1, <2>2, DirentClean
  <2>4. Ok(a)
    BY <1>1, <2>3 DEF Ok
  <2> HIDE DEF a
  <2>5. Adds(a, b, f)
    BY <2>3, <2>4, CreateDirentAdds
  <2>6. Sane(a)
    BY <2>3 DEF Clean
  <2>7. b \in AnyVolume
    BY <2>6, CreateDirentFollows, FollowsSane DEF Sane
  <2> HIDE DEF b
  <2>8. n.disk = b.disk /\ n.fat = b.fat
    BY <2>1, <2>7, OpenedSame
  <2> HIDE DEF n
  <2>9. AllStay(a, n)
    BY <2>5, <2>8, AllSame, AllTransitive DEF Adds
  <2> QED BY <2>3, <2>9, AllFrom DEF n
<1>3. CASE mode = "CreateDirectory"
  <2>1. n = CreateDirectory(m, f, name, Root)
    BY <1>3 DEF OpenMissing
  <2> QED BY <1>1, <1>3, <2>1, CreateDirectoryStays
<1>4. CASE mode \notin {"SupersedeWriteOnly", "CreateDirectory"}
  <2>1. n = Failed(m, "ENOENT")
    BY <1>4 DEF OpenMissing
  <2>2. n.disk = m.disk /\ n.fat = m.fat
    BY <1>1, <2>1 DEF Failed, AnyVolume
  <2> QED BY <2>2, AllSame
<1> QED BY <1>2, <1>3, <1>4

\* What an open leaves of the other files: all, unless it truncates the one it opens.
OpenStays(m, n, f, mode) ==
    /\ Stays(m, n, n.file[f].where)
    /\ ~Ok(n) \/ mode # "SupersedeWriteOnly" => AllStay(m, n)

LEMMA SameOpens ==
    ASSUME NEW m, NEW n, n.disk = m.disk, n.fat = m.fat, NEW f, NEW mode
    PROVE  OpenStays(m, n, f, mode)
BY StaysSame, AllSame DEF OpenStays

\* An open of what exists.
LEMMA FoundStays ==
    ASSUME NEW m, NEW f \in FileIds, Begins(m, f), NEW mode \in Modes,
           ~m.refused => Held(m, f)
    PROVE  OpenStays(m, OpenFound(m, f, m.file[f].dirent, mode), f, mode)
<1> DEFINE e == m.file[f].dirent
           T == m.file[f].where
           n == OpenFound(m, f, e, mode)
           o == FatTruncateFileAllocation(m, f)
<1>1. Clean(m) /\ Ok(m) /\ m \in AnyVolume
  BY DEF Begins, Clean, Sane
<1>2. Fine(m, {}, T)
  BY <1>1, CleanFine
<1>3. CASE e.dir \/ mode # "SupersedeWriteOnly" \/ e.readOnly
  <2>1. n = Opened(m, f) \/ \E s \in AnyStatus : n = Failed(m, s)
    <3>1. {"EACCES", "EISDIR", "EROFS", "ENOTDIR"} \subseteq AnyStatus
      BY DEF AnyStatus
    <3> QED BY <1>3, <3>1 DEF OpenFound
  <2>2. ASSUME NEW s, n = Failed(m, s) PROVE n.disk = m.disk /\ n.fat = m.fat
    BY <1>1, <2>2 DEF Failed, AnyVolume
  <2>3. n = Opened(m, f) => n.disk = m.disk /\ n.fat = m.fat
    BY <1>1, OpenedSame
  <2> HIDE DEF n
  <2>4. n.disk = m.disk /\ n.fat = m.fat
    BY <2>1, <2>2, <2>3
  <2> QED BY <2>4, SameOpens DEF n
<1>4. CASE ~e.dir /\ mode = "SupersedeWriteOnly" /\ ~e.readOnly
  <2>1. n = Opened(o, f)
    BY <1>4 DEF OpenFound
  <2>2. Stays(m, o, T) /\ o.file[f].where = T /\ (~Ok(o) => AllStay(m, o))
    BY <1>1, <1>2, <1>4, HeldTruncates
  <2>3. Fine(o, {}, o.file[f].where)
    BY <1>1, <1>2, <1>4, TruncateHeld DEF HeldAfter
  <2> HIDE DEF o
  <2>4. n.disk = o.disk /\ n.fat = o.fat /\ (Ok(n) <=> Ok(o))
    BY <2>1, <2>3, OpenedSame DEF Fine, Sane
  <2>5. n.file[f].where = T
    BY <2>1, <2>2, <2>3, FileOpened
  <2> HIDE DEF n
  <2>6. Stays(m, n, T)
    BY <2>2, <2>4, StaysSame, StaysTransitive
  <2>7. ~Ok(n) => AllStay(m, n)
    BY <2>2, <2>4, AllSame, AllTransitive
  <2> QED BY <1>4, <2>5, <2>6, <2>7 DEF OpenStays, n
<1> QED BY <1>3, <1>4

OpenFrom(m, n, o, f, mode) == n.disk = m.disk /\ n.fat = m.fat /\ OpenStays(n, o, f, mode)

LEMMA OpensFrom ==
    ASSUME NEW m, NEW n, NEW o, NEW f, NEW mode, OpenFrom(m, n, o, f, mode)
    PROVE  OpenStays(m, o, f, mode)
BY StaysFrom, AllFrom DEF OpenStays, OpenFrom

LEMMA OpenAtStays ==
    ASSUME NEW m, NEW f \in FileIds, Begins(m, f), NEW mode \in Modes,
           NEW name \in AnyName, NEW walk \in Walks,
           ~m.refused => Ordinary(name) /\ (walk.left \/ Finds(m, walk)),
           mode \in {"OpenDirectory", "CreateDirectory"} => Ordinary(name) /\ InRoot(walk)
    PROVE  OpenStays(m, OpenAt(m, f, name, mode, walk), f, mode)
<1> DEFINE e == [NoFile EXCEPT !.dirent = walk.dirent, !.where = walk.where]
           held == [m EXCEPT !.file[f] = e]
           n == OpenAt(m, f, name, mode, walk)
<1>1. e \in AnyFile /\ e.dirent = walk.dirent /\ e.where = walk.where
  BY NoFileType DEF AnyFile, Walks
<1>2. n = IF walk.left THEN Failed(m, "ENOTDIR")
          ELSE IF walk.found THEN OpenFound(held, f, walk.dirent, mode)
          ELSE OpenMissing(held, f, name, walk.dir, mode)
  BY DEF OpenAt
<1> HIDE DEF e
<1>3. /\ Begins(held, f) /\ held.file[f] = e
      /\ held.disk = m.disk /\ held.fat = m.fat /\ held.refused = m.refused
  BY <1>1, HeldBegins
<1>4. m \in AnyVolume
  BY DEF Begins, Clean, Sane
<1> HIDE DEF held, n
<1>5. CASE walk.left
  <2>1. n.disk = m.disk /\ n.fat = m.fat
    BY <1>2, <1>4, <1>5 DEF Failed, AnyVolume
  <2> QED BY <2>1, SameOpens DEF n
<1>6. CASE ~walk.left /\ walk.found
  <2>1. n = OpenFound(held, f, held.file[f].dirent, mode)
    BY <1>1, <1>2, <1>3, <1>6
  <2>2. ~held.refused => Held(held, f)
    <3>1. ~m.refused => walk.where \in LiveOf(m.disk, m.fat)
                        /\ walk.dirent = At(m.disk, walk.where)
      BY <1>6 DEF Finds
    <3> QED BY <1>1, <1>3, <3>1 DEF Held
  <2>3. OpenStays(held, n, f, mode)
    BY <1>3, <2>1, <2>2, FoundStays
  <2> QED BY <1>3, <2>3, OpensFrom DEF OpenFrom, n
<1>7. CASE ~walk.left /\ ~walk.found
  <2>1. n = OpenMissing(held, f, name, walk.dir, mode)
    BY <1>2, <1>7
  <2>2. walk.dir \in Firsts
    BY DEF Walks
  <2>3. ~held.refused => Ordinary(name) /\ DirAt(held.disk, walk.dir)
    BY <1>3, <1>7 DEF Finds
  <2>4. mode = "CreateDirectory" => Ordinary(name) /\ walk.dir = Root
    BY <1>7 DEF InRoot
  <2>5. AllStay(held, n)
    BY <1>3, <2>1, <2>2, <2>3, <2>4, MissingStays
  <2>6. OpenStays(held, n, f, mode)
    BY <2>5, AllStays DEF OpenStays
  <2> QED BY <1>3, <2>6, OpensFrom DEF OpenFrom, n
<1> QED BY <1>5, <1>6, <1>7

LEMMA AnsweredStays ==
    ASSUME NEW m, NEW n \in AnyVolume, NEW f \in FileIds, NEW mode, OpenStays(m, n, f, mode)
    PROVE  OpenStays(m, Answered(n, f), f, mode)
<1> DEFINE o == Answered(n, f)
<1>1. CASE Ok(n)
  BY <1>1 DEF Answered
<1>2. CASE ~Ok(n)
  <2>1. o.disk = n.disk /\ o.fat = n.fat
    BY <1>2 DEF Answered, AnyVolume
  <2> HIDE DEF o
  <2>2. AllStay(m, n) /\ AllStay(n, o)
    BY <1>2, <2>1, AllSame DEF OpenStays
  <2>3. AllStay(m, o)
    BY <2>2, AllTransitive
  <2> QED BY <2>3, AllStays DEF OpenStays, o
<1> QED BY <1>1, <1>2

\* FatClose changes no file that the cached table leads to.
LEMMA CloseSame ==
    ASSUME NEW m \in AnyVolume, NEW f
    PROVE  FatClose(m, f).disk = m.disk /\ FatClose(m, f).fat = m.fat
BY DEF FatClose, Unmapped, Flush, AnyVolume

-----------------------------------------------------------------------------
(* Other files.                                                            *)

\* A file holds the same.
LEMMA ContentSame ==
    ASSUME NEW m, NEW n, NEW e \in AnyUnit, SameData(m, n, e.first)
    PROVE  ContentOf(n, e) = ContentOf(m, e)
<1> DEFINE cs == Chain(m.fat, e.first)
           C(d, i) == d[cs[((i - 1) \div Units) + 1]][((i - 1) % Units) + 1]
<1>1. Chain(n.fat, e.first) = cs
  BY DEF SameData
<1>2. e.size \in Nat /\ Len(cs) \in Nat
  BY ChainType, LenProperties DEF AnyUnit
<1>3. /\ ContentOf(m, e) = IF Units * Len(cs) < e.size THEN <<Blank>>
                           ELSE [i \in 1 .. e.size |-> C(m.disk, i)]
      /\ ContentOf(n, e) = IF Units * Len(cs) < e.size THEN <<Blank>>
                           ELSE [i \in 1 .. e.size |-> C(n.disk, i)]
  BY <1>1 DEF ContentOf
<1>4. ASSUME ~(Units * Len(cs) < e.size), NEW i \in 1 .. e.size
      PROVE  C(n.disk, i) = C(m.disk, i)
  <2> DEFINE k == Len(cs)
             q == (i - 1) \div Units
             u == (i - 1) % Units
  <2>1. Units \in Nat /\ Units >= 1
    BY Sizes
  <2>2. k \in Nat /\ i - 1 \in Nat /\ i - 1 < Units * k
    <3>1. Units * k \in Nat
      BY <1>2, <2>1
    <3> HIDE DEF k
    <3> DEFINE x == Units * k
    <3>2. x \in Nat /\ ~(x < e.size) /\ i \in 1 .. e.size
      BY <1>4, <3>1 DEF k
    <3> HIDE DEF x
    <3>3. i - 1 \in Nat /\ i - 1 < x
      BY <1>2, <3>2
    <3> QED BY <1>2, <3>3 DEF x, k
  <2> HIDE DEF k
  <2>3. q \in Nat /\ q < k
    BY <2>1, <2>2, Quotient
  <2>4. u \in 0 .. Units - 1
    BY <2>1, <2>2, Division
  <2> HIDE DEF q, u
  <2>5. q + 1 \in 1 .. k /\ u + 1 \in 1 .. Units
    BY <2>1, <2>2, <2>3, <2>4
  <2>6. cs[q + 1] \in On(m.fat, e.first)
    BY <2>5 DEF On, k
  <2>7. At(n.disk, <<cs[q + 1], u + 1>>) = At(m.disk, <<cs[q + 1], u + 1>>)
    BY <2>5, <2>6 DEF SameData
  <2>8. n.disk[cs[q + 1]][u + 1] = m.disk[cs[q + 1]][u + 1]
    BY <2>7 DEF At
  <2> HIDE DEF cs
  <2> QED BY <2>8 DEF q, u
<1> HIDE DEF C, cs
<1>5. CASE Units * Len(cs) < e.size
  BY <1>3, <1>5
<1>6. CASE ~(Units * Len(cs) < e.size)
  BY <1>3, <1>4, <1>6
<1> QED BY <1>5, <1>6

LEMMA HoldsSame ==
    ASSUME NEW m, m.disk \in AnyDisk, NEW n, NEW at \in LiveOf(m.disk, m.fat),
           SameFile(m, n, at)
    PROVE  UnitAt(n, at) = UnitAt(m, at) /\ Holds(n, at) = Holds(m, at)
<1> DEFINE e == At(m.disk, at)
<1>1. UnitAt(m, at) = e /\ UnitAt(n, at) = At(n.disk, at)
  BY DEF UnitAt, At
<1>2. At(n.disk, at) = e /\ (~e.dir => SameData(m, n, e.first))
  BY DEF SameFile
<1>3. e \in AnyUnit
  <2>1. at \in Places
    BY DEF LiveOf
  <2> QED BY <2>1, AtType
<1> HIDE DEF e
<1>4. ~e.dir => ContentOf(n, e) = ContentOf(m, e)
  BY <1>2, <1>3, ContentSame
<1> QED BY <1>1, <1>2, <1>4 DEF Holds

\* Of the entries that are on the disk too, all but those of W stay.
OthersKept(v, w, W) ==
    \A at \in OnDisk(v) \ W :
        /\ at \in Live(w) /\ UnitAt(w, at) = UnitAt(v, at) /\ Holds(w, at) = Holds(v, at)

\* ... and of all entries of a volume.
StayBut(m, n, W) == \A p \in LiveOf(m.disk, m.fat) \ W : SameFile(m, n, p)

LEMMA OthersByCache ==
    ASSUME NEW v \in AnyVolume, NEW w \in AnyVolume, NEW W, StayBut(v, w, W)
    PROVE  OthersKept(v, w, W)
<1>1. v.disk \in AnyDisk /\ w.disk \in AnyDisk
  BY FieldTypes
<1>2. Live(v) = LiveOf(v.disk, v.fat) /\ Live(w) = LiveOf(w.disk, w.fat)
  BY <1>1, LiveIs
<1> SUFFICES ASSUME NEW at \in OnDisk(v) \ W
             PROVE  /\ at \in Live(w) /\ UnitAt(w, at) = UnitAt(v, at)
                    /\ Holds(w, at) = Holds(v, at)
  BY DEF OthersKept
<1>3. at \in LiveOf(v.disk, v.fat) /\ at \notin W
  BY <1>2 DEF OnDisk
<1>4. SameFile(v, w, at)
  BY <1>3 DEF StayBut
<1>5. at \in LiveOf(w.disk, w.fat)
  BY <1>4 DEF SameFile
<1> QED BY <1>1, <1>2, <1>3, <1>4, <1>5, HoldsSame

\* The call starts from the table on the disk.
LEMMA OthersByDisk ==
    ASSUME NEW v \in AnyVolume, NEW w \in AnyVolume, NEW W,
           NEW r, r.disk = v.disk, r.fat = v.saved, StayBut(r, w, W)
    PROVE  OthersKept(v, w, W)
<1> DEFINE u == Reopened(v)
<1>1. v.disk \in AnyDisk /\ w.disk \in AnyDisk
  BY FieldTypes
<1>2. u.disk = v.disk /\ u.fat = v.saved
  BY DEF Reopened, AnyVolume
<1> SUFFICES ASSUME NEW at \in OnDisk(v) \ W
             PROVE  /\ at \in Live(w) /\ UnitAt(w, at) = UnitAt(v, at)
                    /\ Holds(w, at) = Holds(v, at)
  BY DEF OthersKept
<1>3. at \in Live(u) /\ Holds(u, at) = Holds(v, at) /\ at \notin W
  BY DEF OnDisk
<1>4. UnitAt(u, at) = UnitAt(v, at)
  BY <1>2 DEF UnitAt
<1> HIDE DEF u
<1>5. Live(u) = LiveOf(u.disk, u.fat) /\ Live(w) = LiveOf(w.disk, w.fat)
  BY <1>1, <1>2, LiveIs
<1>6. at \in LiveOf(r.disk, r.fat)
  BY <1>2, <1>3, <1>5
<1>7. SameFile(r, w, at)
  BY <1>3, <1>6 DEF StayBut
<1>8. SameFile(u, w, at)
  BY <1>2, <1>7 DEF SameFile, SameData
<1>9. at \in LiveOf(w.disk, w.fat)
  BY <1>8 DEF SameFile
<1>10. UnitAt(w, at) = UnitAt(u, at) /\ Holds(w, at) = Holds(u, at)
  BY <1>1, <1>2, <1>3, <1>5, <1>8, HoldsSame
<1> QED BY <1>3, <1>4, <1>5, <1>9, <1>10

LEMMA AllBut ==
    ASSUME NEW m, NEW n, NEW W
    PROVE  /\ AllStay(m, n) => StayBut(m, n, W)
           /\ \A T \in W : Stays(m, n, T) => StayBut(m, n, W)
BY DEF AllStay, Stays, StayBut

\* A call that leaves the disk and the cached table.
LEMMA OthersSame ==
    ASSUME NEW v \in AnyVolume, NEW w \in AnyVolume, w.disk = v.disk, w.fat = v.fat, NEW W
    PROVE  OthersKept(v, w, W)
BY AllSame, AllBut, OthersByCache

\* What a step may change.
Touched == WrittenFile(vol) \cup WrittenFile(vol')

LEMMA WrittenTarget ==
    ASSUME NEW m, job.cmd \in {"copy", "xcopy", "md"}
    PROVE  m.file["dst"].where \in WrittenFile(m)
BY DEF WrittenFile

LEMMA WrittenSource ==
    ASSUME NEW m, job.cmd \notin {"copy", "xcopy", "md"}
    PROVE  m.file["src"].where \in WrittenFile(m)
BY DEF WrittenFile

\* The files and the table are as they were.
LEMMA QuietOthers ==
    ASSUME Inv(vol, job), vol' \in AnyVolume, vol'.disk = vol.disk, vol'.fat = vol.fat
    PROVE  OthersKept(vol, vol', Touched)
BY InvFacts, OthersSame

\* What is left of a call that starts with the volume as it is.
LEMMA AfterSame ==
    ASSUME NEW m \in AnyVolume, NEW w, w = After(m) \/ w = Leave(m)
    PROVE  w \in AnyVolume /\ w.disk = m.disk /\ w.fat = m.fat
BY AfterUntouched, LeaveUntouched

\* A call that touches nothing.
LEMMA UntouchedOthers ==
    ASSUME Inv(vol, job), NEW n \in Budgets, NEW m \in AnyVolume, m.disk = Fresh(n).disk,
           m.fat = Fresh(n).fat, vol' = After(m) \/ vol' = Leave(m)
    PROVE  OthersKept(vol, vol', Touched)
<1>1. Like(vol, Fresh(n))
  BY InvFacts, FreshLike
<1>2. Fresh(n).disk = vol.disk /\ Fresh(n).fat = vol.fat
  BY <1>1 DEF Like
<1>3. vol' \in AnyVolume /\ vol'.disk = vol.disk /\ vol'.fat = vol.fat
  BY <1>2, AfterSame
<1> QED BY <1>3, QuietOthers

LEMMA ReadOthers ==
    ASSUME Inv(vol, job), Safe(vol, job), Read
    PROVE  OthersKept(vol, vol', Touched)
<1> DEFINE m == FatRead(Fresh(0), "src", ReadAmount)
<1>1. vol' = After(m)
  BY DEF Read
<1>2. ReadAmount \in Nat
  BY InvFacts, ShellAssumption DEF ReadAmount
<1>3. Fresh(0) \in AnyVolume
  BY SafeFacts, NoBudget, FreshLike DEF Like
<1>4. Untouched(Fresh(0), m)
  <2> HIDE DEF Fresh
  <2> QED BY <1>2, <1>3, Ids, ReadUntouched
<1> HIDE DEF m
<1>5. m \in AnyVolume /\ m.disk = Fresh(0).disk /\ m.fat = Fresh(0).fat
  BY <1>4 DEF Untouched
<1> QED BY <1>1, <1>5, NoBudget, UntouchedOthers

LEMMA NextEntryOthers ==
    ASSUME Inv(vol, job), Safe(vol, job), NextEntry
    PROVE  OthersKept(vol, vol', Touched)
<1> DEFINE m == FatGetDirectoryEntry(Fresh(0), "dir")
<1>1. vol' = After(m)
  BY DEF NextEntry
<1>2. Fresh(0) \in AnyVolume
  BY SafeFacts, NoBudget, FreshLike DEF Like
<1>3. Untouched(Fresh(0), m)
  <2> HIDE DEF Fresh
  <2> QED BY <1>2, Ids, EntryUntouchedBy
<1> HIDE DEF m
<1>4. m \in AnyVolume /\ m.disk = Fresh(0).disk /\ m.fat = Fresh(0).fat
  BY <1>3 DEF Untouched
<1> QED BY <1>1, <1>4, NoBudget, UntouchedOthers

LEMMA CloseOthers ==
    ASSUME Inv(vol, job), Safe(vol, job), NEW n \in Budgets, NEW f \in FileIds,
           NEW m, m = FatClose(Fresh(n), f), vol' = After(m) \/ vol' = Leave(m)
    PROVE  OthersKept(vol, vol', Touched)
<1>1. Fresh(n) \in AnyVolume
  BY SafeFacts, FreshLike DEF Like
<1>2. m \in AnyVolume
  BY CloseSettles, SettledType
<1>3. m.disk = Fresh(n).disk /\ m.fat = Fresh(n).fat
  <2> HIDE DEF Fresh
  <2> QED BY <1>1, CloseSame
<1> QED BY <1>2, <1>3, UntouchedOthers

LEMMA ClosesOthers ==
    ASSUME Inv(vol, job), Safe(vol, job),
           CloseSource \/ CloseTarget \/ CloseDirectory \/ CloseSourceDirectory
    PROVE  OthersKept(vol, vol', Touched)
<1>1. CASE CloseSource
  <2>1. PICK n \in Budgets : vol' = After(FatClose(Fresh(n), "src"))
    BY <1>1 DEF CloseSource
  <2> QED BY <2>1, Ids, CloseOthers
<1>2. CASE CloseTarget
  <2>1. PICK n \in Budgets : vol' = After(FatClose(Fresh(n), "dst"))
    BY <1>2 DEF CloseTarget
  <2> QED BY <2>1, Ids, CloseOthers
<1>3. CASE CloseDirectory
  <2>1. PICK n \in Budgets : vol' = After(FatClose(Fresh(n), "dst"))
    BY <1>3 DEF CloseDirectory
  <2> QED BY <2>1, Ids, CloseOthers
<1>4. CASE CloseSourceDirectory
  <2>1. PICK n \in Budgets : vol' = Leave(FatClose(Fresh(n), "dir"))
    BY <1>4 DEF CloseSourceDirectory
  <2> QED BY <2>1, Ids, CloseOthers
<1> QED BY <1>1, <1>2, <1>3, <1>4

\* An open, as OpenFine has it.
LEMMA FatOpenStays ==
    ASSUME NEW m, NEW f \in FileIds, Rested(m), Ok(m),
           NEW path \in Seq(AnyName) \ {<<>>}, ~m.refused => GoodPath(path),
           NEW mode \in Modes,
           mode \in {"OpenDirectory", "CreateDirectory"} => GoodPath(path) /\ Len(path) = 1
    PROVE  OpenStays(Recognized(m), FatOpen(m, f, path, mode), f, mode)
<1> DEFINE r == Recognized(m)
           walk == Walk(r, path)
           name == Last(path)
           o == OpenAt(r, f, name, mode, walk)
           n == Answered(o, f)
<1>1. /\ Clean(r) /\ r.mcb = NoMcb /\ r.status = m.status /\ r.refused = m.refused
  BY RecognizedFine
<1>2. FatOpen(m, f, path, mode) = n
  BY DEF FatOpen
<1> HIDE DEF r
<1>3. r.mcb.owner # f
  <2>1. NoMcb.owner = ""
    BY DEF NoMcb
  <2>2. "" \notin FileIds
    BY ShellAssumption
  <2> QED BY <1>1, <2>1, <2>2
<1>4. Begins(r, f)
  BY <1>1, <1>3 DEF Begins, Ok
<1>5. r \in AnyVolume
  BY <1>1 DEF Clean, Sane
<1>6. path \in Seq(AnyName) /\ path # <<>>
  OBVIOUS
<1>7. walk \in Walks
  BY <1>5, <1>6, WalkType
<1>8. ~r.refused => walk.left \/ Finds(r, walk)
  <2>1. ~r.refused => Whole(r.disk, r.fat, r.full, {})
    BY <1>1 DEF Clean
  <2> QED BY <1>1, <1>5, <2>1, WalkFinds
<1>9. mode \in {"OpenDirectory", "CreateDirectory"} => InRoot(walk)
  BY <1>5, WalkInRoot
<1>10. name \in AnyName /\ (GoodPath(path) => Ordinary(name))
  <2>1. name = path[Len(path)]
    BY DEF Last
  <2>2. Len(path) \in 1 .. Len(path)
    BY <1>6, LenProperties, EmptySeq
  <2>3. GoodPath(path) => \A i \in 1 .. Len(path) : Ordinary(path[i])
    BY DEF GoodPath
  <2>4. path[Len(path)] \in AnyName
    BY <2>2, ElementOfSeq
  <2> HIDE DEF name
  <2> QED BY <2>1, <2>2, <2>3, <2>4
<1> HIDE DEF walk, name
<1>11. mode \in {"OpenDirectory", "CreateDirectory"} => Ordinary(name) /\ InRoot(walk)
  BY <1>9, <1>10
<1>12. ~r.refused => Ordinary(name) /\ (walk.left \/ Finds(r, walk))
  BY <1>1, <1>8, <1>10
<1>13. OpenStays(r, o, f, mode)
  BY <1>4, <1>7, <1>10, <1>11, <1>12, OpenAtStays
<1>14. OpenedFor(r, o, f, mode)
  BY <1>4, <1>7, <1>10, <1>11, <1>12, OpenAtOpens
<1>15. o \in AnyVolume
  BY <1>14, SettledType DEF OpenedFor
<1> HIDE DEF o
<1>16. OpenStays(r, n, f, mode)
  BY <1>13, <1>15, AnsweredStays
<1> QED BY <1>2, <1>16 DEF r

\* A call that opens.
LEMMA OpenOthers ==
    ASSUME Inv(vol, job), Safe(vol, job), NEW n \in Budgets, NEW f \in FileIds, NEW path,
           NEW mode, NEW m, OpenStays(Recognized(Fresh(n)), m, f, mode), m \in AnyVolume,
           vol' = After(m) \/ vol' = Leave(m),
           mode = "SupersedeWriteOnly" => m.file[f].where \in Touched
    PROVE  OthersKept(vol, vol', Touched)
<1> DEFINE r == Recognized(Fresh(n))
<1>1. r.disk = vol.disk /\ r.fat = vol.saved
  <2>1. Like(vol, Fresh(n)) /\ Fresh(n) \in AnyVolume
    BY InvFacts, FreshLike DEF Like
  <2> HIDE DEF Fresh
  <2> QED BY <2>1 DEF Like, Recognized, AnyVolume
<1> HIDE DEF r, Touched
<1>2. StayBut(r, m, Touched)
  <2>1. CASE mode = "SupersedeWriteOnly"
    <3>1. Stays(r, m, m.file[f].where)
      BY DEF OpenStays, r
    <3> QED BY <2>1, <3>1, AllBut
  <2>2. CASE mode # "SupersedeWriteOnly"
    <3>1. AllStay(r, m)
      BY <2>2 DEF OpenStays, r
    <3> QED BY <3>1, AllBut
  <2> QED BY <2>1, <2>2
<1>3. vol' \in AnyVolume /\ vol'.disk = m.disk /\ vol'.fat = m.fat
  BY AfterSame
<1>4. StayBut(r, vol', Touched)
  BY <1>2, <1>3 DEF StayBut, SameFile, SameData
<1>5. vol \in AnyVolume
  BY InvFacts
<1> QED BY <1>1, <1>3, <1>4, <1>5, OthersByDisk

LEMMA ShortStays ==
    ASSUME Inv(vol, job), Safe(vol, job), NEW n \in Budgets,
           job.at \in {"try", "create", "directory"}, NEW f \in FileIds, NEW path,
           ShortPath(path), NEW mode \in Modes
    PROVE  LET m == FatOpen(Fresh(n), f, path, mode)
           IN  OpenStays(Recognized(Fresh(n)), m, f, mode) /\ m \in AnyVolume
<1>1. Rested(Fresh(n)) /\ Ok(Fresh(n))
  BY NotWaiting
<1>2. GoodPath(path) /\ Len(path) = 1
  BY DEF ShortPath
<1>3. path \in Seq(AnyName) \ {<<>>}
  <2>1. Len(path) = 1 /\ path \in Seq(AnyName)
    BY <1>2, Zenon DEF GoodPath
  <2>2. <<>> \in Seq(AnyName) /\ Len(<<>>) = 0
    BY EmptySeq, Zenon
  <2>3. path # <<>>
    BY <2>1, <2>2
  <2> QED BY <2>1, <2>3, Zenon
<1>4. OpenedFor(Fresh(n), FatOpen(Fresh(n), f, path, mode), f, mode)
  BY ShortOpens
<1>5. FatOpen(Fresh(n), f, path, mode) \in AnyVolume
  BY <1>4, SettledType DEF OpenedFor
<1> HIDE DEF Fresh
<1>6. OpenStays(Recognized(Fresh(n)), FatOpen(Fresh(n), f, path, mode), f, mode)
  BY <1>1, <1>2, <1>3, FatOpenStays
<1> QED BY <1>5, <1>6

LEMMA ShortOthers ==
    ASSUME Inv(vol, job), Safe(vol, job), TryDirectory \/ MakeDirectory \/ OpenSourceDirectory
    PROVE  OthersKept(vol, vol', Touched)
<1>1. {"OpenDirectory", "CreateDirectory"} \subseteq Modes
  BY DEF Modes
<1>2. CASE TryDirectory
  <2> DEFINE m == FatOpen(Fresh(0), "dst", job.to, "OpenDirectory")
  <2>1. vol' = Leave(m) /\ job.at = "try"
    BY <1>2 DEF TryDirectory
  <2>2. ShortPath(job.to)
    BY <2>1, SafeFacts DEF Course
  <2>3. OpenStays(Recognized(Fresh(0)), m, "dst", "OpenDirectory") /\ m \in AnyVolume
    BY <1>1, <2>1, <2>2, NoBudget, Ids, ShortStays
  <2> HIDE DEF m
  <2> QED BY <2>1, <2>3, NoBudget, Ids, OpenOthers
<1>3. CASE MakeDirectory
  <2>1. PICK n \in Budgets :
           vol' = After(FatOpen(Fresh(n), "dst", job.to, "CreateDirectory"))
    BY <1>3 DEF MakeDirectory
  <2> DEFINE m == FatOpen(Fresh(n), "dst", job.to, "CreateDirectory")
  <2>2. job.at = "create"
    BY <1>3 DEF MakeDirectory
  <2>3. ShortPath(job.to)
    BY <2>2, SafeFacts DEF Course
  <2>4. OpenStays(Recognized(Fresh(n)), m, "dst", "CreateDirectory") /\ m \in AnyVolume
    BY <1>1, <2>2, <2>3, Ids, ShortStays
  <2>5. vol' = After(m)
    BY <2>1
  <2> HIDE DEF m
  <2> QED BY <2>4, <2>5, Ids, OpenOthers
<1>4. CASE OpenSourceDirectory
  <2> DEFINE m == FatOpen(Fresh(0), "dir", job.from, "OpenDirectory")
  <2>1. vol' = After(m) /\ job.at = "directory"
    BY <1>4 DEF OpenSourceDirectory
  <2>2. ShortPath(job.from)
    BY <2>1, SafeFacts DEF Course
  <2>3. OpenStays(Recognized(Fresh(0)), m, "dir", "OpenDirectory") /\ m \in AnyVolume
    BY <1>1, <2>1, <2>2, NoBudget, Ids, ShortStays
  <2> HIDE DEF m
  <2> QED BY <2>1, <2>3, NoBudget, Ids, OpenOthers
<1> QED BY <1>2, <1>3, <1>4

\* An open of a file that a command names.
LEMMA FileStays ==
    ASSUME Inv(vol, job), Safe(vol, job), NEW n \in Budgets,
           job.at \in {"source", "target"}, NEW f \in FileIds,
           NEW path \in Paths, path # <<>>, ~vol.refused => GoodPath(path),
           NEW mode \in {"OpenReadOnly", "SupersedeWriteOnly"}
    PROVE  LET m == FatOpen(Fresh(n), f, path, mode)
           IN  OpenStays(Recognized(Fresh(n)), m, f, mode) /\ m \in AnyVolume
<1>1. Rested(Fresh(n)) /\ Ok(Fresh(n)) /\ Fresh(n).refused = vol.refused
  <2>1. vol.refused \/ ~vol.dirty
    BY DEF Inv, Waiting
  <2> QED BY <2>1, SafeFacts, FreshRested
<1>2. path \in Seq(AnyName) \ {<<>>} /\ (~Fresh(n).refused => GoodPath(path))
  BY <1>1 DEF Paths
<1>3. mode \in Modes /\ mode \notin {"OpenDirectory", "CreateDirectory"}
  BY DEF Modes
<1> HIDE DEF Fresh
<1>4. OpenedFor(Fresh(n), FatOpen(Fresh(n), f, path, mode), f, mode)
  BY <1>1, <1>2, <1>3, OpenFine
<1>5. FatOpen(Fresh(n), f, path, mode) \in AnyVolume
  BY <1>4, SettledType DEF OpenedFor
<1>6. OpenStays(Recognized(Fresh(n)), FatOpen(Fresh(n), f, path, mode), f, mode)
  BY <1>1, <1>2, <1>3, FatOpenStays
<1> QED BY <1>5, <1>6

LEMMA OpenSourceOthers ==
    ASSUME Inv(vol, job), Safe(vol, job), OpenSource
    PROVE  OthersKept(vol, vol', Touched)
<1> DEFINE m == FatOpen(Fresh(0), "src", job.src, "OpenReadOnly")
<1>1. vol' = After(m) /\ job.at = "source"
  BY DEF OpenSource
<1>2. job.src \in Paths /\ job.src # <<>> /\ (~vol.refused => GoodPath(job.src))
  BY <1>1, SafeFacts DEF Guided
<1>3. OpenStays(Recognized(Fresh(0)), m, "src", "OpenReadOnly") /\ m \in AnyVolume
  BY <1>1, <1>2, NoBudget, Ids, FileStays
<1> HIDE DEF m
<1> QED BY <1>1, <1>3, NoBudget, Ids, OpenOthers

LEMMA OpenTargetOthers ==
    ASSUME Inv(vol, job), Safe(vol, job), OpenTarget
    PROVE  OthersKept(vol, vol', Touched)
<1>1. PICK n \in Budgets :
         vol' = After(FatOpen(Fresh(n), "dst", job.dst, "SupersedeWriteOnly"))
  BY DEF OpenTarget
<1> DEFINE m == FatOpen(Fresh(n), "dst", job.dst, "SupersedeWriteOnly")
<1>2. job.at = "target"
  BY DEF OpenTarget
<1>3. job.dst \in Paths /\ job.dst # <<>> /\ (~vol.refused => GoodPath(job.dst))
  BY <1>2, SafeFacts DEF Guided
<1>4. OpenStays(Recognized(Fresh(n)), m, "dst", "SupersedeWriteOnly") /\ m \in AnyVolume
  BY <1>2, <1>3, Ids, FileStays
<1>5. vol' = After(m)
  BY <1>1
<1> HIDE DEF m
<1>6. vol'.file = m.file
  BY <1>4, <1>5, AfterLike DEF Like
<1>7. job.cmd \in {"copy", "xcopy"}
  BY <1>2, SafeFacts DEF Course
<1>8. m.file["dst"].where \in Touched
  BY <1>6, <1>7, WrittenTarget DEF Touched
<1> QED BY <1>4, <1>5, <1>8, Ids, OpenOthers

\* A call that changes the file of an open entry.
LEMMA ChangeOthers ==
    ASSUME Inv(vol, job), NEW n \in Budgets, NEW T \in Touched, NEW m \in AnyVolume,
           Stays(Fresh(n), m, T), vol' = After(m)
    PROVE  OthersKept(vol, vol', Touched)
<1>1. Like(vol, Fresh(n))
  BY InvFacts, FreshLike
<1>2. Fresh(n).disk = vol.disk /\ Fresh(n).fat = vol.fat
  BY <1>1 DEF Like
<1> HIDE DEF Fresh, Touched
<1>3. vol' \in AnyVolume /\ vol'.disk = m.disk /\ vol'.fat = m.fat
  BY AfterSame
<1>4. Stays(m, vol', T) /\ Stays(vol, Fresh(n), T)
  BY <1>2, <1>3, StaysSame
<1>5. Stays(vol, vol', T)
  BY <1>4, StaysTransitive
<1>6. StayBut(vol, vol', Touched)
  BY <1>5, AllBut
<1> QED BY <1>3, <1>6, InvFacts, OthersByCache

LEMMA WriteTargetOthers ==
    ASSUME Inv(vol, job), Safe(vol, job), WriteTarget
    PROVE  OthersKept(vol, vol', Touched)
<1>1. PICK n \in Budgets : vol' = After(FatWrite(Fresh(n), "dst", job.buffer))
  BY DEF WriteTarget
<1> DEFINE m == FatWrite(Fresh(n), "dst", job.buffer)
           T == vol.file["dst"].where
<1>2. job.at = "write"
  BY DEF WriteTarget
<1>3. Fine(vol, {}, T) /\ (~vol.refused => Writable(vol, "dst"))
      /\ job.cmd \in {"copy", "xcopy"}
  BY <1>2, SafeFacts DEF Copying, Course
<1>4. /\ Like(vol, Fresh(n)) /\ Ok(Fresh(n)) /\ Fresh(n).file = vol.file
      /\ Fresh(n).refused = vol.refused
  BY SafeFacts, FreshLike DEF Like
<1>5. Writing(Fresh(n), "dst", T)
  <2>1. Fine(Fresh(n), {}, T)
    BY <1>3, <1>4, LikeFine
  <2>2. ~vol.refused => Writable(Fresh(n), "dst")
    BY <1>3, <1>4, LikeFiles
  <2> QED BY <1>4, <2>1, <2>2 DEF Writing
<1>6. Stays(Fresh(n), m, T) /\ m \in AnyVolume
  <2>1. job.buffer \in Seq(AnyUnit)
    BY InvFacts
  <2> HIDE DEF Fresh, T
  <2>2. Writes(Fresh(n), m, "dst", T)
    BY <1>4, <1>5, <2>1, Ids, WriteWrites
  <2>3. Stays(Fresh(n), m, T)
    BY <1>4, <1>5, <2>1, Ids, WriteStays
  <2> QED BY <2>2, <2>3 DEF Writes, Writing, Fine, Sane
<1>7. T \in Touched
  BY <1>3, WrittenTarget DEF Touched
<1>8. vol' = After(m)
  BY <1>1
<1> HIDE DEF m, T
<1> QED BY <1>6, <1>7, <1>8, ChangeOthers

LEMMA SetInformationOthers ==
    ASSUME Inv(vol, job), Safe(vol, job), SetFileInformation
    PROVE  OthersKept(vol, vol', Touched)
<1>1. PICK n \in Budgets : vol' = After(SetInformation(Fresh(n)))
  BY DEF SetFileInformation
<1> DEFINE m == SetInformation(Fresh(n))
           T == vol.file["src"].where
<1>2. job.at = "set"
  BY DEF SetFileInformation
<1>3. /\ Rested(Fresh(n)) /\ Ok(Fresh(n)) /\ Fresh(n).refused = vol.refused
      /\ Like(vol, Fresh(n))
  <2>1. vol.refused \/ ~vol.dirty
    BY <1>2 DEF Inv, Waiting
  <2> QED BY <2>1, SafeFacts, FreshRested, FreshLike
<1>4. /\ Fresh(n).file = vol.file
      /\ ~vol.file["src"].dirent.dir /\ (~vol.refused => Held(Fresh(n), "src"))
  BY <1>2, <1>3, SafeFacts, LikeFiles DEF Changing, Like
<1>5. Stays(Fresh(n), m, T) /\ m \in AnyVolume
  <2>1. Fine(Fresh(n), {}, Fresh(n).file["src"].where)
    BY <1>3, RestedFine
  <2>2. /\ ~Fresh(n).file["src"].dirent.dir /\ (~Fresh(n).refused => Held(Fresh(n), "src"))
        /\ T = Fresh(n).file["src"].where
    BY <1>3, <1>4
  <2>3. m = DeleteFile(Fresh(n), "src")
        \/ m = SetReadOnly(Fresh(n), "src", job.cmd = "attrib+r")
    BY DEF SetInformation
  <2>4. (job.cmd = "attrib+r") \in BOOLEAN
    OBVIOUS
  <2> HIDE DEF Fresh, m, T
  <2>5. Stays(Fresh(n), m, T)
    BY <1>3, <2>1, <2>2, <2>3, <2>4, Ids, DeleteStays, ReadOnlyStays
  <2>6. Settled(m)
    BY <1>3, <2>1, <2>2, <2>3, <2>4, Ids, DeleteFine, ReadOnlyFine
  <2> QED BY <2>5, <2>6, SettledType
<1>6. T \in Touched
  BY <1>2, WrittenSource, SafeFacts DEF Touched, Course
<1>7. vol' = After(m)
  BY <1>1
<1> HIDE DEF m, T
<1> QED BY <1>5, <1>6, <1>7, ChangeOthers

LEMMA RestOthers ==
    ASSUME Inv(vol, job), Safe(vol, job),
           Prompts \/ ReadAll \/ Done \/ UNCHANGED vars
    PROVE  OthersKept(vol, vol', Touched)
<1>1. vol' = vol \/ vol' = Leave(vol)
  BY DEF Prompts, Type, Delete, Attrib, Copy, Md, Dir, XCopy, Prompt, Exit, Exited, ReadAll,
         Done, vars
<1>2. vol \in AnyVolume
  BY InvFacts
<1>3. vol' \in AnyVolume /\ vol'.disk = vol.disk /\ vol'.fat = vol.fat
  BY <1>1, <1>2, AfterSame
<1> QED BY <1>3, QuietOthers

LEMMA StepOthers ==
    ASSUME Inv(vol, job), Safe(vol, job), [Next]_vars
    PROVE  OthersKept(vol, vol', Touched)
<1>1. CASE Calls
  BY <1>1, OpenSourceOthers, OpenTargetOthers, ReadOthers, WriteTargetOthers, RestOthers,
     ClosesOthers, SetInformationOthers, ShortOthers, NextEntryOthers DEF Calls
<1>2. CASE Prompts \/ UNCHANGED vars
  BY <1>2, RestOthers
<1> QED BY <1>1, <1>2 DEF Next, Prompts

\* No call of any command changes a file other than the one its command is to change,
\* neither its entry nor what it holds, if these are on the disk too (fatboot.c's
\* allocation, truncation, writes through the one cached mapping, and the growth of
\* directories), and no directory loses its entry; for every volume and every device
\* that refuses writes.
THEOREM OtherFilesStay == Spec => OthersStay
<1>1. SafeInvariant /\ [Next]_vars => OthersKept(vol, vol', Touched)
  BY StepOthers DEF SafeInvariant, Invariant
<1>2. SafeInvariant /\ [Next]_vars =>
         [\A at \in OnDisk(vol) \ (WrittenFile(vol) \cup WrittenFile(vol')) :
             /\ at \in Live(vol')
             /\ UnitAt(vol', at) = UnitAt(vol, at)
             /\ Holds(vol', at) = Holds(vol, at)]_vars
  BY <1>1 DEF OthersKept, Touched
<1> QED BY <1>2, SafeInvariantHolds, PTL DEF Spec, OthersStay
=============================================================================
