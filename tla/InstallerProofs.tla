--------------------------- MODULE InstallerProofs ---------------------------
(***************************************************************************)
(* Proofs about Installer, for any number of commands running at once, any *)
(* releases and a library of any size, with and without failures.          *)
(***************************************************************************)
EXTENDS Installer, TLAPS
-----------------------------------------------------------------------------
(* The inductive invariant.                                                *)
Fetched == {"mkdir", "create", "copy", "chmod", "openversion", "writeversion"}
Installs == {"check", "download", "receive", "verify"} \cup Fetched
NoTmp == {"idle", "check", "download", "stat", "remove", "read"}

(* What a command knows of its own work, whoever else is about.            *)
ProcOk(p) ==
  /\ pc[p] = "idle" => cmd[p] = None
  /\ pc[p] # "idle" => cmd[p] \in Commands
  /\ pc[p] \in Installs => cmd[p].kind = "install"
  /\ pc[p] \in {"stat", "remove"} => cmd[p].kind = "uninstall"
  /\ pc[p] = "read" => cmd[p].kind = "version"
  /\ pc[p] \in NoTmp => tmp[p] = None
  /\ pc[p] = "exited" => tmp[p] \in {None, "stuck"}
  /\ pc[p] \in {"verify"} \cup Fetched => tmp[p] \in {cmd[p].version, "corrupt"}
  /\ pc[p] \in Fetched /\ cmd[p].verify => tmp[p] = cmd[p].version
  /\ pc[p] = "copy" /\ linked[p] => lib # None

(* One that is alone also knows the prefix.                                *)
AloneOk(p) ==
  alone[p] =>
    /\ pc[p] \in {"create", "copy", "chmod", "openversion", "writeversion"} => dir
    /\ pc[p] = "copy" =>
         linked[p] /\ \A i \in 1..Chunks : i <= at[p] => lib[i] = tmp[p]
    /\ pc[p] \in {"chmod", "openversion", "writeversion"} => Holds(tmp[p])
    /\ pc[p] = "writeversion" => linked[p]

Exclusive == \A p, q \in Procs : alone[p] /\ Writer(p) /\ Writer(q) => q = p
TrustedAlone == \A p \in Procs : trusted /\ Writer(p) => alone[p]

Consistent == \A v \in Versions : version = v => Holds(v) \/ Holds("corrupt")
Settled ==
  trusted /\ (\A p \in Procs : Writer(p) => pc[p] \notin Writing) => Consistent

IInv ==
  /\ TypeOK /\ VerifiedOnly /\ Exclusive /\ TrustedAlone /\ Settled
  /\ \A p \in Procs : ProcOk(p) /\ AloneOk(p)
-----------------------------------------------------------------------------
LEMMA CommandTypes ==
  ASSUME NEW c \in Commands
  PROVE  /\ c.kind \in {"install", "uninstall", "version"}
         /\ c.kind = "install" => c.version \in Versions
         /\ c.kind # "install" => c.verify
         /\ c.verify \in BOOLEAN
BY Bounds DEF Commands

(* What every step of a running command p has in common.                   *)
Frame(p) ==
  /\ cmd' = cmd /\ alone' = alone
  /\ \A q \in Procs \ {p} : /\ pc'[q] = pc[q] /\ tmp'[q] = tmp[q] /\ at'[q] = at[q]
                            /\ linked'[q] => linked[q]
                            /\ pc[q] = "copy" /\ linked'[q] => lib' # None
  /\ cmd[p].kind = "version" =>
       UNCHANGED files /\ \A q \in Procs \ {p} : linked'[q] = linked[q]
  /\ trusted' => trusted \/ (Writer(p) /\ alone[p] /\ pc'[p] = "exited")

LEMMA ActiveCommand ==
  ASSUME IInv, NEW p \in Procs, Active(p)
  PROVE  cmd[p] \in Commands /\ pc[p] # "idle"
BY DEF IInv, ProcOk, Active, Over

LEMMA OthersOk ==
  ASSUME IInv, NEW p \in Procs, Active(p), Frame(p), NEW q \in Procs, q # p
  PROVE  ProcOk(q)' /\ AloneOk(q)'
<1>1. pc'[q] = pc[q] /\ tmp'[q] = tmp[q] /\ at'[q] = at[q] /\ cmd'[q] = cmd[q]
      /\ alone'[q] = alone[q]
  BY DEF Frame
<1>2. ProcOk(q) /\ AloneOk(q)
  BY DEF IInv
<1>3. ProcOk(q)'
  <2>1. pc'[q] = "copy" /\ linked'[q] => lib' # None
    BY <1>1 DEF Frame
  <2> QED BY <1>1, <1>2, <2>1 DEF ProcOk
<1>4. CASE cmd[p].kind = "version"
  <2>1. dir' = dir /\ lib' = lib /\ linked'[q] = linked[q]
    BY <1>4 DEF Frame, files
  <2>2. alone'[q] => alone[q] /\ AloneOk(q)
    BY <1>1, <1>2
  <2> QED BY <1>1, <2>1, <2>2, <1>3 DEF AloneOk, Holds
<1>5. CASE cmd[p].kind # "version"
  <2>1. Writer(p)
    BY <1>5 DEF Writer
  <2>2. alone[q] => ~Writer(q)
    BY <2>1 DEF IInv, Exclusive
  <2>3. alone[q] => pc[q] \notin Fetched
    BY <1>2, <2>2 DEF Writer, Active, Over, Fetched, Installs, ProcOk
  <2> QED BY <1>1, <1>3, <2>3 DEF AloneOk, Fetched
<1> QED BY <1>3, <1>4, <1>5

LEMMA StepOk ==
  ASSUME IInv, NEW p \in Procs, Active(p), Frame(p),
         TypeOK', VerifiedOnly', Settled', ProcOk(p)', AloneOk(p)'
  PROVE  IInv'
<1>1. ASSUME NEW q \in Procs, Writer(q)' PROVE Writer(q)
  BY <1>1 DEF Frame, Writer, Active
<1>2. Exclusive'
  BY <1>1 DEF IInv, Exclusive, Frame
<1>3. TrustedAlone'
  <2>1. SUFFICES ASSUME NEW q \in Procs, trusted', Writer(q)' PROVE alone[q]
    BY DEF TrustedAlone, Frame
  <2>2. CASE trusted
    BY <1>1, <2>1, <2>2 DEF IInv, TrustedAlone
  <2>3. CASE ~trusted
    <3>1. Writer(p) /\ alone[p] /\ pc'[p] = "exited"
      BY <2>1, <2>3 DEF Frame
    <3>2. q = p
      BY <1>1, <2>1, <3>1 DEF IInv, Exclusive
    <3> QED BY <3>1, <3>2
  <2> QED BY <2>2, <2>3
<1>4. \A q \in Procs : ProcOk(q)' /\ AloneOk(q)'
  BY OthersOk
<1> QED BY <1>2, <1>3, <1>4 DEF IInv

(* A step that leaves the prefix alone, and does not break off a write.    *)
LEMMA QuietOk ==
  ASSUME IInv, NEW p \in Procs, Active(p), UNCHANGED <<files, cmd, alone>>,
         UNCHANGED writer \/ CloseFile(p),
         trusted' => trusted,
         trusted' /\ pc[p] \in Writing => pc'[p] \in Writing,
         pc' \in [Procs -> PCs], \A q \in Procs \ {p} : pc'[q] = pc[q],
         tmp' \in [Procs -> TmpFiles],
         \A q \in Procs \ {p} : tmp'[q] = tmp[q],
         trusted' \in BOOLEAN,
         outcome' \in [Procs -> {"none", "installed", "already", "removed",
                                 "nothing", "printed", "error"}],
         ProcOk(p)', AloneOk(p)'
  PROVE  IInv'
<1>0. /\ at' \in [Procs -> 0..Chunks] /\ linked' \in [Procs -> BOOLEAN]
      /\ \A q \in Procs \ {p} : at'[q] = at[q] /\ linked'[q] = linked[q]
  <2>1. 0 \in 0..Chunks
    BY Bounds
  <2>2. CASE UNCHANGED writer
    BY <2>2 DEF IInv, TypeOK, writer
  <2>3. CASE CloseFile(p)
    BY <2>1, <2>3 DEF IInv, TypeOK, CloseFile
  <2> QED BY <2>2, <2>3
<1>1. TypeOK'
  BY <1>0 DEF IInv, TypeOK, files
<1>2. VerifiedOnly'
  BY DEF IInv, VerifiedOnly, files
<1>3. Frame(p)
  BY <1>0 DEF Frame, files, IInv, ProcOk
<1>4. Settled'
  <2>1. SUFFICES ASSUME trusted', \A q \in Procs : Writer(q)' => pc'[q] \notin Writing
                 PROVE  Consistent
    BY DEF Settled, Consistent, Holds, files
  <2>2. ASSUME NEW q \in Procs, Writer(q), pc[q] \in Writing PROVE FALSE
    <3>1. pc'[q] \in Writing
      BY <2>1, <2>2
    <3>2. Writer(q)'
      BY <2>2, <3>1 DEF Writer, Active, Over, Writing
    <3> QED BY <2>1, <3>1, <3>2
  <2> QED BY <2>1, <2>2 DEF IInv, Settled
<1> QED BY <1>1, <1>2, <1>3, <1>4, StepOk
-----------------------------------------------------------------------------
(* The steps that do not touch the library, VERSION or the directory.      *)
Outcomes == {"none", "installed", "already", "removed", "nothing", "printed", "error"}

(* p goes on to stage "next", or comes to its end.                         *)
LEMMA GoesOn ==
  ASSUME IInv, NEW p \in Procs, NEW next \in PCs, GoTo(p, next)
  PROVE  /\ pc' \in [Procs -> PCs] /\ pc'[p] = next
         /\ \A q \in Procs \ {p} : pc'[q] = pc[q]
BY DEF IInv, TypeOK, GoTo

LEMMA Exits ==
  ASSUME IInv, NEW p \in Procs, NEW how \in Outcomes, Exit(p, how)
  PROVE  /\ pc' \in [Procs -> PCs] /\ pc'[p] = "exited"
         /\ \A q \in Procs \ {p} : pc'[q] = pc[q]
         /\ outcome' \in [Procs -> Outcomes]
<1>1. "exited" \in PCs
  BY DEF PCs
<1> QED BY <1>1, GoesOn DEF Exit, IInv, TypeOK, Outcomes

LEMMA TmpRemoved ==
  ASSUME IInv, NEW p \in Procs, RemoveTmp(p)
  PROVE  /\ tmp' \in [Procs -> TmpFiles] /\ tmp'[p] \in {None, "stuck"}
         /\ \A q \in Procs \ {p} : tmp'[q] = tmp[q]
BY DEF IInv, TypeOK, RemoveTmp, TmpFiles

(* A command that ends without having written.                             *)
LEMMA EndsQuietly ==
  ASSUME IInv, NEW p \in Procs, Active(p), NEW how \in Outcomes, Exit(p, how),
         RemoveTmp(p) \/ (tmp' = tmp /\ tmp[p] = None),
         UNCHANGED <<files, cmd, alone>>, UNCHANGED writer \/ CloseFile(p),
         trusted' \in BOOLEAN, trusted' => trusted /\ pc[p] \notin Writing
  PROVE  IInv'
<1>1. /\ pc' \in [Procs -> PCs] /\ pc'[p] = "exited"
      /\ \A q \in Procs \ {p} : pc'[q] = pc[q]
      /\ outcome' \in [Procs -> Outcomes]
  BY Exits
<1>2. /\ tmp' \in [Procs -> TmpFiles] /\ tmp'[p] \in {None, "stuck"}
      /\ \A q \in Procs \ {p} : tmp'[q] = tmp[q]
  BY TmpRemoved DEF IInv, TypeOK
<1>3. cmd'[p] \in Commands
  BY ActiveCommand
<1>4. ProcOk(p)' /\ AloneOk(p)'
  BY <1>1, <1>2, <1>3 DEF ProcOk, AloneOk, Installs, Fetched, NoTmp
<1> QED BY <1>1, <1>2, <1>4, QuietOk DEF Outcomes

LEMMA KilledStep ==
  ASSUME IInv, NEW p \in Procs, Killed(p)
  PROVE  IInv'
<1>1. Active(p) /\ UNCHANGED <<files, tmp, cmd, alone, outcome>> /\ CloseFile(p)
      /\ trusted' = (trusted /\ pc[p] \notin Writing)
  BY DEF Killed, BreaksOff
<1>2. /\ pc' \in [Procs -> PCs] /\ pc'[p] = "killed"
      /\ \A q \in Procs \ {p} : pc'[q] = pc[q]
  <2>1. "killed" \in PCs
    BY DEF PCs
  <2> QED BY <2>1, GoesOn DEF Killed
<1>3. cmd'[p] \in Commands
  BY <1>1, ActiveCommand
<1>4. ProcOk(p)' /\ AloneOk(p)'
  BY <1>2, <1>3 DEF ProcOk, AloneOk, Installs, Fetched, NoTmp
<1>5. trusted' \in BOOLEAN
  BY <1>1
<1>6. tmp' \in [Procs -> TmpFiles]
      /\ outcome' \in [Procs -> Outcomes]
  BY <1>1 DEF IInv, TypeOK, Outcomes
<1> QED BY <1>1, <1>2, <1>4, <1>5, <1>6, QuietOk DEF Outcomes

LEMMA FailsStep ==
  ASSUME IInv, NEW p \in Procs, Fails(p)
  PROVE  IInv'
<1>1. Active(p)
  BY DEF Fails, Active, Over
<1>2. /\ UNCHANGED <<files, cmd, alone>> /\ CloseFile(p) /\ RemoveTmp(p) /\ Exit(p, "error")
      /\ trusted' = (trusted /\ pc[p] \notin Writing)
  BY DEF Fails, BreaksOff
<1>3. trusted' \in BOOLEAN /\ "error" \in Outcomes
  BY <1>2 DEF Outcomes
<1> QED BY <1>1, <1>2, <1>3, EndsQuietly

(* Going on without touching the prefix, in a stage that is no write.      *)
LEMMA GoesOnQuietly ==
  ASSUME IInv, NEW p \in Procs, Active(p), NEW next \in PCs, GoTo(p, next), Same,
         UNCHANGED <<files, writer, outcome>>,
         pc[p] \in Writing => next \in Writing,
         tmp' \in [Procs -> TmpFiles],
         \A q \in Procs \ {p} : tmp'[q] = tmp[q],
         ProcOk(p)', AloneOk(p)'
  PROVE  IInv'
<1>1. /\ pc' \in [Procs -> PCs] /\ pc'[p] = next
      /\ \A q \in Procs \ {p} : pc'[q] = pc[q]
  BY GoesOn
<1>2. trusted' = trusted /\ trusted' \in BOOLEAN /\ UNCHANGED <<files, writer, cmd, alone>>
      /\ outcome' \in [Procs -> Outcomes]
  BY DEF Same, IInv, TypeOK, Outcomes
<1> QED BY <1>1, <1>2, QuietOk DEF Outcomes

LEMMA FetchSteps ==
  ASSUME IInv, NEW p \in Procs,
         CheckInstalled(p) \/ CreateTemp(p) \/ ReceiveArtifact(p) \/ VerifySha256(p)
  PROVE  IInv'
<1>1. Active(p) /\ UNCHANGED <<files, writer>> /\ Same
      /\ pc[p] \in {"check", "download", "receive", "verify"}
  BY DEF CheckInstalled, CreateTemp, ReceiveArtifact, VerifySha256, Active, Over
<1>2. ProcOk(p) /\ cmd'[p] = cmd[p] /\ cmd[p] \in Commands /\ cmd[p].kind = "install"
      /\ cmd[p].version \in Versions
  BY <1>1, CommandTypes DEF IInv, ProcOk, Installs, Same
<1>3. "already" \in Outcomes /\ "error" \in Outcomes /\ trusted' \in BOOLEAN
      /\ UNCHANGED <<cmd, alone>> /\ (trusted' => trusted)
  BY <1>1 DEF Outcomes, Same, IInv, TypeOK
<1>4. {"download", "receive", "verify", "mkdir"} \subseteq PCs /\ pc[p] \notin Writing
  BY <1>1 DEF PCs, Writing
<1>5. CASE CheckInstalled(p) /\ Exit(p, "already")
  <2>1. tmp' = tmp /\ tmp[p] = None
    BY <1>2, <1>5 DEF CheckInstalled, ProcOk, NoTmp
  <2>2. UNCHANGED <<files, writer, cmd, alone>>
    BY <1>1, <1>3
  <2> QED BY <1>1, <1>3, <1>4, <1>5, <2>1, <2>2, EndsQuietly
<1>6. CASE CheckInstalled(p) /\ GoTo(p, "download")
  <2>1. tmp' = tmp /\ tmp[p] = None /\ UNCHANGED outcome
    <3>1. pc'[p] = "download"
      BY <1>4, <1>6, GoesOn
    <3>2. ~Exit(p, "already")
      BY <3>1, <1>3, Exits
    <3> QED BY <1>2, <1>6, <3>2 DEF CheckInstalled, ProcOk, NoTmp
  <2>2. pc'[p] = "download"
    BY <1>4, <1>6, GoesOn
  <2>3. ProcOk(p)' /\ AloneOk(p)'
    BY <1>2, <2>1, <2>2 DEF ProcOk, AloneOk, Installs, Fetched, NoTmp
  <2>4. tmp' \in [Procs -> TmpFiles]
    BY <2>1 DEF IInv, TypeOK
  <2> QED BY <1>1, <1>4, <1>6, <2>1, <2>3, <2>4, GoesOnQuietly
<1>7. CASE CreateTemp(p)
  <2>1. tmp' = [tmp EXCEPT ![p] = "partial"] /\ GoTo(p, "receive") /\ UNCHANGED outcome
    BY <1>7 DEF CreateTemp
  <2>2. pc'[p] = "receive"
    BY <1>4, <2>1, GoesOn
  <2>3. ProcOk(p)' /\ AloneOk(p)'
    BY <1>2, <2>2 DEF ProcOk, AloneOk, Installs, Fetched, NoTmp
  <2>4. tmp' \in [Procs -> TmpFiles]
        /\ \A q \in Procs \ {p} : tmp'[q] = tmp[q]
    BY <2>1 DEF IInv, TypeOK, TmpFiles
  <2> QED BY <1>1, <1>4, <2>1, <2>3, <2>4, GoesOnQuietly
<1>8. CASE ReceiveArtifact(p)
  <2>1. PICK a \in {cmd[p].version, "corrupt"} : tmp' = [tmp EXCEPT ![p] = a]
    BY <1>8 DEF ReceiveArtifact
  <2>2. PICK next \in {"verify", "mkdir"} :
          GoTo(p, next) /\ (next = "mkdir" => ~cmd[p].verify) /\ UNCHANGED outcome
    BY <1>8 DEF ReceiveArtifact
  <2>3. pc'[p] = next
    BY <1>4, <2>2, GoesOn
  <2>4. a \in Artifacts
    BY <1>2, <2>1 DEF Artifacts
  <2>5. tmp' \in [Procs -> TmpFiles] /\ tmp'[p] = a
        /\ \A q \in Procs \ {p} : tmp'[q] = tmp[q]
    BY <2>1, <2>4 DEF IInv, TypeOK, TmpFiles
  <2>6. ProcOk(p)' /\ AloneOk(p)'
    BY <1>2, <2>1, <2>2, <2>3, <2>5 DEF ProcOk, AloneOk, Installs, Fetched, NoTmp
  <2> QED BY <1>1, <1>4, <2>2, <2>5, <2>6, GoesOnQuietly
<1>9. CASE VerifySha256(p) /\ tmp[p] = cmd[p].version
  <2>1. GoTo(p, "mkdir") /\ UNCHANGED <<tmp, outcome>>
    BY <1>9 DEF VerifySha256
  <2>2. pc'[p] = "mkdir"
    BY <1>4, <2>1, GoesOn
  <2>3. ProcOk(p)' /\ AloneOk(p)'
    BY <1>2, <1>9, <2>1, <2>2 DEF ProcOk, AloneOk, Installs, Fetched, NoTmp
  <2>4. tmp' \in [Procs -> TmpFiles]
    BY <2>1 DEF IInv, TypeOK
  <2> QED BY <1>1, <1>4, <2>1, <2>3, <2>4, GoesOnQuietly
<1>10. CASE VerifySha256(p) /\ tmp[p] # cmd[p].version
  <2>1. Exit(p, "error") /\ RemoveTmp(p)
    BY <1>10 DEF VerifySha256
  <2>2. UNCHANGED <<files, writer, cmd, alone>>
    BY <1>1, <1>3
  <2> QED BY <1>1, <1>3, <1>4, <2>1, <2>2, EndsQuietly
<1> QED BY <1>5, <1>6, <1>7, <1>8, <1>9, <1>10 DEF CheckInstalled

LEMMA ReadSteps ==
  ASSUME IInv, NEW p \in Procs, StatDir(p) \/ InstalledVersion(p)
  PROVE  IInv'
<1>1. Active(p) /\ UNCHANGED <<files, writer, tmp>> /\ Same /\ pc[p] \in {"stat", "read"}
  BY DEF StatDir, InstalledVersion, Active, Over
<1>2. ProcOk(p) /\ cmd'[p] = cmd[p] /\ cmd[p] \in Commands /\ tmp' = tmp /\ tmp[p] = None
  BY <1>1 DEF IInv, ProcOk, NoTmp, Same
<1>3. {"nothing", "error", "printed"} \subseteq Outcomes /\ trusted' \in BOOLEAN
      /\ UNCHANGED <<files, writer, cmd, alone>> /\ (trusted' => trusted)
  BY <1>1 DEF Outcomes, Same, IInv, TypeOK
<1>4. "remove" \in PCs /\ pc[p] \notin Writing
  BY <1>1 DEF PCs, Writing
<1>5. CASE \E how \in {"nothing", "error", "printed"} : Exit(p, how)
  <2>1. PICK how \in Outcomes : Exit(p, how)
    BY <1>3, <1>5
  <2> QED BY <1>1, <1>2, <1>3, <1>4, <2>1, EndsQuietly
<1>6. CASE StatDir(p) /\ GoTo(p, "remove") /\ UNCHANGED outcome
  <2>1. pc'[p] = "remove" /\ pc[p] = "stat"
    BY <1>4, <1>6, GoesOn DEF StatDir
  <2>2. ProcOk(p)' /\ AloneOk(p)'
    BY <1>2, <2>1 DEF ProcOk, AloneOk, Installs, Fetched, NoTmp
  <2>3. tmp' \in [Procs -> TmpFiles]
    BY <1>1 DEF IInv, TypeOK
  <2> QED BY <1>1, <1>2, <1>4, <1>6, <2>2, <2>3, GoesOnQuietly
<1> QED BY <1>5, <1>6 DEF StatDir, InstalledVersion
-----------------------------------------------------------------------------
(* The steps of an install that writes.                                    *)
LEMMA Installing ==
  ASSUME IInv, NEW p \in Procs, pc[p] \in Fetched
  PROVE  /\ Active(p) /\ Writer(p) /\ cmd[p] \in Commands /\ cmd[p].kind = "install"
         /\ cmd[p].version \in Versions
         /\ trusted => alone[p]
         /\ tmp[p] \in {cmd[p].version, "corrupt"} /\ tmp[p] \in Artifacts
         /\ ProcOk(p) /\ AloneOk(p)
<1>1. ProcOk(p) /\ AloneOk(p) /\ Active(p) /\ cmd[p] \in Commands /\ cmd[p].kind = "install"
  BY DEF IInv, ProcOk, Installs, Fetched, Active, Over
<1>2. Writer(p) /\ cmd[p].version \in Versions
  BY <1>1, CommandTypes DEF Writer
<1>3. tmp[p] \in {cmd[p].version, "corrupt"}
  BY <1>1 DEF ProcOk
<1> QED BY <1>1, <1>2, <1>3 DEF IInv, TrustedAlone, Artifacts

LEMMA StillWriting ==
  ASSUME IInv, NEW p \in Procs, Writer(p), cmd' = cmd, pc'[p] \in Writing
  PROVE  Settled'
<1>1. Writer(p)'
  BY DEF Writer, Active, Over, Writing
<1> QED BY <1>1 DEF Settled

LEMMA DirGoneStep ==
  ASSUME IInv, NEW p \in Procs, DirGone(p)
  PROVE  IInv'
<1>1. pc[p] \in {"create", "openversion"} /\ ~dir /\ Exit(p, "error") /\ RemoveTmp(p)
      /\ UNCHANGED <<files, writer, cmd, alone, trusted>>
  BY DEF DirGone, Same
<1>2. Active(p) /\ Writer(p) /\ AloneOk(p) /\ (trusted => alone[p])
  BY <1>1, Installing DEF Fetched
<1>3. ~trusted
  BY <1>1, <1>2 DEF AloneOk
<1>4. "error" \in Outcomes /\ trusted' \in BOOLEAN
  BY <1>1 DEF Outcomes, IInv, TypeOK
<1> QED BY <1>1, <1>2, <1>3, <1>4, EndsQuietly

LEMMA ChmodStep ==
  ASSUME IInv, NEW p \in Procs, Chmod(p) \/ CopyDone(p)
  PROVE  IInv'
<1>1. pc[p] \in {"chmod", "copy"} /\ UNCHANGED <<files, writer, cmd, alone, trusted>>
  BY DEF Chmod, CopyDone, Same
<1>2. /\ Active(p) /\ Writer(p) /\ cmd[p] \in Commands /\ cmd[p].kind = "install"
      /\ (trusted => alone[p]) /\ ProcOk(p) /\ AloneOk(p)
      /\ tmp[p] \in {cmd[p].version, "corrupt"}
  BY <1>1, Installing DEF Fetched
<1>3. CASE \E next \in {"openversion", "chmod"} : GoTo(p, next) /\ UNCHANGED <<tmp, outcome>>
  <2>1. PICK next \in {"openversion", "chmod"} : GoTo(p, next) /\ UNCHANGED <<tmp, outcome>>
    BY <1>3
  <2>2. next \in PCs /\ next \in Writing
    BY DEF PCs, Writing
  <2>3. pc'[p] = next
    BY <2>1, <2>2, GoesOn
  <2>4. alone[p] => Holds(tmp[p])
    <3>1. CASE Chmod(p)
      BY <1>2, <3>1 DEF Chmod, AloneOk
    <3>2. CASE CopyDone(p)
      <4>1. ASSUME alone[p]
            PROVE  /\ linked[p] /\ lib # None
                   /\ \A i \in 1..Chunks : i <= Chunks => lib[i] = tmp[p]
        BY <1>2, <3>2, <4>1 DEF CopyDone, AloneOk, ProcOk
      <4>2. ASSUME alone[p] PROVE lib \in [1..Chunks -> Pieces]
        BY <4>1, <4>2 DEF IInv, TypeOK
      <4>3. \A i \in 1..Chunks : i <= Chunks
        OBVIOUS
      <4> QED BY <4>1, <4>2, <4>3 DEF Holds
    <3> QED BY <3>1, <3>2
  <2>5. ProcOk(p)'
    BY <1>1, <1>2, <2>1, <2>3 DEF ProcOk, Installs, Fetched, NoTmp
  <2>6. alone[p] /\ next = "openversion" => dir
    BY <1>1, <1>2 DEF AloneOk
  <2>7. AloneOk(p)'
    BY <1>1, <1>2, <2>1, <2>3, <2>4, <2>6 DEF AloneOk, Holds, files
  <2>8. tmp' \in [Procs -> TmpFiles]
    BY <2>1 DEF IInv, TypeOK
  <2>9. Same
    BY <1>1 DEF Same
  <2> QED BY <1>1, <1>2, <2>1, <2>2, <2>5, <2>7, <2>8, <2>9, GoesOnQuietly
<1>4. CASE lib = None /\ Exit(p, "error") /\ RemoveTmp(p) /\ pc[p] = "chmod"
  <2>1. ~trusted
    <3>1. alone[p] => lib = [i \in 1..Chunks |-> tmp[p]]
      BY <1>2, <1>4 DEF AloneOk, Holds
    <3>2. [i \in 1..Chunks |-> tmp[p]] \in [1..Chunks -> Versions \cup {"corrupt", "hole"}]
      BY <1>1, Installing DEF Fetched
    <3> QED BY <1>2, <1>4, <3>1, <3>2, NoFile
  <2>2. "error" \in Outcomes /\ trusted' \in BOOLEAN
    BY <1>1 DEF Outcomes, IInv, TypeOK
  <2> QED BY <1>1, <1>2, <1>4, <2>1, <2>2, EndsQuietly
<1> QED BY <1>3, <1>4 DEF Chmod, CopyDone

(* A piece that reached the library had no checksum to fail, or the        *)
(* install was run without verifying it.                                   *)
LEMMA CorruptTold ==
  ASSUME IInv, NEW p \in Procs, pc[p] \in Fetched, tmp[p] = "corrupt"
  PROVE  cmd[p] # None /\ ~cmd[p].verify
<1>1. cmd[p] \in Commands /\ cmd[p].version \in Versions /\ ProcOk(p)
  BY Installing
<1>2. cmd[p] # None
  BY <1>1, NoCommand
<1> QED BY <1>1, <1>2, Bounds DEF ProcOk

LEMMA MkdirStep ==
  ASSUME IInv, NEW p \in Procs, MkdirAll(p)
  PROVE  IInv'
<1>1. pc[p] = "mkdir" /\ dir' = TRUE /\ GoTo(p, "create")
      /\ UNCHANGED <<lib, version, at, linked, tmp, outcome, cmd, alone, trusted>>
  BY DEF MkdirAll, Same, writer
<1>2. Active(p) /\ Writer(p) /\ cmd[p] \in Commands /\ cmd[p].kind = "install" /\ ProcOk(p)
  BY <1>1, Installing DEF Fetched
<1>3. pc' \in [Procs -> PCs] /\ pc'[p] = "create" /\ \A q \in Procs \ {p} : pc'[q] = pc[q]
  <2>1. "create" \in PCs
    BY DEF PCs
  <2> QED BY <1>1, <2>1, GoesOn
<1>4. TypeOK'
  BY <1>1, <1>3 DEF IInv, TypeOK
<1>5. VerifiedOnly'
  BY <1>1 DEF IInv, VerifiedOnly
<1>6. Frame(p)
  BY <1>1, <1>2, <1>3 DEF Frame, IInv, ProcOk
<1>7. Settled'
  <2>1. SUFFICES ASSUME trusted, \A q \in Procs : Writer(q)' => pc'[q] \notin Writing
                 PROVE  Consistent
    BY <1>1 DEF Settled, Consistent, Holds
  <2>2. ASSUME NEW q \in Procs, Writer(q), pc[q] \in Writing PROVE FALSE
    <3>1. q # p
      BY <1>1, <2>2 DEF Writing
    <3> QED BY <1>1, <1>3, <2>1, <2>2, <3>1 DEF Writer, Active
  <2> QED BY <2>1, <2>2 DEF IInv, Settled
<1>8. ProcOk(p)'
  BY <1>1, <1>2, <1>3 DEF ProcOk, Installs, Fetched, NoTmp
<1>9. AloneOk(p)'
  BY <1>1, <1>3 DEF AloneOk
<1> QED BY <1>2, <1>4, <1>5, <1>6, <1>7, <1>8, <1>9, StepOk

LEMMA CreateLibStep ==
  ASSUME IInv, NEW p \in Procs, CreateLib(p)
  PROVE  IInv'
<1> DEFINE empty == [i \in 1..Chunks |-> "hole"]
<1>1. pc[p] = "create" /\ dir /\ lib' = empty /\ GoTo(p, "copy")
      /\ at' = [at EXCEPT ![p] = 0] /\ linked' = [linked EXCEPT ![p] = TRUE]
      /\ UNCHANGED <<dir, version, tmp, outcome, cmd, alone, trusted>>
  BY DEF CreateLib, Same
<1>2. Active(p) /\ Writer(p) /\ cmd[p] \in Commands /\ cmd[p].kind = "install" /\ ProcOk(p)
  BY <1>1, Installing DEF Fetched
<1>3. pc' \in [Procs -> PCs] /\ pc'[p] = "copy" /\ \A q \in Procs \ {p} : pc'[q] = pc[q]
  <2>1. "copy" \in PCs
    BY DEF PCs
  <2> QED BY <1>1, <2>1, GoesOn
<1>4. empty \in [1..Chunks -> Pieces] /\ empty # None
  <2>1. empty \in [1..Chunks -> Versions \cup {"corrupt", "hole"}]
    OBVIOUS
  <2> QED BY <2>1, NoFile DEF Pieces
<1>5. TypeOK'
  <2>1. at' \in [Procs -> 0..Chunks] /\ linked' \in [Procs -> BOOLEAN]
    <3>1. at \in [Procs -> 0..Chunks] /\ linked \in [Procs -> BOOLEAN]
      BY DEF IInv, TypeOK
    <3>2. 0 \in 0..Chunks
      BY Bounds
    <3> QED BY <1>1, <3>1, <3>2
  <2> HIDE DEF empty
  <2> QED BY <1>1, <1>3, <1>4, <2>1 DEF IInv, TypeOK
<1>6. VerifiedOnly'
  BY <1>1 DEF VerifiedOnly
<1>7. Frame(p)
  <2>1. \A q \in Procs \ {p} : at'[q] = at[q] /\ linked'[q] = linked[q]
    BY <1>1 DEF IInv, TypeOK
  <2> HIDE DEF empty
  <2> QED BY <1>1, <1>2, <1>3, <1>4, <2>1 DEF Frame
<1>8. Settled'
  BY <1>1, <1>2, <1>3, StillWriting DEF Writing
<1>9. at'[p] = 0 /\ linked'[p]
  BY <1>1 DEF IInv, TypeOK
<1>10. ProcOk(p)'
  <2> HIDE DEF empty
  <2> QED BY <1>1, <1>2, <1>3, <1>4 DEF ProcOk, Installs, Fetched, NoTmp
<1>11. AloneOk(p)'
  BY <1>1, <1>3, <1>9 DEF AloneOk
<1> QED BY <1>2, <1>5, <1>6, <1>7, <1>8, <1>10, <1>11, StepOk

LEMMA CopyPieceStep ==
  ASSUME IInv, NEW p \in Procs, CopyPiece(p)
  PROVE  IInv'
<1>1. pc[p] = "copy" /\ at[p] < Chunks /\ at' = [at EXCEPT ![p] = at[p] + 1]
      /\ lib' = (IF linked[p] THEN [lib EXCEPT ![at[p] + 1] = tmp[p]] ELSE lib)
      /\ UNCHANGED <<dir, version, pc, tmp, linked, outcome, cmd, alone, trusted>>
  BY DEF CopyPiece, Same
<1>2. /\ Active(p) /\ Writer(p) /\ cmd[p] \in Commands /\ cmd[p].kind = "install"
      /\ ProcOk(p) /\ AloneOk(p) /\ tmp[p] \in Artifacts
  BY <1>1, Installing DEF Fetched
<1>3. at[p] + 1 \in 1..Chunks /\ at[p] \in 0..Chunks
      /\ (linked[p] => lib \in [1..Chunks -> Pieces])
  <2>1. at[p] \in 0..Chunks /\ lib \in {None} \cup [1..Chunks -> Pieces]
    BY DEF IInv, TypeOK
  <2>2. linked[p] => lib # None
    BY <1>1, <1>2 DEF ProcOk
  <2> QED BY <1>1, <2>1, <2>2, Bounds
<1>4. linked[p] => /\ lib' \in [1..Chunks -> Pieces]
                   /\ lib'[at[p] + 1] = tmp[p]
                   /\ \A i \in 1..Chunks : i # at[p] + 1 => lib'[i] = lib[i]
  BY <1>1, <1>2, <1>3 DEF Pieces
<1>5. linked[p] => lib' # None
  <2>1. Pieces = Versions \cup {"corrupt", "hole"}
    BY DEF Pieces, Artifacts
  <2> QED BY <1>4, <2>1, NoFile
<1>6. TypeOK'
  <2>1. at' \in [Procs -> 0..Chunks]
    <3>1. at \in [Procs -> 0..Chunks]
      BY DEF IInv, TypeOK
    <3>2. at[p] + 1 \in 0..Chunks
      BY <1>3, Bounds
    <3> QED BY <1>1, <3>1, <3>2
  <2>2. lib' \in {None} \cup [1..Chunks -> Pieces]
    BY <1>1, <1>4 DEF IInv, TypeOK
  <2> QED BY <1>1, <2>1, <2>2 DEF IInv, TypeOK
<1>7. VerifiedOnly'
  <2>1. CASE ~linked[p]
    BY <1>1, <2>1 DEF IInv, VerifiedOnly
  <2>2. CASE linked[p]
    <3>1. SUFFICES ASSUME NEW i \in 1..Chunks, lib'[i] = "corrupt"
                   PROVE  \E q \in Procs : cmd[q] # None /\ ~cmd[q].verify
      BY <1>1 DEF VerifiedOnly
    <3>2. CASE i = at[p] + 1
      BY <1>1, <1>4, <2>2, <3>1, <3>2, CorruptTold DEF Fetched
    <3>3. CASE i # at[p] + 1
      BY <1>1, <1>2, <1>4, <2>2, <3>1, <3>3 DEF IInv, VerifiedOnly, ProcOk
    <3> QED BY <3>2, <3>3
  <2> QED BY <2>1, <2>2
<1>8. Frame(p)
  <2>1. \A q \in Procs \ {p} : at'[q] = at[q] /\ pc'[q] = pc[q] /\ tmp'[q] = tmp[q]
                               /\ linked'[q] = linked[q]
    BY <1>1 DEF IInv, TypeOK
  <2>2. \A q \in Procs \ {p} : pc[q] = "copy" /\ linked[q] => lib' # None
    BY <1>1, <1>5 DEF IInv, ProcOk
  <2> QED BY <1>1, <1>2, <2>1, <2>2 DEF Frame
<1>9. Settled'
  BY <1>1, <1>2, StillWriting DEF Writing
<1>10. ProcOk(p)'
  <2>1. pc'[p] = "copy" /\ linked'[p] => lib' # None
    BY <1>1, <1>5
  <2> QED BY <1>1, <1>2, <2>1 DEF ProcOk
<1>11. AloneOk(p)'
  <2>1. ASSUME alone[p]
        PROVE  linked[p] /\ \A i \in 1..Chunks : i <= at[p] => lib[i] = tmp[p]
    BY <1>1, <1>2, <2>1 DEF AloneOk
  <2>2. ASSUME alone[p], NEW i \in 1..Chunks, i <= at[p] + 1 PROVE lib'[i] = tmp[p]
    BY <1>3, <1>4, <2>1, <2>2
  <2>3. at'[p] = at[p] + 1
    BY <1>1 DEF IInv, TypeOK
  <2>4. alone[p] => dir
    BY <1>1, <1>2 DEF AloneOk
  <2> QED BY <1>1, <2>1, <2>2, <2>3, <2>4 DEF AloneOk
<1> QED BY <1>2, <1>6, <1>7, <1>8, <1>9, <1>10, <1>11, StepOk

LEMMA OpenVersionStep ==
  ASSUME IInv, NEW p \in Procs, OpenVersion(p)
  PROVE  IInv'
<1>1. pc[p] = "openversion" /\ dir /\ version' = "" /\ GoTo(p, "writeversion")
      /\ linked' = [linked EXCEPT ![p] = TRUE]
      /\ UNCHANGED <<dir, lib, at, tmp, outcome, cmd, alone, trusted>>
  BY DEF OpenVersion, Same
<1>2. /\ Active(p) /\ Writer(p) /\ cmd[p] \in Commands /\ cmd[p].kind = "install"
      /\ ProcOk(p) /\ AloneOk(p)
  BY <1>1, Installing DEF Fetched
<1>3. pc' \in [Procs -> PCs] /\ pc'[p] = "writeversion" /\ \A q \in Procs \ {p} : pc'[q] = pc[q]
  <2>1. "writeversion" \in PCs
    BY DEF PCs
  <2> QED BY <1>1, <2>1, GoesOn
<1>4. linked' \in [Procs -> BOOLEAN] /\ linked'[p] /\ \A q \in Procs \ {p} : linked'[q] = linked[q]
  BY <1>1 DEF IInv, TypeOK
<1>5. TypeOK'
  BY <1>1, <1>3, <1>4 DEF IInv, TypeOK
<1>6. VerifiedOnly'
  BY <1>1 DEF IInv, VerifiedOnly
<1>7. Frame(p)
  BY <1>1, <1>2, <1>3, <1>4 DEF Frame, IInv, ProcOk
<1>8. Settled'
  BY <1>1, <1>2, <1>3, StillWriting DEF Writing
<1>9. ProcOk(p)'
  BY <1>1, <1>2, <1>3 DEF ProcOk, Installs, Fetched, NoTmp
<1>10. AloneOk(p)'
  BY <1>1, <1>2, <1>3, <1>4 DEF AloneOk, Holds
<1> QED BY <1>2, <1>5, <1>6, <1>7, <1>8, <1>9, <1>10, StepOk

LEMMA WriteVersionStep ==
  ASSUME IInv, NEW p \in Procs, WriteVersion(p)
  PROVE  /\ IInv'
         /\ alone[p] /\ cmd[p].verify =>
              Holds(cmd[p].version)' /\ version' = cmd[p].version /\ dir'
<1>1. pc[p] = "writeversion" /\ Exit(p, "installed") /\ RemoveTmp(p)
      /\ version' = (IF linked[p] THEN cmd[p].version ELSE version)
      /\ trusted' = (trusted \/ (alone[p] /\ cmd[p].verify))
      /\ UNCHANGED <<dir, lib, at, linked, cmd, alone>>
  BY DEF WriteVersion, Completes, writer
<1>2. /\ Active(p) /\ Writer(p) /\ cmd[p] \in Commands /\ cmd[p].kind = "install"
      /\ ProcOk(p) /\ AloneOk(p) /\ cmd[p].version \in Versions
      /\ (trusted => alone[p]) /\ tmp[p] \in {cmd[p].version, "corrupt"}
  BY <1>1, Installing DEF Fetched
<1>3. /\ pc' \in [Procs -> PCs] /\ pc'[p] = "exited"
      /\ \A q \in Procs \ {p} : pc'[q] = pc[q]
      /\ outcome' \in [Procs -> Outcomes]
  <2>1. "installed" \in Outcomes
    BY DEF Outcomes
  <2> QED BY <1>1, <2>1, Exits
<1>4. /\ tmp' \in [Procs -> TmpFiles] /\ tmp'[p] \in {None, "stuck"}
      /\ \A q \in Procs \ {p} : tmp'[q] = tmp[q]
  BY <1>1, TmpRemoved
<1>5. alone[p] => /\ linked[p] /\ version' = cmd[p].version /\ dir'
                  /\ lib' = [i \in 1..Chunks |-> tmp[p]]
  BY <1>1, <1>2 DEF AloneOk, Holds
<1>6. TypeOK'
  <2>1. trusted' \in BOOLEAN
    BY <1>1, <1>2, CommandTypes DEF IInv, TypeOK
  <2>2. version' \in {None, ""} \cup Versions
    BY <1>1, <1>2 DEF IInv, TypeOK
  <2> QED BY <1>1, <1>3, <1>4, <2>1, <2>2 DEF IInv, TypeOK, Outcomes
<1>7. VerifiedOnly'
  BY <1>1 DEF IInv, VerifiedOnly
<1>8. Frame(p)
  BY <1>1, <1>2, <1>3, <1>4 DEF Frame, IInv, ProcOk
<1>9. Settled'
  <2>1. trusted' => alone[p]
    BY <1>1, <1>2
  <2>2. alone[p] => \A v \in Versions : version' = v => Holds(v)' \/ Holds("corrupt")'
    BY <1>2, <1>5 DEF Holds
  <2> QED BY <2>1, <2>2 DEF Settled, Consistent
<1>10. ProcOk(p)' /\ AloneOk(p)'
  BY <1>1, <1>2, <1>3, <1>4 DEF ProcOk, AloneOk, Installs, Fetched, NoTmp
<1>11. IInv'
  BY <1>2, <1>6, <1>7, <1>8, <1>9, <1>10, StepOk
<1>12. cmd[p].verify => tmp[p] = cmd[p].version
  BY <1>1, <1>2 DEF ProcOk, Fetched
<1>13. alone[p] /\ cmd[p].verify => Holds(cmd[p].version)'
  BY <1>1, <1>5, <1>12 DEF Holds
<1> QED BY <1>5, <1>11, <1>13
-----------------------------------------------------------------------------
(* The steps of an uninstall that removes.                                 *)
LEMMA Removing ==
  ASSUME IInv, NEW p \in Procs, pc[p] = "remove"
  PROVE  /\ Active(p) /\ Writer(p) /\ cmd[p] \in Commands /\ cmd[p].kind = "uninstall"
         /\ trusted => alone[p]
         /\ tmp[p] = None /\ ProcOk(p)
<1>1. ProcOk(p) /\ Active(p) /\ cmd[p] \in Commands /\ cmd[p].kind = "uninstall" /\ tmp[p] = None
  BY DEF IInv, ProcOk, NoTmp, Active, Over
<1>2. Writer(p)
  BY <1>1 DEF Writer
<1> QED BY <1>1, <1>2 DEF IInv, TrustedAlone

LEMMA UnlinkStep ==
  ASSUME IInv, NEW p \in Procs, RemoveLib(p) \/ RemoveVersion(p)
  PROVE  IInv'
<1>1. /\ pc[p] = "remove"
      /\ UNCHANGED <<dir, pc, tmp, at, outcome, cmd, alone, trusted>>
  BY DEF RemoveLib, RemoveVersion, Same
<1>2. Active(p) /\ Writer(p) /\ cmd[p] \in Commands /\ cmd[p].kind = "uninstall" /\ ProcOk(p)
  BY <1>1, Removing
<1>3. \/ /\ lib' = None /\ version' = version
         /\ linked' = [q \in Procs |-> linked[q] /\ pc[q] # "copy"]
      \/ /\ version' = None /\ lib' = lib
         /\ linked' = [q \in Procs |-> linked[q] /\ pc[q] # "writeversion"]
  BY DEF RemoveLib, RemoveVersion, Unlink
<1>4. linked' \in [Procs -> BOOLEAN] /\ \A q \in Procs : linked'[q] => linked[q]
  BY <1>3 DEF IInv, TypeOK
<1>5. \A q \in Procs : pc[q] = "copy" /\ linked'[q] => lib' # None
  BY <1>3 DEF IInv, ProcOk
<1>6. TypeOK'
  BY <1>1, <1>3, <1>4 DEF IInv, TypeOK
<1>7. VerifiedOnly'
  BY <1>1, <1>3 DEF IInv, VerifiedOnly
<1>8. Frame(p)
  BY <1>1, <1>2, <1>4, <1>5 DEF Frame
<1>9. Settled'
  BY <1>1, <1>2, StillWriting DEF Writing
<1>10. ProcOk(p)' /\ AloneOk(p)'
  BY <1>1, <1>2, <1>5 DEF ProcOk, AloneOk, Installs, Fetched, NoTmp
<1> QED BY <1>2, <1>6, <1>7, <1>8, <1>9, <1>10, StepOk

LEMMA RemoveDirStep ==
  ASSUME IInv, NEW p \in Procs, RemoveDir(p)
  PROVE  IInv'
<1>1. /\ pc[p] = "remove" /\ version = None /\ Exit(p, "removed") /\ dir' = FALSE
      /\ UNCHANGED <<lib, version, at, linked, tmp, cmd, alone>>
      /\ trusted' = (trusted \/ (alone[p] /\ cmd[p].verify))
  BY DEF RemoveDir, Completes, writer
<1>2. /\ Active(p) /\ Writer(p) /\ cmd[p] \in Commands /\ cmd[p].kind = "uninstall"
      /\ ProcOk(p) /\ (trusted => alone[p]) /\ tmp[p] = None
  BY <1>1, Removing
<1>3. /\ pc' \in [Procs -> PCs] /\ pc'[p] = "exited"
      /\ \A q \in Procs \ {p} : pc'[q] = pc[q]
      /\ outcome' \in [Procs -> Outcomes]
  <2>1. "removed" \in Outcomes
    BY DEF Outcomes
  <2> QED BY <1>1, <2>1, Exits
<1>4. TypeOK'
  <2>1. trusted' \in BOOLEAN
    BY <1>1, <1>2, CommandTypes DEF IInv, TypeOK
  <2> QED BY <1>1, <1>3, <2>1 DEF IInv, TypeOK, Outcomes
<1>5. VerifiedOnly'
  BY <1>1 DEF IInv, VerifiedOnly
<1>6. Frame(p)
  BY <1>1, <1>2, <1>3 DEF Frame, IInv, ProcOk
<1>7. Settled'
  BY <1>1, Bounds DEF Settled, Consistent
<1>8. ProcOk(p)' /\ AloneOk(p)'
  BY <1>1, <1>2, <1>3 DEF ProcOk, AloneOk, Installs, Fetched, NoTmp
<1> QED BY <1>2, <1>4, <1>5, <1>6, <1>7, <1>8, StepOk
-----------------------------------------------------------------------------
LEMMA StartStep ==
  ASSUME IInv, NEW p \in Procs, NEW c \in Commands, Start(p, c)
  PROVE  IInv'
<1>1. c.kind \in {"install", "uninstall", "version"}
  BY CommandTypes
<1>2. /\ pc[p] = "idle" /\ cmd' = [cmd EXCEPT ![p] = c]
      /\ UNCHANGED <<dir, lib, version, at, linked, tmp, outcome>>
      /\ alone' = [q \in Procs |-> IF q = p THEN \A o \in Procs : ~Writer(o)
                                   ELSE alone[q] /\ c.kind = "version"]
      /\ trusted' = (trusted /\ (c.kind = "version" \/ \A o \in Procs : ~Writer(o)))
  BY DEF Start, files, writer
<1>3. PICK next \in {"check", "download", "stat", "read"} :
        /\ GoTo(p, next)
        /\ next \in {"check", "download"} => c.kind = "install"
        /\ next = "stat" => c.kind = "uninstall"
        /\ next = "read" => c.kind = "version"
  <2>1. CASE c.kind = "install"
    BY <2>1 DEF Start
  <2>2. CASE c.kind = "uninstall"
    BY <2>2 DEF Start
  <2>3. CASE c.kind = "version"
    BY <2>3 DEF Start
  <2> QED BY <1>1, <2>1, <2>2, <2>3
<1>4. pc' \in [Procs -> PCs] /\ pc'[p] = next /\ \A q \in Procs \ {p} : pc'[q] = pc[q]
  <2>1. next \in PCs
    BY DEF PCs
  <2> QED BY <1>3, <2>1, GoesOn
<1>5. /\ cmd' \in [Procs -> {None} \cup Commands] /\ cmd'[p] = c
      /\ \A q \in Procs \ {p} : cmd'[q] = cmd[q]
  BY <1>2 DEF IInv, TypeOK
<1>6. ~Writer(p) /\ \A q \in Procs \ {p} : Writer(q)' <=> Writer(q)
  BY <1>2, <1>4, <1>5 DEF Writer, Active, Over
<1>7. /\ Writer(p)' => c.kind # "version"
      /\ alone'[p] = (\A o \in Procs : ~Writer(o))
      /\ \A q \in Procs \ {p} : alone'[q] = (alone[q] /\ c.kind = "version")
  BY <1>2, <1>5 DEF Writer
<1>8. TypeOK'
  <2>1. alone' \in [Procs -> BOOLEAN] /\ trusted' \in BOOLEAN
    BY <1>2 DEF IInv, TypeOK
  <2> QED BY <1>2, <1>4, <1>5, <2>1 DEF IInv, TypeOK
<1>9. VerifiedOnly'
  <2>1. SUFFICES ASSUME lib # None, \E i \in 1..Chunks : lib[i] = "corrupt"
                 PROVE  \E q \in Procs : cmd'[q] # None /\ ~cmd'[q].verify
    BY <1>2 DEF VerifiedOnly
  <2>2. PICK q \in Procs : cmd[q] # None /\ ~cmd[q].verify
    BY <2>1 DEF IInv, VerifiedOnly
  <2>3. q # p
    BY <1>2, <2>2 DEF IInv, ProcOk
  <2> QED BY <1>5, <2>2, <2>3
<1>10. Exclusive'
  <2>1. SUFFICES ASSUME NEW a \in Procs, NEW b \in Procs, alone'[a], Writer(a)', Writer(b)'
                 PROVE  b = a
    BY DEF Exclusive
  <2>2. CASE a = p
    BY <1>6, <1>7, <2>1, <2>2
  <2>3. CASE a # p
    BY <1>6, <1>7, <2>1, <2>3 DEF IInv, Exclusive
  <2> QED BY <2>2, <2>3
<1>11. TrustedAlone'
  <2>1. SUFFICES ASSUME NEW a \in Procs, trusted', Writer(a)' PROVE alone'[a]
    BY DEF TrustedAlone
  <2>2. CASE a = p
    BY <1>2, <1>7, <2>1, <2>2
  <2>3. CASE a # p
    BY <1>2, <1>6, <1>7, <2>1, <2>3 DEF IInv, TrustedAlone
  <2> QED BY <2>2, <2>3
<1>12. Settled'
  <2>1. SUFFICES ASSUME trusted', \A q \in Procs : Writer(q)' => pc'[q] \notin Writing
                 PROVE  Consistent
    BY <1>2 DEF Settled, Consistent, Holds
  <2>2. trusted /\ \A q \in Procs : Writer(q) => pc[q] \notin Writing
    BY <1>2, <1>4, <1>6, <2>1
  <2> QED BY <2>2 DEF IInv, Settled
<1>13. ASSUME NEW q \in Procs PROVE ProcOk(q)' /\ AloneOk(q)'
  <2>1. CASE q = p
    BY <1>2, <1>3, <1>4, <1>5, <2>1 DEF IInv, ProcOk, AloneOk, Installs, Fetched, NoTmp
  <2>2. CASE q # p
    <3>1. pc'[q] = pc[q] /\ cmd'[q] = cmd[q] /\ (alone'[q] => alone[q])
      BY <1>4, <1>5, <1>7, <2>2
    <3>2. ProcOk(q) /\ AloneOk(q)
      BY DEF IInv
    <3>3. ProcOk(q)'
      BY <1>2, <3>1, <3>2 DEF ProcOk
    <3>4. AloneOk(q)'
      BY <1>2, <3>1, <3>2 DEF AloneOk, Holds
    <3> QED BY <3>3, <3>4
  <2> QED BY <2>1, <2>2
<1> QED BY <1>8, <1>9, <1>10, <1>11, <1>12, <1>13 DEF IInv

LEMMA Initially == Init => IInv
<1> SUFFICES ASSUME Init PROVE IInv
  OBVIOUS
<1>1. TypeOK
  <2>1. 0 \in 0..Chunks /\ "idle" \in PCs
    BY Bounds DEF PCs
  <2> QED BY <2>1 DEF Init, TypeOK, TmpFiles
<1>2. VerifiedOnly
  BY DEF Init, VerifiedOnly
<1>3. Exclusive /\ TrustedAlone
  BY DEF Init, Exclusive, TrustedAlone, Writer, Active, Over
<1>4. Settled
  BY Bounds DEF Init, Settled, Consistent
<1>5. \A p \in Procs : ProcOk(p) /\ AloneOk(p)
  BY DEF Init, ProcOk, AloneOk, Installs, Fetched, NoTmp
<1> QED BY <1>1, <1>2, <1>3, <1>4, <1>5 DEF IInv

LEMMA Inductive == IInv /\ [Next]_vars => IInv'
<1> SUFFICES ASSUME IInv, [Next]_vars PROVE IInv'
  OBVIOUS
<1>1. ASSUME NEW p \in Procs, NEW c \in Commands, Start(p, c) PROVE IInv'
  BY <1>1, StartStep
<1>2. ASSUME NEW p \in Procs, Step(p) PROVE IInv'
  BY <1>2, FetchSteps, ReadSteps, MkdirStep, CreateLibStep, DirGoneStep,
     CopyPieceStep, ChmodStep, OpenVersionStep, WriteVersionStep, UnlinkStep,
     RemoveDirStep DEF Step
<1>3. ASSUME NEW p \in Procs, Fails(p) \/ Killed(p) PROVE IInv'
  BY <1>3, FailsStep, KilledStep
<1>4. CASE UNCHANGED vars
  <2>1. TypeOK' /\ VerifiedOnly'
    BY <1>4 DEF vars, IInv, TypeOK, VerifiedOnly
  <2>2. Exclusive' /\ TrustedAlone'
    BY <1>4 DEF vars, IInv, Exclusive, TrustedAlone, Writer, Active
  <2>3. Settled'
    BY <1>4 DEF vars, IInv, Settled, Consistent, Writer, Active, Holds
  <2>4. ASSUME NEW p \in Procs PROVE ProcOk(p)' /\ AloneOk(p)'
    BY <1>4 DEF vars, IInv, ProcOk, AloneOk, Holds
  <2> QED BY <2>1, <2>2, <2>3, <2>4 DEF IInv
<1> QED BY <1>1, <1>2, <1>3, <1>4 DEF Next

LEMMA Invariance == Spec => []IInv
BY Initially, Inductive, PTL DEF Spec
-----------------------------------------------------------------------------
(* Every process and every file stays within its type (main.go).           *)
THEOREM TypeCorrect == Spec => []TypeOK
<1>1. IInv => TypeOK
  BY DEF IInv
<1> QED BY <1>1, Invariance, PTL

(* Whatever fails and whatever runs beside it, a command that came to its  *)
(* end has left no temporary file (downloadToTemp, the deferred os.Remove).*)
THEOREM NoTempLeftEver == Spec => []NoTempLeft
<1>1. IInv => NoTempLeft
  BY DEF IInv, NoTempLeft, ProcOk, NoTmp
<1> QED BY <1>1, Invariance, PTL

(* Only -no-verify lets an artifact that fails its checksum reach the      *)
(* library (verifySha256), for any number of installs at once.             *)
THEOREM OnlyVerified == Spec => []VerifiedOnly
<1>1. IInv => VerifiedOnly
  BY DEF IInv
<1> QED BY <1>1, Invariance, PTL

(* VERSION names the library wherever no write broke off or raced since    *)
(* the last command that ended alone (install, uninstall).                 *)
THEOREM VersionTellsTruth == Spec => []VersionIsInstalled
<1>1. IInv => VersionIsInstalled
  <2> SUFFICES ASSUME IInv, trusted, \A p \in Procs : ~Writer(p)
               PROVE  Consistent
    BY DEF VersionIsInstalled, Consistent
  <2> QED BY DEF IInv, Settled
<1> QED BY <1>1, Invariance, PTL

(* An install that ran alone and says so has installed, whatever it found  *)
(* (install: create, copy, chmod, VERSION).                                *)
THEOREM InstallDoesRepair == Spec => InstallRepairs
<1> DEFINE Tells(p) == outcome[p] # "installed" /\ outcome'[p] = "installed"
           Repairs == \A p \in Procs :
             Tells(p) /\ alone[p] /\ cmd[p].verify
             => Holds(cmd[p].version)' /\ version' = cmd[p].version /\ dir'
<1>1. IInv /\ [Next]_vars => [Repairs]_vars
  <2> SUFFICES ASSUME IInv, Next, NEW p \in Procs,
                      Tells(p), alone[p], cmd[p].verify
               PROVE  Holds(cmd[p].version)' /\ version' = cmd[p].version /\ dir'
    OBVIOUS
  <2>0. outcome \in [Procs -> Outcomes]
    BY DEF IInv, TypeOK, Outcomes
  <2>1. CASE WriteVersion(p)
    BY <2>1, WriteVersionStep
  <2>2. ASSUME NEW q \in Procs, NEW how, Exit(q, how), q # p \/ how # "installed"
        PROVE  FALSE
    BY <2>0, <2>2 DEF Exit
  <2>3. ASSUME UNCHANGED outcome PROVE FALSE
    BY <2>3
  <2>4. PICK q \in Procs : (\E c \in Commands : Start(q, c)) \/ Step(q) \/ Fails(q) \/ Killed(q)
    BY DEF Next
  <2>5. CASE (\E c \in Commands : Start(q, c)) \/ Killed(q)
    BY <2>3, <2>5 DEF Start, Killed
  <2>6. CASE Fails(q)
    BY <2>2, <2>6 DEF Fails
  <2>7. CASE CheckInstalled(q) \/ VerifySha256(q) \/ DirGone(q) \/ Chmod(q)
    BY <2>2, <2>3, <2>7 DEF CheckInstalled, VerifySha256, DirGone, Chmod
  <2>8. CASE StatDir(q) \/ RemoveDir(q)
    BY <2>2, <2>3, <2>8 DEF StatDir, RemoveDir
  <2>9. CASE InstalledVersion(q)
    <3>1. PICK how \in {"error", "printed"} : Exit(q, how)
      BY <2>9 DEF InstalledVersion
    <3> QED BY <2>2, <3>1
  <2>10. CASE \/ CreateTemp(q) \/ ReceiveArtifact(q) \/ MkdirAll(q) \/ CreateLib(q)
              \/ CopyPiece(q) \/ CopyDone(q) \/ OpenVersion(q)
              \/ RemoveLib(q) \/ RemoveVersion(q)
    BY <2>3, <2>10 DEF CreateTemp, ReceiveArtifact, MkdirAll, CreateLib, CopyPiece,
                       CopyDone, OpenVersion, RemoveLib, RemoveVersion
  <2>11. CASE WriteVersion(q)
    <3>1. q = p
      BY <2>2, <2>11 DEF WriteVersion
    <3> QED BY <2>1, <2>11, <3>1
  <2> QED BY <2>4, <2>5, <2>6, <2>7, <2>8, <2>9, <2>10, <2>11 DEF Step
<1>2. [][Repairs]_vars => InstallRepairs
  <2>1. [Repairs]_vars => [\A p \in Procs :
           /\ outcome[p] # "installed" /\ outcome'[p] = "installed"
           /\ alone[p] /\ cmd[p].verify
           => Holds(cmd[p].version)' /\ version' = cmd[p].version /\ dir']_vars
    OBVIOUS
  <2> QED BY <2>1, PTL DEF InstallRepairs
<1> QED
  <2> HIDE DEF Repairs
  <2> QED BY <1>1, <1>2, Invariance, PTL DEF Spec
=============================================================================
