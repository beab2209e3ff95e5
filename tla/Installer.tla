------------------------------ MODULE Installer ------------------------------
(***************************************************************************)
(* zeta-setup (cmd/zeta-setup/main.go): commands that install, remove and  *)
(* report libzeta.a under one prefix.  Every command is a process of its   *)
(* own; a step is one system call on the prefix, or a download.  Any       *)
(* system call may fail and any process may be killed between two of them; *)
(* nothing keeps two commands from running at the same time.               *)
(*                                                                         *)
(* The library file is Chunks pieces long; a piece names the artifact it   *)
(* came from: a version's, or a corrupt one that SHA256SUMS would reject.  *)
(***************************************************************************)
EXTENDS Naturals

CONSTANTS
  Procs,     \* the processes, each runs one command
  Versions,  \* releases
  Chunks,    \* bound: pieces of the library
  Faults,    \* system calls fail, processes are killed
  Overlap,   \* commands run at the same time
  NoVerify,  \* -no-verify is used
  None       \* no file, no command

ASSUME Bounds == /\ Chunks \in Nat \ {0}
                 /\ {Faults, Overlap, NoVerify} \subseteq BOOLEAN
                 /\ None \notin Versions /\ "corrupt" \notin Versions
ASSUME NoFile == None \notin [1..Chunks -> Versions \cup {"corrupt", "hole"}]

VARIABLES
  dir,      \* <prefix>/lib/zeta exists
  lib,      \* libzeta.a: None, or its pieces
  version,  \* VERSION: None, "" while it is being written, or a version
  pc,       \* where each process stands
  cmd,      \* its command
  tmp,      \* its temporary file: None, "partial", an artifact, or
            \* "stuck" if os.Remove was called and failed
  at,       \* the pieces it has copied
  linked,   \* whether the file it writes is still in the directory
  alone,    \* history: nothing else installed or removed since it started
  trusted,  \* history: no command broke off or raced while writing since
            \* the last one that came to its end alone
  outcome   \* what it told its user

vars == <<dir, lib, version, pc, cmd, tmp, at, linked, alone, trusted, outcome>>
-----------------------------------------------------------------------------
Artifacts == Versions \cup {"corrupt"}
Pieces == Artifacts \cup {"hole"}
TmpFiles == {None, "partial", "stuck"} \cup Artifacts
Commands ==
  [kind : {"install"}, version : Versions, force : BOOLEAN,
   verify : IF NoVerify THEN BOOLEAN ELSE {TRUE}]
  \cup [kind : {"uninstall", "version"}, version : {None},
        force : {FALSE}, verify : {TRUE}]
ASSUME NoCommand == None \notin Commands

PCs == {"idle", "check", "download", "receive", "verify", "mkdir", "create",
        "copy", "chmod", "openversion", "writeversion", "stat", "remove",
        "read", "exited", "killed"}
Over == {"idle", "exited", "killed"}
Active(p) == pc[p] \notin Over
Writer(p) == Active(p) /\ cmd[p].kind # "version"

TypeOK ==
  /\ dir \in BOOLEAN
  /\ lib \in {None} \cup [1..Chunks -> Pieces]
  /\ version \in {None, ""} \cup Versions
  /\ pc \in [Procs -> PCs]
  /\ cmd \in [Procs -> {None} \cup Commands]
  /\ tmp \in [Procs -> TmpFiles]
  /\ at \in [Procs -> 0..Chunks]
  /\ linked \in [Procs -> BOOLEAN]
  /\ alone \in [Procs -> BOOLEAN]
  /\ trusted \in BOOLEAN
  /\ outcome \in [Procs -> {"none", "installed", "already", "removed",
                            "nothing", "printed", "error"}]

Init ==
  /\ dir = FALSE /\ lib = None /\ version = None
  /\ pc = [p \in Procs |-> "idle"]
  /\ cmd = [p \in Procs |-> None]
  /\ tmp = [p \in Procs |-> None]
  /\ at = [p \in Procs |-> 0]
  /\ linked = [p \in Procs |-> FALSE]
  /\ alone = [p \in Procs |-> FALSE]
  /\ trusted = TRUE
  /\ outcome = [p \in Procs |-> "none"]
-----------------------------------------------------------------------------
files == <<dir, lib, version>>
writer == <<at, linked>>

GoTo(p, next) == pc' = [pc EXCEPT ![p] = next]
Exit(p, how) == GoTo(p, "exited") /\ outcome' = [outcome EXCEPT ![p] = how]
Same == UNCHANGED <<cmd, alone, trusted>>

(* os.Remove(tmp), deferred or on an error path; nobody looks at its error.*)
RemoveTmp(p) ==
  \/ tmp' = [tmp EXCEPT ![p] = None]
  \/ Faults /\ tmp[p] # None /\ tmp' = [tmp EXCEPT ![p] = "stuck"]

(* What breaks off in one of these stages leaves the prefix half written.  *)
Writing == {"copy", "chmod", "openversion", "writeversion", "remove"}
BreaksOff(p) ==
  /\ trusted' = (trusted /\ pc[p] \notin Writing)
  /\ UNCHANGED <<cmd, alone>>
Completes(p) ==
  /\ trusted' = (trusted \/ (alone[p] /\ cmd[p].verify))
  /\ UNCHANGED <<cmd, alone>>

Start(p, c) ==
  /\ pc[p] = "idle"
  /\ Overlap \/ \A q \in Procs : ~Active(q)
  /\ cmd' = [cmd EXCEPT ![p] = c]
  /\ GoTo(p, CASE c.kind = "install" -> IF c.force THEN "download" ELSE "check"
               [] c.kind = "uninstall" -> "stat"
               [] c.kind = "version" -> "read")
  /\ alone' = [q \in Procs |-> IF q = p THEN \A o \in Procs : ~Writer(o)
                               ELSE alone[q] /\ c.kind = "version"]
  /\ trusted' = (trusted /\ (c.kind = "version" \/ \A o \in Procs : ~Writer(o)))
  /\ UNCHANGED <<files, writer, tmp, outcome>>

(* The file the process had open for writing is closed.                    *)
CloseFile(p) ==
  /\ at' = [at EXCEPT ![p] = 0]
  /\ linked' = [linked EXCEPT ![p] = FALSE]

(* Any command may be killed at any point; its temporary file stays.       *)
Killed(p) ==
  /\ Faults /\ Active(p)
  /\ GoTo(p, "killed")
  /\ BreaksOff(p) /\ CloseFile(p) /\ UNCHANGED <<files, tmp, outcome>>

(* A failed call of a command: report it and exit.  In "check" it is the   *)
(* platform that is not supported; the calls whose errors do not end the   *)
(* command are in CheckInstalled, StatDir and RemoveTmp.                   *)
Fails(p) ==
  /\ Faults /\ pc[p] \in {"check", "download", "receive", "verify", "mkdir",
                          "create", "copy", "chmod", "openversion",
                          "writeversion", "remove", "read"}
  /\ Exit(p, "error") /\ RemoveTmp(p)
  /\ BreaksOff(p) /\ CloseFile(p) /\ UNCHANGED files
-----------------------------------------------------------------------------
(* A VERSION that cannot be read counts as none.                           *)
CheckInstalled(p) ==
  /\ pc[p] = "check"
  /\ \/ version = cmd[p].version /\ Exit(p, "already")
     \/ /\ Faults \/ version # cmd[p].version
        /\ GoTo(p, "download") /\ UNCHANGED outcome
  /\ Same /\ UNCHANGED <<files, writer, tmp>>

CreateTemp(p) ==
  /\ pc[p] = "download"
  /\ tmp' = [tmp EXCEPT ![p] = "partial"]
  /\ GoTo(p, "receive")
  /\ Same /\ UNCHANGED <<files, writer, outcome>>

(* Mutant: a forced install is not verified.                               *)
ReceiveUnverified(p) ==
  /\ pc[p] = "receive"
  /\ \E a \in {cmd[p].version, "corrupt"} : tmp' = [tmp EXCEPT ![p] = a]
  /\ GoTo(p, IF cmd[p].verify /\ ~cmd[p].force THEN "verify" ELSE "mkdir")
  /\ Same /\ UNCHANGED <<files, writer, outcome>>

ReceiveArtifact(p) ==
  /\ pc[p] = "receive"
  /\ \E a \in {cmd[p].version, "corrupt"} : tmp' = [tmp EXCEPT ![p] = a]
  /\ GoTo(p, IF cmd[p].verify THEN "verify" ELSE "mkdir")
  /\ Same /\ UNCHANGED <<files, writer, outcome>>

(* Mutant: a mismatch exits before the deferred os.Remove is set up.       *)
VerifyKeepsTmp(p) ==
  /\ pc[p] = "verify"
  /\ \/ tmp[p] = cmd[p].version /\ GoTo(p, "mkdir") /\ UNCHANGED outcome
     \/ tmp[p] # cmd[p].version /\ Exit(p, "error")
  /\ Same /\ UNCHANGED <<files, writer, tmp>>

VerifySha256(p) ==
  /\ pc[p] = "verify"
  /\ \/ tmp[p] = cmd[p].version /\ GoTo(p, "mkdir") /\ UNCHANGED <<tmp, outcome>>
     \/ tmp[p] # cmd[p].version /\ Exit(p, "error") /\ RemoveTmp(p)
  /\ Same /\ UNCHANGED <<files, writer>>

MkdirAll(p) ==
  /\ pc[p] = "mkdir"
  /\ dir' = TRUE
  /\ GoTo(p, "create")
  /\ Same /\ UNCHANGED <<lib, version, writer, tmp, outcome>>

(* Mutant: a library that is already there is left as it is.               *)
CreateLibIfMissing(p) ==
  /\ pc[p] = "create" /\ dir
  /\ \/ lib = None /\ lib' = [i \in 1..Chunks |-> "hole"] /\ GoTo(p, "copy")
     \/ lib # None /\ GoTo(p, "chmod") /\ UNCHANGED lib
  /\ at' = [at EXCEPT ![p] = 0]
  /\ linked' = [linked EXCEPT ![p] = TRUE]
  /\ Same /\ UNCHANGED <<dir, version, tmp, outcome>>

(* os.Create truncates the file if there is one, and fails if the          *)
(* directory has been removed meanwhile.                                   *)
CreateLib(p) ==
  /\ pc[p] = "create" /\ dir
  /\ lib' = [i \in 1..Chunks |-> "hole"]
  /\ at' = [at EXCEPT ![p] = 0]
  /\ linked' = [linked EXCEPT ![p] = TRUE]
  /\ GoTo(p, "copy")
  /\ Same /\ UNCHANGED <<dir, version, tmp, outcome>>

DirGone(p) ==
  /\ pc[p] \in {"create", "openversion"} /\ ~dir
  /\ Exit(p, "error") /\ RemoveTmp(p)
  /\ Same /\ UNCHANGED <<files, writer>>

(* Mutant: the copy goes on past the end of the artifact.                  *)
CopyPastEnd(p) ==
  /\ pc[p] = "copy"
  /\ at' = [at EXCEPT ![p] = @ + 1]
  /\ lib' = IF linked[p] THEN [lib EXCEPT ![at[p] + 1] = tmp[p]] ELSE lib
  /\ Same /\ UNCHANGED <<dir, version, pc, tmp, linked, outcome>>

CopyPiece(p) ==
  /\ pc[p] = "copy" /\ at[p] < Chunks
  /\ at' = [at EXCEPT ![p] = @ + 1]
  /\ lib' = IF linked[p] THEN [lib EXCEPT ![at[p] + 1] = tmp[p]] ELSE lib
  /\ Same /\ UNCHANGED <<dir, version, pc, tmp, linked, outcome>>

CopyDone(p) ==
  /\ pc[p] = "copy" /\ at[p] = Chunks
  /\ GoTo(p, "chmod")
  /\ Same /\ UNCHANGED <<files, writer, tmp, outcome>>

(* os.Chmod goes by name.                                                  *)
Chmod(p) ==
  /\ pc[p] = "chmod"
  /\ \/ lib # None /\ GoTo(p, "openversion") /\ UNCHANGED <<tmp, outcome>>
     \/ lib = None /\ Exit(p, "error") /\ RemoveTmp(p)
  /\ Same /\ UNCHANGED <<files, writer>>

OpenVersion(p) ==
  /\ pc[p] = "openversion" /\ dir
  /\ version' = ""
  /\ linked' = [linked EXCEPT ![p] = TRUE]
  /\ GoTo(p, "writeversion")
  /\ Same /\ UNCHANGED <<dir, lib, at, tmp, outcome>>

WriteVersion(p) ==
  /\ pc[p] = "writeversion"
  /\ version' = IF linked[p] THEN cmd[p].version ELSE version
  /\ Exit(p, "installed") /\ RemoveTmp(p)
  /\ Completes(p) /\ UNCHANGED <<dir, lib, writer>>
-----------------------------------------------------------------------------
(* uninstall: os.RemoveAll unlinks the entries in whatever order the       *)
(* directory lists them, then the directory.  Who still writes to a file   *)
(* that was unlinked writes to no file of the directory.  A Stat that      *)
(* fails for any reason but ErrNotExist goes on to os.RemoveAll, which is  *)
(* content with a directory that is not there.                             *)
StatDir(p) ==
  /\ pc[p] = "stat"
  /\ \/ (dir \/ Faults) /\ GoTo(p, "remove") /\ UNCHANGED outcome
     \/ ~dir /\ Exit(p, "nothing")
  /\ Same /\ UNCHANGED <<files, writer, tmp>>

Unlink(stage) == linked' = [q \in Procs |-> linked[q] /\ pc[q] # stage]

RemoveLib(p) ==
  /\ pc[p] = "remove" /\ lib # None
  /\ lib' = None
  /\ Unlink("copy")
  /\ Same /\ UNCHANGED <<dir, version, pc, tmp, at, outcome>>

RemoveVersion(p) ==
  /\ pc[p] = "remove" /\ version # None
  /\ version' = None
  /\ Unlink("writeversion")
  /\ Same /\ UNCHANGED <<dir, lib, pc, tmp, at, outcome>>

(* Mutant: uninstall is content once the library is gone.                  *)
RemoveDirKeepsVersion(p) ==
  /\ pc[p] = "remove" /\ lib = None
  /\ Exit(p, "removed")
  /\ Completes(p) /\ UNCHANGED <<files, writer, tmp>>

RemoveDir(p) ==
  /\ pc[p] = "remove" /\ lib = None /\ version = None
  /\ dir' = FALSE
  /\ Exit(p, "removed")
  /\ Completes(p) /\ UNCHANGED <<lib, version, writer, tmp>>

InstalledVersion(p) ==
  /\ pc[p] = "read"
  /\ Exit(p, IF version = None THEN "error" ELSE "printed")
  /\ Same /\ UNCHANGED <<files, writer, tmp>>

Step(p) ==
  \/ CheckInstalled(p) \/ CreateTemp(p) \/ ReceiveArtifact(p)
  \/ VerifySha256(p) \/ MkdirAll(p) \/ CreateLib(p) \/ DirGone(p)
  \/ CopyPiece(p) \/ CopyDone(p) \/ Chmod(p)
  \/ OpenVersion(p) \/ WriteVersion(p)
  \/ StatDir(p) \/ RemoveLib(p) \/ RemoveVersion(p) \/ RemoveDir(p)
  \/ InstalledVersion(p)

Next == \E p \in Procs :
          (\E c \in Commands : Start(p, c)) \/ Step(p) \/ Fails(p) \/ Killed(p)

Spec == Init /\ [][Next]_vars
-----------------------------------------------------------------------------
Holds(v) == lib = [i \in 1..Chunks |-> v]

(* Whatever fails and whatever runs beside it, a command that comes to its *)
(* end leaves no temporary file (the deferred os.Remove and the error      *)
(* paths of downloadToTemp), except one whose removal it tried in vain.    *)
NoTempLeft == \A p \in Procs : pc[p] = "exited" => tmp[p] \in {None, "stuck"}

(* Nothing that fails its checksum reaches the library file, unless some   *)
(* install was run with -no-verify.                                        *)
VerifiedOnly ==
  lib # None /\ (\E i \in 1..Chunks : lib[i] = "corrupt") =>
    \E p \in Procs : cmd[p] # None /\ ~cmd[p].verify

(* An install that ran alone and says "installed" has installed: whatever  *)
(* killed commands, failures and races it found before it, the library is  *)
(* then whole and of the version VERSION names.                            *)
InstallRepairs ==
  [][\A p \in Procs :
       /\ outcome[p] # "installed" /\ outcome'[p] = "installed"
       /\ alone[p] /\ cmd[p].verify
       => Holds(cmd[p].version)' /\ version' = cmd[p].version /\ dir']_vars

(* As long as no command breaks off while it writes, and no two write at   *)
(* once - or once one has come to its end alone after that - VERSION names *)
(* the version of a whole library whenever nobody is writing, so that      *)
(* neither `version` nor the "already installed" answer misleads.  A       *)
(* download that fails, is killed or does not verify puts nothing at risk. *)
VersionIsInstalled ==
  trusted /\ (\A p \in Procs : ~Writer(p)) =>
    \A v \in Versions : version = v => Holds(v) \/ Holds("corrupt")

(* "Print the version of the installed libzeta.a": said of every state in  *)
(* which no command is running.                                            *)
VersionNamesLibrary ==
  (\A p \in Procs : ~Active(p)) =>
    \A v \in Versions : version = v => Holds(v) \/ Holds("corrupt")
=============================================================================
