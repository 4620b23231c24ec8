----------------------------- MODULE FileSystem -----------------------------
(***************************************************************************)
(* The file system in two parts: the name space (Vfs, which is extended)   *)
(* and the open files of the process with their contents (Files).  A       *)
(* behaviour is one of one part, the other rests.                          *)
(***************************************************************************)
EXTENDS Vfs

CONSTANTS Width, Processes      \* of Files

VARIABLES
  part,         \* the part whose behaviour this is
  names, inodes, files, fds, next_fd, stopped, process

Open == INSTANCE Files

ASSUME FileSystemAssumption == VfsAssumption /\ Open!FilesAssumption

fileVars == <<names, inodes, files, fds, next_fd, stopped, process>>
allVars == <<part, ns, fileVars>>

FileSystemInit ==
  /\ part \in {"space", "files"} /\ Init /\ Open!Init
  /\ part = "space" => process = CHOOSE p \in Processes : TRUE
FileSystemNext ==
  \/ part = "space" /\ Next /\ UNCHANGED <<part, fileVars>>
  \/ part = "files" /\ Open!Next /\ UNCHANGED <<part, ns>>
FileSystemSpec == FileSystemInit /\ [][FileSystemNext]_allVars

-----------------------------------------------------------------------------
(* Properties; TreeSound and OperationsExact are those of Vfs.             *)

\* pathname_from() names the place that resolve() found.
PathnamesLeadBack == part = "space" => PathnameTrue

\* An open descriptor keeps its file, unless dup2() or dup3() name it.
DescriptorsKept == [][Open!FilesKept]_allVars

\* tmpfs: holes read as zero, and no read that starts inside leaves its buffer.
ContentsSound == Open!ContentsSound
=============================================================================
