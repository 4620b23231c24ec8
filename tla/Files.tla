------------------------------- MODULE Files -------------------------------
(***************************************************************************)
(* The descriptors and open files of the one user process, and the         *)
(* contents of the files in memory: kernel/source/system/syscall/vfs.cpp,  *)
(* class fdtable of system/vfs.cpp, drivers/fs/tmpfs.cpp and the memory    *)
(* objects of system/memory/vmm.cpp.                                       *)
(*                                                                         *)
(* Path resolution is module Vfs; here a name in one directory leads to an *)
(* inode, to none, or to a symbolic link.  Numbers of type size_t are      *)
(* modulo Width, an off_t is negative in the upper half.  A call that      *)
(* fails changes nothing and is a stuttering step, unless it is an action. *)
(* Devices read and write no memory of a file and are left out.            *)
(***************************************************************************)
EXTENDS Integers, FiniteSets, Sequences

CONSTANTS
  Width,        \* 2^64: size_t
  Processes     \* bound: what the process does, a set of records of
                \*   calls:     the system calls it makes
                \*   flags:     what it opens files with
                \*   counts:    buffer lengths of one read or write, a sequence each
                \*   offsets:   of lseek, pread and pwrite (may be negative)
                \*   switches:  values of close-on-exec and of append tried
                \*   max_fd:    largest descriptor
                \*   max_files: open files

OffMax == (Width \div 2) - 1

OpenFlags ==
  [acc : {"r", "w", "rw"}, creat : BOOLEAN, excl : BOOLEAN, trunc : BOOLEAN,
   directory : BOOLEAN, nofollow : BOOLEAN, closexec : BOOLEAN]

\* The kernel has a copy of every buffer in its half of the addresses, and
\* descriptors 0, 1 and 2 are open from the start.
FilesAssumption ==
  /\ Width \in Nat /\ Width > 1
  /\ \A p \in Processes :
       /\ p.flags \subseteq OpenFlags
       /\ p.counts \subseteq Seq(0..OffMax) \ {<<>>}
       /\ p.offsets \subseteq Int
       /\ p.switches \subseteq BOOLEAN
       /\ p.max_fd \in Nat /\ p.max_fd >= 2

VARIABLES
  names,        \* name -> inode, or 0
  inodes,       \* inode -> [type, size, mem]; mem is zero where no page is
  files,        \* struct file -> [inode, offset, acc, status]
  fds,          \* fdtable::fds: descriptor -> [file, closexec]
  next_fd,      \* fdtable::next_fd
  stopped,      \* why the kernel stopped
  process       \* the process that runs

vars == <<names, inodes, files, fds, next_fd, stopped, process>>

Nothing == [i \in 0..(Width - 1) |-> 0]
Writes == {"w", "rw"}
Reads == {"r", "rw"}
With(f, k, v) == [x \in DOMAIN f \cup {k} |-> IF x = k THEN v ELSE f[x]]

\* kthread(): the process starts with the console as 0, 1 and 2; the tree has a
\* directory, a file that does not exist yet, and a link to it.
Console == 1
Directory == 2
SymlinkTo == 3
Init ==
  /\ names = [n \in {"f", "d", "l"} |-> CASE n = "f" -> 0 [] n = "d" -> Directory [] n = "l" -> SymlinkTo]
  /\ inodes = [i \in 1..3 |-> [type |-> <<"chr", "dir", "lnk">>[i], size |-> 0, mem |-> Nothing]]
  /\ files = [f \in 1..3 |-> [inode |-> Console, offset |-> 0, acc |-> "rw", status |-> {}]]
  /\ fds = [fd \in 0..2 |-> [file |-> fd + 1, closexec |-> FALSE]]
  /\ next_fd = 2
  /\ stopped = "no"
  /\ process \in Processes

-----------------------------------------------------------------------------
(* The descriptor table.                                                   *)

\* A mutation: next_fd is given out without looking whether it is free.
BugChosenFd(fd, force) == IF fd \notin DOMAIN fds \/ force THEN fd ELSE next_fd

\* fdtable::allocate_fd: the number asked for if it is free or taken by force,
\* else the first free one from next_fd on, which moves by one only.
ChosenFd(fd, force) ==
  IF fd \notin DOMAIN fds \/ force THEN fd
  ELSE CHOOSE k \in next_fd..(next_fd + Cardinality(DOMAIN fds)) :
         /\ k \notin DOMAIN fds
         /\ \A j \in next_fd..(k - 1) : j \in DOMAIN fds

\* struct file lives as long as a descriptor refers to it.
Kept(table, open) == [f \in {table[fd].file : fd \in DOMAIN table} |-> open[f]]

AllocateFd(desc, fd, force, open) ==
  LET at == ChosenFd(fd, force)
      table == With(fds, at, desc)
  IN  /\ at <= process.max_fd
      /\ fds' = table
      /\ next_fd' = IF fd \in DOMAIN fds /\ ~force THEN next_fd + 1 ELSE next_fd
      /\ files' = Kept(table, open)

Close(fd) ==
  LET table == [k \in DOMAIN fds \ {fd} |-> fds[k]]
  IN  /\ fd \in DOMAIN fds
      /\ fds' = table
      /\ files' = Kept(table, files)
      /\ UNCHANGED <<names, inodes, next_fd, stopped, process>>

\* dup(), and through it F_DUPFD and F_DUPFD_CLOEXEC of fcntl(), which hand it
\* their argument in place of the descriptor.
Dup(oldfd) ==
  /\ oldfd \in DOMAIN fds
  /\ AllocateFd([file |-> fds[oldfd].file, closexec |-> FALSE], 0, FALSE, files)
  /\ UNCHANGED <<names, inodes, stopped, process>>

FcntlDup(fd, arg, cloexec) ==
  /\ fd \in DOMAIN fds
  /\ arg \in DOMAIN fds
  /\ AllocateFd([file |-> fds[arg].file, closexec |-> cloexec], 0, FALSE, files)
  /\ UNCHANGED <<names, inodes, stopped, process>>

Dup2(oldfd, newfd) ==
  /\ oldfd \in DOMAIN fds
  /\ AllocateFd([file |-> fds[oldfd].file, closexec |-> FALSE], newfd, TRUE, files)
  /\ UNCHANGED <<names, inodes, stopped, process>>

Dup3(oldfd, newfd, cloexec) ==
  /\ oldfd # newfd
  /\ oldfd \in DOMAIN fds
  /\ AllocateFd([file |-> fds[oldfd].file, closexec |-> cloexec], newfd, TRUE, files)
  /\ UNCHANGED <<names, inodes, stopped, process>>

FcntlSetFd(fd, cloexec) ==
  /\ fd \in DOMAIN fds
  /\ fds' = [fds EXCEPT ![fd].closexec = cloexec]
  /\ UNCHANGED <<names, inodes, files, next_fd, stopped, process>>

\* F_SETFL keeps everything but the changeable status flags.
FcntlSetFl(fd, status) ==
  /\ fd \in DOMAIN fds
  /\ files' = [files EXCEPT ![fds[fd].file].status = status]
  /\ UNCHANGED <<names, inodes, fds, next_fd, stopped, process>>

-----------------------------------------------------------------------------
(* The contents of files.                                                  *)

\* object::write and object::clear go page by page; the position wraps.
Stored(mem, offset, length, byte) ==
  [i \in DOMAIN mem |-> IF (i - offset) % Width < length THEN byte ELSE mem[i]]

\* A mutation: the bytes cut off are not cleared.
BugTruncated(node, size) == [node EXCEPT !.size = size]

\* tmpfs trunc().
Truncated(node, size) ==
  [node EXCEPT !.mem = IF size < node.size THEN Stored(@, size, node.size - size, 0)
                       ELSE Stored(@, node.size, size - node.size, 0),
               !.size = size]

\* tmpfs read(): how many bytes it returns.
RealSize(node, offset, count) ==
  IF (offset + count) % Width >= node.size
  THEN (count - ((offset + count) - node.size)) % Width
  ELSE count

\* tmpfs write() of count bytes that are not zero.
Written(node, offset, count) ==
  LET end == (offset + count) % Width
  IN  [node EXCEPT !.mem = Stored(@, offset, count, 1),
                   !.size = IF end >= @ THEN end ELSE @]

\* The loop of readv() over its buffers, of which read() has one: it ends at the
\* first that gets nothing.  A length beyond the buffer leaves it.
ReadNext(node, s, count) ==
  LET n == RealSize(node, s.offset, count)
  IN  IF s.done THEN s
      ELSE IF n > count
      THEN [s EXCEPT !.done = TRUE,
                     !.fault = IF s.offset > node.size THEN "read behind the end" ELSE "read overran"]
      ELSE [s EXCEPT !.done = (n = 0), !.offset = (@ + n) % Width]
ReadLoop(node, offset, counts) ==
  LET after[i \in 0..Len(counts)] ==
        IF i = 0 THEN [offset |-> offset, done |-> FALSE, fault |-> "no"]
        ELSE ReadNext(node, after[i - 1], counts[i])
  IN  after[Len(counts)]

\* That of writev().
WriteNext(s, count) ==
  [node |-> Written(s.node, s.offset, count), offset |-> (s.offset + count) % Width]
WriteLoop(node, offset, counts) ==
  LET after[i \in 0..Len(counts)] ==
        IF i = 0 THEN [node |-> node, offset |-> offset] ELSE WriteNext(after[i - 1], counts[i])
  IN  after[Len(counts)]

\* Is the file one in memory, open for this?  readv() and preadv() do not ask
\* whether it is a directory, which has no bytes to read.
Transfers(fd, modes) ==
  /\ fd \in DOMAIN fds
  /\ files[fds[fd].file].acc \in modes
  /\ inodes[files[fds[fd].file].inode].type \notin {"chr", "dir"}

\* read() and readv() at the offset of the file, pread() and preadv() at one
\* that is given.
ReadFrom(fd, offset, counts, moves) ==
  LET file == fds[fd].file
      done == ReadLoop(inodes[files[file].inode], offset, counts)
  IN  /\ stopped' = done.fault
      /\ files' = IF moves THEN [files EXCEPT ![file].offset = done.offset] ELSE files
      /\ UNCHANGED <<names, inodes, fds, next_fd, process>>
Read(fd, count) == Transfers(fd, Reads) /\ ReadFrom(fd, files[fds[fd].file].offset, <<count>>, TRUE)
Pread(fd, count, offset) == Transfers(fd, Reads) /\ ReadFrom(fd, offset % Width, <<count>>, FALSE)
Readv(fd, counts) == Transfers(fd, Reads) /\ ReadFrom(fd, files[fds[fd].file].offset, counts, TRUE)
Preadv(fd, counts, offset) == Transfers(fd, Reads) /\ ReadFrom(fd, offset % Width, counts, FALSE)

\* write() and writev(), pwrite() and pwritev().
WriteTo(fd, offset, counts, moves) ==
  LET file == fds[fd].file
      done == WriteLoop(inodes[files[file].inode], offset, counts)
  IN  /\ inodes' = [inodes EXCEPT ![files[file].inode] = done.node]
      /\ files' = IF moves THEN [files EXCEPT ![file].offset = done.offset] ELSE files
      /\ UNCHANGED <<names, fds, next_fd, stopped, process>>
Write(fd, count) == Transfers(fd, Writes) /\ WriteTo(fd, files[fds[fd].file].offset, <<count>>, TRUE)
Pwrite(fd, count, offset) == Transfers(fd, Writes) /\ WriteTo(fd, offset % Width, <<count>>, FALSE)
Writev(fd, counts) == Transfers(fd, Writes) /\ WriteTo(fd, files[fds[fd].file].offset, counts, TRUE)
Pwritev(fd, counts, offset) == Transfers(fd, Writes) /\ WriteTo(fd, offset % Width, counts, FALSE)

\* lseek(): the sum is unsigned, and refused when it is no off_t.
SeekTo(fd, offset, whence) ==
  LET f == files[fds[fd].file]
      from == CASE whence = "set" -> 0 [] whence = "cur" -> f.offset [] whence = "end" -> inodes[f.inode].size
  IN  (from + offset) % Width
Lseek(fd, offset, whence) ==
  /\ fd \in DOMAIN fds
  /\ inodes[files[fds[fd].file].inode].type # "chr"
  /\ SeekTo(fd, offset, whence) <= OffMax
  /\ files' = [files EXCEPT ![fds[fd].file].offset = SeekTo(fd, offset, whence)]
  /\ UNCHANGED <<names, inodes, fds, next_fd, stopped, process>>

-----------------------------------------------------------------------------
(* openat().                                                               *)

\* reduce() of the name: the link leads to f.
Reduced(n) == IF n = "l" THEN names["f"] ELSE names[n]

Accepted(flags) ==
  \* flags & o_tmpfile: o_directory is a part of o_tmpfile
  /\ flags.directory => flags.acc \in Writes
  /\ ~(flags.directory /\ flags.creat)

\* A new struct file and a descriptor for it; o_trunc empties the file,
\* whatever the access mode.
OpenInode(ino, flags, nodes) ==
  LET f == CHOOSE k \in 1..(Cardinality(DOMAIN files) + 1) : k \notin DOMAIN files
      file == [inode |-> ino, offset |-> 0, acc |-> flags.acc, status |-> {}]
  IN  /\ f <= process.max_files
      /\ inodes' = IF flags.trunc THEN [nodes EXCEPT ![ino] = Truncated(@, 0)] ELSE nodes
      /\ AllocateFd([file |-> f, closexec |-> flags.closexec], 0, FALSE, With(files, f, file))

OpenExisting(n, flags) ==
  LET ino == IF flags.nofollow THEN names[n] ELSE Reduced(n)
  IN  /\ Accepted(flags)
      /\ names[n] # 0
      /\ ~(flags.excl /\ flags.creat)
      /\ ino # 0
      /\ ~(inodes[ino].type = "dir" /\ flags.acc \in Writes)
      /\ ~(inodes[ino].type # "dir" /\ flags.directory)
      /\ OpenInode(ino, flags, inodes)
      /\ UNCHANGED <<names, stopped, process>>

\* The file is created without the bits of its type.  (The assertion after it
\* wants a dentry without an inode: a debug build stops here every time.)
OpenCreate(n, flags) ==
  LET ino == Cardinality(DOMAIN inodes) + 1
      created == With(inodes, ino, [type |-> "none", size |-> 0, mem |-> Nothing])
  IN  /\ Accepted(flags)
      /\ names[n] = 0
      /\ flags.creat
      /\ names' = [names EXCEPT ![n] = ino]
      /\ OpenInode(ino, flags, created)
      /\ UNCHANGED <<stopped, process>>

-----------------------------------------------------------------------------
Fds == 0..process.max_fd
Next ==
  /\ stopped = "no"
  /\ \/ "open" \in process.calls /\ \E n \in DOMAIN names, flags \in process.flags :
                               OpenExisting(n, flags) \/ OpenCreate(n, flags)
     \/ "close" \in process.calls /\ \E fd \in DOMAIN fds : Close(fd)
     \/ "dup" \in process.calls /\ \E fd \in DOMAIN fds :
                              Dup(fd) \/ \E to \in Fds : Dup2(fd, to) \/ \E b \in process.switches : Dup3(fd, to, b)
     \/ "fcntl" \in process.calls /\ \E fd \in DOMAIN fds, b \in process.switches :
                                FcntlSetFd(fd, b) \/ FcntlSetFl(fd, IF b THEN {"append"} ELSE {})
     \/ "dupfd" \in process.calls /\ \E fd, arg \in DOMAIN fds, b \in process.switches : FcntlDup(fd, arg, b)
     \/ "io" \in process.calls /\ \E fd \in DOMAIN fds, counts \in process.counts :
                             \/ Read(fd, Head(counts)) \/ Write(fd, Head(counts))
                             \/ Readv(fd, counts) \/ Writev(fd, counts)
     \/ "pio" \in process.calls /\ \E fd \in DOMAIN fds, counts \in process.counts, offset \in process.offsets :
                              \/ Pread(fd, Head(counts), offset) \/ Pwrite(fd, Head(counts), offset)
                              \/ Preadv(fd, counts, offset) \/ Pwritev(fd, counts, offset)
     \/ "lseek" \in process.calls /\ \E fd \in DOMAIN fds, offset \in process.offsets, whence \in {"set", "cur", "end"} :
                                Lseek(fd, offset, whence)

Spec == Init /\ [][Next]_vars

-----------------------------------------------------------------------------
(* Properties.                                                             *)

TypeOK ==
  /\ \A n \in DOMAIN names : names[n] \in DOMAIN inodes \cup {0}
  /\ \A i \in DOMAIN inodes : inodes[i].size \in 0..(Width - 1)
  /\ \A f \in DOMAIN files : files[f].inode \in DOMAIN inodes /\ files[f].offset \in 0..(Width - 1)
  /\ \A fd \in DOMAIN fds : fd \in Fds /\ fds[fd].file \in DOMAIN files
  /\ next_fd \in Nat /\ process \in Processes

\* What lies behind the end of a file is zero, so a hole that a later write or
\* seek opens reads as zero, whatever was written, truncated and written again
\* through several descriptors (wherever an offset can point).
BehindEndZero ==
  /\ TypeOK
  /\ \A i \in DOMAIN inodes : \A pos \in 0..OffMax :
       pos >= inodes[i].size => inodes[i].mem[pos] = 0

\* A read that starts inside a file never gets more than its buffer holds: the
\* unsigned length wraps only for reads that start behind the end.
ReadsStayInBuffer == stopped # "read overran"

\* Reads give what was written: holes are zero, and no read leaves its buffer.
ContentsSound == BehindEndZero /\ ReadsStayInBuffer

\* An open descriptor changes its file only when dup2() or dup3() name it: no
\* open() or dup() is given a number that is taken, whatever was closed,
\* duplicated and forced before.
FilesKept ==
  \A fd \in DOMAIN fds \cap DOMAIN fds' :
    fds'[fd].file = fds[fd].file
      \/ \E oldfd \in DOMAIN fds, c \in BOOLEAN : Dup2(oldfd, fd) \/ Dup3(oldfd, fd, c)
DescriptorsKept == [][FilesKept]_vars
=============================================================================
