---------------------------- MODULE MCFileSystem ----------------------------
(***************************************************************************)
(* Two names and paths of two segments; links that say "../b".  Eight      *)
(* values of size_t, half of them negative as an off_t.  One process that  *)
(* opens, closes and duplicates descriptors, and one that reads and writes *)
(* a file through several, with one buffer and with two.                   *)
(***************************************************************************)
EXTENDS FileSystem

ToTheSide == {[abs |-> FALSE, segs |-> <<"..", "b">>]}
Flags(acc, more) ==
  [acc |-> acc, creat |-> "creat" \in more, excl |-> "excl" \in more, trunc |-> "trunc" \in more,
   directory |-> "directory" \in more, nofollow |-> "nofollow" \in more, closexec |-> "closexec" \in more]
McProcesses ==
  {[calls |-> {"open", "close", "dup", "fcntl", "dupfd"}, flags |-> {Flags("rw", {"creat", "nofollow"})},
    counts |-> {<<2>>}, offsets |-> {1}, switches |-> {FALSE}, max_fd |-> 3, max_files |-> 4],
   [calls |-> {"open", "io", "pio", "lseek"},
    flags |-> {Flags("rw", {"creat"}), Flags("r", {"trunc"}), Flags("w", {"creat", "excl"})},
    counts |-> {<<2>>, <<1, 1>>}, offsets |-> {-1, 3}, switches |-> {TRUE}, max_fd |-> 4, max_files |-> 5]}
=============================================================================
