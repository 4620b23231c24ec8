------------------------------- MODULE MCBoot -------------------------------
(***************************************************************************)
(* Every graph of three nodes.  Seven module files, any subset of which is *)
(* there: two good ones (one with two modules), one that declares a name   *)
(* twice taken, and four that fail at each of the ways out; a page is two  *)
(* units, and segments begin and end inside pages.  One thread that waits  *)
(* for two pieces of ACPI work, two that wait for an event.                *)
(***************************************************************************)
EXTENDS Boot

Seg(v, m, a, f) == [vaddr |-> v, memsz |-> m, align |-> a, flags |-> f]
Text == {"r", "x"}
Data == {"r", "w"}
File(segments, rela, mods) ==
  [valid |-> TRUE, dynamic |-> TRUE, segments |-> segments, rela |-> rela, modules |-> mods]
McInternal == <<"a", "b">>
McFiles ==
  { File(<<Seg(0, 3, 2, Text), Seg(5, 2, 2, Data)>>, <<"ok">>, <<"c", "d">>),
    File(<<Seg(1, 2, 4, Text)>>, <<>>, <<"e">>),
    File(<<Seg(0, 2, 2, Data)>>, <<"ok", "ok">>, <<"a">>),
    File(<<Seg(0, 5, 2, Text)>>, <<"ok", "bad">>, <<"g">>),
    File(<<Seg(0, 3, 2, Data)>>, <<>>, <<>>),
    [File(<<Seg(0, 2, 2, Text)>>, <<>>, <<"h">>) EXCEPT !.valid = FALSE],
    [File(<<Seg(0, 2, 2, Text)>>, <<>>, <<"i">>) EXCEPT !.dynamic = FALSE] }
McFrames == 1..11
=============================================================================
