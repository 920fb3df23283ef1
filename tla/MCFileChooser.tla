----------------------------- MODULE MCFileChooser -----------------------------
(***************************************************************************)
(* Two requests over two files, for TLC.                                   *)
(***************************************************************************)
EXTENDS FileChooser

CONSTANTS r1, r2, f1, f2

Requests == {r1, r2}
Files == {f1, f2}
AllFaults == {"open", "add", "files", "host"}

=============================================================================
