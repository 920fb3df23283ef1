------------------------------ MODULE MCHostVsock ------------------------------
(***************************************************************************)
(* HostVsock for TLC: all paths of at most MaxPath characters, and streams *)
(* whose first newline, if any, may be followed by another at once.        *)
(***************************************************************************)
EXTENDS HostVsock, SequencesExt

CONSTANT MaxPath

Chars == {"c", "7", "_"}
Digits == {"7"}
ShortPaths == BoundedSeq(Chars, MaxPath) \ {<<>>}
FewNewlines == {{}} \cup {{a} : a \in 1 .. MaxStream}
                    \cup {{a, a + 1} : a \in 1 .. MaxStream - 1}

=============================================================================
