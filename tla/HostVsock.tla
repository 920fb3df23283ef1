------------------------------- MODULE HostVsock -------------------------------
(***************************************************************************)
(* The two loops with which the host portal (main.rs) finds its way back   *)
(* to the guest.  At its start, listening_vsock_path makes the path of the *)
(* hypervisor's socket from the path of the socket it listens on,          *)
(* "<vsock path>_<port>".  Later, for a connection of the guest,           *)
(* connect_to_guest reads the hypervisor's answer "OK <port>\n" off a      *)
(* stream on which the guest's D-Bus traffic follows at once.              *)
(*                                                                         *)
(* Of the stream only what the second loop looks at is kept: where its     *)
(* newlines are (positions from 1), whether it starts with "OK ", and how  *)
(* many bytes arrive before the hypervisor closes it.                      *)
(***************************************************************************)
EXTENDS Integers, Sequences

CONSTANTS
  Char,       \* characters, among them
  Digit,      \* the digits and
  Under,      \* the underscore
  Paths,      \* the paths a socket can be bound to: none is empty
  MaxStream,  \* length of the longest stream considered
  Newlines    \* the sets of positions at which a stream has its newlines

ASSUME CharAssumption == Digit \subseteq Char /\ Under \in Char \ Digit

ASSUME PathsAssumption == Paths \subseteq Seq(Char) \ {<<>>}

ASSUME StreamAssumption ==
  MaxStream \in Nat /\ Newlines \subseteq SUBSET (1 .. MaxStream)

VARIABLES
  status,        \* "scan", "refused", "listen", "reading", "connected", "error"
  path,          \* listening_addr, as getsockname returned it
  i,             \* the index looked at, from 0
  result,        \* VSOCK_UNIX_PATH
  newlines,      \* the positions of the stream that hold a newline
  ok,            \* the stream starts with "OK "
  available,     \* how many bytes arrive
  response_len   \* bytes read so far

listener == <<path, i, result>>
stream == <<newlines, ok, available>>
vars == <<status, listener, stream, response_len>>

BufferLen == 14        \* response, the length of "OK [u32::MAX]\n"
MinResponseLen == 5    \* min_response_len, the length of "OK 0\n"

(* The index is in the path, so i never wraps below 0, and the bytes read  *)
(* fit in the buffer.                                                      *)
TypeOK ==
  /\ status \in {"scan", "refused", "listen", "reading", "connected", "error"}
  /\ path \in Paths /\ i \in 0 .. Len(path) - 1 /\ result \in Seq(Char)
  /\ newlines \in Newlines \cup {{}} /\ ok \in BOOLEAN
  /\ available \in 0 .. MaxStream /\ response_len \in 0 .. BufferLen

Init ==
  /\ status = "scan" /\ path \in Paths /\ i = Len(path) - 1 /\ result = <<>>
  /\ newlines = {} /\ ok = FALSE /\ available = 0 /\ response_len = 0

-----------------------------------------------------------------------------
(* listening_vsock_path.                                                   *)

Here == path[i + 1]

(* Mutant: the first character is looked at too.                           *)
ScanFirst ==
  /\ status = "scan" /\ Here \in Digit
  /\ i' = i - 1
  /\ UNCHANGED <<status, path, result, stream, response_len>>

ScanDigit ==
  /\ status = "scan" /\ i # 0 /\ Here \in Digit
  /\ i' = i - 1
  /\ UNCHANGED <<status, path, result, stream, response_len>>

(* Mutant: the underscore is kept.                                         *)
TruncateAfter ==
  /\ status = "scan" /\ i # 0 /\ Here = Under
  /\ result' = SubSeq(path, 1, i + 1) /\ status' = "listen"
  /\ UNCHANGED <<path, i, stream, response_len>>

Truncate ==
  /\ status = "scan" /\ i # 0 /\ Here = Under
  /\ result' = SubSeq(path, 1, i) /\ status' = "listen"
  /\ UNCHANGED <<path, i, stream, response_len>>

Refuse ==
  /\ status = "scan" /\ (i = 0 \/ Here \notin Digit \cup {Under})
  /\ status' = "refused"
  /\ UNCHANGED <<listener, stream, response_len>>

-----------------------------------------------------------------------------
(* connect_to_guest, for one connection.                                   *)

(* The hypervisor takes the connection and the request, or it does not.    *)
Connect ==
  /\ status = "listen"
  /\ \/ /\ status' = "reading" /\ newlines' \in Newlines /\ ok' \in BOOLEAN
        /\ available' \in 0 .. MaxStream
     \/ status' = "error" /\ UNCHANGED stream
  /\ UNCHANGED <<listener, response_len>>

Larger(a, b) == IF a > b THEN a ELSE b
Missing(n) == IF n > MinResponseLen THEN 0 ELSE MinResponseLen - n

(* Mutant: at least the shortest answer and one byte more is asked for.    *)
EndOneMore == Larger(Missing(response_len), response_len + 1) + 1

(* Mutant: the shortest answer is asked for each time.                     *)
EndInChunks == response_len + MinResponseLen

(* The end of the slice that the next read_exact fills.                    *)
End == Larger(Missing(response_len), response_len + 1)

(* The loop is left: the last byte read is a newline, or there is no room. *)
Stop == response_len \in newlines \/ response_len >= BufferLen

(* Mutant: read instead of read_exact, which returns less, or nothing, at  *)
(* the end of the stream.                                                  *)
ReadSome ==
  /\ status = "reading" /\ ~Stop
  /\ response_len' = IF End <= available THEN End ELSE Larger(available, response_len)
  /\ UNCHANGED <<status, listener, stream>>

(* read_exact fails if the hypervisor closes the stream first.             *)
ReadMore ==
  /\ status = "reading" /\ ~Stop
  /\ IF End <= available
     THEN response_len' = End /\ UNCHANGED status
     ELSE status' = "error" /\ UNCHANGED response_len
  /\ UNCHANGED <<listener, stream>>

Finish ==
  /\ status = "reading" /\ Stop
  /\ status' = IF ok THEN "connected" ELSE "error"
  /\ UNCHANGED <<listener, stream, response_len>>

-----------------------------------------------------------------------------
Scan == ScanDigit \/ Truncate \/ Refuse
Read == ReadMore \/ Finish
Next == Scan \/ Connect \/ Read

Spec == Init /\ [][Next]_vars

(* The loops run; nothing makes the guest ask for a connection.            *)
FairSpec == Spec /\ WF_vars(Scan) /\ WF_vars(Read)

-----------------------------------------------------------------------------
(* The reference: the path is cut at position n, an underscore that is not *)
(* the first character and has only digits after it.                       *)
CutAt(n) ==
  /\ n \in 2 .. Len(path) /\ path[n] = Under
  /\ \A k \in n + 1 .. Len(path) : path[k] \in Digit

(* listening_vsock_path computes the reference: the returned path is what  *)
(* stands before the last underscore, only digits follow it, and a path is *)
(* refused only if it cannot be cut.                                       *)
CutsThePort ==
  /\ status = "refused" => \A n \in 2 .. Len(path) : ~CutAt(n)
  /\ status \notin {"scan", "refused"} =>
       \E n \in 2 .. Len(path) : CutAt(n) /\ result = SubSeq(path, 1, n - 1)

(* The stream begins with an answer of n bytes: "OK ", one to ten digits   *)
(* and the first newline.                                                  *)
Answer(n) ==
  /\ n \in MinResponseLen .. BufferLen /\ n \in newlines /\ ok
  /\ \A k \in newlines : n <= k

(* connect_to_guest takes the answer and nothing of what follows it: not a *)
(* byte of the D-Bus stream is consumed before zbus gets the socket, and a *)
(* connection is made exactly if the whole answer arrives.                 *)
TakesTheAnswer ==
  \A n \in MinResponseLen .. BufferLen :
    Answer(n) =>
      /\ response_len <= n
      /\ status = "connected" => response_len = n
      /\ status = "error" => available < n

(* response.get_mut(response_len..end).unwrap() never panics: whatever the *)
(* peer sends, the slice to fill lies in the buffer and is not empty.      *)
SliceInBuffer ==
  status = "reading" /\ ~Stop => response_len < End /\ End <= BufferLen

(* Both loops end, for every path and on every stream.                     *)
LoopsEnd == status \in {"scan", "reading"} ~> status \notin {"scan", "reading"}

-----------------------------------------------------------------------------
(* The inductive invariant: everything behind the index is a digit, and no *)
(* read leaves response_len between 0 and the shortest answer, which is    *)
(* why asking for one byte more never asks for too many.                   *)
Inv ==
  /\ TypeOK /\ CutsThePort /\ TakesTheAnswer
  /\ \A k \in i + 2 .. Len(path) : path[k] \in Digit
  /\ response_len = 0 \/ response_len \in MinResponseLen .. BufferLen
  /\ status \in {"scan", "refused", "listen"} => newlines = {} /\ response_len = 0

=============================================================================
