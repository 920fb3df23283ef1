---------------------------- MODULE HostVsockProofs ----------------------------
(***************************************************************************)
(* HostVsock for paths and streams of any length.                          *)
(***************************************************************************)
EXTENDS HostVsock, TLAPS

-----------------------------------------------------------------------------
(* listening_vsock_path: what the steps of its loop keep.  They leave the  *)
(* stream alone, so only CutsThePort and the index can be disturbed.       *)
LEMMA ScanKeeps == ASSUME Inv, Scan PROVE Inv'
<1>1. /\ path \in Seq(Char) /\ Len(path) \in Nat /\ i \in Int
      /\ 0 <= i /\ i < Len(path)
      /\ \A k \in 1 .. Len(path) : path[k] \in Char
  BY PathsAssumption DEF Inv, TypeOK
<1>2. /\ status = "scan" /\ path' = path /\ response_len' = response_len
      /\ newlines' = newlines /\ ok' = ok /\ available' = available
  BY DEF Scan, ScanDigit, Truncate, Refuse, listener, stream
<1>3. newlines = {} /\ response_len = 0
  BY <1>2 DEF Inv
<1>4. TakesTheAnswer'
  BY <1>2, <1>3 DEF TakesTheAnswer, Answer
<1>5. CASE ScanDigit
  <2>1. i' = i - 1 /\ result' = result /\ status' = "scan" /\ i # 0 /\ path[i + 1] \in Digit
    BY <1>2, <1>5 DEF ScanDigit, Here
  <2>2. TypeOK' /\ CutsThePort'
    BY <1>1, <1>2, <2>1 DEF Inv, TypeOK, CutsThePort
  <2>3. \A k \in i' + 2 .. Len(path') : path'[k] \in Digit
    BY <1>1, <1>2, <2>1 DEF Inv
  <2> QED
    BY <1>2, <1>3, <1>4, <2>2, <2>3 DEF Inv
<1>6. CASE Truncate
  <2>1. CutAt(i + 1) /\ i + 1 \in 2 .. Len(path)
    BY <1>1, <1>6 DEF Truncate, Here, Inv, CutAt
  <2>2. result' = SubSeq(path, 1, (i + 1) - 1) /\ result' \in Seq(Char)
    BY <1>1, <1>6 DEF Truncate
  <2>3. i' = i /\ status' = "listen"
    BY <1>6 DEF Truncate
  <2>4. CutAt(i + 1)'
    BY <1>2, <2>1, <2>3 DEF CutAt
  <2>5. CutsThePort'
    BY <1>2, <2>1, <2>2, <2>3, <2>4 DEF CutsThePort
  <2>6. TypeOK'
    BY <1>2, <2>2, <2>3 DEF Inv, TypeOK
  <2> QED
    BY <1>2, <1>3, <1>4, <2>3, <2>5, <2>6 DEF Inv
<1>7. CASE Refuse
  <2>1. i' = i /\ status' = "refused" /\ result' = result
    BY <1>7 DEF Refuse, listener
  <2>2. ASSUME NEW n \in 2 .. Len(path), CutAt(n) PROVE FALSE
    <3>1. n <= i + 1
      BY <1>1, <2>2, CharAssumption DEF Inv, CutAt
    <3>2. CASE n = i + 1
      BY <1>1, <1>7, <2>2, <3>2 DEF Refuse, Here, CutAt
    <3>3. CASE n < i + 1
      <4>1. i # 0 /\ path[i + 1] \in Digit
        BY <1>1, <2>2, <3>3 DEF CutAt
      <4> QED
        BY <1>7, <4>1 DEF Refuse, Here
    <3> QED
      BY <1>1, <3>1, <3>2, <3>3
  <2>3. CutsThePort'
    BY <1>2, <2>1, <2>2 DEF CutsThePort, CutAt
  <2>4. TypeOK'
    BY <1>2, <2>1 DEF Inv, TypeOK
  <2> QED
    BY <1>2, <1>3, <1>4, <2>1, <2>3, <2>4 DEF Inv
<1> QED
  BY <1>5, <1>6, <1>7 DEF Scan

-----------------------------------------------------------------------------
(* A step that leaves the listener alone and follows a successful scan     *)
(* keeps what the scan has established.                                    *)
LEMMA ListenerKept ==
  ASSUME Inv, UNCHANGED listener, status \in {"listen", "reading"},
         status' \in {"reading", "connected", "error"}
  PROVE  /\ CutsThePort'
         /\ path' \in Paths /\ i' \in 0 .. Len(path') - 1 /\ result' \in Seq(Char)
         /\ \A k \in i' + 2 .. Len(path') : path'[k] \in Digit
<1>1. path' = path /\ i' = i /\ result' = result
  BY DEF listener
<1>2. \A n : CutAt(n)' <=> CutAt(n)
  BY <1>1 DEF CutAt
<1>3. CutsThePort'
  BY <1>1, <1>2 DEF Inv, CutsThePort
<1> QED
  BY <1>1, <1>3 DEF Inv, TypeOK

(* The connection of connect_to_guest: no byte was read yet, and without a *)
(* connection there is no answer to take.                                  *)
LEMMA ConnectKeeps == ASSUME Inv, Connect PROVE Inv'
<1>1. /\ status = "listen" /\ UNCHANGED listener /\ response_len' = 0
      /\ status' \in {"reading", "error"} /\ newlines = {}
  BY DEF Connect, Inv
<1>2. /\ newlines' \in Newlines \cup {{}} /\ ok' \in BOOLEAN
      /\ available' \in 0 .. MaxStream
      /\ status' = "error" => newlines' = {}
  BY <1>1 DEF Connect, stream, Inv, TypeOK
<1>3. TakesTheAnswer'
  BY <1>1, <1>2 DEF TakesTheAnswer, Answer, MinResponseLen, BufferLen
<1>4. TypeOK'
  BY <1>1, <1>2, ListenerKept DEF TypeOK, BufferLen
<1> QED
  BY <1>1, <1>3, <1>4, ListenerKept DEF Inv

(* The response loop of connect_to_guest: a read stops at or before the    *)
(* answer's newline, and the loop is left at it.                           *)
LEMMA ReadKeeps == ASSUME Inv, Read PROVE Inv'
<1>1. /\ status = "reading" /\ UNCHANGED listener
      /\ newlines' = newlines /\ ok' = ok /\ available' = available
      /\ \A n \in 5 .. 14 : Answer(n)' <=> Answer(n)
  BY DEF Read, ReadMore, Finish, stream, Answer
<1>2. response_len = 0 \/ response_len \in 5 .. 14
  BY DEF Inv, MinResponseLen, BufferLen
<1>3. /\ newlines \in Newlines \cup {{}} /\ ok \in BOOLEAN
      /\ available \in 0 .. MaxStream /\ MaxStream \in Nat
  BY StreamAssumption DEF Inv, TypeOK
<1>4. \A n \in 5 .. 14 : Answer(n) => response_len <= n
  BY DEF Inv, TakesTheAnswer, MinResponseLen, BufferLen
<1>5. SUFFICES /\ status' \in {"reading", "connected", "error"}
               /\ response_len' = 0 \/ response_len' \in 5 .. 14
               /\ \A n \in 5 .. 14 : Answer(n) =>
                    /\ response_len' <= n
                    /\ status' = "connected" => response_len' = n
                    /\ status' = "error" => available < n
  <2>1. TakesTheAnswer'
    BY <1>1, <1>5 DEF TakesTheAnswer, MinResponseLen, BufferLen
  <2>2. TypeOK'
    BY <1>1, <1>3, <1>5, ListenerKept DEF TypeOK, BufferLen
  <2> QED
    BY <1>1, <1>5, <2>1, <2>2, ListenerKept DEF Inv, MinResponseLen, BufferLen
<1>6. CASE ReadMore /\ End <= available
  <2>1. /\ response_len' = IF response_len = 0 THEN 5 ELSE response_len + 1
        /\ status' = "reading" /\ response_len < 14 /\ response_len \notin newlines
    BY <1>1, <1>2, <1>6
    DEF ReadMore, End, Larger, Missing, Stop, MinResponseLen, BufferLen
  <2>2. \A n \in 5 .. 14 : Answer(n) => response_len' <= n
    BY <1>2, <1>4, <2>1 DEF Answer
  <2> QED
    BY <1>2, <2>1, <2>2
<1>7. CASE ReadMore /\ ~(End <= available)
  <2>1. /\ status' = "error" /\ response_len' = response_len
        /\ response_len \notin newlines
        /\ available < (IF response_len = 0 THEN 5 ELSE response_len + 1)
    BY <1>1, <1>2, <1>3, <1>7
    DEF ReadMore, End, Larger, Missing, Stop, MinResponseLen, BufferLen
  <2>2. \A n \in 5 .. 14 : Answer(n) => available < n
    BY <1>2, <1>3, <1>4, <2>1 DEF Answer
  <2> QED
    BY <1>2, <1>4, <2>1, <2>2
<1>8. CASE Finish
  <2>1. /\ status' = (IF ok THEN "connected" ELSE "error")
        /\ response_len' = response_len
        /\ response_len \in newlines \/ response_len = 14
    BY <1>2, <1>8 DEF Finish, Stop, BufferLen
  <2>2. \A n \in 5 .. 14 : Answer(n) => response_len = n /\ status' = "connected"
    BY <1>2, <1>4, <2>1 DEF Answer
  <2> QED
    BY <1>2, <2>1, <2>2
<1> QED
  BY <1>6, <1>7, <1>8 DEF Read

-----------------------------------------------------------------------------
(* The two loops of main.rs keep Inv: the scan has only digits behind it,  *)
(* and the reader is at or before the newline of the answer.               *)
THEOREM Invariance == Spec => []Inv
<1>1. Init => Inv
  <2> SUFFICES ASSUME Init PROVE Inv
    OBVIOUS
  <2>1. path \in Seq(Char) /\ path # <<>> /\ Len(path) \in Nat /\ Len(path) # 0
    BY PathsAssumption DEF Init
  <2>2. TypeOK
    <3>1. path \in Paths /\ i \in 0 .. Len(path) - 1 /\ result \in Seq(Char)
      BY <2>1 DEF Init
    <3>2. available \in 0 .. MaxStream /\ response_len \in 0 .. BufferLen
      BY StreamAssumption DEF Init, BufferLen
    <3> QED
      BY <3>1, <3>2, Zenon DEF Init, TypeOK
  <2>3. TakesTheAnswer /\ CutsThePort
    BY DEF Init, TakesTheAnswer, Answer, CutsThePort
  <2> QED
    BY <2>1, <2>2, <2>3 DEF Init, Inv
<1>2. Inv /\ [Next]_vars => Inv'
  <2> SUFFICES ASSUME Inv, [Next]_vars PROVE Inv'
    OBVIOUS
  <2>1. CASE UNCHANGED vars
    BY <2>1 DEF vars, listener, stream, Inv, TypeOK, CutsThePort, CutAt, TakesTheAnswer, Answer
  <2> QED
    BY <2>1, ScanKeeps, ConnectKeeps, ReadKeeps DEF Next
<1> QED
  BY <1>1, <1>2, PTL DEF Spec

(* For every path, listening_vsock_path returns what the reference says.   *)
THEOREM PortCut == Spec => []CutsThePort
<1>1. Inv => CutsThePort
  BY DEF Inv
<1> QED
  BY <1>1, Invariance, PTL

(* On a stream of any length, connect_to_guest takes not a byte after the  *)
(* hypervisor's answer.                                                    *)
THEOREM AnswerTaken == Spec => []TakesTheAnswer
<1>1. Inv => TakesTheAnswer
  BY DEF Inv
<1> QED
  BY <1>1, Invariance, PTL

(* Whatever the hypervisor sends, the slice that connect_to_guest fills    *)
(* lies in its buffer: the unwrap of get_mut does not panic.               *)
THEOREM SliceSafe == Spec => []SliceInBuffer
<1>1. Inv => SliceInBuffer
  BY DEF Inv, TypeOK, SliceInBuffer, Stop, End, Larger, Missing, BufferLen, MinResponseLen
<1> QED
  BY <1>1, Invariance, PTL

-----------------------------------------------------------------------------
(* How far the loop that runs can still go: to the first character, to the *)
(* end of the buffer.                                                      *)
Remaining == IF status = "scan" THEN i ELSE BufferLen - response_len

(* A step of a loop leaves it or comes nearer to that.                     *)
Shrinks ==
  status \in {"scan", "reading"} =>
    \/ status' \notin {"scan", "reading"}
    \/ status' = status /\ Remaining' \in Nat /\ Remaining' < Remaining

(* What LoopsEnd rests on beside fairness: every round of either loop      *)
(* leaves it or comes nearer to a bound that the path or the buffer gives, *)
(* on every path and stream (listening_vsock_path, connect_to_guest).      *)
THEOREM LoopsShrink == Spec => [][Shrinks]_vars
<1>1. ASSUME Inv, Next, status \in {"scan", "reading"}
      PROVE  \/ status' \notin {"scan", "reading"}
             \/ status' = status /\ Remaining' \in Nat /\ Remaining' < Remaining
  <2>1. CASE ScanDigit
    <3>1. i \in Nat /\ i # 0
      BY <1>1, <2>1, PathsAssumption DEF ScanDigit, Inv, TypeOK
    <3>2. Remaining = i /\ Remaining' = i - 1 /\ status' = status
      BY <2>1, Zenon DEF ScanDigit, Remaining
    <3> QED
      BY <3>1, <3>2
  <2>2. CASE Truncate \/ Refuse \/ Connect \/ Finish
    BY <1>1, <2>2 DEF Truncate, Refuse, Connect, Finish
  <2>3. CASE ReadMore
    <3>1. CASE End <= available
      <4>1. Remaining = BufferLen - response_len /\ Remaining' = BufferLen - End /\ status' = status
        BY <2>3, <3>1 DEF ReadMore, Remaining
      <4>2. response_len < End /\ End <= BufferLen
        BY <1>1, <2>3
        DEF ReadMore, Inv, TypeOK, Stop, End, Larger, Missing, BufferLen, MinResponseLen
      <4>3. response_len \in Nat /\ End \in Nat /\ BufferLen \in Nat
        BY <1>1 DEF Inv, TypeOK, End, Larger, Missing, BufferLen, MinResponseLen
      <4> QED
        BY <4>1, <4>2, <4>3
    <3>2. CASE ~(End <= available)
      BY <2>3, <3>2 DEF ReadMore
    <3> QED
      BY <3>1, <3>2, Zenon
  <2> QED
    BY <1>1, <2>1, <2>2, <2>3, Zenon DEF Next, Scan, Read
<1> QED
  <2>1. Inv /\ [Next]_vars => [Shrinks]_vars
    BY <1>1, Zenon DEF Shrinks
  <2> QED
    BY <2>1, Invariance, PTL DEF Spec

=============================================================================
