------------------------------ MODULE DoubleFork ------------------------------
(***************************************************************************)
(* double_fork (host/start-vmm/fork.c), byte by byte, and what create_vm   *)
(* (lib.rs) makes of its result.                                           *)
(*                                                                         *)
(* start-vmm forks a child, the child forks the helper and sends its pid,  *)
(* or an errno, through a pipe.  Both sides loop until the sizeof v bytes  *)
(* are through.  StartVmm has this exchange as one message.                *)
(*                                                                         *)
(* A byte is known by its place in the child's v.  A read or a write moves *)
(* any number of the bytes it can; Linux moves these few at once, but the  *)
(* loops do not rely on it.  A signal may interrupt either: r = -1, errno  *)
(* = EINTR, and the loop adds r to the size_t acc.                         *)
(***************************************************************************)
EXTENDS Integers, Sequences

CONSTANTS
  Size,        \* sizeof v
  SizeMax,     \* SIZE_MAX + 1: acc is counted modulo this
  MaxSignals,  \* bound on the calls that are interrupted
  MayFail      \* the calls and processes that may fail for any reason

ASSUME ForkAssumption ==
  /\ Size \in Nat \ {0} /\ SizeMax \in Nat /\ SizeMax > Size
  /\ MaxSignals \in Nat

VARIABLES
  pc,       \* start-vmm: the call it is at, then what create_vm does
  child,    \* the intermediate child
  helper,   \* the grandchild, which closes its end of the pipe first
  sent,     \* the bytes the child wrote, in order
  taken,    \* how many of them start-vmm has read
  wacc,     \* acc in the child
  racc,     \* acc in start-vmm
  v,        \* v in start-vmm: its bytes, Unset where nothing was read
  signals   \* signals that may still interrupt a call

vars == <<pc, child, helper, sent, taken, wacc, racc, v, signals>>

Byte == 0 .. Size - 1
Unset == -1

(* All variables, and v in its declared width.                             *)
TypeOK ==
  /\ pc \in {"pipe", "fork", "read", "reap", "exec", "child_main", "exit", "dead"}
  /\ child \in {"none", "fork", "write", "exited", "killed"}
  /\ helper \in {"none", "born", "running", "gone"}
  /\ sent \in Seq(Byte)
  /\ taken \in Nat
  /\ wacc \in 0 .. SizeMax - 1
  /\ racc \in 0 .. SizeMax - 1
  /\ v \in [Byte -> Byte \cup {Unset}]
  /\ signals \in 0 .. MaxSignals

Init ==
  /\ pc = "pipe" /\ child = "none" /\ helper = "none"
  /\ sent = <<>> /\ taken = 0
  /\ wacc = 0 /\ racc = 0
  /\ v = [b \in Byte |-> Unset]
  /\ signals = MaxSignals

Fails(c) == c \in MayFail

(* acc += -1 in a size_t.                                                  *)
LessOne(acc) == (acc + SizeMax - 1) % SizeMax

ChildAlive == child \in {"fork", "write"}
ReaderOpen == pc = "read"
WriterOpen == ChildAlive \/ helper = "born"

-----------------------------------------------------------------------------
(* start-vmm                                                               *)

(* A failed pipe or fork returns -1, which create_vm takes for EPERM.      *)
MakePipe ==
  /\ pc = "pipe"
  /\ pc' = "fork" \/ (Fails("pipe") /\ pc' = "exit")
  /\ UNCHANGED <<child, helper, sent, taken, wacc, racc, v, signals>>

Fork ==
  /\ pc = "fork"
  /\ \/ pc' = "read" /\ child' = "fork"
     \/ Fails("fork") /\ pc' = "exit" /\ UNCHANGED child
  /\ UNCHANGED <<helper, sent, taken, wacc, racc, v, signals>>

(* create_vm on the returned v: a pid, or a negative errno, when v is what *)
(* the child sent; anything at all when a byte of v is not.                *)
Whole == v' = [b \in Byte |-> b]

Return ==
  IF Whole THEN pc' = IF helper # "none" THEN "exec" ELSE "exit"
           ELSE pc' \in {"exec", "child_main", "exit"}

(* Mutant: every read stores at the start of v.                            *)
ReadAtStart ==
  /\ pc = "read"
  /\ \E n \in 1 .. Size :
       /\ n <= Size - racc /\ n <= Len(sent) - taken
       /\ v' = [b \in Byte |-> IF b < n THEN sent[taken + b + 1] ELSE v[b]]
       /\ taken' = taken + n /\ racc' = racc + n
       /\ IF racc' < Size THEN UNCHANGED pc ELSE Return
  /\ UNCHANGED <<child, helper, sent, wacc, signals>>

(* Mutant: the loop goes on while acc <= sizeof v.                         *)
ReadOneMore ==
  /\ pc = "read"
  /\ \E n \in 1 .. Size :
       /\ n <= Size - racc /\ n <= Len(sent) - taken
       /\ v' = [b \in Byte |-> IF b \in racc .. racc + n - 1
                                 THEN sent[taken + b - racc + 1] ELSE v[b]]
       /\ taken' = taken + n /\ racc' = racc + n
       /\ IF racc' <= Size THEN UNCHANGED pc ELSE Return
  /\ UNCHANGED <<child, helper, sent, wacc, signals>>

(* read blocks while the pipe is empty and a writer has it open.  At end   *)
(* of file it returns 0 and the loop goes round for ever: no step.         *)
Read ==
  /\ pc = "read"
  /\ \E n \in 1 .. Size :
       /\ n <= Size - racc /\ n <= Len(sent) - taken
       /\ v' = [b \in Byte |-> IF b \in racc .. racc + n - 1
                                 THEN sent[taken + b - racc + 1] ELSE v[b]]
       /\ taken' = taken + n /\ racc' = racc + n
       /\ IF racc' < Size THEN UNCHANGED pc ELSE Return
  /\ UNCHANGED <<child, helper, sent, wacc, signals>>

ReadInterrupted ==
  /\ pc = "read" /\ signals > 0
  /\ signals' = signals - 1
  /\ racc' = LessOne(racc)
  /\ pc' = IF racc' < Size THEN "read" ELSE "reap"
  /\ UNCHANGED <<child, helper, sent, taken, wacc, v>>

(* r == -1: the child is killed and waited for, the helper is not.         *)
Reap ==
  /\ pc = "reap"
  /\ child' = IF ChildAlive THEN "killed" ELSE child
  /\ UNCHANGED v /\ Return
  /\ UNCHANGED <<helper, sent, taken, wacc, racc, signals>>

Die ==
  /\ Fails("kill") /\ pc \in {"read", "reap"}
  /\ pc' = "dead"
  /\ UNCHANGED <<child, helper, sent, taken, wacc, racc, v, signals>>

-----------------------------------------------------------------------------
(* The intermediate child                                                  *)

ChildFork ==
  /\ child = "fork"
  /\ child' = "write"
  /\ helper' = "born" \/ (Fails("fork") /\ UNCHANGED helper)
  /\ UNCHANGED <<pc, sent, taken, wacc, racc, v, signals>>

(* Mutant: the whole of v is offered again after a short write.            *)
WriteFromStart ==
  /\ child = "write" /\ ReaderOpen
  /\ \E n \in 1 .. Size - wacc :
       /\ sent' = sent \o [k \in 1 .. n |-> k - 1]
       /\ wacc' = wacc + n
  /\ child' = IF wacc' < Size THEN "write" ELSE "exited"
  /\ UNCHANGED <<pc, helper, taken, racc, v, signals>>

Write ==
  /\ child = "write" /\ ReaderOpen
  /\ \E n \in 1 .. Size - wacc :
       /\ sent' = sent \o [k \in 1 .. n |-> wacc + k - 1]
       /\ wacc' = wacc + n
  /\ child' = IF wacc' < Size THEN "write" ELSE "exited"
  /\ UNCHANGED <<pc, helper, taken, racc, v, signals>>

WriteInterrupted ==
  /\ child = "write" /\ signals > 0
  /\ signals' = signals - 1
  /\ wacc' = LessOne(wacc)
  /\ child' = IF wacc' < Size THEN "write" ELSE "exited"
  /\ UNCHANGED <<pc, helper, sent, taken, racc, v>>

(* start-vmm is gone, or has closed its end: EPIPE (SIGPIPE is ignored).   *)
WriteFails ==
  /\ child = "write" /\ ~ReaderOpen
  /\ child' = "exited"
  /\ UNCHANGED <<pc, helper, sent, taken, wacc, racc, v, signals>>

-----------------------------------------------------------------------------
(* The helper                                                              *)

HelperReturns ==
  /\ helper = "born"
  /\ helper' = "running"
  /\ UNCHANGED <<pc, child, sent, taken, wacc, racc, v, signals>>

(* create_vm_child_main ends; when the VM could not be created ("create")  *)
(* it first sends SIGTERM to its parent, the child if it still exists.     *)
HelperExit ==
  /\ helper = "running"
  /\ helper' = "gone"
  /\ \/ UNCHANGED child
     \/ Fails("create") /\ child' = IF ChildAlive THEN "killed" ELSE child
  /\ UNCHANGED <<pc, sent, taken, wacc, racc, v, signals>>

Parent == MakePipe \/ Fork \/ Read \/ Reap
Child == ChildFork \/ Write \/ WriteFails
Helper == HelperReturns \/ HelperExit
Signal == ReadInterrupted \/ WriteInterrupted \/ Die

Next == Parent \/ Child \/ Helper \/ Signal

Spec == Init /\ [][Next]_vars

(* The three processes are scheduled; no signal has to come.               *)
FairSpec == Spec /\ WF_vars(Parent) /\ WF_vars(Child) /\ WF_vars(Helper)

-----------------------------------------------------------------------------

(* What double_fork and create_vm rely on.                                 *)

Interrupted == signals < MaxSignals

(* While no call was interrupted both accs count the bytes that are        *)
(* through, the bytes are in their places, the child leaves its loop when  *)
(* all are written, and start-vmm its own when all are read.               *)
InOrder ==
  /\ pc # "reap"
  /\ Len(sent) = wacc /\ \A k \in 1 .. Len(sent) : sent[k] = k - 1
  /\ wacc <= Size
  /\ racc = taken
  /\ \A b \in Byte : b < racc => v[b] = b
  /\ child = "write" => wacc < Size
  /\ pc \in {"exec", "exit", "child_main"} => child = "none" \/ racc = Size

(* The inductive invariant: nothing is in the pipe before the child has    *)
(* forked, and the child does not fork once start-vmm has its answer.      *)
Inv ==
  /\ TypeOK
  /\ taken <= Len(sent)
  /\ child \in {"none", "fork"} => helper = "none" /\ sent = <<>> /\ wacc = 0
  /\ child = "none" => pc \in {"pipe", "fork", "exit"}
  /\ child = "fork" => pc \in {"read", "reap", "dead"}
  /\ pc \in {"pipe", "fork"} => child = "none"
  /\ ~Interrupted => InOrder

(* double_fork tells the truth: "Positive return value: in grandparent,    *)
(* pid of grandchild" (fork.c:10) only if the helper was forked, an error  *)
(* only if it was not and never will be, and start-vmm never takes itself  *)
(* for the helper; all of it however the bytes are split, and whichever    *)
(* process dies in between, unless a signal interrupted a call.            *)
Answer ==
  CASE pc = "exec" -> "pid"
    [] pc = "exit" -> "error"
    [] pc = "child_main" -> "zero"
    [] OTHER -> "none"

Promise == INSTANCE ForkPromise WITH
             born <- helper # "none",
             answer <- Answer,
             excused <- Interrupted

PromiseSpec == Promise!Spec

(* double_fork returns, unless the child is killed before it has written   *)
(* all of v (its helper's SIGTERM, lib.rs:173) or a call is interrupted:   *)
(* either leaves start-vmm reading at end of file (fork.c:45).             *)
ReturnsUnlessCut ==
  pc = "read" ~> pc # "read" \/ child = "killed" \/ Interrupted

=============================================================================
