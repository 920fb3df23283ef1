--------------------------- MODULE DoubleForkProofs ---------------------------
(***************************************************************************)
(* double_fork tells the truth about the helper for every size of v, every *)
(* split of its bytes and every fault, until a signal interrupts a call.   *)
(***************************************************************************)
EXTENDS DoubleFork, SequenceTheorems, TLAPS

(* acc stays a size_t when -1 is added to it.                              *)
LEMMA LessOneType ==
  ASSUME NEW acc \in 0 .. SizeMax - 1 PROVE LessOne(acc) \in 0 .. SizeMax - 1
BY ForkAssumption DEF LessOne

(* The bytes one write moves, and what the pipe holds after it.            *)
LEMMA Written ==
  ASSUME NEW s \in Seq(Byte), NEW n \in Nat, NEW w \in Nat, w + n <= Size
  PROVE  \A t : t = s \o [k \in 1 .. n |-> w + k - 1] =>
           /\ t \in Seq(Byte) /\ Len(t) = Len(s) + n
           /\ \A k \in 1 .. Len(s) : t[k] = s[k]
           /\ \A k \in Len(s) + 1 .. Len(s) + n : t[k] = w + k - Len(s) - 1
<1> SUFFICES ASSUME NEW t, t = s \o [k \in 1 .. n |-> w + k - 1]
             PROVE  /\ t \in Seq(Byte) /\ Len(t) = Len(s) + n
                    /\ \A k \in 1 .. Len(s) : t[k] = s[k]
                    /\ \A k \in Len(s) + 1 .. Len(s) + n : t[k] = w + k - Len(s) - 1
  BY Zenon
<1> DEFINE u == [k \in 1 .. n |-> w + k - 1]
<1>1. \A k \in 1 .. n : w + k - 1 \in Byte
  BY ForkAssumption DEF Byte
<1>2. u \in Seq(Byte) /\ Len(u) = n
  BY <1>1, IsASeq
<1> HIDE DEF u
<1>3. /\ s \o u \in Seq(Byte) /\ Len(s \o u) = Len(s) + Len(u)
      /\ \A i \in 1 .. Len(s) + Len(u) :
           (s \o u)[i] = IF i <= Len(s) THEN s[i] ELSE u[i - Len(s)]
  BY <1>2, ConcatProperties, Zenon
<1>4. \A k \in 1 .. n : u[k] = w + k - 1
  BY DEF u
<1>5. t = s \o u
  BY DEF u
<1>6. Len(s) \in Nat
  BY LenProperties
<1>7. t \in Seq(Byte) /\ Len(t) = Len(s) + n
  BY <1>2, <1>3, <1>5, Zenon
<1>8. ASSUME NEW k \in 1 .. Len(s) PROVE t[k] = s[k]
  <2>1. k \in 1 .. Len(s) + Len(u) /\ k <= Len(s)
    BY <1>2, <1>6
  <2> QED BY <2>1, <1>3, <1>5
<1>9. ASSUME NEW k \in Len(s) + 1 .. Len(s) + n PROVE t[k] = w + k - Len(s) - 1
  <2>1. k \in 1 .. Len(s) + Len(u) /\ ~(k <= Len(s)) /\ k - Len(s) \in 1 .. n
    BY <1>2, <1>6
  <2>2. t[k] = u[k - Len(s)]
    BY <2>1, <1>3, <1>5, Zenon
  <2>3. u[k - Len(s)] = w + (k - Len(s)) - 1
    BY <2>1, <1>4
  <2> QED BY <2>1, <2>2, <2>3, <1>6
<1> QED BY <1>7, <1>8, <1>9

-----------------------------------------------------------------------------
(* The invariant                                                           *)

LEMMA InitInv == Init => Inv
BY ForkAssumption, EmptySeq DEF Init, Inv, TypeOK, InOrder, Interrupted, Byte, Unset

(* The bytes a read stores are those the child put in their places.        *)
LEMMA ReadOrder ==
  ASSUME Inv, NEW n \in 1 .. Size, n <= Size - racc, n <= Len(sent) - taken,
         v' = [b \in Byte |-> IF b \in racc .. racc + n - 1
                                THEN sent[taken + b - racc + 1] ELSE v[b]]
  PROVE  /\ v' \in [Byte -> Byte \cup {Unset}]
         /\ ~Interrupted => \A b \in Byte : b < racc + n => v'[b] = b
<1> USE ForkAssumption DEF Inv, TypeOK, Byte
<1>1. Len(sent) \in Nat /\ \A k \in 1 .. Len(sent) : sent[k] \in Byte
  BY ElementOfSeq, LenProperties
<1>2. ASSUME NEW b \in racc .. racc + n - 1 PROVE taken + b - racc + 1 \in 1 .. Len(sent)
  BY <1>1
<1>3. v' \in [Byte -> Byte \cup {Unset}]
  BY <1>1, <1>2
<1>4. ASSUME ~Interrupted, NEW b \in Byte, b < racc + n PROVE v'[b] = b
  <2>1. InOrder
    BY <1>4
  <2>2. CASE b < racc
    BY <2>1, <2>2 DEF InOrder
  <2>3. CASE ~(b < racc)
    <3>1. b \in racc .. racc + n - 1
      BY <1>4, <2>3
    <3>2. taken + b - racc + 1 \in 1 .. Len(sent)
      BY <3>1, <1>2
    <3>3. v'[b] = sent[taken + b - racc + 1]
      BY <3>1
    <3>4. sent[taken + b - racc + 1] = taken + b - racc
      BY <2>1, <3>2 DEF InOrder
    <3> QED BY <3>3, <3>4, <2>1 DEF InOrder
  <2> QED BY <2>2, <2>3
<1> QED BY <1>3, <1>4

LEMMA ReadInv == ASSUME Inv, Read PROVE Inv'
<1>1. PICK n \in 1 .. Size :
        /\ n <= Size - racc /\ n <= Len(sent) - taken
        /\ v' = [b \in Byte |-> IF b \in racc .. racc + n - 1
                                  THEN sent[taken + b - racc + 1] ELSE v[b]]
        /\ taken' = taken + n /\ racc' = racc + n
        /\ IF racc' < Size THEN UNCHANGED pc ELSE Return
  BY DEF Read
<1>2. /\ v' \in [Byte -> Byte \cup {Unset}]
      /\ ~Interrupted => \A b \in Byte : b < racc + n => v'[b] = b
  BY <1>1, ReadOrder
<1>3. pc = "read" /\ UNCHANGED <<child, helper, sent, wacc, signals>>
  BY DEF Read
<1>4. pc' \in {"read", "exec", "child_main", "exit"}
  BY <1>1, <1>3 DEF Return
<1>5. Len(sent) \in Nat
  BY LenProperties DEF Inv, TypeOK
<1>6. child # "fork" /\ child # "none"
  BY <1>1, <1>3, <1>5, ForkAssumption, EmptySeq DEF Inv, TypeOK
<1>7. TypeOK'
  BY <1>1, <1>2, <1>3, <1>4, <1>5, ForkAssumption DEF Inv, TypeOK
<1>8. ~Interrupted => InOrder'
  BY <1>1, <1>2, <1>3, <1>4, ForkAssumption DEF Inv, InOrder, TypeOK
<1>9. Interrupted' = Interrupted
  BY <1>3 DEF Interrupted
<1>10. (taken <= Len(sent))'
  BY <1>1, <1>3, <1>5 DEF Inv, TypeOK
<1>11. child' # "fork" /\ child' # "none" /\ pc' \notin {"pipe", "fork"}
  BY <1>3, <1>4, <1>6
<1> QED BY <1>7, <1>8, <1>9, <1>10, <1>11 DEF Inv

LEMMA WriteInv == ASSUME Inv, Write PROVE Inv'
<1> USE ForkAssumption
<1>1. PICK n \in 1 .. Size - wacc :
        /\ sent' = sent \o [k \in 1 .. n |-> wacc + k - 1]
        /\ wacc' = wacc + n
  BY DEF Write
<1>2. /\ child = "write" /\ pc = "read" /\ child' \in {"write", "exited"}
      /\ UNCHANGED <<pc, helper, taken, racc, v, signals>>
  BY DEF Write, ReaderOpen
<1>3. /\ sent \in Seq(Byte) /\ n \in Nat /\ wacc \in Nat /\ wacc + n <= Size
      /\ Len(sent) \in Nat
  BY <1>1, LenProperties DEF Inv, TypeOK
<1> DEFINE After(s, w) == \A t : t = s \o [k \in 1 .. n |-> w + k - 1] =>
           /\ t \in Seq(Byte) /\ Len(t) = Len(s) + n
           /\ \A k \in 1 .. Len(s) : t[k] = s[k]
           /\ \A k \in Len(s) + 1 .. Len(s) + n : t[k] = w + k - Len(s) - 1
<1>4. /\ sent' \in Seq(Byte) /\ Len(sent') = Len(sent) + n
      /\ \A k \in 1 .. Len(sent) : sent'[k] = sent[k]
      /\ \A k \in Len(sent) + 1 .. Len(sent) + n : sent'[k] = wacc + k - Len(sent) - 1
  <2>1. \A s \in Seq(Byte) : \A w \in Nat : w + n <= Size => After(s, w)
    BY <1>3, Written, Zenon
  <2>2. After(sent, wacc)
    <3> HIDE DEF After
    <3> QED BY <1>3, <2>1
  <2> QED BY <2>2, <1>1, Zenon
<1>5. TypeOK'
  BY <1>1, <1>2, <1>3, <1>4 DEF Inv, TypeOK
<1>6. Interrupted' = Interrupted
  BY <1>2 DEF Interrupted
<1>7. ASSUME ~Interrupted PROVE InOrder'
  <2>1. InOrder
    BY <1>7 DEF Inv
  <2>2. ASSUME NEW k \in 1 .. Len(sent') PROVE sent'[k] = k - 1
    <3>1. CASE k \in 1 .. Len(sent)
      BY <3>1, <2>1, <1>4 DEF InOrder
    <3>2. CASE k \in Len(sent) + 1 .. Len(sent) + n
      BY <3>2, <2>1, <1>3, <1>4 DEF InOrder
    <3> QED BY <3>1, <3>2, <1>3, <1>4
  <2>3. child' = "write" => wacc' < Size
    BY DEF Write
  <2> QED BY <2>1, <2>2, <2>3, <1>1, <1>2, <1>3, <1>4 DEF InOrder
<1> QED
  BY <1>1, <1>2, <1>3, <1>4, <1>5, <1>6, <1>7 DEF Inv, TypeOK

(* What the calls other than Read and Write do not touch stays in order.   *)
LEMMA OrderSame ==
  ASSUME InOrder, pc' # "reap", UNCHANGED <<sent, taken, wacc, racc, v>>,
         child' = "write" => wacc < Size,
         pc' \in {"exec", "exit", "child_main"} => child' = "none" \/ racc = Size
  PROVE  InOrder'
BY DEF InOrder

LEMMA ReapInv == ASSUME Inv, Reap PROVE Inv'
<1>1. pc' \in {"exec", "child_main", "exit"}
  BY DEF Reap, Return
<1>2. child' \in {child, "killed"} /\ child' # "fork"
  BY DEF Reap, ChildAlive
<1>3. pc = "reap" /\ UNCHANGED <<helper, sent, taken, wacc, racc, v, signals>>
  BY DEF Reap
<1>4. Interrupted' = Interrupted /\ Interrupted
  BY <1>3 DEF Interrupted, Inv, InOrder
<1> QED BY <1>1, <1>2, <1>3, <1>4 DEF Inv, TypeOK

LEMMA ReadInterruptedInv == ASSUME Inv, ReadInterrupted PROVE Inv'
<1>1. /\ racc' \in 0 .. SizeMax - 1 /\ pc = "read" /\ pc' \in {"read", "reap"}
      /\ signals > 0 /\ signals' = signals - 1
      /\ UNCHANGED <<child, helper, sent, taken, wacc, v>>
  BY LessOneType DEF ReadInterrupted, Inv, TypeOK
<1>2. Interrupted'
  BY <1>1, ForkAssumption DEF Interrupted, Inv, TypeOK
<1> QED BY <1>1, <1>2, ForkAssumption DEF Inv, TypeOK

LEMMA WriteInterruptedInv == ASSUME Inv, WriteInterrupted PROVE Inv'
<1>1. /\ wacc' \in 0 .. SizeMax - 1 /\ child = "write" /\ child' \in {"write", "exited"}
      /\ signals > 0 /\ signals' = signals - 1
      /\ UNCHANGED <<pc, helper, sent, taken, racc, v>>
  BY LessOneType DEF WriteInterrupted, Inv, TypeOK
<1>2. Interrupted'
  BY <1>1, ForkAssumption DEF Interrupted, Inv, TypeOK
<1> QED BY <1>1, <1>2, ForkAssumption DEF Inv, TypeOK

(* The steps of the three processes that move no byte.                     *)
LEMMA OtherInv ==
  ASSUME Inv,
         MakePipe \/ Fork \/ Die \/ ChildFork \/ WriteFails \/ HelperReturns \/ HelperExit
  PROVE  Inv'
<1>1. UNCHANGED <<sent, taken, wacc, racc, v, signals>>
  BY DEF MakePipe, Fork, Die, ChildFork, WriteFails, HelperReturns, HelperExit
<1>2. pc' \in {pc, "fork", "exit", "read", "dead"}
  BY DEF MakePipe, Fork, Die, ChildFork, WriteFails, HelperReturns, HelperExit
<1>3. Interrupted' = Interrupted /\ (~Interrupted => InOrder')
  <2>1. ASSUME InOrder
        PROVE  /\ child' = "write" => wacc < Size
               /\ pc' \in {"exec", "exit", "child_main"} => child' = "none" \/ racc = Size
    BY <2>1, ForkAssumption DEF Inv, InOrder, TypeOK, MakePipe, Fork, Die, ChildFork,
       WriteFails, HelperReturns, HelperExit, ChildAlive
  <2> QED BY <2>1, <1>1, <1>2, OrderSame DEF Interrupted, Inv, InOrder
<1>4. CASE MakePipe \/ Fork \/ Die
  BY <1>1, <1>3, <1>4 DEF Inv, TypeOK, MakePipe, Fork, Die
<1>5. CASE ChildFork \/ WriteFails
  BY <1>1, <1>3, <1>5 DEF Inv, TypeOK, ChildFork, WriteFails
<1>6. CASE HelperReturns \/ HelperExit
  BY <1>1, <1>3, <1>6 DEF Inv, TypeOK, HelperReturns, HelperExit, ChildAlive
<1> QED BY <1>4, <1>5, <1>6

LEMMA NextInv == ASSUME Inv, [Next]_vars PROVE Inv'
<1>1. CASE UNCHANGED vars
  BY <1>1 DEF vars, Inv, TypeOK, InOrder, Interrupted
<1>2. CASE Next
  BY <1>2, ReadInv, WriteInv, ReapInv, ReadInterruptedInv, WriteInterruptedInv, OtherInv
     DEF Next, Parent, Child, Helper, Signal
<1> QED BY <1>1, <1>2

(* Until a call is interrupted, the pipe holds the child's bytes in their  *)
(* places and both loops count them (fork.c:24-45), for every size of v.   *)
THEOREM Invariance == Spec => []Inv
BY InitInv, NextInv, PTL DEF Spec

-----------------------------------------------------------------------------
(* The refinement                                                          *)

born == helper # "none"

(* A step that changes neither helper, answer nor signals is a stutter.    *)
LEMMA Silent ==
  ASSUME Answer' = Answer, born' = born, Interrupted' = Interrupted
  PROVE  [Promise!Next]_(Promise!vars)
BY DEF Promise!vars, born

(* start-vmm answers the truth, or is excused.                             *)
LEMMA Telling ==
  ASSUME Answer = "none", helper' = helper, signals' = signals,
         \/ Answer' = IF helper # "none" THEN "pid" ELSE "error"
         \/ Interrupted /\ Answer' \in {"pid", "error", "zero"}
  PROVE  [Promise!Next]_(Promise!vars)
BY DEF Promise!Next, Promise!Tell, Interrupted

LEMMA ReadTells == ASSUME Inv, Read PROVE [Promise!Next]_(Promise!vars)
<1>1. PICK n \in 1 .. Size :
        /\ n <= Size - racc /\ n <= Len(sent) - taken
        /\ v' = [b \in Byte |-> IF b \in racc .. racc + n - 1
                                  THEN sent[taken + b - racc + 1] ELSE v[b]]
        /\ racc' = racc + n
        /\ IF racc' < Size THEN UNCHANGED pc ELSE Return
  BY DEF Read
<1>2. pc = "read" /\ UNCHANGED <<helper, signals>>
  BY DEF Read
<1>3. CASE UNCHANGED pc
  BY <1>2, <1>3, Silent DEF Answer, born, Interrupted
<1>4. CASE Return /\ racc' >= Size
  <2>1. CASE Interrupted
    <3>1. pc' \in {"exec", "child_main", "exit"}
      BY <1>4 DEF Return
    <3> QED BY <2>1, <3>1, <1>2, Telling DEF Answer
  <2>2. CASE ~Interrupted
    <3>1. \A b \in Byte : b < racc + n => v'[b] = b
      BY <1>1, <2>2, ReadOrder
    <3>2. \A b \in Byte : b < racc + n
      BY <1>1, <1>4, ForkAssumption DEF Byte, Inv, TypeOK
    <3>3. Whole
      BY <3>1, <3>2, <1>1 DEF Whole
    <3>4. pc' = IF helper # "none" THEN "exec" ELSE "exit"
      BY <3>3, <1>4 DEF Return
    <3> QED BY <3>4, <1>2, Telling DEF Answer
  <2> QED BY <2>1, <2>2
<1> QED BY <1>1, <1>3, <1>4, ForkAssumption DEF Inv, TypeOK

(* A signal may come while there is no answer, or only once more.          *)
LEMMA SignalExcuses ==
  ASSUME Inv, ReadInterrupted \/ WriteInterrupted PROVE [Promise!Next]_(Promise!vars)
<1>1. helper' = helper /\ Interrupted'
  BY ForkAssumption DEF ReadInterrupted, WriteInterrupted, Inv, TypeOK, Interrupted
<1>2. Answer' = Answer
  BY DEF ReadInterrupted, WriteInterrupted, Answer
<1>3. CASE Interrupted
  BY <1>1, <1>2, <1>3, Silent DEF born
<1>4. CASE ~Interrupted
  <2>1. Answer = "none"
    BY <1>4, ForkAssumption
       DEF ReadInterrupted, WriteInterrupted, Answer, Inv, InOrder, TypeOK
  <2> QED BY <1>1, <1>2, <2>1 DEF Promise!Next, Promise!Excuse
<1> QED BY <1>3, <1>4

LEMMA NextPromise == ASSUME Inv, [Next]_vars PROVE [Promise!Next]_(Promise!vars)
<1>1. CASE UNCHANGED vars
  BY <1>1, Silent DEF vars, Answer, born, Interrupted
<1>2. CASE MakePipe \/ Fork
  <2>1. pc' = "exit" \/ Answer' = Answer
    BY <1>2 DEF MakePipe, Fork, Answer
  <2>2. Answer = "none" /\ helper = "none" /\ helper' = helper /\ signals' = signals
    BY <1>2 DEF MakePipe, Fork, Answer, Inv
  <2>3. CASE pc' = "exit"
    BY <2>2, <2>3, Telling DEF Answer
  <2> QED BY <2>1, <2>2, <2>3, Silent DEF born, Interrupted
<1>3. CASE Reap
  <2>1. Interrupted /\ Answer = "none"
    BY <1>3 DEF Reap, Inv, InOrder, Answer
  <2>2. Answer' \in {"pid", "error", "zero"} /\ UNCHANGED <<helper, signals>>
    BY <1>3 DEF Reap, Return, Answer
  <2> QED BY <2>1, <2>2, Telling
<1>4. CASE Die \/ Write \/ WriteFails \/ HelperReturns \/ HelperExit
  BY <1>4, Silent DEF Die, Write, WriteFails, HelperReturns, HelperExit, Answer, born,
     Interrupted
<1>5. CASE ChildFork
  <2>1. Answer = "none" /\ Answer' = Answer /\ Interrupted' = Interrupted /\ helper = "none"
    BY <1>5 DEF ChildFork, Inv, Answer, Interrupted
  <2>2. helper' = "born" \/ helper' = helper
    BY <1>5 DEF ChildFork
  <2> QED BY <2>1, <2>2, Silent, Zenon DEF born, Promise!Next, Promise!Bear
<1> QED
  BY <1>1, <1>2, <1>3, <1>4, <1>5, ReadTells, SignalExcuses
     DEF Next, Parent, Child, Helper, Signal

LEMMA InitPromise == Init => Promise!Init
<1> SUFFICES ASSUME Init PROVE Promise!Init
  OBVIOUS
<1>1. Answer = "none" /\ helper = "none"
  BY DEF Init, Answer
<1>2. Interrupted = FALSE
  BY ForkAssumption DEF Init, Interrupted
<1> QED BY <1>1, <1>2 DEF Promise!Init

(* double_fork's answer is the truth about the helper (fork.c:10,24-53,    *)
(* lib.rs:188-201) unless a signal interrupts a read or a write.           *)
THEOREM TruthTold == Spec => PromiseSpec
<1>1. Inv /\ [Next]_vars => [Promise!Next]_(Promise!vars)
  BY NextPromise
<1> QED BY <1>1, InitPromise, Invariance, PTL DEF Spec, PromiseSpec, Promise!Spec

-----------------------------------------------------------------------------
(* When the loop meets end of file                                         *)

(* While start-vmm reads, bytes are missing, and a child that has left its *)
(* loop by itself has written them all.                                    *)
Fed ==
  pc = "read" /\ ~Interrupted =>
    racc < Size /\ (child = "exited" => wacc = Size)

LEMMA FedKept == ASSUME Inv, Fed, [Next]_vars PROVE Fed'
<1> USE ForkAssumption
<1> SUFFICES ASSUME (pc = "read" /\ ~Interrupted)'
             PROVE  racc' < Size /\ (child' = "exited" => wacc' = Size)
  BY DEF Fed
<1>1. signals \in 0 .. MaxSignals
  BY DEF Inv, TypeOK
<1>2. CASE UNCHANGED vars
  BY <1>2 DEF vars, Fed, Interrupted
<1>3. CASE MakePipe \/ Reap \/ Die
  BY <1>3 DEF MakePipe, Reap, Die, Return
<1>4. CASE Fork
  <2>1. ~Interrupted /\ UNCHANGED racc /\ child = "none" /\ child' = "fork" /\ sent = <<>>
    BY <1>4 DEF Fork, Interrupted, Inv
  <2>2. racc = taken /\ taken <= Len(sent) /\ racc \in Nat /\ taken \in Nat
    BY <2>1 DEF Inv, InOrder, TypeOK
  <2> QED
    BY <2>1, <2>2
<1>5. CASE Read
  <2>1. pc = "read" /\ ~Interrupted /\ UNCHANGED <<child, wacc>>
    BY <1>5 DEF Read, Interrupted
  <2>2. racc' < Size
    BY <1>5 DEF Read, Return
  <2> QED
    BY <2>1, <2>2 DEF Fed
<1>6. CASE ReadInterrupted \/ WriteInterrupted
  BY <1>1, <1>6 DEF ReadInterrupted, WriteInterrupted, Interrupted
<1>7. CASE Write
  <2>1. pc = "read" /\ ~Interrupted /\ UNCHANGED racc
    BY <1>7 DEF Write, Interrupted
  <2>2. wacc \in Nat /\ wacc' <= Size /\ (child' = "exited" => ~(wacc' < Size)) /\ wacc' \in Int
    BY <1>7 DEF Write, Inv, TypeOK
  <2> QED
    BY <2>1, <2>2 DEF Fed
<1>8. CASE ChildFork \/ WriteFails \/ HelperReturns \/ HelperExit
  BY <1>8
  DEF ChildFork, WriteFails, HelperReturns, HelperExit, ChildAlive, ReaderOpen, Interrupted, Fed
<1> QED
  BY <1>2, <1>3, <1>4, <1>5, <1>6, <1>7, <1>8 DEF Next, Parent, Child, Helper, Signal

(* What ReturnsUnlessCut rests on beside fairness: the read loop of        *)
(* fork.c:45 meets end of file, where it would go round for ever, only if  *)
(* the child was killed before it had written all of v or a call was       *)
(* interrupted, for every size of v and every split of its bytes.          *)
THEOREM EndOfFileOnlyWhenCut ==
  Spec => [](pc = "read" /\ ~WriterOpen /\ taken = Len(sent) =>
               child = "killed" \/ Interrupted)
<1>1. Init => Fed
  BY DEF Init, Fed
<1>2. Inv /\ Fed => (pc = "read" /\ ~WriterOpen /\ taken = Len(sent) =>
                       child = "killed" \/ Interrupted)
  <2> SUFFICES ASSUME Inv, Fed, pc = "read", ~WriterOpen, taken = Len(sent),
                      child # "killed", ~Interrupted
               PROVE  FALSE
    BY Zenon
  <2>1. child = "exited"
    BY DEF Inv, TypeOK, WriterOpen, ChildAlive
  <2>2. racc < Size /\ wacc = Size /\ racc = taken /\ Len(sent) = wacc
    BY <2>1 DEF Fed, Inv, InOrder
  <2> QED
    BY <2>2, ForkAssumption
<1>3. Inv /\ Fed /\ [Next]_vars => Fed'
  BY FedKept
<1> QED
  BY <1>1, <1>2, <1>3, Invariance, PTL DEF Spec

=============================================================================
