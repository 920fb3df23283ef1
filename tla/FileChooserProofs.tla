--------------------------- MODULE FileChooserProofs ---------------------------
(***************************************************************************)
(* Proofs about FileChooser, for any number of requests and files and for  *)
(* any faults.                                                             *)
(***************************************************************************)
EXTENDS FileChooser, SequenceTheorems, TLAPS

-----------------------------------------------------------------------------
(* Lists and members                                                       *)

(* What a dialog returns is a sequence of files and other members.         *)
LEMMA ListsAreSeqs == Lists \subseteq Seq(Member)
<1> SUFFICES ASSUME NEW n \in 0 .. MaxChosen, NEW s \in [1 .. n -> Member]
             PROVE  s \in Seq(Member)
  BY DEF Lists
<1>1. n \in Nat
  BY ChooserAssumption
<1>2. Seq(Member) = UNION {[1 .. m -> Member] : m \in Nat}
  BY SeqDef, Zenon
<1> QED
  BY <1>1, <1>2, Zenon

(* The current member of an unfinished list is one of the chosen ones.     *)
LEMMA CurrentChosen ==
  ASSUME NEW r \in Request, TypeOK, Shared(r), ~Done(r)
  PROVE  /\ Len(uris[r]) + 1 \in 1 .. Len(chosen[r])
         /\ Current(r) \in Range(chosen[r]) /\ Current(r) \in Member
<1>1. chosen[r] \in Seq(Member) /\ uris[r] \in Seq(File)
  BY Zenon DEF TypeOK
<1>2. Len(uris[r]) + 1 \in 1 .. Len(chosen[r])
  BY <1>1 DEF Shared, Done
<1> QED
  BY <1>1, <1>2 DEF Current, Range

-----------------------------------------------------------------------------
(* What a step leaves alone                                                *)

Grow == \A f \in File : rights[f] \subseteq rights'[f]

(* A document that is there serves all the requests that it was made for.  *)
LEMMA SharedFrame ==
  ASSUME NEW s \in Request, TypeOK, Shared(s), Grow,
         uris'[s] = uris[s], chosen'[s] = chosen[s], consent'[s] = consent[s]
  PROVE  Shared(s)'
<1>1. \A k \in 1 .. Len(uris[s]) : uris[s][k] \in File
  BY DEF TypeOK
<1> QED
  BY <1>1, Zenon DEF Shared, Grow

Steps(s) ==
  /\ stage'[s] = stage[s] /\ chosen'[s] = chosen[s] /\ uris'[s] = uris[s]
  /\ writable'[s] = writable[s] /\ consent'[s] = consent[s] /\ reply'[s] = reply[s]

LEMMA AgreesFrame ==
  ASSUME NEW s \in Request, TaskAgrees(s), Steps(s)
  PROVE  TaskAgrees(s)'
BY Zenon DEF TaskAgrees, Steps, Done, Current

(* The consent that a right rests on is not withdrawn: a dialog fills in   *)
(* only what was empty.                                                    *)
LEMMA UserFrame ==
  ASSUME RightsFromUser, rights' = rights,
         \A s \in Request : \/ chosen[s] = <<>>
                            \/ chosen'[s] = chosen[s] /\ consent'[s] = consent[s]
  PROVE  RightsFromUser'
<1>1. ASSUME NEW s \in Request, NEW f \in Range(chosen[s])
      PROVE  chosen'[s] = chosen[s] /\ consent'[s] = consent[s]
  BY <1>1 DEF Range
<1> QED
  BY <1>1, Zenon DEF RightsFromUser

(* Requests other than r are where they were.                              *)
LEMMA Combine ==
  ASSUME NEW r \in Request, Inv, TypeOK', RightsFromUser', Grow,
         \A s \in Request \ {r} : Steps(s), Shared(r)', TaskAgrees(r)'
  PROVE  Inv'
<1>1. \A s \in Request \ {r} : Shared(s)'
  BY SharedFrame, Zenon DEF Inv, Steps
<1>2. \A s \in Request \ {r} : TaskAgrees(s)'
  BY AgreesFrame, Zenon DEF Inv
<1> QED
  BY <1>1, <1>2, Zenon DEF Inv

(* A step that moves r on, makes no URI and no document.                   *)
LEMMA Moves ==
  ASSUME NEW r \in Request, Inv, TypeOK', UNCHANGED <<chosen, uris, consent, writable, rights>>,
         \A s \in Request \ {r} : stage'[s] = stage[s] /\ reply'[s] = reply[s], TaskAgrees(r)'
  PROVE  Inv'
<1>1. RightsFromUser' /\ Grow
  BY UserFrame, Zenon DEF Inv, Grow
<1>2. Shared(r)'
  BY <1>1, SharedFrame, Zenon DEF Inv
<1>3. \A s \in Request \ {r} : Steps(s)
  BY Zenon DEF Steps
<1> QED
  BY <1>1, <1>2, <1>3, Combine, Zenon

-----------------------------------------------------------------------------
(* Inv is inductive                                                        *)

LEMMA InitInv == Init => Inv
<1> SUFFICES ASSUME Init PROVE Inv
  BY Zenon
<1>1. <<>> \in Seq(File) /\ <<>> \in Seq(Member) /\ Len(<<>>) = 0
  BY EmptySeq, Zenon
<1>2. TypeOK
  BY <1>1, Zenon DEF Init, TypeOK
<1>3. RightsFromUser
  BY Zenon DEF Init, RightsFromUser
<1>4. \A r \in Request : Shared(r)
  BY DEF Init, Shared
<1>5. \A r \in Request : TaskAgrees(r)
  BY Zenon DEF Init, TaskAgrees
<1> QED
  BY <1>2, <1>3, <1>4, <1>5, Zenon DEF Inv

(* What Goto and Reply do to r, and to the others.                         *)
LEMMA GotoMoves ==
  ASSUME NEW r \in Request, NEW s, TypeOK, Goto(r, s)
  PROVE  stage'[r] = s /\ \A q \in Request \ {r} : stage'[q] = stage[q]
BY Zenon DEF TypeOK, Goto

LEMMA ReplyMoves ==
  ASSUME NEW r \in Request, NEW x, TypeOK, Reply(r, x)
  PROVE  /\ stage'[r] = "replied" /\ reply'[r] = x
         /\ \A q \in Request \ {r} : stage'[q] = stage[q] /\ reply'[q] = reply[q]
BY Zenon DEF TypeOK, Reply, Goto

(* A request that has not been answered and is answered with anything but  *)
(* a success.                                                              *)
LEMMA ReplyInv ==
  ASSUME NEW r \in Request, Inv, NEW x \in {"CANCELLED", "OTHER"}, Reply(r, x),
         UNCHANGED <<kind, chosen, uris, consent, writable, other, rights>>
  PROVE  Inv'
<1>1. TypeOK /\ TaskAgrees(r)
  BY Zenon DEF Inv
<1>2. /\ stage'[r] = "replied" /\ reply'[r] = x
      /\ \A q \in Request \ {r} : stage'[q] = stage[q] /\ reply'[q] = reply[q]
  BY <1>1, ReplyMoves, Zenon
<1>3. TypeOK'
  BY <1>1, Zenon DEF TypeOK, Reply, Goto
<1>4. TaskAgrees(r)'
  BY <1>1, <1>2, Zenon DEF TaskAgrees
<1> QED
  BY <1>2, <1>3, <1>4, Moves, Zenon

LEMMA CallInv ==
  ASSUME NEW r \in Request, Inv, Call(r)
  PROVE  Inv'
<1>1. TypeOK /\ TaskAgrees(r)
  BY Zenon DEF Inv
<1>2. stage'[r] = "dialog" /\ \A q \in Request \ {r} : stage'[q] = stage[q]
  BY <1>1, GotoMoves, Zenon DEF Call
<1>3. TypeOK'
  BY <1>1, Zenon DEF TypeOK, Call, Goto
<1>4. TaskAgrees(r)'
  BY <1>1, <1>2, Zenon DEF TaskAgrees, Call
<1> QED
  BY <1>2, <1>3, <1>4, Moves, Zenon DEF Call

LEMMA DialogFailsInv ==
  ASSUME NEW r \in Request, Inv, DialogFails(r)
  PROVE  Inv'
BY ReplyInv, Zenon DEF DialogFails

LEMMA DialogSucceedsInv ==
  ASSUME NEW r \in Request, NEW list \in Lists, NEW field \in {"true", "false", "bad"},
         Inv, DialogSucceeds(r, list, field)
  PROVE  Inv'
<1>1. CASE kind[r] = "open" /\ field = "bad"
  BY <1>1, ReplyInv, Zenon DEF DialogSucceeds
<1>2. CASE ~(kind[r] = "open" /\ field = "bad")
  <2> DEFINE c == IF kind[r] = "save" \/ field = "true" THEN "write" ELSE "read"
  <2>1. TypeOK /\ TaskAgrees(r) /\ Shared(r) /\ RightsFromUser
    BY Zenon DEF Inv
  <2>2. /\ chosen' = [chosen EXCEPT ![r] = list]
        /\ writable' = [writable EXCEPT ![r] = MayWrite(r, field)]
        /\ consent' = [consent EXCEPT ![r] = c]
        /\ Goto(r, "share") /\ UNCHANGED <<reply, kind, uris, other, rights>>
    BY <1>2, Zenon DEF DialogSucceeds
  <2>3. list \in Seq(Member) /\ c \in {"none", "read", "write"}
        /\ MayWrite(r, field) \in BOOLEAN /\ (MayWrite(r, field) <=> c = "write")
    BY ListsAreSeqs, Zenon DEF MayWrite
  <2>4. TypeOK'
    BY <2>1, <2>2, <2>3, Zenon DEF TypeOK, Goto
  <2>5. /\ chosen'[r] = list /\ writable'[r] = MayWrite(r, field) /\ consent'[r] = c
        /\ stage'[r] = "share"
        /\ \A q \in Request \ {r} :
             /\ stage'[q] = stage[q] /\ chosen'[q] = chosen[q]
             /\ writable'[q] = writable[q] /\ consent'[q] = consent[q]
    BY <2>1, <2>2, Zenon DEF TypeOK, Goto
  <2>6. chosen[r] = <<>> /\ uris[r] = <<>> /\ reply[r] # "SUCCESS"
    BY <2>1, Zenon DEF TaskAgrees, DialogSucceeds
  <2>7. RightsFromUser' /\ Grow
    BY <2>1, <2>2, <2>5, <2>6, UserFrame, Zenon DEF Grow
  <2>8. Shared(r)'
    <3>1. Len(list) \in Nat /\ uris'[r] = <<>> /\ Len(<<>>) = 0
      BY <2>2, <2>3, <2>6
    <3> QED
      BY <2>5, <3>1 DEF Shared
  <2>9. TaskAgrees(r)'
    BY <2>2, <2>3, <2>5, <2>6, Zenon DEF TaskAgrees
  <2>10. \A q \in Request \ {r} : Steps(q)
    BY <2>2, <2>5, Zenon DEF Steps
  <2> QED
    BY <2>4, <2>7, <2>8, <2>9, <2>10, Combine, Zenon
<1> QED
  BY <1>1, <1>2, Zenon

(* HostDies, FileChanges, a panic and a step that changes nothing: no task *)
(* moves but to its end.                                                   *)
LEMMA LostInv ==
  ASSUME Inv, TypeOK', UNCHANGED <<consent, chosen, uris, writable, reply, rights>>,
         \A r \in Request : \/ stage'[r] = stage[r]
                            \/ stage[r] \in Waiting /\ stage'[r] = "lost"
                            \/ /\ stage[r] \in Waiting /\ stage'[r] = "panicked"
                               /\ ~Done(r) /\ Current(r) = NoName
  PROVE  Inv'
<1>1. RightsFromUser' /\ Grow
  BY UserFrame, Zenon DEF Inv, Grow
<1>2. ASSUME NEW r \in Request PROVE Shared(r)' /\ TaskAgrees(r)'
  <2>1. TypeOK /\ Shared(r) /\ TaskAgrees(r)
    BY Zenon DEF Inv
  <2>2. Shared(r)'
    BY <1>1, <2>1, SharedFrame, Zenon
  <2>3. TaskAgrees(r)'
    BY <2>1, Zenon DEF TaskAgrees, Done, Current, Waiting
  <2> QED
    BY <2>2, <2>3, Zenon
<1> QED
  BY <1>1, <1>2, Zenon DEF Inv

(* What a panic does to the task and to the others.                        *)
LEMMA PanicMoves ==
  ASSUME NEW r \in Request, TypeOK, Panic(r)
  PROVE  /\ stage'[r] = "panicked"
         /\ \A q \in Request \ {r} :
              stage'[q] = stage[q] \/ (stage[q] \in Waiting /\ stage'[q] = "lost")
         /\ stage' \in [Request -> {"idle", "dialog", "share", "add", "replied", "lost", "panicked"}]
<1>1. CASE Goto(r, "panicked")
  BY <1>1, Zenon DEF TypeOK, Goto
<1>2. CASE stage' = [q \in Request |-> IF q = r THEN "panicked"
                       ELSE IF stage[q] \in Waiting THEN "lost" ELSE stage[q]]
  BY <1>2 DEF TypeOK
<1> QED
  BY <1>1, <1>2, Zenon DEF Panic

LEMMA PanicInv ==
  ASSUME NEW r \in Request, Inv, stage[r] = "share", ~Done(r), Current(r) = NoName, Panic(r),
         UNCHANGED <<kind, chosen, uris, consent, writable, other, rights, reply>>
  PROVE  Inv'
<1>1. TypeOK
  BY Zenon DEF Inv
<1>2. TypeOK'
  BY <1>1, PanicMoves, Zenon DEF TypeOK
<1> QED
  BY <1>1, <1>2, PanicMoves, LostInv, Zenon DEF Waiting

LEMMA ShareInv ==
  ASSUME NEW r \in Request, Inv, share_file(r)
  PROVE  Inv'
<1>1. CASE Reply(r, "OTHER")
  BY <1>1, ReplyInv, Zenon DEF share_file
<1>2. CASE Current(r) \in File /\ Goto(r, "add") /\ UNCHANGED reply
  <2>1. TypeOK /\ TaskAgrees(r) /\ Shared(r) /\ ~Done(r)
    BY Zenon DEF Inv, share_file
  <2>2. stage'[r] = "add" /\ \A q \in Request \ {r} : stage'[q] = stage[q]
    BY <1>2, <2>1, GotoMoves, Zenon
  <2>3. TypeOK'
    BY <1>2, <2>1, Zenon DEF TypeOK, share_file, Goto
  <2>5. TaskAgrees(r)'
    BY <1>2, <2>1, <2>2, Zenon DEF TaskAgrees, share_file, Done, Current
  <2> QED
    BY <1>2, <2>2, <2>3, <2>5, Moves, Zenon DEF share_file
<1>3. CASE Current(r) = NoName /\ Panic(r) /\ UNCHANGED reply
  BY <1>3, PanicInv, Zenon DEF share_file
<1> QED
  BY <1>1, <1>2, <1>3, Zenon DEF share_file

(* AddNamedFull: the member just added is the next of the list, its        *)
(* document has the rights of this request, and others keep theirs.        *)
LEMMA AddInv ==
  ASSUME NEW r \in Request, Inv, add_named_full(r)
  PROVE  Inv'
<1>1. CASE Reply(r, "OTHER") /\ UNCHANGED <<rights, uris>>
  BY <1>1, ReplyInv, Zenon DEF add_named_full
<1>2. CASE /\ rights' = [rights EXCEPT ![Current(r)] = @ \cup Perms(r)]
           /\ uris' = [uris EXCEPT ![r] = Append(@, Current(r))]
           /\ Goto(r, "share") /\ UNCHANGED reply
  <2> DEFINE f == Current(r)
             u == Append(uris[r], f)
  <2>1. /\ TypeOK /\ TaskAgrees(r) /\ Shared(r) /\ RightsFromUser /\ ~Done(r) /\ f \in File
        /\ UNCHANGED <<kind, consent, chosen, writable, other>>
    BY Zenon DEF Inv, add_named_full, TaskAgrees
  <2>2. uris[r] \in Seq(File) /\ chosen[r] \in Seq(Member)
    BY <2>1, Zenon DEF TypeOK
  <2>3. /\ u \in Seq(File) /\ Len(u) = Len(uris[r]) + 1 /\ u[Len(uris[r]) + 1] = f
        /\ \A k \in 1 .. Len(uris[r]) : u[k] = uris[r][k]
    BY <2>1, <2>2, AppendProperties
  <2>4. /\ Perms(r) \subseteq {"read", "write", "grant-permissions"} /\ "read" \in Perms(r)
        /\ "write" \in Perms(r) <=> consent[r] = "write"
    BY <2>1, Zenon DEF Perms, TaskAgrees
  <2>5. /\ rights'[f] = rights[f] \cup Perms(r)
        /\ \A g \in File : g # f => rights'[g] = rights[g]
        /\ uris'[r] = u /\ \A q \in Request \ {r} : uris'[q] = uris[q]
    BY <1>2, <2>1, Zenon DEF TypeOK
  <2>6. stage'[r] = "share" /\ \A q \in Request \ {r} : stage'[q] = stage[q]
    BY <1>2, <2>1, GotoMoves, Zenon
  <2> HIDE DEF f, u
  <2>7. TypeOK'
    <3>1. rights' \in [File -> SUBSET {"read", "write", "grant-permissions"}]
      BY <1>2, <2>1, <2>4, Zenon DEF TypeOK, f
    <3>2. uris' \in [Request -> Seq(File)]
      BY <1>2, <2>1, <2>3, Zenon DEF TypeOK, u, f
    <3> QED
      BY <1>2, <2>1, <3>1, <3>2, Zenon DEF TypeOK, Goto
  <2>8. Grow
    BY <2>5, Zenon DEF Grow
  <2>9. RightsFromUser'
    <3> SUFFICES ASSUME NEW g \in File
                 PROVE  /\ rights'[g] # {} => \E s \in Request : g \in Range(chosen'[s])
                        /\ "write" \in rights'[g] =>
                             \E s \in Request : g \in Range(chosen'[s]) /\ consent'[s] = "write"
      BY Zenon DEF RightsFromUser
    <3>1. CASE g = f
      <4>1. f \in Range(chosen[r])
        BY <2>1, CurrentChosen, Zenon DEF f
      <4>2. "write" \in rights'[g] => "write" \in rights[g] \/ consent[r] = "write"
        BY <2>4, <2>5, <3>1
      <4> QED
        BY <2>1, <3>1, <4>1, <4>2, Zenon DEF RightsFromUser
    <3>2. CASE g # f
      BY <2>1, <2>5, <3>2, Zenon DEF RightsFromUser
    <3> QED
      BY <3>1, <3>2, Zenon
  <2>10. Shared(r)'
    <3>1. Len(uris[r]) \in Nat /\ Len(chosen[r]) \in Nat /\ Len(uris[r]) + 1 <= Len(chosen[r])
      BY <2>1, <2>2, CurrentChosen
    <3>2. ASSUME NEW k \in 1 .. Len(uris[r]) + 1
          PROVE  /\ u[k] = chosen[r][k] /\ "read" \in rights'[u[k]]
                 /\ consent[r] = "write" => "write" \in rights'[u[k]]
      <4>1. CASE k = Len(uris[r]) + 1
        <5>1. u[k] = f /\ f = chosen[r][k]
          BY <2>3, <4>1 DEF f, Current
        <5> QED
          BY <2>4, <2>5, <5>1
      <4>2. CASE k \in 1 .. Len(uris[r])
        <5>1. u[k] = uris[r][k] /\ uris[r][k] \in File
          BY <2>2, <2>3, <4>2, ElementOfSeq
        <5>2. /\ uris[r][k] = chosen[r][k] /\ "read" \in rights[uris[r][k]]
              /\ consent[r] = "write" => "write" \in rights[uris[r][k]]
          BY <2>1, <4>2, Zenon DEF Shared
        <5> QED
          BY <2>8, <5>1, <5>2, Zenon DEF Grow
      <4> QED
        BY <3>1, <4>1, <4>2
    <3> QED
      BY <2>1, <2>3, <2>5, <3>1, <3>2, Zenon DEF Shared
  <2>11. TaskAgrees(r)'
    BY <1>2, <2>1, <2>6, Zenon DEF TaskAgrees, add_named_full
  <2>12. \A q \in Request \ {r} : Steps(q)
    BY <1>2, <2>1, <2>5, <2>6, Zenon DEF Steps
  <2> QED
    BY <2>7, <2>8, <2>9, <2>10, <2>11, <2>12, Combine, Zenon
<1> QED
  BY <1>1, <1>2, Zenon DEF add_named_full

LEMMA SucceedInv ==
  ASSUME NEW r \in Request, Inv, Succeed(r)
  PROVE  Inv'
<1>1. TypeOK /\ TaskAgrees(r)
  BY Zenon DEF Inv
<1>2. /\ stage'[r] = "replied" /\ reply'[r] = "SUCCESS"
      /\ \A q \in Request \ {r} : stage'[q] = stage[q] /\ reply'[q] = reply[q]
  BY <1>1, ReplyMoves, Zenon DEF Succeed
<1>3. TypeOK'
  BY <1>1, Zenon DEF TypeOK, Succeed, Reply, Goto
<1>4. TaskAgrees(r)'
  BY <1>1, <1>2, Zenon DEF TaskAgrees, Succeed, Done
<1> QED
  BY <1>2, <1>3, <1>4, Moves, Zenon DEF Succeed

LEMMA NextInv == Inv /\ [Next]_vars => Inv'
<1> SUFFICES ASSUME Inv, [Next]_vars PROVE Inv'
  BY Zenon
<1>1. CASE HostDies
  <2>1. TypeOK'
    BY <1>1, Zenon DEF Inv, TypeOK, HostDies
  <2> QED
    BY <1>1, <2>1, LostInv, Zenon DEF HostDies
<1>2. ASSUME NEW f \in File, FileChanges(f) PROVE Inv'
  <2>1. TypeOK'
    BY <1>2, Zenon DEF Inv, TypeOK, FileChanges, request
  <2> QED
    BY <1>2, <2>1, LostInv, Zenon DEF FileChanges, request
<1>3. CASE UNCHANGED vars
  <2>1. TypeOK'
    BY <1>3, Zenon DEF Inv, TypeOK, vars, request
  <2> QED
    BY <1>3, <2>1, LostInv, Zenon DEF vars, request
<1>4. ASSUME NEW r \in Request, Call(r) \/ DialogFails(r) \/ TaskStep(r) PROVE Inv'
  BY <1>4, CallInv, DialogFailsInv, ShareInv, AddInv, SucceedInv, Zenon
     DEF TaskStep, transform_uris
<1> QED
  BY <1>1, <1>2, <1>3, <1>4, DialogSucceedsInv, Zenon DEF Next

-----------------------------------------------------------------------------

(* Inv holds in every reachable state: what transform_uris has done of a   *)
(* list agrees with the list, the consent and the documents.               *)
THEOREM Invariance == Spec => []Inv
BY InitInv, NextInv, PTL DEF Spec

(* A success of open_file or save_file is usable: the guest has exactly    *)
(* the files that were chosen, each with a document of the right rights.   *)
THEOREM SuccessTellsTruth == Spec => []SuccessIsUsable
<1>1. Inv => SuccessIsUsable
  <2> SUFFICES ASSUME Inv, NEW r \in Request, reply[r] = "SUCCESS"
               PROVE  /\ uris[r] = chosen[r]
                      /\ \A f \in Range(uris[r]) :
                           /\ "read" \in rights[f]
                           /\ consent[r] = "write" => "write" \in rights[f]
    BY Zenon DEF SuccessIsUsable
  <2>1. Shared(r) /\ Done(r) /\ TypeOK
    BY Zenon DEF Inv, TaskAgrees
  <2>2. uris[r] \in Seq(File) /\ chosen[r] \in Seq(Member)
    BY <2>1, Zenon DEF TypeOK
  <2>3. uris[r] \in Seq(Member)
    <3>1. File \subseteq Member
      BY Zenon DEF Member
    <3> QED
      BY <2>2, <3>1, SeqMonotonic, Zenon
  <2>4. uris[r] = chosen[r]
    BY <2>1, <2>2, <2>3, SeqEqual, Zenon DEF Shared, Done
  <2>5. \A f \in Range(uris[r]) : \E k \in 1 .. Len(uris[r]) : f = uris[r][k]
    BY <2>2 DEF Range
  <2> QED
    BY <2>1, <2>4, <2>5, Zenon DEF Shared
<1> QED
  BY <1>1, Invariance, PTL

(* No document and no right to write without the user's choice, however    *)
(* the requests of a VM interleave, fail or are lost (documents.rs).       *)
THEOREM RightsAreGranted == Spec => []RightsFromUser
<1>1. Inv => RightsFromUser
  BY Zenon DEF Inv
<1> QED
  BY <1>1, Invariance, PTL

-----------------------------------------------------------------------------
(* The list gets shorter                                                   *)

(* Steps that the task of r has yet to make, at most.                      *)
Left(r) == 2 * (Len(chosen[r]) - Len(uris[r])) + (IF stage[r] = "share" THEN 1 ELSE 0)

Sharing(r) == stage[r] \in {"share", "add"}

(* The step ends the task, well or not, or leaves it less to do.           *)
Progresses(r) ==
  Sharing(r) => \/ stage'[r] \in {"replied", "lost", "panicked"}
                \/ Sharing(r)' /\ Left(r)' \in Nat /\ Left(r)' < Left(r)

(* The step does so, or leaves the task where it is.                       *)
Advances(r) ==
  \/ Progresses(r)
  \/ Sharing(r)' /\ Left(r)' = Left(r) /\ UNCHANGED <<stage[r], chosen[r], uris[r]>>

LEMMA StandsStill ==
  ASSUME NEW r \in Request, stage'[r] = stage[r], chosen'[r] = chosen[r], uris'[r] = uris[r]
  PROVE  Advances(r)
BY Zenon DEF Advances, Progresses, Sharing, Left

(* From "share" to "add", and from "add" to the next "share".             *)
LEMMA LessLeft ==
  \A c, u \in Nat : u <= c =>
    /\ 2 * (c - u) + 0 \in Nat /\ 2 * (c - u) + 0 < 2 * (c - u) + 1
    /\ u # c => 2 * (c - (u + 1)) + 1 \in Nat /\ 2 * (c - (u + 1)) + 1 < 2 * (c - u) + 0
OBVIOUS

LEMMA TaskAdvances ==
  ASSUME NEW r \in Request, Inv, TaskStep(r)
  PROVE  Progresses(r) /\ \A s \in Request \ {r} : Advances(s)
<1>1. TypeOK /\ Shared(r) /\ TaskAgrees(r)
  BY Zenon DEF Inv
<1>2. uris[r] \in Seq(File) /\ Len(uris[r]) \in Nat /\ Len(chosen[r]) \in Nat
  <2>1. uris[r] \in Seq(File) /\ chosen[r] \in Seq(Member)
    BY <1>1, Zenon DEF TypeOK
  <2> QED
    BY <2>1
<1>3. CASE \E x : Reply(r, x) /\ UNCHANGED <<uris, chosen>>
  <2>1. /\ stage'[r] = "replied" /\ UNCHANGED <<uris, chosen>>
        /\ \A q \in Request \ {r} : stage'[q] = stage[q]
    BY <1>1, <1>3, ReplyMoves, Zenon
  <2> QED
    BY <2>1, StandsStill, Zenon DEF Progresses
<1>4. CASE stage[r] = "share" /\ ~Done(r) /\ Goto(r, "add") /\ UNCHANGED <<uris, chosen>>
  <2>1. stage'[r] = "add" /\ \A q \in Request \ {r} : stage'[q] = stage[q]
    BY <1>1, <1>4, GotoMoves, Zenon
  <2>2. Left(r)' \in Nat /\ Left(r)' < Left(r)
    <3>1. Left(r) = 2 * (Len(chosen[r]) - Len(uris[r])) + 1
      BY <1>4, Zenon DEF Left
    <3>2. Left(r)' = 2 * (Len(chosen[r]) - Len(uris[r])) + 0
      BY <1>4, <2>1, Zenon DEF Left
    <3>3. Len(uris[r]) <= Len(chosen[r])
      BY <1>1, Zenon DEF Shared
    <3> QED
      BY <1>2, <3>1, <3>2, <3>3, LessLeft, Zenon
  <2> QED
    BY <1>4, <2>1, <2>2, StandsStill, Zenon DEF Progresses, Sharing
<1>5. CASE /\ stage[r] = "add" /\ Goto(r, "share") /\ UNCHANGED chosen
           /\ uris' = [uris EXCEPT ![r] = Append(@, Current(r))]
  <2>1. stage'[r] = "share" /\ \A q \in Request \ {r} : stage'[q] = stage[q]
    BY <1>1, <1>5, GotoMoves, Zenon
  <2>2. ~Done(r) /\ Current(r) \in File
    BY <1>1, <1>5, Zenon DEF TaskAgrees
  <2>3. /\ uris'[r] = Append(uris[r], Current(r))
        /\ \A q \in Request \ {r} : uris'[q] = uris[q]
    BY <1>1, <1>5, Zenon DEF TypeOK
  <2>4. Len(uris'[r]) = Len(uris[r]) + 1
    BY <1>2, <2>2, <2>3, AppendProperties
  <2>5. Left(r)' \in Nat /\ Left(r)' < Left(r)
    <3>1. Left(r) = 2 * (Len(chosen[r]) - Len(uris[r])) + 0
      BY <1>5, Zenon DEF Left
    <3>2. Left(r)' = 2 * (Len(chosen[r]) - (Len(uris[r]) + 1)) + 1
      BY <1>5, <2>1, <2>4, Zenon DEF Left
    <3>3. Len(uris[r]) <= Len(chosen[r]) /\ Len(uris[r]) # Len(chosen[r])
      BY <1>1, <2>2, Zenon DEF Shared, Done
    <3> QED
      BY <1>2, <3>1, <3>2, <3>3, LessLeft, Zenon
  <2> QED
    BY <1>5, <2>1, <2>3, <2>5, StandsStill, Zenon DEF Progresses, Sharing
<1>6. CASE Panic(r) /\ UNCHANGED <<uris, chosen>>
  <2>1. ASSUME NEW q \in Request \ {r} PROVE Advances(q)
    <3>1. CASE stage'[q] = stage[q]
      BY <3>1, <1>6, StandsStill, Zenon
    <3>2. CASE stage'[q] = "lost"
      BY <3>2, Zenon DEF Advances, Progresses
    <3> QED
      BY <3>1, <3>2, <1>1, <1>6, PanicMoves, Zenon
  <2> QED
    BY <2>1, <1>1, <1>6, PanicMoves, Zenon DEF Progresses
<1> QED
  BY <1>3, <1>4, <1>5, <1>6, Zenon DEF TaskStep, transform_uris, share_file, add_named_full, Succeed

(* What RequestAnswered rests on beside fairness: every step of a task     *)
(* that shares files answers the guest, panics at a member without a file  *)
(* name or leaves the task fewer steps to make, and no step of anyone else *)
(* gives it more (transform_uris, its loop).                               *)
THEOREM TasksAdvance ==
  Spec => [][\A r \in Request : Advances(r) /\ (TaskStep(r) => Progresses(r))]_vars
<1>1. Inv /\ [Next]_vars =>
        [\A r \in Request : Advances(r) /\ (TaskStep(r) => Progresses(r))]_vars
  <2> SUFFICES ASSUME Inv, Next PROVE \A r \in Request : Advances(r)
    BY TaskAdvances, Zenon
  <2>1. CASE HostDies
    <3>1. ASSUME NEW r \in Request PROVE Advances(r)
      <4>1. CASE stage[r] \in Waiting
        BY <2>1, <4>1, Zenon DEF HostDies, Advances, Progresses
      <4>2. CASE stage[r] \notin Waiting
        BY <2>1, <4>2, StandsStill, Zenon DEF HostDies
      <4> QED
        BY <4>1, <4>2, Zenon
    <3> QED
      BY <3>1, Zenon
  <2>2. ASSUME NEW f \in File, FileChanges(f) PROVE \A r \in Request : Advances(r)
    BY <2>2, StandsStill, Zenon DEF FileChanges, request
  <2>3. ASSUME NEW r \in Request, TaskStep(r) PROVE \A s \in Request : Advances(s)
    BY <2>3, TaskAdvances, Zenon DEF Advances
  <2>4. ASSUME NEW r \in Request,
               \/ Call(r) \/ DialogFails(r)
               \/ \E list \in Lists, field \in {"true", "false", "bad"} :
                    DialogSucceeds(r, list, field)
        PROVE  \A s \in Request : Advances(s)
    <3>1. ~Sharing(r)
      BY <2>4, Zenon DEF Sharing, Call, DialogFails, DialogSucceeds
    <3>2. \A s \in Request \ {r} :
            stage'[s] = stage[s] /\ chosen'[s] = chosen[s] /\ uris'[s] = uris[s]
      <4>1. CASE Call(r)
        BY <4>1, Zenon DEF Inv, TypeOK, Call, Goto
      <4>2. CASE DialogFails(r)
        BY <4>2, Zenon DEF Inv, TypeOK, DialogFails, Reply, Goto
      <4>3. ASSUME NEW list \in Lists, NEW field \in {"true", "false", "bad"},
                   DialogSucceeds(r, list, field)
            PROVE  \A s \in Request \ {r} :
                     stage'[s] = stage[s] /\ chosen'[s] = chosen[s] /\ uris'[s] = uris[s]
        BY <4>3, Zenon DEF Inv, TypeOK, DialogSucceeds, Reply, Goto
      <4> QED
        BY <2>4, <4>1, <4>2, <4>3, Zenon
    <3> QED
      BY <3>1, <3>2, StandsStill, Zenon DEF Advances, Progresses
  <2> QED
    BY <2>1, <2>2, <2>3, <2>4, Zenon DEF Next
<1> QED
  BY <1>1, Invariance, PTL DEF Spec

=============================================================================
