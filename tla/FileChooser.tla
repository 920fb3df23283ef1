------------------------------ MODULE FileChooser ------------------------------
(***************************************************************************)
(* Requests to the host portal's file chooser (file_chooser.rs,            *)
(* documents.rs).  A request of the guest is passed on to the host's       *)
(* dialog; the files the user chose are added to the VM's document portal  *)
(* one after the other, and the guest gets their URIs.  Requests run       *)
(* concurrently, each as a task that may be suspended at the dialog and at *)
(* every call to the document portal.                                      *)
(*                                                                         *)
(* A file is a model value; its path, its document and the URI the guest   *)
(* gets for it are determined by it (REUSE_EXISTING gives a file one       *)
(* document).                                                              *)
(***************************************************************************)
EXTENDS Naturals, Sequences, Functions

CONSTANTS
  Request,    \* requests of the guest
  File,       \* files of the host
  NoFile,     \* a member of uris that is not a file:// URL
  NoName,     \* one that is, of a path without a file name: the empty path, or
              \* one that ends in ".."
  MaxChosen,  \* the most files chosen in one dialog
  MayFail     \* what may fail or die for any reason

ASSUME ChooserAssumption ==
  NoFile \notin File /\ NoName \notin File \cup {NoFile} /\ MaxChosen \in Nat

VARIABLES
  stage,      \* stage[r]: where the task of the request is: "idle", "dialog",
              \* "share", "add", "replied", "lost" or "panicked"
  kind,       \* kind[r]: "open" or "save"
  consent,    \* consent[r]: the user's choice, with the right to write
  chosen,     \* chosen[r]: the members of uris, as the dialog returned them
  uris,       \* uris[r]: the members transformed so far
  writable,   \* writable[r]: the argument of transform_uris
  reply,      \* reply[r]: the response to the guest: "none" so far,
              \* "SUCCESS", "CANCELLED" or "OTHER"
  other,      \* the files at whose path there is something, not a regular file
  rights      \* rights[f]: rights of the VM's document for f, {} if none

request == <<stage, kind, consent, chosen, uris, writable, reply>>
vars == <<request, other, rights>>

Member == File \cup {NoFile, NoName}
Lists == UNION {[1 .. n -> Member] : n \in 0 .. MaxChosen}

(* Every task is at one of its stages, and a URI is made for files only.   *)
TypeOK ==
  /\ stage \in [Request -> {"idle", "dialog", "share", "add", "replied", "lost", "panicked"}]
  /\ kind \in [Request -> {"open", "save"}]
  /\ consent \in [Request -> {"none", "read", "write"}]
  /\ chosen \in [Request -> Seq(Member)]
  /\ uris \in [Request -> Seq(File)]
  /\ writable \in [Request -> BOOLEAN]
  /\ reply \in [Request -> {"none", "SUCCESS", "CANCELLED", "OTHER"}]
  /\ other \in SUBSET File
  /\ rights \in [File -> SUBSET {"read", "write", "grant-permissions"}]

Init ==
  /\ stage = [r \in Request |-> "idle"] /\ kind \in [Request -> {"open", "save"}]
  /\ consent = [r \in Request |-> "none"]
  /\ chosen = [r \in Request |-> <<>>] /\ uris = [r \in Request |-> <<>>]
  /\ writable = [r \in Request |-> FALSE] /\ reply = [r \in Request |-> "none"]
  /\ other \in SUBSET File
  /\ rights = [f \in File |-> {}]

Goto(r, s) == stage' = [stage EXCEPT ![r] = s]
Fails(c) == c \in MayFail

(* open_file, save_file: the result of the _impl function becomes the      *)
(* response; only a success carries the URIs.                              *)
Reply(r, response) ==
  /\ reply' = [reply EXCEPT ![r] = response]
  /\ Goto(r, "replied")

-----------------------------------------------------------------------------
Call(r) ==
  /\ stage[r] = "idle" /\ Goto(r, "dialog")
  /\ UNCHANGED <<kind, consent, chosen, uris, writable, reply, other, rights>>

(* The dialog is cancelled, ends otherwise, or cannot be shown.            *)
DialogFails(r) ==
  /\ stage[r] = "dialog"
  /\ Reply(r, "CANCELLED") \/ Reply(r, "OTHER")
  /\ UNCHANGED <<kind, consent, chosen, uris, writable, other, rights>>

(* Mutant: a file that is opened may always be written.                    *)
MayAlwaysWrite(r, field) == TRUE

(* The right to share with: the dialog's "writable" (false if absent) for  *)
(* open_file, always true for save_file.                                   *)
MayWrite(r, field) == kind[r] = "save" \/ field = "true"

(* The dialog succeeds; "writable" may be absent or not a boolean, "uris"  *)
(* may be absent (<<>>, with nothing to share).                            *)
DialogSucceeds(r, list, field) ==
  /\ stage[r] = "dialog"
  /\ IF kind[r] = "open" /\ field = "bad"
     THEN Reply(r, "OTHER") /\ UNCHANGED <<chosen, writable, consent>>
     ELSE /\ chosen' = [chosen EXCEPT ![r] = list]
          /\ writable' = [writable EXCEPT ![r] = MayWrite(r, field)]
          /\ consent' = [consent EXCEPT ![r] =
               IF kind[r] = "save" \/ field = "true" THEN "write" ELSE "read"]
          /\ Goto(r, "share") /\ UNCHANGED reply
  /\ UNCHANGED <<kind, uris, other, rights>>

Current(r) == chosen[r][Len(uris[r]) + 1]
Done(r) == Len(uris[r]) = Len(chosen[r])

Waiting == {"dialog", "share", "add"}

(* unwrap() fails: the task ends without an answer, and perhaps, with the  *)
(* thread that polls them, the others.                                     *)
Panic(r) ==
  \/ Goto(r, "panicked")
  \/ stage' = [q \in Request |-> IF q = r THEN "panicked"
                                 ELSE IF stage[q] \in Waiting THEN "lost" ELSE stage[q]]

(* Mutant: a member that cannot be shared is neither skipped nor reported. *)
ShareStalls(r) ==
  /\ stage[r] = "share" /\ ~Done(r)
  /\ Current(r) \in File \ other
  /\ Goto(r, "add")
  /\ UNCHANGED <<kind, consent, chosen, uris, writable, reply, other, rights>>

(* transform_uris, share_file up to its call: the member is a file:// URL, *)
(* what is there is a regular file or nothing, its directory can be opened *)
(* and its path has a parent and a file name.  A path that ends in ".." is *)
(* most often refused as a directory before its name is asked for.         *)
share_file(r) ==
  /\ stage[r] = "share" /\ ~Done(r)
  /\ \/ Current(r) \in {NoFile, NoName} \cup other /\ Reply(r, "OTHER")
     \/ Current(r) = NoName /\ Panic(r) /\ UNCHANGED reply
     \/ Current(r) \in File \ other /\ Goto(r, "add") /\ UNCHANGED reply
     \/ Fails("open") /\ Reply(r, "OTHER")
  /\ UNCHANGED <<kind, consent, chosen, uris, writable, other, rights>>

(* Mutant: a failed call is skipped and the loop goes on.                  *)
SkipFailed(r) ==
  /\ stage[r] = "add"
  /\ Goto(r, "share")
  /\ uris' = [uris EXCEPT ![r] = Append(@, Current(r))]
  /\ UNCHANGED <<kind, consent, chosen, writable, reply, other, rights>>

Perms(r) ==
  IF writable[r] THEN {"read", "write", "grant-permissions"}
  ELSE {"read", "grant-permissions"}

(* AddNamedFull of the document portal, and the URI made from its answer.  *)
add_named_full(r) ==
  /\ stage[r] = "add"
  /\ \/ /\ rights' = [rights EXCEPT ![Current(r)] = @ \cup Perms(r)]
        /\ uris' = [uris EXCEPT ![r] = Append(@, Current(r))]
        /\ Goto(r, "share") /\ UNCHANGED reply
     \/ /\ Fails("add") /\ Reply(r, "OTHER")
        /\ UNCHANGED <<rights, uris>>
  /\ UNCHANGED <<kind, consent, chosen, writable, other>>

(* One member after the other, to the first that fails.                    *)
transform_uris(r) == share_file(r) \/ add_named_full(r)

(* All members are transformed: they replace the dialog's "uris".          *)
Succeed(r) ==
  /\ stage[r] = "share" /\ Done(r)
  /\ Reply(r, "SUCCESS")
  /\ UNCHANGED <<kind, consent, chosen, uris, writable, other, rights>>

(* What is at a path changes while requests run.                           *)
FileChanges(f) ==
  /\ Fails("files") /\ other' \in {other \cup {f}, other \ {f}}
  /\ UNCHANGED <<request, rights>>

(* The host portal dies: its requests are lost, documents stay.            *)
HostDies ==
  /\ Fails("host")
  /\ stage' = [r \in Request |-> IF stage[r] \in Waiting THEN "lost" ELSE stage[r]]
  /\ UNCHANGED <<kind, consent, chosen, uris, writable, reply, other, rights>>

TaskStep(r) == transform_uris(r) \/ Succeed(r)

Next ==
  \/ HostDies
  \/ \E f \in File : FileChanges(f)
  \/ \E r \in Request :
       \/ Call(r) \/ DialogFails(r) \/ TaskStep(r)
       \/ \E list \in Lists, field \in {"true", "false", "bad"} :
            DialogSucceeds(r, list, field)

Spec == Init /\ [][Next]_vars

(* The executor polls every task, and the document portal answers.         *)
FairSpec == Spec /\ \A r \in Request : WF_vars(TaskStep(r))

-----------------------------------------------------------------------------
(* A success tells the truth: the guest gets exactly the files chosen, in  *)
(* their order, each with a document that lets it do what was granted      *)
(* (transform_uris stops at the first member that could not be shared).    *)
SuccessIsUsable ==
  \A r \in Request :
    reply[r] = "SUCCESS" =>
      /\ uris[r] = chosen[r]
      /\ \A f \in Range(uris[r]) :
           /\ "read" \in rights[f]
           /\ consent[r] = "write" => "write" \in rights[f]

(* The VM has a document only for a file the user chose for it, and may    *)
(* write it only if the user chose it for writing, in this or in another   *)
(* request, whatever requests failed or were lost in between.              *)
RightsFromUser ==
  \A f \in File :
    /\ rights[f] # {} => \E r \in Request : f \in Range(chosen[r])
    /\ "write" \in rights[f] =>
         \E r \in Request : f \in Range(chosen[r]) /\ consent[r] = "write"

(* The inductive invariant behind both: what a task has done so far.       *)

(* The URIs are those of the first members, in order, and each of these    *)
(* has a document with the rights the user consented to.                   *)
Shared(r) ==
  /\ Len(uris[r]) <= Len(chosen[r])
  /\ \A k \in 1 .. Len(uris[r]) :
       /\ uris[r][k] = chosen[r][k]
       /\ "read" \in rights[uris[r][k]]
       /\ consent[r] = "write" => "write" \in rights[uris[r][k]]

(* Nothing is chosen before the dialog ends; a member is added only if it  *)
(* is a file, with the user's consent, and panics the task only if it has  *)
(* no name; a success comes after the last one.                            *)
TaskAgrees(r) ==
  /\ stage[r] \in {"idle", "dialog"} => chosen[r] = <<>> /\ uris[r] = <<>>
  /\ stage[r] = "add" => ~Done(r) /\ Current(r) \in File
  /\ stage[r] = "panicked" => ~Done(r) /\ Current(r) = NoName
  /\ writable[r] <=> consent[r] = "write"
  /\ reply[r] = "SUCCESS" => stage[r] = "replied" /\ Done(r)

Inv ==
  /\ TypeOK /\ RightsFromUser
  /\ \A r \in Request : Shared(r) /\ TaskAgrees(r)

(* Once the user has closed the dialog the guest is answered, however many *)
(* members cannot be shared, unless the host portal dies or a member of    *)
(* this or another request has no file name (documents.rs:47 and 53, which *)
(* unwrap it).                                                             *)
RequestAnswered ==
  \A r \in Request :
    stage[r] \in {"share", "add"} ~>
      \/ stage[r] = "replied"
      \/ stage[r] = "panicked" /\ Current(r) = NoName
      \/ stage[r] = "lost"

=============================================================================
