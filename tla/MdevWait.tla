------------------------------- MODULE MdevWait -------------------------------
(***************************************************************************)
(* The rendezvous of a service with a device: the service runs             *)
(* /etc/mdev/wait <name>, and mdevd runs /etc/mdev/listen <name> in the    *)
(* background when the device appears (host/rootfs/etc/mdev; the same two  *)
(* scripts are in img/app/etc/mdev).                                       *)
(*                                                                         *)
(* Both make the FIFO /run/wait/<name> unless it is there.  Opening it     *)
(* blocks until the other side opens it too.  wait removes it when it has  *)
(* read a line; listen's redirfd -w makes a plain file where none is.      *)
(***************************************************************************)
EXTENDS Naturals

CONSTANTS
  Name,       \* the devices that are waited for
  MaxEvents   \* MaxEvents[x]: how often mdevd may see x appear: by itself,
              \* and again through mdevd-coldplug

Event(x) == 1 .. MaxEvents[x]

VARIABLES
  file,      \* file[x]: what is at /run/wait/<x>
  line,      \* line[x]: a line, or the end of file, is there to be read
  waiter,    \* waiter[x]: the command wait is at
  orphan,    \* orphan[x]: the head of a wait that timed out is still there
  listener   \* listener[x][k]: the command the k-th listen is at

rendezvous == <<file, line, waiter, orphan, listener>>

(* "blocked": in open, until the other side comes.                         *)
Waiting == {"mkfifo", "open", "blocked", "read", "rm"}
WaiterStage == {"none", "passed", "failed"} \cup Waiting
ListenerStage == {"none", "mkfifo", "open", "blocked", "write", "done", "stuck"}

WaitType ==
  /\ file \in [Name -> {"none", "fifo", "plain"}]
  /\ line \in [Name -> BOOLEAN]
  /\ waiter \in [Name -> WaiterStage]
  /\ orphan \in [Name -> BOOLEAN]
  /\ DOMAIN listener = Name
  /\ \A x \in Name : listener[x] \in [Event(x) -> ListenerStage]

WaitInit ==
  /\ file = [x \in Name |-> "none"]
  /\ line = [x \in Name |-> FALSE]
  /\ waiter = [x \in Name |-> "none"]
  /\ orphan = [x \in Name |-> FALSE]
  /\ listener = [x \in Name |-> [k \in Event(x) |-> "none"]]

WaiterGoto(x, s) == waiter' = [waiter EXCEPT ![x] = s]
ListenerGoto(x, k, s) == listener' = [listener EXCEPT ![x][k] = s]
Mkfifo(x) == file' = [file EXCEPT ![x] = IF @ = "none" THEN "fifo" ELSE @]

Appeared(x) == \E k \in Event(x) : listener[x][k] # "none"
WriterThere(x) == \E k \in Event(x) : listener[x][k] \in {"blocked", "write"}
ReaderThere(x) == waiter[x] \in {"blocked", "read"} \/ orphan[x]

-----------------------------------------------------------------------------
(* wait                                                                    *)

WaitMkfifo(x) ==
  /\ waiter[x] = "mkfifo"
  /\ Mkfifo(x) /\ WaiterGoto(x, "open")
  /\ UNCHANGED <<line, orphan, listener>>

(* Mutant: the open does not block, and head reads the end of file.        *)
WaitOpenAtOnce(x) ==
  /\ waiter[x] = "open"
  /\ WaiterGoto(x, IF file[x] = "fifo" /\ WriterThere(x) THEN "read" ELSE "rm")
  /\ listener' = [listener EXCEPT ![x] = [k \in Event(x) |->
                    IF file[x] = "fifo" /\ @[k] = "blocked" THEN "write" ELSE @[k]]]
  /\ UNCHANGED <<file, line, orphan>>

(* head -1: a plain file is read at once; without a file head fails, which *)
(* is not looked at.                                                       *)
WaitOpen(x) ==
  /\ waiter[x] = "open"
  /\ WaiterGoto(x, IF file[x] # "fifo" THEN "rm"
                   ELSE IF WriterThere(x) THEN "read" ELSE "blocked")
  /\ listener' = [listener EXCEPT ![x] = [k \in Event(x) |->
                    IF file[x] = "fifo" /\ @[k] = "blocked" THEN "write" ELSE @[k]]]
  /\ UNCHANGED <<file, line, orphan>>

WaitRead(x) ==
  /\ waiter[x] = "read" /\ line[x]
  /\ WaiterGoto(x, "rm")
  /\ line' = [line EXCEPT ![x] = FALSE]
  /\ UNCHANGED <<file, orphan, listener>>

(* rm, whose exit status is the script's.  Who is blocked in open on the   *)
(* removed FIFO stays so.                                                  *)
WaitRm(x) ==
  /\ waiter[x] = "rm"
  /\ WaiterGoto(x, IF file[x] = "none" THEN "failed" ELSE "passed")
  /\ file' = [file EXCEPT ![x] = "none"]
  /\ listener' = [listener EXCEPT ![x] = [k \in Event(x) |->
                    IF @[k] = "blocked" THEN "stuck" ELSE @[k]]]
  /\ orphan' = [orphan EXCEPT ![x] = FALSE]
  /\ UNCHANGED line

(* s6-rc's timeout ends the script at any of its commands, but not the     *)
(* head it is waiting for, which takes the line if that is there.          *)
WaitTimeout(x) ==
  /\ waiter[x] \in Waiting
  /\ WaiterGoto(x, "failed")
  /\ orphan' = [orphan EXCEPT ![x] =
                  @ \/ waiter[x] = "blocked" \/ (waiter[x] = "read" /\ ~line[x])]
  /\ line' = [line EXCEPT ![x] = FALSE]
  /\ UNCHANGED <<file, listener>>

-----------------------------------------------------------------------------
(* listen                                                                  *)

ListenMkfifo(x, k) ==
  /\ listener[x][k] = "mkfifo"
  /\ Mkfifo(x) /\ ListenerGoto(x, k, "open")
  /\ UNCHANGED <<line, waiter, orphan>>

(* redirfd -w: every reader that is blocked in open goes on.               *)
ListenOpen(x, k) ==
  /\ listener[x][k] = "open"
  /\ \/ /\ file[x] = "fifo"
        /\ ListenerGoto(x, k, IF ReaderThere(x) THEN "write" ELSE "blocked")
        /\ WaiterGoto(x, IF waiter[x] = "blocked" THEN "read" ELSE waiter[x])
        /\ UNCHANGED file
     \/ /\ file[x] # "fifo"
        /\ ListenerGoto(x, k, "done")
        /\ file' = [file EXCEPT ![x] = "plain"]
        /\ UNCHANGED waiter
  /\ UNCHANGED <<line, orphan>>

(* echo, and the end of file, with which an orphaned head ends; or SIGPIPE *)
(* when the reader has gone.                                               *)
ListenWrite(x, k) ==
  /\ listener[x][k] = "write"
  /\ ListenerGoto(x, k, "done")
  /\ line' = [line EXCEPT ![x] = waiter[x] = "read"]
  /\ orphan' = [orphan EXCEPT ![x] = FALSE]
  /\ UNCHANGED <<file, waiter>>

WaitSteps(x) == WaitMkfifo(x) \/ WaitOpen(x) \/ WaitRead(x) \/ WaitRm(x)
ListenSteps(x) ==
  \E k \in Event(x) : ListenMkfifo(x, k) \/ ListenOpen(x, k) \/ ListenWrite(x, k)

=============================================================================
