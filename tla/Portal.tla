-------------------------------- MODULE Portal --------------------------------
(***************************************************************************)
(* How a VM gets its file chooser portal: the guest's helper               *)
(* (tools/xdg-desktop-portal-spectrum), started by the guest's bus, asks   *)
(* the host portal (tools/xdg-desktop-portal-spectrum-host, main.rs) over  *)
(* a vsock connection to connect back to the bus, to own the portal's name *)
(* there and to say whether that worked.                                   *)
(*                                                                         *)
(* A connection is two streams.  A stream is the sequence of the items     *)
(* that one write or one read_exact of the code moves: the handshake is    *)
(* "count" and "versions", then "port", "len" and "root"; the host answers *)
(* "version" and the result, "good" (0) or "bad" (1).  Either end may be   *)
(* closed at any time.  The end that is left may lose what it has not read *)
(* if the other closed with items unread, and a write to a closed end may  *)
(* still succeed.  read() at the end of the stream returns 0 and leaves    *)
(* the helper's uninitialized byte as it is: any value.                    *)
(***************************************************************************)
EXTENDS Naturals, Sequences

CONSTANTS
  Helper,    \* incarnations of the guest's helper, each with one connection
  None,      \* no incarnation
  MayFail    \* what may fail or die for any reason

ASSUME PortalAssumption == None \notin Helper

VARIABLES
  address,   \* DBUS_STARTER_ADDRESS: "vsock", "other" (no vsock) or "bad"
  root,      \* HOST_FS_ROOT_DIR of the guest's build
  helper,    \* helper[h]: where the helper is
  up,        \* up[h]: items on their way to the host
  down,      \* down[h]: items on their way to the helper
  host,      \* the host portal: "down", "fresh", "init" or "ready"
  task,      \* task[h]: the host's task for the connection of h
  owner,     \* the connection whose task owns the name on the guest's bus
  granted    \* the connections whose task has owned it

guest == <<address, root>>
bus == <<owner, granted>>
vars == <<guest, helper, up, down, host, task, bus>>

Connected == {"handshake", "version", "port", "len", "root", "result"}
Running == {"start", "connect"} \cup Connected
Reading == {"count", "versions", "port", "len", "root"}
Spawned == Reading \cup {"reply", "connect", "build", "good", "bad"}

HelperOpen(h) == helper[h] \in Connected
HostOpen(h) == task[h] \in {"backlog", "init"} \cup Spawned

(* Every program is at a stage of its code, and every stream holds items   *)
(* of the protocol.                                                        *)
TypeOK ==
  /\ address \in {"vsock", "other", "bad"} /\ root \in {"absolute", "relative"}
  /\ helper \in [Helper -> {"idle", "ok", "failed", "killed"} \cup Running]
  /\ up \in [Helper -> Seq(Reading)]
  /\ down \in [Helper -> Seq({"version", "good", "bad"})]
  /\ host \in {"down", "fresh", "init", "ready"}
  /\ task \in [Helper -> {"none", "backlog", "init", "serve", "cut", "done"}
                           \cup Spawned]
  /\ owner \in Helper \cup {None} /\ granted \in SUBSET Helper

Init ==
  /\ address \in {"vsock", "other", "bad"} /\ root \in {"absolute", "relative"}
  /\ helper = [h \in Helper |-> "idle"]
  /\ up = [h \in Helper |-> <<>>] /\ down = [h \in Helper |-> <<>>]
  /\ host = "fresh" /\ task = [h \in Helper |-> "none"]
  /\ owner = None /\ granted = {}

Goto(h, s) == helper' = [helper EXCEPT ![h] = s]
TaskGoto(h, s) == task' = [task EXCEPT ![h] = s]
Fails(c) == c \in MayFail

-----------------------------------------------------------------------------
(* The guest's helper.                                                     *)

(* The bus starts a helper when a message is for the name, nobody owns it  *)
(* and no helper is being waited for.                                      *)
Activate(h) ==
  /\ helper[h] = "idle" /\ owner = None
  /\ \A k \in Helper : helper[k] \notin Running
  /\ Goto(h, "start")
  /\ UNCHANGED <<guest, up, down, host, task, bus>>

(* main: the first vsock entry of the address is used; without one, the    *)
(* loop ends and main returns 0.                                           *)
ParseAddress(h) ==
  /\ helper[h] = "start"
  /\ Goto(h, CASE address = "vsock" -> "connect"
               [] address = "other" -> "ok"
               [] address = "bad" -> "failed")
  /\ UNCHANGED <<guest, up, down, host, task, bus>>

ConnectHost(h) ==
  /\ helper[h] = "connect"
  /\ IF host = "down"
     THEN Goto(h, "failed") /\ UNCHANGED task
     ELSE Goto(h, "handshake") /\ TaskGoto(h, "backlog")
  /\ UNCHANGED <<guest, up, down, host, bus>>

(* write_all: to an end that is closed it fails, with EPIPE or SIGPIPE, or *)
(* the items are lost.                                                     *)
write_all(h, items, next) ==
  /\ IF HostOpen(h)
     THEN up' = [up EXCEPT ![h] = @ \o items] /\ Goto(h, next)
     ELSE UNCHANGED up /\ (Goto(h, next) \/ Goto(h, "failed"))
  /\ UNCHANGED <<guest, down, host, task, bus>>

WriteHandshake(h) ==
  helper[h] = "handshake" /\ write_all(h, <<"count", "versions">>, "version")

(* The helper's read meets the end of the stream or a reset.               *)
DownEnds(h) == ~HostOpen(h) /\ (down[h] = <<>> \/ up[h] # <<>>)

ReadVersion(h) ==
  /\ helper[h] = "version"
  /\ \/ /\ down[h] # <<>>
        /\ down' = [down EXCEPT ![h] = Tail(@)]
        /\ Goto(h, IF Head(down[h]) = "version" THEN "port" ELSE "failed")
     \/ /\ DownEnds(h)
        /\ Goto(h, "port") \/ Goto(h, "failed")
        /\ UNCHANGED down
  /\ UNCHANGED <<guest, up, host, task, bus>>

(* Mutant: the length is sent where the host expects the port.             *)
SendLenFirst(h) == helper[h] = "port" /\ write_all(h, <<"len">>, "len")

SendPort(h) == helper[h] = "port" /\ write_all(h, <<"port">>, "len")

SendLen(h) == helper[h] = "len" /\ write_all(h, <<"len">>, "root")

(* Mutant: the string's terminator is sent too.                            *)
SendRootAndNul(h) == helper[h] = "root" /\ write_all(h, <<"root", "nul">>, "result")

SendRoot(h) == helper[h] = "root" /\ write_all(h, <<"root">>, "result")

check_result(h) ==
  /\ helper[h] = "result"
  /\ \/ /\ down[h] # <<>>
        /\ down' = [down EXCEPT ![h] = Tail(@)]
        /\ Goto(h, IF Head(down[h]) = "good" THEN "ok" ELSE "failed")
     \/ /\ DownEnds(h)
        /\ Goto(h, "ok") \/ Goto(h, "failed")
        /\ UNCHANGED down
  /\ UNCHANGED <<guest, up, host, task, bus>>

(* The bus gives up waiting and kills the helper.                          *)
KillHelper(h) ==
  /\ Fails("helper") /\ helper[h] \in Running
  /\ Goto(h, "killed")
  /\ UNCHANGED <<guest, up, down, host, task, bus>>

-----------------------------------------------------------------------------
(* The host portal's process.                                              *)

(* The process ends: its connections are closed, the name becomes free.    *)
HostEnds ==
  /\ host' = "down"
  /\ task' = [h \in Helper |-> IF HostOpen(h) THEN "cut"
                               ELSE IF task[h] = "serve" THEN "done" ELSE task[h]]
  /\ owner' = None
  /\ UNCHANGED <<guest, helper, up, down, granted>>

HostDies == Fails("host") /\ host # "down" /\ HostEnds

(* s6 starts it again, with a new socket.                                  *)
HostRestarts ==
  /\ host = "down" /\ host' = "fresh"
  /\ UNCHANGED <<guest, helper, up, down, task, bus>>

(* The accept loop; it waits for the session bus at its first connection.  *)
Accept(h) ==
  /\ host \in {"fresh", "ready"} /\ task[h] = "backlog"
  /\ IF host = "ready"
     THEN TaskGoto(h, "count") /\ UNCHANGED host
     ELSE TaskGoto(h, "init") /\ host' = "init"
  /\ UNCHANGED <<guest, helper, up, down, bus>>

(* The session bus and both proxies; an error or a panic ends the process. *)
Initialize(h) ==
  /\ host = "init" /\ task[h] = "init"
  /\ \/ /\ TaskGoto(h, "count") /\ host' = "ready"
        /\ UNCHANGED <<guest, helper, up, down, bus>>
     \/ Fails("session") /\ HostEnds

-----------------------------------------------------------------------------
(* run_guest_connection, one task per connection.                          *)

(* The task ends with an error before it has answered.                     *)
EndTask(h) ==
  /\ TaskGoto(h, "cut")
  /\ UNCHANGED <<guest, helper, up, down, host, bus>>

UpEnds(h) == ~HelperOpen(h) /\ (up[h] = <<>> \/ down[h] # <<>>)

(* Mutant: the end of the stream is not noticed.                           *)
read_again(h, next) ==
  /\ up[h] # <<>>
  /\ up' = [up EXCEPT ![h] = Tail(@)]
  /\ TaskGoto(h, next)
  /\ UNCHANGED <<guest, helper, down, host, bus>>

read_exact(h, next) ==
  \/ /\ up[h] # <<>>
     /\ up' = [up EXCEPT ![h] = Tail(@)]
     /\ TaskGoto(h, next)
     /\ UNCHANGED <<guest, helper, down, host, bus>>
  \/ UpEnds(h) /\ EndTask(h)

ReadCount(h) == task[h] = "count" /\ read_exact(h, "versions")

(* The helper offers exactly one version, the one the host supports.       *)
ReadVersions(h) == task[h] = "versions" /\ read_exact(h, "reply")

WriteVersion(h) ==
  /\ task[h] = "reply"
  /\ \/ /\ TaskGoto(h, "port")
        /\ down' = [down EXCEPT ![h] = Append(@, "version")]
        /\ UNCHANGED <<guest, helper, up, host, bus>>
     \/ ~HelperOpen(h) /\ EndTask(h)

ReadPort(h) == task[h] = "port" /\ read_exact(h, "len")

ReadLen(h) == task[h] = "len" /\ read_exact(h, "root")

(* Mutant: one item more than the length says is waited for.               *)
ReadRootAndMore(h) == task[h] = "root" /\ Len(up[h]) # 1 /\ read_exact(h, "connect")

(* Mutant: a relative root is accepted.                                    *)
ReadRootUnchecked(h) == task[h] = "root" /\ read_exact(h, "connect")

ReadRoot(h) ==
  /\ task[h] = "root"
  /\ read_exact(h, IF root = "relative" THEN "bad" ELSE "connect")

connect_to_guest(h) ==
  /\ task[h] = "connect"
  /\ TaskGoto(h, "build") \/ (Fails("connect") /\ TaskGoto(h, "bad"))
  /\ UNCHANGED <<guest, helper, up, down, host, bus>>

(* Builder::build: the bus grants the name only if nobody owns it.         *)
build(h) ==
  /\ task[h] = "build"
  /\ \/ /\ owner = None
        /\ owner' = h /\ granted' = granted \cup {h}
        /\ TaskGoto(h, "good")
     \/ /\ owner # None \/ Fails("build")
        /\ TaskGoto(h, "bad")
        /\ UNCHANGED bus
  /\ UNCHANGED <<guest, helper, up, down, host>>

Free(h) == IF owner = h THEN None ELSE owner

(* Mutant: the result is sent as is_ok.                                    *)
AnswerInverted(h) ==
  /\ task[h] \in {"good", "bad"}
  /\ TaskGoto(h, IF task[h] = "good" THEN "serve" ELSE "done")
  /\ down' = [down EXCEPT ![h] = Append(@, IF task[h] = "good" THEN "bad" ELSE "good")]
  /\ UNCHANGED <<guest, helper, up, host, bus>>

(* The result is sent and the connection dropped.  If it cannot be sent,   *)
(* the task ends and drops its connection to the bus, if it has one.       *)
Answer(h) ==
  /\ task[h] \in {"good", "bad"}
  /\ \/ /\ TaskGoto(h, IF task[h] = "good" THEN "serve" ELSE "done")
        /\ down' = [down EXCEPT ![h] = Append(@, task[h])]
        /\ UNCHANGED owner
     \/ /\ ~HelperOpen(h)
        /\ TaskGoto(h, "cut")
        /\ owner' = Free(h)
        /\ UNCHANGED down
  /\ UNCHANGED <<guest, helper, up, host, granted>>

(* The guest's bus closes the connection; the task learns it when it reads *)
(* the next message.                                                       *)
BusCloses(h) ==
  /\ Fails("bus") /\ owner = h /\ owner' = None
  /\ UNCHANGED <<guest, helper, up, down, host, task, granted>>

ServeEnds(h) ==
  /\ task[h] = "serve" /\ owner # h
  /\ TaskGoto(h, "done")
  /\ UNCHANGED <<guest, helper, up, down, host, bus>>

-----------------------------------------------------------------------------
HelperStep(h) ==
  \/ ParseAddress(h) \/ ConnectHost(h) \/ WriteHandshake(h) \/ ReadVersion(h)
  \/ SendPort(h) \/ SendLen(h) \/ SendRoot(h) \/ check_result(h)

TaskStep(h) ==
  \/ ReadCount(h) \/ ReadVersions(h) \/ WriteVersion(h)
  \/ ReadPort(h) \/ ReadLen(h) \/ ReadRoot(h)
  \/ connect_to_guest(h) \/ build(h) \/ Answer(h) \/ ServeEnds(h)

Next ==
  \/ HostDies \/ HostRestarts
  \/ \E h \in Helper :
       \/ Activate(h) \/ HelperStep(h) \/ KillHelper(h)
       \/ Accept(h) \/ Initialize(h) \/ TaskStep(h) \/ BusCloses(h)

Spec == Init /\ [][Next]_vars

(* The processes run, the executor polls every task that can go on, and    *)
(* the accept loop takes every connection in its turn.                     *)
FairSpec ==
  /\ Spec
  /\ \A h \in Helper :
       /\ WF_vars(HelperStep(h)) /\ WF_vars(TaskStep(h))
       /\ WF_vars(Accept(h)) /\ WF_vars(Initialize(h))

-----------------------------------------------------------------------------
(* What the helper writes, in order, and how much of it was written, and   *)
(* read, when a helper or a task is at a stage.                            *)
Script == <<"count", "versions", "port", "len", "root">>

Written(s) == CASE s = "handshake" -> 0 [] s = "version" -> 2 [] s = "port" -> 2
                [] s = "len" -> 3 [] s = "root" -> 4 [] s = "result" -> 5

Taken(s) == CASE s \in {"backlog", "init", "count"} -> 0 [] s = "versions" -> 1
              [] s \in {"reply", "port"} -> 2 [] s = "len" -> 3 [] s = "root" -> 4
              [] s \in {"connect", "build", "good", "bad"} -> 5

(* Framing: while both ends are open the stream holds exactly what the     *)
(* helper wrote and the host has not read, so each read_exact of main.rs   *)
(* gets the field it is meant for, and nothing is left unread when the     *)
(* host drops the connection.                                              *)
InStep ==
  \A h \in Helper :
    HostOpen(h) /\ HelperOpen(h) =>
      up[h] = SubSeq(Script, Taken(task[h]) + 1, Written(helper[h]))

(* A helper hears of the service: while the host serves under the name for *)
(* a connection whose helper was not killed, that helper ended well or     *)
(* still has the good result before it; it never reports a failure to the  *)
(* bus (check_result) while the portal is there for it.                    *)
HelperLearns ==
  \A h \in Helper :
    task[h] = "serve" =>
      \/ helper[h] \in {"ok", "killed"}
      \/ helper[h] = "result" /\ down[h] = <<"good">>

(* No request panics for want of what the program should have set up, over *)
(* any number of restarts: while a task can be asked, both proxies are set *)
(* (PROXY.get().unwrap() in file_chooser.rs and documents.rs) and the      *)
(* share root is absolute (Url::from_file_path(...).unwrap(), documented   *)
(* at FileChooser::new).  What the dialog returns may still make one       *)
(* panic: see FileChooser.                                                 *)
NoRequestPanics ==
  \A h \in Helper :
    task[h] \in {"good", "serve"} => host = "ready" /\ root = "absolute"

(* The two programs keep the promise of PortalPromise: a helper ends well  *)
(* only after the name was granted or when the host never answered.        *)
Outcome(h) ==
  CASE helper[h] = "ok" -> "ok"
    [] helper[h] \in {"failed", "killed"} -> "failed"
    [] OTHER -> "pending"

Promise == INSTANCE PortalPromise WITH
  outcome <- [h \in Helper |-> Outcome(h)],
  cut <- IF address = "other" THEN Helper ELSE {h \in Helper : task[h] = "cut"}

PromiseSpec == Promise!Spec

(* Every helper that was started ends, whatever happens to the host portal *)
(* and to the bus: neither side waits for the other for ever.              *)
HelperSettles ==
  \A h \in Helper : helper[h] \in Running ~> helper[h] \notin Running

(* Every connection that reached the host ends or is served, even if its   *)
(* helper was killed in the middle of the protocol.                        *)
TaskSettles == \A h \in Helper : HostOpen(h) ~> ~HostOpen(h)

-----------------------------------------------------------------------------
(* The inductive invariant of PortalProofs, for one connection.            *)

(* A helper that the host can still answer waits for it or was killed.     *)
Present(h) ==
  /\ HostOpen(h) => helper[h] \in Connected \cup {"killed"}
  /\ HelperOpen(h) => task[h] # "none"
  /\ helper[h] \in {"idle", "start", "connect"} => task[h] = "none"
  /\ helper[h] = "connect" => address # "other"
  /\ task[h] = "none" => up[h] = <<>> /\ down[h] = <<>>

(* While both ends are open the helper has just as much ahead of it as the *)
(* stage of the task says, and goes on only once the version is there.     *)
Paired(h) ==
  HostOpen(h) /\ HelperOpen(h) =>
    /\ up[h] = SubSeq(Script, Taken(task[h]) + 1, Written(helper[h]))
    /\ Taken(task[h]) <= Written(helper[h])
    /\ helper[h] \in {"port", "len", "root", "result"} =>
         task[h] \in {"port", "len", "root", "connect", "build", "good", "bad"}
    /\ down[h] = IF task[h] = "port" /\ helper[h] = "version"
                 THEN <<"version">> ELSE <<>>

(* An answer is read as it was sent, and a good one followed the grant.    *)
Answered(h) ==
  /\ task[h] \in {"serve", "done"} =>
       \/ helper[h] \in {"ok", "failed", "killed"}
       \/ /\ helper[h] = "result" /\ up[h] = <<>>
          /\ \/ down[h] = <<"good">> /\ h \in granted
             \/ down[h] = <<"bad">> /\ task[h] = "done"
  /\ task[h] = "serve" => helper[h] # "failed"
  /\ task[h] \in {"good", "serve"} => h \in granted
  /\ helper[h] = "ok" => h \in granted \/ task[h] = "cut" \/ address = "other"
  /\ address = "other" => task[h] = "none"

(* Where the process is when a task is at a stage, and who owns the name.  *)
Placed(h) ==
  /\ task[h] \in Spawned \cup {"serve"} => host = "ready"
  /\ task[h] = "init" => host = "init"
  /\ task[h] = "backlog" => host # "down"
  /\ task[h] \in {"connect", "build", "good", "serve"} => root = "absolute"
  /\ owner = h => task[h] \in {"good", "serve"}
  /\ h \in granted => task[h] \in {"good", "serve", "cut", "done"}

Inv ==
  /\ TypeOK
  /\ \A h \in Helper : Present(h) /\ Paired(h) /\ Answered(h) /\ Placed(h)
  /\ \A h, k \in Helper : task[h] = "init" /\ task[k] = "init" => h = k

=============================================================================
