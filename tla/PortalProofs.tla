----------------------------- MODULE PortalProofs -----------------------------
(***************************************************************************)
(* Proofs about Portal, for any number of helpers and any faults.          *)
(***************************************************************************)
EXTENDS Portal, SequenceTheorems, TLAPS

-----------------------------------------------------------------------------
(* What is left of the helper's script between two positions.              *)
LEMMA ScriptType ==
  /\ Script \in Seq(Reading) /\ Len(Script) = 5
  /\ Script[3] = "port" /\ Script[4] = "len" /\ Script[5] = "root"
  BY DEF Script, Reading

(* Nothing is left when all that was written has been read.                *)
LEMMA Nothing == \A a \in 0 .. 5 : SubSeq(Script, a + 1, a) = <<>>
  BY SubSeqEmpty

(* A read takes the next item.                                             *)
LEMMA Read ==
  ASSUME NEW a \in 0 .. 5, NEW b \in 0 .. 5, a < b
  PROVE  Tail(SubSeq(Script, a + 1, b)) = SubSeq(Script, a + 2, b)
<1>1. a + 1 \in 1 .. Len(Script) /\ b \in a + 1 .. Len(Script) /\ (a + 1) + 1 = a + 2
  BY ScriptType
<1>2. Tail(SubSeq(Script, a + 1, b)) = SubSeq(Script, (a + 1) + 1, b)
  BY <1>1, ScriptType, HeadTailOfSubSeq, Zenon
<1> QED
  BY <1>1, <1>2, Zenon

(* A write adds the item that follows.                                     *)
LEMMA WriteNext ==
  ASSUME NEW a \in 0 .. 5, NEW b \in 0 .. 4, a <= b
  PROVE  SubSeq(Script, a + 1, b) \o <<Script[b + 1]>> = SubSeq(Script, a + 1, b + 1)
<1>1. a + 1 \in 1 .. Len(Script) /\ b + 1 \in a + 1 .. Len(Script) /\ (b + 1) - 1 = b
  BY ScriptType
<1>2. SubSeq(Script, a + 1, b + 1) = SubSeq(Script, a + 1, (b + 1) - 1) \o <<Script[b + 1]>>
  BY <1>1, ScriptType, SubSeqRecursiveSecond, Zenon
<1> QED
  BY <1>1, <1>2, Zenon

(* The handshake is the script's beginning.                                *)
LEMMA WriteFirst == <<>> \o <<"count", "versions">> = SubSeq(Script, 1, 2)
<1> DEFINE t == SubSeq(Script, 1, 2)
           u == <<>> \o <<"count", "versions">>
<1>1. t \in Seq(Reading) /\ Len(t) = 2 /\ t[1] = Script[1] /\ t[2] = Script[2]
  BY ScriptType
<1>2. u \in Seq(Reading) /\ Len(u) = 2 /\ u[1] = "count" /\ u[2] = "versions"
  BY DEF Reading
<1>3. Script[1] = "count" /\ Script[2] = "versions"
  BY Zenon DEF Script
<1> HIDE DEF u, t
<1>4. u = t
  BY <1>1, <1>2, <1>3, SeqEqual
<1> QED
  BY <1>4, Zenon DEF u, t

(* How far a stage is in the script.                                       *)
LEMMA Positions ==
  /\ Taken("backlog") = 0 /\ Taken("init") = 0 /\ Taken("count") = 0
  /\ Taken("versions") = 1 /\ Taken("reply") = 2 /\ Taken("port") = 2
  /\ Taken("len") = 3 /\ Taken("root") = 4 /\ Taken("connect") = 5
  /\ Taken("build") = 5 /\ Taken("good") = 5 /\ Taken("bad") = 5
  /\ Written("handshake") = 0 /\ Written("version") = 2 /\ Written("port") = 2
  /\ Written("len") = 3 /\ Written("root") = 4 /\ Written("result") = 5
  BY Zenon DEF Taken, Written

-----------------------------------------------------------------------------
(* A step of one connection.                                               *)

Fine(h) == Present(h) /\ Paired(h) /\ Answered(h) /\ Placed(h)

(* The step moves the helper or the task of h, and may take or free the    *)
(* name for it; the process's stage changes only while no other task runs. *)
Only(h) ==
  /\ UNCHANGED <<address, root>>
  /\ \/ host' = host
     \/ /\ host' # "down"
        /\ \A k \in Helper \ {h} : task[k] \notin Spawned \cup {"serve", "init"}
  /\ \A k \in Helper \ {h} :
       /\ helper'[k] = helper[k] /\ task'[k] = task[k]
       /\ up'[k] = up[k] /\ down'[k] = down[k]
       /\ (k \in granted') <=> (k \in granted)
  /\ owner' \in {owner, h, None}
  /\ task'[h] = "init" =>
       task[h] = "init" \/ \A k \in Helper \ {h} : task[k] # "init"

(* Such a step leaves the other connections as they are.                   *)
LEMMA Step ==
  ASSUME Inv, NEW h \in Helper, Only(h), TypeOK', Fine(h)'
  PROVE  Inv'
<1>1. ASSUME NEW k \in Helper, k # h PROVE Fine(k)'
  <2>1. /\ helper'[k] = helper[k] /\ task'[k] = task[k]
        /\ up'[k] = up[k] /\ down'[k] = down[k]
        /\ (k \in granted') <=> (k \in granted)
        /\ address' = address /\ root' = root
        /\ \/ host' = host
           \/ host' # "down" /\ task[k] \notin Spawned \cup {"serve", "init"}
        /\ owner' = k => owner = k
    BY <1>1, PortalAssumption, Zenon DEF Only
  <2>2. HostOpen(k)' <=> HostOpen(k)
    BY <2>1, Zenon DEF HostOpen
  <2>3. HelperOpen(k)' <=> HelperOpen(k)
    BY <2>1, Zenon DEF HelperOpen
  <2>4. Fine(k)
    BY Zenon DEF Inv, Fine
  <2>5. Present(k)'
    BY <2>1, <2>2, <2>3, <2>4, Zenon DEF Fine, Present
  <2>6. Paired(k)'
    BY <2>1, <2>2, <2>3, <2>4, Zenon DEF Fine, Paired
  <2>7. Answered(k)'
    BY <2>1, <2>4, Zenon DEF Fine, Answered
  <2>8. Placed(k)'
    BY <2>1, <2>4, Zenon DEF Fine, Placed
  <2> QED
    BY <2>5, <2>6, <2>7, <2>8, Zenon DEF Fine
<1>2. \A k \in Helper : Fine(k)'
  BY <1>1, Zenon
<1>3. \A k, l \in Helper : task'[k] = "init" /\ task'[l] = "init" => k = l
  <2>1. \A k \in Helper \ {h} : task'[k] = task[k]
    BY Zenon DEF Only
  <2> QED
    BY <2>1, Zenon DEF Inv, Only
<1> QED
  BY <1>2, <1>3, Zenon DEF Inv, Fine

-----------------------------------------------------------------------------
(* Steps of the helper.                                                    *)

(* Before the helper has a connection, nothing depends on it.              *)
LEMMA EarlyInv ==
  ASSUME Inv, NEW h \in Helper, Activate(h) \/ ParseAddress(h) PROVE Inv'
<1>1. /\ helper[h] \in {"idle", "start"} /\ task[h] = "none"
      /\ UNCHANGED <<guest, up, down, host, task, bus>>
  BY Zenon DEF Inv, Present, Activate, ParseAddress
<1>2. PICK s \in {"start", "connect", "ok", "failed"} :
        /\ helper' = [helper EXCEPT ![h] = s]
        /\ s = "ok" => address = "other"
        /\ s = "connect" => address # "other"
  <2>1. CASE Activate(h)
    BY <2>1, Zenon DEF Activate, Goto
  <2>2. CASE ParseAddress(h)
    BY <2>2, Zenon DEF ParseAddress, Goto, Inv, TypeOK
  <2> QED
    BY <2>1, <2>2, Zenon
<1>3. helper'[h] = s /\ \A k \in Helper \ {h} : helper'[k] = helper[k]
  BY <1>2, Zenon DEF Inv, TypeOK
<1>4. TypeOK'
  BY <1>1, <1>2, Zenon DEF Inv, TypeOK, guest, bus, Running
<1>5. Only(h)
  BY <1>1, <1>3, Zenon DEF Only, guest, bus
<1>6. Fine(h)
  BY Zenon DEF Inv, Fine
<1>7. /\ task'[h] = "none" /\ up'[h] = up[h] /\ down'[h] = down[h]
      /\ address' = address /\ root' = root /\ owner' = owner /\ granted' = granted
  BY <1>1, Zenon DEF guest, bus
<1>8. Present(h)' /\ Paired(h)'
  BY <1>1, <1>2, <1>3, <1>6, <1>7, Zenon DEF Fine, Present, Paired, HostOpen, HelperOpen, Connected,
    Spawned, Reading
<1>9. Answered(h)' /\ Placed(h)'
  BY <1>1, <1>2, <1>3, <1>6, <1>7, Zenon DEF Fine, Answered, Placed, Spawned, Reading
<1> QED
  BY <1>4, <1>5, <1>8, <1>9, Step, Zenon DEF Fine

LEMMA ConnectHostInv ==
  ASSUME Inv, NEW h \in Helper, ConnectHost(h) PROVE Inv'
<1>1. /\ helper[h] = "connect" /\ task[h] = "none"
      /\ UNCHANGED <<guest, up, down, host, bus>>
  BY Zenon DEF Inv, Present, ConnectHost
<1>2. CASE host = "down"
  <2>1. helper' = [helper EXCEPT ![h] = "failed"] /\ task' = task
    BY <1>2, Zenon DEF ConnectHost, Goto
  <2>2. TypeOK'
    BY <1>1, <2>1, Zenon DEF Inv, TypeOK, guest, bus
  <2>3. helper'[h] = "failed" /\ \A k \in Helper \ {h} : helper'[k] = helper[k]
    BY <2>1, Zenon DEF Inv, TypeOK
  <2>4. Only(h)
    BY <1>1, <2>1, <2>3, Zenon DEF Only, guest, bus
  <2>5. Fine(h)'
    BY <1>1, <2>1, <2>3, Zenon DEF Inv, Fine, Present, Paired, Answered, Placed, HostOpen,
      HelperOpen, Connected, Spawned, Reading, guest, bus
  <2> QED
    BY <2>2, <2>4, <2>5, Step, Zenon
<1>3. CASE host # "down"
  <2>1. /\ helper' = [helper EXCEPT ![h] = "handshake"]
        /\ task' = [task EXCEPT ![h] = "backlog"]
    BY <1>3, Zenon DEF ConnectHost, Goto, TaskGoto
  <2>2. TypeOK'
    BY <1>1, <2>1, Zenon DEF Inv, TypeOK, guest, bus, Running, Connected
  <2>3. /\ helper'[h] = "handshake" /\ task'[h] = "backlog"
        /\ \A k \in Helper \ {h} : helper'[k] = helper[k] /\ task'[k] = task[k]
    BY <2>1, Zenon DEF Inv, TypeOK
  <2>4. Only(h)
    BY <1>1, <2>3, Zenon DEF Only, guest, bus
  <2>5. up'[h] = <<>> /\ down'[h] = <<>> /\ address # "other"
    BY <1>1, Zenon DEF Inv, Present
  <2>6. Taken(task'[h]) = 0 /\ Written(helper'[h]) = 0
    BY <2>3, Positions, Zenon
  <2>7. Present(h)' /\ Paired(h)'
    BY <1>1, <2>3, <2>5, <2>6, Nothing DEF Present, Paired, Connected, guest
  <2>8. Answered(h)' /\ Placed(h)'
    BY <1>1, <1>3, <2>3, <2>5, Zenon DEF Inv, Answered, Placed, Spawned, Reading, guest, bus
  <2> QED
    BY <2>2, <2>4, <2>7, <2>8, Step, Zenon DEF Fine
<1> QED
  BY <1>2, <1>3, Zenon

(* The connection was cut: the helper goes on or ends, on its own.         *)
LEMMA CutMove ==
  ASSUME Inv, NEW h \in Helper, task[h] = "cut", HelperOpen(h),
         NEW s \in Connected \cup {"ok", "failed"}, helper' = [helper EXCEPT ![h] = s],
         NEW d \in Seq({"version", "good", "bad"}), down' = [down EXCEPT ![h] = d],
         UNCHANGED <<guest, up, host, task, bus>>
  PROVE  Inv'
<1>1. TypeOK'
  BY Zenon DEF Inv, TypeOK, guest, bus, Running
<1>2. /\ helper'[h] = s /\ task'[h] = "cut"
      /\ \A k \in Helper \ {h} : helper'[k] = helper[k] /\ down'[k] = down[k]
  BY Zenon DEF Inv, TypeOK
<1>3. Only(h)
  BY <1>2, Zenon DEF Only, guest, bus
<1>4. Fine(h)'
  BY <1>2, Zenon DEF Inv, Fine, Present, Paired, Answered, Placed, HostOpen, HelperOpen, Connected,
    Spawned, Reading, guest, bus
<1> QED
  BY <1>1, <1>3, <1>4, Step, Zenon

(* A helper whose end is open and whose host end is not was cut, unless it *)
(* waits for the result.                                                   *)
LEMMA ClosedMeansCut ==
  ASSUME Inv, NEW h \in Helper, HelperOpen(h), ~HostOpen(h), helper[h] # "result"
  PROVE  task[h] = "cut"
  BY Zenon DEF Inv, TypeOK, Present, Answered, HelperOpen, HostOpen, Connected

(* A write while both ends are open appends what the script says.          *)
LEMMA OpenWrite ==
  ASSUME Inv, NEW h \in Helper, HelperOpen(h), HostOpen(h),
         NEW s \in Connected, NEW items \in Seq(Reading),
         helper' = [helper EXCEPT ![h] = s], up' = [up EXCEPT ![h] = @ \o items],
         UNCHANGED <<guest, down, host, task, bus>>,
         Taken(task[h]) <= Written(s), s # "port",
         s # "version" =>
           task[h] \in {"port", "len", "root", "connect", "build", "good", "bad"},
         ~(helper[h] = "version" /\ task[h] = "port"),
         ~(s = "version" /\ task[h] = "port"),
         SubSeq(Script, Taken(task[h]) + 1, Written(helper[h])) \o items =
           SubSeq(Script, Taken(task[h]) + 1, Written(s))
  PROVE  Inv'
<1>1. up[h] \in Seq(Reading) /\ up[h] \o items \in Seq(Reading)
  BY DEF Inv, TypeOK
<1>2. TypeOK'
  BY <1>1, Zenon DEF Inv, TypeOK, guest, bus, Running
<1>3. /\ helper'[h] = s /\ task'[h] = task[h] /\ up'[h] = up[h] \o items
      /\ down'[h] = down[h]
      /\ \A k \in Helper \ {h} : helper'[k] = helper[k] /\ up'[k] = up[k]
  BY Zenon DEF Inv, TypeOK
<1>4. Only(h)
  BY <1>3, Zenon DEF Only, guest, bus
<1>5. Paired(h)
  BY Zenon DEF Inv
<1>6. Paired(h)'
  BY <1>3, <1>5, Zenon DEF Paired
<1>7. Present(h)' /\ Answered(h)' /\ Placed(h)'
  BY <1>3, Zenon DEF Inv, Present, Answered, Placed, HostOpen, HelperOpen, Connected, Spawned,
    Reading, guest, bus
<1> QED
  BY <1>2, <1>4, <1>6, <1>7, Step, Zenon DEF Fine

LEMMA WriteHandshakeInv ==
  ASSUME Inv, NEW h \in Helper, WriteHandshake(h) PROVE Inv'
<1>1. /\ helper[h] = "handshake" /\ write_all(h, <<"count", "versions">>, "version")
      /\ UNCHANGED <<guest, down, host, task, bus>> /\ HelperOpen(h)
  BY Zenon DEF WriteHandshake, write_all, HelperOpen, Connected
<1>2. CASE HostOpen(h)
  <2>1. /\ helper' = [helper EXCEPT ![h] = "version"]
        /\ up' = [up EXCEPT ![h] = @ \o <<"count", "versions">>]
    BY <1>1, <1>2, Zenon DEF write_all, Goto
  <2>2. Taken(task[h]) <= 0 /\ Written(helper[h]) = 0 /\ Written("version") = 2
    BY <1>1, <1>2, Positions, Zenon DEF Inv, Paired
  <2>3. task[h] \in {"backlog", "init", "count"}
    BY <1>2, <2>2, Positions DEF HostOpen, Spawned, Reading
  <2>4. Taken(task[h]) = 0
    BY <2>3, Positions, Zenon
  <2>5. SubSeq(Script, 0 + 1, 0) \o <<"count", "versions">> = SubSeq(Script, 0 + 1, 2)
    BY Nothing, WriteFirst
  <2>6. <<"count", "versions">> \in Seq(Reading)
    BY DEF Reading
  <2> QED
    <3>1. /\ "version" \in Connected /\ Taken(task[h]) <= Written("version")
          /\ helper[h] # "version" /\ task[h] # "port"
      BY <1>1, <2>2, <2>3, <2>4 DEF Connected
    <3>2. SubSeq(Script, Taken(task[h]) + 1, Written(helper[h])) \o <<"count", "versions">> =
            SubSeq(Script, Taken(task[h]) + 1, Written("version"))
      BY <2>2, <2>4, <2>5, Zenon
    <3> QED
      BY <1>1, <1>2, <2>1, <2>6, <3>1, <3>2, OpenWrite, Zenon
<1>3. CASE ~HostOpen(h)
  <2>1. task[h] = "cut"
    BY <1>1, <1>3, ClosedMeansCut, Zenon
  <2>2. PICK s \in {"version", "failed"} : helper' = [helper EXCEPT ![h] = s]
    BY <1>1, <1>3, Zenon DEF write_all, Goto
  <2>3. up' = up /\ down' = [down EXCEPT ![h] = down[h]]
        /\ down[h] \in Seq({"version", "good", "bad"})
    BY <1>1, <1>3, Zenon DEF write_all, Inv, TypeOK
  <2> QED
    BY <1>1, <2>1, <2>2, <2>3, CutMove, Zenon DEF Connected
<1> QED
  BY <1>2, <1>3, Zenon

(* The three writes of send_info.                                          *)
LEMMA SendInv ==
  ASSUME Inv, NEW h \in Helper, SendPort(h) \/ SendLen(h) \/ SendRoot(h) PROVE Inv'
<1>1. PICK b \in 2 .. 4, s \in {"len", "root", "result"} :
        /\ helper[h] \in {"port", "len", "root"}
        /\ Written(helper[h]) = b /\ Written(s) = b + 1
        /\ write_all(h, <<Script[b + 1]>>, s)
  <2>1. CASE SendPort(h)
    BY <2>1, Positions, ScriptType DEF SendPort
  <2>2. CASE SendLen(h)
    BY <2>2, Positions, ScriptType DEF SendLen
  <2>3. CASE SendRoot(h)
    BY <2>3, Positions, ScriptType DEF SendRoot
  <2> QED
    BY <2>1, <2>2, <2>3, Zenon
<1>2. HelperOpen(h) /\ UNCHANGED <<guest, down, host, task, bus>>
  BY <1>1, Zenon DEF write_all, HelperOpen, Connected
<1>3. CASE HostOpen(h)
  <2>1. /\ helper' = [helper EXCEPT ![h] = s]
        /\ up' = [up EXCEPT ![h] = @ \o <<Script[b + 1]>>]
    BY <1>1, <1>3, Zenon DEF write_all, Goto
  <2>2. /\ task[h] \in {"port", "len", "root", "connect", "build", "good", "bad"}
        /\ Taken(task[h]) <= b
    BY <1>1, <1>2, <1>3, Zenon DEF Inv, Paired
  <2>3. Taken(task[h]) \in 0 .. 5
    BY <2>2, Positions
  <2>4. SubSeq(Script, Taken(task[h]) + 1, b) \o <<Script[b + 1]>> =
          SubSeq(Script, Taken(task[h]) + 1, b + 1)
    <3>1. PICK a \in 0 .. 5 : a = Taken(task[h])
      BY <2>3, Zenon
    <3>2. a <= b /\ b \in 0 .. 4
      BY <2>2, <3>1
    <3>3. SubSeq(Script, a + 1, b) \o <<Script[b + 1]>> = SubSeq(Script, a + 1, b + 1)
      BY <3>2, WriteNext, Zenon
    <3> QED
      BY <3>1, <3>3, Zenon
  <2>5. <<Script[b + 1]>> \in Seq(Reading)
    <3>1. b + 1 \in {3, 4, 5}
      OBVIOUS
    <3>2. Script[b + 1] \in Reading
      BY <3>1, ScriptType, Zenon DEF Reading
    <3> QED
      BY <3>2
  <2>6. Taken(task[h]) <= Written(s)
    BY <1>1, <2>2, <2>3
  <2>7. s \in Connected /\ s # "port" /\ s # "version" /\ helper[h] # "version"
    BY <1>1, Zenon DEF Connected
  <2> QED
    BY <1>1, <1>2, <1>3, <2>1, <2>2, <2>4, <2>5, <2>6, <2>7, OpenWrite, Zenon
<1>4. CASE ~HostOpen(h)
  <2>1. task[h] = "cut"
    BY <1>1, <1>2, <1>4, ClosedMeansCut, Zenon
  <2>2. PICK t \in {s, "failed"} : helper' = [helper EXCEPT ![h] = t]
    BY <1>1, <1>4, Zenon DEF write_all, Goto
  <2>3. up' = up /\ down' = [down EXCEPT ![h] = down[h]]
        /\ down[h] \in Seq({"version", "good", "bad"})
    BY <1>1, <1>2, <1>4, Zenon DEF write_all, Inv, TypeOK
  <2>4. t \in Connected \cup {"ok", "failed"}
    BY <1>1, <2>2, Zenon DEF Connected
  <2> QED
    BY <1>2, <2>1, <2>2, <2>3, <2>4, CutMove, Zenon
<1> QED
  BY <1>3, <1>4, Zenon

(* An item of the host's, or the end of the stream, in connect_to_host.    *)
LEMMA ReadVersionInv ==
  ASSUME Inv, NEW h \in Helper, ReadVersion(h) PROVE Inv'
<1>1. /\ helper[h] = "version" /\ HelperOpen(h)
      /\ UNCHANGED <<guest, up, host, task, bus>>
  BY Zenon DEF ReadVersion, HelperOpen, Connected
<1>2. CASE HostOpen(h)
  <2>1. /\ down[h] # <<>> /\ down' = [down EXCEPT ![h] = Tail(@)]
        /\ helper' = [helper EXCEPT ![h] = IF Head(down[h]) = "version" THEN "port" ELSE "failed"]
    BY <1>2, Zenon DEF ReadVersion, DownEnds, Goto
  <2>2. task[h] = "port" /\ down[h] = <<"version">>
    BY <1>1, <1>2, <2>1, Zenon DEF Inv, Paired
  <2>3. helper' = [helper EXCEPT ![h] = "port"] /\ down' = [down EXCEPT ![h] = <<>>]
    BY <2>1, <2>2
  <2>4. TypeOK'
    BY <1>1, <2>3 DEF Inv, TypeOK, guest, bus, Running, Connected
  <2>5. /\ helper'[h] = "port" /\ task'[h] = "port" /\ up'[h] = up[h] /\ down'[h] = <<>>
        /\ \A k \in Helper \ {h} : helper'[k] = helper[k] /\ down'[k] = down[k]
    BY <1>1, <2>2, <2>3, Zenon DEF Inv, TypeOK
  <2>6. Only(h)
    BY <1>1, <2>5, Zenon DEF Only, guest, bus
  <2>7. Written("port") = Written("version") /\ Taken("port") <= Written("port")
    BY Positions
  <2>8. Paired(h)
    BY Zenon DEF Inv
  <2>9. Paired(h)'
    BY <1>1, <1>2, <2>2, <2>5, <2>7, <2>8, Zenon DEF Paired
  <2>10. Present(h)' /\ Answered(h)' /\ Placed(h)'
    BY <1>1, <2>2, <2>5, Zenon DEF Inv, Present, Answered, Placed, HostOpen, HelperOpen, Connected,
      Spawned, Reading, guest, bus
  <2> QED
    BY <2>4, <2>6, <2>9, <2>10, Step, Zenon DEF Fine
<1>3. CASE ~HostOpen(h)
  <2>1. task[h] = "cut"
    BY <1>1, <1>3, ClosedMeansCut, Zenon
  <2>2. PICK s \in {"port", "failed"}, d \in {down[h], Tail(down[h])} :
          /\ helper' = [helper EXCEPT ![h] = s] /\ down' = [down EXCEPT ![h] = d]
          /\ d = down[h] \/ down[h] # <<>>
    BY Zenon DEF ReadVersion, Goto, Inv, TypeOK
  <2>3. d \in Seq({"version", "good", "bad"})
    <3>1. down[h] \in Seq({"version", "good", "bad"})
      BY Zenon DEF Inv, TypeOK
    <3> QED
      BY <2>2, <3>1, HeadTailProperties, Zenon
  <2> QED
    BY <1>1, <2>1, <2>2, <2>3, CutMove, Zenon DEF Connected
<1> QED
  BY <1>2, <1>3, Zenon

(* The result is what the host sent; only a cut connection has none.       *)
LEMMA CheckResultInv ==
  ASSUME Inv, NEW h \in Helper, check_result(h) PROVE Inv'
<1>1. /\ helper[h] = "result" /\ HelperOpen(h)
      /\ UNCHANGED <<guest, up, host, task, bus>>
  BY Zenon DEF check_result, HelperOpen, Connected
<1>2. ~HostOpen(h)
  BY <1>1, Zenon DEF check_result, DownEnds, Inv, Paired
<1>3. task[h] \in {"cut", "serve", "done"}
  BY <1>1, <1>2, Zenon DEF Inv, TypeOK, Present, HostOpen
<1>4. CASE task[h] = "cut"
  <2>1. PICK s \in {"ok", "failed"}, d \in {down[h], Tail(down[h])} :
          /\ helper' = [helper EXCEPT ![h] = s] /\ down' = [down EXCEPT ![h] = d]
          /\ d = down[h] \/ down[h] # <<>>
    BY Zenon DEF check_result, Goto, Inv, TypeOK
  <2>2. d \in Seq({"version", "good", "bad"})
    <3>1. down[h] \in Seq({"version", "good", "bad"})
      BY Zenon DEF Inv, TypeOK
    <3> QED
      BY <2>1, <3>1, HeadTailProperties, Zenon
  <2> QED
    BY <1>1, <1>4, <2>1, <2>2, CutMove, Zenon
<1>5. CASE task[h] # "cut"
  <2>1. /\ up[h] = <<>>
        /\ \/ down[h] = <<"good">> /\ h \in granted
           \/ down[h] = <<"bad">> /\ task[h] = "done"
    BY <1>1, <1>3, <1>5, Zenon DEF Inv, Answered
  <2>2. /\ down' = [down EXCEPT ![h] = Tail(@)]
        /\ helper' = [helper EXCEPT ![h] = IF Head(down[h]) = "good" THEN "ok" ELSE "failed"]
    BY <2>1 DEF check_result, DownEnds, Goto
  <2>3. PICK s \in {"ok", "failed"} :
          /\ helper' = [helper EXCEPT ![h] = s]
          /\ s = "ok" => h \in granted
          /\ s = "failed" => task[h] = "done"
    <3>1. CASE down[h] = <<"good">> /\ h \in granted
      BY <2>2, <3>1
    <3>2. CASE down[h] = <<"bad">> /\ task[h] = "done"
      BY <2>2, <3>2
    <3> QED
      BY <2>1, <3>1, <3>2, Zenon
  <2>4. down' = [down EXCEPT ![h] = <<>>]
    <3>1. Tail(<<"good">>) = <<>> /\ Tail(<<"bad">>) = <<>>
      OBVIOUS
    <3> QED
      BY <2>1, <2>2, <3>1, Zenon
  <2>5. TypeOK'
    BY <1>1, <2>3, <2>4 DEF Inv, TypeOK, guest, bus
  <2>6. /\ helper'[h] = s /\ task'[h] = task[h]
        /\ \A k \in Helper \ {h} : helper'[k] = helper[k] /\ down'[k] = down[k]
    BY <1>1, <2>3, <2>4, Zenon DEF Inv, TypeOK
  <2>7. Only(h)
    BY <1>1, <2>6, Zenon DEF Only, guest, bus
  <2>8. Fine(h)'
    BY <1>1, <1>2, <1>3, <1>5, <2>3, <2>6, Zenon DEF Inv, Fine, Present, Paired, Answered, Placed,
      HostOpen, HelperOpen, Connected, Spawned, Reading, guest, bus
  <2> QED
    BY <2>5, <2>7, <2>8, Step, Zenon
<1> QED
  BY <1>4, <1>5, Zenon

LEMMA KillHelperInv ==
  ASSUME Inv, NEW h \in Helper, KillHelper(h) PROVE Inv'
<1>1. /\ helper' = [helper EXCEPT ![h] = "killed"]
      /\ UNCHANGED <<guest, up, down, host, task, bus>>
  BY Zenon DEF KillHelper, Goto
<1>2. TypeOK'
  BY <1>1, Zenon DEF Inv, TypeOK, guest, bus
<1>3. helper'[h] = "killed" /\ \A k \in Helper \ {h} : helper'[k] = helper[k]
  BY <1>1, Zenon DEF Inv, TypeOK
<1>4. Only(h)
  BY <1>1, <1>3, Zenon DEF Only, guest, bus
<1>5. Fine(h)'
  BY <1>1, <1>3, Zenon DEF Inv, Fine, Present, Paired, Answered, Placed, HostOpen, HelperOpen,
    Connected, Spawned, Reading, guest, bus
<1> QED
  BY <1>2, <1>4, <1>5, Step, Zenon

-----------------------------------------------------------------------------
(* Steps of the host portal's process.                                     *)

(* The process ends: no connection has an open end on the host.            *)
LEMMA HostEndsInv == ASSUME Inv, HostEnds PROVE Inv'
<1>1. /\ UNCHANGED <<address, root, helper, up, down, granted>>
      /\ host' = "down" /\ owner' = None
  BY Zenon DEF HostEnds, guest
<1>2. ASSUME NEW h \in Helper
      PROVE  /\ task'[h] = IF HostOpen(h) THEN "cut"
                           ELSE IF task[h] = "serve" THEN "done" ELSE task[h]
             /\ task'[h] \in {"none", "cut", "done"}
             /\ (task'[h] = "none") <=> (task[h] = "none")
             /\ task[h] = "cut" => task'[h] = "cut"
             /\ task'[h] = "done" => task[h] \in {"serve", "done"}
  <2>1. task'[h] = IF HostOpen(h) THEN "cut"
                   ELSE IF task[h] = "serve" THEN "done" ELSE task[h]
    BY Zenon DEF HostEnds
  <2>2. HostOpen(h) \/ task[h] \in {"none", "serve", "cut", "done"}
    BY Zenon DEF Inv, TypeOK, HostOpen
  <2>3. HostOpen(h) => task[h] \notin {"none", "serve", "cut", "done"}
    BY Zenon DEF HostOpen, Spawned, Reading
  <2> QED
    BY <2>1, <2>2, <2>3, Zenon
<1>3. TypeOK'
  <2>1. task' \in [Helper -> {"none", "cut", "done"}]
    BY <1>2, Zenon DEF HostEnds
  <2> QED
    BY <1>1, <2>1, Zenon DEF Inv, TypeOK
<1>4. ASSUME NEW h \in Helper PROVE Fine(h)'
  <2>1. ~HostOpen(h)'
    BY <1>2, Zenon DEF HostOpen, Spawned, Reading
  <2>2. HelperOpen(h)' <=> HelperOpen(h)
    BY <1>1, Zenon DEF HelperOpen
  <2>3. Present(h)' /\ Paired(h)'
    BY <1>1, <1>2, <2>1, <2>2, Zenon DEF Inv, Present, Paired
  <2>4. Answered(h)'
    BY <1>1, <1>2, Zenon DEF Inv, Answered
  <2>5. Placed(h)'
    BY <1>1, <1>2, PortalAssumption, Zenon DEF Inv, Placed, Spawned, Reading
  <2> QED
    BY <2>3, <2>4, <2>5, Zenon DEF Fine
<1>5. \A h \in Helper : task'[h] # "init"
  BY <1>2, Zenon
<1> QED
  BY <1>3, <1>4, <1>5, Zenon DEF Inv, Fine

(* Only the process's own stage changes.                                   *)
LEMMA HostRestartsInv == ASSUME Inv, HostRestarts PROVE Inv'
<1>1. /\ UNCHANGED <<address, root, helper, up, down, task, owner, granted>>
      /\ host = "down" /\ host' = "fresh"
  BY Zenon DEF HostRestarts, guest, bus
<1>2. TypeOK'
  BY <1>1, Zenon DEF Inv, TypeOK
<1>3. ASSUME NEW h \in Helper PROVE Fine(h)'
  <2>1. (HostOpen(h)' <=> HostOpen(h)) /\ (HelperOpen(h)' <=> HelperOpen(h))
    BY <1>1, Zenon DEF HostOpen, HelperOpen
  <2>2. Present(h)' /\ Paired(h)' /\ Answered(h)'
    BY <1>1, <2>1, Zenon DEF Inv, Present, Paired, Answered
  <2>3. Placed(h)'
    BY <1>1, Zenon DEF Inv, Placed
  <2> QED
    BY <2>2, <2>3, Zenon DEF Fine
<1> QED
  BY <1>1, <1>2, <1>3, Zenon DEF Inv, Fine

LEMMA AcceptInv == ASSUME Inv, NEW h \in Helper, Accept(h) PROVE Inv'
<1>1. PICK s \in {"count", "init"} :
        /\ task' = [task EXCEPT ![h] = s]
        /\ s = "count" => host = "ready" /\ host' = "ready"
        /\ s = "init" => host = "fresh" /\ host' = "init"
  BY Zenon DEF Accept, TaskGoto
<1>2. task[h] = "backlog" /\ UNCHANGED <<address, root, helper, up, down, owner, granted>>
  BY Zenon DEF Accept, guest, bus
<1>3. TypeOK'
  BY <1>1, <1>2, Zenon DEF Inv, TypeOK, Spawned, Reading
<1>4. task'[h] = s /\ \A k \in Helper \ {h} : task'[k] = task[k]
  BY <1>1, Zenon DEF Inv, TypeOK
<1>5. s = "init" =>
        \A k \in Helper \ {h} : task[k] \notin Spawned \cup {"serve", "init"}
  BY <1>1, Zenon DEF Inv, Placed
<1>6. Only(h)
  BY <1>1, <1>2, <1>4, <1>5, Zenon DEF Only
<1>7. Taken(task'[h]) = Taken(task[h])
  BY <1>2, <1>4, Positions, Zenon
<1>8. HostOpen(h) /\ HostOpen(h)' /\ (HelperOpen(h)' <=> HelperOpen(h))
  BY <1>2, <1>4, Zenon DEF HostOpen, HelperOpen, Spawned, Reading
<1>9. Paired(h)'
  <2>1. Paired(h)
    BY Zenon DEF Inv
  <2>2. task[h] # "port" /\ task'[h] # "port"
        /\ task[h] \notin {"port", "len", "root", "connect", "build", "good", "bad"}
    BY <1>2, <1>4, Zenon
  <2> QED
    BY <1>2, <1>7, <1>8, <2>1, <2>2, Zenon DEF Paired
<1>10. Present(h)' /\ Answered(h)' /\ Placed(h)'
  BY <1>1, <1>2, <1>4, <1>8, Zenon DEF Inv, Present, Answered, Placed, Spawned, Reading
<1> QED
  BY <1>3, <1>6, <1>9, <1>10, Step, Zenon DEF Fine

LEMMA InitializeInv == ASSUME Inv, NEW h \in Helper, Initialize(h) PROVE Inv'
<1>1. CASE HostEnds
  BY <1>1, HostEndsInv, Zenon
<1>2. CASE ~HostEnds
  <2>1. /\ task[h] = "init" /\ host = "init" /\ host' = "ready"
        /\ task' = [task EXCEPT ![h] = "count"]
        /\ UNCHANGED <<address, root, helper, up, down, owner, granted>>
    BY <1>2, Zenon DEF Initialize, TaskGoto, guest, bus
  <2>2. TypeOK'
    BY <2>1, Zenon DEF Inv, TypeOK, Spawned, Reading
  <2>3. task'[h] = "count" /\ \A k \in Helper \ {h} : task'[k] = task[k]
    BY <2>1, Zenon DEF Inv, TypeOK
  <2>4. \A k \in Helper \ {h} : task[k] \notin Spawned \cup {"serve", "init"}
    BY <2>1, Zenon DEF Inv, Placed
  <2>5. Only(h)
    BY <2>1, <2>3, <2>4, Zenon DEF Only
  <2>6. Taken(task'[h]) = Taken(task[h])
    BY <2>1, <2>3, Positions, Zenon
  <2>7. HostOpen(h) /\ HostOpen(h)' /\ (HelperOpen(h)' <=> HelperOpen(h))
    BY <2>1, <2>3, Zenon DEF HostOpen, HelperOpen, Spawned, Reading
  <2>8. Paired(h)'
    <3>1. Paired(h)
      BY Zenon DEF Inv
    <3>2. task[h] # "port" /\ task'[h] # "port"
          /\ task[h] \notin {"port", "len", "root", "connect", "build", "good", "bad"}
      BY <2>1, <2>3, Zenon
    <3> QED
      BY <2>1, <2>6, <2>7, <3>1, <3>2, Zenon DEF Paired
  <2>9. Present(h)' /\ Answered(h)' /\ Placed(h)'
    BY <2>1, <2>3, <2>7, Zenon DEF Inv, Present, Answered, Placed, Spawned, Reading
  <2> QED
    BY <2>2, <2>5, <2>8, <2>9, Step, Zenon DEF Fine
<1> QED
  BY <1>1, <1>2, Zenon

-----------------------------------------------------------------------------
(* Steps of a task.                                                        *)

LEMMA EndTaskInv ==
  ASSUME Inv, NEW h \in Helper, task[h] \in Reading \cup {"reply"}, EndTask(h)
  PROVE  Inv'
<1>1. /\ task' = [task EXCEPT ![h] = "cut"]
      /\ UNCHANGED <<address, root, helper, up, down, host, owner, granted>>
  BY Zenon DEF EndTask, TaskGoto, guest, bus
<1>2. TypeOK'
  BY <1>1, Zenon DEF Inv, TypeOK
<1>3. task'[h] = "cut" /\ \A k \in Helper \ {h} : task'[k] = task[k]
  BY <1>1, Zenon DEF Inv, TypeOK
<1>4. Only(h)
  BY <1>1, <1>3, Zenon DEF Only
<1>5. Present(h)' /\ Paired(h)'
  BY <1>1, <1>3, Zenon DEF Inv, Present, Paired, HostOpen, HelperOpen, Connected, Spawned, Reading
<1>6. Answered(h)' /\ Placed(h)'
  BY <1>1, <1>3, Zenon DEF Inv, Answered, Placed, Spawned, Reading
<1> QED
  BY <1>2, <1>4, <1>5, <1>6, Step, Zenon DEF Fine

(* Which stage follows a read_exact.                                       *)
After(s, t) ==
  \/ s = "count" /\ t = "versions"
  \/ s = "versions" /\ t = "reply"
  \/ s = "port" /\ t = "len"
  \/ s = "len" /\ t = "root"
  \/ s = "root" /\ t = "bad"
  \/ s = "root" /\ t = "connect" /\ root = "absolute"

(* Every read_exact gets the item it is meant for.                         *)
LEMMA ReadInv ==
  ASSUME Inv, NEW h \in Helper, NEW t, After(task[h], t), read_exact(h, t)
  PROVE  Inv'
<1>1. /\ task[h] \in Reading /\ HostOpen(h)
      /\ t \in {"versions", "reply", "len", "root", "bad", "connect"}
      /\ t = "connect" => root = "absolute"
  BY Zenon DEF After, Reading, HostOpen, Spawned
<1>2. CASE UpEnds(h) /\ EndTask(h)
  BY <1>1, <1>2, EndTaskInv, Zenon
<1>3. CASE ~(UpEnds(h) /\ EndTask(h))
  <2>1. /\ up[h] # <<>> /\ up' = [up EXCEPT ![h] = Tail(@)]
        /\ task' = [task EXCEPT ![h] = t]
        /\ UNCHANGED <<address, root, helper, down, host, owner, granted>>
    BY <1>3, Zenon DEF read_exact, TaskGoto, guest, bus
  <2>2. up[h] \in Seq(Reading) /\ Tail(up[h]) \in Seq(Reading)
    <3>1. up[h] \in Seq(Reading)
      BY Zenon DEF Inv, TypeOK
    <3> QED
      BY <2>1, <3>1, HeadTailProperties, Zenon
  <2>3. TypeOK'
    BY <1>1, <2>1, <2>2, Zenon DEF Inv, TypeOK, Spawned, Reading
  <2>4. /\ task'[h] = t /\ up'[h] = Tail(up[h])
        /\ \A k \in Helper \ {h} : task'[k] = task[k] /\ up'[k] = up[k]
    BY <2>1, Zenon DEF Inv, TypeOK
  <2>5. Only(h)
    BY <1>1, <2>1, <2>4, Zenon DEF Only
  <2>6. ASSUME HelperOpen(h)
        PROVE  /\ up'[h] = SubSeq(Script, Taken(t) + 1, Written(helper[h]))
               /\ Taken(t) <= Written(helper[h])
               /\ helper[h] \in {"port", "len", "root", "result"} =>
                    t \in {"len", "root", "connect", "bad"}
               /\ down[h] = <<>>
    <3>1. PICK a \in 0 .. 5 : a = Taken(task[h])
      BY <1>1, Positions DEF Reading
    <3>2. PICK b \in 0 .. 5 : b = Written(helper[h])
      BY <2>6, Positions DEF HelperOpen, Connected
    <3>3. /\ up[h] = SubSeq(Script, a + 1, b) /\ a <= b
          /\ helper[h] \in {"port", "len", "root", "result"} =>
               task[h] \in {"port", "len", "root", "connect", "build", "good", "bad"}
          /\ down[h] = IF task[h] = "port" /\ helper[h] = "version"
                       THEN <<"version">> ELSE <<>>
      BY <1>1, <2>6, <3>1, <3>2, Zenon DEF Inv, Paired
    <3>4. a # b
      BY <2>1, <3>3, Nothing, Zenon
    <3>5. a < b
      BY <3>3, <3>4
    <3>6. Taken(t) = a + 1
      BY <3>1, Positions DEF After
    <3>7. up'[h] = SubSeq(Script, a + 2, b)
      BY <2>4, <3>3, <3>5, Read, Zenon
    <3>8. ~(task[h] = "port" /\ helper[h] = "version")
      BY <3>1, <3>2, <3>4, Positions, Zenon
    <3>9. Taken(t) + 1 = a + 2 /\ Taken(t) <= b
      BY <3>5, <3>6
    <3> QED
      BY <3>2, <3>3, <3>7, <3>8, <3>9, Zenon DEF After
  <2>7. t # "port" /\ (HelperOpen(h)' <=> HelperOpen(h))
    BY <1>1, <2>1, Zenon DEF HelperOpen
  <2>8. Paired(h)'
    BY <2>1, <2>4, <2>6, <2>7, Zenon DEF Paired
  <2>9. Present(h)'
    BY <1>1, <2>1, <2>4, <2>7, Zenon DEF Inv, Present, Reading
  <2>10. Answered(h)' /\ Placed(h)'
    BY <1>1, <2>1, <2>4, Zenon DEF Inv, Answered, Placed, Spawned, Reading
  <2> QED
    BY <2>3, <2>5, <2>8, <2>9, <2>10, Step, Zenon DEF Fine
<1> QED
  BY <1>2, <1>3, Zenon

LEMMA ReadsInv ==
  ASSUME Inv, NEW h \in Helper,
         ReadCount(h) \/ ReadVersions(h) \/ ReadPort(h) \/ ReadLen(h) \/ ReadRoot(h)
  PROVE  Inv'
<1>1. PICK t : After(task[h], t) /\ read_exact(h, t)
  <2>1. CASE ReadCount(h)
    BY <2>1, Zenon DEF ReadCount, After
  <2>2. CASE ReadVersions(h)
    BY <2>2, Zenon DEF ReadVersions, After
  <2>3. CASE ReadPort(h)
    BY <2>3, Zenon DEF ReadPort, After
  <2>4. CASE ReadLen(h)
    BY <2>4, Zenon DEF ReadLen, After
  <2>5. CASE ReadRoot(h)
    BY <2>5, Zenon DEF ReadRoot, After, Inv, TypeOK
  <2> QED
    BY <2>1, <2>2, <2>3, <2>4, <2>5, Zenon
<1> QED
  BY <1>1, ReadInv, Zenon

LEMMA WriteVersionInv == ASSUME Inv, NEW h \in Helper, WriteVersion(h) PROVE Inv'
<1>1. task[h] = "reply"
  BY Zenon DEF WriteVersion
<1>2. CASE EndTask(h)
  BY <1>1, <1>2, EndTaskInv, Zenon
<1>3. CASE ~EndTask(h)
  <2>1. /\ task' = [task EXCEPT ![h] = "port"]
        /\ down' = [down EXCEPT ![h] = Append(@, "version")]
        /\ UNCHANGED <<address, root, helper, up, host, owner, granted>>
    BY <1>3, Zenon DEF WriteVersion, TaskGoto, guest, bus
  <2>2. TypeOK'
    <3>1. down[h] \in Seq({"version", "good", "bad"})
      BY Zenon DEF Inv, TypeOK
    <3>2. Append(down[h], "version") \in Seq({"version", "good", "bad"})
      BY <3>1
    <3> QED
      BY <2>1, <3>2, Zenon DEF Inv, TypeOK, Spawned, Reading
  <2>3. /\ task'[h] = "port" /\ down'[h] = Append(down[h], "version")
        /\ \A k \in Helper \ {h} : task'[k] = task[k] /\ down'[k] = down[k]
    BY <2>1, Zenon DEF Inv, TypeOK
  <2>4. Only(h)
    BY <2>1, <2>3, Zenon DEF Only
  <2>5. HostOpen(h) /\ HostOpen(h)' /\ (HelperOpen(h)' <=> HelperOpen(h))
    BY <1>1, <2>1, <2>3, Zenon DEF HostOpen, HelperOpen, Spawned, Reading
  <2>6. ASSUME HelperOpen(h) PROVE helper[h] = "version" /\ down'[h] = <<"version">>
    <3>1. /\ helper[h] \notin {"port", "len", "root", "result"}
          /\ Taken(task[h]) <= Written(helper[h]) /\ down[h] = <<>>
      BY <1>1, <2>5, <2>6, Zenon DEF Inv, Paired
    <3>2. helper[h] = "version"
      BY <1>1, <2>6, <3>1, Positions DEF HelperOpen, Connected
    <3> QED
      BY <2>3, <3>1, <3>2
  <2>7. Taken("port") = Taken("reply")
    BY Positions, Zenon
  <2>8. Paired(h)'
    <3>1. Paired(h)
      BY Zenon DEF Inv
    <3> QED
      BY <1>1, <2>1, <2>3, <2>5, <2>6, <2>7, <3>1, Zenon DEF Paired
  <2>9. Present(h)' /\ Answered(h)' /\ Placed(h)'
    BY <1>1, <2>1, <2>3, <2>5, Zenon DEF Inv, Present, Answered, Placed, Spawned, Reading
  <2> QED
    BY <2>2, <2>4, <2>8, <2>9, Step, Zenon DEF Fine
<1> QED
  BY <1>2, <1>3, Zenon

(* Once it has read everything, a task moves on without the connection.    *)
LEMMA ReadAll ==
  ASSUME Inv, NEW h \in Helper, task[h] \in {"connect", "build", "good", "bad"}
  PROVE  /\ HostOpen(h)
         /\ helper[h] \in {"result", "killed"}
         /\ helper[h] = "result" => up[h] = <<>> /\ down[h] = <<>>
<1>1. HostOpen(h) /\ Taken(task[h]) = 5
  BY Positions, Zenon DEF HostOpen, Spawned
<1>2. helper[h] \in Connected \cup {"killed"}
  BY <1>1, Zenon DEF Inv, Present
<1>3. ASSUME helper[h] \in Connected
      PROVE  helper[h] = "result" /\ up[h] = <<>> /\ down[h] = <<>>
  <2>1. /\ up[h] = SubSeq(Script, 5 + 1, Written(helper[h]))
        /\ 5 <= Written(helper[h]) /\ down[h] = <<>>
    BY <1>1, <1>3, Zenon DEF Inv, Paired, HelperOpen
  <2>2. helper[h] = "result" /\ Written(helper[h]) = 5
    BY <1>3, <2>1, Positions DEF Connected
  <2> QED
    BY <2>1, <2>2, Nothing
<1> QED
  BY <1>1, <1>2, <1>3, Zenon

(* connect_to_guest and build.                                             *)
LEMMA BusInv ==
  ASSUME Inv, NEW h \in Helper, connect_to_guest(h) \/ build(h) PROVE Inv'
<1>1. PICK t \in {"build", "good", "bad"} :
        /\ task[h] \in {"connect", "build"} /\ task' = [task EXCEPT ![h] = t]
        /\ UNCHANGED <<address, root, helper, up, down, host>>
        /\ \/ t # "good" /\ owner' = owner /\ granted' = granted
           \/ t = "good" /\ owner = None /\ owner' = h /\ granted' = granted \cup {h}
  <2>1. CASE connect_to_guest(h)
    BY <2>1, Zenon DEF connect_to_guest, TaskGoto, guest, bus
  <2>2. CASE build(h)
    BY <2>2, Zenon DEF build, TaskGoto, guest, bus
  <2> QED
    BY <2>1, <2>2, Zenon
<1>2. TypeOK'
  BY <1>1, Zenon DEF Inv, TypeOK, Spawned
<1>3. task'[h] = t /\ \A k \in Helper \ {h} : task'[k] = task[k]
  BY <1>1, Zenon DEF Inv, TypeOK
<1>4. Only(h)
  BY <1>1, <1>3, Zenon DEF Only
<1>5. HostOpen(h) /\ HostOpen(h)' /\ (HelperOpen(h)' <=> HelperOpen(h))
  BY <1>1, <1>3, Zenon DEF HostOpen, HelperOpen, Spawned
<1>6. Taken(task'[h]) = 5 /\ Taken(task[h]) = 5
  BY <1>1, <1>3, Positions, Zenon
<1>7. Paired(h)'
  <2>1. Paired(h)
    BY Zenon DEF Inv
  <2>2. task[h] # "port" /\ task'[h] # "port"
        /\ task'[h] \in {"port", "len", "root", "connect", "build", "good", "bad"}
    BY <1>1, <1>3, Zenon
  <2> QED
    BY <1>1, <1>5, <1>6, <2>1, <2>2, Zenon DEF Paired
<1>8. Present(h)'
  BY <1>1, <1>3, <1>5, Zenon DEF Inv, Present
<1>9. Answered(h)' /\ Placed(h)'
  BY <1>1, <1>3, PortalAssumption, Zenon DEF Inv, Answered, Placed, Spawned, Reading
<1> QED
  BY <1>2, <1>4, <1>7, <1>8, <1>9, Step, Zenon DEF Fine

LEMMA AnswerInv == ASSUME Inv, NEW h \in Helper, Answer(h) PROVE Inv'
<1>1. /\ task[h] \in {"good", "bad"} /\ HostOpen(h)
      /\ helper[h] \in {"result", "killed"}
      /\ helper[h] = "result" => up[h] = <<>> /\ down[h] = <<>>
      /\ UNCHANGED <<address, root, helper, up, host, granted>>
  BY ReadAll, Zenon DEF Answer, guest
<1>2. PICK t \in {"serve", "done", "cut"}, d \in {down[h], Append(down[h], task[h])} :
        /\ task' = [task EXCEPT ![h] = t] /\ down' = [down EXCEPT ![h] = d]
        /\ t = "serve" => task[h] = "good"
        /\ t = "done" => task[h] = "bad"
        /\ t = "cut" => ~HelperOpen(h) /\ owner' = Free(h)
        /\ t # "cut" => owner' = owner /\ d = Append(down[h], task[h])
  BY Zenon DEF Answer, TaskGoto, Inv, TypeOK
<1>3. TypeOK'
  <2>1. down[h] \in Seq({"version", "good", "bad"})
    BY Zenon DEF Inv, TypeOK
  <2>2. d \in Seq({"version", "good", "bad"})
    BY <1>1, <1>2, <2>1
  <2>3. owner' \in Helper \cup {None}
    BY <1>2, Zenon DEF Free, Inv, TypeOK
  <2> QED
    BY <1>1, <1>2, <2>2, <2>3, Zenon DEF Inv, TypeOK
<1>4. /\ task'[h] = t /\ down'[h] = d
      /\ \A k \in Helper \ {h} : task'[k] = task[k] /\ down'[k] = down[k]
  BY <1>2, Zenon DEF Inv, TypeOK
<1>5. Only(h)
  BY <1>1, <1>2, <1>4, Zenon DEF Only, Free
<1>6. ~HostOpen(h)' /\ (HelperOpen(h)' <=> HelperOpen(h))
  BY <1>1, <1>4, Zenon DEF HostOpen, HelperOpen, Spawned, Reading
<1>7. Present(h)' /\ Paired(h)'
  BY <1>1, <1>4, <1>6, Zenon DEF Present, Paired
<1>8. t # "cut" /\ helper[h] = "result" => d = <<task[h]>>
  BY <1>1, <1>2
<1>9. Answered(h)'
  BY <1>1, <1>2, <1>4, <1>8, Zenon DEF Inv, Answered
<1>10. Placed(h)'
  BY <1>1, <1>2, <1>4, PortalAssumption, Zenon DEF Inv, Placed, Free, Spawned, Reading
<1> QED
  BY <1>3, <1>5, <1>7, <1>9, <1>10, Step, Zenon DEF Fine

LEMMA BusClosesInv == ASSUME Inv, NEW h \in Helper, BusCloses(h) PROVE Inv'
<1>1. owner' = None /\ UNCHANGED <<address, root, helper, up, down, host, task, granted>>
  BY Zenon DEF BusCloses, guest
<1>2. TypeOK'
  BY <1>1, Zenon DEF Inv, TypeOK
<1>3. Only(h)
  BY <1>1, Zenon DEF Only
<1>4. (HostOpen(h)' <=> HostOpen(h)) /\ (HelperOpen(h)' <=> HelperOpen(h))
  BY <1>1, Zenon DEF HostOpen, HelperOpen
<1>5. Present(h)' /\ Paired(h)' /\ Answered(h)'
  BY <1>1, <1>4, Zenon DEF Inv, Present, Paired, Answered
<1>6. Placed(h)'
  BY <1>1, PortalAssumption, Zenon DEF Inv, Placed
<1> QED
  BY <1>2, <1>3, <1>5, <1>6, Step, Zenon DEF Fine

LEMMA ServeEndsInv == ASSUME Inv, NEW h \in Helper, ServeEnds(h) PROVE Inv'
<1>1. /\ task[h] = "serve" /\ owner # h /\ task' = [task EXCEPT ![h] = "done"]
      /\ UNCHANGED <<address, root, helper, up, down, host, owner, granted>>
  BY Zenon DEF ServeEnds, TaskGoto, guest, bus
<1>2. TypeOK'
  BY <1>1, Zenon DEF Inv, TypeOK
<1>3. task'[h] = "done" /\ \A k \in Helper \ {h} : task'[k] = task[k]
  BY <1>1, Zenon DEF Inv, TypeOK
<1>4. Only(h)
  BY <1>1, <1>3, Zenon DEF Only
<1>5. Present(h)' /\ Paired(h)'
  BY <1>1, <1>3, Zenon DEF Inv, Present, Paired, HostOpen, HelperOpen, Connected, Spawned, Reading
<1>6. Answered(h)' /\ Placed(h)'
  BY <1>1, <1>3, Zenon DEF Inv, Answered, Placed, Spawned, Reading
<1> QED
  BY <1>2, <1>4, <1>5, <1>6, Step, Zenon DEF Fine

-----------------------------------------------------------------------------
LEMMA InitInv == ASSUME Init PROVE Inv
<1>1. TypeOK
  BY DEF Init, TypeOK
<1>2. ASSUME NEW h \in Helper PROVE Fine(h)
  BY PortalAssumption, Zenon DEF Init, Fine, Present, Paired, Answered, Placed, HostOpen,
     HelperOpen,
    Connected, Spawned, Reading
<1> QED
  BY <1>1, <1>2, Zenon DEF Inv, Fine, Init

LEMMA NextInv == ASSUME Inv, [Next]_vars PROVE Inv'
<1>1. CASE HostDies
  BY <1>1, HostEndsInv, Zenon DEF HostDies
<1>2. CASE HostRestarts
  BY <1>2, HostRestartsInv, Zenon
<1>3. ASSUME NEW h \in Helper, Activate(h) \/ HelperStep(h) \/ KillHelper(h) PROVE Inv'
  BY <1>3, EarlyInv, ConnectHostInv, WriteHandshakeInv, ReadVersionInv, SendInv,
    CheckResultInv, KillHelperInv, Zenon DEF HelperStep
<1>4. ASSUME NEW h \in Helper,
             Accept(h) \/ Initialize(h) \/ TaskStep(h) \/ BusCloses(h)
      PROVE  Inv'
  BY <1>4, AcceptInv, InitializeInv, ReadsInv, WriteVersionInv, BusInv, AnswerInv,
    BusClosesInv, ServeEndsInv, Zenon DEF TaskStep
<1>5. CASE UNCHANGED vars
  <2>1. UNCHANGED <<address, root, helper, up, down, host, task, owner, granted>>
    BY <1>5, Zenon DEF vars, guest, bus
  <2>2. TypeOK'
    BY <2>1, Zenon DEF Inv, TypeOK
  <2>3. ASSUME NEW h \in Helper PROVE Fine(h)'
    <3>1. (HostOpen(h)' <=> HostOpen(h)) /\ (HelperOpen(h)' <=> HelperOpen(h))
      BY <2>1, Zenon DEF HostOpen, HelperOpen
    <3>2. Present(h)' /\ Paired(h)' /\ Answered(h)' /\ Placed(h)'
      BY <2>1, <3>1, Zenon DEF Inv, Present, Paired, Answered, Placed
    <3> QED
      BY <3>2, Zenon DEF Fine
  <2> QED
    BY <2>1, <2>2, <2>3, Zenon DEF Inv, Fine
<1> QED
  BY <1>1, <1>2, <1>3, <1>4, <1>5, Zenon DEF Next

(* The invariant of the handshake between the guest's helper and           *)
(* run_guest_connection holds for any number of helpers and any faults.    *)
THEOREM Invariance == Spec => []Inv
<1>1. Init => Inv
  BY InitInv, Zenon
<1>2. Inv /\ [Next]_vars => Inv'
  BY NextInv, Zenon
<1> QED
  BY <1>1, <1>2, PTL DEF Spec

(* Each read_exact of main.rs gets the field it is meant for.              *)
THEOREM Framing == Spec => []InStep
<1>1. Inv => InStep
  BY Zenon DEF Inv, Paired, InStep
<1> QED
  BY <1>1, Invariance, PTL

(* While the host serves, its helper was told so, will be, or was killed.  *)
THEOREM ServiceIsKnown == Spec => []HelperLearns
<1>1. Inv => HelperLearns
  BY Zenon DEF Inv, Answered, HelperLearns
<1> QED
  BY <1>1, Invariance, PTL

(* No unwrap of the file chooser can panic.                                *)
THEOREM RequestsAreSafe == Spec => []NoRequestPanics
<1>1. Inv => NoRequestPanics
  BY Zenon DEF Inv, Placed, NoRequestPanics, Spawned
<1> QED
  BY <1>1, Invariance, PTL

-----------------------------------------------------------------------------
(* Portal implements PortalPromise.                                        *)

Outcomes == [h \in Helper |-> Outcome(h)]
Cuts == IF address = "other" THEN Helper ELSE {h \in Helper : task[h] = "cut"}

(* The steps of the helper: it goes on, or it ends once.                   *)
LEMMA HelperFacts ==
  ASSUME Inv, NEW h \in Helper, Activate(h) \/ HelperStep(h) \/ KillHelper(h)
  PROVE  /\ UNCHANGED <<address, owner, granted>>
         /\ helper[h] \in Running \cup {"idle"}
         /\ \E s \in Running \cup {"ok", "failed", "killed"} :
              helper' = [helper EXCEPT ![h] = s]
         /\ \A k \in Helper : (task'[k] = "cut") <=> (task[k] = "cut")
<1>1. CASE Activate(h)
  BY <1>1, Zenon DEF Activate, Goto, Running, guest, bus
<1>2. CASE ParseAddress(h)
  BY <1>2, Zenon DEF ParseAddress, Goto, Running, guest, bus, Inv, TypeOK
<1>3. CASE ConnectHost(h)
  <2>1. task[h] = "none" /\ helper[h] = "connect"
    BY <1>3, Zenon DEF ConnectHost, Inv, Present
  <2> QED
    BY <1>3, <2>1, Zenon DEF ConnectHost, Goto, TaskGoto, Running, Connected, guest, bus, Inv,
       TypeOK
<1>4. CASE WriteHandshake(h) \/ SendPort(h) \/ SendLen(h) \/ SendRoot(h)
  BY <1>4, Zenon DEF WriteHandshake, SendPort, SendLen, SendRoot, write_all, Goto, Running,
    Connected, guest, bus
<1>5. CASE ReadVersion(h)
  BY <1>5, Zenon DEF ReadVersion, Goto, Running, Connected, guest, bus
<1>6. CASE check_result(h)
  BY <1>6, Zenon DEF check_result, Goto, Running, Connected, guest, bus
<1>7. CASE KillHelper(h)
  BY <1>7, Zenon DEF KillHelper, Goto, Running, guest, bus
<1> QED
  BY <1>1, <1>2, <1>3, <1>4, <1>5, <1>6, <1>7, Zenon DEF HelperStep

(* The steps of the host: the name is granted, or given up, or nothing.    *)
Granting(h) ==
  /\ task[h] = "build" /\ owner = None
  /\ owner' = h /\ granted' = granted \cup {h}
  /\ \A k \in Helper : (task'[k] = "cut") <=> (task[k] = "cut")

Releasing ==
  /\ granted' = granted /\ owner' \in {owner, None}
  /\ \A k \in Helper : task[k] = "cut" => task'[k] = "cut"

LEMMA HostFacts == ASSUME Inv, HostEnds \/ HostRestarts
                   PROVE  Releasing /\ UNCHANGED <<address, helper>>
<1>1. \A k \in Helper : task[k] = "cut" => ~HostOpen(k)
  BY Zenon DEF HostOpen, Spawned, Reading
<1> QED
  BY <1>1, Zenon DEF HostEnds, HostRestarts, Releasing, guest, bus

LEMMA TaskFacts ==
  ASSUME Inv, NEW h \in Helper,
         Accept(h) \/ Initialize(h) \/ TaskStep(h) \/ BusCloses(h)
  PROVE  (Granting(h) \/ Releasing) /\ UNCHANGED <<address, helper>>
<1>1. CASE HostEnds
  BY <1>1, HostFacts, Zenon
<1>2. CASE BusCloses(h)
  BY <1>2, Zenon DEF BusCloses, Releasing, guest
<1>3. ASSUME NEW t, task[h] # "cut", task' = [task EXCEPT ![h] = t]
      PROVE  /\ \A k \in Helper : task[k] = "cut" => task'[k] = "cut"
             /\ t # "cut" => \A k \in Helper : (task'[k] = "cut") <=> (task[k] = "cut")
  BY <1>3, Zenon DEF Inv, TypeOK
<1>4. CASE Accept(h)
  BY <1>3, <1>4, Zenon DEF Accept, TaskGoto, Releasing, guest, bus
<1>5. CASE Initialize(h) /\ ~HostEnds
  BY <1>3, <1>5, Zenon DEF Initialize, TaskGoto, Releasing, guest, bus
<1>6. CASE ReadCount(h) \/ ReadVersions(h) \/ ReadPort(h) \/ ReadLen(h) \/ ReadRoot(h)
  BY <1>3, <1>6, Zenon DEF ReadCount, ReadVersions, ReadPort, ReadLen, ReadRoot, read_exact,
     EndTask,
    TaskGoto, Releasing, guest, bus
<1>7. CASE WriteVersion(h)
  BY <1>3, <1>7, Zenon DEF WriteVersion, EndTask, TaskGoto, Releasing, guest, bus
<1>8. CASE connect_to_guest(h)
  BY <1>3, <1>8, Zenon DEF connect_to_guest, TaskGoto, Releasing, guest, bus
<1>9. CASE build(h)
  BY <1>3, <1>9, Zenon DEF build, TaskGoto, Granting, Releasing, guest, bus
<1>10. CASE Answer(h)
  BY <1>3, <1>10, Zenon DEF Answer, Free, TaskGoto, Releasing, guest
<1>11. CASE ServeEnds(h)
  BY <1>3, <1>11, Zenon DEF ServeEnds, TaskGoto, Releasing, guest, bus
<1> QED
  BY <1>1, <1>2, <1>4, <1>5, <1>6, <1>7, <1>8, <1>9, <1>10, <1>11, Zenon DEF TaskStep

(* A step of the helper is Succeed, Fail or no step of the promise.        *)
LEMMA HelperPromise ==
  ASSUME Inv, Inv', NEW h \in Helper, Activate(h) \/ HelperStep(h) \/ KillHelper(h)
  PROVE  [Promise!Next]_Promise!vars
<1>1. PICK s \in Running \cup {"ok", "failed", "killed"} :
        helper' = [helper EXCEPT ![h] = s]
  BY HelperFacts, Zenon
<1>2. /\ address' = address /\ owner' = owner /\ granted' = granted
      /\ helper[h] \in Running \cup {"idle"}
      /\ Cuts' = Cuts
  BY HelperFacts, Zenon DEF Cuts
<1>3. Outcome(h) = "pending"
  BY <1>2, Zenon DEF Outcome, Running, Connected
<1>4. helper'[h] = s /\ \A k \in Helper \ {h} : Outcome(k)' = Outcome(k)
  BY <1>1, Zenon DEF Inv, TypeOK, Outcome
<1>5. CASE s \in Running
  <2>1. Outcome(h)' = "pending"
    BY <1>4, <1>5, Zenon DEF Outcome, Running, Connected
  <2>2. Outcomes' = Outcomes
    BY <1>3, <1>4, <2>1, Zenon DEF Outcomes
  <2> QED
    BY <1>2, <2>2, Zenon DEF Promise!vars, Outcomes, Cuts
<1>6. CASE s = "ok"
  <2>1. Outcome(h)' = "ok"
    BY <1>4, <1>6, Zenon DEF Outcome
  <2>2. Outcomes' = [Outcomes EXCEPT ![h] = "ok"]
    BY <1>4, <2>1, Zenon DEF Outcomes
  <2>3. h \in granted \cup Cuts
    <3>1. h \in granted' \/ task'[h] = "cut" \/ address' = "other"
      BY <1>4, <1>6, Zenon DEF Inv, Answered
    <3>2. h \in Cuts' \/ h \in granted'
      BY <3>1, Zenon DEF Cuts
    <3> QED
      BY <1>2, <3>2, Zenon
  <2>4. Promise!Succeed(h)
    BY <1>2, <1>3, <2>2, <2>3, Zenon DEF Promise!Succeed, Outcomes, Cuts
  <2> QED
    BY <2>4, Zenon DEF Promise!Next
<1>7. CASE s \in {"failed", "killed"}
  <2>1. Outcome(h)' = "failed"
    BY <1>4, <1>7, Zenon DEF Outcome
  <2>2. Outcomes' = [Outcomes EXCEPT ![h] = "failed"]
    BY <1>4, <2>1, Zenon DEF Outcomes
  <2>3. Promise!Fail(h)
    BY <1>2, <1>3, <2>2, Zenon DEF Promise!Fail, Outcomes, Cuts
  <2> QED
    BY <2>3, Zenon DEF Promise!Next
<1> QED
  BY <1>5, <1>6, <1>7, Zenon

(* A step of the host is Grant or Release.                                 *)
LEMMA GrantPromise ==
  ASSUME Inv, NEW h \in Helper, Granting(h), UNCHANGED <<address, helper>>
  PROVE  Promise!Grant(h)
<1>1. Outcomes' = Outcomes /\ Cuts' = Cuts
  BY Zenon DEF Outcomes, Outcome, Cuts, Granting
<1>2. h \notin granted /\ h \notin Cuts
  BY Zenon DEF Inv, Placed, Answered, Cuts, Granting
<1> QED
  BY <1>1, <1>2, Zenon DEF Promise!Grant, Granting, Outcomes, Cuts

LEMMA ReleasePromise ==
  ASSUME Inv, Inv', Releasing, UNCHANGED <<address, helper>>
  PROVE  \E H \in SUBSET Helper : Promise!Release(H)
<1> DEFINE H == IF address = "other" THEN {} ELSE {k \in Helper : task'[k] = "cut"}
<1>1. Outcomes' = Outcomes /\ Cuts' = Cuts \cup H
  BY Zenon DEF Outcomes, Outcome, Cuts, Releasing
<1>2. owner' \notin H
  BY PortalAssumption, Zenon DEF Inv, Placed
<1>3. H \in SUBSET Helper
  BY Zenon
<1> HIDE DEF H
<1> QED
  BY <1>1, <1>2, <1>3, Zenon DEF Promise!Release, Releasing, Outcomes, Cuts

(* The two portal programs implement the promise: a helper ends well only  *)
(* if the host has owned the name for it or never answered it.             *)
THEOREM PromiseKept == Spec => PromiseSpec
<1>1. Init => Promise!Init
  <2> SUFFICES ASSUME Init PROVE Promise!Init
    BY Zenon
  <2>1. [h \in Helper |-> Outcome(h)] = [h \in Helper |-> "pending"]
    BY Zenon DEF Init, Outcome
  <2>2. (IF address = "other" THEN Helper ELSE {h \in Helper : task[h] = "cut"})
          \in {{}, Helper}
    BY Zenon DEF Init
  <2> QED
    BY <2>1, <2>2, Zenon DEF Init, Promise!Init
<1>2. Inv /\ Inv' /\ [Next]_vars => [Promise!Next]_Promise!vars
  <2> SUFFICES ASSUME Inv, Inv', [Next]_vars PROVE [Promise!Next]_Promise!vars
    BY Zenon
  <2>1. ASSUME NEW h \in Helper, Activate(h) \/ HelperStep(h) \/ KillHelper(h)
        PROVE  [Promise!Next]_Promise!vars
    BY <2>1, HelperPromise, Zenon
  <2>2. ASSUME NEW h \in Helper,
               Accept(h) \/ Initialize(h) \/ TaskStep(h) \/ BusCloses(h)
        PROVE  Promise!Next
    BY <2>2, TaskFacts, GrantPromise, ReleasePromise, Zenon DEF Promise!Next
  <2>3. CASE HostDies \/ HostRestarts
    BY <2>3, HostFacts, ReleasePromise, Zenon DEF HostDies, Promise!Next
  <2>4. CASE UNCHANGED vars
    BY <2>4, Zenon DEF vars, guest, bus, Promise!vars, Outcome
  <2> QED
    BY <2>1, <2>2, <2>3, <2>4, Zenon DEF Next
<1> QED
  BY <1>1, <1>2, Invariance, PTL DEF Spec, PromiseSpec, Promise!Spec

=============================================================================
