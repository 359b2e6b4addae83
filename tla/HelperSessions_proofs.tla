------------------------ MODULE HelperSessions_proofs -----------------------
(***************************************************************************)
(* Proofs about HelperSessions, for every set of processes, every choice   *)
(* of options and any number of helpers that are ended from outside.       *)
(*                                                                         *)
(* A process is signalled, counts references or is named in the pid file   *)
(* only after it wrote that file (Shape, Files); a socket file is one that *)
(* a process bound and did not give up (Files); while no second master     *)
(* started there is one process on the way to listen, and the file it      *)
(* bound is in place (Single); and the count of a master is the number of  *)
(* sessions that hold it, up to the signals under way (Exact).             *)
(***************************************************************************)
EXTENDS HelperSessions, TLAPS, FiniteSetTheorems

\* The process wrote the pid file and has not exited.
Serving == MasterPath \ {"Writing"}

\* What a process has where it stands.
Shape(p) ==
  /\ refcount[p] > 0
  /\ refcount[p] # 1 \/ pending[p] # {} \/ monitor[p] # "None" => refcountFlag /\ pc[p] \in Serving
  /\ shouldDeleteSocket[p] <=> pc[p] = "Listening"
  /\ pc[p] \in Holding \cup {"Notifying"} => refcountFlag
  /\ pid[p] # None => pc[pid[p]] \in Serving \cup {"Exited"}

\* Whom the files lead to.
Files ==
  /\ pidFile # None => pc[pidFile] \in Serving \cup {"Exited"}
  /\ socketFile # None =>
       \/ pc[socketFile] \in {"Bound", "Listening"}
       \/ pc[socketFile] = "Exited" /\ abrupt[socketFile]

\* There is one master, and its file is in place.
Single == ~overlapped => \A p \in Process :
  /\ pc[p] \in MasterPath => \A q \in Process : pc[q] \in MasterPath => q = p
  /\ pc[p] \in {"Bound", "Listening"} => socketFile = p

\* The count of a master that was not miscounted.
Exact(p) ==
  /\ IsFiniteSet(Holders(p))
  /\ refcountFlag /\ pc[p] \in Serving /\ ~miscounted[p]
       => refcount[p] + Pends(p, "USR1") - Pends(p, "USR2") = Cardinality(Holders(p))

IInv ==
  /\ TypeOK /\ Files /\ Single
  /\ \A p \in Process : Shape(p) /\ Exact(p)

----------------------------------------------------------------------------
\* Facts that the steps have in common

\* No process is called None.
LEMMA Named == ASSUME NEW p \in Process PROVE p # None
BY NoneAssumption

\* Where the processes stand after one moved.
LEMMA Moved ==
  ASSUME TypeOK, NEW p \in Process, NEW place, Goes(p, place)
  PROVE  pc'[p] = place /\ \A q \in Process \ {p} : pc'[q] = pc[q]
BY DEF TypeOK, Goes

\* One that moves to a known place keeps the type.
LEMMA MovedType ==
  ASSUME TypeOK, NEW p \in Process, NEW place, Goes(p, place),
         place \in MasterPath \cup {"Absent", "Checking", "Notifying",
                                    "Registered", "Monitoring", "Leaving", "Exited"}
  PROVE  pc' \in [Process -> MasterPath \cup {"Absent", "Checking", "Notifying",
                                    "Registered", "Monitoring", "Leaving", "Exited"}]
BY DEF TypeOK, Goes

\* Only one that holds a reference, by itself or as a master, is a holder.
LEMMA HoldersAre ==
  ASSUME NEW p \in Process, NEW q
  PROVE  q \in Holders(p) <=>
           q \in Process /\ ((pid[q] = p /\ pc[q] \in Holding) \/ (q = p /\ monitor[p] # "None"))
<1>1. CASE monitor[p] # "None"
  BY <1>1 DEF Holders
<1>2. CASE monitor[p] = "None"
  BY <1>2 DEF Holders
<1>3. QED
  BY <1>1, <1>2

\* The same after a step.
LEMMA HoldersAreAfter ==
  ASSUME NEW p \in Process, NEW q
  PROVE  q \in Holders(p)' <=>
           q \in Process /\ ((pid'[q] = p /\ pc'[q] \in Holding) \/ (q = p /\ monitor'[p] # "None"))
<1>1. CASE monitor'[p] # "None"
  BY <1>1 DEF Holders
<1>2. CASE monitor'[p] = "None"
  BY <1>2 DEF Holders
<1>3. QED
  BY <1>1, <1>2

\* A count stays right when nobody comes or goes.
LEMMA ExactKept ==
  ASSUME NEW p \in Process, Exact(p), Holders(p)' = Holders(p),
         refcountFlag' = refcountFlag, pc'[p] \in Serving => pc[p] \in Serving,
         miscounted[p] => miscounted'[p], refcount'[p] = refcount[p], pending'[p] = pending[p]
  PROVE  Exact(p)'
BY DEF Exact, Pends

\* A process that counts nothing has no right or wrong count.
LEMMA ExactVoid ==
  ASSUME NEW p \in Process, Exact(p), Holders(p)' \subseteq Holders(p),
         pc'[p] \notin Serving \/ miscounted'[p]
  PROVE  Exact(p)'
<1>1. IsFiniteSet(Holders(p)')
  BY FS_Subset DEF Exact
<1>2. QED
  BY <1>1 DEF Exact

\* One that neither holds before nor after moves: the holders stay the same.
LEMMA HoldersKept ==
  ASSUME NEW p \in Process, UNCHANGED <<pid, monitor>>,
         \A q \in Process : pc'[q] \in Holding <=> pc[q] \in Holding
  PROVE  Holders(p)' = Holders(p)
BY DEF Holders

----------------------------------------------------------------------------
\* The invariant

\* No process has started.
LEMMA Initially == Init => IInv
<1>. SUFFICES ASSUME Init PROVE IInv
  OBVIOUS
<1>1. TypeOK
  <2>1. <<refcountFlag, deleteExistSocket>> \in Options
    <3>1. PICK o \in Options : refcountFlag = o[1] /\ deleteExistSocket = o[2]
      BY DEF Init
    <3>2. o = <<o[1], o[2]>>
      BY OptionsAssumption
    <3>3. QED
      BY <3>1, <3>2
  <2>2. 0 \in 0..MaxKills /\ 1 \in Nat
    BY MaxKillsAssumption
  <2>3. QED
    BY <2>1, <2>2 DEF Init, TypeOK
<1>2. Files /\ Single
  BY DEF Init, Files, Single, MasterPath
<1>3. ASSUME NEW p \in Process PROVE Shape(p)
  BY DEF Init, Shape, Holding, Serving, MasterPath
<1>4. ASSUME NEW p \in Process PROVE Exact(p)
  <2>1. Holders(p) = {}
    BY DEF Init, Holders, Holding
  <2>2. pc[p] \notin Serving
    BY DEF Init, Serving, MasterPath
  <2>3. QED
    BY <2>1, <2>2, FS_EmptySet DEF Exact
<1>5. QED
  BY <1>1, <1>2, <1>3, <1>4 DEF IInv

\* A process that is not asked to count moves on, without a change to what it holds.
LEMMA MovesKeep ==
  ASSUME IInv, NEW p \in Process,
         \/ FindsMaster(p) /\ refcountFlag
         \/ OpensPidFile(p)
         \/ Prepares(p) \/ Binds(p) \/ Listens(p) \/ MonitorLoop(p) \/ MonitorLoopEnds(p)
  PROVE  IInv'
<1>0. TypeOK /\ Files /\ Single /\ \A q \in Process : Shape(q) /\ Exact(q)
  BY DEF IInv
<1>1. UNCHANGED <<optionVars, pid, monitor, signalVars, world, miscounted, abrupt>>
  BY DEF FindsMaster, OpensPidFile, Prepares, Binds, Listens, MonitorLoop, MonitorLoopEnds,
         ghostVars
<1>2. PICK place :
        /\ Goes(p, place)
        /\ place = "Writing" => OpensPidFile(p)
        /\ \/ pc[p] = "Checking" /\ place \in {"Notifying", "Writing"}
           \/ pc[p] = "Preparing" /\ place = "Binding"
           \/ pc[p] = "Binding" /\ place = "Bound"
           \/ pc[p] = "Bound" /\ place = "Listening"
           \/ pc[p] = "Registered" /\ place \in {"Leaving", "Monitoring"}
           \/ pc[p] = "Monitoring" /\ place = "Leaving"
        /\ place = "Notifying" => refcountFlag
  BY DEF FindsMaster, OpensPidFile, Prepares, Binds, Listens, MonitorLoop, MonitorLoopEnds
<1>3. pc'[p] = place /\ \A q \in Process \ {p} : pc'[q] = pc[q]
  BY <1>0, <1>2, Moved
<1>4. pc' \in [Process -> MasterPath \cup {"Absent", "Checking", "Notifying",
                                           "Registered", "Monitoring", "Leaving", "Exited"}]
  BY <1>0, <1>2, MovedType DEF MasterPath
<1>5. /\ masterPid' \in [Process -> Process \cup {None}]
      /\ shouldDeleteSocket' \in [Process -> BOOLEAN]
      /\ overlapped' \in BOOLEAN
      /\ pidFile' \in {pidFile, None}
      /\ socketFile' \in Process \cup {None}
  BY <1>0
  DEF TypeOK, FindsMaster, OpensPidFile, Prepares, Binds, Listens, MonitorLoop, MonitorLoopEnds,
      fileVars, mainVars, ghostVars, RemovesExisting
<1>6. TypeOK'
  BY <1>0, <1>1, <1>4, <1>5
  DEF TypeOK, optionVars, signalVars, world
<1>7. \A q \in Process : /\ pc[q] \in Serving \cup {"Exited"} => pc'[q] \in Serving \cup {"Exited"}
                         /\ pc[q] \in Serving => pc'[q] \in Serving
                         /\ pc'[q] \in Serving => pc[q] \in Serving
                         /\ pc'[q] \in Holding <=> pc[q] \in Holding
  BY <1>2, <1>3 DEF Serving, MasterPath, Holding
<1>8. ASSUME NEW q \in Process PROVE Shape(q)'
  <2>1. shouldDeleteSocket'[q] <=> pc'[q] = "Listening"
    <3>1. shouldDeleteSocket[q] <=> pc[q] = "Listening"
      BY <1>0 DEF Shape
    <3>2. CASE Listens(p)
      BY <1>0, <3>1, <3>2, Moved DEF Listens, TypeOK
    <3>3. CASE ~Listens(p)
      <4>1. shouldDeleteSocket' = shouldDeleteSocket /\ place # "Listening"
        BY <1>2, <3>3, <1>3
        DEF FindsMaster, OpensPidFile, Prepares, Binds, MonitorLoop, MonitorLoopEnds, mainVars
      <4>2. pc[p] # "Listening"
        BY <1>2
      <4>3. QED
        BY <1>3, <3>1, <4>1, <4>2
    <3>4. QED
      BY <3>2, <3>3
  <2>2. pc'[q] \in Holding \cup {"Notifying"} => refcountFlag'
    BY <1>0, <1>1, <1>2, <1>3, <1>7 DEF Shape, optionVars, Holding
  <2>3. pid'[q] # None => pc'[pid'[q]] \in Serving \cup {"Exited"}
    <3>1. pid' = pid /\ pid[q] \in Process \cup {None}
      BY <1>0, <1>1 DEF TypeOK
    <3>2. QED
      BY <1>0, <1>7, <3>1 DEF Shape
  <2>4. QED
    BY <1>0, <1>1, <1>7, <2>1, <2>2, <2>3 DEF Shape, optionVars, signalVars
<1>9. ASSUME NEW q \in Process PROVE Exact(q)'
  <2>1. Holders(q)' = Holders(q)
    BY <1>1, <1>7, HoldersKept
  <2>2. QED
    BY <1>0, <1>1, <1>7, <2>1, ExactKept DEF optionVars, signalVars
<1>10. Files'
  <2>1. pidFile' # None => pc'[pidFile'] \in Serving \cup {"Exited"}
    BY <1>0, <1>5, <1>7 DEF Files, TypeOK
  <2>2. CASE Binds(p)
    <3>1. socketFile' = p
      BY <2>2 DEF Binds
    <3>2. pc'[p] = "Bound"
      BY <1>0, <2>2, Moved DEF Binds
    <3>3. QED
      BY <2>1, <3>1, <3>2 DEF Files
  <2>3. CASE ~Binds(p)
    <3>1. socketFile' \in {socketFile, None}
      BY <2>3
      DEF FindsMaster, OpensPidFile, Prepares, Listens, MonitorLoop, MonitorLoopEnds, fileVars,
          RemovesExisting
    <3>2. abrupt' = abrupt /\ socketFile \in Process \cup {None}
      BY <1>0, <1>1 DEF TypeOK
    <3>3. \A q \in Process : pc[q] \in {"Bound", "Listening"} => pc'[q] \in {"Bound", "Listening"}
      BY <1>2, <1>3
    <3>4. \A q \in Process : pc[q] = "Exited" => pc'[q] = "Exited"
      BY <1>2, <1>3
    <3>5. QED
      BY <1>0, <2>1, <3>1, <3>2, <3>3, <3>4 DEF Files
  <2>4. QED
    BY <2>2, <2>3
<1>11. Single'
  <2>. SUFFICES ASSUME ~overlapped', NEW q \in Process
                PROVE  /\ pc'[q] \in MasterPath =>
                            \A r \in Process : pc'[r] \in MasterPath => r = q
                       /\ pc'[q] \in {"Bound", "Listening"} => socketFile' = q
    BY DEF Single
  <2>1. ~overlapped
    BY DEF FindsMaster, OpensPidFile, Prepares, Binds, Listens, MonitorLoop, MonitorLoopEnds,
           ghostVars
  <2>2. CASE OpensPidFile(p)
    <3>1. \A r \in Process \ {p} : pc[r] \notin MasterPath
      BY <2>2 DEF OpensPidFile
    <3>2. pc'[p] = "Writing" /\ \A r \in Process \ {p} : pc'[r] \notin MasterPath
      BY <1>0, <1>3, <2>2, <3>1, Moved DEF OpensPidFile
    <3>3. QED
      BY <3>2 DEF MasterPath
  <2>3. CASE ~OpensPidFile(p)
    <3>1. place # "Writing"
      BY <1>2, <2>3
    <3>2. \A r \in Process : pc'[r] \in MasterPath => pc[r] \in MasterPath
      BY <1>2, <1>3, <3>1 DEF MasterPath
    <3>3. pc'[q] \in MasterPath => \A r \in Process : pc'[r] \in MasterPath => r = q
      BY <1>0, <2>1, <3>2 DEF Single
    <3>4. ASSUME pc'[q] \in {"Bound", "Listening"} PROVE socketFile' = q
      <4>1. CASE Binds(p) \/ Prepares(p)
        <5>1. pc[p] \in MasterPath /\ pc[q] \in MasterPath
          BY <3>2, <3>4, <4>1 DEF Binds, Prepares, MasterPath
        <5>2. q = p
          BY <1>0, <2>1, <5>1 DEF Single
        <5>3. pc'[p] = IF Binds(p) THEN "Bound" ELSE "Binding"
          BY <1>0, <4>1, Moved DEF Binds, Prepares
        <5>4. QED
          BY <3>4, <5>2, <5>3 DEF Binds
      <4>2. CASE ~(Binds(p) \/ Prepares(p))
        <5>1. socketFile' = socketFile
          BY <4>2 DEF FindsMaster, OpensPidFile, Listens, MonitorLoop, MonitorLoopEnds, fileVars
        <5>2. pc[p] \notin {"Preparing", "Binding"}
          BY <4>2
          DEF FindsMaster, OpensPidFile, Listens, MonitorLoop, MonitorLoopEnds
        <5>3. pc[q] \in {"Bound", "Listening"}
          BY <1>2, <1>3, <3>4, <5>2
        <5>4. QED
          BY <1>0, <2>1, <5>1, <5>3 DEF Single
      <4>3. QED
        BY <4>1, <4>2
    <3>5. QED
      BY <3>3, <3>4
  <2>4. QED
    BY <2>2, <2>3
<1>12. QED
  BY <1>6, <1>8, <1>9, <1>10, <1>11 DEF IInv

\* A helper starts and reads who the master is.
LEMMA GetPidKeeps ==
  ASSUME IInv, NEW p \in Process, GetPid(p)
  PROVE  IInv'
<1>0. TypeOK /\ Files /\ Single /\ \A q \in Process : Shape(q) /\ Exact(q)
  BY DEF IInv
<1>1. /\ pc[p] = "Absent" /\ Goes(p, "Checking")
      /\ pid' = [pid EXCEPT ![p] = pidFile]
      /\ UNCHANGED <<optionVars, masterPid, shouldDeleteSocket, monitor, signalVars, world,
                     fileVars, ghostVars>>
  BY DEF GetPid
<1>2. pc'[p] = "Checking" /\ \A q \in Process \ {p} : pc'[q] = pc[q]
  BY <1>0, <1>1, Moved
<1>3. pid' \in [Process -> Process \cup {None}] /\ pid'[p] = pidFile
      /\ \A q \in Process \ {p} : pid'[q] = pid[q]
  BY <1>0, <1>1 DEF TypeOK
<1>4. TypeOK'
  <2>1. pc' \in [Process -> MasterPath \cup {"Absent", "Checking", "Notifying",
                                           "Registered", "Monitoring", "Leaving", "Exited"}]
    BY <1>0, <1>1, MovedType
  <2>2. QED
    BY <1>0, <1>1, <1>3, <2>1 DEF TypeOK, optionVars, signalVars, world, fileVars, ghostVars
<1>5. \A q \in Process : /\ pc[q] \in Serving \cup {"Exited"} => pc'[q] \in Serving \cup {"Exited"}
                         /\ pc'[q] \in Serving <=> pc[q] \in Serving
                         /\ pc'[q] \in MasterPath <=> pc[q] \in MasterPath
                         /\ pc'[q] = "Exited" <=> pc[q] = "Exited"
                         /\ pc'[q] \in {"Bound", "Listening"} <=> pc[q] \in {"Bound", "Listening"}
  BY <1>1, <1>2 DEF Serving, MasterPath
<1>6. Files'
  <2>1. pidFile \in Process \cup {None} /\ socketFile \in Process \cup {None}
    BY <1>0 DEF TypeOK
  <2>2. QED
    BY <1>0, <1>1, <1>5, <2>1 DEF Files, fileVars, ghostVars
<1>7. Single'
  BY <1>0, <1>1, <1>5 DEF Single, fileVars, ghostVars
<1>8. ASSUME NEW q \in Process PROVE Shape(q)'
  <2>1. pid'[q] # None => pc'[pid'[q]] \in Serving \cup {"Exited"}
    <3>1. pid[q] \in Process \cup {None} /\ pidFile \in Process \cup {None}
      BY <1>0 DEF TypeOK
    <3>2. pid[q] # None => pc[pid[q]] \in Serving \cup {"Exited"}
      BY <1>0 DEF Shape
    <3>3. pidFile # None => pc[pidFile] \in Serving \cup {"Exited"}
      BY <1>0 DEF Files
    <3>4. QED
      BY <1>3, <1>5, <3>1, <3>2, <3>3
  <2>2. shouldDeleteSocket'[q] <=> pc'[q] = "Listening"
    BY <1>0, <1>1, <1>2 DEF Shape
  <2>3. pc'[q] \in Holding \cup {"Notifying"} => refcountFlag'
    BY <1>0, <1>1, <1>2 DEF Shape, optionVars, Holding
  <2>4. QED
    BY <1>0, <1>1, <1>5, <2>1, <2>2, <2>3 DEF Shape, optionVars, signalVars
<1>9. ASSUME NEW q \in Process PROVE Exact(q)'
  <2>1. Holders(q)' = Holders(q)
    <3>1. "Absent" \notin Holding /\ "Checking" \notin Holding
      BY DEF Holding
    <3>2. ASSUME NEW r PROVE r \in Holders(q)' <=> r \in Holders(q)
      BY <1>1, <1>2, <1>3, <3>1, HoldersAre, HoldersAreAfter
    <3>3. QED
      BY <3>2
  <2>2. QED
    BY <1>0, <1>1, <1>5, <2>1, ExactKept DEF optionVars, signalVars, ghostVars
<1>10. QED
  BY <1>4, <1>6, <1>7, <1>8, <1>9 DEF IInv

\* A new master writes its id and, with -c, is its own first holder.
LEMMA WritePidKeeps ==
  ASSUME IInv, NEW p \in Process, WritePid(p)
  PROVE  IInv'
<1>0. TypeOK /\ Files /\ Single /\ \A q \in Process : Shape(q) /\ Exact(q)
  BY DEF IInv
<1>1. /\ pc[p] = "Writing" /\ Goes(p, "Preparing")
      /\ pidFile' = p
      /\ monitor' = [monitor EXCEPT ![p] = IF refcountFlag THEN "Reading" ELSE "None"]
      /\ UNCHANGED <<optionVars, pid, masterPid, shouldDeleteSocket, signalVars, world, socketFile,
                     ghostVars>>
  BY DEF WritePid
<1>2. pc'[p] = "Preparing" /\ \A q \in Process \ {p} : pc'[q] = pc[q]
  BY <1>0, <1>1, Moved
<1>3. /\ monitor' \in [Process -> {"None", "Reading", "Watching", "Over"}]
      /\ monitor'[p] # "None" <=> refcountFlag
      /\ \A q \in Process \ {p} : monitor'[q] = monitor[q]
  BY <1>0, <1>1 DEF TypeOK
<1>4. TypeOK'
  <2>1. pc' \in [Process -> MasterPath \cup {"Absent", "Checking", "Notifying",
                                           "Registered", "Monitoring", "Leaving", "Exited"}]
    BY <1>0, <1>1, MovedType DEF MasterPath
  <2>2. QED
    BY <1>0, <1>1, <1>3, <2>1 DEF TypeOK, optionVars, signalVars, world, ghostVars
<1>5. \A q \in Process : /\ pc[q] \in Serving \cup {"Exited"} => pc'[q] \in Serving \cup {"Exited"}
                         /\ pc[q] \in Serving => pc'[q] \in Serving
                         /\ pc'[q] \in MasterPath <=> pc[q] \in MasterPath
                         /\ pc'[q] \in Holding <=> pc[q] \in Holding
                         /\ pc'[q] = "Exited" <=> pc[q] = "Exited"
                         /\ pc'[q] \in {"Bound", "Listening"} <=> pc[q] \in {"Bound", "Listening"}
  BY <1>1, <1>2 DEF Serving, MasterPath, Holding
<1>6. p # None /\ "Preparing" \in Serving /\ "Writing" \notin Serving
      /\ "Writing" \notin Serving \cup {"Exited"}
  BY Named DEF Serving, MasterPath
<1>7. Files'
  <2>1. pidFile \in Process \cup {None} /\ socketFile \in Process \cup {None}
    BY <1>0 DEF TypeOK
  <2>2. QED
    BY <1>0, <1>1, <1>2, <1>5, <1>6, <2>1 DEF Files, ghostVars
<1>8. Single'
  BY <1>0, <1>1, <1>5 DEF Single, ghostVars
<1>9. ASSUME NEW q \in Process PROVE Shape(q)'
  <2>1. pid'[q] # None => pc'[pid'[q]] \in Serving \cup {"Exited"}
    <3>1. pid[q] \in Process \cup {None}
      BY <1>0 DEF TypeOK
    <3>2. QED
      BY <1>0, <1>1, <1>5, <3>1 DEF Shape
  <2>2. shouldDeleteSocket'[q] <=> pc'[q] = "Listening"
    BY <1>0, <1>1, <1>2 DEF Shape
  <2>3. pc'[q] \in Holding \cup {"Notifying"} => refcountFlag'
    BY <1>0, <1>1, <1>2 DEF Shape, optionVars, Holding
  <2>4. refcount'[q] # 1 \/ pending'[q] # {} \/ monitor'[q] # "None"
          => refcountFlag' /\ pc'[q] \in Serving
    BY <1>0, <1>1, <1>2, <1>3, <1>5, <1>6 DEF Shape, optionVars, signalVars
  <2>5. QED
    BY <1>0, <1>1, <2>1, <2>2, <2>3, <2>4 DEF Shape, signalVars
<1>10. ASSUME NEW q \in Process \ {p} PROVE Exact(q)'
  <2>1. Holders(q)' = Holders(q)
    <3>1. ASSUME NEW r PROVE r \in Holders(q)' <=> r \in Holders(q)
      BY <1>1, <1>3, <1>5, HoldersAre, HoldersAreAfter
    <3>2. QED
      BY <3>1
  <2>2. QED
    BY <1>0, <1>1, <1>2, <2>1, ExactKept DEF optionVars, signalVars, ghostVars
<1>11. Exact(p)'
  <2>1. refcount[p] = 1 /\ pending[p] = {}
    BY <1>0, <1>1, <1>6 DEF Shape
  <2>2. \A r \in Process : pid[r] # p
    BY <1>0, <1>1, <1>6, Named DEF Shape
  <2>3. Holders(p)' = IF refcountFlag THEN {p} ELSE {}
    <3>1. ASSUME NEW r PROVE r \in Holders(p)' <=> r = p /\ refcountFlag
      BY <1>1, <1>3, <2>2, HoldersAreAfter
    <3>2. QED
      BY <3>1
  <2>4. IsFiniteSet(Holders(p)') /\ (refcountFlag => Cardinality(Holders(p)') = 1)
    BY <2>3, FS_EmptySet, FS_Singleton
  <2>5. refcount'[p] = 1 /\ pending'[p] = {} /\ refcountFlag' = refcountFlag
    BY <1>1, <2>1 DEF signalVars, optionVars
  <2>6. QED
    BY <2>4, <2>5 DEF Exact, Pends
<1>12. QED
  BY <1>4, <1>7, <1>8, <1>9, <1>10, <1>11 DEF IInv

\* A step that leaves the places of all processes and the files alone.
LEMMA StandsStill ==
  ASSUME Files, Single, UNCHANGED <<pc, fileVars, ghostVars>>
  PROVE  Files' /\ Single'
BY DEF Files, Single, fileVars, ghostVars

\* The monitor thread reads or ends, a handler counts, or a shell ends.
LEMMA CountsKeep ==
  ASSUME IInv, NEW p \in Process,
         \/ AddRefHandler(p) \/ MonitorReads(p) \/ ParentEnds(p)
         \/ ReleaseHandler(p) /\ ~LastReference(p)
         \/ MonitorRaises(p) /\ ~LastReference(p)
  PROVE  IInv'
<1>0. TypeOK /\ Files /\ Single /\ \A q \in Process : Shape(q) /\ Exact(q)
  BY DEF IInv
<1>1. UNCHANGED <<optionVars, pc, pid, shouldDeleteSocket, kills, fileVars, ghostVars>>
  BY DEF AddRefHandler, MonitorReads, ParentEnds, ReleaseHandler, MonitorRaises, Release,
         mainVars, world
<1>2. Files' /\ Single'
  BY <1>0, <1>1, StandsStill
<1>3. PICK c \in Nat : c = refcount[p]
  BY <1>0 DEF TypeOK
<1>4. c > 0 /\ Shape(p) /\ Exact(p)
  BY <1>0, <1>3 DEF Shape
<1>5. PICK n \in Nat \ {0} :
        /\ refcount' = [refcount EXCEPT ![p] = n]
        /\ pending[p] \in SUBSET {"USR1", "USR2"}
        /\ \E s \in SUBSET {"USR1", "USR2"} : pending' = [pending EXCEPT ![p] = s]
        /\ \E m \in {"None", "Reading", "Watching", "Over"} : monitor' = [monitor EXCEPT ![p] = m]
        /\ \/ /\ n = c + 1 /\ monitor' = monitor
              /\ "USR1" \in pending[p] /\ pending'[p] = pending[p] \ {"USR1"}
           \/ /\ n = c - 1 /\ monitor' = monitor
              /\ "USR2" \in pending[p] /\ pending'[p] = pending[p] \ {"USR2"}
           \/ /\ n = c - 1 /\ monitor[p] # "None" /\ monitor'[p] = "None"
              /\ pending' = pending
           \/ /\ n = c /\ (monitor'[p] # "None" <=> monitor[p] # "None")
              /\ pending' = pending
  <2>0. /\ refcount \in [Process -> Nat] /\ pending \in [Process -> SUBSET {"USR1", "USR2"}]
        /\ monitor \in [Process -> {"None", "Reading", "Watching", "Over"}]
    BY <1>0 DEF TypeOK
  <2>1. /\ refcount = [refcount EXCEPT ![p] = c] /\ pending = [pending EXCEPT ![p] = @]
        /\ monitor = [monitor EXCEPT ![p] = @]
    BY <1>3, <2>0
  <2>2. CASE AddRefHandler(p)
    <3>1. c + 1 \in Nat \ {0} /\ refcount' = [refcount EXCEPT ![p] = c + 1]
      BY <1>3, <2>2 DEF AddRefHandler, OneMore
    <3>2. "USR1" \in pending[p] /\ pending' = [pending EXCEPT ![p] = pending[p] \ {"USR1"}]
          /\ monitor' = monitor
      BY <2>2 DEF AddRefHandler
    <3>3. pending'[p] = pending[p] \ {"USR1"} /\ pending'[p] \in SUBSET {"USR1", "USR2"}
      BY <2>0, <3>2
    <3>4. QED
      BY <2>0, <2>1, <3>1, <3>2, <3>3
  <2>3. CASE MonitorReads(p)
    <3>1. refcount' = refcount /\ pending' = pending
      BY <2>3 DEF MonitorReads, signalVars
    <3>2. PICK m \in {"Over", "Watching"} : monitor' = [monitor EXCEPT ![p] = m]
      BY <2>3 DEF MonitorReads
    <3>3. monitor'[p] # "None" /\ monitor[p] # "None"
      BY <2>0, <2>3, <3>2 DEF MonitorReads
    <3>4. /\ refcount' = [refcount EXCEPT ![p] = c] /\ c \in Nat \ {0}
          /\ pending[p] \in SUBSET {"USR1", "USR2"}
          /\ pending' = [pending EXCEPT ![p] = pending[p]]
          /\ m \in {"None", "Reading", "Watching", "Over"}
          /\ monitor'[p] # "None" <=> monitor[p] # "None"
      BY <1>4, <2>0, <2>1, <3>1, <3>3
    <3>5. QED
      BY <3>1, <3>2, <3>4
  <2>4. CASE ParentEnds(p)
    <3>1. refcount' = refcount /\ pending' = pending /\ monitor' = monitor
      BY <2>4 DEF ParentEnds, signalVars
    <3>2. QED
      BY <1>4, <2>0, <2>1, <3>1
  <2>5. CASE ReleaseHandler(p) /\ ~LastReference(p)
    <3>1. c # 1 /\ refcount' = [refcount EXCEPT ![p] = c - 1]
      BY <1>3, <2>0, <2>5 DEF ReleaseHandler, LastReference, Release
    <3>2. c - 1 \in Nat \ {0}
      BY <1>4, <3>1
    <3>3. "USR2" \in pending[p] /\ pending' = [pending EXCEPT ![p] = pending[p] \ {"USR2"}]
          /\ monitor' = monitor
      BY <2>5 DEF ReleaseHandler
    <3>4. pending'[p] = pending[p] \ {"USR2"} /\ pending'[p] \in SUBSET {"USR1", "USR2"}
      BY <2>0, <3>3
    <3>5. QED
      BY <2>0, <2>1, <3>1, <3>2, <3>3, <3>4
  <2>6. CASE MonitorRaises(p) /\ ~LastReference(p)
    <3>1. c # 1 /\ refcount' = [refcount EXCEPT ![p] = c - 1]
      BY <1>3, <2>0, <2>6 DEF MonitorRaises, LastReference, Release
    <3>2. c - 1 \in Nat \ {0}
      BY <1>4, <3>1
    <3>3. monitor[p] # "None" /\ monitor' = [monitor EXCEPT ![p] = "None"] /\ pending' = pending
      BY <2>6 DEF MonitorRaises
    <3>4. monitor'[p] = "None"
      BY <2>0, <3>3
    <3>5. QED
      BY <2>0, <2>1, <3>1, <3>2, <3>3, <3>4
  <2>7. QED
    BY <2>2, <2>3, <2>4, <2>5, <2>6
<1>6. /\ refcount' \in [Process -> Nat] /\ pending' \in [Process -> SUBSET {"USR1", "USR2"}]
      /\ monitor' \in [Process -> {"None", "Reading", "Watching", "Over"}]
      /\ refcount'[p] = n
      /\ \A q \in Process \ {p} :
           /\ refcount'[q] = refcount[q] /\ pending'[q] = pending[q] /\ monitor'[q] = monitor[q]
  BY <1>0, <1>5 DEF TypeOK
<1>7. TypeOK'
  <2>1. masterPid' \in [Process -> Process \cup {None}] /\ parent' \in [Process -> BOOLEAN]
    <3>1. /\ masterPid' \in {masterPid, [masterPid EXCEPT ![p] = pidFile]}
          /\ parent' \in {parent, [parent EXCEPT ![p] = FALSE]}
      BY DEF AddRefHandler, MonitorReads, ParentEnds, ReleaseHandler, MonitorRaises, Release,
             mainVars, world
    <3>2. /\ masterPid \in [Process -> Process \cup {None}] /\ parent \in [Process -> BOOLEAN]
          /\ pidFile \in Process \cup {None}
      BY <1>0 DEF TypeOK
    <3>3. [masterPid EXCEPT ![p] = pidFile] \in [Process -> Process \cup {None}]
      BY <3>2
    <3>4. [parent EXCEPT ![p] = FALSE] \in [Process -> BOOLEAN]
      BY <3>2
    <3>5. QED
      BY <3>1, <3>2, <3>3, <3>4
  <2>2. QED
    BY <1>0, <1>1, <1>6, <2>1 DEF TypeOK, optionVars, fileVars, ghostVars
<1>8. ASSUME NEW q \in Process PROVE Shape(q)'
  <2>1. CASE q # p
    BY <1>0, <1>1, <1>6, <2>1 DEF Shape, optionVars
  <2>2. CASE q = p
    <3>1. refcount'[p] # 1 \/ pending'[p] # {} \/ monitor'[p] # "None"
            => refcount[p] # 1 \/ pending[p] # {} \/ monitor[p] # "None"
      BY <1>3, <1>5, <1>6
    <3>2. QED
      BY <1>1, <1>4, <1>6, <2>2, <3>1 DEF Shape, optionVars
  <2>3. QED
    BY <2>1, <2>2
<1>9. ASSUME NEW q \in Process \ {p} PROVE Exact(q)'
  <2>1. Holders(q)' = Holders(q)
    <3>1. ASSUME NEW r PROVE r \in Holders(q)' <=> r \in Holders(q)
      BY <1>1, <1>6, HoldersAre, HoldersAreAfter
    <3>2. QED
      BY <3>1
  <2>2. QED
    BY <1>0, <1>1, <1>6, <2>1, ExactKept DEF optionVars, ghostVars
<1>10. Exact(p)'
  <2>1. CASE monitor'[p] # "None" <=> monitor[p] # "None"
    <3>1. Holders(p)' = Holders(p)
      <4>1. ASSUME NEW r PROVE r \in Holders(p)' <=> r \in Holders(p)
        BY <1>1, <2>1, HoldersAre, HoldersAreAfter
      <4>2. QED
        BY <4>1
    <3>2. n + Pends(p, "USR1")' - Pends(p, "USR2")' = c + Pends(p, "USR1") - Pends(p, "USR2")
      <4>1. CASE n = c /\ pending' = pending
        BY <4>1 DEF Pends
      <4>2. CASE n = c + 1 /\ "USR1" \in pending[p] /\ pending'[p] = pending[p] \ {"USR1"}
        BY <4>2 DEF Pends
      <4>3. CASE n = c - 1 /\ "USR2" \in pending[p] /\ pending'[p] = pending[p] \ {"USR2"}
        BY <4>3 DEF Pends
      <4>4. QED
        BY <1>5, <2>1, <4>1, <4>2, <4>3
    <3>3. QED
      BY <1>1, <1>3, <1>4, <1>6, <3>1, <3>2 DEF Exact, optionVars, ghostVars
  <2>2. CASE n = c - 1 /\ monitor[p] # "None" /\ monitor'[p] = "None" /\ pending' = pending
    <3>1. pc[p] \notin Holding
      BY <1>4, <2>2 DEF Shape, Serving, MasterPath, Holding
    <3>2. Holders(p)' = Holders(p) \ {p} /\ p \in Holders(p)
      <4>1. ASSUME NEW r PROVE r \in Holders(p)' <=> r \in Holders(p) /\ r # p
        BY <1>1, <2>2, <3>1, HoldersAre, HoldersAreAfter
      <4>2. QED
        BY <2>2, <4>1, HoldersAre
    <3>3. IsFiniteSet(Holders(p)') /\ Cardinality(Holders(p)') = Cardinality(Holders(p)) - 1
      BY <1>4, <3>2, FS_RemoveElement DEF Exact
    <3>4. Cardinality(Holders(p)) \in Nat
      BY <1>4, FS_CardinalityType DEF Exact
    <3>5. Pends(p, "USR1")' = Pends(p, "USR1") /\ Pends(p, "USR2")' = Pends(p, "USR2")
          /\ Pends(p, "USR1") \in Nat /\ Pends(p, "USR2") \in Nat
      BY <2>2 DEF Pends
    <3>6. refcountFlag /\ pc[p] \in Serving /\ ~miscounted[p]
            => n + Pends(p, "USR1") - Pends(p, "USR2") = Cardinality(Holders(p)) - 1
      BY <1>3, <1>4, <2>2, <3>4, <3>5 DEF Exact
    <3>7. QED
      BY <1>1, <1>6, <3>3, <3>5, <3>6 DEF Exact, optionVars, ghostVars
  <2>3. QED
    BY <1>5, <2>1, <2>2
<1>11. QED
  BY <1>2, <1>7, <1>8, <1>9, <1>10 DEF IInv

\* A session that found a master takes a reference: the signal is on its way, or was lost.
LEMMA NotifiesKeeps ==
  ASSUME IInv, NEW p \in Process, Notifies(p)
  PROVE  IInv'
<1>0. TypeOK /\ Files /\ Single /\ \A q \in Process : Shape(q) /\ Exact(q)
  BY DEF IInv
<1>1. /\ pc[p] = "Notifying" /\ Goes(p, "Registered") /\ Signal(pid[p], "USR1")
      /\ UNCHANGED <<optionVars, pid, masterPid, shouldDeleteSocket, monitor, refcount, world,
                     fileVars, abrupt, overlapped>>
  BY DEF Notifies
<1>2. pc'[p] = "Registered" /\ \A q \in Process \ {p} : pc'[q] = pc[q]
  BY <1>0, <1>1, Moved
<1>3. \A q \in Process : /\ pc'[q] \in Serving \cup {"Exited"} <=> pc[q] \in Serving \cup {"Exited"}
                         /\ pc'[q] \in Serving <=> pc[q] \in Serving
                         /\ pc'[q] \in MasterPath <=> pc[q] \in MasterPath
                         /\ pc'[q] = "Exited" <=> pc[q] = "Exited"
                         /\ pc'[q] = "Listening" <=> pc[q] = "Listening"
                         /\ pc'[q] \in {"Bound", "Listening"} <=> pc[q] \in {"Bound", "Listening"}
  BY <1>1, <1>2 DEF Serving, MasterPath
<1>4. refcountFlag /\ refcountFlag' = refcountFlag /\ pid[p] \in Process \cup {None}
  BY <1>0, <1>1 DEF Shape, TypeOK, optionVars
<1>5. PICK m \in Process \cup {None} : m = pid[p]
  BY <1>4
<1>6. \A q \in Process \ {m} : pending'[q] = pending[q] /\ miscounted'[q] = miscounted[q]
  BY <1>0, <1>1, <1>5 DEF Signal, TypeOK
<1>7. pending' \in [Process -> SUBSET {"USR1", "USR2"}] /\ miscounted' \in [Process -> BOOLEAN]
  <2>1. pending \in [Process -> SUBSET {"USR1", "USR2"}] /\ miscounted \in [Process -> BOOLEAN]
    BY <1>0 DEF TypeOK
  <2>2. CASE Alive(m)
    <3>1. m \in Process
      BY <2>2 DEF Alive
    <3>2. /\ pending' = [pending EXCEPT ![m] = @ \cup {"USR1"}]
          /\ miscounted' = [miscounted EXCEPT ![m] = @ \/ "USR1" \in pending[m]]
      BY <1>1, <1>5, <2>2 DEF Signal
    <3>3. PICK b \in BOOLEAN : b = (miscounted[m] \/ "USR1" \in pending[m])
      OBVIOUS
    <3>4. miscounted' = [miscounted EXCEPT ![m] = b]
      BY <3>2, <3>3
    <3>5. miscounted' \in [Process -> BOOLEAN]
      BY <2>1, <3>1, <3>4
    <3>6. pending[m] \cup {"USR1"} \in SUBSET {"USR1", "USR2"}
      BY <2>1, <3>1
    <3>7. QED
      BY <2>1, <3>1, <3>2, <3>5, <3>6
  <2>3. CASE ~Alive(m)
    BY <1>1, <1>5, <2>1, <2>3 DEF Signal
  <2>4. QED
    BY <2>2, <2>3
<1>8. TypeOK'
  <2>1. pc' \in [Process -> MasterPath \cup {"Absent", "Checking", "Notifying",
                                           "Registered", "Monitoring", "Leaving", "Exited"}]
    BY <1>0, <1>1, MovedType
  <2>2. QED
    BY <1>0, <1>1, <1>7, <2>1 DEF TypeOK, optionVars, world, fileVars
<1>9. Files' /\ Single'
  <2>1. pidFile \in Process \cup {None} /\ socketFile \in Process \cup {None}
    BY <1>0 DEF TypeOK
  <2>2. QED
    BY <1>0, <1>1, <1>3, <2>1 DEF Files, Single, fileVars
<1>10. m # None => pc[m] \in Serving \cup {"Exited"}
  BY <1>0, <1>5 DEF Shape
<1>11. Alive(m) => m \in Process /\ pc[m] \in Serving
  BY <1>5, <1>10 DEF Alive
<1>12. ASSUME NEW q \in Process PROVE Shape(q)'
  <2>1. pid'[q] # None => pc'[pid'[q]] \in Serving \cup {"Exited"}
    <3>1. pid[q] \in Process \cup {None}
      BY <1>0 DEF TypeOK
    <3>2. QED
      BY <1>0, <1>1, <1>3, <3>1 DEF Shape
  <2>2. pending'[q] # {} => pending[q] # {} \/ pc[q] \in Serving
    <3>1. CASE q = m /\ Alive(m)
      BY <1>11, <3>1
    <3>2. CASE q = m /\ ~Alive(m)
      BY <1>1, <1>5, <3>2 DEF Signal
    <3>3. QED
      BY <1>6, <3>1, <3>2
  <2>3. refcount'[q] # 1 \/ pending'[q] # {} \/ monitor'[q] # "None"
          => refcountFlag' /\ pc'[q] \in Serving
    BY <1>0, <1>1, <1>3, <1>4, <2>2 DEF Shape
  <2>4. QED
    BY <1>0, <1>1, <1>3, <1>4, <2>1, <2>3 DEF Shape
<1>13. ASSUME NEW q \in Process \ {m} PROVE Exact(q)'
  <2>1. Holders(q)' = Holders(q)
    <3>1. ASSUME NEW r PROVE r \in Holders(q)' <=> r \in Holders(q)
      BY <1>1, <1>2, <1>5, HoldersAre, HoldersAreAfter
    <3>2. QED
      BY <3>1
  <2>2. QED
    BY <1>0, <1>1, <1>3, <1>4, <1>6, <2>1, ExactKept
<1>14. ASSUME m \in Process PROVE Exact(m)'
  <2>1. Exact(m)
    BY <1>0, <1>14
  <2>2. monitor[p] = "None"
    BY <1>0, <1>1 DEF Shape, Serving, MasterPath
  <2>3. Holders(m)' = Holders(m) \cup {p} /\ p \notin Holders(m)
    <3>1. "Registered" \in Holding /\ "Notifying" \notin Holding
      BY DEF Holding
    <3>2. ASSUME NEW r PROVE r \in Holders(m)' <=> r \in Holders(m) \/ r = p
      BY <1>1, <1>2, <1>5, <1>14, <3>1, HoldersAre, HoldersAreAfter
    <3>3. p \notin Holders(m)
      BY <1>1, <1>14, <2>2, <3>1, HoldersAre
    <3>4. QED
      BY <3>2, <3>3
  <2>4. IsFiniteSet(Holders(m)') /\ Cardinality(Holders(m)') = Cardinality(Holders(m)) + 1
    BY <2>1, <2>3, FS_AddElement DEF Exact
  <2>5. CASE ~Alive(m)
    <3>1. pc'[m] \notin Serving
      BY <1>3, <1>14, <2>5, Named DEF Alive, Serving, MasterPath
    <3>2. QED
      BY <2>4, <3>1 DEF Exact
  <2>6. CASE Alive(m)
    <3>1. /\ pending'[m] = pending[m] \cup {"USR1"}
          /\ miscounted'[m] = (miscounted[m] \/ "USR1" \in pending[m])
      BY <1>0, <1>1, <1>5, <1>14, <2>6 DEF Signal, TypeOK
    <3>2. CASE miscounted'[m]
      BY <2>4, <3>2 DEF Exact
    <3>3. CASE ~miscounted'[m]
      <4>1. "USR1" \notin pending[m] /\ ~miscounted[m]
        BY <3>1, <3>3
      <4>2. Pends(m, "USR1")' = 1 /\ Pends(m, "USR1") = 0
            /\ Pends(m, "USR2")' = Pends(m, "USR2") /\ Pends(m, "USR2") \in {0, 1}
        BY <3>1, <4>1 DEF Pends
      <4>3. refcount[m] \in Nat /\ refcount'[m] = refcount[m]
        BY <1>0, <1>1, <1>14 DEF TypeOK
      <4>4. refcount[m] + Pends(m, "USR1") - Pends(m, "USR2") = Cardinality(Holders(m))
        BY <1>4, <1>11, <2>1, <2>6, <4>1 DEF Exact
      <4>5. refcount'[m] + Pends(m, "USR1")' - Pends(m, "USR2")' = Cardinality(Holders(m)')
        BY <2>4, <4>2, <4>3, <4>4
      <4>6. QED
        BY <2>4, <4>5 DEF Exact
    <3>4. QED
      BY <3>2, <3>3
  <2>7. QED
    BY <2>5, <2>6
<1>15. QED
  BY <1>8, <1>9, <1>12, <1>13, <1>14 DEF IInv

\* A session gives its reference up: the signal is on its way, or was lost.
LEMMA LeavesKeeps ==
  ASSUME IInv, NEW p \in Process, Leaves(p)
  PROVE  IInv'
<1>0. TypeOK /\ Files /\ Single /\ \A q \in Process : Shape(q) /\ Exact(q)
  BY DEF IInv
<1>1. /\ pc[p] = "Leaving" /\ Goes(p, "Exited") /\ Signal(pid[p], "USR2")
      /\ pid' = [pid EXCEPT ![p] = None]
      /\ masterPid' = [masterPid EXCEPT ![p] = None]
      /\ parent' = [parent EXCEPT ![p] = FALSE]
      /\ UNCHANGED <<optionVars, shouldDeleteSocket, monitor, refcount, kills,
                     fileVars, abrupt, overlapped>>
  BY DEF Leaves
<1>2. pc'[p] = "Exited" /\ \A q \in Process \ {p} : pc'[q] = pc[q]
  BY <1>0, <1>1, Moved
<1>3. \A q \in Process : /\ pc[q] \in Serving \cup {"Exited"} => pc'[q] \in Serving \cup {"Exited"}
                         /\ pc'[q] \in Serving <=> pc[q] \in Serving
                         /\ pc'[q] \in MasterPath <=> pc[q] \in MasterPath
                         /\ pc[q] = "Exited" => pc'[q] = "Exited"
                         /\ pc'[q] = "Listening" <=> pc[q] = "Listening"
                         /\ pc'[q] \in {"Bound", "Listening"} <=> pc[q] \in {"Bound", "Listening"}
  BY <1>1, <1>2 DEF Serving, MasterPath
<1>4. refcountFlag /\ refcountFlag' = refcountFlag /\ pid[p] \in Process \cup {None}
  BY <1>0, <1>1 DEF Shape, TypeOK, optionVars, Holding
<1>5. PICK m \in Process \cup {None} : m = pid[p]
  BY <1>4
<1>6. \A q \in Process \ {m} : pending'[q] = pending[q] /\ miscounted'[q] = miscounted[q]
  BY <1>0, <1>1, <1>5 DEF Signal, TypeOK
<1>7. pending' \in [Process -> SUBSET {"USR1", "USR2"}] /\ miscounted' \in [Process -> BOOLEAN]
  <2>1. pending \in [Process -> SUBSET {"USR1", "USR2"}] /\ miscounted \in [Process -> BOOLEAN]
    BY <1>0 DEF TypeOK
  <2>2. CASE Alive(m)
    <3>1. m \in Process
      BY <2>2 DEF Alive
    <3>2. /\ pending' = [pending EXCEPT ![m] = @ \cup {"USR2"}]
          /\ miscounted' = [miscounted EXCEPT ![m] = @ \/ "USR2" \in pending[m]]
      BY <1>1, <1>5, <2>2 DEF Signal
    <3>3. PICK b \in BOOLEAN : b = (miscounted[m] \/ "USR2" \in pending[m])
      OBVIOUS
    <3>4. miscounted' = [miscounted EXCEPT ![m] = b]
      BY <3>2, <3>3
    <3>5. miscounted' \in [Process -> BOOLEAN]
      BY <2>1, <3>1, <3>4
    <3>6. pending[m] \cup {"USR2"} \in SUBSET {"USR1", "USR2"}
      BY <2>1, <3>1
    <3>7. QED
      BY <2>1, <3>1, <3>2, <3>5, <3>6
  <2>3. CASE ~Alive(m)
    BY <1>1, <1>5, <2>1, <2>3 DEF Signal
  <2>4. QED
    BY <2>2, <2>3
<1>8. /\ pid' \in [Process -> Process \cup {None}] /\ pid'[p] = None
      /\ \A q \in Process \ {p} : pid'[q] = pid[q]
      /\ masterPid' \in [Process -> Process \cup {None}] /\ parent' \in [Process -> BOOLEAN]
  BY <1>0, <1>1 DEF TypeOK
<1>9. TypeOK'
  <2>1. pc' \in [Process -> MasterPath \cup {"Absent", "Checking", "Notifying",
                                           "Registered", "Monitoring", "Leaving", "Exited"}]
    BY <1>0, <1>1, MovedType
  <2>2. QED
    BY <1>0, <1>1, <1>7, <1>8, <2>1 DEF TypeOK, optionVars, fileVars
<1>10. Files' /\ Single'
  <2>1. pidFile \in Process \cup {None} /\ socketFile \in Process \cup {None}
    BY <1>0 DEF TypeOK
  <2>2. QED
    BY <1>0, <1>1, <1>3, <2>1 DEF Files, Single, fileVars
<1>11. m # None => pc[m] \in Serving \cup {"Exited"}
  BY <1>0, <1>5 DEF Shape
<1>12. Alive(m) => m \in Process /\ pc[m] \in Serving
  BY <1>5, <1>11 DEF Alive
<1>13. ASSUME NEW q \in Process PROVE Shape(q)'
  <2>1. pid'[q] # None => pc'[pid'[q]] \in Serving \cup {"Exited"}
    <3>1. pid[q] \in Process \cup {None}
      BY <1>0 DEF TypeOK
    <3>2. QED
      BY <1>0, <1>3, <1>8, <3>1 DEF Shape
  <2>2. pending'[q] # {} => pending[q] # {} \/ pc[q] \in Serving
    <3>1. CASE q = m /\ Alive(m)
      BY <1>12, <3>1
    <3>2. CASE q = m /\ ~Alive(m)
      BY <1>1, <1>5, <3>2 DEF Signal
    <3>3. QED
      BY <1>6, <3>1, <3>2
  <2>3. refcount'[q] # 1 \/ pending'[q] # {} \/ monitor'[q] # "None"
          => refcountFlag' /\ pc'[q] \in Serving
    BY <1>0, <1>1, <1>3, <1>4, <2>2 DEF Shape
  <2>4. QED
    BY <1>0, <1>1, <1>3, <1>4, <2>1, <2>3 DEF Shape
<1>14. ASSUME NEW q \in Process \ {m} PROVE Exact(q)'
  <2>1. Holders(q)' = Holders(q)
    <3>1. ASSUME NEW r PROVE r \in Holders(q)' <=> r \in Holders(q)
      BY <1>1, <1>2, <1>5, <1>8, Named, HoldersAre, HoldersAreAfter
    <3>2. QED
      BY <3>1
  <2>2. QED
    BY <1>0, <1>1, <1>3, <1>4, <1>6, <2>1, ExactKept
<1>15. ASSUME m \in Process PROVE Exact(m)'
  <2>1. Exact(m)
    BY <1>0, <1>15
  <2>2. monitor[p] = "None"
    BY <1>0, <1>1 DEF Shape, Serving, MasterPath
  <2>3. Holders(m)' = Holders(m) \ {p} /\ p \in Holders(m)
    <3>1. "Leaving" \in Holding /\ "Exited" \notin Holding
      BY DEF Holding
    <3>2. ASSUME NEW r PROVE r \in Holders(m)' <=> r \in Holders(m) /\ r # p
      BY <1>1, <1>2, <1>5, <1>8, <1>15, <2>2, <3>1, HoldersAre, HoldersAreAfter
    <3>3. p \in Holders(m)
      BY <1>1, <1>5, <1>15, <3>1, HoldersAre
    <3>4. QED
      BY <3>2, <3>3
  <2>4. IsFiniteSet(Holders(m)') /\ Cardinality(Holders(m)') = Cardinality(Holders(m)) - 1
    BY <2>1, <2>3, FS_RemoveElement DEF Exact
  <2>5. CASE ~Alive(m)
    <3>1. pc'[m] \notin Serving
      BY <1>3, <1>15, <2>5, Named DEF Alive, Serving, MasterPath
    <3>2. QED
      BY <2>4, <3>1 DEF Exact
  <2>6. CASE Alive(m)
    <3>1. /\ pending'[m] = pending[m] \cup {"USR2"}
          /\ miscounted'[m] = (miscounted[m] \/ "USR2" \in pending[m])
      BY <1>0, <1>1, <1>5, <1>15, <2>6 DEF Signal, TypeOK
    <3>2. CASE miscounted'[m]
      BY <2>4, <3>2 DEF Exact
    <3>3. CASE ~miscounted'[m]
      <4>1. "USR2" \notin pending[m] /\ ~miscounted[m]
        BY <3>1, <3>3
      <4>2. Pends(m, "USR2")' = 1 /\ Pends(m, "USR2") = 0
            /\ Pends(m, "USR1")' = Pends(m, "USR1") /\ Pends(m, "USR1") \in {0, 1}
        BY <3>1, <4>1 DEF Pends
      <4>3. refcount[m] \in Nat /\ refcount'[m] = refcount[m]
        BY <1>0, <1>1, <1>15 DEF TypeOK
      <4>4. refcount[m] + Pends(m, "USR1") - Pends(m, "USR2") = Cardinality(Holders(m))
        BY <1>4, <1>12, <2>1, <2>6, <4>1 DEF Exact
      <4>5. refcount'[m] + Pends(m, "USR1")' - Pends(m, "USR2")' = Cardinality(Holders(m)')
        BY <2>4, <4>2, <4>3, <4>4
      <4>6. QED
        BY <2>4, <4>5 DEF Exact
    <3>4. QED
      BY <3>2, <3>3
  <2>7. QED
    BY <2>5, <2>6
<1>16. QED
  BY <1>9, <1>10, <1>13, <1>14, <1>15 DEF IInv

\* A helper ends, in whatever way: it is no holder and counts nothing any more, and its socket
\* file is deleted unless it had no chance.
LEMMA ExitsKeep ==
  ASSUME IInv, NEW p \in Process, Alive(p), Vanishes(p),
         UNCHANGED <<optionVars, pidFile, overlapped>>, kills' \in 0..MaxKills,
         \/ /\ DeleteSocket(p)
            /\ abrupt' = [abrupt EXCEPT ![p] = pc[p] = "Bound" /\ socketFile = p]
         \/ UNCHANGED socketFile /\ abrupt' = [abrupt EXCEPT ![p] = socketFile = p]
  PROVE  IInv'
<1>0. TypeOK /\ Files /\ Single /\ \A q \in Process : Shape(q) /\ Exact(q)
  BY DEF IInv
<1>1. /\ Goes(p, "Exited") /\ Forgets(p)
      /\ pid' = [pid EXCEPT ![p] = None]
      /\ masterPid' = [masterPid EXCEPT ![p] = None]
      /\ shouldDeleteSocket' = [shouldDeleteSocket EXCEPT ![p] = FALSE]
      /\ refcount' = [refcount EXCEPT ![p] = 1]
      /\ pending' = [pending EXCEPT ![p] = {}]
      /\ monitor' = [monitor EXCEPT ![p] = "None"]
      /\ parent' = [parent EXCEPT ![p] = FALSE]
  BY DEF Vanishes
<1>2. pc'[p] = "Exited" /\ \A q \in Process \ {p} : pc'[q] = pc[q]
  BY <1>0, <1>1, Moved
<1>3. /\ pid' \in [Process -> Process \cup {None}]
      /\ masterPid' \in [Process -> Process \cup {None}]
      /\ shouldDeleteSocket' \in [Process -> BOOLEAN]
      /\ refcount' \in [Process -> Nat]
      /\ pending' \in [Process -> SUBSET {"USR1", "USR2"}]
      /\ monitor' \in [Process -> {"None", "Reading", "Watching", "Over"}]
      /\ parent' \in [Process -> BOOLEAN]
      /\ miscounted' \in [Process -> BOOLEAN]
  BY <1>0, <1>1 DEF TypeOK, Forgets
<1>4. /\ pid'[p] = None /\ shouldDeleteSocket'[p] = FALSE /\ refcount'[p] = 1
      /\ pending'[p] = {} /\ monitor'[p] = "None"
      /\ \A q \in Process \ {p} :
           /\ pid'[q] = pid[q] /\ shouldDeleteSocket'[q] = shouldDeleteSocket[q]
           /\ refcount'[q] = refcount[q] /\ pending'[q] = pending[q]
           /\ monitor'[q] = monitor[q]
  BY <1>0, <1>1 DEF TypeOK
<1>5. \A q \in Process \ {p} :
        miscounted'[q] <=> miscounted[q] \/ (pc[p] \in Holding /\ q = pid[p] /\ Alive(q))
  BY <1>1 DEF Forgets
<1>6. \A q \in Process : /\ pc[q] \in Serving \cup {"Exited"} => pc'[q] \in Serving \cup {"Exited"}
                         /\ pc'[q] \in Serving => pc[q] \in Serving
                         /\ pc'[q] \in MasterPath => pc[q] \in MasterPath /\ q # p
                         /\ pc[q] = "Exited" => pc'[q] = "Exited" /\ q # p
  BY <1>2 DEF Serving, MasterPath, Alive
<1>7. /\ pidFile \in Process \cup {None} /\ socketFile \in Process \cup {None}
      /\ shouldDeleteSocket[p] <=> pc[p] = "Listening"
  BY <1>0 DEF TypeOK, Shape
<1>8. /\ socketFile' \in {socketFile, None}
      /\ socketFile' # socketFile => pc[p] = "Listening"
      /\ abrupt' \in [Process -> BOOLEAN]
      /\ \A q \in Process \ {p} : abrupt'[q] = abrupt[q]
      /\ pc[p] = "Bound" /\ socketFile = p => abrupt'[p]
      /\ pc[p] = "Listening" /\ socketFile = p => socketFile' = None \/ abrupt'[p]
  <2>0. abrupt \in [Process -> BOOLEAN]
    BY <1>0 DEF TypeOK
  <2>1. CASE /\ DeleteSocket(p)
             /\ abrupt' = [abrupt EXCEPT ![p] = pc[p] = "Bound" /\ socketFile = p]
    <3>1. abrupt' \in [Process -> BOOLEAN] /\ \A q \in Process \ {p} : abrupt'[q] = abrupt[q]
      BY <2>0, <2>1
    <3>2. pc[p] = "Bound" /\ socketFile = p => abrupt'[p]
      BY <2>0, <2>1
    <3>3. socketFile' = IF shouldDeleteSocket[p] THEN None ELSE socketFile
      BY <2>1 DEF DeleteSocket
    <3>4. QED
      BY <1>7, <3>1, <3>2, <3>3
  <2>2. CASE UNCHANGED socketFile /\ abrupt' = [abrupt EXCEPT ![p] = socketFile = p]
    BY <2>0, <2>2
  <2>3. QED
    BY <2>1, <2>2
<1>9. TypeOK'
  <2>1. pc' \in [Process -> MasterPath \cup {"Absent", "Checking", "Notifying",
                                           "Registered", "Monitoring", "Leaving", "Exited"}]
    BY <1>0, <1>1, MovedType
  <2>2. QED
    BY <1>0, <1>3, <1>7, <1>8, <2>1 DEF TypeOK, optionVars
<1>10. Files'
  <2>1. pidFile' # None => pc'[pidFile'] \in Serving \cup {"Exited"}
    BY <1>0, <1>6, <1>7 DEF Files
  <2>2. ASSUME socketFile' # None
        PROVE  \/ pc'[socketFile'] \in {"Bound", "Listening"}
               \/ pc'[socketFile'] = "Exited" /\ abrupt'[socketFile']
    <3>1. socketFile' = socketFile /\ socketFile \in Process
      BY <1>7, <1>8, <2>2
    <3>2. \/ pc[socketFile] \in {"Bound", "Listening"}
          \/ pc[socketFile] = "Exited" /\ abrupt[socketFile]
      BY <1>0, <2>2, <3>1 DEF Files
    <3>3. CASE socketFile = p
      <4>1. pc[p] # "Exited"
        BY DEF Alive
      <4>2. abrupt'[p]
        BY <1>8, <2>2, <3>1, <3>2, <3>3, <4>1
      <4>3. QED
        BY <1>2, <3>1, <3>3, <4>2
    <3>4. CASE socketFile # p
      BY <1>2, <1>8, <3>1, <3>2, <3>4
    <3>5. QED
      BY <3>3, <3>4
  <2>3. QED
    BY <2>1, <2>2 DEF Files
<1>11. Single'
  <2>. SUFFICES ASSUME ~overlapped', NEW q \in Process
                PROVE  /\ pc'[q] \in MasterPath =>
                            \A r \in Process : pc'[r] \in MasterPath => r = q
                       /\ pc'[q] \in {"Bound", "Listening"} => socketFile' = q
    BY DEF Single
  <2>1. pc'[q] \in MasterPath => \A r \in Process : pc'[r] \in MasterPath => r = q
    BY <1>0, <1>6 DEF Single
  <2>2. ASSUME pc'[q] \in {"Bound", "Listening"} PROVE socketFile' = q
    <3>1. pc[q] \in {"Bound", "Listening"} /\ q # p
      BY <1>2, <2>2
    <3>2. socketFile = q /\ (pc[p] \in MasterPath => p = q)
      BY <1>0, <3>1 DEF Single, MasterPath
    <3>3. pc[p] # "Listening"
      BY <3>1, <3>2 DEF MasterPath
    <3>4. QED
      BY <1>8, <3>2, <3>3
  <2>3. QED
    BY <2>1, <2>2
<1>12. ASSUME NEW q \in Process PROVE Shape(q)'
  <2>1. pid'[q] # None => pc'[pid'[q]] \in Serving \cup {"Exited"}
    <3>1. pid[q] \in Process \cup {None}
      BY <1>0 DEF TypeOK
    <3>2. QED
      BY <1>0, <1>4, <1>6, <3>1 DEF Shape
  <2>2. CASE q = p
    BY <1>2, <1>4, <2>1, <2>2 DEF Shape, Holding
  <2>3. CASE q # p
    BY <1>0, <1>2, <1>4, <2>1, <2>3 DEF Shape, optionVars
  <2>4. QED
    BY <2>2, <2>3
<1>13. ASSUME NEW q \in Process PROVE Exact(q)'
  <2>0. "Exited" \notin Holding /\ "Exited" \notin Serving
    BY DEF Holding, Serving, MasterPath
  <2>1. Holders(q)' \subseteq Holders(q)
    <3>1. ASSUME NEW r \in Holders(q)' PROVE r \in Holders(q)
      BY <1>2, <1>4, <2>0, Named, HoldersAre, HoldersAreAfter
    <3>2. QED
      BY <3>1
  <2>2. CASE q = p
    BY <1>0, <1>2, <2>0, <2>1, <2>2, ExactVoid
  <2>3. CASE q # p /\ pid[p] = q /\ pc[p] \in Holding
    <3>1. CASE Alive(q)
      BY <1>0, <1>5, <2>1, <2>3, <3>1, ExactVoid
    <3>2. CASE ~Alive(q)
      <4>1. pc'[q] \notin Serving
        BY <1>2, <2>3, <3>2, Named DEF Alive, Serving, MasterPath
      <4>2. QED
        BY <1>0, <2>1, <4>1, ExactVoid
    <3>3. QED
      BY <3>1, <3>2
  <2>4. CASE q # p /\ ~(pid[p] = q /\ pc[p] \in Holding)
    <3>1. Holders(q)' = Holders(q)
      <4>1. ASSUME NEW r \in Holders(q) PROVE r \in Holders(q)'
        BY <1>2, <1>4, <2>4, HoldersAre, HoldersAreAfter
      <4>2. QED
        BY <2>1, <4>1
    <3>2. QED
      BY <1>0, <1>4, <1>5, <1>6, <2>4, <3>1, ExactKept DEF optionVars
  <2>5. QED
    BY <2>2, <2>3, <2>4
<1>14. QED
  BY <1>9, <1>10, <1>11, <1>12, <1>13 DEF IInv

\* The ways in which a helper ends.
LEMMA EndsKeep ==
  ASSUME IInv, NEW p \in Process,
         \/ FindsMaster(p) /\ ~refcountFlag
         \/ CannotBind(p) \/ ListenLoopEnds(p)
         \/ ReleaseHandler(p) /\ LastReference(p)
         \/ MonitorRaises(p) /\ LastReference(p)
         \/ Terminated(p) \/ Killed(p)
  PROVE  IInv'
<1>0. TypeOK /\ Shape(p)
  BY DEF IInv
<1>1. kills' \in 0..MaxKills
  <2>1. kills \in 0..MaxKills
    BY <1>0 DEF TypeOK
  <2>2. kills' = kills \/ (kills < MaxKills /\ kills' = kills + 1)
    BY DEF FindsMaster, CannotBind, ListenLoopEnds, ReleaseHandler, MonitorRaises, Terminated,
           Killed, EndedFromOutside
  <2>3. QED
    BY <2>1, <2>2, MaxKillsAssumption
<1>2. Alive(p)
  <2>1. pending[p] # {} \/ monitor[p] # "None" => pc[p] \in Serving
    BY <1>0 DEF Shape
  <2>2. CASE FindsMaster(p) \/ CannotBind(p) \/ ListenLoopEnds(p)
    BY <2>2, Named DEF FindsMaster, CannotBind, ListenLoopEnds, Alive
  <2>3. CASE ReleaseHandler(p) \/ MonitorRaises(p)
    BY <2>1, <2>3, Named DEF ReleaseHandler, MonitorRaises, Alive, Serving, MasterPath
  <2>4. QED
    BY <2>2, <2>3 DEF Terminated, Killed
<1>3. Exit(p) \/ Killed(p)
  BY DEF FindsMaster, CannotBind, ListenLoopEnds, ReleaseHandler, MonitorRaises, Terminated
<1>4. Vanishes(p) /\ UNCHANGED <<optionVars, pidFile, overlapped>>
  BY <1>3 DEF Exit, Killed, fileVars
<1>5. \/ /\ DeleteSocket(p)
         /\ abrupt' = [abrupt EXCEPT ![p] = pc[p] = "Bound" /\ socketFile = p]
      \/ UNCHANGED socketFile /\ abrupt' = [abrupt EXCEPT ![p] = socketFile = p]
  BY <1>3 DEF Exit, Killed, fileVars
<1>6. QED
  BY <1>1, <1>2, <1>4, <1>5, ExitsKeep

\* Every step keeps the invariant.
LEMMA Step == IInv /\ [Next]_vars => IInv'
<1>. SUFFICES ASSUME IInv, [Next]_vars PROVE IInv'
  OBVIOUS
<1>1. CASE UNCHANGED vars
  <2>1. \A p \in Process : Holders(p)' = Holders(p)
    BY <1>1 DEF vars, mainVars, Holders
  <2>2. \A p \in Process : Exact(p)'
    BY <1>1, <2>1, ExactKept
    DEF IInv, vars, optionVars, mainVars, signalVars, ghostVars
  <2>3. TypeOK' /\ Files' /\ Single' /\ \A p \in Process : Shape(p)'
    BY <1>1
    DEF IInv, vars, optionVars, mainVars, signalVars, world, fileVars, ghostVars,
        TypeOK, Files, Single, Shape
  <2>4. QED
    BY <2>2, <2>3 DEF IInv
<1>2. ASSUME NEW p \in Process,
             \/ GetPid(p) \/ Main(p) \/ ListenLoopEnds(p) \/ Handlers(p) \/ MonitorThread(p)
             \/ Terminated(p) \/ Killed(p) \/ ParentEnds(p)
      PROVE  IInv'
  <2>1. CASE GetPid(p)
    BY <2>1, GetPidKeeps
  <2>2. CASE Main(p)
    BY <2>2, MovesKeep, EndsKeep, WritePidKeeps, NotifiesKeeps, LeavesKeeps DEF Main
  <2>3. CASE Handlers(p) \/ MonitorThread(p) \/ ParentEnds(p)
    BY <2>3, CountsKeep, EndsKeep DEF Handlers, MonitorThread
  <2>4. CASE ListenLoopEnds(p) \/ Terminated(p) \/ Killed(p)
    BY <2>4, EndsKeep
  <2>5. QED
    BY <1>2, <2>1, <2>2, <2>3, <2>4
<1>3. QED
  BY <1>1, <1>2 DEF Next

\* The invariant of the helpers.
THEOREM Invariance == Spec => []IInv
BY Initially, Step, PTL DEF Spec

----------------------------------------------------------------------------
\* What the runs check

\* Every variable keeps its type, and a count never falls below zero (main.cpp:677-687).
THEOREM TypesHold == Spec => []TypeOK
<1>1. IInv => TypeOK
  BY DEF IInv
<1>. QED
  BY <1>1, Invariance, PTL

\* The count of a master, with the signals under way, is the number of sessions that hold it,
\* unless a signal was lost or a session that held it was ended by one (main.cpp:677-687).
THEOREM Counts == Spec => []RefcountExact
<1>1. IInv => RefcountExact
  BY DEF IInv, RefcountExact, Exact, Serving
<1>. QED
  BY <1>1, Invariance, PTL

\* A socket file without a process was left by one that had no chance to delete it
\* (main.cpp:297-304, 545-549).
THEOREM NoneLeftBehind == Spec => []NoStaleFile
<1>1. IInv => NoStaleFile
  BY Named DEF IInv, TypeOK, Files, NoStaleFile, Alive
<1>. QED
  BY <1>1, Invariance, PTL

\* The socket file leads to the master that listens, unless a second one started (main.cpp:217-246).
THEOREM LeadsToMaster == Spec => []Reachable
<1>1. IInv => Reachable
  BY DEF IInv, Single, Reachable
<1>. QED
  BY <1>1, Invariance, PTL

\* When a master exits on a release no session holds it (main.cpp:677-687).
LEMMA LastRelease ==
  ASSUME IInv, NEW p \in Process, ReleaseHandler(p) \/ MonitorRaises(p),
         pc'[p] = "Exited", pc[p] \in MasterPath,
         ~miscounted[p], "USR1" \notin pending[p]
  PROVE  Holders(p)' = {}
<1>0. TypeOK /\ Shape(p) /\ Exact(p)
  BY DEF IInv
<1>1. refcountFlag /\ pc[p] \in Serving
  BY <1>0 DEF Shape, ReleaseHandler, MonitorRaises
<1>2. LastReference(p) /\ Exit(p)
  <2>1. CASE ~LastReference(p)
    <3>1. UNCHANGED pc
      BY <2>1 DEF ReleaseHandler, MonitorRaises, Release, mainVars
    <3>2. QED
      BY <3>1 DEF MasterPath
  <2>2. QED
    BY <2>1 DEF ReleaseHandler, MonitorRaises
<1>3. refcount[p] = 1
  BY <1>0, <1>2 DEF LastReference, TypeOK
<1>4. 1 - Pends(p, "USR2") = Cardinality(Holders(p)) /\ IsFiniteSet(Holders(p))
  BY <1>0, <1>1, <1>3 DEF Exact, Pends
<1>5. Cardinality(Holders(p)) \in Nat
  BY <1>4, FS_CardinalityType
<1>6. pid' = [pid EXCEPT ![p] = None] /\ monitor'[p] = "None" /\ pid \in [Process -> Process \cup {None}]
      /\ Goes(p, "Exited")
  BY <1>0, <1>2 DEF Exit, Vanishes, TypeOK
<1>7. pc'[p] = "Exited" /\ \A q \in Process \ {p} : pc'[q] = pc[q]
  BY <1>0, <1>6, Moved
<1>8. \A r \in Holders(p)' : r \in Holders(p) /\ r # p
  <2>1. ASSUME NEW r \in Holders(p)' PROVE r \in Holders(p) /\ r # p
    BY <1>6, <1>7, Named, HoldersAre, HoldersAreAfter
  <2>2. QED
    BY <2>1
<1>9. CASE "USR2" \in pending[p]
  <2>1. Cardinality(Holders(p)) = 0
    BY <1>4, <1>9 DEF Pends
  <2>2. Holders(p) = {}
    BY <1>4, <2>1, FS_EmptySet
  <2>3. QED
    BY <1>8, <2>2
<1>10. CASE "USR2" \notin pending[p]
  <2>1. p \in Holders(p)
    BY <1>10, HoldersAre DEF ReleaseHandler, MonitorRaises
  <2>2. Cardinality(Holders(p)) = 1
    BY <1>4, <1>10 DEF Pends
  <2>3. PICK x : Holders(p) = {x}
    BY <1>4, <2>2, FS_Singleton
  <2>4. QED
    BY <1>8, <2>1, <2>3
<1>11. QED
  BY <1>9, <1>10

\* The last reference takes the master away, never an earlier one (main.cpp:677-687).
THEOREM NotBeforeTheLast == Spec => LastReleaseOnly
<1>1. IInv /\ [Next]_vars =>
        [\A p \in Process :
           (ReleaseHandler(p) \/ MonitorRaises(p)) /\ pc'[p] = "Exited" /\ pc[p] \in MasterPath
             => \/ miscounted[p] \/ "USR1" \in pending[p]
                \/ Holders(p)' = {}]_vars
  BY LastRelease
<1>2. QED
  BY <1>1, Invariance, PTL DEF Spec, LastReleaseOnly
=============================================================================
