----------------------------- MODULE HostsProofs -----------------------------
(***************************************************************************)
(* Proofs about MCHosts, for every set of tools and faults, any number of  *)
(* changes and every bound on the faults.                                  *)
(*                                                                         *)
(* A remote run (RemoteRun): what a finished run says of its process is    *)
(* true, and the host stays locked as long as the process may run.  The    *)
(* remote process starts at most once.  From the moment it is over, or can *)
(* no longer start, every writer may call the run finished; and none of    *)
(* the four that do (worker, cancelling thread, poller, and the            *)
(* controllers through the files the poller reads) does so before it has   *)
(* seen this, except in the two cases named by Unproven.                   *)
(*                                                                         *)
(* A profile activation (SSHActivation): ActivationInv says what the files *)
(* of worker and coordinator owe each other as long as no worker has left  *)
(* an activation behind.                                                   *)
(***************************************************************************)
EXTENDS MCHosts, TLAPS

----
(***************************************************************************)
(* Remote runs (RemoteRun).                                                *)
(***************************************************************************)
\* The remote process has ended, or was never started and never will be.
Over == proc \in {"zombie", "reaped"} \/ (ctl.pc = "off" /\ remoteWorker.pc # "launch")

\* The start controller: the process exists from "record" on and has been reaped
\* from "result" on; a process has a return code only once it has ended.
ControllerOK ==
    /\ ctl.pc \in {"off", "spawn"} <=> proc = "none"
    /\ ctl.pc \in {"result", "state", "goodbye"} => proc = "reaped"
    /\ ctl.pc \in {"state", "goodbye"} => result \in Rem!Terminal
    /\ exitOk => proc \in {"zombie", "reaped"}

\* The files: there is no state before there is a process, and a terminal state
\* has its result, comes after the process and tells its return code.
FilesOK ==
    /\ proc = "none" => state = "none"
    /\ state \in Rem!Terminal => result \in Rem!Terminal /\ proc \in {"zombie", "reaped"}
    /\ state = "completed" => exitOk

\* The cancellation controller works on a recorded process, after the worker.
CancellerOK ==
    /\ canceller # "off" => remoteWorker.pc = "gone"
    /\ canceller \in {"signal", "wait", "result", "state", "done"} => proc # "none"
    /\ canceller \in {"result", "state", "done"} => proc \in {"zombie", "reaped"}
    /\ canceller = "state" => result \in Rem!Terminal

\* The worker: what it has seen of the process is true, and only the worker
\* moves the row while it is there.
WorkerOK ==
    /\ remoteWorker.pc = "launch" => ctl.pc = "off"
    /\ remoteWorker.pc \in {"attached", "confirm"} => ctl.pc # "off"
    /\ remoteWorker.started \/ remoteWorker.pc = "confirm" => proc # "none"
    /\ remoteWorker.exited => proc \in {"zombie", "reaped"}
    /\ remoteWorker.confirmed => Over
    /\ remoteWorker.pc # "gone" => status \in {"running", "cancellation_pending"}

\* The server: the cancelling thread and the poller come after the worker, and
\* a conditional update that will succeed meets an unfinished run.
ServerOK ==
    /\ cancelling = "sent" => remoteWorker.pc = "gone"
    /\ watcher.fresh /\ watcher.pc \in {"probe", "apply"} =>
           remoteWorker.pc = "gone" /\ status \notin Rem!Terminal
    /\ watcher.seen \in Rem!Terminal => proc \in {"zombie", "reaped"}
    /\ watcher.seen = "completed" => exitOk

\* The row: finished, or without its lock, only when the process is over or the
\* run is one of the two unproven ones.
RowOK ==
    /\ status = "completed" => exitOk
    /\ status \in Rem!Terminal \/ ~lock => Over \/ Rem!Unproven

IInv == Rem!TypeOK /\ ControllerOK /\ FilesOK /\ CancellerOK /\ WorkerOK /\ ServerOK /\ RowOK

----
(***************************************************************************)
(* Types.                                                                  *)
(***************************************************************************)

ControllerPcs == {"off", "spawn", "record", "announce", "loop", "beat", "enforce",
                  "terminate", "outcome", "result", "state", "goodbye", "gone"}
WorkerPcs     == {"launch", "attached", "confirm", "publish", "gone"}
WatcherPcs    == {"off", "look", "probe", "apply"}
Reasons       == {"none", "cancelled", "timed_out", "failed"}
Reads         == {"none", "clear", "asked"}

Controllers == [pc : ControllerPcs, copy : Rem!Live, enforced : BOOLEAN]
Workers     == [pc : WorkerPcs, link : BOOLEAN, started : BOOLEAN, exited : BOOLEAN,
                reason : Reasons, confirmed : BOOLEAN, read : Reads]
Watchers    == [up : BOOLEAN, pc : WatcherPcs, fresh : BOOLEAN, seen : Rem!Files,
                polling : BOOLEAN]

\* The flags, and the other variables that are no records, keep their types.
FlagsOK == /\ asked \in BOOLEAN /\ known \in BOOLEAN /\ lock \in BOOLEAN
           /\ exitOk \in BOOLEAN /\ broken \in BOOLEAN

ScalarsOK ==
    /\ tool \in Tools
    /\ status \in Rem!Terminal \cup {"running", "cancellation_pending", "recovery_pending"}
    /\ proc \in {"none", "running", "zombie", "reaped"}
    /\ state \in Rem!Files /\ result \in Rem!Files \ Rem!Live
    /\ canceller \in {"off", "request", "signal", "wait", "result", "state", "done", "failed"}
    /\ cancelling \in {"idle", "sent"}
    /\ cancels \in 0..MaxCancels /\ events \in 0..MaxRemoteEvents

\* The type invariant is that of the flags, the scalars and the three records.
LEMMA TypeParts ==
    ASSUME Rem!TypeOK
    PROVE  FlagsOK /\ ScalarsOK /\ ctl \in Controllers /\ remoteWorker \in Workers /\ watcher \in Watchers
BY DEF Rem!TypeOK, FlagsOK, ScalarsOK, Controllers, Workers, Watchers, ControllerPcs, WorkerPcs,
       WatcherPcs, Reasons, Reads

\* And these parts give the type invariant back, after a step.
LEMMA TypeWhole ==
    ASSUME FlagsOK', ScalarsOK', ctl' \in Controllers, remoteWorker' \in Workers,
    watcher' \in Watchers
    PROVE  Rem!TypeOK'
BY DEF Rem!TypeOK, FlagsOK, ScalarsOK, Controllers, Workers, Watchers, ControllerPcs, WorkerPcs, WatcherPcs,
       Reasons, Reads

\* Writing a field of the start controller's record keeps its type.
LEMMA ControllerFields ==
    ASSUME NEW c \in Controllers
    PROVE  /\ \A x \in ControllerPcs : [c EXCEPT !.pc = x] \in Controllers
           /\ \A x \in Rem!Live : [c EXCEPT !.copy = x] \in Controllers
           /\ \A x \in BOOLEAN : [c EXCEPT !.enforced = x] \in Controllers
BY DEF Controllers

\* Writing a field of the worker's record keeps its type.
LEMMA WorkerFields ==
    ASSUME NEW w \in Workers
    PROVE  /\ \A x \in WorkerPcs : [w EXCEPT !.pc = x] \in Workers
           /\ \A x \in BOOLEAN : [w EXCEPT !.link = x] \in Workers
           /\ \A x \in BOOLEAN : [w EXCEPT !.started = x] \in Workers
           /\ \A x \in BOOLEAN : [w EXCEPT !.exited = x] \in Workers
           /\ \A x \in Reasons : [w EXCEPT !.reason = x] \in Workers
           /\ \A x \in BOOLEAN : [w EXCEPT !.confirmed = x] \in Workers
           /\ \A x \in Reads : [w EXCEPT !.read = x] \in Workers
<1>1. \A x \in WorkerPcs : [w EXCEPT !.pc = x] \in Workers BY DEF Workers
<1>2. \A x \in BOOLEAN : [w EXCEPT !.link = x] \in Workers BY DEF Workers
<1>3. \A x \in BOOLEAN : [w EXCEPT !.started = x] \in Workers BY DEF Workers
<1>4. \A x \in BOOLEAN : [w EXCEPT !.exited = x] \in Workers BY DEF Workers
<1>5. \A x \in Reasons : [w EXCEPT !.reason = x] \in Workers BY DEF Workers
<1>6. \A x \in BOOLEAN : [w EXCEPT !.confirmed = x] \in Workers BY DEF Workers
<1>7. \A x \in Reads : [w EXCEPT !.read = x] \in Workers BY DEF Workers
<1>8. QED BY <1>1, <1>2, <1>3, <1>4, <1>5, <1>6, <1>7

\* Writing a field of the poller's record keeps its type.
LEMMA WatcherFields ==
    ASSUME NEW w \in Watchers
    PROVE  /\ \A x \in BOOLEAN : [w EXCEPT !.up = x] \in Watchers
           /\ \A x \in WatcherPcs : [w EXCEPT !.pc = x] \in Watchers
           /\ \A x \in BOOLEAN : [w EXCEPT !.fresh = x] \in Watchers
           /\ \A x \in Rem!Files : [w EXCEPT !.seen = x] \in Watchers
           /\ \A x \in BOOLEAN : [w EXCEPT !.polling = x] \in Watchers
<1>1. \A x \in BOOLEAN : [w EXCEPT !.up = x] \in Watchers BY DEF Watchers
<1>2. \A x \in WatcherPcs : [w EXCEPT !.pc = x] \in Watchers BY DEF Watchers
<1>3. \A x \in BOOLEAN : [w EXCEPT !.fresh = x] \in Watchers BY DEF Watchers
<1>4. \A x \in Rem!Files : [w EXCEPT !.seen = x] \in Watchers BY DEF Watchers
<1>5. \A x \in BOOLEAN : [w EXCEPT !.polling = x] \in Watchers BY DEF Watchers
<1>6. QED BY <1>1, <1>2, <1>3, <1>4, <1>5

\* The literals the actions write into the records have their types.
LEMMA Literals ==
    /\ TRUE \in BOOLEAN /\ FALSE \in BOOLEAN /\ "cancellation_pending" \in Rem!Live
    /\ "none" \in Rem!Files /\ "none" \in Reads /\ "clear" \in Reads /\ "asked" \in Reads
    /\ "cancelled" \in Reasons /\ "timed_out" \in Reasons /\ "failed" \in Reasons
    /\ "attached" \in WorkerPcs /\ "confirm" \in WorkerPcs /\ "publish" \in WorkerPcs
    /\ "gone" \in WorkerPcs
    /\ "off" \in WatcherPcs /\ "look" \in WatcherPcs /\ "probe" \in WatcherPcs
    /\ "apply" \in WatcherPcs
BY DEF Rem!Live, Rem!Files, Reads, Reasons, WorkerPcs, WatcherPcs

----
(***************************************************************************)
(* One lemma per action.                                                   *)
(***************************************************************************)

\* Spawn: the one step that starts the process; the controller was "spawn", so the
\* worker is past "launch" and no file exists yet.
LEMMA SpawnInv ==
    ASSUME Rem!RemoteConstants, IInv, Rem!Spawn
    PROVE  IInv'
<1> USE DEF IInv
<1>1. Rem!TypeOK'
  <2>1. ScalarsOK' BY TypeParts DEF ScalarsOK, Rem!Spawn, Rem!rowVars, Rem!fileVars, Rem!serverVars
  <2>2. FlagsOK' BY TypeParts, Zenon DEF FlagsOK, Rem!Spawn, Rem!rowVars
  <2>3. ctl' \in Controllers
    BY TypeParts, ControllerFields, Literals, Zenon DEF Rem!Spawn, ControllerPcs
  <2>4. remoteWorker' \in Workers BY TypeParts DEF Rem!Spawn
  <2>5. watcher' \in Watchers BY TypeParts DEF Rem!Spawn, Rem!serverVars
  <2>6. QED BY <2>1, <2>2, <2>3, <2>4, <2>5, TypeWhole
<1>2. ControllerOK' BY DEF ControllerOK, Rem!Spawn
<1>3. FilesOK' BY DEF ControllerOK, FilesOK, Rem!Spawn, Rem!fileVars
<1>4. CancellerOK' BY DEF ControllerOK, CancellerOK, Rem!Spawn
<1>5. WorkerOK' BY DEF Over, ControllerOK, WorkerOK, Rem!Spawn, Rem!rowVars
<1>6. ServerOK' BY DEF ControllerOK, ServerOK, Rem!Spawn, Rem!rowVars, Rem!serverVars
<1>7. RowOK' BY DEF Over, Rem!Unproven, ControllerOK, RowOK, Rem!Spawn, Rem!rowVars
<1>8. QED BY <1>1, <1>2, <1>3, <1>4, <1>5, <1>6, <1>7

\* RecordRunning: the first state file, of a process that exists.
LEMMA RecordRunningInv ==
    ASSUME Rem!RemoteConstants, IInv, Rem!RecordRunning
    PROVE  IInv'
<1> USE DEF IInv
<1>1. Rem!TypeOK'
  <2>1. ScalarsOK'
    BY TypeParts DEF ScalarsOK, Rem!Files, Rem!RecordRunning, Rem!rowVars, Rem!procVars,
       Rem!serverVars
  <2>2. FlagsOK' BY TypeParts, Zenon DEF FlagsOK, Rem!RecordRunning, Rem!rowVars, Rem!procVars
  <2>3. ctl' \in Controllers
    BY TypeParts, ControllerFields, Literals, Zenon DEF Rem!RecordRunning, ControllerPcs
  <2>4. remoteWorker' \in Workers BY TypeParts DEF Rem!RecordRunning
  <2>5. watcher' \in Watchers BY TypeParts DEF Rem!RecordRunning, Rem!serverVars
  <2>6. QED BY <2>1, <2>2, <2>3, <2>4, <2>5, TypeWhole
<1>2. CancellerOK' /\ ServerOK'
  BY DEF CancellerOK, ServerOK, Rem!RecordRunning, Rem!rowVars, Rem!procVars, Rem!serverVars
<1>3. ControllerOK' BY DEF ControllerOK, Rem!RecordRunning, Rem!procVars
<1>4. FilesOK' BY DEF ControllerOK, FilesOK, Rem!RecordRunning, Rem!procVars, Rem!Terminal
<1>5. WorkerOK' BY DEF Over, WorkerOK, Rem!RecordRunning, Rem!rowVars, Rem!procVars
<1>6. RowOK' BY DEF Over, Rem!Unproven, RowOK, Rem!RecordRunning, Rem!rowVars, Rem!procVars
<1>7. QED BY <1>1, <1>2, <1>3, <1>4, <1>5, <1>6

\* Announce: the start marker reaches the worker only after the process exists.
LEMMA AnnounceInv ==
    ASSUME Rem!RemoteConstants, IInv, Rem!Announce
    PROVE  IInv'
<1> USE DEF IInv
<1>1. Rem!TypeOK'
  <2>1. ScalarsOK'
    BY TypeParts DEF ScalarsOK, Rem!Announce, Rem!rowVars, Rem!procVars, Rem!fileVars,
       Rem!serverVars
  <2>2. FlagsOK' BY TypeParts, Zenon DEF FlagsOK, Rem!Announce, Rem!rowVars, Rem!procVars
  <2>3. ctl' \in Controllers
    BY TypeParts, ControllerFields, Literals, Zenon DEF Rem!Announce, ControllerPcs
  <2>4. remoteWorker' \in Workers BY TypeParts, WorkerFields, Literals, Zenon DEF Rem!Announce
  <2>5. watcher' \in Watchers BY TypeParts DEF Rem!Announce, Rem!serverVars
  <2>6. QED BY <2>1, <2>2, <2>3, <2>4, <2>5, TypeWhole
<1>2. /\ UNCHANGED <<tool, status, asked, known, lock, proc, exitOk, state, result, canceller,
                     cancelling, watcher>>
      /\ ctl.pc = "announce" /\ ctl'.pc \in {"loop", "gone"}
      /\ remoteWorker'.pc = remoteWorker.pc /\ remoteWorker'.exited = remoteWorker.exited
      /\ remoteWorker'.confirmed = remoteWorker.confirmed
  BY TypeParts DEF Controllers, Workers, Rem!Announce, Rem!rowVars, Rem!procVars, Rem!fileVars,
     Rem!serverVars
<1>3. FilesOK' /\ CancellerOK' BY <1>2 DEF FilesOK, CancellerOK
<1>4. ControllerOK' BY <1>2 DEF ControllerOK
<1>5. WorkerOK' BY <1>2 DEF Over, ControllerOK, WorkerOK
<1>6. ServerOK' BY <1>2 DEF ServerOK
<1>7. RowOK' BY <1>2 DEF Over, Rem!Unproven, RowOK
<1>8. QED BY <1>1, <1>3, <1>4, <1>5, <1>6, <1>7

\* CommandExits: the return code appears together with the end of the process.
LEMMA CommandExitsInv ==
    ASSUME Rem!RemoteConstants, IInv, Rem!CommandExits
    PROVE  IInv'
<1> USE DEF IInv
<1>1. Rem!TypeOK'
  <2>1. ScalarsOK'
    BY TypeParts DEF ScalarsOK, Rem!CommandExits, Rem!rowVars, Rem!fileVars, Rem!serverVars
  <2>2. FlagsOK' BY TypeParts, Zenon DEF FlagsOK, Rem!CommandExits, Rem!rowVars
  <2>3. ctl' \in Controllers BY TypeParts DEF Rem!CommandExits
  <2>4. remoteWorker' \in Workers BY TypeParts DEF Rem!CommandExits
  <2>5. watcher' \in Watchers BY TypeParts DEF Rem!CommandExits, Rem!serverVars
  <2>6. QED BY <2>1, <2>2, <2>3, <2>4, <2>5, TypeWhole
<1>2. ControllerOK' BY DEF ControllerOK, Rem!CommandExits
<1>3. FilesOK' BY DEF ControllerOK, FilesOK, Rem!CommandExits, Rem!fileVars
<1>4. CancellerOK' BY DEF CancellerOK, Rem!CommandExits
<1>5. WorkerOK' BY DEF Over, WorkerOK, Rem!CommandExits, Rem!rowVars
<1>6. ServerOK' BY DEF ControllerOK, ServerOK, Rem!CommandExits, Rem!rowVars, Rem!serverVars
<1>7. RowOK' BY DEF Over, ControllerOK, RowOK, Rem!CommandExits, Rem!rowVars
<1>8. QED BY <1>1, <1>2, <1>3, <1>4, <1>5, <1>6, <1>7

\* Poll: only a reaped process sends the controller to write its result.
LEMMA PollInv ==
    ASSUME Rem!RemoteConstants, IInv, Rem!Poll
    PROVE  IInv'
<1> USE DEF IInv
<1>1. Rem!TypeOK'
  <2>1. ScalarsOK' BY TypeParts DEF ScalarsOK, Rem!Poll, Rem!rowVars, Rem!fileVars, Rem!serverVars
  <2>2. FlagsOK' BY TypeParts, Zenon DEF FlagsOK, Rem!Poll, Rem!rowVars
  <2>3. ctl' \in Controllers
    BY TypeParts, ControllerFields, Literals, Zenon DEF Rem!Poll, ControllerPcs
  <2>4. remoteWorker' \in Workers BY TypeParts DEF Rem!Poll
  <2>5. watcher' \in Watchers BY TypeParts DEF Rem!Poll, Rem!serverVars
  <2>6. QED BY <2>1, <2>2, <2>3, <2>4, <2>5, TypeWhole
<1>2. ControllerOK' BY DEF Rem!TypeOK, ControllerOK, Rem!Poll
<1>3. FilesOK' BY DEF FilesOK, Rem!Poll, Rem!fileVars
<1>4. CancellerOK' BY DEF CancellerOK, Rem!Poll, Rem!fileVars
<1>5. WorkerOK' BY DEF Rem!TypeOK, Over, WorkerOK, Rem!Poll, Rem!rowVars
<1>6. ServerOK' BY DEF ServerOK, Rem!Poll, Rem!rowVars, Rem!serverVars
<1>7. RowOK' BY DEF Over, Rem!Unproven, RowOK, Rem!Poll, Rem!rowVars
<1>8. QED BY <1>1, <1>2, <1>3, <1>4, <1>5, <1>6, <1>7

\* Beat: the controller's own copy is a live state, so a heartbeat that overwrites
\* a terminal state.json claims nothing about the process.
LEMMA BeatInv ==
    ASSUME Rem!RemoteConstants, IInv, Rem!Beat
    PROVE  IInv'
<1> USE DEF IInv
<1>1. Rem!TypeOK'
  <2>1. ScalarsOK'
    BY TypeParts DEF ScalarsOK, Rem!Files, Controllers, Rem!RemoteConstants, Rem!Beat,
       Rem!rowVars, Rem!procVars,
           Rem!serverVars, Rem!Fault, Rem!NoFault, Rem!Live
  <2>2. FlagsOK' BY TypeParts, Zenon DEF FlagsOK, Rem!Beat, Rem!rowVars, Rem!procVars
  <2>3. ctl' \in Controllers
    BY TypeParts, ControllerFields, Literals, Zenon DEF Rem!Beat, Rem!NoFault, ControllerPcs
  <2>4. remoteWorker' \in Workers BY TypeParts DEF Rem!Beat
  <2>5. watcher' \in Watchers BY TypeParts DEF Rem!Beat, Rem!serverVars
  <2>6. QED BY <2>1, <2>2, <2>3, <2>4, <2>5, TypeWhole
<1>2. CancellerOK' /\ ServerOK'
  BY DEF CancellerOK, ServerOK, Rem!Beat, Rem!rowVars, Rem!procVars, Rem!serverVars
<1>3. ControllerOK' BY DEF Rem!TypeOK, ControllerOK, Rem!Beat, Rem!procVars
<1>4. FilesOK'
  BY DEF Rem!TypeOK, ControllerOK, FilesOK, Rem!Beat, Rem!procVars, Rem!Terminal, Rem!Live
<1>5. WorkerOK' BY DEF Rem!TypeOK, Over, WorkerOK, Rem!Beat, Rem!rowVars, Rem!procVars
<1>6. RowOK' BY DEF Over, Rem!Unproven, RowOK, Rem!Beat, Rem!rowVars, Rem!procVars
<1>7. QED BY <1>1, <1>2, <1>3, <1>4, <1>5, <1>6

\* RecordDecision: a pending cancellation claims nothing about the process.
LEMMA RecordDecisionInv ==
    ASSUME Rem!RemoteConstants, IInv, Rem!RecordDecision
    PROVE  IInv'
<1> USE DEF IInv
<1>1. Rem!TypeOK'
  <2>1. ScalarsOK'
    BY TypeParts DEF ScalarsOK, Rem!Files, Controllers, Rem!RemoteConstants, Rem!RecordDecision,
       Rem!rowVars, Rem!procVars,
           Rem!serverVars, Rem!Fault, Rem!NoFault, Rem!Live
  <2>2. FlagsOK' BY TypeParts, Zenon DEF FlagsOK, Rem!RecordDecision, Rem!rowVars, Rem!procVars
  <2>3. ctl' \in Controllers
    BY TypeParts, ControllerFields, Literals, Zenon DEF Rem!RecordDecision, Rem!NoFault, ControllerPcs
  <2>4. remoteWorker' \in Workers BY TypeParts DEF Rem!RecordDecision
  <2>5. watcher' \in Watchers BY TypeParts DEF Rem!RecordDecision, Rem!serverVars
  <2>6. QED BY <2>1, <2>2, <2>3, <2>4, <2>5, TypeWhole
<1>2. CancellerOK' /\ ServerOK'
  BY DEF CancellerOK, ServerOK, Rem!RecordDecision, Rem!rowVars, Rem!procVars, Rem!serverVars
<1>3. ControllerOK' BY DEF Rem!TypeOK, ControllerOK, Rem!RecordDecision, Rem!procVars
<1>4. FilesOK'
  BY DEF Rem!TypeOK, ControllerOK, FilesOK, Rem!RecordDecision, Rem!procVars, Rem!Terminal, Rem!Live
<1>5. WorkerOK' BY DEF Rem!TypeOK, Over, WorkerOK, Rem!RecordDecision, Rem!rowVars, Rem!procVars
<1>6. RowOK' BY DEF Over, Rem!Unproven, RowOK, Rem!RecordDecision, Rem!rowVars, Rem!procVars
<1>7. QED BY <1>1, <1>2, <1>3, <1>4, <1>5, <1>6

\* EnforceMemory: the killed process is a zombie without a good return code.
LEMMA EnforceMemoryInv ==
    ASSUME Rem!RemoteConstants, IInv, Rem!EnforceMemory
    PROVE  IInv'
<1> USE DEF IInv
<1>1. Rem!TypeOK'
  <2>1. ScalarsOK'
    BY TypeParts DEF ScalarsOK, Rem!Files, Rem!EnforceMemory, Rem!rowVars, Rem!procVars,
       Rem!fileVars, Rem!serverVars, Rem!Kill
  <2>2. FlagsOK'
    BY TypeParts, Zenon DEF FlagsOK, Rem!EnforceMemory, Rem!rowVars, Rem!procVars, Rem!Kill
  <2>3. ctl' \in Controllers
    BY TypeParts, ControllerFields, Literals, Zenon DEF Rem!EnforceMemory, ControllerPcs
  <2>4. remoteWorker' \in Workers BY TypeParts DEF Rem!EnforceMemory
  <2>5. watcher' \in Watchers BY TypeParts DEF Rem!EnforceMemory, Rem!serverVars
  <2>6. QED BY <2>1, <2>2, <2>3, <2>4, <2>5, TypeWhole
<1>2. ControllerOK' BY DEF ControllerOK, Rem!EnforceMemory, Rem!procVars, Rem!Kill
<1>3. FilesOK'
  BY DEF ControllerOK, FilesOK, Rem!EnforceMemory, Rem!procVars, Rem!fileVars, Rem!Kill, Rem!Terminal
<1>4. CancellerOK' BY DEF CancellerOK, Rem!EnforceMemory, Rem!procVars, Rem!fileVars, Rem!Kill
<1>5. WorkerOK' BY DEF Over, WorkerOK, Rem!EnforceMemory, Rem!rowVars, Rem!procVars, Rem!Kill
<1>6. ServerOK'
  BY DEF ControllerOK, ServerOK, Rem!EnforceMemory, Rem!rowVars, Rem!procVars, Rem!serverVars,
     Rem!Kill
<1>7. RowOK'
  BY DEF Rem!TypeOK, Over, Rem!Unproven, RowOK, Rem!EnforceMemory, Rem!rowVars, Rem!procVars,
     Rem!Kill
<1>8. QED BY <1>1, <1>2, <1>3, <1>4, <1>5, <1>6, <1>7

\* RecordEnforcement: nor does it when it is written again.
LEMMA RecordEnforcementInv ==
    ASSUME Rem!RemoteConstants, IInv, Rem!RecordEnforcement
    PROVE  IInv'
<1> USE DEF IInv
<1>1. Rem!TypeOK'
  <2>1. ScalarsOK'
    BY TypeParts DEF ScalarsOK, Rem!Files, Controllers, Rem!RemoteConstants, Rem!RecordEnforcement,
       Rem!rowVars, Rem!procVars,
           Rem!serverVars, Rem!Fault, Rem!NoFault, Rem!Live
  <2>2. FlagsOK' BY TypeParts, Zenon DEF FlagsOK, Rem!RecordEnforcement, Rem!rowVars, Rem!procVars
  <2>3. ctl' \in Controllers
    BY TypeParts, ControllerFields, Literals, Zenon DEF Rem!RecordEnforcement, Rem!NoFault, ControllerPcs
  <2>4. remoteWorker' \in Workers BY TypeParts DEF Rem!RecordEnforcement
  <2>5. watcher' \in Watchers BY TypeParts DEF Rem!RecordEnforcement, Rem!serverVars
  <2>6. QED BY <2>1, <2>2, <2>3, <2>4, <2>5, TypeWhole
<1>2. CancellerOK' /\ ServerOK'
  BY DEF CancellerOK, ServerOK, Rem!RecordEnforcement, Rem!rowVars, Rem!procVars, Rem!serverVars
<1>3. ControllerOK' BY DEF Rem!TypeOK, ControllerOK, Rem!RecordEnforcement, Rem!procVars
<1>4. FilesOK'
  BY DEF Rem!TypeOK, ControllerOK, FilesOK, Rem!RecordEnforcement, Rem!procVars, Rem!Terminal, Rem!Live
<1>5. WorkerOK' BY DEF Rem!TypeOK, Over, WorkerOK, Rem!RecordEnforcement, Rem!rowVars, Rem!procVars
<1>6. RowOK' BY DEF Over, Rem!Unproven, RowOK, Rem!RecordEnforcement, Rem!rowVars, Rem!procVars
<1>7. QED BY <1>1, <1>2, <1>3, <1>4, <1>5, <1>6

\* WriteResult: the result comes before the state, of a reaped process.
LEMMA WriteResultInv ==
    ASSUME Rem!RemoteConstants, IInv, Rem!WriteResult
    PROVE  IInv'
<1> USE DEF IInv
<1>1. Rem!TypeOK'
  <2>1. ScalarsOK'
    BY TypeParts DEF ScalarsOK, Rem!Files, Rem!WriteResult, Rem!rowVars, Rem!procVars,
       Rem!serverVars, Rem!Verdict, Rem!Live
  <2>2. FlagsOK' BY TypeParts, Zenon DEF FlagsOK, Rem!WriteResult, Rem!rowVars, Rem!procVars
  <2>3. ctl' \in Controllers
    BY TypeParts, ControllerFields, Literals, Zenon DEF Rem!WriteResult, ControllerPcs
  <2>4. remoteWorker' \in Workers BY TypeParts DEF Rem!WriteResult
  <2>5. watcher' \in Watchers BY TypeParts DEF Rem!WriteResult, Rem!serverVars
  <2>6. QED BY <2>1, <2>2, <2>3, <2>4, <2>5, TypeWhole
<1>2. ServerOK' BY DEF ServerOK, Rem!WriteResult, Rem!rowVars, Rem!procVars, Rem!serverVars
<1>3. ControllerOK' BY DEF ControllerOK, Rem!WriteResult, Rem!procVars, Rem!Verdict, Rem!Terminal
<1>4. FilesOK' BY DEF FilesOK, Rem!WriteResult, Rem!procVars, Rem!Verdict, Rem!Terminal
<1>5. CancellerOK' BY DEF CancellerOK, Rem!WriteResult, Rem!procVars, Rem!Verdict, Rem!Terminal
<1>6. WorkerOK' BY DEF Over, WorkerOK, Rem!WriteResult, Rem!rowVars, Rem!procVars
<1>7. RowOK' BY DEF Over, Rem!Unproven, RowOK, Rem!WriteResult, Rem!rowVars, Rem!procVars
<1>8. QED BY <1>1, <1>2, <1>3, <1>4, <1>5, <1>6, <1>7

\* WriteState: the terminal state finds its result, and says completed only of a
\* process that returned 0.
LEMMA WriteStateInv ==
    ASSUME Rem!RemoteConstants, IInv, Rem!WriteState
    PROVE  IInv'
<1> USE DEF IInv
<1>1. Rem!TypeOK'
  <2>1. ScalarsOK' BY TypeParts DEF ScalarsOK, Rem!Files, Rem!WriteState, Rem!rowVars, Rem!procVars,
       Rem!serverVars, Rem!Verdict
  <2>2. FlagsOK' BY TypeParts, Zenon DEF FlagsOK, Rem!WriteState, Rem!rowVars, Rem!procVars
  <2>3. ctl' \in Controllers
    BY TypeParts, ControllerFields, Literals, Zenon DEF Rem!WriteState, ControllerPcs
  <2>4. remoteWorker' \in Workers BY TypeParts DEF Rem!WriteState
  <2>5. watcher' \in Watchers BY TypeParts DEF Rem!WriteState, Rem!serverVars
  <2>6. QED BY <2>1, <2>2, <2>3, <2>4, <2>5, TypeWhole
<1>2. CancellerOK' /\ ServerOK'
  BY DEF CancellerOK, ServerOK, Rem!WriteState, Rem!rowVars, Rem!procVars, Rem!serverVars
<1>3. ControllerOK' BY DEF ControllerOK, Rem!WriteState, Rem!procVars
<1>4. FilesOK' BY DEF ControllerOK, FilesOK, Rem!WriteState, Rem!procVars, Rem!Verdict
<1>5. WorkerOK' BY DEF Over, WorkerOK, Rem!WriteState, Rem!rowVars, Rem!procVars
<1>6. RowOK' BY DEF Over, Rem!Unproven, RowOK, Rem!WriteState, Rem!rowVars, Rem!procVars
<1>7. QED BY <1>1, <1>2, <1>3, <1>4, <1>5, <1>6

\* Goodbye: the exit marker tells the worker of a reaped process.
LEMMA GoodbyeInv ==
    ASSUME Rem!RemoteConstants, IInv, Rem!Goodbye
    PROVE  IInv'
<1> USE DEF IInv
<1>1. Rem!TypeOK'
  <2>1. ScalarsOK'
    BY TypeParts DEF ScalarsOK, Rem!Goodbye, Rem!rowVars, Rem!procVars, Rem!fileVars, Rem!serverVars
  <2>2. FlagsOK' BY TypeParts, Zenon DEF FlagsOK, Rem!Goodbye, Rem!rowVars, Rem!procVars
  <2>3. ctl' \in Controllers
    BY TypeParts, ControllerFields, Literals, Zenon DEF Rem!Goodbye, ControllerPcs
  <2>4. remoteWorker' \in Workers BY TypeParts, WorkerFields, Literals, Zenon DEF Rem!Goodbye
  <2>5. watcher' \in Watchers BY TypeParts DEF Rem!Goodbye, Rem!serverVars
  <2>6. QED BY <2>1, <2>2, <2>3, <2>4, <2>5, TypeWhole
<1>2. FilesOK' BY DEF FilesOK, Rem!Goodbye, Rem!procVars, Rem!fileVars
<1>3. ControllerOK' BY DEF ControllerOK, Rem!Goodbye, Rem!procVars
<1>4. CancellerOK' BY DEF CancellerOK, Rem!Goodbye, Rem!procVars, Rem!fileVars
<1>5. WorkerOK' BY DEF Over, ControllerOK, WorkerOK, Rem!Goodbye, Rem!rowVars, Rem!procVars
<1>6. ServerOK' BY DEF ServerOK, Rem!Goodbye, Rem!rowVars, Rem!procVars, Rem!serverVars
<1>7. RowOK' BY DEF Over, Rem!Unproven, RowOK, Rem!Goodbye, Rem!rowVars, Rem!procVars
<1>8. QED BY <1>1, <1>2, <1>3, <1>4, <1>5, <1>6, <1>7

\* ControllerDies: no controller can start the process any more, and none that
\* could has died.
LEMMA ControllerDiesInv ==
    ASSUME Rem!RemoteConstants, IInv, Rem!ControllerDies
    PROVE  IInv'
<1> USE DEF IInv
<1>1. Rem!TypeOK'
  <2>1. ScalarsOK' BY TypeParts DEF ScalarsOK, Rem!RemoteConstants, Rem!ControllerDies, Rem!rowVars,
       Rem!procVars, Rem!fileVars,
           Rem!serverVars, Rem!Fault
  <2>2. FlagsOK' BY TypeParts, Zenon DEF FlagsOK, Rem!ControllerDies, Rem!rowVars, Rem!procVars
  <2>3. ctl' \in Controllers
    BY TypeParts, ControllerFields, Literals, Zenon DEF Rem!ControllerDies, ControllerPcs
  <2>4. remoteWorker' \in Workers BY TypeParts DEF Rem!ControllerDies
  <2>5. watcher' \in Watchers BY TypeParts DEF Rem!ControllerDies, Rem!serverVars
  <2>6. QED BY <2>1, <2>2, <2>3, <2>4, <2>5, TypeWhole
<1>2. FilesOK' /\ CancellerOK' /\ ServerOK'
  BY DEF FilesOK, CancellerOK, ServerOK, Rem!ControllerDies, Rem!rowVars, Rem!procVars,
     Rem!fileVars, Rem!serverVars
<1>3. ControllerOK' BY DEF ControllerOK, Rem!ControllerDies, Rem!procVars
<1>4. WorkerOK' BY DEF Over, WorkerOK, Rem!ControllerDies, Rem!rowVars, Rem!procVars
<1>5. RowOK' BY DEF Over, Rem!Unproven, RowOK, Rem!ControllerDies, Rem!rowVars, Rem!procVars
<1>6. QED BY <1>1, <1>2, <1>3, <1>4, <1>5

\* InitReaps: a zombie of a dead controller stays ended.
LEMMA InitReapsInv ==
    ASSUME Rem!RemoteConstants, IInv, Rem!InitReaps
    PROVE  IInv'
<1> USE DEF IInv
<1>1. Rem!TypeOK'
  <2>1. ScalarsOK'
    BY TypeParts DEF ScalarsOK, Rem!InitReaps, Rem!rowVars, Rem!fileVars, Rem!serverVars
  <2>2. FlagsOK' BY TypeParts, Zenon DEF FlagsOK, Rem!InitReaps, Rem!rowVars
  <2>3. ctl' \in Controllers BY TypeParts DEF Rem!InitReaps
  <2>4. remoteWorker' \in Workers BY TypeParts DEF Rem!InitReaps
  <2>5. watcher' \in Watchers BY TypeParts DEF Rem!InitReaps, Rem!serverVars
  <2>6. QED BY <2>1, <2>2, <2>3, <2>4, <2>5, TypeWhole
<1>2. ControllerOK' BY DEF ControllerOK, Rem!InitReaps
<1>3. FilesOK' BY DEF FilesOK, Rem!InitReaps, Rem!fileVars
<1>4. CancellerOK' BY DEF CancellerOK, Rem!InitReaps, Rem!fileVars
<1>5. WorkerOK' BY DEF Over, WorkerOK, Rem!InitReaps, Rem!rowVars
<1>6. ServerOK' BY DEF ServerOK, Rem!InitReaps, Rem!rowVars, Rem!serverVars
<1>7. RowOK' BY DEF Over, RowOK, Rem!InitReaps, Rem!rowVars
<1>8. QED BY <1>1, <1>2, <1>3, <1>4, <1>5, <1>6, <1>7

\* PersistRequest: the cancellation controller finds a process that was recorded.
LEMMA PersistRequestInv ==
    ASSUME Rem!RemoteConstants, IInv, Rem!PersistRequest
    PROVE  IInv'
<1> USE DEF IInv
<1>1. Rem!TypeOK'
  <2>1. ScalarsOK'
    BY TypeParts DEF ScalarsOK, Rem!Files, Rem!PersistRequest, Rem!rowVars, Rem!procVars,
       Rem!serverVars
  <2>2. FlagsOK' BY TypeParts, Zenon DEF FlagsOK, Rem!PersistRequest, Rem!rowVars, Rem!procVars
  <2>3. ctl' \in Controllers BY TypeParts DEF Rem!PersistRequest
  <2>4. remoteWorker' \in Workers BY TypeParts DEF Rem!PersistRequest
  <2>5. watcher' \in Watchers BY TypeParts DEF Rem!PersistRequest, Rem!serverVars
  <2>6. QED BY <2>1, <2>2, <2>3, <2>4, <2>5, TypeWhole
<1>2. ControllerOK' /\ WorkerOK' /\ ServerOK' /\ RowOK'
  BY DEF ControllerOK, WorkerOK, ServerOK, RowOK, Over, Rem!Unproven, Rem!PersistRequest,
     Rem!rowVars,
         Rem!procVars, Rem!serverVars
<1>3. FilesOK' BY DEF FilesOK, Rem!PersistRequest, Rem!procVars, Rem!Terminal
<1>4. CancellerOK' BY DEF FilesOK, CancellerOK, Rem!PersistRequest, Rem!procVars
<1>5. QED BY <1>1, <1>2, <1>3, <1>4

\* Signal: the signalled process is a zombie, or was one.
LEMMA SignalInv ==
    ASSUME Rem!RemoteConstants, IInv, Rem!Signal
    PROVE  IInv'
<1> USE DEF IInv
<1>1. Rem!TypeOK'
  <2>1. ScalarsOK' BY TypeParts DEF ScalarsOK, Rem!Signal, Rem!rowVars, Rem!procVars, Rem!fileVars,
       Rem!serverVars, Rem!Kill
  <2>2. FlagsOK' BY TypeParts, Zenon DEF FlagsOK, Rem!Signal, Rem!rowVars, Rem!procVars, Rem!Kill
  <2>3. ctl' \in Controllers BY TypeParts DEF Rem!Signal
  <2>4. remoteWorker' \in Workers BY TypeParts DEF Rem!Signal
  <2>5. watcher' \in Watchers BY TypeParts DEF Rem!Signal, Rem!serverVars
  <2>6. QED BY <2>1, <2>2, <2>3, <2>4, <2>5, TypeWhole
<1>2. ControllerOK' BY DEF ControllerOK, Rem!Signal, Rem!procVars, Rem!fileVars, Rem!Kill
<1>3. FilesOK' BY DEF ControllerOK, FilesOK, Rem!Signal, Rem!procVars, Rem!fileVars, Rem!Kill
<1>4. CancellerOK' BY DEF CancellerOK, Rem!Signal, Rem!procVars, Rem!Kill
<1>5. WorkerOK' BY DEF Over, CancellerOK, WorkerOK, Rem!Signal, Rem!procVars, Rem!Kill
<1>6. ServerOK'
  BY DEF ControllerOK, ServerOK, Rem!Signal, Rem!rowVars, Rem!procVars, Rem!serverVars, Rem!Kill
<1>7. RowOK'
  BY DEF Over, Rem!Unproven, ControllerOK, RowOK, Rem!Signal, Rem!rowVars, Rem!procVars, Rem!Kill
<1>8. QED BY <1>1, <1>2, <1>3, <1>4, <1>5, <1>6, <1>7

\* AwaitGone: the cancellation controller goes on to write once the process has ended.
LEMMA AwaitGoneInv ==
    ASSUME Rem!RemoteConstants, IInv, Rem!AwaitGone
    PROVE  IInv'
<1> USE DEF IInv
<1>1. Rem!TypeOK'
  <2>1. ScalarsOK'
    BY TypeParts DEF ScalarsOK, Rem!RemoteConstants, Rem!AwaitGone, Rem!rowVars, Rem!procVars,
       Rem!fileVars,
           Rem!serverVars, Rem!Fault, Rem!NoFault
  <2>2. FlagsOK' BY TypeParts, Zenon DEF FlagsOK, Rem!AwaitGone, Rem!rowVars, Rem!procVars
  <2>3. ctl' \in Controllers BY TypeParts DEF Rem!AwaitGone
  <2>4. remoteWorker' \in Workers BY TypeParts DEF Rem!AwaitGone
  <2>5. watcher' \in Watchers BY TypeParts DEF Rem!AwaitGone, Rem!serverVars
  <2>6. QED BY <2>1, <2>2, <2>3, <2>4, <2>5, TypeWhole
<1>2. ControllerOK' /\ FilesOK' /\ WorkerOK' /\ ServerOK' /\ RowOK'
  BY DEF ControllerOK, FilesOK, WorkerOK, ServerOK, RowOK, Over, Rem!Unproven, Rem!AwaitGone,
     Rem!rowVars,
         Rem!procVars, Rem!fileVars, Rem!serverVars
<1>3. CancellerOK' BY DEF CancellerOK, Rem!AwaitGone, Rem!procVars, Rem!Gone
<1>4. QED BY <1>1, <1>2, <1>3

\* WriteCancelled: result and state say cancelled, in this order, of an ended process.
LEMMA WriteCancelledInv ==
    ASSUME Rem!RemoteConstants, IInv, Rem!WriteCancelled
    PROVE  IInv'
<1> USE DEF IInv
<1>1. Rem!TypeOK'
  <2>1. ScalarsOK'
    BY TypeParts DEF ScalarsOK, Rem!Files, Rem!WriteCancelled, Rem!rowVars, Rem!procVars,
       Rem!serverVars, Rem!Live
  <2>2. FlagsOK' BY TypeParts, Zenon DEF FlagsOK, Rem!WriteCancelled, Rem!rowVars, Rem!procVars
  <2>3. ctl' \in Controllers BY TypeParts DEF Rem!WriteCancelled
  <2>4. remoteWorker' \in Workers BY TypeParts DEF Rem!WriteCancelled
  <2>5. watcher' \in Watchers BY TypeParts DEF Rem!WriteCancelled, Rem!serverVars
  <2>6. QED BY <2>1, <2>2, <2>3, <2>4, <2>5, TypeWhole
<1>2. WorkerOK' /\ ServerOK' /\ RowOK'
  BY DEF WorkerOK, ServerOK, RowOK, Over, Rem!Unproven, Rem!WriteCancelled, Rem!rowVars,
     Rem!procVars,
         Rem!serverVars
<1>3. ControllerOK' BY DEF ControllerOK, Rem!WriteCancelled, Rem!procVars, Rem!Terminal
<1>4. FilesOK' BY DEF FilesOK, CancellerOK, Rem!WriteCancelled, Rem!procVars, Rem!Terminal
<1>5. CancellerOK' BY DEF CancellerOK, Rem!WriteCancelled, Rem!procVars, Rem!Terminal
<1>6. QED BY <1>1, <1>2, <1>3, <1>4, <1>5

\* CancellerDies: what it has written stays true.
LEMMA CancellerDiesInv ==
    ASSUME Rem!RemoteConstants, IInv, Rem!CancellerDies
    PROVE  IInv'
<1> USE DEF IInv
<1>1. Rem!TypeOK'
  <2>1. ScalarsOK'
    BY TypeParts DEF ScalarsOK, Rem!RemoteConstants, Rem!CancellerDies, Rem!rowVars, Rem!procVars,
       Rem!fileVars,
           Rem!serverVars, Rem!Fault
  <2>2. FlagsOK' BY TypeParts, Zenon DEF FlagsOK, Rem!CancellerDies, Rem!rowVars, Rem!procVars
  <2>3. ctl' \in Controllers BY TypeParts DEF Rem!CancellerDies
  <2>4. remoteWorker' \in Workers BY TypeParts DEF Rem!CancellerDies
  <2>5. watcher' \in Watchers BY TypeParts DEF Rem!CancellerDies, Rem!serverVars
  <2>6. QED BY <2>1, <2>2, <2>3, <2>4, <2>5, TypeWhole
<1>2. ControllerOK' /\ FilesOK' /\ WorkerOK' /\ ServerOK' /\ RowOK'
  BY DEF ControllerOK, FilesOK, WorkerOK, ServerOK, RowOK, Over, Rem!Unproven, Rem!CancellerDies,
         Rem!rowVars, Rem!procVars, Rem!fileVars, Rem!serverVars
<1>3. CancellerOK' BY DEF CancellerOK, Rem!CancellerDies
<1>4. QED BY <1>1, <1>2, <1>3

\* Launch: the worker leaves "launch" for good; without a controller the process
\* can never start.
LEMMA LaunchInv ==
    ASSUME Rem!RemoteConstants, IInv, Rem!Launch
    PROVE  IInv'
<1> USE DEF IInv
<1>1. Rem!TypeOK'
  <2>1. ScalarsOK'
    BY TypeParts DEF ScalarsOK, Rem!Launch, Rem!rowVars, Rem!procVars, Rem!fileVars, Rem!serverVars
  <2>2. FlagsOK' BY TypeParts, Zenon DEF FlagsOK, Rem!Launch, Rem!rowVars, Rem!procVars
  <2>3. ctl' \in Controllers
    BY TypeParts, ControllerFields, Literals, Zenon DEF Rem!Launch, ControllerPcs
  <2>4. remoteWorker' \in Workers BY TypeParts, WorkerFields, Literals, Zenon DEF Rem!Launch
  <2>5. watcher' \in Watchers BY TypeParts DEF Rem!Launch, Rem!serverVars
  <2>6. QED BY <2>1, <2>2, <2>3, <2>4, <2>5, TypeWhole
<1>2. FilesOK' BY DEF FilesOK, Rem!Launch, Rem!procVars, Rem!fileVars
<1>3. ControllerOK' BY DEF Rem!TypeOK, ControllerOK, WorkerOK, Rem!Launch, Rem!procVars
<1>4. CancellerOK' BY DEF CancellerOK, Rem!Launch
<1>5. WorkerOK'
  <2>1. CASE asked BY <2>1 DEF Rem!TypeOK, Over, WorkerOK, Rem!Launch, Rem!rowVars, Rem!procVars
  <2>2. CASE ~asked
    BY <2>2 DEF Rem!TypeOK, Over, ControllerOK, WorkerOK, Rem!Launch, Rem!rowVars, Rem!procVars
  <2>3. QED BY <2>1, <2>2
<1>6. ServerOK' BY DEF ControllerOK, WorkerOK, ServerOK, Rem!Launch, Rem!serverVars
<1>7. RowOK' BY DEF Over, Rem!Unproven, ControllerOK, WorkerOK, RowOK, Rem!Launch, Rem!rowVars
<1>8. QED BY <1>1, <1>2, <1>3, <1>4, <1>5, <1>6, <1>7

\* ReadProgress: the worker's copy of the progress claims nothing about the process.
LEMMA ReadProgressInv ==
    ASSUME Rem!RemoteConstants, IInv, Rem!ReadProgress
    PROVE  IInv'
<1> USE DEF IInv
<1>1. Rem!TypeOK'
  <2>1. ScalarsOK'
    BY TypeParts DEF ScalarsOK, Rem!ReadProgress, Rem!rowVars, Rem!procVars, Rem!fileVars,
       Rem!serverVars
  <2>2. FlagsOK' BY TypeParts, Zenon DEF FlagsOK, Rem!ReadProgress, Rem!rowVars, Rem!procVars
  <2>3. ctl' \in Controllers BY TypeParts DEF Rem!ReadProgress
  <2>4. remoteWorker' \in Workers BY TypeParts, WorkerFields, Literals, Zenon DEF Rem!ReadProgress
  <2>5. watcher' \in Watchers BY TypeParts DEF Rem!ReadProgress, Rem!serverVars
  <2>6. QED BY <2>1, <2>2, <2>3, <2>4, <2>5, TypeWhole
<1>2. ControllerOK' /\ FilesOK'
  BY DEF ControllerOK, FilesOK, Rem!ReadProgress, Rem!procVars, Rem!fileVars
<1>3. CancellerOK' BY DEF CancellerOK, Rem!ReadProgress, Rem!procVars, Rem!fileVars
<1>4. WorkerOK' BY DEF Over, WorkerOK, Rem!ReadProgress, Rem!rowVars, Rem!procVars
<1>5. ServerOK' BY DEF ServerOK, Rem!ReadProgress, Rem!rowVars, Rem!procVars, Rem!serverVars
<1>6. RowOK' BY DEF Over, Rem!Unproven, RowOK, Rem!ReadProgress, Rem!rowVars, Rem!procVars
<1>7. QED BY <1>1, <1>2, <1>3, <1>4, <1>5, <1>6

\* WriteProgress: the row stays live while the worker is there.
LEMMA WriteProgressInv ==
    ASSUME Rem!RemoteConstants, IInv, Rem!WriteProgress
    PROVE  IInv'
<1> USE DEF IInv
<1>1. Rem!TypeOK'
  <2>1. ScalarsOK' BY TypeParts DEF ScalarsOK, Rem!WriteProgress, Rem!procVars, Rem!fileVars
  <2>2. FlagsOK' BY TypeParts, Zenon DEF FlagsOK, Rem!WriteProgress, Rem!procVars
  <2>3. ctl' \in Controllers BY TypeParts DEF Rem!WriteProgress
  <2>4. remoteWorker' \in Workers BY TypeParts, WorkerFields, Literals, Zenon DEF Rem!WriteProgress
  <2>5. watcher' \in Watchers BY TypeParts, WatcherFields, Literals, Zenon DEF Rem!WriteProgress
  <2>6. QED BY <2>1, <2>2, <2>3, <2>4, <2>5, TypeWhole
<1>2. ControllerOK' /\ FilesOK'
  BY DEF ControllerOK, FilesOK, Rem!WriteProgress, Rem!procVars, Rem!fileVars
<1>3. CancellerOK' BY DEF CancellerOK, Rem!WriteProgress, Rem!procVars, Rem!fileVars
<1>4. WorkerOK' BY DEF Over, WorkerOK, Rem!WriteProgress, Rem!procVars
<1>5. ServerOK' BY DEF ServerOK, Rem!WriteProgress, Rem!procVars
<1>6. RowOK'
  BY DEF Over, Rem!Unproven, WorkerOK, RowOK, Rem!WriteProgress, Rem!procVars, Rem!Attached
<1>7. QED BY <1>1, <1>2, <1>3, <1>4, <1>5, <1>6

\* Notice: a reason to stop is noted; the row stays live.
LEMMA NoticeInv ==
    ASSUME Rem!RemoteConstants, IInv, Rem!Notice
    PROVE  IInv'
<1> USE DEF IInv
<1>1. Rem!TypeOK'
  <2>1. ScalarsOK'
    BY TypeParts DEF ScalarsOK, Rem!RemoteConstants, Rem!Notice, Rem!rowVars, Rem!procVars,
       Rem!fileVars,
           Rem!serverVars, Rem!Fault, Rem!NoFault
  <2>2. FlagsOK' BY TypeParts, Zenon DEF FlagsOK, Rem!Notice, Rem!rowVars, Rem!procVars
  <2>3. ctl' \in Controllers BY TypeParts DEF Rem!Notice
  <2>4. remoteWorker' \in Workers
    BY TypeParts, WorkerFields, Literals, Zenon DEF Rem!Notice, Rem!Fault, Rem!NoFault, Rem!Attached
  <2>5. watcher' \in Watchers BY TypeParts DEF Rem!Notice, Rem!serverVars
  <2>6. QED BY <2>1, <2>2, <2>3, <2>4, <2>5, TypeWhole
<1>2. ControllerOK' /\ FilesOK' BY DEF ControllerOK, FilesOK, Rem!Notice, Rem!procVars, Rem!fileVars
<1>3. CancellerOK' BY DEF Rem!TypeOK, CancellerOK, Rem!Notice, Rem!procVars, Rem!fileVars
<1>4. WorkerOK' BY DEF Rem!TypeOK, Over, WorkerOK, Rem!Notice, Rem!rowVars, Rem!procVars
<1>5. ServerOK' BY DEF Rem!TypeOK, ServerOK, Rem!Notice, Rem!rowVars, Rem!procVars, Rem!serverVars
<1>6. RowOK' BY DEF Rem!TypeOK, Over, Rem!Unproven, RowOK, Rem!Notice, Rem!rowVars, Rem!procVars
<1>7. QED BY <1>1, <1>2, <1>3, <1>4, <1>5, <1>6

\* Terminate: the worker goes to confirm only when it has seen the process start.
LEMMA TerminateInv ==
    ASSUME Rem!RemoteConstants, IInv, Rem!Terminate
    PROVE  IInv'
<1> USE DEF IInv
<1>1. Rem!TypeOK'
  <2>1. ScalarsOK'
    BY TypeParts DEF ScalarsOK, Rem!Terminate, Rem!rowVars, Rem!procVars, Rem!fileVars,
       Rem!serverVars, Rem!Kill
  <2>2. FlagsOK' BY TypeParts, Zenon DEF FlagsOK, Rem!Terminate, Rem!rowVars, Rem!procVars, Rem!Kill
  <2>3. ctl' \in Controllers BY TypeParts DEF Rem!Terminate
  <2>4. remoteWorker' \in Workers BY TypeParts, WorkerFields, Literals, Zenon DEF Rem!Terminate
  <2>5. watcher' \in Watchers BY TypeParts DEF Rem!Terminate, Rem!serverVars
  <2>6. QED BY <2>1, <2>2, <2>3, <2>4, <2>5, TypeWhole
<1>2. ControllerOK' BY DEF ControllerOK, Rem!Terminate, Rem!procVars, Rem!fileVars, Rem!Kill
<1>3. FilesOK' BY DEF ControllerOK, FilesOK, Rem!Terminate, Rem!procVars, Rem!fileVars, Rem!Kill
<1>4. CancellerOK' BY DEF CancellerOK, Rem!Terminate, Rem!Attached
<1>5. WorkerOK'
  BY DEF Over, WorkerOK, Rem!Terminate, Rem!rowVars, Rem!procVars, Rem!Kill, Rem!Attached
<1>6. ServerOK'
  BY DEF ControllerOK, ServerOK, Rem!Terminate, Rem!procVars, Rem!serverVars, Rem!Kill, Rem!Attached
<1>7. RowOK'
  BY DEF Over, Rem!Unproven, ControllerOK, RowOK, Rem!Terminate, Rem!rowVars, Rem!procVars, Rem!Kill
<1>8. QED BY <1>1, <1>2, <1>3, <1>4, <1>5, <1>6, <1>7

\* ConfirmTermination: confirmed only when the process is over.
LEMMA ConfirmTerminationInv ==
    ASSUME Rem!RemoteConstants, IInv, Rem!ConfirmTermination
    PROVE  IInv'
<1> USE DEF IInv
<1>1. Rem!TypeOK'
  <2>1. ScalarsOK'
    BY TypeParts DEF ScalarsOK, Rem!RemoteConstants, Rem!ConfirmTermination, Rem!rowVars,
       Rem!procVars,
           Rem!fileVars, Rem!serverVars, Rem!Fault, Rem!NoFault
  <2>2. FlagsOK' BY TypeParts, Zenon DEF FlagsOK, Rem!ConfirmTermination, Rem!rowVars, Rem!procVars
  <2>3. ctl' \in Controllers BY TypeParts DEF Rem!ConfirmTermination
  <2>4. remoteWorker' \in Workers
    <3>1. CASE remoteWorker' = [remoteWorker EXCEPT !.pc = "publish", !.confirmed = TRUE,
    !.link = FALSE]
      BY <3>1, TypeParts, WorkerFields, Literals, Zenon
    <3>2. CASE remoteWorker' = [remoteWorker EXCEPT !.pc = "attached"]
      BY <3>2, TypeParts, WorkerFields, Literals, Zenon
    <3>3. QED BY <3>1, <3>2 DEF Rem!ConfirmTermination
  <2>5. watcher' \in Watchers BY TypeParts DEF Rem!ConfirmTermination, Rem!serverVars
  <2>6. QED BY <2>1, <2>2, <2>3, <2>4, <2>5, TypeWhole
<1>2. ControllerOK' /\ FilesOK'
  BY DEF ControllerOK, FilesOK, Rem!ConfirmTermination, Rem!procVars, Rem!fileVars
<1>3. CancellerOK' BY DEF CancellerOK, Rem!ConfirmTermination
<1>4. WorkerOK'
  BY DEF Rem!TypeOK, Rem!Files, Over, Rem!Unproven, ControllerOK, FilesOK, CancellerOK, WorkerOK,
     ServerOK,
         RowOK, Rem!RemoteConstants, Rem!ConfirmTermination, Rem!rowVars, Rem!procVars,
         Rem!fileVars, Rem!serverVars,
         Rem!Fault, Rem!NoFault, Rem!Gone, Rem!Terminal, Rem!Live
<1>5. ServerOK' BY DEF ServerOK, Rem!ConfirmTermination, Rem!procVars, Rem!serverVars
<1>6. RowOK'
  BY DEF Over, Rem!Unproven, WorkerOK, RowOK, Rem!ConfirmTermination, Rem!rowVars, Rem!procVars
<1>7. QED BY <1>1, <1>2, <1>3, <1>4, <1>5, <1>6

\* SshEnds: the end of the connection is taken as an end of the process only with
\* its exit marker.
LEMMA SshEndsInv ==
    ASSUME Rem!RemoteConstants, IInv, Rem!SshEnds
    PROVE  IInv'
<1> USE DEF IInv
<1>1. Rem!TypeOK'
  <2>1. ScalarsOK'
    BY TypeParts DEF ScalarsOK, Rem!RemoteConstants, Rem!SshEnds, Rem!rowVars, Rem!procVars,
       Rem!fileVars,
           Rem!serverVars, Rem!Fault, Rem!NoFault
  <2>2. FlagsOK' BY TypeParts, Zenon DEF FlagsOK, Rem!SshEnds, Rem!rowVars, Rem!procVars
  <2>3. ctl' \in Controllers BY TypeParts DEF Rem!SshEnds
  <2>4. remoteWorker' \in Workers BY TypeParts, WorkerFields, Literals, Zenon DEF Rem!SshEnds
  <2>5. watcher' \in Watchers BY TypeParts DEF Rem!SshEnds, Rem!serverVars
  <2>6. QED BY <2>1, <2>2, <2>3, <2>4, <2>5, TypeWhole
<1>2. ControllerOK' /\ FilesOK'
  BY DEF ControllerOK, FilesOK, Rem!SshEnds, Rem!procVars, Rem!fileVars
<1>3. CancellerOK' BY DEF CancellerOK, Rem!SshEnds, Rem!Attached
<1>4. WorkerOK'
  BY DEF Rem!TypeOK, Over, WorkerOK, Rem!SshEnds, Rem!rowVars, Rem!procVars, Rem!Attached
<1>5. ServerOK' BY DEF ServerOK, Rem!SshEnds, Rem!procVars, Rem!serverVars, Rem!Attached
<1>6. RowOK' BY DEF Over, Rem!Unproven, RowOK, Rem!SshEnds, Rem!rowVars, Rem!procVars
<1>7. QED BY <1>1, <1>2, <1>3, <1>4, <1>5, <1>6

\* Publish: the worker's verdict is terminal only with the exit marker or the
\* confirmation, or the run is one of the unproven ones.
LEMMA PublishInv ==
    ASSUME Rem!RemoteConstants, IInv, Rem!Publish
    PROVE  IInv'
<1> USE DEF IInv
<1>1. Rem!TypeOK'
  <2>1. ScalarsOK'
    <3>1. Rem!Outcome \in Rem!Terminal \cup {"cancellation_pending"}
      BY DEF Rem!TypeOK, Rem!Outcome, Rem!Terminal
    <3>2. status' \in Rem!Terminal \cup {"running", "cancellation_pending", "recovery_pending"}
      BY <3>1, TypeParts DEF ScalarsOK, Rem!Publish, Rem!Saved
    <3>3. QED BY <3>2, TypeParts DEF ScalarsOK, Rem!Publish, Rem!procVars, Rem!fileVars
  <2>2. FlagsOK'
    BY TypeParts, Zenon DEF FlagsOK, Rem!Publish, Rem!procVars, Rem!ReleaseUnlessPending
  <2>3. ctl' \in Controllers BY TypeParts DEF Rem!Publish
  <2>4. remoteWorker' \in Workers BY TypeParts, WorkerFields, Literals, Zenon DEF Rem!Publish
  <2>5. watcher' \in Watchers
    BY TypeParts, WatcherFields, Literals, Zenon DEF Rem!Publish, Rem!Saved
  <2>6. QED BY <2>1, <2>2, <2>3, <2>4, <2>5, TypeWhole
<1>2. ControllerOK' /\ FilesOK'
  BY DEF ControllerOK, FilesOK, Rem!Publish, Rem!procVars, Rem!fileVars
<1>3. CancellerOK' BY DEF CancellerOK, Rem!Publish
<1>4. WorkerOK' BY DEF Over, WorkerOK, Rem!Publish, Rem!procVars
<1>5. ServerOK' BY DEF Rem!TypeOK, ServerOK, Rem!Publish, Rem!procVars, Rem!Saved
<1>6. RowOK'
  BY DEF Rem!TypeOK, Over, Rem!Unproven, WorkerOK, RowOK, Rem!Publish, Rem!procVars, Rem!Outcome,
     Rem!Accepts,
         Rem!ReleaseUnlessPending, Rem!Saved, Rem!Terminal
<1>7. QED BY <1>1, <1>2, <1>3, <1>4, <1>5, <1>6

\* Fails: an error in the worker leaves an unproven run, or one that is pending.
LEMMA FailsInv ==
    ASSUME Rem!RemoteConstants, IInv, Rem!Fails
    PROVE  IInv'
<1> USE DEF IInv
<1>1. Rem!TypeOK'
  <2>1. ScalarsOK'
    BY TypeParts DEF ScalarsOK, Rem!RemoteConstants, Rem!Fails, Rem!procVars, Rem!fileVars,
       Rem!Fault, Rem!Saved,
           Rem!Terminal
  <2>2. FlagsOK' BY TypeParts, Zenon DEF FlagsOK, Rem!Fails, Rem!procVars, Rem!ReleaseUnlessPending
  <2>3. ctl' \in Controllers BY TypeParts DEF Rem!Fails
  <2>4. remoteWorker' \in Workers BY TypeParts, WorkerFields, Literals, Zenon DEF Rem!Fails
  <2>5. watcher' \in Watchers BY TypeParts, WatcherFields, Literals, Zenon DEF Rem!Fails, Rem!Saved
  <2>6. QED BY <2>1, <2>2, <2>3, <2>4, <2>5, TypeWhole
<1>2. ControllerOK' /\ FilesOK' BY DEF ControllerOK, FilesOK, Rem!Fails, Rem!procVars, Rem!fileVars
<1>3. CancellerOK' BY DEF CancellerOK, Rem!Fails, Rem!procVars, Rem!fileVars
<1>4. WorkerOK' BY DEF Over, WorkerOK, Rem!Fails, Rem!procVars
<1>5. ServerOK' BY DEF Rem!TypeOK, ServerOK, Rem!Fails, Rem!procVars, Rem!Saved
<1>6. RowOK' BY DEF Rem!TypeOK, Over, Rem!Unproven, WorkerOK, RowOK, Rem!RemoteConstants, Rem!Fails,
     Rem!procVars, Rem!Attached,
         Rem!ReleaseUnlessPending, Rem!Saved, Rem!Terminal
<1>7. QED BY <1>1, <1>2, <1>3, <1>4, <1>5, <1>6

\* WorkerDies: the row stays as it is.
LEMMA WorkerDiesInv ==
    ASSUME Rem!RemoteConstants, IInv, Rem!WorkerDies
    PROVE  IInv'
<1> USE DEF IInv
<1>1. Rem!TypeOK'
  <2>1. ScalarsOK'
    BY TypeParts DEF ScalarsOK, Rem!RemoteConstants, Rem!WorkerDies, Rem!rowVars, Rem!procVars,
       Rem!fileVars,
           Rem!serverVars, Rem!Fault
  <2>2. FlagsOK' BY TypeParts, Zenon DEF FlagsOK, Rem!WorkerDies, Rem!rowVars, Rem!procVars
  <2>3. ctl' \in Controllers BY TypeParts DEF Rem!WorkerDies
  <2>4. remoteWorker' \in Workers BY TypeParts, WorkerFields, Literals, Zenon DEF Rem!WorkerDies
  <2>5. watcher' \in Watchers BY TypeParts DEF Rem!WorkerDies, Rem!serverVars
  <2>6. QED BY <2>1, <2>2, <2>3, <2>4, <2>5, TypeWhole
<1>2. ControllerOK' /\ FilesOK'
  BY DEF ControllerOK, FilesOK, Rem!WorkerDies, Rem!procVars, Rem!fileVars
<1>3. CancellerOK' BY DEF CancellerOK, Rem!WorkerDies
<1>4. WorkerOK' BY DEF Over, WorkerOK, Rem!WorkerDies, Rem!procVars
<1>5. ServerOK' BY DEF ServerOK, Rem!WorkerDies, Rem!procVars, Rem!serverVars
<1>6. RowOK' BY DEF Over, Rem!Unproven, RowOK, Rem!WorkerDies, Rem!rowVars, Rem!procVars
<1>7. QED BY <1>1, <1>2, <1>3, <1>4, <1>5, <1>6

\* Cancel: a cancellation without a worker is sent to the host.
LEMMA CancelInv ==
    ASSUME Rem!RemoteConstants, IInv, Rem!Cancel
    PROVE  IInv'
<1> USE DEF IInv
<1>1. Rem!TypeOK'
  <2>1. ScalarsOK'
    BY TypeParts DEF ScalarsOK, Rem!RemoteConstants, Rem!Cancel, Rem!procVars, Rem!fileVars,
       Rem!Saved
  <2>2. FlagsOK' BY TypeParts, Zenon DEF FlagsOK, Rem!Cancel, Rem!procVars
  <2>3. ctl' \in Controllers BY TypeParts DEF Rem!Cancel
  <2>4. remoteWorker' \in Workers BY TypeParts DEF Rem!Cancel
  <2>5. watcher' \in Watchers BY TypeParts, WatcherFields, Literals, Zenon DEF Rem!Cancel, Rem!Saved
  <2>6. QED BY <2>1, <2>2, <2>3, <2>4, <2>5, TypeWhole
<1>2. ControllerOK' /\ FilesOK' BY DEF ControllerOK, FilesOK, Rem!Cancel, Rem!procVars, Rem!fileVars
<1>3. CancellerOK' BY DEF CancellerOK, Rem!Cancel, Rem!procVars
<1>4. WorkerOK' BY DEF Over, WorkerOK, Rem!Cancel, Rem!procVars, Rem!Saved
<1>5. ServerOK' BY DEF ServerOK, Rem!Cancel, Rem!procVars, Rem!Saved
<1>6. RowOK' BY DEF Over, Rem!Unproven, RowOK, Rem!Cancel, Rem!procVars, Rem!Saved, Rem!Terminal
<1>7. QED BY <1>1, <1>2, <1>3, <1>4, <1>5, <1>6

\* FinishCancel: the cancelling thread finishes the run when its controller has
\* confirmed the end of the process.
LEMMA FinishCancelInv ==
    ASSUME Rem!RemoteConstants, IInv, Rem!FinishCancel
    PROVE  IInv'
<1> USE DEF IInv
<1>1. Rem!TypeOK'
  <2>1. ScalarsOK'
    BY TypeParts DEF ScalarsOK, Rem!RemoteConstants, Rem!FinishCancel, Rem!procVars, Rem!fileVars,
       Rem!Fault,
           Rem!NoFault, Rem!Saved, Rem!Terminal
  <2>2. FlagsOK' BY TypeParts, Zenon DEF FlagsOK, Rem!FinishCancel, Rem!procVars
  <2>3. ctl' \in Controllers BY TypeParts DEF Rem!FinishCancel
  <2>4. remoteWorker' \in Workers BY TypeParts DEF Rem!FinishCancel
  <2>5. watcher' \in Watchers
    BY TypeParts, WatcherFields, Literals, Zenon DEF Rem!FinishCancel, Rem!Saved
  <2>6. QED BY <2>1, <2>2, <2>3, <2>4, <2>5, TypeWhole
<1>2. ControllerOK' /\ FilesOK' /\ CancellerOK'
  BY DEF ControllerOK, FilesOK, CancellerOK, Rem!FinishCancel, Rem!procVars, Rem!fileVars
<1>3. WorkerOK' BY DEF Over, CancellerOK, WorkerOK, Rem!FinishCancel, Rem!procVars
<1>4. ServerOK' BY DEF Rem!TypeOK, ServerOK, Rem!FinishCancel, Rem!procVars, Rem!Saved
<1>5. RowOK'
  BY DEF Over, Rem!Unproven, CancellerOK, RowOK, Rem!FinishCancel, Rem!procVars, Rem!Saved
<1>6. QED BY <1>1, <1>2, <1>3, <1>4, <1>5

\* Look: the poller reads an unfinished run whose worker is gone.
LEMMA LookInv ==
    ASSUME Rem!RemoteConstants, IInv, Rem!Look
    PROVE  IInv'
<1> USE DEF IInv
<1>1. Rem!TypeOK'
  <2>1. ScalarsOK' BY TypeParts DEF ScalarsOK, Rem!Look, Rem!rowVars, Rem!procVars, Rem!fileVars
  <2>2. FlagsOK' BY TypeParts, Zenon DEF FlagsOK, Rem!Look, Rem!rowVars, Rem!procVars
  <2>3. ctl' \in Controllers BY TypeParts DEF Rem!Look
  <2>4. remoteWorker' \in Workers BY TypeParts DEF Rem!Look
  <2>5. watcher' \in Watchers BY TypeParts, WatcherFields, Literals, Zenon DEF Rem!Look
  <2>6. QED BY <2>1, <2>2, <2>3, <2>4, <2>5, TypeWhole
<1>2. ControllerOK' /\ FilesOK' /\ CancellerOK' /\ WorkerOK' /\ RowOK'
  BY DEF ControllerOK, FilesOK, CancellerOK, WorkerOK, RowOK, Over, Rem!Unproven, Rem!Look,
     Rem!rowVars,
         Rem!procVars, Rem!fileVars
<1>3. ServerOK'
  <2>1. CASE status \in Rem!Terminal \/ remoteWorker.pc # "gone"
    BY <2>1 DEF Rem!TypeOK, ServerOK, Rem!Look, Rem!procVars
  <2>2. CASE ~(status \in Rem!Terminal \/ remoteWorker.pc # "gone")
    BY <2>2 DEF Rem!TypeOK, ServerOK, Rem!Look, Rem!rowVars, Rem!procVars
  <2>3. QED BY <2>1, <2>2
<1>4. QED BY <1>1, <1>2, <1>3

\* Probe: what the poller read from the files was true and stays true.
LEMMA ProbeInv ==
    ASSUME Rem!RemoteConstants, IInv, Rem!Probe
    PROVE  IInv'
<1> USE DEF IInv
<1>1. Rem!TypeOK'
  <2>1. ScalarsOK'
    BY TypeParts DEF ScalarsOK, Rem!RemoteConstants, Rem!Probe, Rem!rowVars, Rem!procVars,
       Rem!fileVars, Rem!Fault,
           Rem!NoFault
  <2>2. FlagsOK' BY TypeParts, Zenon DEF FlagsOK, Rem!Probe, Rem!rowVars, Rem!procVars
  <2>3. ctl' \in Controllers BY TypeParts DEF Rem!Probe
  <2>4. remoteWorker' \in Workers BY TypeParts DEF Rem!Probe
  <2>5. watcher' \in Watchers
    <3>1. state \in Rem!Files BY TypeParts DEF ScalarsOK
    <3>2. CASE watcher' = [watcher EXCEPT !.pc = "apply", !.seen = state]
      BY <3>1, <3>2, TypeParts, WatcherFields, Literals, Zenon
    <3>3. CASE watcher' = [watcher EXCEPT !.pc = "apply", !.seen = "none"]
      BY <3>3, TypeParts, WatcherFields, Literals, Zenon
    <3>4. QED BY <3>2, <3>3 DEF Rem!Probe
  <2>6. QED BY <2>1, <2>2, <2>3, <2>4, <2>5, TypeWhole
<1>2. ControllerOK' /\ FilesOK' /\ CancellerOK' /\ WorkerOK' /\ RowOK'
  BY DEF ControllerOK, FilesOK, CancellerOK, WorkerOK, RowOK, Over, Rem!Unproven, Rem!Probe,
     Rem!rowVars,
         Rem!procVars, Rem!fileVars
<1>3. ServerOK'
  <2>1. /\ UNCHANGED <<cancelling, remoteWorker, status, proc, exitOk>>
        /\ watcher.pc = "probe" /\ watcher'.fresh = watcher.fresh
        /\ watcher'.seen = state \/ watcher'.seen = "none"
    BY TypeParts DEF Watchers, Rem!Probe, Rem!rowVars, Rem!procVars
  <2>2. "none" \notin Rem!Terminal /\ "none" # "completed" BY DEF Rem!Terminal
  <2>3. QED BY <2>1, <2>2 DEF ServerOK, FilesOK
<1>4. QED BY <1>1, <1>2, <1>3

\* Apply: the row gets the terminal state the poller saw, if it is still unfinished.
LEMMA ApplyInv ==
    ASSUME Rem!RemoteConstants, IInv, Rem!Apply
    PROVE  IInv'
<1> USE DEF IInv
<1>1. Rem!TypeOK'
  <2>1. ScalarsOK' BY TypeParts DEF ScalarsOK, Rem!Apply, Rem!procVars, Rem!fileVars
  <2>2. FlagsOK' BY TypeParts, Zenon DEF FlagsOK, Rem!Apply, Rem!procVars
  <2>3. ctl' \in Controllers BY TypeParts DEF Rem!Apply
  <2>4. remoteWorker' \in Workers BY TypeParts DEF Rem!Apply
  <2>5. watcher' \in Watchers BY TypeParts, WatcherFields, Literals, Zenon DEF Rem!Apply, Rem!Polls
  <2>6. QED BY <2>1, <2>2, <2>3, <2>4, <2>5, TypeWhole
<1>2. ControllerOK' /\ FilesOK' /\ CancellerOK'
  BY DEF ControllerOK, FilesOK, CancellerOK, Rem!Apply, Rem!procVars, Rem!fileVars
<1>3. WorkerOK' BY DEF Over, WorkerOK, ServerOK, Rem!Apply, Rem!procVars
<1>4. ServerOK' BY DEF ServerOK, Rem!Apply, Rem!Terminal
<1>5. RowOK' BY DEF Over, Rem!Unproven, ServerOK, RowOK, Rem!Apply, Rem!procVars, Rem!Terminal
<1>6. QED BY <1>1, <1>2, <1>3, <1>4, <1>5

\* ServerCrash: threads are lost, rows and files stay.
LEMMA ServerCrashInv ==
    ASSUME Rem!RemoteConstants, IInv, Rem!ServerCrash
    PROVE  IInv'
<1> USE DEF IInv
<1>1. Rem!TypeOK'
  <2>1. ScalarsOK'
    BY TypeParts DEF ScalarsOK, Rem!RemoteConstants, Rem!ServerCrash, Rem!rowVars, Rem!procVars,
       Rem!fileVars, Rem!Fault
  <2>2. FlagsOK' BY TypeParts, Zenon DEF FlagsOK, Rem!ServerCrash, Rem!rowVars, Rem!procVars
  <2>3. ctl' \in Controllers BY TypeParts DEF Rem!ServerCrash
  <2>4. remoteWorker' \in Workers BY TypeParts DEF Rem!ServerCrash
  <2>5. watcher' \in Watchers BY TypeParts, WatcherFields, Literals, Zenon DEF Rem!ServerCrash
  <2>6. QED BY <2>1, <2>2, <2>3, <2>4, <2>5, TypeWhole
<1>2. ControllerOK' /\ FilesOK' /\ CancellerOK' /\ WorkerOK' /\ RowOK'
  BY DEF ControllerOK, FilesOK, CancellerOK, WorkerOK, RowOK, Over, Rem!Unproven, Rem!ServerCrash,
         Rem!rowVars, Rem!procVars, Rem!fileVars
<1>3. ServerOK' BY DEF ServerOK, Rem!ServerCrash, Rem!Terminal
<1>4. QED BY <1>1, <1>2, <1>3

\* ServerStart: the new server starts with a look at the row.
LEMMA ServerStartInv ==
    ASSUME Rem!RemoteConstants, IInv, Rem!ServerStart
    PROVE  IInv'
<1> USE DEF IInv
<1>1. Rem!TypeOK'
  <2>1. ScalarsOK'
    BY TypeParts DEF ScalarsOK, Rem!ServerStart, Rem!rowVars, Rem!procVars, Rem!fileVars
  <2>2. FlagsOK' BY TypeParts, Zenon DEF FlagsOK, Rem!ServerStart, Rem!rowVars, Rem!procVars
  <2>3. ctl' \in Controllers BY TypeParts DEF Rem!ServerStart
  <2>4. remoteWorker' \in Workers BY TypeParts DEF Rem!ServerStart
  <2>5. watcher' \in Watchers BY TypeParts, WatcherFields, Literals, Zenon DEF Rem!ServerStart
  <2>6. QED BY <2>1, <2>2, <2>3, <2>4, <2>5, TypeWhole
<1>2. ControllerOK' /\ FilesOK' /\ CancellerOK' /\ WorkerOK' /\ RowOK'
  BY DEF ControllerOK, FilesOK, CancellerOK, WorkerOK, RowOK, Over, Rem!Unproven, Rem!ServerStart,
         Rem!rowVars, Rem!procVars, Rem!fileVars
<1>3. ServerOK' BY DEF ServerOK, Rem!ServerStart, Rem!procVars
<1>4. QED BY <1>1, <1>2, <1>3

----
(***************************************************************************)
(* The theorems.                                                           *)
(***************************************************************************)

\* The invariant holds in the first state.
LEMMA InitInv == Rem!RemoteConstants /\ Rem!Init => IInv
<1> SUFFICES ASSUME Rem!RemoteConstants, Rem!Init PROVE IInv
  OBVIOUS
<1>1. Rem!TypeOK
  <2>1. ScalarsOK BY DEF ScalarsOK, Rem!Init, Rem!RemoteConstants, Rem!Files, Rem!Terminal, Rem!Live
  <2>2. FlagsOK BY Zenon DEF FlagsOK, Rem!Init
  <2>3. ctl \in Controllers /\ remoteWorker \in Workers /\ watcher \in Watchers
    BY DEF Rem!Init, Controllers, Workers, Watchers, ControllerPcs, WorkerPcs, WatcherPcs, Reasons,
           Reads, Rem!Files, Rem!Live
  <2>4. QED
    BY <2>1, <2>2, <2>3, Zenon DEF Rem!TypeOK, FlagsOK, ScalarsOK, Controllers, Workers, Watchers,
           ControllerPcs, WorkerPcs, WatcherPcs, Reasons, Reads
<1>2. ControllerOK /\ FilesOK /\ CancellerOK /\ WorkerOK /\ ServerOK /\ RowOK
  BY DEF Rem!Init, ControllerOK, FilesOK, CancellerOK, WorkerOK, ServerOK, RowOK, Over, Rem!Terminal
<1>3. QED BY <1>1, <1>2 DEF IInv

\* Every step keeps it.
LEMMA NextInv == Rem!RemoteConstants /\ IInv /\ [Rem!Next]_remoteState => IInv'
<1> SUFFICES ASSUME Rem!RemoteConstants, IInv, [Rem!Next]_remoteState PROVE IInv'
  OBVIOUS
<1>1. CASE Rem!Controller
  BY <1>1, SpawnInv, RecordRunningInv, AnnounceInv, PollInv, BeatInv, RecordDecisionInv,
     EnforceMemoryInv, RecordEnforcementInv, WriteResultInv, WriteStateInv, GoodbyeInv, InitReapsInv DEF Rem!Controller
<1>2. CASE Rem!CommandExits \/ Rem!ControllerDies \/ Rem!CancellerDies
  BY <1>2, CommandExitsInv, ControllerDiesInv, CancellerDiesInv
<1>3. CASE Rem!Canceller
  BY <1>3, PersistRequestInv, SignalInv, AwaitGoneInv, WriteCancelledInv DEF Rem!Canceller
<1>4. CASE Rem!Worker \/ Rem!Fails \/ Rem!WorkerDies
  BY <1>4, LaunchInv, ReadProgressInv, WriteProgressInv, NoticeInv, TerminateInv,
     ConfirmTerminationInv, SshEndsInv, PublishInv, FailsInv, WorkerDiesInv DEF Rem!Worker
<1>5. CASE Rem!Cancel \/ Rem!FinishCancel BY <1>5, CancelInv, FinishCancelInv
<1>6. CASE Rem!Watcher \/ Rem!ServerCrash \/ Rem!ServerStart
  BY <1>6, LookInv, ProbeInv, ApplyInv, ServerCrashInv, ServerStartInv DEF Rem!Watcher
<1>7. CASE UNCHANGED remoteState
  <2>1. Rem!TypeOK' BY <1>7 DEF remoteState, IInv, Rem!TypeOK
  <2>2. ControllerOK' /\ FilesOK' /\ CancellerOK'
    BY <1>7 DEF remoteState, IInv, ControllerOK, FilesOK, CancellerOK
  <2>3. WorkerOK' /\ ServerOK' /\ RowOK'
    BY <1>7 DEF remoteState, IInv, WorkerOK, ServerOK, RowOK, Over, Rem!Unproven
  <2>4. QED BY <2>1, <2>2, <2>3 DEF IInv
<1>8. QED BY <1>1, <1>2, <1>3, <1>4, <1>5, <1>6, <1>7 DEF Rem!Next

\* The inductive invariant, in every state of every behaviour.
LEMMA RemoteAlways == Spec => []IInv
<1>1. Init => IInv BY HostConstants, InitInv DEF Init
<1>2. IInv /\ [Next]_vars => IInv' BY HostConstants, NextInv DEF Next, vars, remoteState
<1>3. QED BY <1>1, <1>2, PTL DEF Spec

\* What a finished remote run says of its process is true, the host stays locked
\* as long as the command may run, and a terminal state.json has its result.json:
\* for every tool, every fault and any number of crashes, restarts and
\* cancellations.
THEOREM RemoteRunsTruthful == Spec => []RemoteTruthful
<1>1. ASSUME IInv PROVE RemoteTruthful
  <2>1. Rem!TypeOK BY <1>1 DEF IInv
  <2>2. Over => proc # "running" BY <1>1 DEF IInv, Over, ControllerOK
  <2>3. Rem!VerdictTrue BY <1>1, <2>2 DEF IInv, ControllerOK, RowOK, Rem!VerdictTrue
  <2>4. Rem!HostStaysLocked BY <1>1, <2>2 DEF IInv, RowOK, Rem!HostStaysLocked
  <2>5. Rem!ResultBeforeState BY <1>1 DEF IInv, FilesOK, Rem!ResultBeforeState
  <2>6. QED BY <2>1, <2>3, <2>4, <2>5 DEF RemoteTruthful
<1>2. QED BY <1>1, RemoteAlways, PTL

\* A finished run keeps its status.
VerdictKept == status \in Rem!Terminal => status' = status

\* Whoever finishes the run first, worker, cancelling thread or poller, the others
\* do not revise it, with whatever they have read before.
THEOREM VerdictIsFinal == Spec => [][VerdictKept]_remoteState
<1>1. ASSUME IInv, [Next]_vars PROVE VerdictKept
  <2>1. CASE UNCHANGED status BY <2>1 DEF VerdictKept
  <2>2. CASE Rem!Publish BY <2>2 DEF Rem!Publish, Rem!Accepts, Rem!Saved, Rem!Terminal, VerdictKept
  <2>3. CASE Rem!Fails BY <2>3 DEF Rem!Fails, Rem!Saved, Rem!Terminal, VerdictKept
  <2>4. CASE Rem!Cancel BY <2>4 DEF Rem!Cancel, VerdictKept
  <2>5. CASE Rem!FinishCancel BY <2>5 DEF Rem!FinishCancel, Rem!Saved, Rem!Terminal, VerdictKept
  <2>6. CASE Rem!Apply BY <1>1, <2>6 DEF IInv, ServerOK, Rem!Apply, VerdictKept
  <2>7. CASE UNCHANGED remoteState BY <2>7, <2>1 DEF remoteState
  <2>8. CASE Rem!Controller \/ Rem!CommandExits \/ Rem!ControllerDies \/ Rem!Canceller \/ Rem!CancellerDies
    <3>1. Rem!Controller => UNCHANGED status
      BY DEF Rem!Controller, Rem!Spawn, Rem!RecordRunning, Rem!Announce, Rem!Poll, Rem!Beat,
         Rem!RecordDecision, Rem!EnforceMemory, Rem!RecordEnforcement, Rem!WriteResult,
             Rem!WriteState, Rem!Goodbye, Rem!InitReaps, Rem!rowVars
    <3>2. Rem!Canceller => UNCHANGED status
      BY DEF Rem!Canceller, Rem!PersistRequest, Rem!Signal, Rem!AwaitGone, Rem!WriteCancelled,
         Rem!rowVars
    <3>3. QED BY <2>1, <2>8, <3>1, <3>2 DEF Rem!CommandExits, Rem!ControllerDies, Rem!CancellerDies,
         Rem!rowVars
  <2>9. CASE Rem!Worker \/ Rem!WorkerDies
    <3>1. Rem!Worker => UNCHANGED status \/ Rem!Publish
      BY DEF Rem!Worker, Rem!Launch, Rem!ReadProgress, Rem!WriteProgress, Rem!Notice,
         Rem!Terminate, Rem!ConfirmTermination,
             Rem!SshEnds, Rem!rowVars
    <3>2. QED BY <2>1, <2>2, <2>9, <3>1 DEF Rem!WorkerDies, Rem!rowVars
  <2>10. CASE Rem!Watcher \/ Rem!ServerCrash \/ Rem!ServerStart
    BY <2>1, <2>6, <2>10 DEF Rem!Watcher, Rem!Look, Rem!Probe, Rem!ServerCrash, Rem!ServerStart,
       Rem!rowVars
  <2>11. QED
    BY <1>1, <2>3, <2>4, <2>5, <2>7, <2>8, <2>9, <2>10 DEF Rem!Next, Next, vars, remoteState
<1>2. QED BY <1>1, RemoteAlways, PTL DEF Spec

----
(***************************************************************************)
(* Profile activation (SSHActivation).                                     *)
(***************************************************************************)

\* The coordinator has found the request of c.
Started(c) == server[c].status # "none"

\* c should be in no target: the coordinator has not touched it yet, or a rollback of
\* it was verified.
Gone(c) == ~Started(c) \/ ack[c] = "restored" \/ undoAck[c] = "ok"

\* What the files of c say fits together, and a change without a worker is done with.
RecordsFit(c) ==
    /\ tx[c] = "none" => c \notin request
    /\ c \notin request => ~Started(c)
    /\ ~Started(c) => ack[c] = "none"
    /\ undoAck[c] # "none" => c \in undo
    /\ c \in undo => ack[c] = "ok"
    /\ c # worker /\ c \in request => ack[c] # "none"
    /\ c # worker /\ c \in undo => undoAck[c] # "none"

\* Where a worker that has reached a state may be, by its requests and their answers.
Fits(at, st) ==
    /\ at # "none" /\ st # "none"
    /\ at = "request" => st = "PROJECT_BINDINGS_VALIDATED"
    /\ at = "await" => st = "ACTIVATION_STAGED"
    /\ at = "post" => st = "CONFIG_ACTIVATED"
    /\ at = "await_rollback" => st = "ROLLBACK_PENDING"
    /\ at = "publish" => st = "COMPLETED"
    /\ at = "report" => st \in {"ROLLED_BACK", "RECOVERY_REQUIRED"}
    /\ at \in {"prepare", "request"} => worker \notin request
    /\ at \in {"prepare", "request", "staged", "await", "post", "complete", "publish"} =>
          worker \notin undo
    /\ at \in {"post", "rollback", "await_rollback", "complete", "publish"} => ack[worker] = "ok"
    /\ at \in {"report", "except"} /\ st = "ROLLED_BACK" =>
          ack[worker] = "restored" \/ undoAck[worker] = "ok"
    /\ at = "except" /\ st \in {"SOURCE_RESOLVED", "PROJECT_BINDINGS_VALIDATED"} =>
          worker \notin request

\* What the worker has been told.
WorkerFits ==
    /\ tx[worker] # "none"
    /\ Fits(step.at, step.state)
    /\ ack[worker] = "ok" /\ worker \notin undo =>
          /\ \A f \in Act!Targets : files[f] = worker
          /\ runtime = worker

\* A backup is older than its change, and a unit unless another change broke the unit.
BackupFits ==
    Started(worker) =>
       /\ \A f \in Act!Targets : server[worker].backup[f] # worker
       /\ (\A d \in Act!Changes \ {worker} : server[d].status # "recovery_required") =>
             \A f \in Act!Targets : server[worker].backup[f] = server[worker].backup["config"]

\* The coordinator works for the worker that waits for it.
CoordFits ==
    coord.pc # "idle" =>
       /\ coord.change = worker /\ worker # 0 /\ Started(worker) /\ worker \in request
       /\ coord.undoing => worker \in undo /\ undoAck[worker] = "none"
       /\ ~coord.undoing => worker \notin undo /\ ack[worker] = "none"

\* How far it has come with the targets.
TargetsFit ==
    /\ coord.pc \in {"copy", "acknowledge"} => ~coord.undoing /\ ~coord.errors
    /\ coord.pc = "copy" => \A f \in Act!Targets \ coord.left : files[f] = worker
    /\ coord.pc = "acknowledge" => (\A f \in Act!Targets : files[f] = worker) /\ runtime = worker
    /\ coord.pc = "restore" /\ ~coord.errors =>
          \A f \in Act!Targets \ coord.left : files[f] = server[worker].backup[f]
    /\ coord.pc = "answer" /\ ~coord.errors =>
          /\ \A f \in Act!Targets : files[f] = server[worker].backup[f]
          /\ runtime = files["config"]

\* A change that should be gone is nowhere, nor can it come back.
NoTrace(c) ==
    Gone(c) =>
       /\ \A f \in Act!Targets : files[f] # c
       /\ runtime # c
       /\ worker # 0 /\ Started(worker) => \A f \in Act!Targets : server[worker].backup[f] # c

Whole ==
    (\A c \in Act!Changes : Act!Settled(c) /\ server[c].status # "recovery_required") =>
       /\ \A f \in Act!Targets : files[f] = files["config"]
       /\ runtime = files["config"]

\* What holds while no worker has left an activation behind.
Attended ==
    /\ \A c \in Act!Changes : RecordsFit(c) /\ NoTrace(c)
    /\ worker # 0 => WorkerFits /\ BackupFits
    /\ CoordFits /\ TargetsFit /\ Whole

ActivationInv ==
    /\ Act!TypeOK
    /\ coord.pc # "idle" => coord.change \in Act!Changes
    /\ abandoned = {} => Attended

Backups == [Act!Targets -> Act!Contents]
ServerFiles == [status: Act!ServerStates, backup: Backups]
Previews == [status: {"none", "previewed", "failed", "applied"}, base: Act!Contents]
Steps == [at: Act!WorkerSteps, state: Act!TxStates]
Visits == [pc: Act!CoordStates, change: Act!Contents, left: SUBSET Act!Targets,
           errors: BOOLEAN, undoing: BOOLEAN]

\* The types, in the names of this module.
LEMMA ActivationTypes ==
    Act!TypeOK <=>
      /\ files \in Backups /\ runtime \in Act!Contents
      /\ manifest \in [Act!Changes -> Previews]
      /\ tx \in [Act!Changes -> Act!TxStates]
      /\ request \in SUBSET Act!Changes /\ undo \in SUBSET Act!Changes
      /\ ack \in [Act!Changes -> {"none", "ok", "restored", "unproven"}]
      /\ undoAck \in [Act!Changes -> {"none", "ok", "failed"}]
      /\ server \in [Act!Changes -> ServerFiles]
      /\ coord \in Visits /\ up \in BOOLEAN
      /\ worker \in Act!Contents /\ step \in Steps /\ abandoned \in SUBSET Act!Changes
      /\ mishaps \in 0..MaxActivationEvents
BY DEF Act!TypeOK, Backups, ServerFiles, Previews, Steps, Visits

\* The same after a step.
LEMMA ActivationTypesNext ==
    ASSUME files' \in Backups, runtime' \in Act!Contents,
           manifest' \in [Act!Changes -> Previews],
           tx' \in [Act!Changes -> Act!TxStates],
           request' \in SUBSET Act!Changes, undo' \in SUBSET Act!Changes,
           ack' \in [Act!Changes -> {"none", "ok", "restored", "unproven"}],
           undoAck' \in [Act!Changes -> {"none", "ok", "failed"}],
           server' \in [Act!Changes -> ServerFiles],
           coord' \in Visits, up' \in BOOLEAN,
           worker' \in Act!Contents, step' \in Steps, abandoned' \in SUBSET Act!Changes,
           mishaps' \in 0..MaxActivationEvents
    PROVE  Act!TypeOK'
BY DEF Act!TypeOK, Backups, ServerFiles, Previews, Steps, Visits

\* A change is a number above 0, and 0 is no change.
LEMMA ChangeFacts ==
    /\ NumChanges \in Nat /\ MaxActivationEvents \in Nat
    /\ Act!Changes \subseteq Act!Contents /\ 0 \in Act!Contents /\ 0 \notin Act!Changes
    /\ \A c \in Act!Contents : c # 0 => c \in Act!Changes
BY HostConstants DEF Act!ActivationConstants, Act!Changes, Act!Contents

\* A fault is counted, and a step without one.
LEMMA MishapsCount ==
    ASSUME Act!TypeOK, Act!NoFault \/ \E kind : Act!Fault(kind)
    PROVE  mishaps' \in 0..MaxActivationEvents
BY ChangeFacts DEF Act!NoFault, Act!Fault, Act!Event, Act!TypeOK

\* What the invariant gives each step.
LEMMA ActivationFacts ==
    ASSUME ActivationInv
    PROVE  /\ files \in Backups /\ runtime \in Act!Contents
           /\ manifest \in [Act!Changes -> Previews]
           /\ tx \in [Act!Changes -> Act!TxStates]
           /\ request \in SUBSET Act!Changes /\ undo \in SUBSET Act!Changes
           /\ ack \in [Act!Changes -> {"none", "ok", "restored", "unproven"}]
           /\ undoAck \in [Act!Changes -> {"none", "ok", "failed"}]
           /\ server \in [Act!Changes -> ServerFiles]
           /\ coord \in Visits /\ up \in BOOLEAN
           /\ worker \in Act!Contents /\ step \in Steps /\ abandoned \in SUBSET Act!Changes
           /\ mishaps \in 0..MaxActivationEvents
           /\ worker # 0 => worker \in Act!Changes
           /\ coord.pc # "idle" => coord.change \in Act!Changes
           /\ Act!TypeOK
BY ActivationTypes, ChangeFacts DEF ActivationInv

\* The worker writes the state of its transaction.
LEMMA TxWrites ==
    ASSUME tx \in [Act!Changes -> Act!TxStates], NEW c \in Act!Changes, NEW s \in Act!TxStates,
           tx' = [tx EXCEPT ![c] = s]
    PROVE  /\ tx' \in [Act!Changes -> Act!TxStates] /\ tx'[c] = s
           /\ \A d \in Act!Changes \ {c} : tx'[d] = tx[d]
OBVIOUS

\* Steps of the workers leave the targets and what the coordinator keeps alone; the
\* worker in charge stays, ends, or is new and unknown to the coordinator.
LEMMA TargetsKept ==
    ASSUME Attended, UNCHANGED <<files, runtime, ack, undoAck, server, coord>>,
           undo \subseteq undo',
           worker' = worker \/ worker' = 0 \/ server[worker'].status = "none",
           worker' = worker \/ coord.pc = "idle"
    PROVE  /\ \A c \in Act!Changes : NoTrace(c)'
           /\ worker' # 0 => BackupFits'
           /\ TargetsFit' /\ Whole'
<1>1. \A c : (Started(c)' <=> Started(c)) /\ (Gone(c)' <=> Gone(c)) BY DEF Started, Gone
<1>2. \A c \in Act!Changes : NoTrace(c)'
  <2> SUFFICES ASSUME NEW c \in Act!Changes, Gone(c)
      PROVE  /\ \A f \in Act!Targets : files[f] # c
             /\ runtime # c
             /\ worker' # 0 /\ server[worker'].status # "none" =>
                   \A f \in Act!Targets : server[worker'].backup[f] # c
    BY <1>1 DEF NoTrace, Started
  <2>1. NoTrace(c) BY DEF Attended
  <2>2. QED BY <2>1 DEF NoTrace, Started
<1>3. worker' # 0 => BackupFits'
  <2>1. CASE worker' = worker BY <2>1 DEF Attended, BackupFits, Started
  <2>2. CASE worker' # worker BY <2>2 DEF BackupFits, Started
  <2>3. QED BY <2>1, <2>2
<1>4. TargetsFit' BY DEF Attended, TargetsFit
<1>5. Whole'
  <2>1. \A c : Act!Settled(c)' => Act!Settled(c) BY DEF Act!Settled, Act!NeedsRollback
  <2>2. QED BY <2>1 DEF Attended, Whole
<1>6. QED BY <1>2, <1>3, <1>4, <1>5

\* The invariant follows from its parts.
LEMMA ActivationFollows ==
    ASSUME Act!TypeOK', coord'.pc # "idle" => coord'.change \in Act!Changes,
           abandoned' = {} =>
              /\ \A c \in Act!Changes : RecordsFit(c)' /\ NoTrace(c)'
              /\ worker' # 0 => WorkerFits' /\ BackupFits'
              /\ CoordFits' /\ TargetsFit' /\ Whole'
    PROVE  ActivationInv'
BY DEF ActivationInv, Attended

\* A change is previewed; the activation knows nothing of it yet.
LEMMA ActivationPreviewed ==
    ASSUME ActivationInv, NEW c \in Act!Changes, Act!Preview(c)
    PROVE  ActivationInv'
<1>1. /\ UNCHANGED <<files, runtime, tx, request, undo, worker, step, abandoned, ack, undoAck, server, coord,
                     up, mishaps>>
      /\ manifest' = [manifest EXCEPT ![c] = [status |-> "previewed", base |-> files["config"]]]
  BY DEF Act!Preview, Act!targetVars, Act!serverVars
<1>2. manifest' \in [Act!Changes -> Previews]
  BY <1>1, ActivationFacts DEF Previews, Backups, Act!Targets
<1>3. Act!TypeOK' BY <1>1, <1>2, ActivationFacts, ActivationTypesNext
<1>4. ASSUME Attended PROVE /\ \A d \in Act!Changes : RecordsFit(d)'
                            /\ worker' # 0 => WorkerFits'
                            /\ CoordFits'
  BY <1>1, <1>4 DEF Attended, RecordsFit, Started, WorkerFits, Fits, CoordFits
<1>5. QED BY <1>1, <1>3, <1>4, TargetsKept, ActivationFollows, ActivationFacts DEF ActivationInv

\* A worker starts on a change nobody has taken up.
LEMMA ActivationStarts ==
    ASSUME ActivationInv, NEW c \in Act!Changes, Act!StartActivation(c)
    PROVE  ActivationInv'
<1>1. /\ UNCHANGED <<files, runtime, manifest, request, undo, abandoned, ack, undoAck, server, coord,
                     up, mishaps>>
      /\ worker = 0 /\ worker' = c /\ tx[c] = "none" /\ tx' = [tx EXCEPT ![c] = "SOURCE_RESOLVED"]
      /\ step' = [at |-> "prepare", state |-> "SOURCE_RESOLVED"]
  BY DEF Act!StartActivation, Act!targetVars, Act!serverVars
<1>2. "SOURCE_RESOLVED" \in Act!TxStates BY DEF Act!TxStates
<1>3. /\ tx' \in [Act!Changes -> Act!TxStates] /\ tx'[c] = "SOURCE_RESOLVED"
      /\ \A d \in Act!Changes \ {c} : tx'[d] = tx[d]
  BY <1>1, <1>2, ActivationFacts, TxWrites
<1>4. Act!TypeOK'
  <2>1. step' \in Steps BY <1>1 DEF Steps, Act!WorkerSteps, Act!TxStates
  <2>2. QED BY <1>1, <1>3, <2>1, ChangeFacts, ActivationFacts, ActivationTypesNext
<1>5. ASSUME Attended PROVE /\ \A d \in Act!Changes : RecordsFit(d)'
                            /\ WorkerFits' /\ CoordFits'
                            /\ coord.pc = "idle" /\ server[c].status = "none"
  <2>1. c \notin request /\ ~Started(c) /\ ack[c] = "none" /\ c \notin undo
    BY <1>1, <1>5 DEF Attended, RecordsFit
  <2>2. coord.pc = "idle" BY <1>1, <1>5 DEF Attended, CoordFits
  <2>3. \A d \in Act!Changes : RecordsFit(d)'
    BY <1>1, <1>3, <1>5, <2>1, ChangeFacts DEF Attended, RecordsFit, Started
  <2>4. WorkerFits' BY <1>1, <1>3, <2>1 DEF WorkerFits, Fits
  <2>5. CoordFits' BY <1>1, <2>2 DEF CoordFits
  <2>6. QED BY <2>1, <2>2, <2>3, <2>4, <2>5 DEF Started
<1>6. QED BY <1>1, <1>4, <1>5, TargetsKept, ActivationFollows, ActivationFacts DEF ActivationInv

\* The worker goes on with its run, and may write its state or one of its requests.
LEMMA WorkerStays ==
    ASSUME ActivationInv, worker # 0, NEW s \in Act!TxStates \ {"none"},
           UNCHANGED <<files, runtime, manifest, worker, abandoned, ack, undoAck, server, coord, up>>,
           request' \in {request, request \union {worker}},
           undo' \in {undo, undo \union {worker}},
           tx' \in {tx, [tx EXCEPT ![worker] = s]},
           step' \in Steps, mishaps' \in 0..MaxActivationEvents,
           Attended => /\ Fits(step.at, step.state)'
                       /\ undo' = undo \/ ack[worker] = "ok"
    PROVE  ActivationInv'
<1>1. worker \in Act!Changes BY ActivationFacts
<1>2. /\ tx' \in [Act!Changes -> Act!TxStates]
      /\ \A d \in Act!Changes \ {worker} : tx'[d] = tx[d]
      /\ tx[worker] # "none" => tx'[worker] # "none"
  BY <1>1, ActivationFacts, TxWrites
<1>3. /\ request' \in SUBSET Act!Changes /\ undo' \in SUBSET Act!Changes /\ undo \subseteq undo'
      /\ request \subseteq request'
      /\ \A d \in Act!Changes \ {worker} : (d \in request' <=> d \in request) /\ (d \in undo' <=> d \in undo)
  BY <1>1, ActivationFacts
<1>4. Act!TypeOK' BY <1>2, <1>3, ActivationFacts, ActivationTypesNext
<1>5. ASSUME Attended PROVE /\ \A d \in Act!Changes : RecordsFit(d)'
                            /\ WorkerFits' /\ CoordFits'
  <2>1. WorkerFits /\ (\A d \in Act!Changes : RecordsFit(d)) /\ CoordFits BY <1>5 DEF Attended
  <2>2. \A d \in Act!Changes : RecordsFit(d)'
    <3>1. \A d \in Act!Changes \ {worker} : RecordsFit(d)'
      BY <1>2, <1>3, <2>1 DEF RecordsFit, Started
    <3>2. RecordsFit(worker)' BY <1>1, <1>2, <1>3, <1>5, <2>1 DEF RecordsFit, Started, WorkerFits
    <3>3. QED BY <3>1, <3>2
  <2>3. WorkerFits' BY <1>2, <1>3, <1>5, <2>1 DEF WorkerFits
  <2>4. CoordFits' BY <1>3, <1>5, <2>1 DEF CoordFits, Started
  <2>5. QED BY <2>2, <2>3, <2>4
<1>6. QED BY <1>3, <1>4, <1>5, TargetsKept, ActivationFollows, ActivationFacts DEF ActivationInv

\* A step to a place of the worker.
LEMMA StepTaken ==
    ASSUME step \in Steps, NEW at \in Act!WorkerSteps
    PROVE  /\ [step EXCEPT !.at = at] \in Steps
           /\ [step EXCEPT !.at = at].at = at
           /\ [step EXCEPT !.at = at].state = step.state
BY DEF Steps

\* The worker reaches a state, or the write of the state raises.
LEMMA StateReached ==
    ASSUME ActivationInv, worker # 0, NEW s \in Act!TxStates \ {"none"},
           NEW at \in Act!WorkerSteps, Act!SetState(s, at),
           UNCHANGED <<files, runtime, manifest, request, undo, worker, abandoned, ack, undoAck,
                       server, coord, up>>,
           Attended => Fits(at, s) /\ Fits("except", s)
    PROVE  ActivationInv'
<1>1. mishaps' \in 0..MaxActivationEvents BY MishapsCount, ActivationFacts DEF Act!SetState
<1>2. PICK here \in {at, "except"} : step' = [at |-> here, state |-> s]
  BY DEF Act!SetState, Act!Raise
<1>3. step' \in Steps /\ step'.at = here /\ step'.state = s BY <1>2 DEF Steps, Act!WorkerSteps
<1>4. tx' \in {tx, [tx EXCEPT ![worker] = s]} BY DEF Act!SetState
<1>5. Attended => Fits(step.at, step.state)' BY <1>2, <1>3 DEF Fits
<1>6. QED BY <1>1, <1>3, <1>4, <1>5, WorkerStays

\* The worker raises: its state in memory stays what it was.
LEMMA Raised ==
    ASSUME ActivationInv, worker # 0, NEW s \in Act!TxStates \ {"none"}, Act!Raise(s),
           mishaps' \in 0..MaxActivationEvents,
           UNCHANGED <<files, runtime, manifest, tx, request, undo, worker, abandoned, ack, undoAck,
                       server, coord, up>>,
           Attended => Fits("except", s)
    PROVE  ActivationInv'
<1>1. step' = [at |-> "except", state |-> s] BY DEF Act!Raise
<1>2. step' \in Steps /\ step'.at = "except" /\ step'.state = s BY <1>1 DEF Steps, Act!WorkerSteps
<1>3. Attended => Fits(step.at, step.state)' BY <1>2 DEF Fits
<1>4. QED BY <1>2, <1>3, WorkerStays

\* The same with the state the worker has.
LEMMA RaisedAsIs ==
    ASSUME ActivationInv, worker # 0, Act!Raise(step.state),
           mishaps' \in 0..MaxActivationEvents,
           UNCHANGED <<files, runtime, manifest, tx, request, undo, worker, abandoned, ack, undoAck,
                       server, coord, up>>,
           Attended => Fits("except", step.state)
    PROVE  ActivationInv'
<1>1. step' = [at |-> "except", state |-> step.state] BY DEF Act!Raise
<1>2. step' \in Steps /\ step'.at = "except" /\ step'.state = step.state
  BY <1>1, ActivationFacts DEF Steps, Act!WorkerSteps
<1>3. Attended => Fits(step.at, step.state)' BY <1>2 DEF Fits
<1>4. "SOURCE_RESOLVED" \in Act!TxStates \ {"none"} BY DEF Act!TxStates
<1>5. QED BY <1>2, <1>3, <1>4, WorkerStays

\* What holds of a worker that is somewhere.
LEMMA WorkerSomewhere ==
    ASSUME ActivationInv, NEW at, Act!WorkerAt(at)
    PROVE  /\ worker # 0 /\ worker \in Act!Changes /\ step.at = at /\ step \in Steps
           /\ Attended => /\ Fits(at, step.state) /\ WorkerFits /\ RecordsFit(worker)
                          /\ worker \notin request => ack[worker] = "none" /\ worker \notin undo
<1>1. worker # 0 /\ worker \in Act!Changes /\ step.at = at /\ step \in Steps
  BY ActivationFacts DEF Act!WorkerAt
<1>2. ASSUME Attended PROVE /\ Fits(at, step.state) /\ WorkerFits /\ RecordsFit(worker)
                            /\ worker \notin request => ack[worker] = "none" /\ worker \notin undo
  BY <1>1, <1>2 DEF Attended, WorkerFits, RecordsFit
<1>3. QED BY <1>1, <1>2

\* The worker goes on by itself or takes an answer: it reaches its next state.
LEMMA WorkerGoesOn ==
    ASSUME ActivationInv,
           \/ Act!Prepare \/ Act!Staged \/ Act!TakeAck \/ Act!PostActivate
           \/ Act!RollbackPending \/ Act!TakeRollbackAck \/ Act!Complete
    PROVE  ActivationInv'
<1>1. /\ UNCHANGED <<files, runtime, manifest, request, undo, worker, abandoned, ack, undoAck, server,
                     coord, up>>
      /\ \A at : Act!WorkerAt(at) => worker # 0
  BY DEF Act!Prepare, Act!Staged, Act!TakeAck, Act!PostActivate, Act!RollbackPending,
     Act!TakeRollbackAck, Act!Complete, Act!targetVars, Act!serverVars, Act!WorkerAt
<1>2. /\ "prepare" \in Act!WorkerSteps /\ "request" \in Act!WorkerSteps
      /\ "await" \in Act!WorkerSteps /\ "post" \in Act!WorkerSteps
      /\ "report" \in Act!WorkerSteps /\ "complete" \in Act!WorkerSteps
      /\ "await_rollback" \in Act!WorkerSteps /\ "publish" \in Act!WorkerSteps
  BY DEF Act!WorkerSteps
<1>3. {"SOURCE_RESOLVED", "PROJECT_BINDINGS_VALIDATED", "ACTIVATION_STAGED", "CONFIG_ACTIVATED",
       "POST_ACTIVATION_VERIFIED", "COMPLETED", "ROLLBACK_PENDING", "ROLLED_BACK",
       "RECOVERY_REQUIRED"} \subseteq Act!TxStates \ {"none"}
  BY DEF Act!TxStates
<1>4. CASE Act!Prepare
  <2>1. Act!WorkerAt("prepare") BY <1>4 DEF Act!Prepare
  <2>2. Attended => /\ Fits("request", "PROJECT_BINDINGS_VALIDATED")
                    /\ Fits("except", "PROJECT_BINDINGS_VALIDATED")
                    /\ Fits("except", "SOURCE_RESOLVED")
    BY <2>1, WorkerSomewhere DEF Fits
  <2>3. CASE Act!SetState("PROJECT_BINDINGS_VALIDATED", "request")
    BY <1>1, <1>2, <1>3, <2>1, <2>2, <2>3, StateReached
  <2>4. CASE Act!Fault("prepare") /\ Act!Raise("SOURCE_RESOLVED") /\ tx' = tx
    <3>1. mishaps' \in 0..MaxActivationEvents BY <2>4, MishapsCount, ActivationFacts
    <3>2. QED BY <1>1, <1>3, <2>1, <2>2, <2>4, <3>1, Raised
  <2>5. QED BY <1>4, <2>3, <2>4 DEF Act!Prepare
<1>5. CASE Act!Staged
  <2>1. Act!WorkerAt("staged") /\ Act!SetState("ACTIVATION_STAGED", "await") BY <1>5 DEF Act!Staged
  <2>2. Attended => Fits("await", "ACTIVATION_STAGED") /\ Fits("except", "ACTIVATION_STAGED")
    BY <2>1, WorkerSomewhere DEF Fits
  <2>3. QED BY <1>1, <1>2, <1>3, <2>1, <2>2, StateReached
<1>6. CASE Act!TakeAck
  <2>1. /\ Act!WorkerAt("await")
        /\ \/ ack[worker] = "ok" /\ Act!SetState("CONFIG_ACTIVATED", "post")
           \/ ack[worker] = "restored" /\ Act!SetState("ROLLED_BACK", "report")
           \/ ack[worker] = "unproven" /\ Act!SetState("RECOVERY_REQUIRED", "report")
    BY <1>6 DEF Act!TakeAck
  <2>2. Attended =>
           /\ ack[worker] = "ok" => Fits("post", "CONFIG_ACTIVATED") /\ Fits("except", "CONFIG_ACTIVATED")
           /\ ack[worker] = "restored" => Fits("report", "ROLLED_BACK") /\ Fits("except", "ROLLED_BACK")
           /\ Fits("report", "RECOVERY_REQUIRED") /\ Fits("except", "RECOVERY_REQUIRED")
    BY <2>1, WorkerSomewhere DEF Fits
  <2>3. QED BY <1>1, <1>2, <1>3, <2>1, <2>2, StateReached
<1>7. CASE Act!PostActivate
  <2>1. Act!WorkerAt("post") BY <1>7 DEF Act!PostActivate
  <2>2. Attended => /\ Fits("complete", "POST_ACTIVATION_VERIFIED")
                    /\ Fits("except", "POST_ACTIVATION_VERIFIED")
                    /\ Fits("except", step.state) /\ step.state # "none"
    BY <2>1, WorkerSomewhere DEF Fits
  <2>3. CASE Act!SetState("POST_ACTIVATION_VERIFIED", "complete")
    BY <1>1, <1>2, <1>3, <2>1, <2>2, <2>3, StateReached
  <2>4. CASE Act!Fault("post") /\ Act!Raise(step.state) /\ tx' = tx
    <3>1. mishaps' \in 0..MaxActivationEvents BY <2>4, MishapsCount, ActivationFacts
    <3>2. QED BY <1>1, <2>1, <2>2, <2>4, <3>1, RaisedAsIs
  <2>5. QED BY <1>7, <2>3, <2>4 DEF Act!PostActivate
<1>8. CASE Act!RollbackPending
  <2>1. Act!WorkerAt("rollback") /\ Act!SetState("ROLLBACK_PENDING", "await_rollback")
    BY <1>8 DEF Act!RollbackPending
  <2>2. Attended => Fits("await_rollback", "ROLLBACK_PENDING") /\ Fits("except", "ROLLBACK_PENDING")
    BY <2>1, WorkerSomewhere DEF Fits
  <2>3. QED BY <1>1, <1>2, <1>3, <2>1, <2>2, StateReached
<1>9. CASE Act!TakeRollbackAck
  <2> DEFINE s == IF undoAck[worker] = "ok" THEN "ROLLED_BACK" ELSE "RECOVERY_REQUIRED"
  <2>1. Act!WorkerAt("await_rollback") /\ Act!SetState(s, "report") BY <1>9 DEF Act!TakeRollbackAck
  <2>2. Attended => Fits("report", s) /\ Fits("except", s) BY <2>1, WorkerSomewhere DEF Fits
  <2>3. s \in Act!TxStates \ {"none"} BY <1>3
  <2> HIDE DEF s
  <2>4. QED BY <1>1, <1>2, <2>1, <2>2, <2>3, StateReached
<1>10. CASE Act!Complete
  <2>1. Act!WorkerAt("complete") /\ Act!SetState("COMPLETED", "publish") BY <1>10 DEF Act!Complete
  <2>2. Attended => Fits("publish", "COMPLETED") /\ Fits("except", "COMPLETED")
    BY <2>1, WorkerSomewhere DEF Fits
  <2>3. QED BY <1>1, <1>2, <1>3, <2>1, <2>2, StateReached
<1>11. QED BY <1>4, <1>5, <1>6, <1>7, <1>8, <1>9, <1>10

\* The request file is written, or the write raises.
LEMMA RequestWritten ==
    ASSUME ActivationInv, Act!WriteRequest
    PROVE  ActivationInv'
<1>1. /\ UNCHANGED <<files, runtime, manifest, tx, undo, worker, abandoned, ack, undoAck, server,
                     coord, up>>
      /\ Act!WorkerAt("request") /\ Act!WriteFile("staged")
      /\ request' = IF step'.at = "staged" THEN request \union {worker} ELSE request
  BY DEF Act!WriteRequest, Act!targetVars, Act!serverVars
<1>2. /\ worker # 0 /\ mishaps' \in 0..MaxActivationEvents /\ step \in Steps
      /\ Attended => Fits("request", step.state)
  BY <1>1, MishapsCount, ActivationFacts, WorkerSomewhere DEF Act!WriteFile
<1>3. CASE step' = [step EXCEPT !.at = "staged"]
  <2>1. step' \in Steps /\ step'.at = "staged" /\ step'.state = step.state
    BY <1>2, <1>3, StepTaken DEF Act!WorkerSteps
  <2>2. Attended => Fits(step.at, step.state)' BY <1>1, <1>2, <2>1 DEF Fits
  <2>3. "SOURCE_RESOLVED" \in Act!TxStates \ {"none"} BY DEF Act!TxStates
  <2>4. QED BY <1>1, <1>2, <2>1, <2>2, <2>3, WorkerStays
<1>4. CASE Act!Raise(step.state)
  <2>1. request' = request BY <1>1, <1>4 DEF Act!Raise
  <2>2. Attended => Fits("except", step.state) BY <1>2 DEF Fits
  <2>3. QED BY <1>1, <1>2, <1>4, <2>1, <2>2, RaisedAsIs
<1>5. QED BY <1>1, <1>3, <1>4 DEF Act!WriteFile

\* The rollback request is written.
LEMMA RollbackAsked ==
    ASSUME ActivationInv, Act!WriteRollbackRequest
    PROVE  ActivationInv'
<1>1. /\ UNCHANGED <<files, runtime, manifest, tx, request, worker, abandoned, ack, undoAck, server,
                     coord, up>>
      /\ Act!WorkerAt("post") /\ undo' = undo \union {worker}
      /\ step' = [step EXCEPT !.at = "rollback"]
  BY DEF Act!WriteRollbackRequest, Act!targetVars, Act!serverVars
<1>2. /\ worker # 0 /\ mishaps' \in 0..MaxActivationEvents /\ step \in Steps
      /\ Attended => Fits("post", step.state)
  BY <1>1, MishapsCount, ActivationFacts, WorkerSomewhere DEF Act!WriteRollbackRequest
<1>3. step' \in Steps /\ step'.at = "rollback" /\ step'.state = step.state
  BY <1>1, <1>2, StepTaken DEF Act!WorkerSteps
<1>4. Attended => Fits(step.at, step.state)' /\ ack[worker] = "ok" BY <1>1, <1>2, <1>3 DEF Fits
<1>5. "SOURCE_RESOLVED" \in Act!TxStates \ {"none"} BY DEF Act!TxStates
<1>6. QED BY <1>1, <1>2, <1>3, <1>4, <1>5, WorkerStays

\* A wait gives up.
LEMMA GivesUp ==
    ASSUME ActivationInv, Act!TimesOut
    PROVE  ActivationInv'
<1>1. /\ UNCHANGED <<files, runtime, manifest, tx, request, undo, worker, abandoned, ack, undoAck,
                     server, coord, up>>
      /\ Act!WorkerAt("await") \/ Act!WorkerAt("await_rollback")
      /\ Act!Raise(step.state)
  BY DEF Act!TimesOut, Act!targetVars, Act!serverVars
<1>2. mishaps' \in 0..MaxActivationEvents BY MishapsCount, ActivationFacts DEF Act!TimesOut
<1>3. worker # 0 /\ (Attended => Fits("except", step.state)) BY <1>1, WorkerSomewhere DEF Fits
<1>4. QED BY <1>1, <1>2, <1>3, RaisedAsIs

\* The worker of an activation ends; unless it leaves it behind, its request and its
\* rollback have been answered.
LEMMA WorkerLeaves ==
    ASSUME ActivationInv, worker # 0, Act!Leaves,
           UNCHANGED <<files, runtime, request, undo, ack, undoAck, server, coord, up, tx>>,
           manifest' \in [Act!Changes -> Previews],
           mishaps' \in 0..MaxActivationEvents
    PROVE  ActivationInv'
<1>1. worker \in Act!Changes BY ActivationFacts
<1>2. /\ worker' = 0 /\ step' = Act!Ended
      /\ abandoned' \in SUBSET Act!Changes /\ abandoned \subseteq abandoned'
      /\ abandoned' = {} => /\ worker \in request => ack[worker] # "none"
                            /\ worker \in undo => undoAck[worker] # "none"
  BY <1>1, ActivationFacts DEF Act!Leaves, Act!Unanswered
<1>3. step' \in Steps BY <1>2 DEF Steps, Act!Ended, Act!WorkerSteps, Act!TxStates
<1>4. Act!TypeOK' BY <1>2, <1>3, ChangeFacts, ActivationFacts, ActivationTypesNext
<1>5. ASSUME abandoned' = {} PROVE Attended /\ (\A d \in Act!Changes : RecordsFit(d)')
                                   /\ CoordFits' /\ coord.pc = "idle"
  <2>1. Attended BY <1>2, <1>5 DEF ActivationInv
  <2>2. coord.pc = "idle" BY <1>2, <1>5, <2>1 DEF Attended, CoordFits
  <2>3. \A d \in Act!Changes : RecordsFit(d)'
    BY <1>1, <1>2, <1>5, <2>1 DEF Attended, RecordsFit, Started
  <2>4. QED BY <2>1, <2>2, <2>3 DEF CoordFits
<1>6. QED BY <1>2, <1>4, <1>5, TargetsKept, ActivationFollows, ActivationFacts

\* A manifest gets its final status.
LEMMA ManifestWritten ==
    ASSUME ActivationInv, worker # 0, NEW final \in {"failed", "applied"},
           manifest' = [manifest EXCEPT ![worker].status = final]
    PROVE  manifest' \in [Act!Changes -> Previews]
<1> DEFINE m == [manifest[worker] EXCEPT !.status = final]
<1>1. worker \in Act!Changes /\ manifest \in [Act!Changes -> Previews] BY ActivationFacts
<1>2. m \in Previews BY <1>1 DEF Previews
<1>3. manifest' = [manifest EXCEPT ![worker] = m] BY <1>1
<1> HIDE DEF m
<1>4. QED BY <1>1, <1>2, <1>3

\* A finished run reports its failure or is published as applied, or the write raises.
LEMMA OutcomePublished ==
    ASSUME ActivationInv, Act!ReportFailed \/ Act!PublishApplied
    PROVE  ActivationInv'
<1>1. PICK at \in {"report", "publish"}, final \in {"failed", "applied"} : Act!Publish(at, final)
  BY DEF Act!ReportFailed, Act!PublishApplied
<1>2. /\ UNCHANGED <<files, runtime, tx, request, undo, ack, undoAck, server, coord, up>>
      /\ Act!WorkerAt(at)
  BY <1>1 DEF Act!Publish, Act!targetVars, Act!serverVars
<1>3. /\ worker # 0 /\ mishaps' \in 0..MaxActivationEvents
      /\ Attended => Fits(at, step.state)
  BY <1>1, <1>2, MishapsCount, ActivationFacts, WorkerSomewhere DEF Act!Publish
<1>4. CASE manifest' = [manifest EXCEPT ![worker].status = final] /\ Act!Leaves
  BY <1>2, <1>3, <1>4, ManifestWritten, WorkerLeaves
<1>5. CASE Act!Raise(step.state) /\ UNCHANGED <<manifest, worker, abandoned>>
  <2>1. Attended => Fits("except", step.state) BY <1>3 DEF Fits
  <2>2. QED BY <1>2, <1>3, <1>5, <2>1, RaisedAsIs
<1>6. QED BY <1>1, <1>4, <1>5 DEF Act!Publish

\* The except clause records the end, or leaves the record as it was, and the run ends.
LEMMA ExceptionEnds ==
    ASSUME ActivationInv, Act!Except \/ Act!PublishFailed
    PROVE  ActivationInv'
<1>1. UNCHANGED <<files, runtime, request, undo, ack, undoAck, server, coord, up>>
  BY DEF Act!Except, Act!PublishFailed, Act!targetVars, Act!serverVars
<1>2. worker # 0 /\ mishaps' \in 0..MaxActivationEvents
  BY MishapsCount, ActivationFacts DEF Act!Except, Act!PublishFailed, Act!WorkerAt
<1>3. CASE Act!Leaves /\ tx' = tx /\ (manifest' = manifest \/ manifest' = [manifest EXCEPT ![worker].status = "failed"])
  BY <1>1, <1>2, <1>3, ManifestWritten, ActivationFacts, WorkerLeaves
<1>4. CASE /\ tx' = [tx EXCEPT ![worker] = Act!OnException(step.state)]
           /\ step' = [at |-> "failed", state |-> Act!OnException(step.state)]
           /\ UNCHANGED <<worker, abandoned, manifest>>
  <2> DEFINE s == Act!OnException(step.state)
  <2>1. s \in Act!TxStates \ {"none"} BY DEF Act!OnException, Act!TxStates
  <2> HIDE DEF s
  <2>2. tx' = [tx EXCEPT ![worker] = s] /\ step' = [at |-> "failed", state |-> s] BY <1>4 DEF s
  <2>3. step' \in Steps /\ step'.at = "failed" /\ step'.state = s
    BY <2>1, <2>2 DEF Steps, Act!WorkerSteps
  <2>4. Fits(step.at, step.state)' BY <2>1, <2>3 DEF Fits
  <2>5. QED BY <1>1, <1>2, <1>4, <2>1, <2>2, <2>3, <2>4, WorkerStays
<1>5. QED BY <1>3, <1>4 DEF Act!Except, Act!PublishFailed

\* The worker is killed.
LEMMA WorkerKilled ==
    ASSUME ActivationInv, Act!WorkerDies
    PROVE  ActivationInv'
<1>1. /\ UNCHANGED <<files, runtime, manifest, tx, request, undo, ack, undoAck, server, coord, up>>
      /\ worker # 0 /\ Act!Leaves
  BY DEF Act!WorkerDies, Act!targetVars, Act!serverVars
<1>2. mishaps' \in 0..MaxActivationEvents BY MishapsCount, ActivationFacts DEF Act!WorkerDies
<1>3. QED BY <1>1, <1>2, ActivationFacts, WorkerLeaves

\* While the request or the rollback request of a change is open, nothing is promised.
LEMMA StillOpen ==
    ASSUME NEW c \in Act!Changes, server'[c].status # "none",
           ack'[c] = "none" \/ (c \in undo' /\ undoAck'[c] = "none")
    PROVE  Whole'
BY DEF Whole, Act!Settled, Act!NeedsRollback

\* The coordinator writes the status of a change it has started.
LEMMA ServerWrites ==
    ASSUME server \in [Act!Changes -> ServerFiles], NEW c \in Act!Changes,
           NEW s \in Act!ServerStates \ {"none"}, Started(c),
           server' = [server EXCEPT ![c].status = s] \/ server' = server
    PROVE  /\ server' \in [Act!Changes -> ServerFiles]
           /\ server' = [server EXCEPT ![c].status = s] => server'[c].status = s
           /\ \A d \in Act!Changes : server'[d].backup = server[d].backup
           /\ \A d \in Act!Changes \ {c} : server'[d].status = server[d].status
           /\ \A d \in Act!Changes : Started(d)' <=> Started(d)
<1>1. CASE server' = server BY <1>1 DEF Started, ServerFiles
<1>2. CASE server' = [server EXCEPT ![c].status = s]
  <2> DEFINE r == [server[c] EXCEPT !.status = s]
  <2>1. r \in ServerFiles /\ r.status = s /\ r.backup = server[c].backup BY DEF ServerFiles
  <2>2. server' = [server EXCEPT ![c] = r] BY <1>2
  <2> HIDE DEF r
  <2>3. /\ server' \in [Act!Changes -> ServerFiles] /\ server'[c] = r
        /\ \A d \in Act!Changes \ {c} : server'[d] = server[d]
    BY <2>1, <2>2
  <2>4. QED BY <2>1, <2>3 DEF Started
<1>3. QED BY <1>1, <1>2

\* What the coordinator knows while it is at work.
LEMMA CoordinatorAtWork ==
    ASSUME ActivationInv, coord.pc # "idle"
    PROVE  /\ coord.change \in Act!Changes /\ coord \in Visits /\ coord.left \subseteq Act!Targets
           /\ abandoned = {} =>
                 /\ Attended /\ coord.change = worker /\ worker # 0 /\ worker \in Act!Changes
                 /\ Started(worker) /\ worker \in request /\ WorkerFits /\ BackupFits
                 /\ coord.undoing => worker \in undo /\ undoAck[worker] = "none" /\ ack[worker] = "ok"
                 /\ ~coord.undoing => worker \notin undo /\ ack[worker] = "none" /\ undoAck[worker] = "none"
<1>1. coord.change \in Act!Changes /\ coord \in Visits /\ coord.left \subseteq Act!Targets
  BY ActivationFacts DEF Visits
<1>2. ASSUME abandoned = {}
      PROVE  /\ Attended /\ coord.change = worker /\ worker # 0 /\ worker \in Act!Changes
             /\ Started(worker) /\ worker \in request /\ WorkerFits /\ BackupFits
             /\ coord.undoing => worker \in undo /\ undoAck[worker] = "none" /\ ack[worker] = "ok"
             /\ ~coord.undoing => worker \notin undo /\ ack[worker] = "none" /\ undoAck[worker] = "none"
  <2>1. Attended /\ CoordFits BY <1>2 DEF ActivationInv, Attended
  <2>2. worker \in Act!Changes BY <2>1, <1>1 DEF CoordFits
  <2>3. RecordsFit(worker) BY <2>1, <2>2 DEF Attended
  <2>4. QED BY <2>1, <2>2, <2>3 DEF Attended, CoordFits, RecordsFit
<1>3. QED BY <1>1, <1>2

\* The coordinator turns to its next step, or stops, and the server may be reloaded: no
\* target and no answer changes.
LEMMA CoordinatorTurns ==
    ASSUME ActivationInv,
           UNCHANGED <<files, manifest, tx, request, undo, worker, step, abandoned, server, ack, undoAck>>,
           runtime' \in {runtime, files["config"]}, coord' \in Visits,
           coord'.pc # "idle" => coord'.change \in Act!Changes, up' \in BOOLEAN,
           mishaps' \in 0..MaxActivationEvents,
           abandoned = {} => CoordFits' /\ TargetsFit'
    PROVE  ActivationInv'
<1>1. "config" \in Act!Targets BY DEF Act!Targets
<1>2. runtime' \in Act!Contents BY <1>1, ActivationFacts DEF Backups
<1>3. Act!TypeOK' BY <1>2, ActivationFacts, ActivationTypesNext
<1>4. ASSUME Attended PROVE /\ \A c \in Act!Changes : RecordsFit(c)' /\ NoTrace(c)'
                            /\ worker' # 0 => WorkerFits' /\ BackupFits'
                            /\ Whole'
  <2>1. \A c : (Started(c)' <=> Started(c)) /\ (Gone(c)' <=> Gone(c)) BY DEF Started, Gone
  <2>2. \A c \in Act!Changes : RecordsFit(c)' BY <1>4, <2>1 DEF Attended, RecordsFit
  <2>3. \A c \in Act!Changes : NoTrace(c)'
    <3> SUFFICES ASSUME NEW c \in Act!Changes PROVE NoTrace(c)'
      OBVIOUS
    <3>1. NoTrace(c) BY <1>4 DEF Attended
    <3>2. QED BY <1>1, <2>1, <3>1 DEF NoTrace
  <2>4. worker' # 0 => WorkerFits' /\ BackupFits'
    <3>1. ASSUME worker # 0 PROVE WorkerFits' /\ BackupFits'
      <4>1. WorkerFits /\ BackupFits BY <1>4, <3>1 DEF Attended
      <4>2. WorkerFits' BY <1>1, <4>1 DEF WorkerFits, Fits
      <4>3. BackupFits' BY <2>1, <4>1 DEF BackupFits
      <4>4. QED BY <4>2, <4>3
    <3>2. QED BY <3>1
  <2>5. Whole'
    <3>1. \A c : Act!Settled(c)' <=> Act!Settled(c) BY DEF Act!Settled, Act!NeedsRollback
    <3>2. QED BY <1>4, <3>1 DEF Attended, Whole
  <2>6. QED BY <2>2, <2>3, <2>4, <2>5
<1>5. QED BY <1>3, <1>4, ActivationFollows DEF ActivationInv

\* A coordinator at rest promises nothing.
LEMMA CoordinatorRests ==
    /\ Act!Resting \in Visits /\ Act!Resting.pc = "idle"
    /\ coord' = Act!Resting => CoordFits' /\ TargetsFit'
<1>1. Act!Resting \in Visits /\ Act!Resting.pc = "idle"
  BY ChangeFacts DEF Act!Resting, Visits, Act!CoordStates
<1>2. QED BY <1>1 DEF CoordFits, TargetsFit

\* The server dies, and is started again with the config on disk.
LEMMA ServerComesAndGoes ==
    ASSUME ActivationInv, Act!ServerCrash \/ Act!ServerStart
    PROVE  ActivationInv'
<1>1. UNCHANGED <<files, manifest, tx, request, undo, worker, step, abandoned, server, ack, undoAck>>
  BY DEF Act!ServerCrash, Act!ServerStart, Act!targetVars, Act!workerVars
<1>2. CASE Act!ServerCrash
  <2>1. coord' = Act!Resting /\ up' = FALSE /\ runtime' = runtime
    BY <1>2 DEF Act!ServerCrash, Act!targetVars
  <2>2. mishaps' \in 0..MaxActivationEvents
    BY <1>2, MishapsCount, ActivationFacts DEF Act!ServerCrash
  <2>3. QED BY <1>1, <2>1, <2>2, CoordinatorRests, CoordinatorTurns
<1>3. CASE Act!ServerStart
  <2>1. coord' = coord /\ up' = TRUE /\ runtime' = files["config"] /\ mishaps' = mishaps
    BY <1>3 DEF Act!ServerStart
  <2>2. ASSUME abandoned = {} PROVE CoordFits' /\ TargetsFit'
    <3>1. CoordFits /\ TargetsFit BY <2>2 DEF ActivationInv, Attended
    <3>2. CoordFits' BY <1>1, <2>1, <3>1 DEF CoordFits, Started
    <3>3. TargetsFit' BY <1>1, <2>1, <3>1 DEF TargetsFit, Act!Targets
    <3>4. QED BY <3>2, <3>3
  <2>3. QED BY <1>1, <2>1, <2>2, ActivationFacts, CoordinatorTurns
<1>4. QED BY <1>2, <1>3

\* The coordinator finds an open request: on the first visit it takes the backups.
LEMMA RequestVisited ==
    ASSUME ActivationInv, NEW c \in Act!Changes, Act!Visit(c)
    PROVE  ActivationInv'
<1>1. /\ UNCHANGED <<files, runtime, manifest, tx, request, undo, worker, step, abandoned, ack, undoAck, up,
                     mishaps>>
      /\ c \in request
      /\ \/ server[c].status # "none" /\ server' = server
         \/ /\ server[c].status = "none"
            /\ server' = [server EXCEPT ![c] = [status |-> "snapshotted", backup |-> files]]
      /\ \/ /\ Act!NeedsRollback(c)
            /\ coord' = [Act!Resting EXCEPT !.pc = "restore", !.change = c, !.left = Act!Targets,
                                            !.undoing = TRUE]
         \/ /\ Act!NeedsActivation(c)
            /\ coord' = [Act!Resting EXCEPT !.pc = "copy", !.change = c, !.left = Act!Targets]
  BY DEF Act!Visit, Act!targetVars, Act!workerVars
<1>2. /\ coord' \in Visits /\ coord'.change = c /\ coord'.left = Act!Targets /\ coord'.errors = FALSE
      /\ \/ coord'.pc = "restore" /\ coord'.undoing = TRUE /\ c \in undo /\ undoAck[c] = "none"
         \/ coord'.pc = "copy" /\ coord'.undoing = FALSE /\ c \notin undo /\ ack[c] = "none"
  BY <1>1, ChangeFacts
     DEF Act!Resting, Visits, Act!CoordStates, Act!NeedsRollback, Act!NeedsActivation
<1>3. abandoned = {} => c = worker /\ worker # 0 /\ Attended
  BY <1>2, <1>1, ChangeFacts DEF ActivationInv, Attended, RecordsFit
<1>4. CASE server[c].status # "none" /\ server' = server
  <2>1. abandoned = {} => CoordFits' /\ TargetsFit'
    BY <1>1, <1>2, <1>3, <1>4 DEF CoordFits, TargetsFit, Started
  <2>2. QED BY <1>1, <1>2, <1>4, <2>1, ActivationFacts, CoordinatorTurns
<1>5. CASE /\ server[c].status = "none"
           /\ server' = [server EXCEPT ![c] = [status |-> "snapshotted", backup |-> files]]
  <2> DEFINE r == [status |-> "snapshotted", backup |-> files]
  <2>1. r \in ServerFiles /\ r.status = "snapshotted" /\ r.backup = files
    BY ActivationFacts DEF ServerFiles, Act!ServerStates
  <2>2. server' = [server EXCEPT ![c] = r] BY <1>5
  <2> HIDE DEF r
  <2>3. /\ server' \in [Act!Changes -> ServerFiles] /\ server'[c] = r
        /\ \A d \in Act!Changes \ {c} : server'[d] = server[d]
    BY <2>1, <2>2, ActivationFacts
  <2>4. Act!TypeOK' BY <1>1, <1>2, <2>3, ActivationFacts, ActivationTypesNext
  <2>5. ASSUME abandoned = {}
        PROVE  /\ \A d \in Act!Changes : RecordsFit(d)' /\ NoTrace(d)'
               /\ WorkerFits' /\ BackupFits' /\ CoordFits' /\ TargetsFit' /\ Whole'
    <3>1. /\ c = worker /\ worker # 0 /\ ~Started(c) /\ (\A d \in Act!Changes : RecordsFit(d))
          /\ (\A d \in Act!Changes : NoTrace(d)) /\ WorkerFits /\ Whole
      BY <1>3, <1>5, <2>5 DEF Attended, Started
    <3>2. ack[c] = "none" /\ c \notin undo /\ undoAck[c] = "none" BY <3>1 DEF RecordsFit
    <3>3. \A d \in Act!Changes : RecordsFit(d)'
      <4>1. RecordsFit(c)' BY <1>1, <3>1, <3>2 DEF RecordsFit
      <4>2. \A d \in Act!Changes \ {c} : RecordsFit(d)' BY <1>1, <2>3, <3>1 DEF RecordsFit, Started
      <4>3. QED BY <4>1, <4>2
    <3>4. \A d \in Act!Changes : NoTrace(d)'
      <4>1. NoTrace(c)' BY <1>1, <2>1, <2>3, <3>2 DEF NoTrace, Gone, Started
      <4>2. ASSUME NEW d \in Act!Changes \ {c} PROVE NoTrace(d)'
        <5>1. NoTrace(d) /\ (Gone(d)' <=> Gone(d)) BY <1>1, <2>3, <3>1 DEF Gone, Started
        <5>2. server'[worker'].backup = files BY <1>1, <2>1, <2>3, <3>1
        <5>3. QED BY <1>1, <5>1, <5>2 DEF NoTrace
      <4>3. QED BY <4>1, <4>2
    <3>5. WorkerFits' BY <1>1, <3>1 DEF WorkerFits, Fits
    <3>6. BackupFits'
      <4>1. \A f \in Act!Targets : files[f] # worker BY <3>1 DEF NoTrace, Gone
      <4>2. ASSUME \A d \in Act!Changes \ {worker} : server[d].status # "recovery_required"
            PROVE  \A f \in Act!Targets : files[f] = files["config"]
        <5>1. \A d \in Act!Changes : server[d].status # "recovery_required" BY <1>5, <3>1, <4>2
        <5>2. \A d \in Act!Changes : Act!Settled(d)
          BY <3>1, <3>2 DEF Act!Settled, Act!NeedsRollback, RecordsFit, Started
        <5>3. QED BY <3>1, <5>1, <5>2 DEF Whole
      <4>3. server'[worker'].backup = files /\ worker' = worker BY <1>1, <2>1, <2>3, <3>1
      <4>4. \A d \in Act!Changes \ {worker} : server'[d].status = server[d].status BY <2>3, <3>1
      <4>5. QED BY <4>1, <4>2, <4>3, <4>4 DEF BackupFits
    <3>7. coord'.pc = "copy" /\ coord'.undoing = FALSE BY <1>2, <3>2
    <3>8. CoordFits' /\ TargetsFit'
      BY <1>1, <1>2, <2>1, <2>3, <3>1, <3>2, <3>7 DEF CoordFits, TargetsFit, Started
    <3>9. Whole' BY <1>1, <2>1, <2>3, <3>2, StillOpen
    <3>10. QED BY <3>3, <3>4, <3>5, <3>6, <3>8, <3>9
  <2>6. QED BY <1>1, <1>2, <2>4, <2>5, ActivationFollows
<1>6. QED BY <1>1, <1>4, <1>5

\* One file is copied, or the copies go back.
LEMMA FileCopied ==
    ASSUME ActivationInv, Act!CopyFile
    PROVE  ActivationInv'
<1>1. /\ UNCHANGED <<runtime, manifest, tx, request, undo, worker, step, abandoned, ack, undoAck, up>>
      /\ coord.pc = "copy" /\ coord.left # {}
      /\ \/ /\ files' = [files EXCEPT ![Act!NextCopy] = coord.change]
            /\ coord' = [coord EXCEPT !.left = @ \ {Act!NextCopy}]
            /\ \/ server' = [server EXCEPT ![coord.change].status = "config_written"]
               \/ server' = server
            /\ Act!NoFault
         \/ /\ Act!Fault("server_io") /\ UNCHANGED <<files, server>>
            /\ coord' = [coord EXCEPT !.pc = "restore", !.left = Act!Targets]
  BY DEF Act!CopyFile, Act!At, Act!This, Act!SetServer, Act!Abort, Act!workerVars
<1>2. /\ coord.change \in Act!Changes /\ coord \in Visits /\ coord.left \subseteq Act!Targets
      /\ mishaps' \in 0..MaxActivationEvents
  BY <1>1, CoordinatorAtWork, MishapsCount, ActivationFacts
<1>3. CASE /\ Act!Fault("server_io") /\ UNCHANGED <<files, server>>
           /\ coord' = [coord EXCEPT !.pc = "restore", !.left = Act!Targets]
  <2>1. /\ coord' \in Visits /\ coord'.pc = "restore" /\ coord'.change = coord.change
        /\ coord'.left = Act!Targets /\ coord'.undoing = coord.undoing
    BY <1>2, <1>3 DEF Visits, Act!CoordStates
  <2>2. abandoned = {} => CoordFits' /\ TargetsFit'
    BY <1>1, <1>3, <2>1 DEF ActivationInv, Attended, CoordFits, TargetsFit, Started
  <2>3. QED BY <1>1, <1>2, <1>3, <2>1, <2>2, ActivationFacts, CoordinatorTurns
<1>4. CASE /\ files' = [files EXCEPT ![Act!NextCopy] = coord.change]
           /\ coord' = [coord EXCEPT !.left = @ \ {Act!NextCopy}]
           /\ \/ server' = [server EXCEPT ![coord.change].status = "config_written"]
              \/ server' = server
           /\ Act!NoFault
  <2>1. Act!NextCopy \in Act!Targets BY <1>1, <1>2 DEF Act!NextCopy, Act!Targets
  <2>2. PICK g \in Act!Targets : g = Act!NextCopy BY <2>1
  <2>3. /\ coord' \in Visits /\ coord'.pc = "copy" /\ coord'.change = coord.change
        /\ coord'.left = coord.left \ {g} /\ coord'.undoing = coord.undoing
        /\ coord'.errors = coord.errors
    BY <1>1, <1>2, <1>4, <2>2 DEF Visits
  <2>4. /\ files' \in Backups /\ files'[g] = coord.change
        /\ \A f \in Act!Targets \ {g} : files'[f] = files[f]
    BY <1>2, <1>4, <2>2, ActivationFacts, ChangeFacts DEF Backups
  <2>5. ASSUME Started(coord.change)
        PROVE  /\ server' \in [Act!Changes -> ServerFiles]
               /\ \A d \in Act!Changes : server'[d].backup = server[d].backup
               /\ \A d \in Act!Changes \ {coord.change} : server'[d].status = server[d].status
               /\ \A d \in Act!Changes : Started(d)' <=> Started(d)
    BY <1>2, <1>4, <2>5, ServerWrites, ActivationFacts DEF Act!ServerStates
  <2>6. server' \in [Act!Changes -> ServerFiles]
    <3> DEFINE r == [server[coord.change] EXCEPT !.status = "config_written"]
    <3>1. r \in ServerFiles BY <1>2, ActivationFacts DEF ServerFiles, Act!ServerStates
    <3>2. server' = [server EXCEPT ![coord.change] = r] \/ server' = server BY <1>4
    <3> HIDE DEF r
    <3>3. QED BY <3>1, <3>2, ActivationFacts
  <2>7. Act!TypeOK' BY <1>1, <1>2, <2>3, <2>4, <2>6, ActivationFacts, ActivationTypesNext
  <2>8. ASSUME abandoned = {}
        PROVE  /\ \A d \in Act!Changes : RecordsFit(d)' /\ NoTrace(d)'
               /\ WorkerFits' /\ BackupFits' /\ CoordFits' /\ TargetsFit' /\ Whole'
    <3>1. /\ Attended /\ coord.change = worker /\ worker # 0 /\ worker \in Act!Changes
          /\ Started(worker) /\ worker \in request /\ WorkerFits /\ BackupFits /\ CoordFits
          /\ TargetsFit /\ ~coord.undoing /\ ~coord.errors
          /\ worker \notin undo /\ ack[worker] = "none" /\ undoAck[worker] = "none"
      BY <1>1, <2>8, CoordinatorAtWork DEF Attended, TargetsFit
    <3>2. /\ \A d \in Act!Changes : server'[d].backup = server[d].backup
          /\ \A d \in Act!Changes \ {worker} : server'[d].status = server[d].status
          /\ \A d \in Act!Changes : Started(d)' <=> Started(d)
      BY <2>5, <3>1
    <3>3. \A d \in Act!Changes : RecordsFit(d)' BY <1>1, <3>1, <3>2 DEF Attended, RecordsFit
    <3>4. ASSUME NEW d \in Act!Changes PROVE NoTrace(d)'
      <4>1. NoTrace(d) /\ (Gone(d)' <=> Gone(d)) BY <1>1, <3>1, <3>2 DEF Attended, Gone
      <4>2. Gone(d) => d # worker BY <3>1 DEF Gone
      <4>3. ASSUME Gone(d) PROVE \A f \in Act!Targets : files'[f] # d
        BY <2>4, <3>1, <4>1, <4>2, <4>3 DEF NoTrace
      <4>4. QED BY <1>1, <3>1, <3>2, <4>1, <4>3 DEF NoTrace
    <3>5. WorkerFits' BY <1>1, <3>1 DEF WorkerFits, Fits
    <3>6. BackupFits' BY <1>1, <3>1, <3>2 DEF BackupFits
    <3>7. CoordFits' BY <1>1, <2>3, <3>1, <3>2 DEF CoordFits
    <3>8. TargetsFit' BY <1>1, <2>3, <2>4, <3>1 DEF TargetsFit
    <3>9. Whole' BY <1>1, <3>1, <3>2, StillOpen DEF Started
    <3>10. QED BY <3>3, <3>4, <3>5, <3>6, <3>7, <3>8, <3>9
  <2>9. QED BY <1>1, <1>2, <2>3, <2>7, <2>8, ActivationFollows
<1>5. QED BY <1>1, <1>3, <1>4

\* The server is reloaded with the copies, or they go back.
LEMMA CopiesReloaded ==
    ASSUME ActivationInv, Act!ReloadActivated
    PROVE  ActivationInv'
<1>1. /\ UNCHANGED <<files, manifest, tx, request, undo, worker, step, abandoned, ack, undoAck, server, up>>
      /\ coord.pc = "copy" /\ coord.left = {}
      /\ \/ /\ runtime' = files["config"] /\ coord' = [coord EXCEPT !.pc = "acknowledge"]
            /\ Act!NoFault
         \/ /\ runtime' = runtime /\ Act!Fault("reload")
            /\ coord' = [coord EXCEPT !.pc = "restore", !.left = Act!Targets]
  BY DEF Act!ReloadActivated, Act!At, Act!Abort, Act!workerVars
<1>2. /\ coord.change \in Act!Changes /\ coord \in Visits /\ up \in BOOLEAN
      /\ mishaps' \in 0..MaxActivationEvents
  BY <1>1, CoordinatorAtWork, MishapsCount, ActivationFacts
<1>3. /\ coord' \in Visits /\ coord'.change = coord.change /\ coord'.undoing = coord.undoing
      /\ coord'.errors = coord.errors
      /\ \/ coord'.pc = "acknowledge" /\ runtime' = files["config"]
         \/ coord'.pc = "restore" /\ coord'.left = Act!Targets /\ runtime' = runtime
  BY <1>1, <1>2 DEF Visits, Act!CoordStates
<1>4. ASSUME abandoned = {} PROVE CoordFits' /\ TargetsFit'
  <2>1. CoordFits /\ TargetsFit BY <1>4 DEF ActivationInv, Attended
  <2>2. CoordFits' BY <1>1, <1>3, <2>1 DEF CoordFits, Started
  <2>3. (\A f \in Act!Targets : files[f] = worker) /\ "config" \in Act!Targets
    BY <1>1, <2>1 DEF TargetsFit, Act!Targets
  <2>4. TargetsFit' BY <1>1, <1>3, <2>1, <2>3 DEF TargetsFit
  <2>5. QED BY <2>2, <2>4
<1>5. QED BY <1>1, <1>2, <1>3, <1>4, CoordinatorTurns

\* A file is put back, or noted as an error.
LEMMA FileRestored ==
    ASSUME ActivationInv, Act!RestoreFile
    PROVE  ActivationInv'
<1>1. /\ UNCHANGED <<runtime, manifest, tx, request, undo, worker, step, abandoned, ack, undoAck, server, up>>
      /\ coord.pc = "restore" /\ coord.left # {}
      /\ \/ /\ files' = [files EXCEPT ![Act!NextRestore] =
                                        server[coord.change].backup[Act!NextRestore]]
            /\ coord' = [coord EXCEPT !.left = @ \ {Act!NextRestore}]
            /\ Act!NoFault
         \/ /\ Act!Fault("server_io") /\ files' = files
            /\ coord' = [coord EXCEPT !.left = @ \ {Act!NextRestore}, !.errors = TRUE]
  BY DEF Act!RestoreFile, Act!At, Act!This, Act!Restored, Act!RestoreError, Act!workerVars
<1>2. /\ coord.change \in Act!Changes /\ coord \in Visits /\ coord.left \subseteq Act!Targets
      /\ mishaps' \in 0..MaxActivationEvents /\ up \in BOOLEAN
  BY <1>1, CoordinatorAtWork, MishapsCount, ActivationFacts
<1>3. Act!NextRestore \in Act!Targets BY <1>1, <1>2 DEF Act!NextRestore, Act!Targets
<1>4. PICK g \in Act!Targets : g = Act!NextRestore BY <1>3
<1>5. /\ coord' \in Visits /\ coord'.pc = "restore" /\ coord'.change = coord.change
      /\ coord'.left = coord.left \ {g} /\ coord'.undoing = coord.undoing
      /\ \/ coord'.errors = coord.errors /\ files' = [files EXCEPT ![g] = server[coord.change].backup[g]]
         \/ coord'.errors = TRUE /\ files' = files
  BY <1>1, <1>2, <1>4 DEF Visits
<1>6. CASE files' = files /\ coord'.errors = TRUE
  <2>1. abandoned = {} => CoordFits' /\ TargetsFit'
    BY <1>1, <1>5, <1>6 DEF ActivationInv, Attended, CoordFits, TargetsFit, Started
  <2>2. QED BY <1>1, <1>2, <1>5, <1>6, <2>1, CoordinatorTurns
<1>7. CASE coord'.errors = coord.errors /\ files' = [files EXCEPT ![g] = server[coord.change].backup[g]]
  <2>1. server[coord.change].backup \in Backups BY <1>2, ActivationFacts DEF ServerFiles
  <2>2. /\ files' \in Backups /\ files'[g] = server[coord.change].backup[g]
        /\ \A f \in Act!Targets \ {g} : files'[f] = files[f]
    BY <1>7, <2>1, ActivationFacts DEF Backups
  <2>3. Act!TypeOK' BY <1>1, <1>2, <1>5, <2>2, ActivationFacts, ActivationTypesNext
  <2>4. ASSUME abandoned = {}
        PROVE  /\ \A d \in Act!Changes : RecordsFit(d)' /\ NoTrace(d)'
               /\ WorkerFits' /\ BackupFits' /\ CoordFits' /\ TargetsFit' /\ Whole'
    <3>1. /\ Attended /\ coord.change = worker /\ worker # 0 /\ worker \in Act!Changes
          /\ Started(worker) /\ worker \in request /\ WorkerFits /\ BackupFits /\ CoordFits
          /\ TargetsFit
          /\ coord.undoing => worker \in undo /\ undoAck[worker] = "none" /\ ack[worker] = "ok"
          /\ ~coord.undoing => worker \notin undo /\ ack[worker] = "none" /\ undoAck[worker] = "none"
      BY <1>1, <2>4, CoordinatorAtWork DEF Attended
    <3>2. \A d : (Started(d)' <=> Started(d)) /\ (Gone(d)' <=> Gone(d)) BY <1>1 DEF Started, Gone
    <3>3. \A d \in Act!Changes : RecordsFit(d)' BY <1>1, <3>1, <3>2 DEF Attended, RecordsFit
    <3>4. ASSUME NEW d \in Act!Changes PROVE NoTrace(d)'
      <4>1. NoTrace(d) BY <3>1 DEF Attended
      <4>2. ASSUME Gone(d) PROVE \A f \in Act!Targets : files'[f] # d
        BY <2>2, <3>1, <4>1, <4>2 DEF NoTrace
      <4>3. QED BY <1>1, <3>2, <4>1, <4>2 DEF NoTrace
    <3>5. WorkerFits' BY <1>1, <3>1 DEF WorkerFits, Fits
    <3>6. BackupFits' BY <1>1, <3>1, <3>2 DEF BackupFits
    <3>7. CoordFits' BY <1>1, <1>5, <3>1, <3>2 DEF CoordFits
    <3>8. TargetsFit' BY <1>1, <1>5, <1>7, <2>2, <3>1 DEF TargetsFit
    <3>9. Whole' BY <1>1, <3>1, StillOpen DEF Started
    <3>10. QED BY <3>3, <3>4, <3>5, <3>6, <3>7, <3>8, <3>9
  <2>5. QED BY <1>1, <1>2, <1>5, <2>3, <2>4, ActivationFollows
<1>8. QED BY <1>5, <1>6, <1>7

\* The server is reloaded when every file is back.
LEMMA RestoredReloaded ==
    ASSUME ActivationInv, Act!ReloadRestored
    PROVE  ActivationInv'
<1>1. /\ UNCHANGED <<files, manifest, tx, request, undo, worker, step, abandoned, ack, undoAck, server, up>>
      /\ coord.pc = "restore" /\ coord.left = {}
      /\ \/ /\ ~coord.errors /\ runtime' = files["config"] /\ coord' = [coord EXCEPT !.pc = "answer"]
         \/ /\ runtime' = runtime /\ coord' = [coord EXCEPT !.pc = "answer", !.errors = TRUE]
      /\ Act!NoFault \/ Act!Fault("reload")
  BY DEF Act!ReloadRestored, Act!At, Act!workerVars
<1>2. /\ coord.change \in Act!Changes /\ coord \in Visits /\ up \in BOOLEAN
      /\ mishaps' \in 0..MaxActivationEvents
  BY <1>1, CoordinatorAtWork, MishapsCount, ActivationFacts
<1>3. /\ coord' \in Visits /\ coord'.change = coord.change /\ coord'.undoing = coord.undoing
      /\ coord'.pc = "answer"
      /\ \/ ~coord.errors /\ runtime' = files["config"]
         \/ coord'.errors /\ runtime' = runtime
  BY <1>1, <1>2 DEF Visits, Act!CoordStates
<1>4. ASSUME abandoned = {} PROVE CoordFits' /\ TargetsFit'
  <2>1. CoordFits /\ TargetsFit BY <1>4 DEF ActivationInv, Attended
  <2>2. CoordFits' BY <1>1, <1>3, <2>1 DEF CoordFits, Started
  <2>3. TargetsFit' BY <1>1, <1>3, <2>1 DEF TargetsFit
  <2>4. QED BY <2>2, <2>3
<1>5. QED BY <1>1, <1>2, <1>3, <1>4, CoordinatorTurns

\* The coordinator writes a status and its answer does not get out: no target changes.
LEMMA StatusWritten ==
    ASSUME ActivationInv, coord.pc # "idle", NEW s \in Act!ServerStates \ {"none"},
           UNCHANGED <<files, runtime, manifest, tx, request, undo, worker, step, abandoned, ack, undoAck, up>>,
           server' = [server EXCEPT ![coord.change].status = s] \/ server' = server,
           coord' \in Visits, coord'.pc # "idle" => coord'.change = coord.change,
           mishaps' \in 0..MaxActivationEvents,
           abandoned = {} /\ (\A d \in Act!Changes : /\ server'[d].backup = server[d].backup
                                                     /\ Started(d)' <=> Started(d))
              => CoordFits' /\ TargetsFit'
    PROVE  ActivationInv'
<1>1. /\ coord.change \in Act!Changes /\ coord \in Visits /\ server \in [Act!Changes -> ServerFiles]
  BY CoordinatorAtWork, ActivationFacts
<1>2. server' \in [Act!Changes -> ServerFiles]
  <2> DEFINE r == [server[coord.change] EXCEPT !.status = s]
  <2>1. r \in ServerFiles BY <1>1 DEF ServerFiles
  <2>2. server' = [server EXCEPT ![coord.change] = r] \/ server' = server
    OBVIOUS
  <2> HIDE DEF r
  <2>3. QED BY <1>1, <2>1, <2>2
<1>3. Act!TypeOK' BY <1>2, ActivationFacts, ActivationTypesNext
<1>4. ASSUME abandoned = {}
      PROVE  /\ \A d \in Act!Changes : RecordsFit(d)' /\ NoTrace(d)'
             /\ WorkerFits' /\ BackupFits' /\ CoordFits' /\ TargetsFit' /\ Whole'
  <2>1. /\ Attended /\ coord.change = worker /\ worker # 0 /\ worker \in Act!Changes
        /\ Started(worker) /\ WorkerFits /\ BackupFits
        /\ ack[worker] = "none" \/ (worker \in undo /\ undoAck[worker] = "none")
    BY <1>4, CoordinatorAtWork, ActivationFacts DEF Visits
  <2>2. /\ \A d \in Act!Changes : server'[d].backup = server[d].backup
        /\ \A d \in Act!Changes \ {worker} : server'[d].status = server[d].status
        /\ \A d \in Act!Changes : Started(d)' <=> Started(d)
    BY <1>1, <2>1, ServerWrites
  <2>3. \A d \in Act!Changes : RecordsFit(d)' BY <2>1, <2>2 DEF Attended, RecordsFit
  <2>4. ASSUME NEW d \in Act!Changes PROVE NoTrace(d)'
    <3>1. NoTrace(d) /\ (Gone(d)' <=> Gone(d)) BY <2>1, <2>2 DEF Attended, Gone
    <3>2. QED BY <2>1, <2>2, <3>1 DEF NoTrace
  <2>5. WorkerFits' BY <2>1 DEF WorkerFits, Fits
  <2>6. BackupFits' BY <2>1, <2>2 DEF BackupFits
  <2>7. Whole' BY <2>1, <2>2, StillOpen DEF Started
  <2>8. QED BY <1>4, <2>2, <2>3, <2>4, <2>5, <2>6, <2>7
<1>5. QED BY <1>1, <1>3, <1>4, ActivationFollows

\* The coordinator acknowledges the activation, or puts everything back.
LEMMA Acknowledged ==
    ASSUME ActivationInv, Act!Acknowledge
    PROVE  ActivationInv'
<1>1. /\ UNCHANGED <<files, runtime, manifest, tx, request, undo, worker, step, abandoned, undoAck, up>>
      /\ coord.pc = "acknowledge"
      /\ \/ /\ server' = [server EXCEPT ![coord.change].status = "activated"]
            /\ ack' = [ack EXCEPT ![coord.change] = "ok"] /\ coord' = Act!Resting /\ Act!NoFault
         \/ /\ server' = [server EXCEPT ![coord.change].status = "activated"] \/ server' = server
            /\ Act!Fault("server_io") /\ ack' = ack
            /\ coord' = [coord EXCEPT !.pc = "restore", !.left = Act!Targets]
  BY DEF Act!Acknowledge, Act!At, Act!This, Act!SetServer, Act!Abort, Act!workerVars, Act!targetVars
<1>2. /\ coord.change \in Act!Changes /\ coord \in Visits
      /\ mishaps' \in 0..MaxActivationEvents
  BY <1>1, CoordinatorAtWork, MishapsCount, ActivationFacts
<1>3. "activated" \in Act!ServerStates \ {"none"} BY DEF Act!ServerStates
<1>4. CASE /\ server' = [server EXCEPT ![coord.change].status = "activated"] \/ server' = server
           /\ Act!Fault("server_io") /\ ack' = ack
           /\ coord' = [coord EXCEPT !.pc = "restore", !.left = Act!Targets]
  <2>1. /\ coord' \in Visits /\ coord'.pc = "restore" /\ coord'.change = coord.change
        /\ coord'.left = Act!Targets /\ coord'.undoing = coord.undoing
    BY <1>2, <1>4 DEF Visits, Act!CoordStates
  <2>2. ASSUME abandoned = {}, \A d \in Act!Changes : Started(d)' <=> Started(d)
        PROVE  CoordFits' /\ TargetsFit'
    <3>1. CoordFits /\ worker \in Act!Changes BY <1>1, <1>2, <2>2, CoordinatorAtWork DEF Attended
    <3>2. QED BY <1>1, <1>4, <2>1, <2>2, <3>1 DEF CoordFits, TargetsFit
  <2>3. QED BY <1>1, <1>2, <1>3, <1>4, <2>1, <2>2, StatusWritten
<1>5. CASE /\ server' = [server EXCEPT ![coord.change].status = "activated"]
           /\ ack' = [ack EXCEPT ![coord.change] = "ok"] /\ coord' = Act!Resting /\ Act!NoFault
  <2>1. /\ ack' \in [Act!Changes -> {"none", "ok", "restored", "unproven"}]
        /\ ack'[coord.change] = "ok"
        /\ \A d \in Act!Changes \ {coord.change} : ack'[d] = ack[d]
    BY <1>2, <1>5, ActivationFacts
  <2>2. server' \in [Act!Changes -> ServerFiles]
    <3> DEFINE r == [server[coord.change] EXCEPT !.status = "activated"]
    <3>1. r \in ServerFiles BY <1>2, <1>3, ActivationFacts DEF ServerFiles
    <3>2. server' = [server EXCEPT ![coord.change] = r] BY <1>5
    <3> HIDE DEF r
    <3>3. QED BY <3>1, <3>2, ActivationFacts
  <2>3. Act!TypeOK'
    BY <1>1, <1>2, <1>5, <2>1, <2>2, CoordinatorRests, ActivationFacts, ActivationTypesNext
  <2>4. ASSUME abandoned = {}
        PROVE  /\ \A d \in Act!Changes : RecordsFit(d)' /\ NoTrace(d)'
               /\ WorkerFits' /\ BackupFits' /\ Whole'
    <3>1. /\ Attended /\ coord.change = worker /\ worker # 0 /\ worker \in Act!Changes
          /\ Started(worker) /\ worker \in request /\ WorkerFits /\ BackupFits /\ TargetsFit
          /\ worker \notin undo /\ ack[worker] = "none" /\ undoAck[worker] = "none"
      BY <1>1, <2>4, CoordinatorAtWork DEF Attended, TargetsFit
    <3>2. /\ \A d \in Act!Changes : server'[d].backup = server[d].backup
          /\ \A d \in Act!Changes \ {worker} : server'[d].status = server[d].status
          /\ \A d \in Act!Changes : Started(d)' <=> Started(d)
      BY <1>2, <1>3, <1>5, <3>1, ServerWrites, ActivationFacts
    <3>3. /\ \A f \in Act!Targets : files[f] = worker
          /\ runtime = worker /\ "config" \in Act!Targets
      BY <1>1, <3>1 DEF TargetsFit, Act!Targets
    <3>4. \A d \in Act!Changes : RecordsFit(d)'
      <4>1. RecordsFit(worker)' BY <1>1, <2>1, <3>1, <3>2 DEF Attended, RecordsFit
      <4>2. \A d \in Act!Changes \ {worker} : RecordsFit(d)'
        BY <1>1, <2>1, <3>1, <3>2 DEF Attended, RecordsFit
      <4>3. QED BY <1>1, <4>1, <4>2
    <3>5. ASSUME NEW d \in Act!Changes PROVE NoTrace(d)'
      <4>1. CASE d = worker
        <5>1. ~(Gone(d)') BY <1>1, <2>1, <3>1, <3>2, <4>1 DEF Gone
        <5>2. QED BY <5>1 DEF NoTrace
      <4>2. CASE d # worker
        <5>1. NoTrace(d) /\ (Gone(d)' <=> Gone(d))
          BY <1>1, <2>1, <3>1, <3>2, <4>2 DEF Attended, Gone
        <5>2. QED BY <1>1, <3>1, <3>2, <5>1 DEF NoTrace
      <4>3. QED BY <4>1, <4>2
    <3>6. WorkerFits' BY <1>1, <2>1, <3>1, <3>3 DEF WorkerFits, Fits
    <3>7. BackupFits' BY <1>1, <3>1, <3>2 DEF BackupFits
    <3>8. Whole' BY <1>1, <3>3 DEF Whole
    <3>9. QED BY <3>4, <3>5, <3>6, <3>7, <3>8
  <2>5. QED BY <1>1, <1>5, <2>3, <2>4, CoordinatorRests, ActivationFollows
<1>6. QED BY <1>1, <1>4, <1>5

\* The coordinator says how the restore went, or its answer does not get out.
LEMMA RestoreAnswered ==
    ASSUME ActivationInv, Act!AnswerRestored
    PROVE  ActivationInv'
<1> DEFINE outcome == IF coord.errors THEN "recovery_required" ELSE "rolled_back"
           undone == IF coord.errors THEN "failed" ELSE "ok"
           back == IF coord.errors THEN "unproven" ELSE "restored"
<1>1. /\ UNCHANGED <<files, runtime, manifest, tx, request, undo, worker, step, abandoned, up>>
      /\ coord.pc = "answer" /\ coord' = Act!Resting
      /\ \/ /\ server' = [server EXCEPT ![coord.change].status = outcome]
            /\ \/ /\ coord.undoing /\ undoAck' = [undoAck EXCEPT ![coord.change] = undone]
                  /\ ack' = ack
               \/ /\ ~coord.undoing /\ ack' = [ack EXCEPT ![coord.change] = back]
                  /\ undoAck' = undoAck
            /\ Act!NoFault
         \/ /\ server' = [server EXCEPT ![coord.change].status = outcome] \/ server' = server
            /\ Act!Fault("server_io") /\ UNCHANGED <<ack, undoAck>>
  BY DEF Act!AnswerRestored, Act!At, Act!This, Act!SetServer, Act!workerVars, Act!targetVars
<1>2. /\ coord.change \in Act!Changes /\ coord \in Visits
      /\ mishaps' \in 0..MaxActivationEvents
  BY <1>1, CoordinatorAtWork, MishapsCount, ActivationFacts
<1>3. outcome \in Act!ServerStates \ {"none"} BY DEF Act!ServerStates
<1>4. CASE /\ server' = [server EXCEPT ![coord.change].status = outcome] \/ server' = server
           /\ Act!Fault("server_io") /\ UNCHANGED <<ack, undoAck>>
  <2> HIDE DEF outcome
  <2>1. QED BY <1>1, <1>2, <1>3, <1>4, CoordinatorRests, StatusWritten
<1>5. CASE /\ server' = [server EXCEPT ![coord.change].status = outcome]
           /\ \/ /\ coord.undoing /\ undoAck' = [undoAck EXCEPT ![coord.change] = undone]
                 /\ ack' = ack
              \/ /\ ~coord.undoing /\ ack' = [ack EXCEPT ![coord.change] = back]
                 /\ undoAck' = undoAck
           /\ Act!NoFault
  <2>1. /\ ack' \in [Act!Changes -> {"none", "ok", "restored", "unproven"}]
        /\ undoAck' \in [Act!Changes -> {"none", "ok", "failed"}]
        /\ \A d \in Act!Changes \ {coord.change} : ack'[d] = ack[d] /\ undoAck'[d] = undoAck[d]
        /\ coord.undoing => undoAck'[coord.change] = undone /\ ack'[coord.change] = ack[coord.change]
        /\ ~coord.undoing => ack'[coord.change] = back /\ undoAck'[coord.change] = undoAck[coord.change]
    BY <1>2, <1>5, ActivationFacts
  <2>2. /\ undone # "none" /\ (undone = "ok" => ~coord.errors)
        /\ back \notin {"none", "ok"} /\ (back = "restored" => ~coord.errors)
        /\ outcome # "recovery_required" => ~coord.errors
    OBVIOUS
  <2> HIDE DEF outcome, undone, back
  <2>3. server' \in [Act!Changes -> ServerFiles]
    <3> DEFINE r == [server[coord.change] EXCEPT !.status = outcome]
    <3>1. r \in ServerFiles BY <1>2, <1>3, ActivationFacts DEF ServerFiles
    <3>2. server' = [server EXCEPT ![coord.change] = r] BY <1>5
    <3> HIDE DEF r
    <3>3. QED BY <3>1, <3>2, ActivationFacts
  <2>4. Act!TypeOK'
    BY <1>1, <1>2, <2>1, <2>3, CoordinatorRests, ActivationFacts, ActivationTypesNext
  <2>5. ASSUME abandoned = {}
        PROVE  /\ \A d \in Act!Changes : RecordsFit(d)' /\ NoTrace(d)'
               /\ WorkerFits' /\ BackupFits' /\ Whole'
    <3>1. /\ Attended /\ coord.change = worker /\ worker # 0 /\ worker \in Act!Changes
          /\ Started(worker) /\ worker \in request /\ WorkerFits /\ BackupFits /\ TargetsFit
          /\ coord.undoing => worker \in undo /\ undoAck[worker] = "none" /\ ack[worker] = "ok"
          /\ ~coord.undoing => worker \notin undo /\ ack[worker] = "none" /\ undoAck[worker] = "none"
      BY <1>1, <2>5, CoordinatorAtWork DEF Attended
    <3>2. /\ \A d \in Act!Changes : server'[d].backup = server[d].backup
          /\ \A d \in Act!Changes \ {worker} : server'[d].status = server[d].status
          /\ \A d \in Act!Changes : Started(d)' <=> Started(d)
          /\ server'[worker].status = outcome
      BY <1>2, <1>3, <1>5, <3>1, ServerWrites, ActivationFacts
    <3>3. ASSUME ~coord.errors
          PROVE  /\ \A f \in Act!Targets : files[f] = server[worker].backup[f]
                 /\ runtime = files["config"] /\ "config" \in Act!Targets
                 /\ \A f \in Act!Targets : files[f] # worker
      BY <1>1, <3>1, <3>3 DEF TargetsFit, Act!Targets, BackupFits
    <3>4. \A d \in Act!Changes : RecordsFit(d)'
      <4>1. RecordsFit(worker)' BY <1>1, <2>1, <2>2, <3>1, <3>2 DEF Attended, RecordsFit
      <4>2. \A d \in Act!Changes \ {worker} : RecordsFit(d)'
        BY <1>1, <2>1, <3>1, <3>2 DEF Attended, RecordsFit
      <4>3. QED BY <1>1, <4>1, <4>2
    <3>5. ASSUME NEW d \in Act!Changes PROVE NoTrace(d)'
      <4>1. CASE d = worker
        <5>1. Gone(d)' => ~coord.errors BY <1>1, <2>1, <2>2, <3>1, <3>2, <4>1 DEF Gone
        <5>2. \A f \in Act!Targets : server'[worker].backup[f] # worker BY <3>1, <3>2 DEF BackupFits
        <5>3. QED BY <1>1, <3>1, <3>3, <4>1, <5>1, <5>2 DEF NoTrace
      <4>2. CASE d # worker
        <5>1. NoTrace(d) /\ (Gone(d)' <=> Gone(d))
          BY <1>1, <2>1, <3>1, <3>2, <4>2 DEF Attended, Gone
        <5>2. QED BY <1>1, <3>1, <3>2, <5>1 DEF NoTrace
      <4>3. QED BY <4>1, <4>2
    <3>6. WorkerFits' BY <1>1, <2>1, <2>2, <3>1 DEF WorkerFits, Fits
    <3>7. BackupFits' BY <1>1, <3>1, <3>2 DEF BackupFits
    <3>8. Whole'
      <4> SUFFICES ASSUME \A d \in Act!Changes : server'[d].status # "recovery_required"
          PROVE  \A f \in Act!Targets : files[f] = files["config"] /\ runtime = files["config"]
        BY <1>1 DEF Whole, Act!Targets
      <4>1. ~coord.errors BY <2>2, <3>1, <3>2
      <4>2. \A f \in Act!Targets : server[worker].backup[f] = server[worker].backup["config"]
        BY <3>1, <3>2 DEF BackupFits
      <4>3. QED BY <3>3, <4>1, <4>2
    <3>9. QED BY <3>4, <3>5, <3>6, <3>7, <3>8
  <2>6. QED BY <1>1, <1>5, <2>4, <2>5, CoordinatorRests, ActivationFollows
<1>6. QED BY <1>1, <1>4, <1>5

\* Every step of an activation keeps the invariant.
LEMMA ActivationStep ==
    ASSUME ActivationInv, Act!Next
    PROVE  ActivationInv'
<1>1. CASE \E c \in Act!Changes : Act!Preview(c) \/ Act!StartActivation(c)
  BY <1>1, ActivationPreviewed, ActivationStarts
<1>2. CASE Act!Worker
  <2>1. CASE \/ Act!Prepare \/ Act!Staged \/ Act!TakeAck \/ Act!PostActivate
             \/ Act!RollbackPending \/ Act!TakeRollbackAck \/ Act!Complete
    BY <2>1, WorkerGoesOn
  <2>2. CASE \/ Act!WriteRequest \/ Act!WriteRollbackRequest \/ Act!ReportFailed
             \/ Act!PublishApplied \/ Act!TimesOut \/ Act!Except \/ Act!PublishFailed
    BY <2>2, RequestWritten, RollbackAsked, OutcomePublished, GivesUp, ExceptionEnds
  <2>3. QED BY <1>2, <2>1, <2>2 DEF Act!Worker
<1>3. CASE Act!WorkerDies BY <1>3, WorkerKilled
<1>4. CASE Act!Coordinator
  <2>1. CASE \E c \in Act!Changes : Act!Visit(c) BY <2>1, RequestVisited
  <2>2. CASE Act!CopyFile \/ Act!ReloadActivated \/ Act!Acknowledge
    BY <2>2, FileCopied, CopiesReloaded, Acknowledged
  <2>3. CASE Act!RestoreFile \/ Act!ReloadRestored \/ Act!AnswerRestored
    BY <2>3, FileRestored, RestoredReloaded, RestoreAnswered
  <2>4. QED BY <1>4, <2>1, <2>2, <2>3 DEF Act!Coordinator
<1>5. CASE Act!ServerCrash \/ Act!ServerStart BY <1>5, ServerComesAndGoes
<1>6. QED BY <1>1, <1>2, <1>3, <1>4, <1>5 DEF Act!Next

\* Nothing has been asked for yet, and the targets are the original ones.
LEMMA ActivationInit ==
    ASSUME Act!Init
    PROVE  ActivationInv
<1>1. /\ files = [f \in Act!Targets |-> 0] /\ runtime = 0
      /\ tx = [c \in Act!Changes |-> "none"] /\ request = {} /\ undo = {}
      /\ ack = [c \in Act!Changes |-> "none"] /\ undoAck = [c \in Act!Changes |-> "none"]
      /\ server = [c \in Act!Changes |->
                      [status |-> "none", backup |-> [f \in Act!Targets |-> 0]]]
      /\ coord = Act!Resting /\ up = TRUE /\ worker = 0 /\ abandoned = {} /\ mishaps = 0
      /\ step = Act!Ended
  BY DEF Act!Init
<1>2. /\ \A f \in Act!Targets : files[f] = 0
      /\ \A c \in Act!Changes : ~Started(c) /\ tx[c] = "none" /\ ack[c] = "none" /\ undoAck[c] = "none"
      /\ coord.pc = "idle" /\ "config" \in Act!Targets
  BY <1>1, CoordinatorRests DEF Started, Act!Targets
<1>3. manifest \in [Act!Changes -> Previews] BY ChangeFacts DEF Act!Init, Previews
<1>4. server \in [Act!Changes -> ServerFiles]
  BY <1>1, ChangeFacts DEF ServerFiles, Backups, Act!ServerStates
<1>5. Act!TypeOK BY <1>1, <1>3, <1>4, ChangeFacts, CoordinatorRests, ActivationTypes
     DEF Backups, Steps, Act!Ended, Act!WorkerSteps, Act!TxStates
<1>6. \A c \in Act!Changes : RecordsFit(c) /\ NoTrace(c)
  BY <1>1, <1>2, ChangeFacts DEF RecordsFit, NoTrace
<1>7. CoordFits /\ TargetsFit BY <1>2 DEF CoordFits, TargetsFit
<1>8. Whole BY <1>1, <1>2 DEF Whole
<1>9. QED BY <1>1, <1>2, <1>5, <1>6, <1>7, <1>8 DEF ActivationInv, Attended

\* A step that leaves the activation alone.
LEMMA ActivationStutters ==
    ASSUME ActivationInv, UNCHANGED activationState
    PROVE  ActivationInv'
<1>1. UNCHANGED <<files, runtime, manifest, tx, request, ack, undo, undoAck, server, coord, up,
                  worker, step, abandoned, mishaps>>
  BY DEF activationState
<1>2. Act!TypeOK' BY <1>1, ActivationFacts, ActivationTypesNext
<1>3. \A c : (Started(c)' <=> Started(c)) /\ (Gone(c)' <=> Gone(c)) BY <1>1 DEF Started, Gone
<1>4. (\A c \in Act!Changes : RecordsFit(c)) => \A c \in Act!Changes : RecordsFit(c)'
  BY <1>1, <1>3 DEF RecordsFit
<1>5. (\A c \in Act!Changes : NoTrace(c)) => \A c \in Act!Changes : NoTrace(c)'
  BY <1>1, <1>3 DEF NoTrace
<1>6. (WorkerFits => WorkerFits') /\ (BackupFits => BackupFits')
  BY <1>1, <1>3 DEF WorkerFits, Fits, BackupFits
<1>7. (CoordFits => CoordFits') /\ (TargetsFit => TargetsFit')
  BY <1>1, <1>3 DEF CoordFits, TargetsFit
<1>8. Whole => Whole' BY <1>1 DEF Whole, Act!Settled, Act!NeedsRollback
<1>9. QED BY <1>1, <1>2, <1>4, <1>5, <1>6, <1>7, <1>8 DEF ActivationInv, Attended

\* A settled and unbroken activation leaves one unit behind.
LEMMA UnitWhole ==
    ASSUME ActivationInv
    PROVE  Act!OneUnit
<1>1. QED BY DEF ActivationInv, Attended, Whole, Act!OneUnit

\* A transaction completes when its change is in every target, and is rolled back when
\* it is in none, or when the except clause presumes so.
LEMMA OutcomesTruthful ==
    ASSUME ActivationInv, Act!Next
    PROVE  Act!TruthfulOutcome
<1> SUFFICES ASSUME NEW c \in Act!Changes, abandoned = {}
    PROVE  /\ Act!Becomes(c, "COMPLETED") =>
                (\A f \in Act!Targets : files[f] = c) /\ runtime = c
           /\ Act!Becomes(c, "ROLLED_BACK") =>
                \/ (\A f \in Act!Targets : files[f] # c) /\ runtime # c
                \/ /\ Act!Presumed
                   /\ Act!Unanswered(c) \/ (ack[c] \in {"ok", "unproven"} /\ undoAck[c] # "ok")
  BY DEF Act!TruthfulOutcome, Act!Nowhere
<1>1. /\ tx \in [Act!Changes -> Act!TxStates] /\ (worker # 0 => worker \in Act!Changes)
      /\ ack[c] \in {"none", "ok", "restored", "unproven"} /\ step \in Steps
      /\ Attended /\ RecordsFit(c) /\ NoTrace(c)
  BY ActivationFacts DEF ActivationInv, Attended
<1>2. ASSUME NEW s, s \in {"COMPLETED", "ROLLED_BACK"}, Act!Becomes(c, s)
      PROVE  /\ worker # 0 /\ c = worker /\ WorkerFits
             /\ \/ s = "COMPLETED" /\ Act!Complete
                \/ s = "ROLLED_BACK" /\ (Act!TakeAck \/ Act!TakeRollbackAck \/ Act!Except)
  <2>1. tx' # tx BY <1>1, <1>2 DEF Act!Becomes
  <2>2. \/ \E d \in Act!Changes : Act!StartActivation(d)
        \/ Act!Prepare \/ Act!Staged \/ Act!TakeAck \/ Act!PostActivate \/ Act!RollbackPending
        \/ Act!TakeRollbackAck \/ Act!Complete \/ Act!Except
    <3>1. Act!WriteRequest \/ Act!WriteRollbackRequest \/ Act!ReportFailed \/ Act!PublishApplied
             \/ Act!TimesOut \/ Act!PublishFailed \/ Act!WorkerDies \/ Act!ServerCrash
             \/ Act!ServerStart \/ Act!Coordinator => tx' = tx
      BY DEF Act!WriteRequest, Act!WriteRollbackRequest, Act!ReportFailed, Act!PublishApplied,
         Act!Publish, Act!TimesOut, Act!PublishFailed, Act!WorkerDies, Act!ServerCrash,
         Act!ServerStart, Act!Coordinator, Act!Visit, Act!CopyFile, Act!ReloadActivated,
         Act!Acknowledge, Act!RestoreFile, Act!ReloadRestored, Act!AnswerRestored, Act!workerVars
    <3>2. ASSUME NEW d \in Act!Changes, Act!Preview(d) PROVE tx' = tx BY <3>2 DEF Act!Preview
    <3>3. QED BY <2>1, <3>1, <3>2 DEF Act!Next, Act!Worker
  <2>3. ASSUME NEW d \in Act!Changes, Act!StartActivation(d) PROVE FALSE
    BY <1>1, <1>2, <2>3 DEF Act!StartActivation, Act!Becomes
  <2>4. worker # 0 /\ c = worker
    <3>1. worker # 0 BY <2>2, <2>3 DEF Act!Prepare, Act!Staged, Act!TakeAck, Act!PostActivate,
         Act!RollbackPending, Act!TakeRollbackAck, Act!Complete, Act!Except, Act!WorkerAt
    <3>2. \E t : tx' = [tx EXCEPT ![worker] = t]
      BY <2>1, <2>2, <2>3 DEF Act!Prepare, Act!Staged, Act!TakeAck, Act!PostActivate,
         Act!RollbackPending, Act!TakeRollbackAck, Act!Complete, Act!Except, Act!SetState
    <3>3. QED BY <1>1, <1>2, <3>1, <3>2 DEF Act!Becomes
  <2>5. Act!Prepare \/ Act!Staged \/ Act!PostActivate \/ Act!RollbackPending => FALSE
    BY <1>1, <1>2, <2>1, <2>4 DEF Act!Prepare, Act!Staged, Act!PostActivate, Act!RollbackPending,
       Act!SetState, Act!Becomes
  <2>6. Act!Complete => s = "COMPLETED"
    BY <1>1, <1>2, <2>1, <2>4 DEF Act!Complete, Act!SetState, Act!Becomes
  <2>7. Act!TakeAck \/ Act!TakeRollbackAck \/ Act!Except => s = "ROLLED_BACK"
    BY <1>1, <1>2, <2>1, <2>4 DEF Act!TakeAck, Act!TakeRollbackAck, Act!Except, Act!SetState,
       Act!OnException, Act!Becomes
  <2>8. WorkerFits BY <1>1, <2>4 DEF Attended
  <2>9. QED BY <2>2, <2>3, <2>4, <2>5, <2>6, <2>7, <2>8
<1>3. ASSUME Act!Becomes(c, "COMPLETED")
      PROVE  (\A f \in Act!Targets : files[f] = c) /\ runtime = c
  <2>1. c = worker /\ worker # 0 /\ Act!Complete /\ WorkerFits BY <1>2, <1>3
  <2>2. step.at = "complete" BY <2>1 DEF Act!Complete, Act!WorkerAt
  <2>3. QED BY <2>1, <2>2 DEF WorkerFits, Fits
<1>4. ASSUME Act!Becomes(c, "ROLLED_BACK")
      PROVE  \/ (\A f \in Act!Targets : files[f] # c) /\ runtime # c
             \/ /\ Act!Presumed
                /\ Act!Unanswered(c) \/ (ack[c] \in {"ok", "unproven"} /\ undoAck[c] # "ok")
  <2>1. /\ c = worker /\ worker # 0 /\ WorkerFits
        /\ Act!TakeAck \/ Act!TakeRollbackAck \/ Act!Except
    BY <1>2, <1>4
  <2>2. Gone(c) => (\A f \in Act!Targets : files[f] # c) /\ runtime # c BY <1>1 DEF NoTrace
  <2>3. CASE Act!TakeAck
    <3>1. ack[c] = "restored" BY <1>1, <1>4, <2>1, <2>3 DEF Act!TakeAck, Act!SetState, Act!Becomes
    <3>2. QED BY <2>2, <3>1 DEF Gone
  <2>4. CASE Act!TakeRollbackAck
    <3>1. undoAck[c] = "ok"
      BY <1>1, <1>4, <2>1, <2>4 DEF Act!TakeRollbackAck, Act!SetState, Act!Becomes
    <3>2. QED BY <2>2, <3>1 DEF Gone
  <2>5. CASE Act!Except
    <3>1. step.at = "except" /\ Act!OnException(step.state) = "ROLLED_BACK"
      BY <1>1, <1>4, <2>1, <2>5 DEF Act!Except, Act!WorkerAt, Act!Becomes
    <3>2. step.state \in Act!TxStates \ {"none", "CONFIG_ACTIVATED", "ROLLBACK_PENDING"}
      BY <1>1, <2>1, <3>1 DEF WorkerFits, Fits, Steps, Act!OnException
    <3>3. CASE step.state \in {"SOURCE_RESOLVED", "PROJECT_BINDINGS_VALIDATED", "ROLLED_BACK"}
      <4>1. Gone(c) BY <1>1, <2>1, <3>1, <3>3 DEF WorkerFits, Fits, RecordsFit, Gone
      <4>2. QED BY <2>2, <4>1
    <3>4. CASE Act!Presumed BY <1>1, <2>2, <3>4 DEF Gone, RecordsFit, Act!Unanswered
    <3>5. QED BY <3>1, <3>2, <3>3, <3>4 DEF Act!Presumed, Act!TxStates
  <2>6. QED BY <2>1, <2>3, <2>4, <2>5
<1>5. QED BY <1>3, <1>4

\* What was rolled back does not come back.
LEMMA RollbacksFinal ==
    ASSUME ActivationInv, Act!Next
    PROVE  Act!RollbackIsFinal
<1> SUFFICES ASSUME abandoned' = {}, NEW c \in Act!Changes, ack[c] = "restored" \/ undoAck[c] = "ok",
                    NEW f \in Act!Targets, files'[f] = c
    PROVE  files[f] = c
  BY DEF Act!RollbackIsFinal
<1>1. files \in Backups BY ActivationFacts
<1>2. CASE files' = files BY <1>2
<1>3. CASE files' # files
  <2>1. /\ abandoned' = abandoned /\ coord.pc # "idle"
        /\ \/ files' = [files EXCEPT ![Act!NextCopy] = coord.change] /\ coord.pc = "copy"
           \/ files' = [files EXCEPT ![Act!NextRestore] =
                                         server[coord.change].backup[Act!NextRestore]]
    <3>1. Act!CopyFile \/ Act!RestoreFile
      BY <1>3 DEF Act!Next, Act!Preview, Act!StartActivation, Act!Worker, Act!Prepare,
         Act!WriteRequest, Act!Staged, Act!TakeAck, Act!PostActivate, Act!WriteRollbackRequest,
         Act!RollbackPending, Act!TakeRollbackAck, Act!Complete, Act!Publish, Act!ReportFailed,
         Act!PublishApplied, Act!TimesOut, Act!Except, Act!PublishFailed, Act!WorkerDies,
         Act!Coordinator, Act!Visit, Act!ReloadActivated, Act!Acknowledge, Act!ReloadRestored, Act!AnswerRestored,
         Act!ServerCrash, Act!ServerStart, Act!targetVars
    <3>2. QED
      BY <1>3, <3>1 DEF Act!CopyFile, Act!RestoreFile, Act!At, Act!This, Act!Restored, Act!workerVars
  <2>2. /\ Attended /\ coord.change = worker /\ worker # 0 /\ worker \in Act!Changes
        /\ Started(worker) /\ BackupFits
        /\ coord.pc = "copy" => ~coord.undoing
        /\ ~coord.undoing => ack[worker] = "none" /\ undoAck[worker] = "none"
    BY <2>1, CoordinatorAtWork DEF Attended, TargetsFit
  <2>3. Gone(c) /\ NoTrace(c) BY <2>2 DEF Gone, Attended
  <2>4. server[worker].backup[f] # c BY <2>2, <2>3 DEF NoTrace
  <2>5. QED BY <1>1, <2>1, <2>2, <2>4 DEF Backups
<1>4. QED BY <1>2, <1>3

\* While an activation is in focus its invariant holds.
LEMMA ActivationAlways == Spec => []ActivationInv
<1>1. Init => ActivationInv BY ActivationInit DEF Init
<1>2. ActivationInv /\ [Next]_vars => ActivationInv'
  BY ActivationStep, ActivationStutters DEF Next, vars
<1>3. QED BY <1>1, <1>2, PTL DEF Spec

\* What an activation reports is what its targets contain, the targets change as one
\* unit, and a rollback is final (ssh_activation.py, server.py).
THEOREM ActivationStaysTruthful == Spec => ActivationTruthful
<1>1. ActivationInv /\ ActivationInv' /\ [Next]_vars =>
         [focus = "activation" => /\ Act!TypeOK' /\ Act!OneUnit' /\ Act!TruthfulOutcome
                                  /\ Act!RollbackIsFinal]_activationState
  <2> SUFFICES ASSUME ActivationInv, ActivationInv', [Next]_vars, focus = "activation",
                      ~UNCHANGED activationState
      PROVE  Act!TypeOK' /\ Act!OneUnit' /\ Act!TruthfulOutcome /\ Act!RollbackIsFinal
    OBVIOUS
  <2>1. Act!Next BY DEF Next, vars
  <2>2. Act!TruthfulOutcome /\ Act!RollbackIsFinal BY <2>1, OutcomesTruthful, RollbacksFinal
  <2>3. Act!TypeOK' BY DEF ActivationInv
  <2>4. ActivationInv => Act!OneUnit BY UnitWhole
  <2>5. (ActivationInv => Act!OneUnit)' BY UnitWhole, PTL
  <2>6. QED BY <2>2, <2>3, <2>5
<1>2. QED BY <1>1, ActivationAlways, PTL DEF Spec, ActivationTruthful

==============================================================================
