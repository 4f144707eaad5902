--------------------------- MODULE PidfileProofs ---------------------------
(***************************************************************************)
(* What the pid file promises, for any number of instances.                *)
(***************************************************************************)
EXTENDS Pidfile, TLAPS

IInv == PidfileTypeOK /\ FileInv /\ AloneInv /\ BufferInv

\* The steps that change nothing but the place of the instance.
Moves(p) ==
    \/ ParseOptionsFails(p) \/ switch_user(p) \/ do_daemonFails(p)
    \/ CreateAccess(p) \/ CreateUnlinkFails(p) \/ CreateOpenFails(p)
    \/ ConfigureLogs(p) \/ setupSignals(p) \/ LeaveMain(p) \/ Crash(p) \/ DestroyAccess(p)

LEMMA InitIInv == Init => IInv
<1> SUFFICES ASSUME Init
             PROVE  IInv
  OBVIOUS
<1>1. PidfileTypeOK
  BY DEF Init, PidfileTypeOK, Places, Inodes
<1>2. FileInv
  BY PathAssumption DEF Init, FileInv
<1>3. AloneInv /\ BufferInv
  BY DEF Init, AloneInv, BufferInv, lives
<1> QED
  BY <1>1, <1>2, <1>3 DEF IInv

\* Each step of an instance keeps the types.
LEMMA StepTypes ==
    ASSUME IInv, NEW p \in Instances, Step(p)
    PROVE  PidfileTypeOK'
<1> USE DEF IInv, PidfileTypeOK, Places, Inodes, Goto, onlyMoves
<1>1. CASE ParseOptions(p) \/ do_daemon(p)
  BY <1>1 DEF ParseOptions, do_daemon
<1>2. CASE Moves(p)
  BY <1>2 DEF Moves, ParseOptionsFails, switch_user, do_daemonFails, CreateAccess, CreateUnlinkFails,
     CreateOpenFails, ConfigureLogs, setupSignals, LeaveMain, Crash, DestroyAccess
<1>3. CASE CreateUnlink(p) \/ DestroyFindsNothing(p) \/ DestroyUnlink(p) \/ remove_pidfile(p)
  BY <1>3 DEF CreateUnlink, DestroyFindsNothing, DestroyUnlink, remove_pidfile, unlinked
<1>4. CASE CreateOpen(p)
  <2>1. path' \in Inodes
    BY <1>4 DEF CreateOpen
  <2> QED
    BY <1>4, <2>1 DEF CreateOpen
<1>5. CASE CreateWrite(p) \/ CreateWriteFails(p)
  <2>1. getpid(p) \in Pids
    BY DEF getpid, Pids
  <2>2. [content EXCEPT ![file[p]] = getpid(p)] \in [Inodes -> Pids \cup {Empty, Unknown}]
    BY <2>1
  <2> QED
    BY <1>5, <2>2 DEF CreateWrite, CreateWriteFails
<1> QED
  BY <1>1, <1>2, <1>3, <1>4, <1>5 DEF Step, Moves

\* The file of an instance appears when it opens it and is gone after its
\* destructor, whatever the others do.
LEMMA StepFile ==
    ASSUME IInv, NEW p \in Instances, Step(p)
    PROVE  FileInv'
<1> USE DEF IInv, PidfileTypeOK, FileInv, Goto, onlyMoves, Places
<1>1. CASE ParseOptions(p) \/ do_daemon(p) \/ Moves(p) \/ CreateWrite(p) \/ CreateWriteFails(p)
  BY <1>1 DEF ParseOptions, do_daemon, CreateWrite, CreateWriteFails, Moves,
     ParseOptionsFails, switch_user, do_daemonFails, CreateAccess, CreateUnlinkFails,
     CreateOpenFails, ConfigureLogs, setupSignals, LeaveMain, Crash, DestroyAccess
<1>2. CASE CreateUnlink(p) \/ DestroyFindsNothing(p) \/ DestroyUnlink(p) \/ remove_pidfile(p)
  BY <1>2, PathAssumption DEF CreateUnlink, DestroyFindsNothing, DestroyUnlink,
     remove_pidfile, unlinked
<1>3. CASE CreateOpen(p)
  BY <1>3 DEF CreateOpen
<1> QED
  BY <1>1, <1>2, <1>3 DEF Step, Moves

\* Only create() sets the buffer and every way out of the destructor clears it.
LEMMA StepBuffer ==
    ASSUME IInv, NEW p \in Instances, Step(p)
    PROVE  BufferInv'
BY DEF IInv, PidfileTypeOK, BufferInv, Goto, onlyMoves, Places, Step, ParseOptions, ParseOptionsFails, switch_user, do_daemon, do_daemonFails, CreateAccess,
   CreateUnlink, CreateUnlinkFails, CreateOpen, CreateOpenFails, CreateWrite,
   CreateWriteFails, ConfigureLogs, setupSignals, LeaveMain, Crash, DestroyAccess,
   DestroyFindsNothing, DestroyUnlink, remove_pidfile

\* An instance that never met another finds the file as it left it.
LEMMA StepAlone ==
    ASSUME IInv, NEW p \in Instances, Step(p)
    PROVE  AloneInv'
<1> SUFFICES ASSUME ~overlapped'
             PROVE  AloneInv'
  BY DEF AloneInv
<1> USE DEF IInv, PidfileTypeOK, AloneInv, Goto, onlyMoves, Places, lives, getpid
<1>0. CASE ParseOptions(p)
  <2>1. /\ \A q \in Instances : ~lives(q)
        /\ main_pc'[p] = "user" /\ UNCHANGED <<path, content, file, pid>>
    BY <1>0 DEF ParseOptions
  <2>2. \A q \in Instances \ {p} : main_pc'[q] = main_pc[q]
    BY <1>0 DEF ParseOptions
  <2>3. \A q \in Instances : lives(q)' => q = p
    BY <2>1, <2>2
  <2> QED
    BY <2>1, <2>3
<1>1. CASE do_daemon(p)
  <2>1. /\ main_pc[p] = "daemonize" /\ main_pc'[p] = "access" /\ ~overlapped
        /\ UNCHANGED <<path, content, file>>
    BY <1>1 DEF do_daemon
  <2>2. \A q \in Instances \ {p} : main_pc'[q] = main_pc[q] /\ pid'[q] = pid[q]
    BY <1>1 DEF do_daemon
  <2>3. \A q \in Instances : lives(q)' => q = p
    BY <2>1, <2>2
  <2> QED
    BY <2>1, <2>3
<1>2. CASE Moves(p)
  BY <1>2 DEF Moves, ParseOptionsFails, switch_user, do_daemonFails, CreateAccess, CreateUnlinkFails,
     CreateOpenFails, ConfigureLogs, setupSignals, LeaveMain, Crash, DestroyAccess
<1>3. CASE CreateUnlink(p) \/ DestroyFindsNothing(p) \/ DestroyUnlink(p) \/ remove_pidfile(p)
  BY <1>3 DEF CreateUnlink, DestroyFindsNothing, DestroyUnlink, remove_pidfile
<1>4. CASE CreateOpen(p)
  BY <1>4 DEF CreateOpen, Inodes
<1>5. CASE CreateWrite(p) \/ CreateWriteFails(p)
  BY <1>5 DEF CreateWrite, CreateWriteFails
<1> QED
  BY <1>0, <1>1, <1>2, <1>3, <1>4, <1>5 DEF Step, Moves

LEMMA NextIInv == IInv /\ [Next]_vars => IInv'
<1> SUFFICES ASSUME IInv, [Next]_vars
             PROVE  IInv'
  OBVIOUS
<1>1. CASE \E p \in Instances : Step(p)
  BY <1>1, StepTypes, StepFile, StepBuffer, StepAlone DEF IInv
<1>2. CASE CloseDirectory
  BY <1>2 DEF CloseDirectory, IInv, PidfileTypeOK, FileInv, AloneInv, BufferInv, lives, getpid
<1>3. CASE UNCHANGED vars
  BY <1>3 DEF vars, IInv, PidfileTypeOK, FileInv, AloneInv, BufferInv, lives, getpid
<1> QED
  BY <1>1, <1>2, <1>3 DEF Next, Finished

LEMMA AlwaysIInv == Spec => []IInv
BY InitIInv, NextIInv, PTL DEF Spec

-----------------------------------------------------------------------------
\* Every variable keeps its type, whatever steps fail: create() writes only
\* to a file that open() gave it.
THEOREM PidfileTypesCorrect == Spec => []PidfileTypeOK
<1>1. IInv => PidfileTypeOK
  BY DEF IInv
<1> QED
  BY <1>1, AlwaysIInv, PTL

\* An instance that returned from main() has not left the file it created,
\* however many others create and unlink it meanwhile, as long as the directory
\* lets it be unlinked.
THEOREM CleanExitCorrect == Spec => []CleanExitLeavesNoFile
<1>1. IInv => CleanExitLeavesNoFile
  BY DEF IInv, FileInv, CleanExitLeavesNoFile
<1> QED
  BY <1>1, AlwaysIInv, PTL

\* Instances that follow one another each find their own id in the file while
\* they run, whatever a crash left there.
THEOREM RestartCorrect == Spec => []RestartRecovers
<1>1. IInv => RestartRecovers
  BY PathAssumption DEF IInv, AloneInv, RestartRecovers, Inodes
<1> QED
  BY <1>1, AlwaysIInv, PTL

\* The exit handler, which runs after the destructor, unlinks nothing.
THEOREM HandlerCorrect == Spec => HandlerRemovesNothing
<1>1. IInv /\ [Next]_vars =>
        [\A p \in Instances :
           main_pc[p] = "handlers" /\ main_pc'[p] = "ended" => path' = path]_vars
  <2> SUFFICES ASSUME IInv, [Next]_vars,
                      NEW p \in Instances, main_pc[p] = "handlers", main_pc'[p] = "ended"
               PROVE  path' = path
    OBVIOUS
  <2>1. CASE \E q \in Instances : Step(q)
    <3>1. PICK q \in Instances : Step(q)
      BY <2>1
    <3>2. main_pc' = [main_pc EXCEPT ![q] = main_pc'[q]]
      BY <3>1 DEF Step, Goto, IInv, PidfileTypeOK, ParseOptions, ParseOptionsFails, switch_user, do_daemon, do_daemonFails, CreateAccess,
         CreateUnlink, CreateUnlinkFails, CreateOpen, CreateOpenFails, CreateWrite,
         CreateWriteFails, ConfigureLogs, setupSignals, LeaveMain, Crash, DestroyAccess,
         DestroyFindsNothing, DestroyUnlink, remove_pidfile
    <3>3. q = p
      BY <3>2 DEF IInv, PidfileTypeOK
    <3>4. remove_pidfile(p)
      BY <3>1, <3>3 DEF Step, Goto, IInv, PidfileTypeOK, ParseOptions, ParseOptionsFails, switch_user, do_daemon, do_daemonFails, CreateAccess,
         CreateUnlink, CreateUnlinkFails, CreateOpen, CreateOpenFails, CreateWrite,
         CreateWriteFails, ConfigureLogs, setupSignals, LeaveMain, Crash, DestroyAccess,
         DestroyFindsNothing, DestroyUnlink
    <3> QED
      BY <3>4 DEF remove_pidfile, IInv, BufferInv
  <2>2. CASE CloseDirectory \/ UNCHANGED vars
    BY <2>2 DEF CloseDirectory, vars
  <2> QED
    BY <2>1, <2>2 DEF Next, Finished
<1> QED
  BY <1>1, AlwaysIInv, PTL DEF Spec, HandlerRemovesNothing
=============================================================================
