------------------------------ MODULE Pidfile ------------------------------
(***************************************************************************)
(* main() (main.cpp) and the pid file it keeps (pidfile.cpp), for several  *)
(* instances of driveshaft started with the same --pid_file: one after     *)
(* another, after a crash, or while the last one is still in the wait of   *)
(* its shutdown.                                                           *)
(*                                                                         *)
(* The file system is one path and the inode it names.  An instance that   *)
(* creates the file creates the inode of its own name.  An inode that was  *)
(* unlinked never comes back to the path.                                  *)
(***************************************************************************)
CONSTANTS Instances,
          NoFile,       \* the path names nothing
          Stale,        \* the inode of a file that was there before
          Unknown,      \* what that file says
          Empty         \* what a file says that was just opened

VARIABLES
    main_pc,            \* where main() of each instance is
    pid,                \* its process: the one launched, or the child it forked
    path,               \* the inode that the path names
    writable,           \* may files of its directory be created and unlinked?
    content,            \* of each inode: the process whose id it holds
    file,               \* the inode each instance has open
    pid_file,           \* is its global buffer set, for the exit handler?
    overlapped          \* was an instance ever launched while another lived?

vars == <<main_pc, pid, path, writable, content, file, pid_file, overlapped>>

ASSUME PathAssumption ==
    NoFile \notin Instances /\ Stale \notin Instances /\ NoFile # Stale

Inodes == Instances \cup {Stale}

\* What getpid() gives, and so what the file says.
Pids == Instances \X {"launched", "forked"}
getpid(p) == <<p, pid[p]>>

Places == {"none", "user", "daemonize", "access", "unlink", "open", "write", "logs",
           "setup", "run", "destroy", "destroy_unlink", "handlers", "ended", "crashed"}

PidfileTypeOK ==
    /\ main_pc \in [Instances -> Places]
    /\ pid \in [Instances -> {"launched", "forked"}]
    /\ path \in Inodes \cup {NoFile}
    /\ writable \in BOOLEAN
    /\ content \in [Inodes -> Pids \cup {Empty, Unknown}]
    /\ file \in [Instances -> Inodes \cup {NoFile}]
    /\ pid_file \in [Instances -> BOOLEAN]
    /\ overlapped \in BOOLEAN

Init ==
    /\ main_pc = [p \in Instances |-> "none"]
    /\ pid = [p \in Instances |-> "launched"]
    /\ path \in {NoFile, Stale}
    /\ writable \in BOOLEAN
    /\ content = [i \in Inodes |-> IF i = Stale THEN Unknown ELSE Empty]
    /\ file = [p \in Instances |-> NoFile]
    /\ pid_file = [p \in Instances |-> FALSE]
    /\ overlapped = FALSE

lives(p) == main_pc[p] \notin {"none", "ended", "crashed"}

Goto(p, from, to) ==
    /\ main_pc[p] = from
    /\ main_pc' = [main_pc EXCEPT ![p] = to]

onlyMoves == UNCHANGED <<pid, path, writable, content, file, pid_file, overlapped>>

\* What unlink(path) leaves: it fails when the directory permits no change,
\* from the start (a file there that is not ours) or since.
unlinked == IF writable THEN NoFile ELSE path

\* The directory is closed to the instances, by chmod or a read-only remount,
\* at any time, also after create() succeeded in it.
CloseDirectory ==
    /\ writable
    /\ writable' = FALSE
    /\ UNCHANGED <<main_pc, pid, path, content, file, pid_file, overlapped>>

-----------------------------------------------------------------------------
(***************************************************************************)
(* main() up to the Pidfile object.  It returns when one of its parts      *)
(* fails, and nothing was created yet.                                     *)
(***************************************************************************)
ParseOptions(p) ==
    /\ Goto(p, "none", "user")
    /\ overlapped' = (overlapped \/ \E q \in Instances : lives(q))
    /\ UNCHANGED <<pid, path, writable, content, file, pid_file>>

\* They are wrong, or --help or --version is all that was asked for.
ParseOptionsFails(p) ==
    /\ Goto(p, "none", "ended")
    /\ onlyMoves

\* Without --user nothing is switched.
switch_user(p) ==
    /\ \E to \in {"daemonize", "ended"} : Goto(p, "user", to)
    /\ onlyMoves

\* With --daemonize the child goes on and the parent exits; it has no exit
\* handler yet.
do_daemon(p) ==
    /\ Goto(p, "daemonize", "access")
    /\ \E process \in {"launched", "forked"} : pid' = [pid EXCEPT ![p] = process]
    /\ UNCHANGED <<path, writable, content, file, pid_file, overlapped>>

do_daemonFails(p) ==
    /\ Goto(p, "daemonize", "ended")
    /\ onlyMoves

(***************************************************************************)
(* Pidfile::create.  When it fails main() returns and destroys the object. *)
(***************************************************************************)

\* Mutant: a file that exists is taken for ours.
CreateAccessKeeps(p) ==
    /\ Goto(p, "access", IF path # NoFile THEN "logs" ELSE "open")
    /\ onlyMoves

CreateAccess(p) ==
    /\ Goto(p, "access", IF path # NoFile THEN "unlink" ELSE "open")
    /\ onlyMoves

CreateUnlink(p) ==
    /\ path # NoFile /\ writable
    /\ Goto(p, "unlink", "open")
    /\ path' = NoFile
    /\ UNCHANGED <<pid, writable, content, file, pid_file, overlapped>>

\* The file may be gone by now: another instance has unlinked it.
CreateUnlinkFails(p) ==
    /\ path = NoFile \/ ~writable
    /\ Goto(p, "unlink", "destroy")
    /\ onlyMoves

\* Without O_EXCL: a file that another instance created since is opened too.
CreateOpen(p) ==
    /\ path = NoFile => writable
    /\ Goto(p, "open", "write")
    /\ path' = IF path = NoFile THEN p ELSE path
    /\ file' = [file EXCEPT ![p] = path']
    /\ content' = [content EXCEPT ![path'] = Empty]
    /\ UNCHANGED <<pid, writable, pid_file, overlapped>>

\* Mutant: the result of open() is not looked at.
CreateOpenUnchecked(p) ==
    /\ Goto(p, "open", "write")
    /\ file' = [file EXCEPT ![p] = "minus one"]
    /\ UNCHANGED <<pid, path, writable, content, pid_file, overlapped>>

CreateOpenFails(p) ==
    /\ Goto(p, "open", "destroy")
    /\ onlyMoves

\* write, close, and the registration of the exit handler.
CreateWrite(p) ==
    /\ Goto(p, "write", "logs")
    /\ content' = [content EXCEPT ![file[p]] = getpid(p)]
    /\ pid_file' = [pid_file EXCEPT ![p] = TRUE]
    /\ UNCHANGED <<pid, path, writable, file, overlapped>>

\* Nothing was written, or close() failed after it was.
CreateWriteFails(p) ==
    /\ Goto(p, "write", "destroy")
    /\ content' \in {content, [content EXCEPT ![file[p]] = getpid(p)]}
    /\ UNCHANGED <<pid, path, writable, file, pid_file, overlapped>>

-----------------------------------------------------------------------------
\* DOMConfigurator::configure reads the log configuration, or throws.
ConfigureLogs(p) ==
    /\ \E to \in {"setup", "destroy"} : Goto(p, "logs", to)
    /\ onlyMoves

\* MainLoop is constructed; it throws when a handler cannot be installed.
setupSignals(p) ==
    /\ \E to \in {"run", "destroy"} : Goto(p, "setup", to)
    /\ onlyMoves

\* MainLoop::run has returned or thrown.
LeaveMain(p) ==
    /\ Goto(p, "run", "destroy")
    /\ onlyMoves

\* The exporter's address is taken, which terminates in the noexcept
\* constructor of MetricProxy; or any other crash.  No destructor runs.
Crash(p) ==
    /\ lives(p)
    /\ main_pc' = [main_pc EXCEPT ![p] = "crashed"]
    /\ onlyMoves

(***************************************************************************)
(* Pidfile::~Pidfile, and then the exit handler remove_pidfile.            *)
(***************************************************************************)
DestroyAccess(p) ==
    /\ path # NoFile
    /\ Goto(p, "destroy", "destroy_unlink")
    /\ onlyMoves

DestroyFindsNothing(p) ==
    /\ path = NoFile
    /\ Goto(p, "destroy", "handlers")
    /\ pid_file' = [pid_file EXCEPT ![p] = FALSE]
    /\ UNCHANGED <<pid, path, writable, content, file, overlapped>>

\* Mutants: an instance whose create() failed does not unlink; the buffer is
\* not cleared.
DestroyUnlinkIfCreated(p) ==
    /\ Goto(p, "destroy_unlink", "handlers")
    /\ path' = IF pid_file[p] THEN unlinked ELSE path
    /\ pid_file' = [pid_file EXCEPT ![p] = FALSE]
    /\ UNCHANGED <<pid, writable, content, file, overlapped>>

DestroyUnlinkKeepsBuffer(p) ==
    /\ Goto(p, "destroy_unlink", "handlers")
    /\ path' = unlinked
    /\ UNCHANGED <<pid, writable, content, file, pid_file, overlapped>>

DestroyUnlink(p) ==
    /\ Goto(p, "destroy_unlink", "handlers")
    /\ path' = unlinked
    /\ pid_file' = [pid_file EXCEPT ![p] = FALSE]
    /\ UNCHANGED <<pid, writable, content, file, overlapped>>

remove_pidfile(p) ==
    /\ Goto(p, "handlers", "ended")
    /\ path' = IF pid_file[p] THEN unlinked ELSE path
    /\ pid_file' = [pid_file EXCEPT ![p] = FALSE]
    /\ UNCHANGED <<pid, writable, content, file, overlapped>>

-----------------------------------------------------------------------------
Step(p) ==
    \/ ParseOptions(p)
    \/ ParseOptionsFails(p)
    \/ switch_user(p)
    \/ do_daemon(p)
    \/ do_daemonFails(p)
    \/ CreateAccess(p)
    \/ CreateUnlink(p)
    \/ CreateUnlinkFails(p)
    \/ CreateOpen(p)
    \/ CreateOpenFails(p)
    \/ CreateWrite(p)
    \/ CreateWriteFails(p)
    \/ ConfigureLogs(p)
    \/ setupSignals(p)
    \/ LeaveMain(p)
    \/ Crash(p)
    \/ DestroyAccess(p)
    \/ DestroyFindsNothing(p)
    \/ DestroyUnlink(p)
    \/ remove_pidfile(p)

\* Every instance was launched and is gone.
Finished ==
    /\ \A p \in Instances : main_pc[p] \in {"ended", "crashed"}
    /\ UNCHANGED vars

Next == (\E p \in Instances : Step(p)) \/ CloseDirectory \/ Finished

Spec == Init /\ [][Next]_vars

-----------------------------------------------------------------------------
(***************************************************************************)
(* Safety.                                                                 *)
(***************************************************************************)

\* An instance that ended by returning from main(), although create() failed
\* half-way or others created and unlinked the file meanwhile, has not left
\* the file it created, unless its unlink was refused ("RAII: On going out of scope will clean up the file",
\* main.cpp).
CleanExitLeavesNoFile ==
    writable => \A p \in Instances : main_pc[p] = "ended" => path # p

\* Instances that follow one another, after a crash too, each find their own
\* process id in the file while they run: create() replaces what a crash left.
RestartRecovers ==
    ~overlapped =>
        \A p \in Instances :
            main_pc[p] = "run" => path # NoFile /\ content[path] = getpid(p)

\* The exit handler never unlinks after the destructor did: by then the path
\* may name the file of a new instance.
HandlerRemovesNothing ==
    [][\A p \in Instances :
         main_pc[p] = "handlers" /\ main_pc'[p] = "ended" => path' = path]_vars

\* Why the first holds: the file an instance created is not there before it
\* opens it nor, where it could be unlinked, after its destructor.
FileInv ==
    \A p \in Instances :
        /\ main_pc[p] \in {"none", "user", "daemonize", "access", "unlink", "open"} =>
             path # p
        /\ main_pc[p] \in {"handlers", "ended"} /\ writable => path # p

\* Why the second holds: the only instance alive finds what it left.
AloneInv ==
    ~overlapped =>
        /\ \A p, q \in Instances : lives(p) /\ lives(q) => p = q
        /\ \A p \in Instances :
             /\ main_pc[p] = "open" => path = NoFile
             /\ main_pc[p] = "write" => path \in Inodes /\ file[p] = path
             /\ main_pc[p] \in {"logs", "setup", "run"} =>
                  path \in Inodes /\ content[path] = getpid(p)

\* Why the third holds: the buffer is set only between create() and the
\* destructor.
BufferInv ==
    \A p \in Instances :
        pid_file[p] =>
            main_pc[p] \in {"logs", "setup", "run", "destroy", "destroy_unlink", "crashed"}

-----------------------------------------------------------------------------
\* "On going out of scope will clean up the file" (main.cpp).  The destructor
\* unlinks by name, also the file of an instance that was started since and
\* still runs.
DestructorKeepsOthersFile ==
    [][\A p, q \in Instances :
         /\ p # q /\ DestroyUnlink(p)
         /\ main_pc[q] = "run" /\ path = q
         => path' = q]_vars
=============================================================================
