--------------------------- MODULE CompilerDriver ---------------------------
(***************************************************************************)
(* The graphical mode of the k1 compiler (src/bin/compiler_main.rs,        *)
(* src/k1/gui.rs): the GUI thread, the "compile" thread and the "run"      *)
(* thread.  They share a RwLock<Option<TypedModule>>, two bounded channels *)
(* (one per worker) and, through the file system, the executable that      *)
(* codegen writes and the run thread starts.                               *)
(*                                                                         *)
(* A module is represented by the number of the compilation that produced  *)
(* it; None is the absent module.  An executable that an earlier session   *)
(* left in out_dir has version None too.                                   *)
(***************************************************************************)
EXTENDS Naturals

CONSTANTS
  ChannelCap,   (* Capacity of each sync_channel (16 in the code).              *)
  MaxClicks,    (* Bound: how many times the user clicks a button.              *)
  MaxFunctions  (* Bound: the largest number of functions of a compiled module. *)

ASSUME DriverAssumption ==
  /\ ChannelCap \in Nat \ {0}
  /\ MaxClicks \in Nat
  /\ MaxFunctions \in Nat \ {0}

None == 0
Threads == {"gui", "compile", "run"}

VARIABLES
  module,     (* Version in the RwLock, None before the first publication.  *)
  functions,  (* How many functions the module in the RwLock has.           *)
  guards,     (* The threads that hold a read guard of the RwLock.          *)
  compileQ,   (* Messages in the channel to the compile thread.             *)
  runQ,       (* Messages in the channel to the run thread.                 *)
  gui,        (* Control state of the GUI thread.                           *)
  compile,    (* Control state of the compile thread.                       *)
  run,        (* Control state of the run thread.                           *)
  built,      (* Version the compile thread works on.                       *)
  exe,        (* Version of the executable in out_dir.                      *)
  onDisk,     (* Whether out_dir holds an executable at all.                *)
  launched,   (* Version of the executable the run thread last started.     *)
  selected,   (* Index selected in the function list, None is raygui's -1.  *)
  clicks      (* How many clicks the user has made.                         *)

locked == <<module, functions>>
disk == <<exe, onDisk>>
driverVars == <<module, functions, guards, compileQ, runQ, gui, compile, run,
          built, exe, onDisk, launched, selected, clicks>>

GuiStates == {"frame", "send_compile", "send_run", "try_read", "render",
              "send_panic", "index_panic", "closed"}
CompileStates == {"recv", "typing", "publish", "relock", "codegen", "link", "dead"}
RunStates == {"recv", "lock", "check", "child", "dead"}

\* The process exists as long as its main thread, which runs the GUI.
Alive == gui \notin {"send_panic", "index_panic", "closed"}

-----------------------------------------------------------------------------
(* The RwLock.  A writer excludes readers; std leaves open whether a waiting *)
(* writer also holds off new readers, so a reader may or may not get in      *)
(* while the compile thread waits in write().                                *)

WriterWaiting == compile = "publish"

\* Guard of write(): nobody holds a read guard.
CanWrite == guards = {}

AcquireRead(t) == guards' = guards \cup {t}
ReleaseRead(t) == guards' = guards \ {t}

-----------------------------------------------------------------------------
DriverInit ==
  /\ module = None
  /\ functions = 0
  /\ guards = {}
  /\ compileQ = 1      \* main sends the first request before it spawns the thread
  /\ runQ = 0
  /\ gui = "frame"
  /\ compile = "recv"
  /\ run = "recv"
  /\ built = None
  /\ exe = None
  /\ onDisk \in BOOLEAN
  /\ launched = None
  /\ selected = None
  /\ clicks = 0

-----------------------------------------------------------------------------
(* The GUI thread: one iteration of run_loop is one frame.                   *)

\* The user clicks a button, or none, in this frame.
BeginFrame ==
  /\ gui = "frame"
  /\ \/ gui' = "try_read" /\ UNCHANGED clicks
     \/ /\ clicks < MaxClicks
        /\ gui' \in {"send_compile", "send_run"}
        /\ clicks' = clicks + 1
  /\ UNCHANGED <<locked, guards, compileQ, runQ, compile, run, built, disk, launched, selected>>

\* compile_sender.send(()).unwrap(): blocks while the channel is full and
\* panics once the receiver is gone.
SendCompile ==
  /\ gui = "send_compile"
  /\ \/ /\ compile = "dead"
        /\ gui' = "send_panic"
        /\ UNCHANGED compileQ
     \/ /\ compile # "dead"
        /\ compileQ < ChannelCap
        /\ compileQ' = compileQ + 1
        /\ gui' = "try_read"
  /\ UNCHANGED <<locked, guards, runQ, compile, run, built, disk, launched, selected, clicks>>

SendRun ==
  /\ gui = "send_run"
  /\ \/ /\ run = "dead"
        /\ gui' = "send_panic"
        /\ UNCHANGED runQ
     \/ /\ run # "dead"
        /\ runQ < ChannelCap
        /\ runQ' = runQ + 1
        /\ gui' = "try_read"
  /\ UNCHANGED <<locked, guards, compileQ, compile, run, built, disk, launched, selected, clicks>>

\* try_read: the frame is skipped when the lock is not available or holds None.
TryRead ==
  /\ gui = "try_read"
  /\ \/ /\ module # None
        /\ AcquireRead("gui")
        /\ gui' = "render"
     \/ /\ module = None \/ WriterWaiting
        /\ gui' = "frame"
        /\ UNCHANGED guards
  /\ UNCHANGED <<locked, compileQ, runQ, compile, run, built, disk, launched, selected, clicks>>

\* The list view keeps the previous selection, clears it, or returns the item
\* the user clicked on; get_function indexes the functions of the module with it.
Render ==
  /\ gui = "render"
  /\ \E s \in {selected, None} \cup 1..functions :
       /\ selected' = s
       /\ gui' = IF s > functions THEN "index_panic" ELSE "frame"
  /\ ReleaseRead("gui")
  /\ UNCHANGED <<locked, compileQ, runQ, compile, run, built, disk, launched, clicks>>

\* window_should_close: run_loop returns, main returns, the process exits.
CloseWindow ==
  /\ gui = "frame"
  /\ gui' = "closed"
  /\ UNCHANGED <<locked, guards, compileQ, runQ, compile, run, built, disk, launched, selected, clicks>>

-----------------------------------------------------------------------------
(* The compile thread.                                                       *)

CompileRecv ==
  /\ Alive
  /\ compile = "recv"
  /\ compileQ > 0
  /\ compileQ' = compileQ - 1
  /\ built' = built + 1
  /\ compile' = "typing"
  /\ UNCHANGED <<locked, guards, runQ, gui, run, disk, launched, selected, clicks>>

\* compile_module: a parse or type error makes the thread return, which
\* drops the receiver; a panic of the typer has the same effect.
CompileModule ==
  /\ Alive
  /\ compile = "typing"
  /\ compile' \in {"publish", "dead"}
  /\ UNCHANGED <<locked, guards, compileQ, runQ, gui, run, built, disk, launched, selected, clicks>>

\* write().unwrap().replace(module): the write guard lives for this statement.
Publish ==
  /\ Alive
  /\ compile = "publish"
  /\ CanWrite
  /\ module' = built
  /\ functions' \in 1..MaxFunctions
  /\ compile' = "relock"
  /\ UNCHANGED <<guards, compileQ, runQ, gui, run, built, disk, launched, selected, clicks>>

\* read().unwrap(): the guard lives until the end of the loop body.
Relock ==
  /\ Alive
  /\ compile = "relock"
  /\ AcquireRead("compile")
  /\ compile' = "codegen"
  /\ UNCHANGED <<locked, compileQ, runQ, gui, run, built, disk, launched, selected, clicks>>

\* codegen_module up to the call of clang; an error makes the thread return.
Codegen ==
  /\ Alive
  /\ compile = "codegen"
  /\ \/ compile' = "link" /\ UNCHANGED guards
     \/ compile' = "dead" /\ ReleaseRead("compile")
  /\ UNCHANGED <<locked, compileQ, runQ, gui, run, built, disk, launched, selected, clicks>>

\* Fault: the thread goes on to the next request when clang fails.
Link_IgnoresFailure ==
  /\ Alive
  /\ compile = "link"
  /\ exe' \in {exe, module}
  /\ onDisk' \in {onDisk, TRUE}
  /\ compile' = "recv"
  /\ ReleaseRead("compile")
  /\ UNCHANGED <<locked, compileQ, runQ, gui, run, built, launched, selected, clicks>>

\* Fault: the read guard outlives the loop body.
Link_KeepsGuard ==
  /\ Alive
  /\ compile = "link"
  /\ \/ exe' = module /\ onDisk' = TRUE /\ compile' = "recv"
     \/ UNCHANGED disk /\ compile' = "dead"
  /\ UNCHANGED <<locked, guards, compileQ, runQ, gui, run, built, launched, selected, clicks>>

\* write_executable: clang replaces the executable, or fails and leaves it.
Link ==
  /\ Alive
  /\ compile = "link"
  /\ \/ exe' = module /\ onDisk' = TRUE /\ compile' = "recv"
     \/ UNCHANGED disk /\ compile' = "dead"
  /\ ReleaseRead("compile")
  /\ UNCHANGED <<locked, compileQ, runQ, gui, run, built, launched, selected, clicks>>

-----------------------------------------------------------------------------
(* The run thread.                                                           *)

RunRecv ==
  /\ Alive
  /\ run = "recv"
  /\ runQ > 0
  /\ runQ' = runQ - 1
  /\ run' = "lock"
  /\ UNCHANGED <<locked, guards, compileQ, gui, compile, built, disk, launched, selected, clicks>>

RunLock ==
  /\ Alive
  /\ run = "lock"
  /\ AcquireRead("run")
  /\ run' = "check"
  /\ UNCHANGED <<locked, compileQ, runQ, gui, compile, built, disk, launched, selected, clicks>>

\* Fault: the read guard is dropped before the child is waited for.
RunStart_DropsGuard ==
  /\ Alive
  /\ run = "check"
  /\ ReleaseRead("run")
  /\ \/ module = None /\ run' = "recv" /\ UNCHANGED launched
     \/ module # None /\ ~onDisk /\ run' = "dead" /\ UNCHANGED launched
     \/ module # None /\ onDisk /\ run' = "child" /\ launched' = exe
  /\ UNCHANGED <<locked, compileQ, runQ, gui, compile, built, disk, selected, clicks>>

\* Without a module the request is dropped; with one, run_compiled_program
\* starts the executable, and status().unwrap() panics when there is none.
RunStart ==
  /\ Alive
  /\ run = "check"
  /\ \/ /\ module = None
        /\ run' = "recv"
        /\ ReleaseRead("run")
        /\ UNCHANGED launched
     \/ /\ module # None /\ ~onDisk
        /\ run' = "dead"
        /\ ReleaseRead("run")
        /\ UNCHANGED launched
     \/ /\ module # None /\ onDisk
        /\ run' = "child"
        /\ launched' = exe
        /\ UNCHANGED guards
  /\ UNCHANGED <<locked, compileQ, runQ, gui, compile, built, disk, selected, clicks>>

\* The child process ends; the guard is dropped at the end of the loop body.
ChildExit ==
  /\ Alive
  /\ run = "child"
  /\ run' = "recv"
  /\ ReleaseRead("run")
  /\ UNCHANGED <<locked, compileQ, runQ, gui, compile, built, disk, launched, selected, clicks>>

-----------------------------------------------------------------------------
\* After the process has exited nothing happens any more.
Exited == ~Alive /\ UNCHANGED driverVars

GuiNext == BeginFrame \/ SendCompile \/ SendRun \/ TryRead \/ Render \/ CloseWindow
CompileNext == CompileRecv \/ CompileModule \/ Publish \/ Relock \/ Codegen \/ Link
RunNext == RunRecv \/ RunLock \/ RunStart \/ ChildExit

DriverNext == GuiNext \/ CompileNext \/ RunNext \/ Exited

DriverSpec == DriverInit /\ [][DriverNext]_driverVars

(* Every thread that can run is scheduled, the window is redrawn as long as  *)
(* it is open, and the programs the user starts terminate.  Publish needs    *)
(* strong fairness: other threads hold read guards again and again, and the  *)
(* lock of std queues a writer.  The user's clicks and the closing of the    *)
(* window are not fair.                                                      *)
Fairness ==
  /\ WF_driverVars(BeginFrame) /\ WF_driverVars(SendCompile) /\ WF_driverVars(SendRun)
  /\ WF_driverVars(TryRead) /\ WF_driverVars(Render)
  /\ WF_driverVars(CompileRecv) /\ WF_driverVars(CompileModule) /\ SF_driverVars(Publish)
  /\ WF_driverVars(Relock) /\ WF_driverVars(Codegen) /\ WF_driverVars(Link)
  /\ WF_driverVars(RunRecv) /\ WF_driverVars(RunLock) /\ WF_driverVars(RunStart)
  /\ WF_driverVars(ChildExit)

FairDriverSpec == DriverSpec /\ Fairness

-----------------------------------------------------------------------------
(* Properties.                                                               *)

DriverTypeOK ==
  /\ module \in Nat
  /\ functions \in 0..MaxFunctions
  /\ guards \subseteq Threads
  /\ compileQ \in 0..ChannelCap
  /\ runQ \in 0..ChannelCap
  /\ gui \in GuiStates
  /\ compile \in CompileStates
  /\ run \in RunStates
  /\ built \in Nat
  /\ exe \in Nat
  /\ onDisk \in BOOLEAN
  /\ launched \in Nat
  /\ selected \in 0..MaxFunctions
  /\ clicks \in 0..MaxClicks

\* Control states and guards agree: a thread holds its read guard exactly in
\* the states in which the code has the guard in scope.
GuardsInScope ==
  /\ "gui" \in guards <=> gui = "render"
  /\ "compile" \in guards <=> compile \in {"codegen", "link"}
  /\ "run" \in guards <=> run \in {"check", "child"}

\* How far the published module is ahead of the executable in each state of
\* the compile thread, and which version the thread has in hand.
VersionsInStep ==
  /\ compile = "recv" => built = module /\ exe = module
  /\ compile \in {"typing", "publish"} => built = module + 1 /\ exe = module
  /\ compile \in {"relock", "codegen", "link"} => built = module /\ module = exe + 1
  /\ compile = "dead" => exe <= module /\ module <= exe + 1

\* When the compile thread waits for the next request, the executable on disk
\* is the one of the module in the lock: no request leaves them apart.
ExecutableIsCurrent == compile = "recv" => exe = module

\* A program the GUI runs is the one of the module it shows or of the module
\* before: the guard that the run thread holds keeps newer modules out until
\* the child exits.
ChildAtMostOneBehind ==
  run = "child" => launched <= module /\ module <= launched + 1

\* Every compile request is served unless the thread or the process ends.
CompileRequestsServed ==
  <>[](\/ ~Alive
      \/ compile = "dead"
      \/ (compile = "recv" /\ compileQ = 0))

\* The GUI unwraps the result of send: it expects a live receiver.
SendSucceeds == gui # "send_panic"

\* The run thread unwraps the exit status: it expects that the executable of
\* the module it sees can be started.
RunThreadSurvives == run # "dead"
=============================================================================
