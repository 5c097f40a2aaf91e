-------------------------- MODULE RemoteConverter --------------------------
(***************************************************************************)
(* The converter that works on another host (convert/remote.py) inside the *)
(* child of IsolatedProcess: its phases, each an ssh or scp client, and    *)
(* what they leave on the host.  A child whose backend works here has no   *)
(* such phases.                                                            *)
(*                                                                         *)
(* A command may be carried out on the host although its connection was    *)
(* lost or its client killed; the shell of execute has a terminal, which   *)
(* is hung up then.                                                        *)
(***************************************************************************)
EXTENDS IsolatedProcess

CONSTANT Backends  \* "here": marker and pdfium, "there": the remote converter

ASSUME BackendsKnown == Backends \subseteq {"here", "there"}

VARIABLES
  backend,
  phase,     \* of RemoteConverter.convert
  completed, \* execution_completed
  verdict,   \* what convert will return
  late,      \* its deadline has passed
  cmds,      \* commands sent that the host has not carried out
  dir,       \* run_dir: absent, made, with the PDF, with the output
  shell,     \* the script of execute
  worker,    \* what it has set going
  pidfile,
  untidy,    \* history: the client of prepare, terminate or cleanup failed, or
           \* a script ended by itself that had lost its client
  unnamed,   \* history: hung up before the worker's pid was known
  crashed    \* history: the child ended by itself without an answer

childVars == <<backend, phase, completed, verdict, late>>

hostVars == <<dir, shell, worker, pidfile>>

history == <<untidy, unnamed, crashed>>

remoteVars == <<childVars, cmds, hostVars, history>>

vars == <<procVars, remoteVars>>

RemoteInit ==
  /\ Init
  /\ backend \in Backends
  /\ phase = "prepare" /\ completed = FALSE /\ verdict = "refusal" /\ late = FALSE
  /\ cmds = {} /\ dir = "absent" /\ shell = "none" /\ worker = "none" /\ pidfile = FALSE
  /\ untidy = FALSE /\ unnamed = FALSE /\ crashed = FALSE

-----------------------------------------------------------------------------
(* The child: phases under one deadline, then the finally block *)

There == backend = "there" /\ child = "running"

Working == phase \in {"prepare", "upload", "execute", "download"}

\* Where the end of the work leads, good or bad: terminate first, unless the
\* execution has come to its end.
Finally(done) == IF done THEN "cleanup" ELSE "terminate"

NextPhase ==
  CASE phase = "prepare" -> "upload"
    [] phase = "upload" -> "execute"
    [] phase = "terminate" -> "cleanup"
    [] OTHER -> "answer"

\* _remaining(deadline) or _bounded_cleanup_timeout, and Popen.
Begin ==
  /\ There /\ phase # "answer" /\ ~late
  /\ HelperStarts
  /\ cmds' = cmds \cup {phase}
  /\ UNCHANGED <<childVars, hostVars, history>>

\* A phase that would begin after the deadline: RemoteTransportTimeout while
\* working, a cleanup that is left out in the finally block.
TooLate ==
  /\ There /\ ~helper /\ late /\ phase # "answer"
  /\ phase' = IF Working THEN Finally(completed) ELSE NextPhase
  /\ UNCHANGED <<procVars, backend, completed, verdict, late, cmds, hostVars, history>>

\* A client comes back with status 0: its command was carried out.
Succeeds ==
  /\ There /\ phase \in {"prepare", "upload", "terminate", "cleanup"} \ cmds
  /\ HelperEnds
  /\ phase' = NextPhase
  /\ UNCHANGED <<backend, completed, verdict, late, cmds, hostVars, history>>

\* Mutant: an execution that failed ends the attempt.
ExecutedAtOnce ==
  /\ There /\ phase = "execute" /\ shell = "ended"
  /\ HelperEnds
  /\ completed' = TRUE
  /\ phase' = IF worker = "done" THEN "download" ELSE "answer"
  /\ UNCHANGED <<backend, verdict, late, cmds, hostVars, history>>

\* ssh returns the status of the script, which is that of the worker.
Executed ==
  /\ There /\ phase = "execute" /\ shell = "ended"
  /\ HelperEnds
  /\ completed' = TRUE
  /\ phase' = IF worker = "done" THEN "download" ELSE Finally(TRUE)
  /\ UNCHANGED <<backend, verdict, late, cmds, hostVars, history>>

\* The output is copied to a directory of its own, looked through, and copied
\* to the staging directory.
Downloaded ==
  /\ There /\ phase = "download" /\ helper
  /\ helper' = FALSE /\ cmds' = cmds \ {"download"}
  /\ \/ dir = "output" /\ staging' = "complete" /\ verdict' = "result"
     \/ staging' \in {staging, "partial"} /\ UNCHANGED verdict
  /\ phase' = Finally(completed)
  /\ UNCHANGED <<parent, child, pipe, got, fate, outcome, token, expired, ungrouped,
                 backend, completed, late, hostVars, history>>

\* Status 255, a command that failed, or the client's own timeout, which kills
\* it.  Errors in the finally block are suppressed.
Lost ==
  /\ There
  /\ HelperEnds
  /\ phase' = IF Working THEN Finally(completed) ELSE NextPhase
  /\ untidy' = (untidy \/ phase \in {"prepare", "terminate", "cleanup"})
  /\ UNCHANGED <<backend, completed, verdict, late, cmds, hostVars, unnamed, crashed>>

Answers ==
  /\ There /\ phase = "answer"
  /\ Send(verdict)
  /\ UNCHANGED remoteVars

\* The child's deadline is set after the parent's.
Late ==
  /\ There /\ expired /\ ~late
  /\ late' = TRUE
  /\ UNCHANGED <<procVars, backend, phase, completed, verdict, cmds, hostVars, history>>

\* A client that nobody waits for runs to the end of its command.
OrphanEnds ==
  /\ backend = "there" /\ ~Alive
  /\ phase \notin cmds /\ (phase = "execute" => shell = "ended")
  /\ HelperEnds
  /\ UNCHANGED remoteVars

-----------------------------------------------------------------------------
(* The host *)

\* prepare makes the directory and scp puts the PDF into it, perhaps after the
\* child has given up waiting.
Carried ==
  \/ /\ "prepare" \in cmds /\ cmds' = cmds \ {"prepare"}
     /\ dir' = "made"
     /\ UNCHANGED <<procVars, childVars, shell, worker, pidfile, history>>
  \/ /\ "upload" \in cmds /\ cmds' = cmds \ {"upload"}
     /\ dir' = IF dir = "made" THEN "input" ELSE dir
     /\ UNCHANGED <<procVars, childVars, shell, worker, pidfile, history>>

\* The scripts of terminate and cleanup: only the first looks for a worker.
Swept(cmd) ==
  /\ cmd \in cmds /\ cmds' = cmds \ {cmd}
  /\ worker' = IF cmd = "terminate" /\ pidfile /\ worker = "running" THEN "killed" ELSE worker
  /\ dir' = "absent" /\ pidfile' = FALSE
  /\ UNCHANGED <<procVars, childVars, shell, history>>

\* The connection went before the command came.
Vanishes(cmd) ==
  /\ cmd \in cmds /\ ~(helper /\ phase = cmd)
  /\ cmds' = cmds \ {cmd}
  /\ UNCHANGED <<procVars, childVars, hostVars, history>>

\* The script of execute sets its trap.
StartScript ==
  /\ "execute" \in cmds /\ cmds' = cmds \ {"execute"}
  /\ shell' = "begun"
  /\ UNCHANGED <<procVars, childVars, dir, worker, pidfile, history>>

\* setsid worker &
Fork ==
  /\ shell = "begun"
  /\ shell' = "forked" /\ worker' = "running"
  /\ UNCHANGED <<procVars, childVars, cmds, dir, pidfile, history>>

\* pid=$!
Name ==
  /\ shell = "forked"
  /\ shell' = "named"
  /\ UNCHANGED <<procVars, childVars, cmds, dir, worker, pidfile, history>>

\* printf > worker.pid, where the directory still is.
WritePid ==
  /\ shell = "named"
  /\ shell' = "waiting" /\ pidfile' = (dir # "absent")
  /\ UNCHANGED <<procVars, childVars, cmds, dir, worker, history>>

\* The worker makes the directories it does not find.  With status 0 it has
\* written a manifest, which may say it failed, as it does without a PDF.
WorkerEnds ==
  /\ worker = "running"
  /\ \/ worker' = "failed" /\ dir' \in (IF dir = "absent" THEN {"absent", "made"} ELSE {dir})
     \/ worker' = "done" /\ dir' \in (IF dir = "input" THEN {"input", "output"} ELSE {"made"})
  /\ UNCHANGED <<procVars, childVars, cmds, shell, pidfile, history>>

Watched == helper /\ phase = "execute"

\* wait "$pid" returns, the trap is taken back.
ShellEnds ==
  /\ shell = "waiting" /\ worker # "running"
  /\ shell' = "ended" /\ pidfile' = FALSE
  /\ untidy' = (untidy \/ (~Watched /\ worker # "killed"))
  /\ UNCHANGED <<procVars, childVars, cmds, dir, worker, unnamed, crashed>>

HungUp == shell \in {"begun", "forked", "named", "waiting"} /\ ~Watched

\* Mutant: the trap reads the file and forgets the variable.
HangUpByFile ==
  /\ HungUp
  /\ shell' = "ended"
  /\ worker' = IF pidfile /\ worker = "running" THEN "killed" ELSE worker
  /\ unnamed' = (unnamed \/ shell = "forked")
  /\ dir' = "absent" /\ pidfile' = FALSE
  /\ UNCHANGED <<procVars, childVars, cmds, untidy, crashed>>

\* The terminal of a client that is gone: HUP, and the trap ends the worker by
\* the shell's variable or the file, and removes the directory.
HangUp ==
  /\ HungUp
  /\ shell' = "ended"
  /\ worker' = IF shell # "forked" /\ worker = "running" THEN "killed" ELSE worker
  /\ unnamed' = (unnamed \/ shell = "forked")
  /\ dir' = "absent" /\ pidfile' = FALSE
  /\ UNCHANGED <<procVars, childVars, cmds, untidy, crashed>>

-----------------------------------------------------------------------------
LocalBackend ==
  /\ backend = "here"
  /\ HelperStarts \/ HelperEnds \/ Stage \/ \E message \in Message : Send(message)
  /\ UNCHANGED remoteVars

RemoteBackend ==
  Begin \/ TooLate \/ Succeeds \/ Executed \/ Downloaded \/ Lost \/ Answers \/ Late \/ OrphanEnds

Host ==
  \/ Carried \/ StartScript \/ Fork \/ Name \/ WritePid \/ WorkerEnds \/ ShellEnds \/ HangUp
  \/ \E cmd \in {"terminate", "cleanup"} : Swept(cmd)
  \/ \E cmd \in cmds : Vanishes(cmd)

ChildEnds ==
  \/ (Setsid \/ Exit) /\ UNCHANGED remoteVars
  \/ /\ Crash
     /\ crashed' = (child # "sent")
     /\ UNCHANGED <<childVars, cmds, hostVars, untidy, unnamed>>

Parent == (ParentSteps \/ Cancel \/ Expire) /\ UNCHANGED remoteVars

Next == Parent \/ ChildEnds \/ LocalBackend \/ RemoteBackend \/ Host

Spec == RemoteInit /\ [][Next]_vars

\* The thread goes on, time passes, and sshd hangs up a terminal without client.
FairSpec ==
  /\ Spec
  /\ WF_vars(ParentSteps /\ UNCHANGED remoteVars)
  /\ WF_vars(Expire /\ UNCHANGED remoteVars)
  /\ WF_vars(HangUp)

-----------------------------------------------------------------------------
(* Properties *)

\* A remote attempt that was answered in time leaves no directory on the host,
\* whatever was lost of its upload, execution and download, unless one of the
\* commands that make or remove the directory failed.  A script that lost its
\* client removes it when it is hung up, and has to be hung up before it ends.
DirectoryRemoved ==
  /\ backend = "there" /\ outcome \in {"ok", "refusal"}
  /\ ~late /\ ~untidy /\ ~unnamed
  /\ shell \in {"none", "ended"}
  => dir = "absent"

\* Once an attempt is over, its worker on the host does not run on, whether it
\* was answered, cancelled or timed out, and wherever it was.  Left out are a
\* child that crashed, a child that was not yet leader of its group, and a
\* script that was hung up between the fork and the next command.
WorkerStops ==
  parent = "over" ~> worker # "running" \/ crashed \/ ungrouped \/ unnamed
=============================================================================
