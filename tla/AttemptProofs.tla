--------------------------- MODULE AttemptProofs ---------------------------
(***************************************************************************)
(* Theorems about RemoteConverter: what the runner hands over at the end   *)
(* of an attempt, and what is left on the host, whatever the backend, its  *)
(* clients and the host do.                                                *)
(*                                                                         *)
(* The parent alone decides how an attempt ends.  Everybody else only does *)
(* what Works allows, so each clause of the invariant is shown for the     *)
(* parent's steps one by one and for all others at once.                   *)
(***************************************************************************)
EXTENDS RemoteConverter, TLAPS

Places == {"start", "poll", "alive", "token", "clock", "join", "signal", "reap", "over"}

Stages == {"empty", "partial", "complete"}

\* The values the proofs need to tell apart.
Shape ==
  /\ parent \in Places
  /\ child \in {"absent", "spawned", "running", "sent", "dead"}
  /\ helper \in BOOLEAN
  /\ ungrouped \in BOOLEAN
  /\ pipe \in Message \cup {"empty"}
  /\ got \in Message \cup {"empty"}
  /\ fate \in Failure \cup {"none"}
  /\ staging \in Stages
  /\ verdict \in Message

\* The child is there from its start on, and alive until the parent has seen it gone.
Spawned ==
  /\ parent = "start" => child = "absent"
  /\ parent \notin {"start", "over"} => child # "absent"

\* Nobody terminates the tree without a reason.
Reasoned == parent \in {"signal", "reap"} => fate \in Failure

\* An empty pipe that could be read is one whose writer is gone.
Exhausted == parent = "join" /\ got = "empty" => ~Alive /\ pipe = "empty"

\* A group that was there when it was signalled is gone.
Swiped == parent = "reap" /\ ~ungrouped => child = "dead" /\ ~helper

\* The outcome is decided once.
Undecided == parent # "over" => outcome = "none"

Inv ==
  /\ Shape /\ Spawned /\ Reasoned /\ Exhausted /\ Swiped /\ Undecided
  /\ StagingOwned /\ AnswerKept /\ GroupGone

\* What steps of the child, its backend, the host and the clock may do to the
\* attempt: only a child that runs stages files, sends, or starts a process.
Works ==
  /\ UNCHANGED <<parent, got, fate, outcome, ungrouped>>
  /\ child' = child \/ (Alive /\ child' \in {"running", "sent", "dead"})
  /\ helper' \in BOOLEAN
  /\ helper' => helper \/ child = "running"
  /\ staging' = staging \/ (child = "running" /\ staging' \in Stages)
  /\ pipe' = pipe \/ (child = "running" /\ pipe' \in Message)
  /\ verdict' \in Message

-----------------------------------------------------------------------------
(* Before the first step no child is there and nothing is decided. *)
LEMMA InitInv == RemoteInit => Inv
  BY DEF RemoteInit, Init, Inv, Shape, Spawned, Reasoned, Exhausted, Swiped, Undecided, Places,
         Stages, StagingOwned, AnswerKept, GroupGone, Message, Failure, Alive

(* Each step of the backends, of the child's end and of the host is one Works allows. *)
LEMMA OthersWork ==
  ASSUME Shape, ChildEnds \/ LocalBackend \/ RemoteBackend \/ Host
  PROVE  Works
<1> USE DEF Shape, Works, procVars, remoteVars, childVars, hostVars, history
<1>1. CASE ChildEnds
  BY <1>1 DEF ChildEnds, Setsid, Exit, Crash, Alive
<1>2. CASE LocalBackend
  BY <1>2 DEF LocalBackend, HelperStarts, HelperEnds, Stage, Send, Alive, Stages
<1>3. CASE RemoteBackend
  <2>1. CASE Begin
    BY <2>1 DEF Begin, There, HelperStarts
  <2>2. CASE TooLate
    BY <2>2 DEF TooLate
  <2>3. CASE Succeeds \/ Executed \/ Lost \/ OrphanEnds
    BY <2>3 DEF Succeeds, Executed, Lost, OrphanEnds, HelperEnds
  <2>4. CASE Downloaded
    BY <2>4 DEF Downloaded, There, Stages, Message
  <2>5. CASE Answers
    BY <2>5 DEF Answers, There, Send, Alive
  <2>6. CASE Late
    BY <2>6 DEF Late
  <2> QED BY <1>3, <2>1, <2>2, <2>3, <2>4, <2>5, <2>6 DEF RemoteBackend
<1>4. CASE Host
  BY <1>4 DEF Host, Carried, Swept, Vanishes, StartScript, Fork, Name, WritePid, WorkerEnds,
              ShellEnds, HangUp
<1> QED BY <1>1, <1>2, <1>3, <1>4

(* Cancelling a job and the passing of time only show at the parent's next look. *)
LEMMA SignsWork ==
  ASSUME Shape, (Cancel \/ Expire) /\ UNCHANGED remoteVars
  PROVE  Works
  BY DEF Shape, Works, Cancel, Expire, remoteVars, childVars

(* While others work the parent's knowledge stays true: what it has seen gone *)
(* does not come back. *)
LEMMA WorksKeep ==
  ASSUME Inv, Works
  PROVE  Inv'
<1> USE DEF Inv, Works
<1>1. Shape'
  BY DEF Shape, Places, Stages, Message
<1>2. Alive' => Alive
  BY DEF Alive
<1>3. (Spawned /\ Reasoned /\ Undecided)'
  BY DEF Spawned, Reasoned, Undecided, Alive
<1>4. Exhausted'
  BY <1>2 DEF Exhausted, Alive
<1>5. Swiped'
  BY DEF Swiped, Alive
<1>6. StagingOwned'
  BY <1>2 DEF StagingOwned, Alive
<1>7. AnswerKept'
  BY DEF AnswerKept, Undecided, StagingOwned, Alive
<1>8. GroupGone'
  BY DEF GroupGone, StagingOwned, Alive
<1> QED BY <1>1, <1>3, <1>4, <1>5, <1>6, <1>7, <1>8

(* How an attempt may be handed over: with the child gone, and, where the child *)
(* is to have sent nothing, with nothing left of it. *)
LEMMA Handover ==
  ASSUME Inv, NEW kind, kind \in Message \cup Failure \cup {"no_result", "raised"},
         Return(kind), ~Alive', child' \in {"absent", "spawned", "running", "sent", "dead"},
         UNCHANGED <<fate, ungrouped, verdict>>, helper' = helper,
         pipe' \in {pipe, "empty"}, got' \in Message \cup {"empty"},
         kind = "no_result" => pipe' = "empty" /\ got' = "empty",
         kind \in Failure /\ ~ungrouped => ~helper
  PROVE  Inv'
<1> USE DEF Inv, Return
<1>1. parent' = "over"
  OBVIOUS
<1>2. outcome' \in {kind, "ok", "invalid"}
  OBVIOUS
<1>3. Shape'
  BY <1>1 DEF Shape, Places, Stages
<1>4. (Spawned /\ Reasoned /\ Exhausted /\ Swiped /\ Undecided)'
  BY <1>1 DEF Spawned, Reasoned, Exhausted, Swiped, Undecided
<1>5. StagingOwned'
  BY DEF StagingOwned, Message, Failure
<1>6. AnswerKept'
  BY <1>2 DEF AnswerKept
<1>7. GroupGone'
  BY <1>2 DEF GroupGone, Failure
<1> QED BY <1>3, <1>4, <1>5, <1>6, <1>7

(* The parent's looks, its handovers and the end of the tree keep the invariant. *)
LEMMA ParentKeeps ==
  ASSUME Inv, ParentSteps, UNCHANGED remoteVars
  PROVE  Inv'
<1> USE DEF remoteVars, childVars
<1>1. CASE StartProcess
  BY <1>1 DEF StartProcess, Inv, Shape, Spawned, Reasoned, Exhausted, Swiped, Undecided, Places,
              StagingOwned, AnswerKept, GroupGone
<1>2. CASE StartFails
  <2>1. ~Alive' /\ child' = "absent"
    BY <1>2 DEF StartFails, Inv, Spawned, Alive
  <2> QED BY <1>2, <2>1, Handover DEF StartFails, Inv, Shape, Failure, Message
<1>3. CASE Poll
  BY <1>3 DEF Poll, Readable, Inv, Shape, Spawned, Reasoned, Exhausted, Swiped, Undecided, Places,
              StagingOwned, AnswerKept, GroupGone, Alive
<1>4. CASE LookAlive
  <2>1. CASE Alive
    BY <1>4, <2>1 DEF LookAlive, Inv, Shape, Spawned, Reasoned, Exhausted, Swiped, Undecided, Places,
                      StagingOwned, AnswerKept, GroupGone
  <2>2. CASE ~Alive
    <3>1. /\ Answer(pipe) \in Message \cup {"no_result"}
          /\ Answer(pipe) = "no_result" => pipe = "empty"
          /\ Answer(pipe) \notin Failure
      BY DEF Inv, Shape, Answer, Message, Failure
    <3>2. Return(Answer(pipe)) /\ got' = pipe /\ pipe' = "empty" /\ ~Alive'
      BY <1>4, <2>2 DEF LookAlive, Alive
    <3> QED BY <1>4, <2>2, <3>1, <3>2, Handover DEF LookAlive, Inv, Shape
  <2> QED BY <2>1, <2>2
<1>5. CASE LookToken
  BY <1>5 DEF LookToken, Inv, Shape, Spawned, Reasoned, Exhausted, Swiped, Undecided, Places,
              StagingOwned, AnswerKept, GroupGone, Failure
<1>6. CASE LookClock
  BY <1>6 DEF LookClock, Inv, Shape, Spawned, Reasoned, Exhausted, Swiped, Undecided, Places,
              StagingOwned, AnswerKept, GroupGone, Failure
<1>7. CASE Join
  <2>1. /\ Answer(got) \in Message \cup {"no_result"}
        /\ Answer(got) = "no_result" => got = "empty" /\ pipe = "empty"
        /\ Answer(got) \notin Failure
    BY <1>7 DEF Join, Inv, Shape, Exhausted, Answer, Message, Failure
  <2>2. Return(Answer(got)) /\ ~Alive'
    BY <1>7 DEF Join, Alive
  <2> QED BY <1>7, <2>1, <2>2, Handover DEF Join, Inv, Shape
<1>8. CASE JoinTimesOut
  BY <1>8 DEF JoinTimesOut, Inv, Shape, Spawned, Reasoned, Exhausted, Swiped, Undecided, Places,
              StagingOwned, AnswerKept, GroupGone, Failure
<1>9. CASE SignalGroup
  BY <1>9 DEF SignalGroup, Inv, Shape, Spawned, Reasoned, Exhausted, Swiped, Undecided, Places,
              StagingOwned, AnswerKept, GroupGone
<1>10. CASE Reap
  <2>1. fate \in Failure /\ (~ungrouped => ~helper)
    BY <1>10 DEF Reap, Inv, Reasoned, Swiped
  <2>2. ~Alive' /\ child' = "dead"
    BY <1>10 DEF Reap, Alive
  <2>3. fate \notin {"no_result"}
    BY <2>1 DEF Failure
  <2> QED BY <1>10, <2>1, <2>2, <2>3, Handover DEF Reap, Inv, Shape
<1> QED BY <1>1, <1>2, <1>3, <1>4, <1>5, <1>6, <1>7, <1>8, <1>9, <1>10 DEF ParentSteps

(* Every step of an attempt keeps the invariant. *)
LEMMA NextInv == Inv /\ [Next]_vars => Inv'
<1> SUFFICES ASSUME Inv, [Next]_vars
             PROVE  Inv'
  OBVIOUS
<1>1. CASE Parent
  <2>1. CASE ParentSteps
    BY <1>1, <2>1, ParentKeeps DEF Parent
  <2>2. CASE Cancel \/ Expire
    BY <1>1, <2>2, SignsWork, WorksKeep DEF Parent, Inv
  <2> QED BY <1>1, <2>1, <2>2 DEF Parent
<1>2. CASE ChildEnds \/ LocalBackend \/ RemoteBackend \/ Host
  BY <1>2, OthersWork, WorksKeep DEF Inv
<1>3. CASE UNCHANGED vars
  BY <1>3, WorksKeep DEF Inv, Works, Shape, vars, procVars, remoteVars, childVars
<1> QED BY <1>1, <1>2, <1>3 DEF Next

(* The invariant holds throughout. *)
LEMMA Invariant == Spec => []Inv
  BY InitInv, NextInv, PTL DEF Spec

-----------------------------------------------------------------------------
(* Whoever gets the outcome of an attempt, of run_conversion or of             *)
(* run_page_render, has its staging directory to itself: the child is gone,    *)
(* and its files are all there for a success and none for anything else.       *)
THEOREM StagingHandedOver == Spec => []StagingOwned
<1>1. Inv => StagingOwned
  BY DEF Inv
<1> QED BY <1>1, Invariant, PTL

(* _wait_for_child loses no message, wherever the child's exit falls between    *)
(* its looks: no result is reported only where none was sent.                   *)
THEOREM AnswerNotLost == Spec => []AnswerKept
<1>1. Inv => AnswerKept
  BY DEF Inv
<1> QED BY <1>1, Invariant, PTL

(* After a cancellation, a timeout or a child that does not exit, no process   *)
(* the backend has started is left, if its group was there to be signalled.    *)
THEOREM TreeTerminated == Spec => []GroupGone
<1>1. Inv => GroupGone
  BY DEF Inv
<1> QED BY <1>1, Invariant, PTL

-----------------------------------------------------------------------------
(* What is left on the host.  A second invariant follows the directory of the *)
(* run: which commands are behind the child, and who may still make it.       *)

Phases == {"prepare", "upload", "execute", "download", "terminate", "cleanup", "answer"}

\* The script stands where its worker may be running.
Forked == {"forked", "named", "waiting"}

RemoteShape ==
  /\ backend \in {"here", "there"}
  /\ phase \in Phases
  /\ cmds \subseteq Phases
  /\ shell \in Forked \cup {"none", "begun", "ended"}
  /\ worker \in {"none", "running", "killed", "done", "failed"}
  /\ completed \in BOOLEAN /\ late \in BOOLEAN /\ untidy \in BOOLEAN /\ unnamed \in BOOLEAN

\* No phase has passed before the child is leader of its group, nor ever where
\* the backend works here.
NotBegun == child \in {"absent", "spawned"} \/ backend = "here" => phase = "prepare"

Tidy == backend = "there" /\ ~late /\ ~untidy

\* A prepare that came back with status 0 does not make the directory again.
Prepared == Tidy /\ phase # "prepare" => "prepare" \notin cmds

\* execute is sent once, so there is one script.
ExecutedOnce ==
  /\ \/ phase \in {"prepare", "upload"}
     \/ phase = "execute" /\ child = "running" /\ ~helper
     => shell = "none" /\ "execute" \notin cmds
  /\ "execute" \in cmds => shell = "none"

\* A worker that runs has its script, unless it was hung up too early.
Parented ==
  /\ shell \in {"none", "begun"} => worker = "none"
  /\ worker = "running" /\ ~unnamed => shell \in Forked

\* Who kills the worker removes the directory, and nobody makes it again.
KilledClean == Tidy /\ worker = "killed" => dir = "absent"

\* The host has carried out the cleanup.
Cleaned == phase = "answer" \/ (phase = "cleanup" /\ helper /\ "cleanup" \notin cmds)

\* After that only a worker can make the directory, whose script removes it.
CleanedAway == Tidy /\ ~unnamed /\ Cleaned => dir = "absent" \/ shell \in Forked

\* The last thing the child does is to send its answer.
AnsweredLast ==
  backend = "there" /\ (pipe # "empty" \/ got # "empty" \/ outcome \in {"ok", "refusal"})
    => phase = "answer"

HostInv ==
  /\ RemoteShape /\ NotBegun /\ Prepared /\ ExecutedOnce /\ Parented
  /\ KilledClean /\ CleanedAway /\ AnsweredLast

(* Before the first step no phase has begun and the host is as it was. *)
LEMMA InitHostInv == RemoteInit => HostInv
<1> SUFFICES ASSUME RemoteInit PROVE HostInv
  OBVIOUS
<1> USE BackendsKnown DEF RemoteInit, Init
<1>1. RemoteShape
  BY DEF RemoteShape, Phases, Forked
<1>2. NotBegun /\ Prepared /\ Parented
  BY DEF NotBegun, Prepared, Parented
<1>3. ExecutedOnce /\ KilledClean /\ AnsweredLast
  BY DEF ExecutedOnce, KilledClean, AnsweredLast
<1>4. CleanedAway
  BY DEF CleanedAway, Cleaned
<1> QED BY <1>1, <1>2, <1>3, <1>4 DEF HostInv

(* A step that does not touch the phases or the host keeps the invariant if it *)
(* starts no child or client anew, ends a client of a remote backend only with *)
(* the child, and hands on only what was sent. *)
LEMMA ProcessKeepsHost ==
  ASSUME HostInv, UNCHANGED remoteVars,
         child' \in {"absent", "spawned"} => child \in {"absent", "spawned"},
         child' = "running" => child \in {"running", "spawned"},
         backend = "there" /\ helper' => helper,
         backend = "there" /\ helper /\ ~helper' => child' # "running",
         pipe' # "empty" => pipe # "empty" \/ backend = "here" \/ phase = "answer",
         got' # "empty" => got # "empty" \/ pipe # "empty",
         outcome' \in {"ok", "refusal"} =>
           outcome \in {"ok", "refusal"} \/ got # "empty" \/ pipe # "empty"
  PROVE  HostInv'
<1> USE DEF HostInv, remoteVars, childVars, hostVars, history
<1>1. RemoteShape'
  BY DEF RemoteShape
<1>2. NotBegun'
  BY DEF NotBegun
<1>3. Prepared' /\ Parented' /\ KilledClean'
  BY DEF Prepared, Parented, KilledClean, Tidy
<1>4. ExecutedOnce'
  BY DEF ExecutedOnce, NotBegun, RemoteShape
<1>5. CleanedAway'
  BY DEF CleanedAway, Cleaned, Tidy
<1>6. AnsweredLast'
  BY DEF AnsweredLast, RemoteShape
<1> QED BY <1>1, <1>2, <1>3, <1>4, <1>5, <1>6

(* The parent hands on what was sent; the tree it ends does not come back. *)
LEMMA ParentKeepsHost ==
  ASSUME Inv, HostInv, Parent
  PROVE  HostInv'
<1> USE DEF Parent
<1>1. child' \in {"absent", "spawned"} => child \in {"absent", "spawned"}
  BY DEF ParentSteps, StartProcess, StartFails, Poll, LookAlive, LookToken, LookClock, Join,
         JoinTimesOut, SignalGroup, Reap, Cancel, Expire, Inv, Spawned
<1>2. child' = "running" => child = "running" /\ helper' = helper
  BY DEF ParentSteps, StartProcess, StartFails, Poll, LookAlive, LookToken, LookClock, Join,
         JoinTimesOut, SignalGroup, Reap, Cancel, Expire
<1>3. helper' => helper
  BY DEF ParentSteps, StartProcess, StartFails, Poll, LookAlive, LookToken, LookClock, Join,
         JoinTimesOut, SignalGroup, Reap, Cancel, Expire
<1>4. /\ pipe' # "empty" => pipe # "empty"
      /\ got' # "empty" => got # "empty" \/ pipe # "empty"
  BY DEF ParentSteps, StartProcess, StartFails, Poll, LookAlive, LookToken, LookClock, Join,
         JoinTimesOut, SignalGroup, Reap, Cancel, Expire
<1>5. outcome' \in {"ok", "refusal"} =>
        outcome \in {"ok", "refusal"} \/ got # "empty" \/ pipe # "empty"
  <2>1. CASE StartFails
    BY <2>1 DEF StartFails, Return
  <2>2. CASE LookAlive
    BY <2>2 DEF LookAlive, Return, Answer
  <2>3. CASE Join
    BY <2>3 DEF Join, Return, Answer
  <2>4. CASE Reap
    BY <2>4 DEF Reap, Return, Inv, Shape, Failure
  <2>5. CASE StartProcess \/ Poll \/ LookToken \/ LookClock \/ JoinTimesOut \/ SignalGroup \/ Cancel
             \/ Expire
    BY <2>5 DEF StartProcess, Poll, LookToken, LookClock, JoinTimesOut, SignalGroup, Cancel, Expire
  <2> QED BY <2>1, <2>2, <2>3, <2>4, <2>5 DEF ParentSteps
<1> QED BY <1>1, <1>2, <1>3, <1>4, <1>5, ProcessKeepsHost

(* The end of the child, a backend that works here, a client that outlives its *)
(* child, and the answer: none of them touches the host. *)
LEMMA ChildKeepsHost ==
  ASSUME Inv, HostInv, ChildEnds \/ LocalBackend \/ OrphanEnds \/ Answers
  PROVE  HostInv'
<1>1. CASE (Setsid \/ Exit) /\ UNCHANGED remoteVars
  BY <1>1, ProcessKeepsHost DEF Setsid, Exit
<1>2. CASE LocalBackend
  BY <1>2, ProcessKeepsHost DEF LocalBackend, HelperStarts, HelperEnds, Stage, Send
<1>3. CASE OrphanEnds
  <2>1. child # "running"
    BY <1>3 DEF OrphanEnds, Alive
  <2> QED BY <1>3, <2>1, ProcessKeepsHost DEF OrphanEnds, HelperEnds
<1>4. CASE Answers
  BY <1>4, ProcessKeepsHost DEF Answers, There, Send
<1>5. CASE Crash /\ UNCHANGED <<childVars, cmds, hostVars, untidy, unnamed>>
  <2> USE <1>5 DEF Crash, HostInv, childVars, hostVars
  <2>1. RemoteShape' /\ Prepared' /\ Parented' /\ KilledClean'
    BY DEF RemoteShape, Prepared, Parented, KilledClean, Tidy
  <2>2. NotBegun' /\ ExecutedOnce'
    BY DEF NotBegun, ExecutedOnce
  <2>3. CleanedAway' /\ AnsweredLast'
    BY DEF CleanedAway, Cleaned, Tidy, AnsweredLast
  <2> QED BY <2>1, <2>2, <2>3
<1> QED BY <1>1, <1>2, <1>3, <1>4, <1>5 DEF ChildEnds

(* The phases of convert keep the invariant: one that comes back with status 0 *)
(* has been carried out, and one that does not is either made good by the     *)
(* finally block or counts as untidy. *)
LEMMA PhasesKeepHost ==
  ASSUME Inv, HostInv,
         Begin \/ TooLate \/ Succeeds \/ Executed \/ Downloaded \/ Lost \/ Late
  PROVE  HostInv'
<1> USE DEF HostInv
<1>1. CASE Begin
  <2> USE <1>1 DEF Begin, There, HelperStarts, childVars, hostVars, history
  <2>1. RemoteShape' /\ NotBegun' /\ Prepared'
    BY DEF RemoteShape, NotBegun, Prepared, Tidy
  <2>2. Parented' /\ KilledClean' /\ AnsweredLast'
    BY DEF Parented, KilledClean, Tidy, AnsweredLast
  <2>3. ExecutedOnce'
    BY DEF ExecutedOnce
  <2>4. CleanedAway'
    BY DEF CleanedAway, Cleaned, Tidy
  <2> QED BY <2>1, <2>2, <2>3, <2>4
<1>2. CASE TooLate
  <2> USE <1>2 DEF TooLate, There, procVars, hostVars, history, NextPhase, Finally, Working
  <2>1. RemoteShape'
    BY DEF RemoteShape, Phases
  <2>2. NotBegun' /\ Parented'
    BY DEF NotBegun, Parented
  <2>3. Prepared' /\ KilledClean' /\ CleanedAway'
    BY DEF Prepared, KilledClean, CleanedAway, Tidy
  <2>4. ExecutedOnce'
    BY DEF ExecutedOnce, RemoteShape, Phases
  <2>5. AnsweredLast'
    BY DEF AnsweredLast
  <2> QED BY <2>1, <2>2, <2>3, <2>4, <2>5
<1>3. CASE Succeeds
  <2> USE <1>3 DEF Succeeds, There, HelperEnds, hostVars, history, NextPhase
  <2>1. RemoteShape' /\ NotBegun'
    BY DEF RemoteShape, Phases, NotBegun
  <2>2. Prepared' /\ Parented' /\ KilledClean'
    BY DEF Prepared, Parented, KilledClean, Tidy
  <2>3. ExecutedOnce'
    BY DEF ExecutedOnce
  <2>4. CleanedAway'
    BY DEF CleanedAway, Cleaned, Tidy
  <2>5. AnsweredLast'
    BY DEF AnsweredLast
  <2> QED BY <2>1, <2>2, <2>3, <2>4, <2>5
<1>4. CASE Executed \/ Downloaded
  <2>1. /\ phase \in {"execute", "download"} /\ phase' \in {"download", "cleanup", "terminate"}
        /\ child' = "running" /\ child = "running" /\ ~helper'
        /\ completed' \in BOOLEAN /\ cmds' \subseteq cmds
        /\ UNCHANGED <<pipe, got, outcome, backend, late, hostVars, history>>
    BY <1>4 DEF Executed, Downloaded, There, HelperEnds, Finally, RemoteShape
  <2> USE <2>1 DEF hostVars, history
  <2>2. RemoteShape' /\ NotBegun'
    BY DEF RemoteShape, Phases, NotBegun
  <2>3. Prepared' /\ Parented' /\ KilledClean'
    BY DEF Prepared, Parented, KilledClean, Tidy
  <2>4. ExecutedOnce' /\ AnsweredLast'
    BY DEF ExecutedOnce, AnsweredLast
  <2>5. CleanedAway'
    BY DEF CleanedAway, Cleaned, Tidy
  <2> QED BY <2>2, <2>3, <2>4, <2>5
<1>5. CASE Lost
  <2> USE <1>5 DEF Lost, There, HelperEnds, hostVars, NextPhase, Finally, Working
  <2>1. RemoteShape' /\ NotBegun'
    BY DEF RemoteShape, Phases, NotBegun
  <2>2. Prepared' /\ Parented' /\ KilledClean'
    BY DEF Prepared, Parented, KilledClean, Tidy
  <2>3. ExecutedOnce'
    BY DEF ExecutedOnce, RemoteShape, Phases
  <2>4. CleanedAway'
    BY DEF CleanedAway, Cleaned, Tidy, RemoteShape, Phases
  <2>5. AnsweredLast'
    BY DEF AnsweredLast, RemoteShape, Phases
  <2> QED BY <2>1, <2>2, <2>3, <2>4, <2>5
<1>6. CASE Late
  <2> USE <1>6 DEF Late, procVars, hostVars, history
  <2>1. RemoteShape' /\ NotBegun' /\ Parented' /\ ExecutedOnce' /\ AnsweredLast'
    BY DEF RemoteShape, NotBegun, Parented, ExecutedOnce, AnsweredLast
  <2>2. Prepared' /\ KilledClean' /\ CleanedAway'
    BY DEF Prepared, KilledClean, CleanedAway, Tidy
  <2> QED BY <2>1, <2>2
<1> QED BY <1>1, <1>2, <1>3, <1>4, <1>5, <1>6

(* The host keeps the invariant, whenever it carries out a command and whoever *)
(* still waits for it. *)
LEMMA HostKeepsHost ==
  ASSUME Inv, HostInv, Host
  PROVE  HostInv'
<1> USE DEF HostInv
<1>0. UNCHANGED <<procVars, childVars>> /\ cmds' \subseteq cmds
  BY DEF Host, Carried, Swept, Vanishes, StartScript, Fork, Name, WritePid, WorkerEnds, ShellEnds,
         HangUp
<1> USE <1>0 DEF procVars, childVars, hostVars, history
<1>1. NotBegun' /\ AnsweredLast'
  BY DEF NotBegun, AnsweredLast
<1>2. RemoteShape'
  <2>1. /\ backend' \in {"here", "there"} /\ phase' \in Phases /\ cmds' \subseteq Phases
        /\ completed' \in BOOLEAN /\ late' \in BOOLEAN
    BY DEF RemoteShape
  <2>2. shell' \in Forked \cup {"none", "begun", "ended"}
    BY DEF Host, Carried, Swept, Vanishes, StartScript, Fork, Name, WritePid, WorkerEnds, ShellEnds,
           HangUp, RemoteShape, Forked
  <2>3. worker' \in {"none", "running", "killed", "done", "failed"}
    BY DEF Host, Carried, Swept, Vanishes, StartScript, Fork, Name, WritePid, WorkerEnds, ShellEnds,
           HangUp, RemoteShape
  <2>4. untidy' \in BOOLEAN /\ unnamed' \in BOOLEAN
    BY DEF Host, Carried, Swept, Vanishes, StartScript, Fork, Name, WritePid, WorkerEnds, ShellEnds,
           HangUp, RemoteShape
  <2> QED BY <2>1, <2>2, <2>3, <2>4 DEF RemoteShape
<1>3. untidy => untidy'
  BY DEF Host, Carried, Swept, Vanishes, StartScript, Fork, Name, WritePid, WorkerEnds, ShellEnds,
         HangUp
<1>4. Prepared'
  BY <1>3, <1>2 DEF Prepared, Tidy, RemoteShape
<1>5. ExecutedOnce'
  BY DEF Host, Carried, Swept, Vanishes, StartScript, Fork, Name, WritePid, WorkerEnds, ShellEnds,
         HangUp, HungUp, ExecutedOnce
<1>6. Parented'
  BY DEF Host, Carried, Swept, Vanishes, StartScript, Fork, Name, WritePid, WorkerEnds, ShellEnds,
         HangUp, HungUp, Parented, ExecutedOnce, Forked
<1>7. KilledClean'
  <2>1. CASE Carried
    BY <2>1 DEF Carried, KilledClean, Tidy, Prepared, Parented, ExecutedOnce
  <2>2. CASE \E cmd \in {"terminate", "cleanup"} : Swept(cmd)
    BY <2>2 DEF Swept, KilledClean
  <2>3. CASE StartScript \/ Fork \/ Name \/ WritePid \/ \E cmd \in cmds : Vanishes(cmd)
    BY <2>3 DEF StartScript, Fork, Name, WritePid, Vanishes, KilledClean, Tidy
  <2>4. CASE WorkerEnds \/ HangUp
    BY <2>4 DEF WorkerEnds, HangUp, KilledClean, Tidy
  <2>5. CASE ShellEnds
    BY <2>5, <1>2 DEF ShellEnds, KilledClean, Tidy, RemoteShape
  <2> QED BY <2>1, <2>2, <2>3, <2>4, <2>5 DEF Host
<1>8. CleanedAway'
  <2>1. CASE Carried
    BY <2>1 DEF Carried, CleanedAway, Cleaned, Tidy, Prepared
  <2>2. CASE \E cmd \in {"terminate", "cleanup"} : Swept(cmd)
    BY <2>2 DEF Swept, CleanedAway
  <2>3. CASE \E cmd \in cmds : Vanishes(cmd)
    BY <2>3 DEF Vanishes, CleanedAway, Cleaned, Tidy
  <2>4. CASE StartScript \/ Fork \/ Name \/ WritePid
    BY <2>4 DEF StartScript, Fork, Name, WritePid, CleanedAway, Cleaned, Tidy, ExecutedOnce, Forked
  <2>5. CASE WorkerEnds
    BY <2>5 DEF WorkerEnds, CleanedAway, Cleaned, Tidy, Parented
  <2>6. CASE ShellEnds
    <3>1. ~untidy' => ~untidy /\ (Watched \/ worker = "killed")
      BY <2>6 DEF ShellEnds, RemoteShape
    <3>2. UNCHANGED <<dir, cmds, unnamed>>
      BY <2>6 DEF ShellEnds
    <3>3. Cleaned' => Cleaned /\ ~Watched
      BY <3>2 DEF Cleaned, Watched
    <3> QED BY <3>1, <3>2, <3>3 DEF CleanedAway, Tidy, KilledClean
  <2>7. CASE HangUp
    BY <2>7 DEF HangUp, CleanedAway
  <2> QED BY <2>1, <2>2, <2>3, <2>4, <2>5, <2>6, <2>7 DEF Host
<1> QED BY <1>1, <1>2, <1>4, <1>5, <1>6, <1>7, <1>8

(* Every step of an attempt keeps both invariants. *)
LEMMA NextHostInv == Inv /\ HostInv /\ [Next]_vars => HostInv'
<1> SUFFICES ASSUME Inv, HostInv, [Next]_vars
             PROVE  HostInv'
  OBVIOUS
<1>1. CASE UNCHANGED vars
  BY <1>1, ProcessKeepsHost DEF vars, procVars
<1>2. CASE ChildEnds \/ LocalBackend \/ RemoteBackend
  BY <1>2, ChildKeepsHost, PhasesKeepHost DEF RemoteBackend
<1> QED BY <1>1, <1>2, ParentKeepsHost, HostKeepsHost DEF Next

(* The second invariant holds throughout. *)
LEMMA HostInvariant == Spec => []HostInv
  BY InitHostInv, NextHostInv, Invariant, PTL DEF Spec

(* The finally block of RemoteConverter.convert: an attempt answered in time    *)
(* leaves no directory on the host, whatever was lost of its upload, execution  *)
(* and download and however late the host carries it out, unless a command that *)
(* makes or removes the directory failed, or its script still runs, ended by    *)
(* itself, or was hung up too early.                                            *)
THEOREM RunDirectoryRemoved == Spec => []DirectoryRemoved
<1>1. HostInv => DirectoryRemoved
  BY DEF HostInv, AnsweredLast, CleanedAway, Cleaned, Tidy, Forked, DirectoryRemoved
<1> QED BY <1>1, HostInvariant, PTL
=============================================================================
