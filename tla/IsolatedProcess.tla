-------------------------- MODULE IsolatedProcess --------------------------
(***************************************************************************)
(* One conversion or render attempt in a child process of its own          *)
(* (_isolated_process.py) and what the runners make of its outcome         *)
(* (convert/runner.py, pages/runner.py).  The parent is a thread of the    *)
(* application in _wait_for_child; the child runs a backend, which may     *)
(* start a further process (the ssh client of convert/remote.py) and wait  *)
(* for it.                                                                 *)
(*                                                                         *)
(* Time is what may happen: a wait with a timeout ends when it pleases, the *)
(* deadline passes at any moment.  SIGKILL kills.                          *)
(***************************************************************************)

VARIABLES
  parent,   \* where run_in_fresh_process stands
  child,    \* the spawned process; "spawned" until setsid
  helper,   \* a process of the backend is running
  pipe,     \* the message sent and not received
  got,      \* the message received
  fate,     \* the failure for which the tree is terminated
  staging,  \* the staging directory of the attempt
  outcome,  \* what run_conversion or run_page_render returned
  token,    \* the job's token is set
  expired,  \* timeout_seconds have passed
  ungrouped \* history: the group was signalled before it was there

procVars == <<parent, child, helper, pipe, got, fate, staging, outcome, token, expired, ungrouped>>

Message == {"result", "refusal", "error"}

Failure == {"cancelled", "timed_out", "did_not_exit"}

Init ==
  /\ parent = "start" /\ child = "absent" /\ helper = FALSE
  /\ pipe = "empty" /\ got = "empty" /\ fate = "none"
  /\ staging = "empty" /\ outcome = "none"
  /\ token = FALSE /\ expired = FALSE /\ ungrouped = FALSE

Alive == child \in {"spawned", "running", "sent"}

-----------------------------------------------------------------------------
(* The parent *)

\* What the runner returns: it looks at the staged files of a result, and empties
\* the staging directory for anything but a success.
Return(kind) ==
  LET end == IF kind # "result" THEN kind
             ELSE IF staging = "complete" THEN "ok" ELSE "invalid" IN
    /\ parent' = "over"
    /\ outcome' = end
    /\ staging' = IF end = "ok" THEN staging ELSE "empty"

\* What run_in_fresh_process makes of a message, if one came.
Answer(message) == IF message = "empty" THEN "no_result" ELSE message

StartProcess ==
  /\ parent = "start"
  /\ parent' = "poll" /\ child' = "spawned"
  /\ UNCHANGED <<helper, pipe, got, fate, staging, outcome, token, expired, ungrouped>>

StartFails ==
  /\ parent = "start"
  /\ Return("raised")
  /\ UNCHANGED <<child, helper, pipe, got, fate, token, expired, ungrouped>>

\* A pipe is readable at its end as well, when the child is gone.
Readable == pipe # "empty" \/ ~Alive

Poll ==
  /\ parent = "poll"
  /\ IF Readable
     THEN parent' = "join" /\ got' = pipe /\ pipe' = "empty"
     ELSE parent' = "alive" /\ UNCHANGED <<got, pipe>>
  /\ UNCHANGED <<child, helper, fate, staging, outcome, token, expired, ungrouped>>

\* Mutant: a child that is gone has left no message.
LookAliveOnly ==
  /\ parent = "alive"
  /\ IF Alive
     THEN parent' = "token" /\ UNCHANGED <<got, pipe, staging, outcome>>
     ELSE Return("no_result") /\ UNCHANGED <<got, pipe>>
  /\ UNCHANGED <<child, helper, fate, token, expired, ungrouped>>

\* A child that is gone may have sent its message since the pipe was polled.
LookAlive ==
  /\ parent = "alive"
  /\ IF Alive
     THEN parent' = "token" /\ UNCHANGED <<got, pipe, staging, outcome>>
     ELSE got' = pipe /\ pipe' = "empty" /\ Return(Answer(pipe))
  /\ UNCHANGED <<child, helper, fate, token, expired, ungrouped>>

LookToken ==
  /\ parent = "token"
  /\ IF token
     THEN parent' = "signal" /\ fate' = "cancelled"
     ELSE parent' = "clock" /\ UNCHANGED fate
  /\ UNCHANGED <<child, helper, pipe, got, staging, outcome, token, expired, ungrouped>>

\* Mutant: the deadline is not looked at while the child lives.
LookClockNever ==
  /\ parent = "clock"
  /\ parent' = "poll"
  /\ UNCHANGED <<child, helper, pipe, got, fate, staging, outcome, token, expired, ungrouped>>

LookClock ==
  /\ parent = "clock"
  /\ IF expired
     THEN parent' = "signal" /\ fate' = "timed_out"
     ELSE parent' = "poll" /\ UNCHANGED fate
  /\ UNCHANGED <<child, helper, pipe, got, staging, outcome, token, expired, ungrouped>>

\* process.join(timeout=1) after a message.
Join ==
  /\ parent = "join" /\ ~Alive
  /\ Return(Answer(got))
  /\ UNCHANGED <<child, helper, pipe, got, fate, token, expired, ungrouped>>

JoinTimesOut ==
  /\ parent = "join" /\ Alive
  /\ parent' = "signal" /\ fate' = "did_not_exit"
  /\ UNCHANGED <<child, helper, pipe, got, staging, outcome, token, expired, ungrouped>>

\* Mutant: the child is killed alone.
SignalChild ==
  /\ parent = "signal"
  /\ parent' = "reap"
  /\ child' = IF child = "spawned" THEN child ELSE "dead"
  /\ ungrouped' = (child = "spawned")
  /\ UNCHANGED <<helper, pipe, got, fate, staging, outcome, token, expired>>

\* os.killpg: the child and all it started, once setsid has made the group.
\* Before, there is no such group, which is suppressed.
SignalGroup ==
  /\ parent = "signal"
  /\ parent' = "reap"
  /\ IF child = "spawned"
     THEN ungrouped' = TRUE /\ UNCHANGED <<child, helper>>
     ELSE child' = "dead" /\ helper' = FALSE /\ UNCHANGED ungrouped
  /\ UNCHANGED <<pipe, got, fate, staging, outcome, token, expired>>

\* Mutant: after its five seconds the child is given up.
ReapWaits ==
  /\ parent = "reap"
  /\ Return(fate)
  /\ UNCHANGED <<child, helper, pipe, got, fate, token, expired, ungrouped>>

\* process.join(timeout=5), and process.kill() for a child still alive.
Reap ==
  /\ parent = "reap"
  /\ child' = "dead"
  /\ Return(fate)
  /\ UNCHANGED <<helper, pipe, got, fate, token, expired, ungrouped>>

-----------------------------------------------------------------------------
(* The child *)

\* os.setsid in _child_entry.
Setsid ==
  /\ child = "spawned"
  /\ child' = "running"
  /\ UNCHANGED <<parent, helper, pipe, got, fate, staging, outcome, token, expired, ungrouped>>

HelperStarts ==
  /\ child = "running" /\ ~helper
  /\ helper' = TRUE
  /\ UNCHANGED <<parent, child, pipe, got, fate, staging, outcome, token, expired, ungrouped>>

HelperEnds ==
  /\ helper
  /\ helper' = FALSE
  /\ UNCHANGED <<parent, child, pipe, got, fate, staging, outcome, token, expired, ungrouped>>

\* The backend writes: files one after the other, none finished or all.
Stage ==
  /\ child = "running" /\ ~helper
  /\ staging' \in {"partial", "complete"}
  /\ UNCHANGED <<parent, child, helper, pipe, got, fate, outcome, token, expired, ungrouped>>

\* A result, a result that is not ok, or the text of an exception.
Send(message) ==
  /\ child = "running" /\ ~helper
  /\ child' = "sent" /\ pipe' = message
  /\ UNCHANGED <<parent, helper, got, fate, staging, outcome, token, expired, ungrouped>>

Exit ==
  /\ child = "sent"
  /\ child' = "dead"
  /\ UNCHANGED <<parent, helper, pipe, got, fate, staging, outcome, token, expired, ungrouped>>

\* os._exit, a fatal signal, or an exception before the pipe is in use.
Crash ==
  /\ Alive
  /\ child' = "dead"
  /\ UNCHANGED <<parent, helper, pipe, got, fate, staging, outcome, token, expired, ungrouped>>

-----------------------------------------------------------------------------
Cancel ==
  /\ ~token
  /\ token' = TRUE
  /\ UNCHANGED <<parent, child, helper, pipe, got, fate, staging, outcome, expired, ungrouped>>

Expire ==
  /\ ~expired /\ parent \notin {"start", "over"}
  /\ expired' = TRUE
  /\ UNCHANGED <<parent, child, helper, pipe, got, fate, staging, outcome, token, ungrouped>>

ParentSteps ==
  StartProcess \/ StartFails \/ Poll \/ LookAlive \/ LookToken \/ LookClock
  \/ Join \/ JoinTimesOut \/ SignalGroup \/ Reap

-----------------------------------------------------------------------------
(* Properties *)

\* Whoever gets the outcome has the staging directory to itself: the child is
\* gone, and its files are all there for a success and none for anything else.
StagingOwned ==
  parent = "over" =>
    /\ ~Alive
    /\ staging = IF outcome = "ok" THEN "complete" ELSE "empty"

\* An attempt has no result only if the child sent none: a message sent between
\* two looks of the parent is not lost because its sender is gone.
AnswerKept == outcome = "no_result" => pipe = "empty" /\ got = "empty"

\* Cancellation and timeout end the backend's own process as well, if the group
\* was there to be signalled.
GroupGone == parent = "over" /\ outcome \in Failure /\ ~ungrouped => ~helper

\* However the child hangs, the runner returns.
AttemptReturns == <>(parent = "over")
=============================================================================
