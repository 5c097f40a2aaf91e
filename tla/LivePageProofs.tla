--------------------------- MODULE LivePageProofs ---------------------------
(***************************************************************************)
(* Theorems about the pages that follow the jobs, for all jobs, libraries, *)
(* tabs and sizes of buffers.                                              *)
(***************************************************************************)
EXTENDS LivePage, EventBusProofs

\* What a tab may wait for.
Requests == [phase : {"none", "fetch", "cancel", "log", "answered"},
             job : Job \cup {NoJob}, view : [Job -> State]]

\* What a tab may be.
Documents == [page : Page \cup {"none"},
              library : Library \cup {NoLibrary}, stream : Library \cup {NoLibrary},
              shown : [Job -> State], request : Requests, again : BOOLEAN,
              panel : Job \cup {NoJob}, posted : Job \cup {NoJob},
              over : SUBSET Job, asked : SUBSET Job, results : SUBSET Job]

\* Types of what the region's freshness depends on.
TypeOK ==
  /\ state \in [Job -> State]
  /\ selected \in Library
  /\ tab \in [Tab -> Documents]
  /\ heard \subseteq Tab

\* Only the strip asks again, and only after a request; only the list has buttons.
Asking(r) ==
  /\ r.again => r.page = "papers" /\ r.request.phase # "none"
  /\ r.request.phase = "cancel" => r.page = "jobs" /\ r.request.job \in Job
  /\ r.request.phase = "log" => r.page = "jobs"

\* The requests that do not bring the region: none, and the one for a log.
Resting == {"none", "log"}

\* The region is as of now, or will be once the requests have ended.
Fresh(r) ==
  /\ r.page \in Page
  /\ r.request.phase \in Resting => r.shown = View(r.page, selected, state)
  /\ r.request.phase = "answered" =>
       r.again \/ r.request.view = View(r.page, selected, state)

\* What every step keeps.
Inv ==
  /\ TypeOK
  /\ \A t \in Tab : Asking(tab[t])
  /\ \A t \in heard : Fresh(tab[t])

USE PageAssumption

-----------------------------------------------------------------------------
(* One document *)

\* What the invariant says of a tab depends on these of its fields.
Same(r, q) ==
  /\ q.page = r.page
  /\ q.request = r.request
  /\ q.again = r.again
  /\ q.shown = r.shown

\* Applying what is known of a validation (applyValidationProgress) asks for a
\* result, and leaves the job region alone.
LEMMA AppliedSame ==
  ASSUME NEW r \in Documents
  PROVE  Applied(r) \in Documents /\ Same(r, Applied(r))
<1>1. CASE r.panel \in r.over \ r.asked
  <2>1. r.panel \in Job
    BY <1>1 DEF Documents
  <2>. QED
    BY <1>1, <2>1 DEF Applied, Documents, Same
<1>2. CASE r.panel \notin r.over \ r.asked
  BY <1>2 DEF Applied, Same
<1>. QED
  BY <1>1, <1>2

\* The same of the news of a validation (updateValidationState).
LEMMA NotedSame ==
  ASSUME NEW r \in Documents, NEW notice
  PROVE  Noted(r, notice) \in Documents /\ Same(r, Noted(r, notice))
<1>1. CASE notice.job \in Validation
  <2>. DEFINE q == [r EXCEPT !.over = @ \cup {notice.job}]
  <2>1. q \in Documents /\ Same(r, q)
    BY <1>1 DEF Documents, Same
  <2>2. Applied(q) \in Documents /\ Same(q, Applied(q))
    BY <2>1, AppliedSame
  <2>. QED
    BY <2>1, <2>2 DEF Noted, Same
<1>2. CASE notice.job \notin Validation
  BY <1>2 DEF Noted, Same
<1>. QED
  BY <1>1, <1>2

\* An idle region, and one that asks, are requests.
LEMMA RequestTypes ==
  /\ Nothing \in [Job -> State]
  /\ Idle \in Requests /\ Idle.phase = "none"
  /\ Fetch \in Requests /\ Fetch.phase = "fetch"
  BY DEF Nothing, State, Idle, Fetch, Request, Requests

\* A page shows one of the states of every job.
LEMMA ViewType ==
  ASSUME NEW page, NEW library, NEW states \in [Job -> State]
  PROVE  View(page, library, states) \in [Job -> State]
  BY DEF View, State

\* An event that concerns a page makes it ask (hx-trigger), if need be again;
\* then what it shows is of no account until the answer.
LEMMA RefreshedAsks ==
  ASSUME NEW r \in Documents, NEW notice, Asking(r)
  PROVE  /\ Refreshed(r, notice) \in Documents
         /\ Asking(Refreshed(r, notice))
         /\ Fresh(r) => Fresh(Refreshed(r, notice))
         /\ Refreshes(r.page, notice) => Fresh(Refreshed(r, notice))
<1>1. CASE ~Refreshes(r.page, notice)
  BY <1>1 DEF Refreshed
<1>2. CASE Refreshes(r.page, notice) /\ (r.page = "jobs" \/ r.request.phase = "none")
  <2>1. Refreshed(r, notice) = [r EXCEPT !.request = Fetch]
    BY <1>2 DEF Refreshed
  <2>2. r.page \in Page
    BY <1>2 DEF Refreshes, Page
  <2>3. ~r.again
    BY <1>2 DEF Asking
  <2>. QED
    BY <1>2, <2>1, <2>2, <2>3, RequestTypes DEF Documents, Asking, Fresh, Resting
<1>3. CASE Refreshes(r.page, notice) /\ ~(r.page = "jobs" \/ r.request.phase = "none")
  <2>1. Refreshed(r, notice) = [r EXCEPT !.again = TRUE]
    BY <1>3 DEF Refreshed
  <2>2. r.page = "papers"
    BY <1>3 DEF Refreshes
  <2>. QED
    BY <1>3, <2>1, <2>2 DEF Documents, Asking, Fresh, Resting, Page
<1>. QED
  BY <1>1, <1>2, <1>3

\* The invariant of a tab survives what leaves these fields alone.
LEMMA SameKept ==
  ASSUME NEW r, NEW q, Same(r, q)
  PROVE  /\ Asking(r) => Asking(q)
         /\ Fresh(r) => Fresh(q)
  BY DEF Same, Asking, Fresh

-----------------------------------------------------------------------------
(* The invariant *)

\* At first no tab has a document.
LEMMA InitInv == Init => Inv
<1>. SUFFICES ASSUME Init PROVE Inv
  OBVIOUS
<1>1. Blank \in Documents /\ Asking(Blank)
  BY RequestTypes DEF Blank, Document, Documents, Asking
<1>. QED
  BY <1>1 DEF Init, Inv, TypeOK, State

\* An announcement (JobEvent published by the queue) leaves the tabs that count as
\* having heard with what their pages show: progress does not count in the strip.
LEMMA AnnounceKeeps ==
  ASSUME Inv, NEW j \in Job, NEW s \in State, Announce(j, s), UNCHANGED selected,
         s = "reporting" => state[j] = "running"
  PROVE  /\ state' \in [Job -> State]
         /\ heard' \subseteq heard
         /\ \A t \in heard' :
              View(tab[t].page, selected', state') = View(tab[t].page, selected, state)
<1>1. /\ state \in [Job -> State]
      /\ state' = [state EXCEPT ![j] = s]
      /\ selected' = selected
  BY DEF Inv, TypeOK, Announce
<1>. DEFINE notice == [job |-> j, state |-> s,
                       kind |-> IF s = "reporting" THEN "progress" ELSE "state"]
<1>2. heard' = {t \in heard : ~(LibraryOf[j] = selected /\ Refreshes(tab[t].page, notice))}
  BY DEF Announce
<1>3. ASSUME NEW t \in heard'
      PROVE  View(tab[t].page, selected', state') = View(tab[t].page, selected, state)
  <2>1. tab[t].page \in Page
    BY <1>2 DEF Inv, Fresh
  <2>2. \A k \in Job \ {j} : state'[k] = state[k]
    BY <1>1
  <2>3. state'[j] = s
    BY <1>1
  <2>4. CASE LibraryOf[j] # selected
    BY <1>1, <2>2, <2>4 DEF View
  <2>5. CASE LibraryOf[j] = selected /\ ~Refreshes(tab[t].page, notice)
    <3>1. tab[t].page = "library" \/ (tab[t].page = "papers" /\ s = "reporting")
      BY <2>1, <2>5 DEF Refreshes, Page
    <3>2. CASE tab[t].page = "library"
      BY <3>2 DEF View
    <3>3. CASE tab[t].page = "papers" /\ s = "reporting"
      <4>1. state[j] = "running" /\ state'[j] = "reporting"
        BY <2>3, <3>3
      <4>. QED
        BY <1>1, <2>2, <3>3, <4>1 DEF View
    <3>. QED
      BY <3>1, <3>2, <3>3
  <2>. QED
    BY <1>2, <2>4, <2>5
<1>. QED
  BY <1>1, <1>2, <1>3

\* Enough for a step: the types, one tab that is changed well, and the others as
\* they were, with what their pages show.
LEMMA TabStep ==
  ASSUME Inv, NEW t \in Tab, NEW q \in Documents,
         state' \in [Job -> State], selected' = selected,
         tab' = [tab EXCEPT ![t] = q], heard' \subseteq heard \cup {t},
         \A u \in heard' \ {t} :
           View(tab[u].page, selected', state') = View(tab[u].page, selected, state),
         Asking(q),
         t \in heard' =>
           /\ q.page \in Page
           /\ q.request.phase \in Resting => q.shown = View(q.page, selected', state')
           /\ q.request.phase = "answered" =>
                q.again \/ q.request.view = View(q.page, selected', state')
  PROVE  Inv'
<1>1. tab \in [Tab -> Documents] /\ selected \in Library /\ heard \subseteq Tab
  BY DEF Inv, TypeOK
<1>2. tab'[t] = q /\ \A u \in Tab \ {t} : tab'[u] = tab[u]
  BY <1>1
<1>3. TypeOK'
  BY <1>1 DEF TypeOK
<1>4. ASSUME NEW u \in Tab PROVE Asking(tab'[u])
  BY <1>2 DEF Inv
<1>5. ASSUME NEW u \in heard' PROVE Fresh(tab[u])'
  <2>1. CASE u = t
    BY <1>2, <2>1 DEF Fresh
  <2>2. CASE u # t
    <3>1. u \in heard /\ Fresh(tab[u]) /\ tab'[u] = tab[u]
      BY <1>1, <1>2, <2>2 DEF Inv
    <3>. QED
      BY <2>2, <3>1 DEF Fresh
  <2>. QED
    BY <2>1, <2>2
<1>6. \A u \in Tab : Asking(tab[u])'
  BY <1>4 DEF Asking
<1>. QED
  BY <1>3, <1>5, <1>6 DEF Inv

\* The same for a step that leaves the jobs as they are.
LEMMA QuietStep ==
  ASSUME Inv, NEW t \in Tab, NEW q \in Documents,
         UNCHANGED <<state, selected>>,
         tab' = [tab EXCEPT ![t] = q], heard' \subseteq heard \cup {t},
         Asking(q), t \in heard' => Fresh(q)
  PROVE  Inv'
<1>1. state' \in [Job -> State]
  BY DEF Inv, TypeOK
<1>2. \A u \in heard' \ {t} :
        View(tab[u].page, selected', state') = View(tab[u].page, selected, state)
  OBVIOUS
<1>3. t \in heard' =>
        /\ q.page \in Page
        /\ q.request.phase \in Resting => q.shown = View(q.page, selected', state')
        /\ q.request.phase = "answered" =>
             q.again \/ q.request.view = View(q.page, selected', state')
  BY DEF Fresh
<1>. QED
  BY <1>1, <1>2, <1>3, TabStep

\* The steps of the queue.
LEMMA QueueStep == Inv /\ Queue => Inv'
<1>. SUFFICES ASSUME Inv, NEW j \in Job, Enqueue(j) \/ Start(j) \/ Report(j) \/ End(j)
              PROVE  Inv'
  BY DEF Queue
<1>1. PICK s \in State : Announce(j, s) /\ (s = "reporting" => state[j] = "running")
  BY DEF Enqueue, Start, Report, End, State
<1>2. UNCHANGED <<selected, tab>>
  BY DEF Enqueue, Start, Report, End
<1>3. /\ state' \in [Job -> State]
      /\ heard' \subseteq heard
      /\ \A t \in heard' :
           View(tab[t].page, selected', state') = View(tab[t].page, selected, state)
  BY <1>1, <1>2, AnnounceKeeps
<1>4. TypeOK'
  BY <1>2, <1>3 DEF Inv, TypeOK
<1>5. \A t \in Tab : Asking(tab[t])'
  BY <1>2 DEF Inv, Asking
<1>6. ASSUME NEW t \in heard' PROVE Fresh(tab[t])'
  <2>1. t \in heard /\ Fresh(tab[t]) /\ tab'[t] = tab[t]
    BY <1>2, <1>3 DEF Inv
  <2>. QED
    BY <1>3, <2>1 DEF Fresh
<1>. QED
  BY <1>4, <1>5, <1>6 DEF Inv

\* The steps of a tab that change no job.
LEMMA QuietSteps ==
  ASSUME Inv, NEW t \in Tab,
         \/ \E p \in Page : Render(t, p)
         \/ Connect(t) \/ Disconnect(t) \/ Deliver(t) \/ Answer(t) \/ Swap(t) \/ ShowPanel(t)
         \/ ShowLog(t) \/ \E j \in Job : PressCancel(t, j) \/ PressLog(t, j)
         \/ \E v \in Validation : ShowResult(t, v)
  PROVE  Inv'
<1>0. /\ tab[t] \in Documents /\ Asking(tab[t])
      /\ selected \in Library /\ state \in [Job -> State]
      /\ t \in heard => Fresh(tab[t])
  BY DEF Inv, TypeOK
<1>1. ASSUME NEW p \in Page, Render(t, p) PROVE Inv'
  <2>. DEFINE q == Document(p, selected, View(p, selected, state))
  <2>1. q \in Documents
    BY <1>0, ViewType, RequestTypes DEF Document, Documents
  <2>2. Asking(q) /\ Fresh(q)
    BY RequestTypes DEF Document, Asking, Fresh, Resting
  <2>3. /\ UNCHANGED <<state, selected>>
        /\ tab' = [tab EXCEPT ![t] = q] /\ heard' \subseteq heard \cup {t}
    BY <1>1 DEF Render
  <2>. QED
    BY <2>1, <2>2, <2>3, QuietStep
<1>2. ASSUME Connect(t) \/ Disconnect(t) PROVE Inv'
  <2>. DEFINE q(l) == [tab[t] EXCEPT !.stream = l]
  <2>1. PICK l \in Library \cup {NoLibrary} : tab' = [tab EXCEPT ![t] = q(l)]
    BY <1>0, <1>2 DEF Connect, Disconnect
  <2>2. q(l) \in Documents /\ Same(tab[t], q(l))
    BY <1>0 DEF Documents, Same
  <2>3. UNCHANGED <<state, selected>> /\ heard' = heard
    BY <1>2 DEF Connect, Disconnect
  <2>. QED
    BY <1>0, <2>1, <2>2, <2>3, QuietStep, SameKept
<1>3. ASSUME Deliver(t) PROVE Inv'
  <2>. DEFINE notice == Head(buffer[t]).notice
              ours == LibraryOf[notice.job] = tab[t].stream
              asks == Refreshed(tab[t], notice)
              q == IF ours THEN Noted(asks, notice) ELSE tab[t]
  <2>1. /\ UNCHANGED <<state, selected>>
        /\ tab' = [tab EXCEPT ![t] = q]
        /\ heard' \subseteq heard \cup {t}
        /\ t \in heard' => t \in heard \/ (ours /\ Refreshes(tab[t].page, notice))
    BY <1>3 DEF Deliver
  <2>2. asks \in Documents /\ Asking(asks)
    BY <1>0, RefreshedAsks
  <2>3. t \in heard' /\ ours => Fresh(asks)
    BY <1>0, <2>1, RefreshedAsks
  <2>4. Noted(asks, notice) \in Documents /\ Same(asks, Noted(asks, notice))
    BY <2>2, NotedSame
  <2>5. q \in Documents /\ Asking(q)
    BY <1>0, <2>2, <2>4, SameKept
  <2>6. t \in heard' => Fresh(q)
    BY <1>0, <2>1, <2>3, <2>4, SameKept
  <2>. QED
    BY <2>1, <2>5, <2>6, QuietStep
<1>4. ASSUME Answer(t) PROVE Inv'
  <2>. DEFINE view == View(tab[t].page, selected, state)
              q == [tab[t] EXCEPT !.request = Request("answered", NoJob, view)]
  <2>1. Request("answered", NoJob, view) \in Requests
    BY <1>0, ViewType DEF Request, Requests
  <2>2. q \in Documents
    BY <1>0, <2>1 DEF Documents
  <2>3. /\ q.page = tab[t].page /\ q.again = tab[t].again
        /\ q.request.phase = "answered" /\ q.request.view = view
    BY <1>0 DEF Documents, Request
  <2>4. Asking(q) /\ (Fresh(tab[t]) => Fresh(q))
    BY <1>0, <2>3 DEF Asking, Fresh, Resting
  <2>5. UNCHANGED <<state, selected>> /\ tab' = [tab EXCEPT ![t] = q] /\ heard' = heard
    BY <1>4 DEF Answer
  <2>. QED
    BY <1>0, <2>2, <2>4, <2>5, QuietStep
<1>5. ASSUME NEW j \in Job, PressCancel(t, j) PROVE Inv'
  <2>. DEFINE q == [tab[t] EXCEPT !.request = Request("cancel", j, Nothing)]
  <2>1. Request("cancel", j, Nothing) \in Requests
    BY RequestTypes DEF Request, Requests
  <2>2. q \in Documents
    BY <1>0, <2>1 DEF Documents
  <2>3. /\ q.page = tab[t].page /\ q.again = tab[t].again
        /\ q.request.phase = "cancel" /\ q.request.job = j
    BY <1>0 DEF Documents, Request
  <2>4. tab[t].page = "jobs"
    BY <1>5 DEF PressCancel
  <2>5. Asking(q) /\ (Fresh(tab[t]) => Fresh(q))
    BY <1>0, <2>3, <2>4 DEF Asking, Fresh, Resting
  <2>6. UNCHANGED <<state, selected>> /\ tab' = [tab EXCEPT ![t] = q] /\ heard' = heard
    BY <1>5 DEF PressCancel
  <2>. QED
    BY <1>0, <2>2, <2>5, <2>6, QuietStep
<1>6. ASSUME Swap(t) PROVE Inv'
  <2>. DEFINE next == IF tab[t].again THEN Fetch ELSE Idle
              q == [tab[t] EXCEPT !.shown = tab[t].request.view, !.request = next,
                                  !.again = FALSE]
  <2>1. next \in Requests /\ tab[t].request.view \in [Job -> State]
    BY <1>0, RequestTypes DEF Documents, Requests
  <2>2. q \in Documents
    BY <1>0, <2>1 DEF Documents
  <2>3. /\ q.page = tab[t].page /\ q.again = FALSE
        /\ q.request = next /\ q.shown = tab[t].request.view
    BY <1>0 DEF Documents
  <2>4. Asking(q)
    BY <2>3, RequestTypes DEF Asking
  <2>5. tab[t].request.phase = "answered"
    BY <1>6 DEF Swap
  <2>6. Fresh(tab[t]) => Fresh(q)
    BY <2>3, <2>5, RequestTypes DEF Fresh, Resting
  <2>7. UNCHANGED <<state, selected>> /\ tab' = [tab EXCEPT ![t] = q] /\ heard' = heard
    BY <1>0, <1>6 DEF Swap, Inv, TypeOK
  <2>. QED
    BY <1>0, <2>2, <2>4, <2>6, <2>7, QuietStep
<1>7. ASSUME ShowPanel(t) PROVE Inv'
  <2>. DEFINE r == [tab[t] EXCEPT !.panel = tab[t].posted, !.posted = NoJob]
              q == Applied(r)
  <2>1. r \in Documents /\ Same(tab[t], r)
    BY <1>0 DEF Documents, Same
  <2>2. q \in Documents /\ Same(r, q)
    BY <2>1, AppliedSame
  <2>3. UNCHANGED <<state, selected>> /\ tab' = [tab EXCEPT ![t] = q] /\ heard' = heard
    BY <1>7 DEF ShowPanel
  <2>4. Asking(q) /\ (t \in heard' => Fresh(q))
    BY <1>0, <2>1, <2>2, <2>3, SameKept
  <2>. QED
    BY <2>2, <2>3, <2>4, QuietStep
<1>8. ASSUME NEW v \in Validation, ShowResult(t, v) PROVE Inv'
  <2>. DEFINE panel == IF Obtainable(v) THEN NoJob ELSE tab[t].panel
              q == [tab[t] EXCEPT !.results = tab[t].results \ {v}, !.panel = panel]
  <2>1. panel \in Job \cup {NoJob}
    BY <1>0 DEF Documents
  <2>2. q \in Documents /\ Same(tab[t], q)
    BY <1>0, <2>1 DEF Documents, Same
  <2>3. UNCHANGED <<state, selected>> /\ tab' = [tab EXCEPT ![t] = q] /\ heard' = heard
    BY <1>0, <1>8 DEF ShowResult, Inv, TypeOK
  <2>4. Asking(q) /\ (t \in heard' => Fresh(q))
    BY <1>0, <2>2, <2>3, SameKept
  <2>. QED
    BY <2>2, <2>3, <2>4, QuietStep
<1>9. ASSUME NEW j \in Job, PressLog(t, j) PROVE Inv'
  <2>. DEFINE q == [tab[t] EXCEPT !.request = Request("log", NoJob, Nothing)]
  <2>1. Request("log", NoJob, Nothing) \in Requests
    BY RequestTypes DEF Request, Requests
  <2>2. q \in Documents
    BY <1>0, <2>1 DEF Documents
  <2>3. /\ q.page = tab[t].page /\ q.again = tab[t].again /\ q.shown = tab[t].shown
        /\ q.request.phase = "log"
    BY <1>0 DEF Documents, Request
  <2>4. tab[t].page = "jobs"
    BY <1>9 DEF PressLog
  <2>5. Asking(q)
    BY <1>0, <2>3, <2>4 DEF Asking
  <2>6. /\ UNCHANGED <<state, selected>> /\ tab' = [tab EXCEPT ![t] = q]
        /\ heard' = IF tab[t].request.phase \in {"none", "log"} THEN heard ELSE heard \ {t}
    BY <1>9 DEF PressLog
  <2>7. t \in heard' => Fresh(q)
    BY <1>0, <2>3, <2>6 DEF Fresh, Resting
  <2>8. heard' \subseteq heard \cup {t}
    BY <2>6
  <2>. QED
    BY <2>2, <2>5, <2>6, <2>7, <2>8, QuietStep
<1>10. ASSUME ShowLog(t) PROVE Inv'
  <2>. DEFINE q == [tab[t] EXCEPT !.request = Idle]
  <2>1. q \in Documents
    BY <1>0, RequestTypes DEF Documents
  <2>2. /\ q.page = tab[t].page /\ q.again = tab[t].again /\ q.shown = tab[t].shown
        /\ q.request = Idle
    BY <1>0 DEF Documents
  <2>3. tab[t].request.phase = "log"
    BY <1>10 DEF ShowLog
  <2>4. Asking(q) /\ (Fresh(tab[t]) => Fresh(q))
    BY <1>0, <2>2, <2>3, RequestTypes DEF Asking, Fresh, Resting
  <2>5. UNCHANGED <<state, selected>> /\ tab' = [tab EXCEPT ![t] = q] /\ heard' = heard
    BY <1>10 DEF ShowLog
  <2>. QED
    BY <1>0, <2>1, <2>4, <2>5, QuietStep
<1>. QED
  BY <1>1, <1>2, <1>3, <1>4, <1>5, <1>6, <1>7, <1>8, <1>9, <1>10

\* A job cancelled from the list (cancel_job): the answer is of after the change.
LEMMA AnswerCancelStep ==
  ASSUME Inv, NEW t \in Tab, AnswerCancel(t)
  PROVE  Inv'
<1>. DEFINE j == tab[t].request.job
            view == View("jobs", selected, state')
            q == [tab[t] EXCEPT !.request = Request("answered", NoJob, view)]
<1>0. /\ tab[t] \in Documents /\ Asking(tab[t])
      /\ tab[t].request.phase = "cancel"
      /\ t \in heard => Fresh(tab[t])
  BY DEF Inv, TypeOK, AnswerCancel
<1>1. j \in Job /\ tab[t].page = "jobs" /\ ~tab[t].again
  BY <1>0 DEF Asking
<1>2. tab' = [tab EXCEPT ![t] = q] /\ selected' = selected
  BY <1>0 DEF AnswerCancel, Inv, TypeOK
<1>3. /\ state' \in [Job -> State]
      /\ heard' \subseteq heard
      /\ \A u \in heard' :
           View(tab[u].page, selected', state') = View(tab[u].page, selected, state)
  <2>1. CASE state[j] = "queued"
    <3>1. Announce(j, "ended")
      BY <2>1 DEF AnswerCancel
    <3>2. "ended" \in State
      BY DEF State
    <3>. QED
      BY <1>1, <1>2, <3>1, <3>2, AnnounceKeeps
  <2>2. CASE state[j] # "queued"
    BY <1>2, <2>2 DEF AnswerCancel, Inv, TypeOK
  <2>. QED
    BY <2>1, <2>2
<1>4. Request("answered", NoJob, view) \in Requests
  BY <1>3, ViewType DEF Request, Requests
<1>5. q \in Documents
  BY <1>0, <1>4 DEF Documents
<1>6. /\ q.page = "jobs" /\ q.again = FALSE
      /\ q.request.phase = "answered" /\ q.request.view = view
  BY <1>0, <1>1 DEF Documents, Request
<1>7. Asking(q)
  BY <1>6 DEF Asking
<1>8. /\ q.page \in Page
      /\ q.request.phase \in Resting => q.shown = View(q.page, selected', state')
      /\ q.request.phase = "answered" =>
           q.again \/ q.request.view = View(q.page, selected', state')
  BY <1>2, <1>6 DEF Page, Resting
<1>9. \A u \in heard' \ {t} :
        View(tab[u].page, selected', state') = View(tab[u].page, selected, state)
  BY <1>3
<1>10. heard' \subseteq heard \cup {t}
  BY <1>3
<1>. QED
  BY <1>2, <1>3, <1>5, <1>7, <1>8, <1>9, <1>10, TabStep

\* A validation that is started from the library page (start_library_validation).
LEMMA ValidateStep ==
  ASSUME Inv, NEW t \in Tab, NEW v \in Validation, Validate(t, v)
  PROVE  Inv'
<1>. DEFINE q == [tab[t] EXCEPT !.posted = v]
<1>0. tab[t] \in Documents /\ Asking(tab[t]) /\ (t \in heard => Fresh(tab[t])) /\ v \in Job
  BY DEF Inv, TypeOK
<1>1. Announce(v, "queued") /\ selected' = selected /\ tab' = [tab EXCEPT ![t] = q]
  BY DEF Validate
<1>2. /\ state' \in [Job -> State]
      /\ heard' \subseteq heard
      /\ \A u \in heard' :
           View(tab[u].page, selected', state') = View(tab[u].page, selected, state)
  <2>1. "queued" \in State
    BY DEF State
  <2>. QED
    BY <1>0, <1>1, <2>1, AnnounceKeeps
<1>3. q \in Documents /\ Same(tab[t], q)
  BY <1>0 DEF Documents, Same
<1>4. Asking(q)
  BY <1>0, <1>3, SameKept
<1>5. t \in heard' =>
        /\ q.page \in Page
        /\ q.request.phase \in Resting => q.shown = View(q.page, selected', state')
        /\ q.request.phase = "answered" =>
             q.again \/ q.request.view = View(q.page, selected', state')
  <2>1. SUFFICES ASSUME t \in heard'
                 PROVE  /\ q.page \in Page
                        /\ q.request.phase \in Resting => q.shown = View(q.page, selected', state')
                        /\ q.request.phase = "answered" =>
                             q.again \/ q.request.view = View(q.page, selected', state')
    OBVIOUS
  <2>2. Fresh(q)
    BY <1>0, <1>2, <1>3, <2>1, SameKept
  <2>3. View(q.page, selected', state') = View(q.page, selected, state)
    BY <1>2, <1>3, <2>1 DEF Same
  <2>. QED
    BY <2>2, <2>3 DEF Fresh
<1>6. heard' \subseteq heard \cup {t} /\ \A u \in heard' \ {t} :
        View(tab[u].page, selected', state') = View(tab[u].page, selected, state)
  BY <1>2
<1>. QED
  BY <1>1, <1>2, <1>3, <1>4, <1>5, <1>6, TabStep

\* Every step of the queue, the server, the browsers and the users keeps the
\* invariant.
LEMMA NextInv == Inv /\ [Next]_vars => Inv'
<1>. SUFFICES ASSUME Inv, [Next]_vars PROVE Inv'
  OBVIOUS
<1>1. CASE Queue
  BY <1>1, QueueStep
<1>2. ASSUME NEW l \in Library, Select(l) PROVE Inv'
  BY <1>2 DEF Select, Inv, TypeOK, Asking
<1>3. ASSUME NEW t \in Tab, Server(t) \/ Browser(t) \/ User(t) PROVE Inv'
  BY <1>3, QuietSteps, AnswerCancelStep, ValidateStep DEF Server, Browser, User
<1>4. CASE UNCHANGED vars
  BY <1>4 DEF vars, Inv, TypeOK, Asking, Fresh, Resting
<1>. QED
  BY <1>1, <1>2, <1>3, <1>4 DEF Next

\* A page that has heard of the last change of what it shows, and waits for no
\* answer, shows the jobs as they are (job_dashboard and the strip, kept up to date
\* through hx-trigger, hx-sync and htmx's queue).  A list whose request View log
\* aborted is excluded until its next event: heard does not count its tab.
THEOREM PageCurrent == Spec => []CurrentWhenHeard
<1>1. Inv => CurrentWhenHeard
  BY RequestTypes DEF Inv, CurrentWhenHeard, Fresh, Resting
<1>. QED
  BY <1>1, InitInv, NextInv, PTL DEF Spec

-----------------------------------------------------------------------------
(* The pages use the bus as it is meant *)

\* An announcement is a publication.
LEMMA AnnouncePublishes ==
  ASSUME NEW j \in Job, NEW s \in State, Announce(j, s)
  PROVE  BusNext
<1>. DEFINE notice == [job |-> j, state |-> s,
                       kind |-> IF s = "reporting" THEN "progress" ELSE "state"]
<1>1. notice \in Notice
  BY DEF Notices
<1>2. Publish(notice)
  BY DEF Announce
<1>. QED
  BY <1>1, <1>2 DEF BusNext

\* Whatever the queue, the server, browsers and users do, to the bus it is one of
\* its operations, or nothing.
LEMMA PageStepsBus == Inv /\ [Next]_vars => [BusNext]_busVars
<1>. SUFFICES ASSUME Inv, [Next]_vars PROVE [BusNext]_busVars
  OBVIOUS
<1>1. ASSUME NEW j \in Job, Enqueue(j) \/ Start(j) \/ Report(j) \/ End(j)
      PROVE  BusNext
  BY <1>1, AnnouncePublishes DEF Enqueue, Start, Report, End, State
<1>2. ASSUME NEW l \in Library, Select(l) PROVE UNCHANGED busVars
  BY <1>2 DEF Select
<1>3. ASSUME NEW t \in Tab, NEW p \in Page, Render(t, p) PROVE BusNext
  BY <1>3 DEF Render, BusNext
<1>4. ASSUME NEW t \in Tab, Connect(t) \/ Disconnect(t) \/ Deliver(t) PROVE BusNext
  BY <1>4 DEF Connect, Disconnect, Deliver, BusNext
<1>5. ASSUME NEW t \in Tab, Answer(t) \/ Swap(t) \/ ShowPanel(t) PROVE UNCHANGED busVars
  BY <1>5 DEF Answer, Swap, ShowPanel
<1>6. ASSUME NEW t \in Tab, AnswerCancel(t) PROVE [BusNext]_busVars
  <2>1. CASE state[tab[t].request.job] = "queued"
    <3>1. tab[t].request.job \in Job
      BY <1>6 DEF AnswerCancel, Inv, Asking
    <3>2. Announce(tab[t].request.job, "ended") /\ "ended" \in State
      BY <1>6, <2>1 DEF AnswerCancel, State
    <3>. QED
      BY <3>1, <3>2, AnnouncePublishes
  <2>2. CASE state[tab[t].request.job] # "queued"
    BY <1>6, <2>2 DEF AnswerCancel
  <2>. QED
    BY <2>1, <2>2
<1>7. ASSUME NEW t \in Tab, NEW j \in Job, PressCancel(t, j) PROVE UNCHANGED busVars
  BY <1>7 DEF PressCancel
<1>8. ASSUME NEW t \in Tab, NEW v \in Validation, Validate(t, v) PROVE BusNext
  <2>1. Announce(v, "queued") /\ "queued" \in State /\ v \in Job
    BY <1>8 DEF Validate, State
  <2>. QED
    BY <2>1, AnnouncePublishes
<1>9. ASSUME NEW t \in Tab, NEW v \in Validation, ShowResult(t, v) PROVE UNCHANGED busVars
  BY <1>9 DEF ShowResult
<1>10. ASSUME NEW t \in Tab, ShowLog(t) \/ (\E j \in Job : PressLog(t, j)) PROVE UNCHANGED busVars
  BY <1>10 DEF PressLog, ShowLog
<1>11. CASE UNCHANGED vars
  BY <1>11 DEF vars
<1>. QED
  BY <1>1, <1>2, <1>3, <1>4, <1>5, <1>6, <1>7, <1>8, <1>9, <1>10, <1>11
     DEF Next, Queue, Server, Browser, User

\* So the bus of the pages has every property of the bus: the buffers of event
\* streams hold the newest events (event_stream over EventSubscription).
THEOREM PagesUseBus == Spec => BusSpec
<1>1. Init => BusInit
  BY DEF Init
<1>. QED
  BY <1>1, InitInv, NextInv, PageStepsBus, PTL DEF Spec, BusSpec

\* In every behaviour of the pages an event stream's buffer ends with the newest
\* event published (_offer).
THEOREM StreamNewest == Spec => []NewestKept
  BY PagesUseBus, BusNewestKept, PTL

=============================================================================
