------------------------------ MODULE LivePage ------------------------------
(***************************************************************************)
(* Pages that follow the jobs: the job events of queue.py go through the   *)
(* bus (EventBus) and the event stream of web/events.py to browser tabs,   *)
(* which fetch the job list or the job strip anew, and the result of a     *)
(* validation once its last event has come.  One process serves several    *)
(* libraries, one of which is selected for the web interface.              *)
(*                                                                         *)
(* One region of a page is followed: the list of the jobs page, the strip  *)
(* with the counts of jobs, which every page has, on the papers page, and  *)
(* the validation panel on the library page.                               *)
(***************************************************************************)
EXTENDS EventBus

CONSTANTS
  Tab,          \* browser tabs; each has at most one event stream
  Job,
  NoJob,
  Validation,   \* jobs that validate their library, for one of the tabs
  Library,
  NoLibrary,
  LibraryOf     \* the library a job belongs to

Page == {"jobs", "papers", "library"}
State == {"absent", "queued", "running", "reporting", "ended"}
Notices == [job : Job, kind : {"state", "progress"}, state : State]

ASSUME PageAssumption ==
  /\ Subscriber = Tab
  /\ Notice = Notices
  /\ NoJob \notin Job
  /\ NoLibrary \notin Library
  /\ Validation \subseteq Job
  /\ LibraryOf \in [Job -> Library]

VARIABLES
  state,       \* what the queue says of a job; "reporting" is running, with progress
  selected,    \* WebContext.runtime
  runs,        \* validation_runs, the results the server still has
  tab,         \* what a browser tab shows and waits for
  concern,     \* history: the last event that changes what a page shows
  heard        \* history: the tabs that know of all that changed what their page shows,
               \* and whose last list View log has not taken away

vars == <<busVars, state, selected, runs, tab, concern, heard>>

\* The job list; the strip counts states, without progress.
View(page, library, states) ==
  [j \in Job |->
     IF page = "library" \/ LibraryOf[j] # library THEN "absent"
     ELSE IF page = "papers" /\ states[j] = "reporting" THEN "running"
     ELSE states[j]]

Nothing == [j \in Job |-> "absent"]
Request(phase, job, view) == [phase |-> phase, job |-> job, view |-> view]
Idle == Request("none", NoJob, Nothing)
Fetch == Request("fetch", NoJob, Nothing)

\* A document with this content, before its event stream is there.
Document(page, library, view) ==
  [page |-> page, library |-> library, stream |-> NoLibrary,
   shown |-> view, request |-> Idle, again |-> FALSE,
   panel |-> NoJob, posted |-> NoJob, over |-> {}, asked |-> {}, results |-> {}]

Blank == Document("none", NoLibrary, Nothing)

Init ==
  /\ BusInit
  /\ state = [j \in Job |-> "absent"]
  /\ selected \in Library
  /\ runs = {}
  /\ tab = [t \in Tab |-> Blank]
  /\ concern = [p \in Page |-> 0]
  /\ heard = {}

-----------------------------------------------------------------------------
(* The queue *)

\* The event makes a page fetch its region.
Refreshes(page, notice) ==
  \/ page = "jobs"
  \/ page = "papers" /\ notice.kind = "state"

Announce(j, s) ==
  LET notice == [job |-> j, state |-> s,
                 kind |-> IF s = "reporting" THEN "progress" ELSE "state"]
      Changes(p) == LibraryOf[j] = selected /\ Refreshes(p, notice)
  IN  /\ state' = [state EXCEPT ![j] = s]
      /\ Publish(notice)
      /\ concern' = [p \in Page |-> IF Changes(p) THEN sequence' ELSE concern[p]]
      /\ heard' = {t \in heard : ~Changes(tab[t].page)}

\* validation_runs when a validation starts: results that are complete go.
LetGo == {runs \ done : done \in SUBSET {v \in runs : state[v] = "ended"}}

\* Any other job; it may be a validation that no tab here has asked for.
Enqueue(j) ==
  /\ state[j] = "absent"
  /\ j \notin Validation
  /\ Announce(j, "queued")
  /\ IF LibraryOf[j] = selected THEN runs' \in LetGo ELSE UNCHANGED runs
  /\ UNCHANGED <<selected, tab>>

Start(j) ==
  /\ state[j] = "queued"
  /\ Announce(j, "running")
  /\ UNCHANGED <<selected, runs, tab>>

Report(j) ==
  /\ state[j] = "running"
  /\ Announce(j, "reporting")
  /\ UNCHANGED <<selected, runs, tab>>

\* A job ends, or is cancelled while it is queued.
End(j) ==
  /\ state[j] \in {"queued", "running", "reporting"}
  /\ Announce(j, "ended")
  /\ UNCHANGED <<selected, runs, tab>>

\* The library is selected for all tabs; what they show is changed with it, and
\* the next event is what they can learn it from.
Select(l) ==
  /\ l # selected
  /\ selected' = l
  /\ concern' = [p \in Page |-> sequence + 1]
  /\ heard' = {}
  /\ UNCHANGED <<busVars, state, runs, tab>>

-----------------------------------------------------------------------------
(* A tab, its document and its event stream *)

\* A page is opened, or left for another.
Render(t, page) ==
  /\ tab' = [tab EXCEPT ![t] = Document(page, selected, View(page, selected, state))]
  /\ heard' = heard \cup {t}
  /\ Leave(t)
  /\ UNCHANGED <<state, selected, runs, concern>>

\* The event stream keeps the library that was selected when it began.
Connect(t) ==
  /\ tab[t].page # "none"
  /\ tab[t].stream = NoLibrary
  /\ tab' = [tab EXCEPT ![t].stream = selected]
  /\ Subscribe(t)
  /\ UNCHANGED <<state, selected, runs, concern, heard>>

\* The connection breaks, or the page is put away and brought back: the
\* browser connects again, without loading the page.
Disconnect(t) ==
  /\ tab[t].stream # NoLibrary
  /\ tab' = [tab EXCEPT ![t].stream = NoLibrary]
  /\ Leave(t)
  /\ UNCHANGED <<state, selected, runs, concern, heard>>

\* applyValidationProgress: the result is fetched once the panel is there and
\* the validation known to be over, and once only.
Applied(r) ==
  IF r.panel \in r.over \ r.asked
  THEN [r EXCEPT !.asked = @ \cup {r.panel}, !.results = @ \cup {r.panel}]
  ELSE r

\* Mutant: a request under way is left to answer for the event too (hx-sync="drop").
RefreshedUnlessBusy(r, notice) ==
  IF Refreshes(r.page, notice) /\ r.request.phase = "none"
  THEN [r EXCEPT !.request = Fetch] ELSE r

\* The list aborts the request under way (hx-sync="this:replace"); the strip
\* waits for it and asks again.
Refreshed(r, notice) ==
  IF ~Refreshes(r.page, notice) THEN r
  ELSE IF r.page = "jobs" \/ r.request.phase = "none" THEN [r EXCEPT !.request = Fetch]
  ELSE [r EXCEPT !.again = TRUE]

\* updateValidationState remembers also what comes before its panel.
Noted(r, notice) ==
  IF r.page = "library" /\ notice.job \in Validation /\ notice.state = "ended"
  THEN Applied([r EXCEPT !.over = @ \cup {notice.job}])
  ELSE r

\* The stream gives the tab its next event, unless it is of another library.
Deliver(t) ==
  LET event == Head(buffer[t])
      ours == LibraryOf[event.notice.job] = tab[t].stream
  IN  /\ tab[t].stream # NoLibrary
      /\ Take(t)
      /\ tab' = [tab EXCEPT ![t] =
                   IF ours THEN Noted(Refreshed(@, event.notice), event.notice) ELSE @]
      /\ heard' = IF /\ ours
                     /\ Refreshes(tab[t].page, event.notice)
                     /\ event.sequence >= concern[tab[t].page]
                  THEN heard \cup {t} ELSE heard
      /\ UNCHANGED <<state, selected, runs, concern>>

\* The server answers with the jobs of the selected library.
Answer(t) ==
  /\ tab[t].request.phase = "fetch"
  /\ tab' = [tab EXCEPT ![t].request =
               Request("answered", NoJob, View(tab[t].page, selected, state))]
  /\ UNCHANGED <<busVars, state, selected, runs, concern, heard>>

\* The buttons of the list share its request (hx-sync is inherited) and abort the
\* one under way.  Cancel, like the Retry buttons, brings the list back ...
PressCancel(t, j) ==
  /\ tab[t].page = "jobs"
  /\ tab[t].shown[j] \in {"queued", "running", "reporting"}
  /\ tab' = [tab EXCEPT ![t].request = Request("cancel", j, Nothing)]
  /\ UNCHANGED <<busVars, state, selected, runs, concern, heard>>

\* ... and View log, on a job that has a log, brings a text for a slot of its own:
\* the list whose request it aborts does not come.
PressLog(t, j) ==
  /\ tab[t].page = "jobs"
  /\ j \notin Validation
  /\ tab[t].shown[j] \in {"running", "reporting", "ended"}
  /\ tab' = [tab EXCEPT ![t].request = Request("log", NoJob, Nothing)]
  /\ heard' = IF tab[t].request.phase \in {"none", "log"} THEN heard ELSE heard \ {t}
  /\ UNCHANGED <<busVars, state, selected, runs, concern>>

ShowLog(t) ==
  /\ tab[t].request.phase = "log"
  /\ tab' = [tab EXCEPT ![t].request = Idle]
  /\ UNCHANGED <<busVars, state, selected, runs, concern, heard>>

\* cancel_job ends a queued job at once and signals a running one.
AnswerCancel(t) ==
  LET j == tab[t].request.job
  IN  /\ tab[t].request.phase = "cancel"
      /\ IF state[j] = "queued" THEN Announce(j, "ended")
         ELSE UNCHANGED <<busVars, state, concern, heard>>
      /\ tab' = [tab EXCEPT ![t].request =
                   Request("answered", NoJob, View("jobs", selected, state'))]
      /\ UNCHANGED <<selected, runs>>

Swap(t) ==
  /\ tab[t].request.phase = "answered"
  /\ tab' = [tab EXCEPT ![t].shown = tab[t].request.view,
                        ![t].request = IF tab[t].again THEN Fetch ELSE Idle,
                        ![t].again = FALSE]
  /\ UNCHANGED <<busVars, state, selected, runs, concern, heard>>

-----------------------------------------------------------------------------
(* Validation *)

\* validate_library_control; a page is refused when another library has been
\* selected since.
Validate(t, v) ==
  /\ tab[t].page = "library"
  /\ tab[t].posted = NoJob
  /\ tab[t].library = selected
  /\ v \in Validation
  /\ LibraryOf[v] = selected
  /\ state[v] = "absent"
  /\ Announce(v, "queued")
  /\ \E kept \in LetGo : runs' = kept \cup {v}
  /\ tab' = [tab EXCEPT ![t].posted = v]
  /\ UNCHANGED selected

\* Mutant: what came before the panel is not looked at (no htmx:load handler).
ShowPanelOnly(t) ==
  /\ tab[t].posted # NoJob
  /\ tab' = [tab EXCEPT ![t].panel = tab[t].posted, ![t].posted = NoJob]
  /\ UNCHANGED <<busVars, state, selected, runs, concern, heard>>

\* The answer to the form, the panel, is put into the page (htmx:load).
ShowPanel(t) ==
  /\ tab[t].posted # NoJob
  /\ tab' = [tab EXCEPT ![t] =
                   Applied([tab[t] EXCEPT !.panel = tab[t].posted, !.posted = NoJob])]
  /\ UNCHANGED <<busVars, state, selected, runs, concern, heard>>

\* The server has the result of this validation, for the selected library.
Obtainable(v) == v \in runs /\ LibraryOf[v] = selected

\* The result takes the place of any panel; a 404 changes nothing on the page.
ShowResult(t, v) ==
  /\ v \in tab[t].results
  /\ tab' = [tab EXCEPT ![t].results = @ \ {v},
                        ![t].panel = IF Obtainable(v) THEN NoJob ELSE @]
  /\ UNCHANGED <<busVars, state, selected, runs, concern, heard>>

-----------------------------------------------------------------------------
Queue == \E j \in Job : Enqueue(j) \/ Start(j) \/ Report(j) \/ End(j)

Server(t) ==
  \/ Answer(t) \/ AnswerCancel(t) \/ ShowLog(t) \/ \E v \in Validation : ShowResult(t, v)

Browser(t) == Connect(t) \/ Deliver(t) \/ Swap(t) \/ ShowPanel(t)

User(t) ==
  \/ \E p \in Page : Render(t, p)
  \/ Disconnect(t)
  \/ \E j \in Job : PressCancel(t, j) \/ PressLog(t, j)
  \/ \E v \in Validation : Validate(t, v)

Next ==
  \/ Queue
  \/ \E l \in Library : Select(l)
  \/ \E t \in Tab : Server(t) \/ Browser(t) \/ User(t)

Spec == Init /\ [][Next]_vars

\* The server answers, and the browser takes what it is given.
Fairness ==
  \A t \in Tab :
    /\ WF_vars(Deliver(t))
    /\ WF_vars(ShowPanel(t))
    /\ \A v \in Validation : WF_vars(ShowResult(t, v))

FairSpec == Spec /\ Fairness
-----------------------------------------------------------------------------
(***************************************************************************)
(* A page that has heard of the last event that concerns it shows the jobs *)
(* as they are once its requests have ended: no answer from before that    *)
(* event is put into the page after one from behind it, whether events,    *)
(* buttons, answers and changes of the selected library come in any order. *)
(* It does not hold of a tab where View log aborted a request that would   *)
(* have brought the list: that page stays as it was until the next event   *)
(* that concerns it, and counts as one that has not heard.                 *)
(***************************************************************************)
CurrentWhenHeard ==
  \A t \in heard :
    LET r == tab[t]
    IN  r.request = Idle => r.shown = View(r.page, selected, state)

\* The tab has, or will be given, the last event of a validation.
Knows(t, v) ==
  \/ v \in tab[t].over
  \/ /\ tab[t].stream = LibraryOf[v]
     /\ \E i \in DOMAIN buffer[t] :
          buffer[t][i].notice.job = v /\ buffer[t][i].notice.state = "ended"

\* The server has refused the result to the tab.
Refused(t, v) == v \in tab[t].asked \ tab[t].results

(***************************************************************************)
(* A validation's panel does not wait for ever: also if its last event     *)
(* came before the panel, the result is shown, unless the event is lost    *)
(* with its connection or to overflow, or the server has let the result    *)
(* go.                                                                     *)
(***************************************************************************)
PanelAnswered ==
  \A t \in Tab, v \in Validation :
    (tab[t].panel = v /\ Knows(t, v) /\ ~Refused(t, v))
      ~> (tab[t].panel # v \/ ~Knows(t, v) \/ ~Obtainable(v))
=============================================================================
