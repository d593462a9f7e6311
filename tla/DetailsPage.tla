----------------------------- MODULE DetailsPage -----------------------------
(***************************************************************************)
(* The page of one service instance (detailsEngine.js, details.js and the  *)
(* refresh and log parts of nexus.js): the browser runs one handler at a   *)
(* time, but clicks, interval ticks, time-outs and answers of requests     *)
(* come in any order between them.                                         *)
(*                                                                         *)
(* The page reloads itself at an interval.  The reloading is paused while  *)
(* a command is sent, a log row is open or a visualization is expanded;    *)
(* each of the three pauses and resumes it without knowing of the others.  *)
(* A reload asks for the status at once, and for the logs and the          *)
(* visualizations in requests of their own, whose answers close what the   *)
(* user has opened meanwhile; choosing another level of logs does so too.  *)
(*                                                                         *)
(* The page has three panels, of which one is in view: log rows on the     *)
(* left, the commands in the middle, visualizations on the right.  The     *)
(* commands are all alike but for deletion, which asks first.  What the    *)
(* server does with them is its own affair: its status may change at any   *)
(* time, among substates that have visualizations.                         *)
(***************************************************************************)
EXTENDS Naturals

CONSTANTS
  Status,      \* substates of the instance
  MaxReloads,  \* bound: reloads under way at a time
  MaxRows,     \* bound: value of openLogDetails
  MaxTabs,     \* tabs of visualizations
  MaxFaults,   \* bound: requests that fail
  MaxChanges   \* bound: changes of the server's status

ASSUME PageAssumption ==
  /\ MaxReloads \in Nat \ {0} /\ MaxRows \in Nat /\ MaxTabs \in Nat
  /\ MaxFaults \in Nat /\ MaxChanges \in Nat

VARIABLES
  status,         \* the substate the server would report
  subState,       \* the substate shown
  navbar,         \* the navigation bar, which holds the timer, is loaded
  disabled,       \* .instance-command is disabled
  paused,         \* #refresh-timer is disabled
  interval,       \* the value of #refresh-timer
  ticking,        \* intervals that are alive
  refreshTimer,   \* 1 when the variable holds a live interval, else 0
  dialog,         \* the question whether to delete is open
  timeouts,       \* pending time-outs that end a command
  tokens,         \* reloads waiting for their token
  delayed,        \* reloads waiting 250 ms
  asking,         \* the request for the logs is under way
  drawing,        \* requests for the visualizations under way
  panel,          \* the panel in view (view)
  listed,         \* the table of logs was filled
  openLogDetails, \* openLogDetails
  rows,           \* log rows that really are open
  drawn,          \* the visualizations were drawn
  expanded,       \* visualizations that are expanded, at most one in a tab
  left,           \* "stays", "deleting" or "gone"
  faults, changes,
  stuck,          \* a request failed, or a click came before the navbar
  redrawn         \* visualizations were closed by being drawn again while
                  \* the page was paused (read by no action)

timer == <<paused, interval, ticking, refreshTimer>>
command == <<disabled, dialog, timeouts, left>>
reloading == <<tokens, delayed>>
requests == <<asking, drawing>>
logs == <<listed, openLogDetails, rows>>
visuals == <<drawn, expanded>>
view == <<requests, panel, logs, visuals>>
server == <<status, changes>>
history == <<faults, stuck, redrawn>>
vars == <<server, subState, navbar, timer, command, reloading, view, history>>

Intervals == {"off", "short", "long"}   \* long: more than 15 seconds
Panels == {"left", "center", "right"}   \* logs, commands, visualizations

\* loadDetails, with startDetailsEngine, loadDataTable and reloadLogs.
Init ==
  /\ status \in Status /\ subState = status
  /\ navbar = FALSE /\ disabled = FALSE /\ paused = FALSE
  /\ interval = "short" /\ ticking = 0 /\ refreshTimer = 0
  /\ dialog = FALSE /\ timeouts = 0 /\ tokens = 0 /\ delayed = 0
  /\ asking = TRUE /\ drawing = 1 /\ panel = "center"
  /\ listed = FALSE /\ openLogDetails = 0 /\ rows = 0
  /\ drawn = FALSE /\ expanded = 0
  /\ left = "stays" /\ faults = 0 /\ changes = 0
  /\ stuck = FALSE /\ redrawn = FALSE

-----------------------------------------------------------------------------
(***************************************************************************)
(* nexus.js: the refresh timer.                                            *)
(***************************************************************************)

\* pauseRefresh.  Before the navbar is loaded it throws at the button.
PauseRefresh ==
  /\ paused' = navbar
  /\ ticking' = ticking - refreshTimer
  /\ refreshTimer' = 0

\* Mutant of ResumeRefresh: whether the timer is paused is not asked.
ResumeRefreshAlways ==
  /\ paused' = FALSE
  /\ ticking' = ticking + (IF interval = "off" THEN 0 ELSE 1)
  /\ refreshTimer' = IF interval = "off" THEN refreshTimer ELSE 1

\* resumeRefresh, with setRefresh, which forgets the interval it replaces.
ResumeRefresh ==
  /\ paused' = FALSE
  /\ IF paused /\ interval # "off"
       THEN ticking' = ticking + 1 /\ refreshTimer' = 1
       ELSE UNCHANGED <<ticking, refreshTimer>>

LoadNavbar ==
  /\ ~navbar /\ navbar' = TRUE
  /\ ticking' = ticking + 1 /\ refreshTimer' = 1
  /\ UNCHANGED <<server, subState, paused, interval, command, reloading, view,
                 history>>

\* timerChange, which the disabled select does not call.
TimerChange ==
  /\ navbar /\ ~paused /\ ~dialog
  /\ \E v \in Intervals \ {interval} :
       /\ interval' = v
       /\ ticking' = ticking - refreshTimer + (IF v = "off" THEN 0 ELSE 1)
       /\ refreshTimer' = IF v = "off" THEN 0 ELSE 1
  /\ UNCHANGED <<server, subState, navbar, paused, command, reloading, view,
                 history>>

\* reloadData is called by an interval or by the button.
Reload ==
  /\ tokens + delayed < MaxReloads
  /\ \/ ticking > 0
     \/ navbar /\ ~paused /\ ~dialog
  /\ tokens' = tokens + 1
  /\ UNCHANGED <<server, subState, navbar, timer, command, delayed, view,
                 history>>

\* reloadLogs, updateData and renderDetails: the logs are asked for (twice,
\* but the second request aborts the first), the status is there at once, and
\* the visualizations are asked for.  A status that is not answered leaves
\* the old substate.
Redraw ==
  /\ asking' = TRUE
  /\ \/ subState' = status /\ UNCHANGED faults
     \/ faults < MaxFaults /\ faults' = faults + 1 /\ UNCHANGED subState
  /\ drawing <= MaxReloads /\ drawing' = drawing + 1
  /\ UNCHANGED <<server, navbar, timer, command, panel, logs, visuals, stuck,
                 redrawn>>

\* The table is filled anew: its rows are closed, and openLogDetails is not
\* told.
LogsAnswer ==
  /\ asking /\ asking' = FALSE
  /\ listed' = TRUE /\ rows' = 0
  /\ UNCHANGED <<server, subState, navbar, timer, command, reloading, drawing,
                 panel, openLogDetails, visuals, history>>

LogsFail ==
  /\ asking /\ asking' = FALSE
  /\ faults < MaxFaults /\ faults' = faults + 1
  /\ UNCHANGED <<server, subState, navbar, timer, command, reloading, drawing,
                 panel, logs, visuals, stuck, redrawn>>

\* The handler of loadVisualization, which load calls also when the request
\* failed: the panel is emptied and filled again, the timer is not told.
VisualsAnswer ==
  /\ drawing > 0 /\ drawing' = drawing - 1
  /\ drawn' = TRUE /\ expanded' = 0
  /\ redrawn' = (redrawn \/ (paused /\ expanded > 0))
  /\ UNCHANGED <<server, subState, navbar, timer, command, reloading, asking,
                 panel, logs, faults, stuck>>

\* The token is there: at once, or after the panel has moved away.
TokenAnswer ==
  /\ tokens > 0 /\ tokens' = tokens - 1
  /\ IF interval = "long"
       THEN /\ delayed' = delayed + 1
            /\ UNCHANGED <<server, subState, navbar, timer, command, view,
                           history>>
       ELSE Redraw /\ UNCHANGED delayed

\* updateToken fails: the reload is over.
TokenFails ==
  /\ tokens > 0 /\ tokens' = tokens - 1
  /\ faults < MaxFaults /\ faults' = faults + 1
  /\ UNCHANGED <<server, subState, navbar, timer, command, delayed, view, stuck,
                 redrawn>>

DelayedRedraw ==
  /\ delayed > 0 /\ delayed' = delayed - 1
  /\ Redraw /\ UNCHANGED tokens

-----------------------------------------------------------------------------
(***************************************************************************)
(* detailsEngine.js: commands.                                             *)
(***************************************************************************)

\* The end of a command: buttons and timer are back, the page is reloaded.
EndCommand ==
  /\ disabled' = FALSE
  /\ ResumeRefresh /\ redrawn' = FALSE
  /\ tokens + delayed <= MaxReloads /\ tokens' = tokens + 1

\* The click handler up to its answer when the navbar is not there yet: the
\* buttons are disabled, pauseRefresh throws.
ClickTooEarly ==
  /\ left = "stays" /\ panel = "center" /\ ~disabled /\ ~navbar
  /\ disabled' = TRUE /\ stuck' = TRUE
  /\ PauseRefresh
  /\ UNCHANGED <<server, subState, navbar, interval, dialog, timeouts, left,
                 reloading, view, faults, redrawn>>

\* Mutant of Click: the buttons stay enabled.
ClickLeavesEnabled ==
  /\ left = "stays" /\ panel = "center" /\ ~disabled /\ navbar /\ ~dialog
  /\ UNCHANGED disabled
  /\ PauseRefresh
  /\ redrawn' = (redrawn /\ paused)

\* The click handler up to the answer: buttons disabled, timer paused.
Click ==
  /\ left = "stays" /\ panel = "center" /\ ~disabled /\ navbar /\ ~dialog
  /\ disabled' = TRUE
  /\ PauseRefresh
  /\ redrawn' = (redrawn /\ paused)

\* The substate is still the one shown: the command is sent, the end of it
\* is a time-out away, whatever the server answers.
ClickSends ==
  /\ Click /\ status = subState
  /\ timeouts' = timeouts + 1
  /\ UNCHANGED <<server, subState, navbar, interval, dialog, left, reloading,
                 view, faults, stuck>>

ClickAsks ==
  /\ Click /\ status = subState
  /\ dialog' = TRUE
  /\ UNCHANGED <<server, subState, navbar, interval, timeouts, left, reloading,
                 view, faults, stuck>>

\* The substate has changed: no command, the page is reloaded at once.  The
\* timer is paused and resumed in one step.
ClickTooLate ==
  /\ left = "stays" /\ panel = "center" /\ ~disabled /\ navbar /\ ~dialog
  /\ status # subState
  /\ tokens + delayed <= MaxReloads /\ tokens' = tokens + 1
  /\ paused' = FALSE /\ redrawn' = FALSE
  /\ LET n == IF interval = "off" THEN 0 ELSE 1
     IN  ticking' = ticking - refreshTimer + n /\ refreshTimer' = n
  /\ UNCHANGED <<server, subState, navbar, interval, command, delayed, view,
                 faults, stuck>>

\* The request for the status fails: it has no error handler.
ClickFails ==
  /\ Click
  /\ faults < MaxFaults /\ faults' = faults + 1 /\ stuck' = TRUE
  /\ UNCHANGED <<server, subState, navbar, interval, dialog, timeouts, left,
                 reloading, view>>

AnswerNo ==
  /\ dialog /\ dialog' = FALSE
  /\ timeouts' = timeouts + 1
  /\ UNCHANGED <<server, subState, navbar, timer, disabled, left, reloading,
                 view, history>>

\* Deletion is sent; no time-out ends it.
AnswerYes ==
  /\ dialog /\ dialog' = FALSE
  /\ left' = "deleting"
  /\ UNCHANGED <<server, subState, navbar, timer, disabled, timeouts, reloading,
                 view, history>>

DeleteDone ==
  /\ left = "deleting" /\ left' = "gone"
  /\ UNCHANGED <<server, subState, navbar, timer, disabled, dialog, timeouts,
                 reloading, view, history>>

DeleteFails ==
  /\ left = "deleting" /\ left' = "stays"
  /\ faults < MaxFaults /\ faults' = faults + 1 /\ stuck' = TRUE
  /\ UNCHANGED <<server, subState, navbar, timer, disabled, dialog, timeouts,
                 reloading, view, redrawn>>

\* Mutant of TimeOut: only the timer is resumed.
TimeOutKeepsDisabled ==
  /\ timeouts > 0 /\ timeouts' = timeouts - 1
  /\ ResumeRefresh /\ redrawn' = FALSE
  /\ tokens + delayed <= MaxReloads /\ tokens' = tokens + 1
  /\ UNCHANGED <<server, subState, navbar, interval, disabled, dialog, left,
                 delayed, view, faults, stuck>>

\* 250, 500 or 2000 ms after the command.
TimeOut ==
  /\ timeouts > 0 /\ timeouts' = timeouts - 1
  /\ EndCommand
  /\ UNCHANGED <<server, subState, navbar, interval, dialog, left, delayed,
                 view, faults, stuck>>

-----------------------------------------------------------------------------
(***************************************************************************)
(* Log rows and visualizations.                                            *)
(***************************************************************************)

OpenRow ==
  /\ panel = "left" /\ ~dialog /\ listed /\ openLogDetails < MaxRows
  /\ openLogDetails' = openLogDetails + 1 /\ rows' = rows + 1
  /\ PauseRefresh /\ redrawn' = (redrawn /\ paused)
  /\ UNCHANGED <<server, subState, navbar, interval, command, reloading,
                 requests, panel, listed, visuals, faults, stuck>>

\* Mutant of CloseRow: the counter is asked before it is counted down.
CloseRowAsksFirst ==
  /\ panel = "left" /\ ~dialog /\ rows > 0
  /\ openLogDetails' = openLogDetails - 1 /\ rows' = rows - 1
  /\ IF openLogDetails = 0
       THEN ResumeRefresh /\ redrawn' = FALSE
       ELSE UNCHANGED <<paused, ticking, refreshTimer, redrawn>>
  /\ UNCHANGED <<server, subState, navbar, interval, command, reloading,
                 requests, panel, listed, visuals, faults, stuck>>

CloseRow ==
  /\ panel = "left" /\ ~dialog /\ rows > 0
  /\ openLogDetails' = openLogDetails - 1 /\ rows' = rows - 1
  /\ IF openLogDetails' = 0
       THEN ResumeRefresh /\ redrawn' = FALSE
       ELSE UNCHANGED <<paused, ticking, refreshTimer, redrawn>>
  /\ UNCHANGED <<server, subState, navbar, interval, command, reloading,
                 requests, panel, listed, visuals, faults, stuck>>

\* Another level of logs: the request under way is aborted.
FilterLogs ==
  /\ panel = "left" /\ ~dialog /\ asking' = TRUE
  /\ UNCHANGED <<server, subState, navbar, timer, command, reloading, drawing,
                 panel, logs, visuals, history>>

\* A click on a header of a tab in which none is expanded: it hides the
\* others of its tab.
Expand ==
  /\ panel = "right" /\ ~dialog /\ drawn /\ expanded < MaxTabs
  /\ expanded' = expanded + 1
  /\ PauseRefresh /\ redrawn' = (redrawn /\ paused)
  /\ UNCHANGED <<server, subState, navbar, interval, command, reloading,
                 requests, panel, drawn, logs, faults, stuck>>

\* A click on an expanded header resumes, whatever is open besides.
Collapse ==
  /\ panel = "right" /\ ~dialog /\ expanded > 0
  /\ expanded' = expanded - 1
  /\ ResumeRefresh /\ redrawn' = FALSE
  /\ UNCHANGED <<server, subState, navbar, interval, command, reloading,
                 requests, panel, drawn, logs, faults, stuck>>

\* newView, by the arrow keys (which work while the question is open) or the
\* tabs of the navbar: when the visualizations are left, closeVisTabs clicks
\* the headers that are expanded.
NewView ==
  /\ panel' \in Panels
  /\ IF panel = "right" /\ expanded > 0
       THEN expanded' = 0 /\ ResumeRefresh /\ redrawn' = FALSE
       ELSE UNCHANGED <<expanded, paused, ticking, refreshTimer, redrawn>>
  /\ UNCHANGED <<server, subState, navbar, interval, command, reloading,
                 requests, drawn, logs, faults, stuck>>

\* The instance lives its own life.
ServerChanges ==
  /\ changes < MaxChanges /\ changes' = changes + 1
  /\ status' \in Status \ {status}
  /\ UNCHANGED <<subState, navbar, timer, command, reloading, view, history>>

Callbacks ==
  \/ TokenAnswer \/ TokenFails \/ DelayedRedraw \/ TimeOut
  \/ LogsAnswer \/ LogsFail \/ VisualsAnswer

Next ==
  /\ left # "gone"
  /\ \/ LoadNavbar \/ TimerChange \/ Reload
     \/ Callbacks
     \/ ClickTooEarly \/ ClickSends \/ ClickAsks \/ ClickTooLate \/ ClickFails
     \/ AnswerNo \/ AnswerYes \/ DeleteDone \/ DeleteFails
     \/ OpenRow \/ CloseRow \/ FilterLogs \/ Expand \/ Collapse \/ NewView
     \/ ServerChanges

\* The browser runs what is due, requests are answered or fail, and the user
\* answers a question.  Nobody has to click.
Fairness ==
  /\ WF_vars(left # "gone" /\ (TokenAnswer \/ TokenFails))
  /\ WF_vars(left # "gone" /\ DelayedRedraw)
  /\ WF_vars(left # "gone" /\ TimeOut)
  /\ WF_vars(left # "gone" /\ (LogsAnswer \/ LogsFail))
  /\ WF_vars(left # "gone" /\ VisualsAnswer)
  /\ WF_vars(left # "gone" /\ (AnswerNo \/ AnswerYes))
  /\ WF_vars(left # "gone" /\ (DeleteDone \/ DeleteFails))

Spec == Init /\ [][Next]_vars /\ Fairness

-----------------------------------------------------------------------------
(***************************************************************************)
(* Properties.                                                             *)
(***************************************************************************)

\* The variables have their types; one command at most waits for its end,
\* with the buttons disabled meanwhile, openLogDetails never counts fewer
\* rows than are open, and nothing is expanded out of view.
PageTypeOK ==
  /\ status \in Status /\ subState \in Status
  /\ navbar \in BOOLEAN /\ disabled \in BOOLEAN /\ paused \in BOOLEAN
  /\ dialog \in BOOLEAN /\ asking \in BOOLEAN /\ listed \in BOOLEAN
  /\ drawn \in BOOLEAN /\ stuck \in BOOLEAN /\ redrawn \in BOOLEAN
  /\ interval \in Intervals /\ left \in {"stays", "deleting", "gone"}
  /\ refreshTimer \in 0..1 /\ ticking \in Nat
  /\ tokens \in Nat /\ delayed \in Nat /\ tokens + delayed <= MaxReloads + 1
  /\ drawing \in 0..(MaxReloads + 1)
  /\ timeouts \in 0..1 /\ (timeouts = 1 => disabled /\ ~dialog)
  /\ panel \in Panels
  /\ openLogDetails \in 0..MaxRows /\ rows \in 0..openLogDetails
  /\ expanded \in 0..MaxTabs /\ (expanded > 0 => panel = "right")
  /\ faults \in 0..MaxFaults /\ changes \in 0..MaxChanges

\* Three parts of the page pause and resume the reloading independently, the
\* user changes the interval, and an interval that is no longer in
\* refreshTimer can never be stopped: there is exactly one live interval,
\* the one refreshTimer holds, when the page is neither paused nor manual,
\* and none otherwise.
OneTimer ==
  /\ ticking = refreshTimer
  /\ refreshTimer = IF navbar /\ ~paused /\ interval # "off" THEN 1 ELSE 0

\* While the reloading is paused, something on the page really is going to
\* resume it: the end of a command, or the user closing a row or a
\* visualization that is open.  Excepted are requests that nobody waits for
\* the failure of; visualizations that were expanded when an answer drew them
\* again; and an openLogDetails that has lost count, because the table was
\* filled anew, by a reload or by another level, with rows open: from then on
\* closing the last row does not resume, and a page may stay paused with
\* nothing open.
PausedIsBusy ==
  (/\ paused /\ ~stuck /\ left = "stays"
   /\ ~redrawn /\ openLogDetails = rows) =>
     timeouts > 0 \/ dialog \/ rows > 0 \/ expanded > 0

\* The buttons come back after every command, unless the page is left or a
\* request without an error handler fails.
ButtonsReturn ==
  (disabled /\ ~stuck) ~> (~disabled \/ stuck \/ left = "gone")
=============================================================================
