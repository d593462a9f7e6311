----------------------------- MODULE PageProofs -----------------------------
(***************************************************************************)
(* Proofs about module DetailsPage, for any number of reloads under way,   *)
(* of open rows and visualizations, of failing requests and of changes of  *)
(* the status.                                                             *)
(***************************************************************************)
EXTENDS DetailsPage, TLAPS

\* The question is asked with the buttons disabled, and nothing touches the
\* timer before the navigation bar is there.
Handlers ==
  /\ dialog => disabled
  /\ ~navbar => ~paused /\ interval = "short"

\* The two parts of PageTypeOK, which need different provers.
Flags ==
  /\ navbar \in BOOLEAN /\ disabled \in BOOLEAN /\ paused \in BOOLEAN
  /\ dialog \in BOOLEAN /\ asking \in BOOLEAN /\ listed \in BOOLEAN
  /\ drawn \in BOOLEAN /\ stuck \in BOOLEAN /\ redrawn \in BOOLEAN

Data ==
  /\ status \in Status /\ subState \in Status
  /\ interval \in Intervals /\ left \in {"stays", "deleting", "gone"}
  /\ refreshTimer \in 0..1 /\ ticking \in Nat
  /\ tokens \in Nat /\ delayed \in Nat /\ tokens + delayed <= MaxReloads + 1
  /\ drawing \in 0..(MaxReloads + 1)
  /\ timeouts \in 0..1 /\ (timeouts = 1 => disabled /\ ~dialog)
  /\ panel \in Panels
  /\ openLogDetails \in 0..MaxRows /\ rows \in 0..openLogDetails
  /\ expanded \in 0..MaxTabs /\ (expanded > 0 => panel = "right")
  /\ faults \in 0..MaxFaults /\ changes \in 0..MaxChanges

Inv == Data /\ OneTimer /\ PausedIsBusy /\ Handlers

IInv == Flags /\ Inv

USE PageAssumption DEF Intervals, Panels

LEMMA InitInv == Init => IInv
<1>1. Init => Flags
  BY DEF Init, Flags
<1>2. Init => Inv
  BY DEF Init, Inv, Data, OneTimer, PausedIsBusy, Handlers
<1> QED
  BY <1>1, <1>2 DEF IInv

\* The flags stay flags.
LEMMA NextFlags == Flags /\ [Next]_vars => Flags'
<1> SUFFICES ASSUME Flags, [Next]_vars PROVE Flags'
  OBVIOUS
<1> USE DEF Flags, server, reloading, command, view, requests, logs, visuals,
            history, timer
<1>1. CASE LoadNavbar \/ TimerChange \/ Reload
  BY <1>1, Zenon DEF LoadNavbar, TimerChange, Reload
<1>2. CASE TokenAnswer \/ TokenFails \/ DelayedRedraw
  <2>1. Redraw => Flags'
    BY Zenon DEF Redraw
  <2>2. CASE TokenAnswer
    BY <2>1, <2>2, Zenon DEF TokenAnswer
  <2>3. CASE TokenFails \/ DelayedRedraw
    BY <2>1, <2>3, Zenon DEF TokenFails, DelayedRedraw
  <2> QED
    BY <1>2, <2>2, <2>3
<1>9. CASE LogsAnswer \/ LogsFail \/ VisualsAnswer \/ FilterLogs
  BY <1>9, Zenon DEF LogsAnswer, LogsFail, VisualsAnswer, FilterLogs
<1>3. CASE ClickTooEarly \/ ClickSends \/ ClickAsks \/ ClickTooLate \/ ClickFails
  BY <1>3, Zenon DEF ClickTooEarly, ClickSends, ClickAsks, ClickTooLate,
                     ClickFails, Click, PauseRefresh
<1>4. CASE AnswerNo \/ AnswerYes \/ DeleteDone \/ DeleteFails
  BY <1>4, Zenon DEF AnswerNo, AnswerYes, DeleteDone, DeleteFails
<1>5. CASE TimeOut
  BY <1>5, Zenon DEF TimeOut, EndCommand, ResumeRefresh
<1>6. CASE OpenRow \/ Expand
  BY <1>6, Zenon DEF OpenRow, Expand, PauseRefresh
<1>7. CASE CloseRow \/ Collapse \/ NewView
  BY <1>7, Zenon DEF CloseRow, Collapse, NewView, ResumeRefresh
<1>8. CASE ServerChanges \/ UNCHANGED vars
  BY <1>8, Zenon DEF ServerChanges, vars
<1> QED
  BY <1>1, <1>2, <1>3, <1>4, <1>5, <1>6, <1>7, <1>8, <1>9
     DEF Next, Callbacks

-----------------------------------------------------------------------------
\* The refresh timer's own handlers, and the reloads.
LEMMA RefreshStep ==
  ASSUME IInv,
         LoadNavbar \/ TimerChange \/ Reload \/ TokenAnswer \/ TokenFails
           \/ DelayedRedraw \/ LogsAnswer \/ LogsFail \/ VisualsAnswer
  PROVE  Inv'
<1> USE DEF IInv, Inv, Flags, Data, OneTimer, PausedIsBusy, Handlers, server,
            reloading, command, view, requests, logs, visuals, history,
            timer
<1>1. CASE LoadNavbar
  BY <1>1 DEF LoadNavbar
<1>2. CASE TimerChange
  BY <1>2 DEF TimerChange
<1>3. CASE Reload
  BY <1>3 DEF Reload
<1>4. CASE TokenAnswer
  BY <1>4 DEF TokenAnswer, Redraw
<1>5. CASE TokenFails
  BY <1>5 DEF TokenFails
<1>6. CASE DelayedRedraw
  BY <1>6 DEF DelayedRedraw, Redraw
<1>7. CASE LogsAnswer \/ LogsFail
  BY <1>7 DEF LogsAnswer, LogsFail
<1>8. CASE VisualsAnswer
  BY <1>8 DEF VisualsAnswer
<1> QED
  BY <1>1, <1>2, <1>3, <1>4, <1>5, <1>6, <1>7, <1>8

\* Commands, up to what ends them.
LEMMA CommandStep ==
  ASSUME IInv,
         ClickTooEarly \/ ClickSends \/ ClickAsks \/ ClickTooLate \/ ClickFails
           \/ AnswerNo \/ AnswerYes \/ DeleteDone \/ DeleteFails \/ TimeOut
  PROVE  Inv'
<1> USE DEF IInv, Inv, Flags, Data, OneTimer, PausedIsBusy, Handlers, server,
            reloading, command, view, requests, logs, visuals, history,
            timer
<1>1. CASE ClickTooEarly
  BY <1>1 DEF ClickTooEarly, PauseRefresh
<1>2. CASE ClickSends
  BY <1>2 DEF ClickSends, Click, PauseRefresh
<1>3. CASE ClickAsks
  BY <1>3 DEF ClickAsks, Click, PauseRefresh
<1>4. CASE ClickTooLate
  BY <1>4 DEF ClickTooLate
<1>5. CASE ClickFails
  BY <1>5 DEF ClickFails, Click, PauseRefresh
<1>6. CASE AnswerNo
  BY <1>6 DEF AnswerNo
<1>7. CASE AnswerYes
  BY <1>7 DEF AnswerYes
<1>8. CASE DeleteDone \/ DeleteFails
  BY <1>8 DEF DeleteDone, DeleteFails
<1>9. CASE TimeOut
  BY <1>9 DEF TimeOut, EndCommand, ResumeRefresh
<1> QED
  BY <1>1, <1>2, <1>3, <1>4, <1>5, <1>6, <1>7, <1>8, <1>9

\* Log rows, visualizations, and the server.
LEMMA ViewStep ==
  ASSUME IInv,
         OpenRow \/ CloseRow \/ FilterLogs \/ Expand \/ Collapse \/ NewView
           \/ ServerChanges
  PROVE  Inv'
<1> USE DEF IInv, Inv, Flags, Data, OneTimer, PausedIsBusy, Handlers, server,
            reloading, command, view, requests, logs, visuals, history,
            timer
<1>1. CASE OpenRow
  BY <1>1 DEF OpenRow, PauseRefresh
<1>2. CASE CloseRow
  BY <1>2 DEF CloseRow, ResumeRefresh
<1>3. CASE Expand
  BY <1>3 DEF Expand, PauseRefresh
<1>4. CASE Collapse
  BY <1>4 DEF Collapse, ResumeRefresh
<1>5. CASE FilterLogs
  BY <1>5 DEF FilterLogs
<1>6. CASE NewView
  BY <1>6 DEF NewView, ResumeRefresh
<1>7. CASE ServerChanges
  BY <1>7 DEF ServerChanges
<1> QED
  BY <1>1, <1>2, <1>3, <1>4, <1>5, <1>6, <1>7

LEMMA NextInv == IInv /\ [Next]_vars => IInv'
<1> SUFFICES ASSUME IInv, [Next]_vars PROVE IInv'
  OBVIOUS
<1>1. Flags'
  BY NextFlags DEF IInv
<1>2. CASE Next
  BY <1>1, <1>2, RefreshStep, CommandStep, ViewStep DEF Next, Callbacks, IInv
<1>3. CASE UNCHANGED vars
  BY <1>1, <1>3 DEF vars, server, timer, command, reloading, view, requests, logs,
                    visuals, history, IInv, Inv, Data, OneTimer, PausedIsBusy, Handlers
<1> QED
  BY <1>2, <1>3

LEMMA Invariance == Spec => []IInv
  BY InitInv, NextInv, PTL DEF Spec

-----------------------------------------------------------------------------
\* The page's variables keep their types; at most one command waits for its
\* end and the buttons are disabled until then.
THEOREM PageTypeCorrect == Spec => []PageTypeOK
<1>1. IInv => PageTypeOK
  BY DEF IInv, Flags, Inv, Data, PageTypeOK
<1> QED
  BY <1>1, Invariance, PTL

\* Whatever pauses and resumes it in whatever order, the page has the one
\* interval that refreshTimer holds, or none when paused or manual.
THEOREM TimerIsOne == Spec => []OneTimer
<1>1. IInv => OneTimer
  BY DEF IInv, Inv
<1> QED
  BY <1>1, Invariance, PTL

\* A paused page has something on it that will resume the reloading (a
\* command that ends, a row or a visualization that is really open), as long
\* as no request failed unheeded, no answer closed an expanded visualization
\* and openLogDetails counts the open rows; however many rows, visualizations
\* and requests there are, and whatever was opened and closed in what order.
THEOREM PauseHasReason == Spec => []PausedIsBusy
<1>1. IInv => PausedIsBusy
  BY DEF IInv, Inv
<1> QED
  BY <1>1, Invariance, PTL
=============================================================================
