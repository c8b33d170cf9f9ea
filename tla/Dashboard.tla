------------------------------ MODULE Dashboard ------------------------------
(***************************************************************************)
(* The dashboard's keys, selection, pause and dialogs (ui/dashboard.py,    *)
(* ui/keyreader.py), and the requests that come of them.                   *)
(*                                                                         *)
(* Keys wait in a queue; a key was pressed by somebody who saw what was    *)
(* drawn then.  The loop handles every key there is, then draws.           *)
(***************************************************************************)
EXTENDS Response, FiniteSets, SequencesExt

CONSTANT MaxKeys   \* bound on the keys waiting

ASSUME DashboardAssumption == MaxKeys \in Nat

VARIABLES
  dashboard,       \* "open", "closing" (waits for its background work), "closed"
  list, paused,    \* the processes shown, in their order
  selected,        \* _selected_key, _selected_index
  keys,            \* the key reader's queue
  dialog, drawn,   \* _modal; the dialog on the screen
  redraw           \* the loop is about to draw

view == <<list, paused, selected, keys, dialog, drawn, redraw>>
dashboardVars == <<dashboard, view>>

NoDialog == [kind |-> "none", process |-> NoOne]

InitView ==
  /\ list = <<>> /\ paused = FALSE /\ selected = [key |-> NoOne, index |-> 1]
  /\ keys = <<>> /\ dialog = NoDialog /\ drawn = NoDialog /\ redraw = TRUE
InitDashboard == dashboard = "open" /\ InitView

\* order_processes; the order is that of a figure which changes all the time.
Orders(S) == SetToSeqs(S)

\* _live_data, _data: the running processes as of some poll; in a pause, which keeps
\* the lists of its beginning, only the order changes.
Refresh ==
  /\ dashboard = "open"
  /\ list' \in Orders(IF paused THEN ToSet(list) ELSE alive)
  /\ UNCHANGED <<responseVars, dashboard, paused, selected, keys, dialog, drawn, redraw>>

RowOf(p) == CHOOSE i \in DOMAIN list : list[i] = p

\* _position: the selection follows the process; if that has gone, it keeps the row.
Position ==
  IF selected.key = NoOne \/ list = <<>> THEN selected
  ELSE IF selected.key \in ToSet(list) THEN [selected EXCEPT !.index = RowOf(selected.key)]
  ELSE LET i == IF selected.index < Len(list) THEN selected.index ELSE Len(list)
       IN [key |-> list[i], index |-> i]

SelectedProcess == IF list = <<>> THEN NoOne ELSE Position.key

\* A key in the queue is any key, except that a Y pressed by somebody whose screen
\* shows the dialog that is open, with no key before it, means the process shown.
Press ==
  /\ dashboard = "open" /\ Len(keys) < MaxKeys
  /\ \/ keys' = Append(keys, NoOne)
     \/ keys = <<>> /\ drawn = dialog /\ drawn.kind = "stop" /\ keys' = <<drawn.process>>
  /\ UNCHANGED <<responseVars, dashboard, list, paused, selected, dialog, drawn, redraw>>

\* Until the loop draws again, it handles the keys one by one; it is busy with a request
\* until that is recorded.
AtKeys == dashboard = "open" /\ ~redraw /\ request["dashboard"] = Idle
Handles ==
  /\ AtKeys /\ keys # <<>> /\ keys' = Tail(keys)
  /\ UNCHANGED <<machine, listed, unsure, list, drawn, redraw, hit>>
HandlesAny == Handles /\ Head(keys) = NoOne

\* _move, _move_to, _select
Move ==
  /\ HandlesAny /\ dialog = NoDialog
  /\ \/ \E i \in DOMAIN list : selected' = [key |-> list[i], index |-> i]
     \/ list = <<>> /\ UNCHANGED selected
  /\ UNCHANGED <<request, made, dashboard, paused, dialog, unmatched>>

Pause ==
  /\ HandlesAny /\ dialog = NoDialog
  /\ paused' = ~paused
  /\ UNCHANGED <<request, made, dashboard, selected, dialog, unmatched>>

\* _open_stop: what is protected is refused, and recorded, before the notice shows.
OpenStop ==
  /\ HandlesAny /\ dialog = NoDialog
  /\ selected' = Position
  /\ LET p == SelectedProcess IN
     IF p = NoOne THEN UNCHANGED <<dialog, request, made, unmatched>>
     ELSE IF p \in Protected
     THEN /\ made < MaxRequests /\ made' = made + 1
          /\ Decided("dashboard", New("terminate", p, "record", FALSE), "DENIED_BY_POLICY")
          /\ dialog' = [kind |-> "notice", process |-> p]
     ELSE dialog' = [kind |-> "stop", process |-> p] /\ UNCHANGED <<request, made, unmatched>>
  /\ UNCHANGED <<dashboard, paused>>

OpenTrim ==
  /\ HandlesAny /\ dialog = NoDialog
  /\ dialog' = IF request["trimmer"] = Idle THEN [kind |-> "trim", process |-> NoOne] ELSE dialog
  /\ UNCHANGED <<request, made, dashboard, paused, selected, unmatched>>

\* Fault: the stop goes to the row that is selected now.
SelectedNow == IF SelectedProcess = NoOne THEN dialog.process ELSE SelectedProcess

\* The process the dialog was opened for.
Confirmed == dialog.process

\* _handle_modal_key, Y: _stop, _start_trim.
Yes ==
  /\ Handles /\ dialog.kind \in {"stop", "trim"}
  /\ made < MaxRequests /\ made' = made + 1
  /\ LET meant == IF Head(keys) = NoOne THEN dialog.process ELSE Head(keys)
         stop == [New("terminate", Confirmed, "verify", FALSE) EXCEPT !.meant = meant]
     IN IF dialog.kind = "stop" THEN Step("dashboard", Carry(stop))
        ELSE Step("trimmer", New("trim", NoOne, "operate", FALSE))
  /\ dialog' = NoDialog
  /\ UNCHANGED <<dashboard, paused, selected, unmatched>>

\* N, Q or Esc
No ==
  /\ HandlesAny /\ dialog.kind \in {"stop", "trim"}
  /\ made < MaxRequests /\ made' = made + 1
  /\ LET verb == IF dialog.kind = "stop" THEN "terminate" ELSE "trim"
     IN Decided("dashboard", New(verb, dialog.process, "record", FALSE), "CANCELLED")
  /\ dialog' = NoDialog
  /\ UNCHANGED <<dashboard, paused, selected>>

\* Any answer to the notice of a refusal, and the keys that mean nothing now.
Dismiss ==
  /\ Handles
  /\ \/ dialog.kind = "notice" /\ dialog' = NoDialog
     \/ Head(keys) = NoOne /\ UNCHANGED dialog
  /\ UNCHANGED <<request, made, dashboard, paused, selected, unmatched>>

\* The queue was found empty: the loop draws, which settles the selection too.
FoundNoKeys ==
  /\ AtKeys /\ keys = <<>> /\ redraw' = TRUE
  /\ UNCHANGED <<responseVars, dashboard, list, paused, selected, keys, dialog, drawn>>

Draw ==
  /\ dashboard = "open" /\ redraw
  /\ redraw' = FALSE /\ drawn' = dialog /\ selected' = Position
  /\ UNCHANGED <<responseVars, dashboard, list, paused, keys, dialog>>

Leave(state) ==
  /\ dashboard' = state
  /\ list' = <<>> /\ paused' = FALSE /\ selected' = [key |-> NoOne, index |-> 1]
  /\ keys' = <<>> /\ dialog' = NoDialog /\ drawn' = NoDialog /\ redraw' = TRUE

\* Q or Esc without a dialog, Ctrl+C, or the duration is over.
Quit == AtKeys /\ Leave("closing") /\ UNCHANGED responseVars

\* wait_for_background_work comes back after 30 seconds at the latest, and the program
\* ends; or it crashes.
ProgramEnds ==
  /\ dashboard # "closed" /\ Leave("closed")
  /\ LET cut == {a \in {"dashboard", "trimmer"} : request[a] # Idle} IN
     /\ request' = [a \in Agents |-> IF a \in cut THEN Idle ELSE request[a]]
     /\ unmatched' = {row \in unmatched : row.id \notin {request[a].id : a \in cut}}
  /\ UNCHANGED <<machine, made, listed, unsure, hit>>

\* _stop and _run_trim catch whatever the recorder raises; anywhere else it ends the
\* dashboard.
RecorderRaises(a) ==
  /\ RecordRaises(a)
  /\ IF a = "dashboard" /\ request[a].outcome \in {"CANCELLED", "DENIED_BY_POLICY"}
     THEN Leave("closing") ELSE UNCHANGED dashboardVars

\* Bound: once the program has ended, the machine is of no interest.
NextDashboard ==
  \/ dashboard # "closed" /\ NextMachine /\ UNCHANGED dashboardVars
  \/ \E a \in {"dashboard", "trimmer"} :
       \/ Work(a) /\ UNCHANGED dashboardVars
       \/ RecorderRaises(a)
  \/ Refresh \/ Press
  \/ Move \/ Pause \/ OpenStop \/ OpenTrim \/ Yes \/ No \/ Dismiss \/ Quit
  \/ FoundNoKeys \/ Draw \/ ProgramEnds
=============================================================================
