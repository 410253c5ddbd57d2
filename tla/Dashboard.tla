----------------------------- MODULE Dashboard -----------------------------
(***************************************************************************)
(* The page in a browser (internal/server/static/app.js) beside the        *)
(* process that serves it, of which SampleFeed has what the page can see   *)
(* (Mogotor implements it).  refresh() is called at load and then every    *)
(* 30 seconds, whether or not the last call has returned; each call sends  *)
(* two requests, waits for both answers and draws them.  A click opens one *)
(* of the charts in a modal window.                                        *)
(*                                                                         *)
(* A script runs to its next await undisturbed, so drawing is one step;    *)
(* the two handlers interleave with everything.  The network loses nothing *)
(* while the process is up.  A list of points is known by the newest one.  *)
(***************************************************************************)
EXTENDS SampleFeed, FiniteSetsExt

CONSTANTS
  Flights,   \* bound: the calls of refresh() that may be under way at once
  ChartKeys  \* CHART_SPECS

VARIABLES
  flight,         \* the calls under way
  cards,          \* what the cards show: the time of a sample, and ghost: the
                  \* life of the process it was read in
  historyPoints,  \* the points of the charts
  modal           \* activeChartKey and what modalChart shows, or NoChart

pageVars == <<flight, cards, historyPoints, modal>>
dashboardVars == <<feedVars, pageVars>>

NoFlight == [begun |-> FALSE]
Pending == [answered |-> FALSE]
NoChart == [key |-> "", points |-> 0]

\* `cut`: the requests were refused, or sent to a process that is gone since.
\* Ghost `overtaken`: another call has drawn since this one began.
Begun == [begun |-> TRUE, cut |-> state # "up",
          snapshot |-> Pending, history |-> Pending, overtaken |-> FALSE]

\* The end of a process is that of its connections.
Cut ==
  [i \in Flights |->
     IF flight[i].begun /\ state' = "off" THEN [flight[i] EXCEPT !.cut = TRUE] ELSE flight[i]]

-----------------------------------------------------------------------------
DashboardInit ==
  /\ FeedInit
  /\ flight = [i \in Flights |-> NoFlight]
  /\ cards = [ts |-> 0, life |-> 0] /\ historyPoints = 0
  /\ modal = NoChart

\* refresh() up to its first await, at load or from the interval.
BeginRefresh_AtLoad(i) ==
  /\ flight[i] = NoFlight /\ cards.life = 0
  /\ flight' = [flight EXCEPT ![i] = Begun]
  /\ UNCHANGED <<feedVars, cards, historyPoints, modal>>

BeginRefresh(i) ==
  /\ flight[i] = NoFlight
  /\ flight' = [flight EXCEPT ![i] = Begun]
  /\ UNCHANGED <<feedVars, cards, historyPoints, modal>>

\* A handler runs for a connection that was accepted before the listener closed.
Serve(i, r) ==
  /\ flight[i].begun /\ ~flight[i].cut /\ flight[i][r] = Pending
  /\ UNCHANGED <<feedVars, cards, historyPoints, modal>>

ServeSnapshot(i) ==
  /\ Serve(i, "snapshot")
  /\ flight' = [flight EXCEPT ![i].snapshot =
                  [answered |-> TRUE, ts |-> shown, life |-> life]]

ServeHistory(i) ==
  /\ Serve(i, "history")
  /\ flight' = [flight EXCEPT ![i].history =
                  [answered |-> TRUE, points |-> Max(chart \cup {0})]]

\* refreshModalChart
Redrawn_Never(points) == modal
Redrawn(points) == IF modal = NoChart THEN NoChart ELSE [modal EXCEPT !.points = points]

\* Both answers are in: the cards, the charts and the panels are drawn.
Render(i) ==
  /\ flight[i].begun
  /\ flight[i].snapshot.answered /\ flight[i].history.answered
  /\ cards' = [ts |-> flight[i].snapshot.ts, life |-> flight[i].snapshot.life]
  /\ historyPoints' = flight[i].history.points
  /\ modal' = Redrawn(flight[i].history.points)
  /\ flight' = [j \in Flights |->
                  IF j = i \/ flight[j] = NoFlight THEN NoFlight
                  ELSE [flight[j] EXCEPT !.overtaken = TRUE]]
  /\ UNCHANGED feedVars

\* A request is refused, or its connection dies with the process, maybe with the
\* answer in it: the promise is rejected and nothing is drawn.
Lost(i) ==
  /\ flight[i].begun /\ flight[i].cut
  /\ flight' = [flight EXCEPT ![i] = NoFlight]

FailRefresh_Blank(i) ==
  /\ Lost(i)
  /\ cards' = [ts |-> 0, life |-> cards.life]
  /\ UNCHANGED <<feedVars, historyPoints, modal>>

FailRefresh(i) ==
  /\ Lost(i)
  /\ UNCHANGED <<feedVars, cards, historyPoints, modal>>

\* openChartModal: a window that is open is replaced.
OpenModal(k) ==
  /\ modal' = [key |-> k, points |-> historyPoints]
  /\ UNCHANGED <<feedVars, flight, cards, historyPoints>>

\* closeChartModal keeps the chart object, but nothing draws on it any more, and
\* the next opening destroys it.
CloseModal ==
  /\ modal # NoChart /\ modal' = NoChart
  /\ UNCHANGED <<feedVars, flight, cards, historyPoints>>

PageNext ==
  \/ \E i \in Flights :
       BeginRefresh(i) \/ ServeSnapshot(i) \/ ServeHistory(i) \/ Render(i) \/ FailRefresh(i)
  \/ \E k \in ChartKeys : OpenModal(k)
  \/ CloseModal

DashboardNext ==
  \/ FeedNext /\ flight' = Cut /\ UNCHANGED <<cards, historyPoints, modal>>
  \/ PageNext

\* The interval goes on and the network delivers; nothing is assumed of the
\* process, nor of whoever clicks.
DashboardSpec ==
  /\ DashboardInit /\ [][DashboardNext]_dashboardVars
  /\ WF_dashboardVars(\E i \in Flights : BeginRefresh(i))
  /\ \A i \in Flights :
       /\ WF_dashboardVars(ServeSnapshot(i)) /\ WF_dashboardVars(ServeHistory(i))
       /\ WF_dashboardVars(Render(i)) /\ WF_dashboardVars(FailRefresh(i))
-----------------------------------------------------------------------------
\* The page never goes back to an older sample, unless a call of refresh() was
\* overtaken by another one that drew first, or the process was started again:
\* a call that fails leaves the page as it was (refresh).
CardsGoBackExplained ==
  [][cards'.ts < cards.ts =>
       \/ cards'.life # cards.life
       \/ \E i \in Flights :
            flight[i].begun /\ flight[i].overtaken /\ flight'[i] = NoFlight]_dashboardVars

\* An open window has the points that the charts of the page have, whichever call
\* of refresh() drew last while it was open (refreshModalChart).
ModalShowsHistory == modal # NoChart => modal.points = historyPoints

\* Once the process stays up, the page comes to show its last sample and keeps
\* showing it, whatever was overtaken or refused before.
DashboardCatchesUp ==
  <>[](state = "up") => <>[](cards.ts = shown)
=============================================================================
