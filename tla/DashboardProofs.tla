-------------------------- MODULE DashboardProofs --------------------------
(***************************************************************************)
(* Theorems about the page, for any number of calls of refresh() under     *)
(* way, any charts and any window, and for any feed of samples.            *)
(***************************************************************************)
EXTENDS Dashboard, TLAPS

(* What the process offers the page *)

\* The cards of the process never show a sample it has not taken, and without
\* a process there is none.
FeedInv ==
  /\ time \in Nat /\ life \in Nat /\ taken \in Nat /\ shown \in Nat
  /\ state \in {"off", "up", "stopping"}
  /\ shown <= taken
  /\ state = "off" => shown = 0 /\ taken = 0

\* Within the life of a process the sample shown only gets newer.
LEMMA FeedStep ==
  ASSUME FeedInv, FeedNext
  PROVE  /\ FeedInv'
         /\ life <= life'
         /\ (state' # "off" /\ life' = life) => state # "off" /\ shown <= shown'
<1> USE DEF FeedInv
<1>1. CASE Pass
  BY <1>1 DEF Pass
<1>2. CASE Launch
  BY <1>2 DEF Launch
<1>3. CASE \E t \in (taken + 1)..time : TakeSample(t)
  BY <1>3 DEF TakeSample
<1>4. CASE ShowSample
  BY <1>4 DEF ShowSample
<1>5. CASE Stop
  BY <1>5 DEF Stop
<1>6. CASE End
  BY <1>6 DEF End
<1> QED
  BY <1>1, <1>2, <1>3, <1>4, <1>5, <1>6 DEF FeedNext

-----------------------------------------------------------------------------
(* The calls of refresh() *)

SnapshotAnswers == [answered : {TRUE}, ts : Nat, life : Nat]

\* A call under way, with or without its answers.
Flying(f) ==
  /\ f = [begun |-> f.begun, cut |-> f.cut, snapshot |-> f.snapshot,
          history |-> f.history, overtaken |-> f.overtaken]
  /\ f.begun
  /\ f.cut \in BOOLEAN /\ f.overtaken \in BOOLEAN
  /\ f.snapshot.answered \in BOOLEAN
  /\ f.snapshot.answered => f.snapshot \in SnapshotAnswers

\* Such a call with one of its fields replaced.
LEMMA FlyingExcept ==
  ASSUME NEW f, Flying(f), NEW x
  PROVE  /\ [f EXCEPT !.snapshot = x] =
              [begun |-> f.begun, cut |-> f.cut, snapshot |-> x,
               history |-> f.history, overtaken |-> f.overtaken]
         /\ [f EXCEPT !.history = x] =
              [begun |-> f.begun, cut |-> f.cut, snapshot |-> f.snapshot,
               history |-> x, overtaken |-> f.overtaken]
         /\ [f EXCEPT !.overtaken = x] =
              [begun |-> f.begun, cut |-> f.cut, snapshot |-> f.snapshot,
               history |-> f.history, overtaken |-> x]
<1> DEFINE b == f.begun  c == f.cut  s == f.snapshot  h == f.history  o == f.overtaken
<1>1. f = [begun |-> b, cut |-> c, snapshot |-> s, history |-> h, overtaken |-> o]
  BY DEF Flying
<1> HIDE DEF b, c, s, h, o
<1>2. /\ [f EXCEPT !.snapshot = x] =
           [begun |-> b, cut |-> c, snapshot |-> x, history |-> h, overtaken |-> o]
      /\ [f EXCEPT !.history = x] =
           [begun |-> b, cut |-> c, snapshot |-> s, history |-> x, overtaken |-> o]
      /\ [f EXCEPT !.overtaken = x] =
           [begun |-> b, cut |-> c, snapshot |-> s, history |-> h, overtaken |-> x]
  BY <1>1
<1> QED
  BY <1>2 DEF b, c, s, h, o

FlightsOK == \A i \in Flights : flight[i] = NoFlight \/ Flying(flight[i])

\* A call that is not cut has a process to talk to.  What it was answered by the
\* present process is no newer than what that process shows, and what it was
\* answered by the process of the cards no older than the cards, unless another
\* call drew in the meantime.
Timely(f) ==
  /\ ~f.cut => state # "off"
  /\ f.snapshot.answered =>
       /\ f.snapshot.life <= life
       /\ (state # "off" /\ f.snapshot.life = life) => f.snapshot.ts <= shown
       /\ (~f.overtaken /\ f.snapshot.life = cards.life) => cards.ts <= f.snapshot.ts

PageInv ==
  /\ FeedInv
  /\ flight = [i \in Flights |-> flight[i]] /\ FlightsOK
  /\ cards = [ts |-> cards.ts, life |-> cards.life]
  /\ cards.ts \in Nat /\ cards.life \in Nat /\ cards.life <= life
  /\ (state # "off" /\ cards.life = life) => cards.ts <= shown
  /\ \A i \in Flights : flight[i].begun => Timely(flight[i])

\* The page starts without cards and without calls.
LEMMA PageInit == DashboardInit => PageInv
  BY DEF DashboardInit, FeedInit, FeedInv, PageInv, FlightsOK, NoFlight

\* A new call waits for both answers.
LEMMA BegunFlies ==
  /\ Begun.begun /\ Flying(Begun) /\ ~Begun.snapshot.answered
  /\ Begun.cut = (state # "up")
  BY DEF Begun, Flying, Pending

\* The process moves on, and with its end cuts every call.
LEMMA FeedKeepsPage ==
  ASSUME PageInv, FeedNext, flight' = Cut, UNCHANGED <<cards, historyPoints, modal>>
  PROVE  PageInv'
<1> USE DEF PageInv
<1>1. /\ FeedInv' /\ life <= life'
      /\ (state' # "off" /\ life' = life) => state # "off" /\ shown <= shown'
  BY FeedStep
<1>2. life \in Nat /\ life' \in Nat /\ shown \in Nat /\ shown' \in Nat
  BY <1>1 DEF FeedInv
<1>3. flight' = [i \in Flights |-> flight'[i]]
  BY DEF Cut
<1>4. ASSUME NEW i \in Flights
      PROVE  /\ flight'[i] = NoFlight \/ Flying(flight'[i])
             /\ flight'[i].begun => Timely(flight[i])' /\ flight[i].begun
  <2>1. CASE flight[i] = NoFlight
    BY <2>1 DEF Cut, NoFlight
  <2>2. CASE flight[i] # NoFlight
    <3>1. Flying(flight[i])
      BY <2>2 DEF FlightsOK
    <3>2. flight[i].begun /\ Timely(flight[i])
      BY <3>1 DEF Flying
    <3>3. /\ Flying(flight'[i])
          /\ flight'[i].snapshot = flight[i].snapshot
          /\ flight'[i].overtaken = flight[i].overtaken
          /\ flight'[i].cut = (flight[i].cut \/ state' = "off")
      BY <3>1, <3>2 DEF Cut, Flying
    <3>4. ~flight'[i].cut => state' # "off"
      BY <3>3
    <3>5. ASSUME flight'[i].snapshot.answered
          PROVE  /\ flight'[i].snapshot.life <= life'
                 /\ (state' # "off" /\ flight'[i].snapshot.life = life') =>
                       flight'[i].snapshot.ts <= shown'
                 /\ (~flight'[i].overtaken /\ flight'[i].snapshot.life = cards'.life) =>
                       cards'.ts <= flight'[i].snapshot.ts
      <4>1. flight[i].snapshot.life \in Nat /\ flight[i].snapshot.ts \in Nat
        BY <3>1, <3>3, <3>5 DEF Flying, SnapshotAnswers
      <4> QED
        BY <1>1, <1>2, <3>2, <3>3, <3>5, <4>1 DEF Timely
    <3> QED
      BY <3>2, <3>3, <3>4, <3>5 DEF Timely
  <2> QED
    BY <2>1, <2>2
<1>5. /\ cards' = cards /\ cards.life \in Nat /\ cards.ts \in Nat
      /\ cards.life <= life'
      /\ (state' # "off" /\ cards.life = life') => cards.ts <= shown'
  BY <1>1, <1>2
<1> QED
  BY <1>1, <1>3, <1>4, <1>5 DEF FlightsOK

\* What a step of one call leaves alone: the process, the cards and the calls
\* beside it.
LEMMA OneFlight ==
  ASSUME PageInv, NEW i \in Flights, NEW f,
         flight' = [flight EXCEPT ![i] = f],
         UNCHANGED <<feedVars, cards>>,
         f = NoFlight \/ (Flying(f) /\ Timely(f))
  PROVE  PageInv'
<1> USE DEF PageInv
<1>1. FeedInv' /\ UNCHANGED <<time, life, state, taken, shown, cards>>
  BY DEF feedVars, FeedInv
<1>2. /\ flight' = [j \in Flights |-> flight'[j]] /\ flight'[i] = f
      /\ \A j \in Flights \ {i} : flight'[j] = flight[j]
  OBVIOUS
<1>3. ASSUME NEW j \in Flights
      PROVE  /\ flight'[j] = NoFlight \/ Flying(flight'[j])
             /\ flight'[j].begun => Timely(flight'[j])
  <2>1. ~NoFlight.begun
    BY DEF NoFlight
  <2>2. CASE j = i
    BY <1>2, <2>1, <2>2
  <2>3. CASE j # i
    BY <1>2, <2>3 DEF FlightsOK
  <2> QED
    BY <2>2, <2>3
<1>4. \A j \in Flights : Timely(flight'[j]) => Timely(flight[j])'
  BY <1>1 DEF Timely
<1> QED
  BY <1>1, <1>2, <1>3, <1>4 DEF FlightsOK

\* A call of refresh() that begins, is answered or fails.
LEMMA CallKeepsPage ==
  ASSUME PageInv, NEW i \in Flights,
         BeginRefresh(i) \/ ServeSnapshot(i) \/ ServeHistory(i) \/ FailRefresh(i)
  PROVE  PageInv'
<1> USE DEF PageInv
<1>1. CASE BeginRefresh(i)
  <2>1. Flying(Begun) /\ Timely(Begun)
    BY BegunFlies DEF Timely, FeedInv
  <2> QED
    BY <1>1, <2>1, OneFlight DEF BeginRefresh
<1>2. CASE ServeSnapshot(i)
  <2> DEFINE f == [flight[i] EXCEPT !.snapshot = [answered |-> TRUE, ts |-> shown, life |-> life]]
  <2>1. flight[i].begun /\ ~flight[i].cut
    BY <1>2 DEF ServeSnapshot, Serve
  <2>2. Flying(flight[i]) /\ Timely(flight[i])
    BY <2>1 DEF FlightsOK, NoFlight
  <2>3. f = [begun |-> flight[i].begun, cut |-> flight[i].cut,
             snapshot |-> [answered |-> TRUE, ts |-> shown, life |-> life],
             history |-> flight[i].history, overtaken |-> flight[i].overtaken]
    BY <2>2, FlyingExcept
  <2>s. shown \in Nat /\ life \in Nat /\ state # "off"
    BY <2>1, <2>2 DEF Timely, FeedInv
  <2>4. Flying(f) /\ Timely(f)
    <3> DEFINE a == [answered |-> TRUE, ts |-> shown, life |-> life]
    <3>1. a \in SnapshotAnswers /\ a.answered /\ a.ts = shown /\ a.life = life
      BY <2>s DEF SnapshotAnswers
    <3>2. /\ f.snapshot = a /\ f.begun = flight[i].begun /\ f.cut = flight[i].cut
          /\ f.overtaken = flight[i].overtaken
          /\ f = [begun |-> f.begun, cut |-> f.cut, snapshot |-> f.snapshot,
                  history |-> f.history, overtaken |-> f.overtaken]
      BY <2>3
    <3>3. cards.life = life => cards.ts <= shown
      BY <2>s
    <3> HIDE DEF f, a, PageInv
    <3>4. Flying(f)
      BY <2>2, <3>1, <3>2 DEF Flying
    <3>5. Timely(f)
      BY <2>s, <3>1, <3>2, <3>3 DEF Timely
    <3> QED
      BY <3>4, <3>5
  <2>5. flight' = [flight EXCEPT ![i] = f] /\ UNCHANGED <<feedVars, cards>>
    BY <1>2 DEF ServeSnapshot, Serve
  <2> QED
    BY <2>4, <2>5, OneFlight
<1>3. CASE ServeHistory(i)
  <2> DEFINE a == [answered |-> TRUE, points |-> Max(chart \cup {0})]
             f == [flight[i] EXCEPT !.history = a]
  <2>1. flight[i].begun
    BY <1>3 DEF ServeHistory, Serve
  <2>2. Flying(flight[i]) /\ Timely(flight[i])
    BY <2>1 DEF FlightsOK, NoFlight
  <2>3. f = [begun |-> flight[i].begun, cut |-> flight[i].cut, snapshot |-> flight[i].snapshot,
             history |-> a, overtaken |-> flight[i].overtaken]
    BY <2>2, FlyingExcept
  <2>4. Flying(f) /\ Timely(f)
    BY <2>2, <2>3 DEF Flying, Timely
  <2>5. flight' = [flight EXCEPT ![i] = f] /\ UNCHANGED <<feedVars, cards>>
    BY <1>3 DEF ServeHistory, Serve
  <2> QED
    BY <2>4, <2>5, OneFlight
<1>4. CASE FailRefresh(i)
  BY <1>4, OneFlight DEF FailRefresh, Lost
<1> QED
  BY <1>1, <1>2, <1>3, <1>4

\* A call that draws: its snapshot becomes that of the cards, and every other
\* call under way is overtaken.
LEMMA RenderKeepsPage ==
  ASSUME PageInv, NEW i \in Flights, Render(i)
  PROVE  PageInv'
<1> USE DEF PageInv
<1>1. Flying(flight[i]) /\ Timely(flight[i]) /\ flight[i].snapshot \in SnapshotAnswers
  BY DEF Render, FlightsOK, NoFlight, Flying
<1>2. FeedInv' /\ UNCHANGED <<time, life, state, taken, shown>>
  BY DEF Render, feedVars, FeedInv
<1>3. /\ cards' = [ts |-> cards'.ts, life |-> cards'.life]
      /\ cards'.ts \in Nat /\ cards'.life \in Nat /\ cards'.life <= life'
      /\ (state' # "off" /\ cards'.life = life') => cards'.ts <= shown'
  BY <1>1, <1>2 DEF Render, SnapshotAnswers, Timely
<1>4. flight' = [j \in Flights |-> flight'[j]]
  BY DEF Render
<1>5. ASSUME NEW j \in Flights
      PROVE  /\ flight'[j] = NoFlight \/ Flying(flight'[j])
             /\ flight'[j].begun => Timely(flight[j])'
  <2>1. CASE j = i \/ flight[j] = NoFlight
    <3>1. flight'[j] = NoFlight /\ ~flight'[j].begun
      BY <2>1 DEF Render, NoFlight
    <3> QED
      BY <3>1
  <2>2. CASE j # i /\ flight[j] # NoFlight
    <3>1. Flying(flight[j]) /\ Timely(flight[j])
      BY <2>2 DEF FlightsOK, Flying
    <3>2. flight'[j] = [begun |-> flight[j].begun, cut |-> flight[j].cut,
                        snapshot |-> flight[j].snapshot,
                        history |-> flight[j].history, overtaken |-> TRUE]
      <4>1. flight'[j] = [flight[j] EXCEPT !.overtaken = TRUE]
        BY <2>2 DEF Render
      <4> QED
        BY <3>1, <4>1, FlyingExcept
    <3> QED
      BY <1>2, <3>1, <3>2 DEF Flying, Timely
  <2> QED
    BY <2>1, <2>2
<1> QED
  BY <1>2, <1>3, <1>4, <1>5 DEF FlightsOK

\* Every step keeps the invariant of the page.
LEMMA PageStep == PageInv /\ [DashboardNext]_dashboardVars => PageInv'
<1> SUFFICES ASSUME PageInv, [DashboardNext]_dashboardVars
             PROVE  PageInv'
  OBVIOUS
<1>1. CASE FeedNext /\ flight' = Cut /\ UNCHANGED <<cards, historyPoints, modal>>
  BY <1>1, FeedKeepsPage
<1>2. CASE \E i \in Flights :
             BeginRefresh(i) \/ ServeSnapshot(i) \/ ServeHistory(i) \/ FailRefresh(i)
  BY <1>2, CallKeepsPage
<1>3. CASE \E i \in Flights : Render(i)
  BY <1>3, RenderKeepsPage
<1>4. CASE UNCHANGED <<feedVars, flight, cards>>
  BY <1>4 DEF feedVars, PageInv, FeedInv, FlightsOK, Timely
<1>5. CASE (\E k \in ChartKeys : OpenModal(k)) \/ CloseModal
  BY <1>4, <1>5 DEF OpenModal, CloseModal
<1>6. CASE UNCHANGED dashboardVars
  BY <1>4, <1>6 DEF dashboardVars, pageVars
<1> QED
  BY <1>1, <1>2, <1>3, <1>5, <1>6 DEF DashboardNext, PageNext

-----------------------------------------------------------------------------
\* PageInv is an invariant of the page beside any process.
LEMMA PageInvariance == DashboardSpec => []PageInv
<1>1. DashboardSpec => DashboardInit /\ [][DashboardNext]_dashboardVars
  BY PTL DEF DashboardSpec
<1> QED
  BY <1>1, PageInit, PageStep, PTL

\* The page goes back to an older sample only when another call of refresh() has
\* drawn before the one that draws now, or in another life of the process: a call
\* that fails leaves the cards alone, and one that succeeds was served after the
\* cards were, however its two answers were delayed.
THEOREM CardsDoNotGoBack == DashboardSpec => CardsGoBackExplained
<1> DEFINE Explained ==
      cards'.ts < cards.ts =>
        \/ cards'.life # cards.life
        \/ \E i \in Flights :
             flight[i].begun /\ flight[i].overtaken /\ flight'[i] = NoFlight
<1>1. PageInv /\ [DashboardNext]_dashboardVars => Explained
  <2> SUFFICES ASSUME PageInv, [DashboardNext]_dashboardVars
               PROVE  Explained
    OBVIOUS
  <2> USE DEF PageInv
  <2>1. CASE UNCHANGED cards
    BY <2>1
  <2>2. ASSUME NEW i \in Flights, Render(i)
        PROVE  Explained
    <3>1. Flying(flight[i]) /\ Timely(flight[i]) /\ flight[i].begun
      BY <2>2 DEF Render, FlightsOK, NoFlight
    <3>2. /\ cards'.ts = flight[i].snapshot.ts /\ cards'.life = flight[i].snapshot.life
          /\ flight'[i] = NoFlight /\ flight[i].snapshot \in SnapshotAnswers
      BY <2>2, <3>1 DEF Render, Flying
    <3>3. CASE flight[i].overtaken
      BY <3>1, <3>2, <3>3
    <3>4. CASE ~flight[i].overtaken /\ cards'.life = cards.life
      <4>1. cards.ts <= cards'.ts /\ cards'.ts \in Nat
        BY <3>1, <3>2, <3>4 DEF Timely, SnapshotAnswers
      <4> QED
        BY <4>1
    <3> QED
      BY <3>3, <3>4
  <2>3. CASE FeedNext /\ flight' = Cut /\ UNCHANGED <<cards, historyPoints, modal>>
    BY <2>1, <2>3
  <2>4. CASE PageNext
    BY <2>1, <2>2, <2>4 DEF PageNext, BeginRefresh, ServeSnapshot, ServeHistory, Serve,
                            FailRefresh, OpenModal, CloseModal
  <2> QED
    BY <2>1, <2>3, <2>4 DEF DashboardNext, dashboardVars, pageVars
<1>2. DashboardSpec => [][DashboardNext]_dashboardVars
  BY PTL DEF DashboardSpec
<1> QED
  BY <1>1, <1>2, PageInvariance, PTL DEF CardsGoBackExplained

-----------------------------------------------------------------------------
\* An open window draws what the page has: opening copies it, and every drawing
\* of the page redraws the window too.
WindowInv ==
  modal # NoChart => modal = [key |-> modal.key, points |-> historyPoints]

\* The chart in the window always has the points of the page's own charts.
THEOREM ModalIsCurrent == DashboardSpec => []ModalShowsHistory
<1>1. DashboardInit => WindowInv
  BY DEF DashboardInit, WindowInv
<1>2. WindowInv /\ [DashboardNext]_dashboardVars => WindowInv'
  <2> SUFFICES ASSUME WindowInv, [DashboardNext]_dashboardVars
               PROVE  WindowInv'
    OBVIOUS
  <2>1. CASE UNCHANGED <<historyPoints, modal>>
    BY <2>1 DEF WindowInv
  <2>2. ASSUME NEW i \in Flights, Render(i)
        PROVE  WindowInv'
    BY <2>2 DEF Render, Redrawn, WindowInv
  <2>3. CASE \E k \in ChartKeys : OpenModal(k)
    BY <2>3 DEF OpenModal, WindowInv
  <2>4. CASE CloseModal
    BY <2>4 DEF CloseModal, WindowInv
  <2>5. CASE PageNext
    BY <2>1, <2>2, <2>3, <2>4, <2>5 DEF PageNext, BeginRefresh, ServeSnapshot, ServeHistory,
                                        Serve, FailRefresh
  <2> QED
    BY <2>1, <2>5 DEF DashboardNext, dashboardVars, pageVars
<1>3. WindowInv => ModalShowsHistory
  <2>1. ASSUME WindowInv, modal # NoChart PROVE modal.points = historyPoints
    <3>1. modal = [key |-> modal.key, points |-> historyPoints]
      BY <2>1 DEF WindowInv
    <3> QED
      BY <3>1
  <2> QED
    BY <2>1 DEF ModalShowsHistory
<1>4. DashboardSpec => DashboardInit /\ [][DashboardNext]_dashboardVars
  BY PTL DEF DashboardSpec
<1> QED
  BY <1>1, <1>2, <1>3, <1>4, PTL
=============================================================================
