-------------------------- MODULE DetailsPanelProofs --------------------------
(***************************************************************************)
(* Proofs about the details panel, for every set of torrents and tabs.     *)
(*                                                                         *)
(* The argument is about the state a handler works on: each helper of the  *)
(* module takes a sound state to a sound one, and a reset does so because  *)
(* no fetch in flight carries the generation it starts.                    *)
(***************************************************************************)
EXTENDS DetailsPanel, TLAPS

Typed(s) ==
    /\ s = [panel |-> s.panel, flights |-> s.flights, refresh |-> s.refresh]
    /\ s.panel \in Panel /\ s.flights \subseteq Flight /\ s.refresh \in BOOLEAN

\* A fetch of the current generation is for the torrent in focus, and a tab is
\* loading exactly when one such fetch is for it.
Sound(s) ==
    /\ \A f \in s.flights :
          f.gen = s.panel.gen => s.panel.hash \in {f.hash, NoTorrent}
    /\ s.panel.hash # NoTorrent =>
          \A t \in Tabs :
             /\ s.panel.data[t].loading =>
                   \E f \in s.flights : f.gen = s.panel.gen /\ f.tab = t
             /\ \A f \in s.flights :
                   f.gen = s.panel.gen /\ f.tab = t => s.panel.data[t].loading
             /\ \A f, g \in s.flights :
                   f.gen = s.panel.gen /\ g.gen = s.panel.gen /\ f.tab = t /\ g.tab = t
                      => f = g
             /\ s.panel.data[t].of \in {s.panel.hash, NoTorrent}

Good(s) == Typed(s) /\ Sound(s)

\* No fetch in s carries the generation of q, unless s is of that generation.
Fresh(s, q) ==
    q.panel.gen # s.panel.gen => \A f \in s.flights : f.gen # q.panel.gen

-----------------------------------------------------------------------------
(* The helpers. *)

LEMMA NextIsAnother ==
    ASSUME NEW g \in 0 .. Generations - 1
    PROVE  NextGeneration(g) \in 0 .. Generations - 1 /\ NextGeneration(g) # g
  BY GenerationsAssumption DEF NextGeneration

LEMMA EmptyIsDataset == Empty \in Dataset
  BY DEF Empty, Dataset

\* Handlers that leave the fetches and the datasets alone and at most take the
\* torrent out of focus.
Touches(s, q) ==
    /\ Typed(q)
    /\ q.flights = s.flights
    /\ q.panel.gen = s.panel.gen /\ q.panel.data = s.panel.data
    /\ q.panel.hash \in {s.panel.hash, NoTorrent}

LEMMA TouchGood ==
    ASSUME NEW s, NEW q, Good(s), Touches(s, q)
    PROVE  Good(q)
  BY DEF Good, Touches, Sound

LEMMA WithTyped ==
    ASSUME NEW s, Typed(s), NEW p \in Panel
    PROVE  /\ With(s, p) = [panel |-> p, flights |-> s.flights, refresh |-> s.refresh]
           /\ Typed(With(s, p))
           /\ With(s, p).panel = p
           /\ With(s, p).flights = s.flights
           /\ With(s, p).refresh = s.refresh
  <1>1. With(s, p) = [panel |-> p, flights |-> s.flights, refresh |-> s.refresh]
    BY DEF With, State
  <1> QED BY <1>1 DEF Typed

LEMMA QueueTouches ==
    ASSUME NEW s, Typed(s)
    PROVE  Touches(s, Queue(s)) /\ Queue(s).panel = s.panel
  <1>1. Queue(s) = [panel |-> s.panel, flights |-> s.flights, refresh |-> TRUE]
    BY DEF Queue, State
  <1> QED BY <1>1 DEF Typed, Touches

LEMMA ShowTouches ==
    ASSUME NEW s, Typed(s), NEW b \in BOOLEAN
    PROVE  /\ Touches(s, Show(s, b)) /\ Typed(Show(s, b))
           /\ Show(s, b).panel.hash = s.panel.hash
           /\ Show(s, b).panel.visible = b
           /\ Show(s, b).panel.tab = s.panel.tab
  <1> DEFINE p == [s.panel EXCEPT !.visible = b]
  <1>1. p \in Panel /\ p.gen = s.panel.gen /\ p.data = s.panel.data
        /\ p.hash = s.panel.hash /\ p.tab = s.panel.tab /\ p.visible = b
    BY DEF Typed, Panel
  <1>2. Show(s, b) = With(s, p)
    BY DEF Show
  <1>3. Typed(With(s, p)) /\ With(s, p).panel = p /\ With(s, p).flights = s.flights
    BY <1>1, WithTyped
  <1> QED BY <1>1, <1>2, <1>3 DEF Touches

\* What a handler may do on its way to a load: show the panel, change the tab,
\* queue a refresh.
LEMMA QueueShow ==
    ASSUME NEW s, Good(s), NEW b \in BOOLEAN
    PROVE  /\ Good(Queue(Show(s, b)))
           /\ Queue(Show(s, b)).panel.gen = s.panel.gen
           /\ Queue(Show(s, b)).panel.hash = s.panel.hash
           /\ Queue(Show(s, b)).flights = s.flights
  <1>1. Touches(s, Show(s, b)) /\ Typed(Show(s, b)) /\ Good(Show(s, b))
        /\ Show(s, b).panel.hash = s.panel.hash
    BY ShowTouches, TouchGood DEF Good
  <1>2. Touches(Show(s, b), Queue(Show(s, b)))
        /\ Queue(Show(s, b)).panel = Show(s, b).panel
    BY <1>1, QueueTouches
  <1>3. Good(Queue(Show(s, b)))
    BY <1>1, <1>2, TouchGood
  <1> QED BY <1>1, <1>2, <1>3 DEF Touches

\* resetForHash: everything in flight is of another generation afterwards.
LEMMA ResetGood ==
    ASSUME NEW s, Good(s), NEW h \in Torrents, Fresh(s, Reset(s, h))
    PROVE  /\ Good(Reset(s, h))
           /\ Reset(s, h).panel.gen = NextGeneration(s.panel.gen)
           /\ Reset(s, h).flights = s.flights
           /\ Reset(s, h).panel.hash = h
           /\ Reset(s, h).panel.tab = General
  <1> DEFINE r == Reset(s, h)
  <1>1. /\ s = [panel |-> s.panel, flights |-> s.flights, refresh |-> s.refresh]
        /\ s.panel \in Panel /\ s.flights \subseteq Flight /\ s.refresh \in BOOLEAN
    BY DEF Good, Typed
  <1>2. r = [panel |-> [visible |-> s.panel.visible, hash |-> h, tab |-> General,
                        gen |-> NextGeneration(s.panel.gen),
                        data |-> [t \in Tabs |-> Empty]],
             flights |-> s.flights, refresh |-> s.refresh]
    BY <1>1 DEF Reset, With, State
  <1>3. NextGeneration(s.panel.gen) \in 0 .. Generations - 1
        /\ NextGeneration(s.panel.gen) # s.panel.gen
    BY <1>1, NextIsAnother DEF Panel
  <1>4. r.panel \in Panel
    BY <1>1, <1>2, <1>3, EmptyIsDataset, TabsAssumption DEF Panel
  <1>5. \A f \in s.flights : f.gen # r.panel.gen
    BY <1>2, <1>3 DEF Fresh
  <1>6. Sound(r)
    BY <1>2, <1>5 DEF Sound, Empty
  <1> QED BY <1>1, <1>2, <1>4, <1>6 DEF Good, Typed

\* loadDetailsDataset on a tab that is not loading.
LEMMA LoadGood ==
    ASSUME NEW s, Good(s), NEW t \in Tabs,
           s.panel.hash # NoTorrent, ~s.panel.data[t].loading
    PROVE  Good(Load(s, t)) /\ Load(s, t).panel.gen = s.panel.gen
  <1> DEFINE q == Load(s, t)
             n == [hash |-> s.panel.hash, gen |-> s.panel.gen,
                   tab |-> t, behind |-> TRUE]
  <1>1. /\ s = [panel |-> s.panel, flights |-> s.flights, refresh |-> s.refresh]
        /\ s.panel \in Panel /\ s.flights \subseteq Flight /\ s.refresh \in BOOLEAN
    BY DEF Good, Typed
  <1>2. /\ s.panel.data \in [Tabs -> Dataset] /\ s.panel.hash \in Torrents
        /\ s.panel.gen \in 0 .. Generations - 1
    BY <1>1 DEF Panel
  <1> DEFINE d == [s.panel.data[t] EXCEPT !.loading = TRUE]
             e == [s.panel.data EXCEPT ![t] = d]
             p == [visible |-> s.panel.visible, hash |-> s.panel.hash,
                   tab |-> s.panel.tab, gen |-> s.panel.gen, data |-> e]
  <1>3. d \in Dataset /\ d.loading /\ d.of = s.panel.data[t].of
    BY <1>2 DEF Dataset
  <1>4. e \in [Tabs -> Dataset] /\ e[t] = d
        /\ \A u \in Tabs : u # t => e[u] = s.panel.data[u]
    BY <1>2, <1>3
  <1>5. /\ p.hash = s.panel.hash /\ p.gen = s.panel.gen
        /\ p.data = e /\ p \in Panel
    BY <1>1, <1>4 DEF Panel
  <1>6. q = [panel |-> p, flights |-> s.flights \cup {n}, refresh |-> TRUE]
    BY <1>1 DEF Load, Put, With, State
  <1>7. q.panel = p /\ q.flights = s.flights \cup {n} /\ q.refresh = TRUE
    BY <1>6
  <1>8. n \in Flight
    BY <1>2 DEF Flight
  <1>9. Typed(q)
    BY <1>1, <1>5, <1>6, <1>7, <1>8 DEF Typed
  <1>10. \A u \in Tabs : /\ u # t => q.panel.data[u] = s.panel.data[u]
                         /\ q.panel.data[t].loading
                         /\ q.panel.data[u].of = s.panel.data[u].of
    BY <1>3, <1>4, <1>5, <1>7
  <1>11. \A f \in s.flights : ~(f.gen = s.panel.gen /\ f.tab = t)
    BY DEF Good, Sound
  <1>12. n \in q.flights /\ n.gen = q.panel.gen /\ n.tab = t /\ n.hash = q.panel.hash
    BY <1>5, <1>7
  <1>13. \A f \in q.flights : f \in s.flights \/ f = n
    BY <1>7
  <1>14. \A f \in q.flights :
            f.gen = q.panel.gen => q.panel.hash \in {f.hash, NoTorrent}
    BY <1>5, <1>7, <1>12, <1>13 DEF Good, Sound
  <1>15. ASSUME NEW u \in Tabs
         PROVE  /\ q.panel.data[u].loading =>
                      \E f \in q.flights : f.gen = q.panel.gen /\ f.tab = u
                /\ \A f \in q.flights :
                      f.gen = q.panel.gen /\ f.tab = u => q.panel.data[u].loading
                /\ \A f, g \in q.flights :
                      f.gen = q.panel.gen /\ g.gen = q.panel.gen /\ f.tab = u /\ g.tab = u
                         => f = g
                /\ q.panel.data[u].of \in {q.panel.hash, NoTorrent}
    <2>1. CASE u = t
      BY <2>1, <1>5, <1>7, <1>10, <1>11, <1>12, <1>13 DEF Good, Sound
    <2>2. CASE u # t
      BY <2>2, <1>5, <1>7, <1>10, <1>12, <1>13 DEF Good, Sound
    <2> QED BY <2>1, <2>2
  <1> HIDE DEF q, n, d, e, p
  <1> QED BY <1>5, <1>7, <1>9, <1>14, <1>15 DEF Good, Sound, q

LEMMA EnsureLoadedGood ==
    ASSUME NEW s, Good(s), NEW m
    PROVE  Good(EnsureLoaded(s, m)) /\ EnsureLoaded(s, m).panel.gen = s.panel.gen
  <1>1. s.panel.tab \in Tabs
    BY DEF Good, Typed, Panel
  <1>2. CASE EnsureLoaded(s, m) = s
    BY <1>2
  <1>3. CASE EnsureLoaded(s, m) # s
    <2>1. /\ EnsureLoaded(s, m) = Load(s, s.panel.tab)
          /\ s.panel.hash # NoTorrent /\ ~s.panel.data[s.panel.tab].loading
      BY <1>3 DEF EnsureLoaded, MayLoad
    <2> QED BY <2>1, <1>1, LoadGood
  <1> QED BY <1>2, <1>3

LEMMA RefreshLoadedGood ==
    ASSUME NEW s, Good(s), NEW m
    PROVE  Good(RefreshLoaded(s, m)) /\ RefreshLoaded(s, m).panel.gen = s.panel.gen
  <1>1. s.panel.tab \in Tabs
    BY DEF Good, Typed, Panel
  <1>2. CASE RefreshLoaded(s, m) = s
    BY <1>2
  <1>3. CASE RefreshLoaded(s, m) # s
    <2>1. /\ RefreshLoaded(s, m) = Load(s, s.panel.tab)
          /\ s.panel.hash # NoTorrent /\ ~s.panel.data[s.panel.tab].loading
      BY <1>3 DEF RefreshLoaded, MayLoad
    <2> QED BY <2>1, <1>1, LoadGood
  <1> QED BY <1>2, <1>3

\* Setting the focus on h in a shown panel and loading its first tab.
LEMMA FocusGood ==
    ASSUME NEW s, Good(s), NEW m, NEW h \in Torrents,
           Fresh(s, EnsureLoaded(Queue(Show(Reset(s, h), TRUE)), m))
    PROVE  Good(EnsureLoaded(Queue(Show(Reset(s, h), TRUE)), m))
  <1> DEFINE r == Reset(s, h)
             q == Queue(Show(r, TRUE))
  <1>1. r.panel.gen = NextGeneration(s.panel.gen)
    BY DEF Reset, With, State
  <1>2. q.panel.gen = r.panel.gen
    BY DEF Queue, Show, With, State, Reset
  <1>3. EnsureLoaded(q, m).panel.gen = q.panel.gen
    <2>1. CASE EnsureLoaded(q, m) = q
      BY <2>1
    <2>2. CASE EnsureLoaded(q, m) # q
      <3>1. EnsureLoaded(q, m) = Load(q, q.panel.tab)
        BY <2>2 DEF EnsureLoaded
      <3>2. q.panel = [r.panel EXCEPT !.visible = TRUE]
        BY DEF Queue, Show, With, State
      <3>3. Load(q, q.panel.tab).panel.gen = q.panel.gen
        BY <3>2 DEF Load, Put, With, State, Reset
      <3> QED BY <3>1, <3>3
    <2> QED BY <2>1, <2>2
  <1>4. Fresh(s, r)
    BY <1>2, <1>3 DEF Fresh
  <1>5. Good(r)
    BY <1>4, ResetGood
  <1>6. Good(q)
    BY <1>5, QueueShow
  <1> QED BY <1>6, EnsureLoadedGood

LEMMA FollowSelectionGood ==
    ASSUME NEW s, Good(s), NEW sel \in SUBSET Torrents,
           Fresh(s, FollowSelection(s, sel))
    PROVE  Good(FollowSelection(s, sel))
  <1>1. CASE FollowSelection(s, sel) = s
    BY <1>1
  <1>2. CASE FollowSelection(s, sel) =
               Queue(With(s, [s.panel EXCEPT !.visible = FALSE, !.hash = NoTorrent]))
    <2> DEFINE p == [s.panel EXCEPT !.visible = FALSE, !.hash = NoTorrent]
    <2>1. Typed(s)
      BY DEF Good
    <2>2. p \in Panel /\ p.hash = NoTorrent
          /\ p.gen = s.panel.gen /\ p.data = s.panel.data
      BY <2>1 DEF Typed, Panel
    <2>3. Typed(With(s, p)) /\ With(s, p).panel = p /\ With(s, p).flights = s.flights
      BY <2>1, <2>2, WithTyped
    <2>4. Touches(s, With(s, p))
      BY <2>2, <2>3 DEF Touches
    <2>5. Good(With(s, p))
      BY <2>4, TouchGood
    <2>6. Touches(With(s, p), Queue(With(s, p)))
      BY <2>3, QueueTouches
    <2> QED BY <1>2, <2>5, <2>6, TouchGood
  <1>3. CASE FollowSelection(s, sel) = Queue(Show(s, TRUE))
    BY <1>3, QueueShow
  <1>4. CASE /\ FollowSelection(s, sel) # s
             /\ FollowSelection(s, sel) #
                  Queue(With(s, [s.panel EXCEPT !.visible = FALSE, !.hash = NoTorrent]))
             /\ FollowSelection(s, sel) # Queue(Show(s, TRUE))
    <2> DEFINE h == CHOOSE t \in sel : TRUE
    <2>1. /\ \E x \in Torrents : sel = {x}
          /\ FollowSelection(s, sel) =
               EnsureLoaded(Queue(Show(Reset(s, h), TRUE)), "bottom")
      BY <1>4 DEF FollowSelection
    <2>2. h \in Torrents
      BY <2>1
    <2> QED BY <2>1, <2>2, FocusGood
  <1> QED BY <1>1, <1>2, <1>3, <1>4

LEMMA EnsureFocusGood ==
    ASSUME NEW s, Good(s), NEW m, NEW sel \in SUBSET Torrents, NEW list,
           Fresh(s, EnsureFocus(s, m, sel, list))
    PROVE  Good(EnsureFocus(s, m, sel, list))
  <1>1. CASE m = "bottom"
    BY <1>1, FollowSelectionGood DEF EnsureFocus
  <1>2. CASE m # "bottom"
    <2>1. EnsureFocus(s, m, sel, list) \in {s, Close(s)}
      BY <1>2 DEF EnsureFocus
    <2>2. Good(Close(s))
      BY QueueShow DEF Close
    <2> QED BY <2>1, <2>2
  <1> QED BY <1>1, <1>2

LEMMA OpenGood ==
    ASSUME NEW s, Good(s), NEW m, NEW h \in Torrents, Fresh(s, Open(s, m, h))
    PROVE  Good(Open(s, m, h))
  <1>1. CASE m = "off"
    BY <1>1 DEF Open
  <1>2. CASE m # "off" /\ s.panel.hash # h
    <2>1. Open(s, m, h) = EnsureLoaded(Queue(Show(Reset(s, h), TRUE)), m)
      BY <1>2 DEF Open
    <2> QED BY <2>1, FocusGood
  <1>3. CASE m # "off" /\ s.panel.hash = h
    <2>1. Open(s, m, h) = EnsureLoaded(Queue(Show(s, TRUE)), m)
      BY <1>3 DEF Open
    <2>2. Good(Queue(Show(s, TRUE)))
      BY QueueShow
    <2> QED BY <2>1, <2>2, EnsureLoadedGood
  <1> QED BY <1>1, <1>2, <1>3

LEMMA SetTabGood ==
    ASSUME NEW s, Good(s), NEW m, NEW t \in Tabs
    PROVE  Good(SetTab(s, m, t)) /\ SetTab(s, m, t).panel.gen = s.panel.gen
  <1> DEFINE p == [s.panel EXCEPT !.tab = t]
             q == With(s, p)
  <1>1. Typed(s)
    BY DEF Good
  <1>2. p \in Panel /\ p.hash = s.panel.hash
        /\ p.gen = s.panel.gen /\ p.data = s.panel.data
    BY <1>1 DEF Typed, Panel
  <1>3. Typed(q) /\ q.panel = p /\ q.flights = s.flights
    BY <1>1, <1>2, WithTyped
  <1>4. Touches(s, q)
    BY <1>2, <1>3 DEF Touches
  <1>5. Good(q)
    BY <1>4, TouchGood
  <1>6. Touches(q, Queue(q)) /\ Queue(q).panel = q.panel
    BY <1>3, QueueTouches
  <1>7. Good(Queue(q))
    BY <1>5, <1>6, TouchGood
  <1>8. SetTab(s, m, t) = EnsureLoaded(Queue(q), m)
    BY DEF SetTab
  <1>9. Good(EnsureLoaded(Queue(q), m))
        /\ EnsureLoaded(Queue(q), m).panel.gen = Queue(q).panel.gen
    BY <1>7, EnsureLoadedGood
  <1>10. Queue(q).panel.gen = s.panel.gen
    BY <1>2, <1>3, <1>6
  <1> QED BY <1>8, <1>9, <1>10

-----------------------------------------------------------------------------
(* The inductive invariant and its proof.                                   *)

Inv == TypeOK /\ Sound(Before)

LEMMA BeforeGood == Inv => Good(Before)
  BY DEF Inv, TypeOK, Good, Typed, Before, State

\* What Becomes does, in terms of the helpers.
LEMMA BecomesGood ==
    ASSUME NEW s, Becomes(s), Fresh(Before, s) => Good(s)
    PROVE  Before' = s /\ Good(s)
  <1>1. Before.panel.gen = panel.gen /\ Before.flights = flights
    BY DEF Before, State
  <1>2. Fresh(Before, s)
    BY <1>1 DEF Becomes, Fresh
  <1>3. Good(s)
    BY <1>2
  <1>4. s = [panel |-> s.panel, flights |-> s.flights, refresh |-> s.refresh]
    BY <1>3 DEF Good, Typed
  <1> QED BY <1>3, <1>4 DEF Becomes, Before, State

\* A handler that leaves a good state keeps the invariant.
LEMMA HandlerKeeps ==
    ASSUME NEW s, Becomes(s), Fresh(Before, s) => Good(s),
           mode' \in Modes, listed' \subseteq Torrents, selection' \subseteq listed',
           host' \in Host
    PROVE  Inv'
  <1>1. Before' = s /\ Good(s)
    BY BecomesGood
  <1>2. panel' = s.panel /\ flights' = s.flights /\ refresh' = s.refresh
    BY DEF Becomes
  <1>3. TypeOK'
    BY <1>1, <1>2 DEF TypeOK, Good, Typed
  <1>4. Sound(Before)'
    BY <1>1 DEF Good
  <1> QED BY <1>3, <1>4 DEF Inv

LEMMA InitInv == Init => Inv
  <1> SUFFICES ASSUME Init PROVE Inv
    OBVIOUS
  <1>1. 0 \in 0 .. Generations - 1
    BY GenerationsAssumption
  <1>2. panel \in Panel
    BY <1>1, EmptyIsDataset, TabsAssumption DEF Init, Panel
  <1>3. host \in Host
    BY TabsAssumption DEF Init, Host
  <1>4. TypeOK
    BY <1>2, <1>3 DEF Init, TypeOK
  <1>5. Before.panel = panel /\ Before.flights = flights
    BY DEF Before, State
  <1>6. Sound(Before)
    BY <1>5 DEF Init, Sound, Empty
  <1> QED BY <1>4, <1>6 DEF Inv

\* A result settles its tab only if it is the fetch the tab waits for.
LEMMA SettleInv ==
    ASSUME Inv, NEW f \in flights, NEW ok \in BOOLEAN, Settle(f, ok)
    PROVE  Inv'
  <1> DEFINE b == Before
             x == Before'
  <1>1. /\ b.panel = panel /\ b.flights = flights /\ b.refresh = refresh
        /\ x.panel = panel' /\ x.flights = flights' /\ x.refresh = refresh'
    BY DEF Before, State
  <1>2. panel \in Panel /\ f \in Flight /\ flights \subseteq Flight
    BY DEF Inv, TypeOK
  <1>3. flights' = flights \ {f}
    BY DEF Settle
  <1>4. CASE ~Current(f)
    <2>1. panel' = panel /\ refresh' = refresh
      BY <1>4 DEF Settle
    <2>2. TypeOK'
      BY <1>3, <2>1 DEF Inv, TypeOK, Settle
    <2>3. Sound(x)
      BY <1>1, <1>3, <1>4, <2>1 DEF Inv, Sound, Current
    <2> QED BY <2>2, <2>3 DEF Inv
  <1>5. CASE Current(f)
    <2> DEFINE d == Settled(f, ok)
               e == [panel.data EXCEPT ![f.tab] = d]
    <2>1. /\ panel.data \in [Tabs -> Dataset] /\ f.tab \in Tabs /\ f.hash \in Torrents
          /\ f.gen = panel.gen /\ panel.hash = f.hash
      BY <1>2, <1>5 DEF Panel, Flight, Current
    <2>2. panel.data[f.tab].of \in {panel.hash, NoTorrent}
      BY <1>1, <2>1, TorrentsAssumption DEF Inv, Sound
    <2>3. d \in Dataset /\ ~d.loading /\ d.of \in {panel.hash, NoTorrent}
      BY <2>1, <2>2 DEF Settled, Dataset
    <2>4. /\ panel' = [visible |-> panel.visible, hash |-> panel.hash,
                       tab |-> panel.tab, gen |-> panel.gen, data |-> e]
          /\ refresh' = TRUE
      BY <1>1, <1>5 DEF Settle, Put, With, State
    <2>5. e \in [Tabs -> Dataset] /\ e[f.tab] = d
          /\ \A u \in Tabs : u # f.tab => e[u] = panel.data[u]
      BY <2>1, <2>3
    <2>6. /\ panel' \in Panel /\ panel'.data = e
          /\ panel'.hash = panel.hash /\ panel'.gen = panel.gen
      BY <1>2, <2>4, <2>5 DEF Panel
    <2>7. TypeOK'
      BY <1>3, <2>4, <2>6 DEF Inv, TypeOK, Settle
    <2>8. \A g \in flights : g.gen = panel.gen /\ g.tab = f.tab => g = f
      BY <1>1, <2>1, TorrentsAssumption DEF Inv, Sound
    <2>9. ASSUME NEW u \in Tabs
          PROVE  /\ e[u].loading =>
                      \E g \in flights' : g.gen = panel.gen /\ g.tab = u
                 /\ \A g \in flights' : g.gen = panel.gen /\ g.tab = u => e[u].loading
                 /\ \A g, k \in flights' :
                      g.gen = panel.gen /\ k.gen = panel.gen /\ g.tab = u /\ k.tab = u
                         => g = k
                 /\ e[u].of \in {panel.hash, NoTorrent}
      <3> HIDE DEF d, e
      <3>1. CASE u = f.tab
        BY <3>1, <1>3, <2>3, <2>5, <2>8
      <3>2. CASE u # f.tab
        <4>1. panel.hash # NoTorrent
          BY <2>1, TorrentsAssumption
        <4>2. e[u] = panel.data[u]
          BY <3>2, <2>5
        <4>3. \A g \in flights : g.tab = u => g \in flights'
          BY <3>2, <1>3
        <4> QED BY <4>1, <4>2, <4>3, <1>1, <1>3 DEF Inv, Sound
      <3> QED BY <3>1, <3>2
    <2>10. \A g \in flights' : g.gen = panel.gen => panel.hash \in {g.hash, NoTorrent}
      BY <1>1, <1>3 DEF Inv, Sound
    <2>11. Sound(x)
      <3> HIDE DEF d, e, x
      <3> QED BY <1>1, <2>6, <2>9, <2>10 DEF Sound
    <2> QED BY <2>7, <2>11 DEF Inv
  <1> QED BY <1>4, <1>5

\* Taking the refresh out of the queue changes nothing but the waiting marks.
LEMMA DequeuedGood ==
    ASSUME Inv
    PROVE  /\ Good(Dequeued) /\ Dequeued.panel = panel
  <1> DEFINE u(f) == [f EXCEPT !.behind = FALSE]
             q == Dequeued
  <1>1. q.panel = panel /\ q.flights = {u(f) : f \in flights} /\ q.refresh = FALSE
        /\ q = [panel |-> q.panel, flights |-> q.flights, refresh |-> q.refresh]
    BY DEF Dequeued, State
  <1>2. \A f \in flights : /\ u(f) \in Flight /\ u(f).hash = f.hash
                           /\ u(f).gen = f.gen /\ u(f).tab = f.tab
    BY DEF Inv, TypeOK, Flight
  <1>3. Typed(q)
    BY <1>1, <1>2 DEF Inv, TypeOK, Typed
  <1>4. Before.panel = panel /\ Before.flights = flights
    BY DEF Before, State
  <1> HIDE DEF u, q
  <1>5. \A g \in q.flights : \E f \in flights :
           g = u(f) /\ g.hash = f.hash /\ g.gen = f.gen /\ g.tab = f.tab
    BY <1>1, <1>2
  <1>6. \A f \in flights : u(f) \in q.flights
    BY <1>1
  <1>7. \A f \in q.flights : f.gen = panel.gen => panel.hash \in {f.hash, NoTorrent}
    BY <1>4, <1>5 DEF Inv, Sound
  <1>8. ASSUME panel.hash # NoTorrent, NEW t \in Tabs
        PROVE  /\ panel.data[t].loading =>
                     \E f \in q.flights : f.gen = panel.gen /\ f.tab = t
               /\ \A f \in q.flights :
                     f.gen = panel.gen /\ f.tab = t => panel.data[t].loading
               /\ \A f, g \in q.flights :
                     f.gen = panel.gen /\ g.gen = panel.gen /\ f.tab = t /\ g.tab = t
                        => f = g
               /\ panel.data[t].of \in {panel.hash, NoTorrent}
    <2>1. /\ panel.data[t].loading =>
                \E f \in flights : f.gen = panel.gen /\ f.tab = t
          /\ \A f \in flights :
                f.gen = panel.gen /\ f.tab = t => panel.data[t].loading
          /\ \A f, g \in flights :
                f.gen = panel.gen /\ g.gen = panel.gen /\ f.tab = t /\ g.tab = t
                   => f = g
          /\ panel.data[t].of \in {panel.hash, NoTorrent}
      BY <1>4, <1>8 DEF Inv, Sound
    <2>2. panel.data[t].loading =>
             \E f \in q.flights : f.gen = panel.gen /\ f.tab = t
      BY <2>1, <1>2, <1>6
    <2>3. \A f, g \in q.flights :
             f.gen = panel.gen /\ g.gen = panel.gen /\ f.tab = t /\ g.tab = t => f = g
      <3> SUFFICES ASSUME NEW f \in q.flights, NEW g \in q.flights,
                          f.gen = panel.gen, g.gen = panel.gen, f.tab = t, g.tab = t
                   PROVE  f = g
        OBVIOUS
      <3>1. PICK a \in flights : f = u(a) /\ f.gen = a.gen /\ f.tab = a.tab
        BY <1>5
      <3>2. PICK c \in flights : g = u(c) /\ g.gen = c.gen /\ g.tab = c.tab
        BY <1>5
      <3>3. a = c
        BY <2>1, <3>1, <3>2
      <3> QED BY <3>1, <3>2, <3>3
    <2>4. \A f \in q.flights :
             f.gen = panel.gen /\ f.tab = t => panel.data[t].loading
      BY <2>1, <1>5
    <2> QED BY <2>1, <2>2, <2>3, <2>4
  <1>9. Sound(q)
    BY <1>1, <1>7, <1>8 DEF Sound
  <1> QED BY <1>1, <1>3, <1>9 DEF Good, q

\* Clearing the error of a tab that is not loading.
LEMMA RetryGood ==
    ASSUME Inv, NEW t \in Tabs
    PROVE  Good(Queue(Put(Before, t, [panel.data[t] EXCEPT !.failed = FALSE,
                                                           !.loaded = FALSE])))
  <1> DEFINE d == [panel.data[t] EXCEPT !.failed = FALSE, !.loaded = FALSE]
             e == [panel.data EXCEPT ![t] = d]
             p == [visible |-> panel.visible, hash |-> panel.hash,
                   tab |-> panel.tab, gen |-> panel.gen, data |-> e]
             q == Put(Before, t, d)
  <1>1. Good(Before) /\ Typed(Before)
        /\ Before.panel = panel /\ Before.flights = flights
    BY BeforeGood DEF Good, Before, State
  <1>2. panel \in Panel /\ panel.data \in [Tabs -> Dataset]
    BY DEF Inv, TypeOK, Panel
  <1>3. d \in Dataset /\ d.loading = panel.data[t].loading /\ d.of = panel.data[t].of
    BY <1>2 DEF Dataset
  <1>4. /\ e \in [Tabs -> Dataset]
        /\ \A u \in Tabs : e[u].loading = panel.data[u].loading /\ e[u].of = panel.data[u].of
    BY <1>2, <1>3
  <1>5. p \in Panel /\ p.data = e /\ p.hash = panel.hash /\ p.gen = panel.gen
    BY <1>2, <1>4 DEF Panel
  <1>6. q = With(Before, p)
    BY <1>1 DEF Put
  <1>7. Typed(q) /\ q.panel = p /\ q.flights = flights
    BY <1>1, <1>5, <1>6, WithTyped
  <1>8. Sound(Before)
    BY DEF Inv
  <1>9. Sound(q)
    <2> HIDE DEF d, e, p, q
    <2> QED BY <1>1, <1>4, <1>5, <1>7, <1>8 DEF Sound
  <1>10. Touches(q, Queue(q))
    BY <1>7, QueueTouches
  <1> HIDE DEF q
  <1>11. Good(q)
    BY <1>7, <1>9 DEF Good
  <1>12. Good(Queue(q))
    BY <1>10, <1>11, TouchGood
  <1> QED BY <1>12 DEF q

LEMMA HostRefreshInv == Inv /\ HostRefresh => Inv'
  <1> SUFFICES ASSUME Inv, HostRefresh PROVE Inv'
    OBVIOUS
  <1> DEFINE rebuilt == host.mode # mode
             closed  == IF rebuilt /\ mode # "bottom" THEN Show(Dequeued, FALSE)
                                                      ELSE Dequeued
             tab     == IF rebuilt THEN General ELSE host.tab
             present == mode # "off" /\ panel.hash # NoTorrent
             s       == IF present /\ tab # panel.tab
                        THEN SetTab(closed, mode, panel.tab)
                        ELSE closed
  <1>1. panel.tab \in Tabs /\ panel \in Panel /\ host \in Host
    BY DEF Inv, TypeOK, Panel
  <1>2. Good(Dequeued) /\ Dequeued.panel = panel
    BY DequeuedGood
  <1>3. Good(Show(Dequeued, FALSE)) /\ Show(Dequeued, FALSE).panel.visible = FALSE
    BY <1>2, ShowTouches, TouchGood DEF Good
  <1>4. Good(closed) /\ closed.panel.visible \in BOOLEAN
    BY <1>1, <1>2, <1>3 DEF Panel
  <1> HIDE DEF closed
  <1>5. Good(s)
    BY <1>1, <1>4, SetTabGood
  <1>6. Becomes(s) /\ mode' = mode /\ listed' = listed /\ selection' = selection
    BY DEF HostRefresh, closed
  <1>7. host' = [mode |-> mode, tab |-> IF present THEN panel.tab ELSE tab,
                 tabs |-> present /\ (mode = "bottom" \/ closed.panel.visible)]
    BY DEF HostRefresh, closed
  <1>8. host' \in Host
    <2>1. tab \in Tabs
      BY <1>1, TabsAssumption DEF Host
    <2>2. mode \in Modes
      BY DEF Inv, TypeOK
    <2> QED BY <1>1, <1>4, <1>7, <2>1, <2>2 DEF Host
  <1> HIDE DEF s
  <1> QED BY <1>5, <1>6, <1>8, HandlerKeeps DEF Inv, TypeOK

LEMMA NextInv == Inv /\ [Next]_vars => Inv'
  <1> SUFFICES ASSUME Inv, [Next]_vars PROVE Inv'
    OBVIOUS
  <1>1. Good(Before)
    BY BeforeGood
  <1>2. /\ mode \in Modes /\ listed \subseteq Torrents /\ selection \subseteq listed
        /\ host \in Host /\ panel \in Panel
    BY DEF Inv, TypeOK
  <1>3. CASE Tap
    <2>1. selection' \in SUBSET Torrents
      BY <1>2, <1>3 DEF Tap
    <2>2. Fresh(Before, EnsureFocus(Before, mode, selection', listed))
             => Good(EnsureFocus(Before, mode, selection', listed))
      BY <1>1, <2>1, EnsureFocusGood
    <2> QED BY <1>2, <1>3, <2>2, HandlerKeeps DEF Tap
  <1>4. ASSUME NEW h \in Torrents, DoubleTap(h) PROVE Inv'
    <2>1. Fresh(Before, Open(Before, mode, h)) => Good(Open(Before, mode, h))
      BY <1>1, OpenGood
    <2> QED BY <1>2, <1>4, <2>1, HandlerKeeps DEF DoubleTap
  <1>5. ASSUME NEW t \in Tabs, TapTab(t) PROVE Inv'
    <2>1. Good(SetTab(Before, mode, t))
      BY <1>1, SetTabGood
    <2>2. host' \in Host
      BY <1>2, <1>5 DEF TapTab, Host
    <2> QED BY <1>2, <1>5, <2>1, <2>2, HandlerKeeps DEF TapTab
  <1>6. CASE Retry
    <2> DEFINE q == Queue(Put(Before, panel.tab, [panel.data[panel.tab]
                             EXCEPT !.failed = FALSE, !.loaded = FALSE]))
    <2>1. panel.tab \in Tabs
      BY <1>2 DEF Panel
    <2>2. Good(q)
      BY <2>1, RetryGood
    <2>3. Becomes(EnsureLoaded(q, mode)) /\ UNCHANGED <<mode, listed, selection, host>>
      BY <1>6 DEF Retry
    <2> HIDE DEF q
    <2>4. Good(EnsureLoaded(q, mode))
      BY <2>2, EnsureLoadedGood
    <2> QED BY <1>2, <2>3, <2>4, HandlerKeeps
  <1>7. CASE TapBackdrop
    <2>1. Good(Close(Before))
      BY <1>1, QueueShow DEF Close
    <2> QED BY <1>2, <1>7, <2>1, HandlerKeeps DEF TapBackdrop
  <1>8. ASSUME NEW m \in Modes, SaveSettings(m) PROVE Inv'
    <2>1. Good(Queue(Before))
      <3>1. Touches(Before, Queue(Before))
        BY <1>1, QueueTouches DEF Good
      <3> QED BY <1>1, <3>1, TouchGood
    <2> DEFINE s == EnsureFocus(Queue(Before), m, selection, listed)
    <2>2. selection \in SUBSET Torrents
      BY <1>2
    <2>3. Fresh(Queue(Before), s) => Good(s)
      BY <2>1, <2>2, EnsureFocusGood
    <2>4. Fresh(Before, s) => Fresh(Queue(Before), s)
      BY DEF Fresh, Queue, State, Before
    <2>5. Becomes(s) /\ mode' = m /\ UNCHANGED <<listed, selection, host>>
      BY <1>8 DEF SaveSettings
    <2> HIDE DEF s
    <2> QED BY <1>2, <1>8, <2>3, <2>4, <2>5, HandlerKeeps
  <1>9. ASSUME NEW m \in Modes, SaveSettingsCutShort(m) PROVE Inv'
    BY <1>9 DEF SaveSettingsCutShort, Inv, TypeOK, Before, State
  <1>10. CASE Filter
    <2>1. selection' \in SUBSET Torrents /\ selection' \subseteq listed
      BY <1>2, <1>10 DEF Filter
    <2>2. Fresh(Before, EnsureFocus(Before, mode, selection', listed))
             => Good(EnsureFocus(Before, mode, selection', listed))
      BY <1>1, <2>1, EnsureFocusGood
    <2> QED BY <1>2, <1>10, <2>1, <2>2, HandlerKeeps DEF Filter
  <1>11. ASSUME NEW h \in Torrents, Deleted(h) PROVE Inv'
    BY <1>11 DEF Deleted, Inv, TypeOK, Before, State
  <1>12. CASE Poll
    <2> DEFINE q == EnsureFocus(Before, mode, selection', listed')
               s == RefreshLoaded(q, mode)
    <2>1. listed' \in SUBSET Torrents /\ selection' \in SUBSET listed'
          /\ selection' \in SUBSET Torrents
      BY <1>12 DEF Poll
    <2>2. Fresh(Before, q) => Good(q)
      BY <1>1, <2>1, EnsureFocusGood
    <2>3. s.panel.gen = q.panel.gen
      <3>1. CASE s = q
        BY <3>1
      <3>2. CASE s # q
        <4>1. s = Load(q, q.panel.tab)
          BY <3>2 DEF RefreshLoaded
        <4> QED BY <4>1 DEF Load, Put, With, State
      <3> QED BY <3>1, <3>2
    <2>4. Becomes(s) /\ UNCHANGED <<mode, host>>
      BY <1>12 DEF Poll
    <2> HIDE DEF q
    <2>5. Fresh(Before, s) => Good(s)
      BY <2>2, <2>3, RefreshLoadedGood DEF Fresh
    <2> HIDE DEF s
    <2> QED BY <1>2, <2>1, <2>4, <2>5, HandlerKeeps
  <1>13. ASSUME NEW f \in flights, NEW ok \in BOOLEAN, Settle(f, ok) PROVE Inv'
    BY <1>13, SettleInv
  <1>14. CASE HostRefresh
    BY <1>14, HostRefreshInv
  <1>15. CASE UNCHANGED vars
    BY <1>15 DEF vars, Inv, TypeOK, Before, State
  <1> QED BY <1>3, <1>4, <1>5, <1>6, <1>7, <1>8, <1>9, <1>10, <1>11, <1>12,
             <1>13, <1>14, <1>15 DEF Next

LEMMA InvHolds == Spec => []Inv
  <1> QED BY InitInv, NextInv, PTL DEF Spec

-----------------------------------------------------------------------------

\* Every variable of the panel keeps its type and the selection stays within
\* the list, whatever taps, polls, fetches and settings saves do.
THEOREM TypeCorrect == Spec => []TypeOK
  <1>1. Inv => TypeOK
    BY DEF Inv
  <1> QED BY <1>1, InvHolds, PTL

\* resetGeneration and the loading flag do their work: while a torrent is in
\* focus, a tab is loading exactly when one fetch it waits for is on its way.
THEOREM LoadingCorrect == Spec => []LoadingMeansInFlight
  <1>1. Inv => LoadingMeansInFlight
    <2> SUFFICES ASSUME Inv, panel.hash # NoTorrent, NEW t \in Tabs
                 PROVE  IF panel.data[t].loading THEN \E f \in flights : Awaited(t) = {f}
                                                 ELSE Awaited(t) = {}
      BY DEF LoadingMeansInFlight
    <2>1. Before.panel = panel /\ Before.flights = flights
      BY DEF Before, State
    <2>2. \A f \in flights : f.gen = panel.gen => Current(f)
      BY <2>1 DEF Inv, Sound, Current
    <2>3. CASE panel.data[t].loading
      <3>1. PICK f \in flights : f.gen = panel.gen /\ f.tab = t
        BY <2>1, <2>3 DEF Inv, Sound
      <3>2. f \in Awaited(t)
        BY <2>2, <3>1 DEF Awaited
      <3>3. \A g \in Awaited(t) : g = f
        BY <2>1, <3>1 DEF Inv, Sound, Awaited, Current
      <3> QED BY <2>3, <3>2, <3>3
    <2>4. CASE ~panel.data[t].loading
      BY <2>1, <2>4 DEF Inv, Sound, Awaited, Current
    <2> QED BY <2>3, <2>4
  <1> QED BY <1>1, InvHolds, PTL

\* What a tab shows was fetched for the torrent in focus, never for another.
THEOREM DataCorrect == Spec => []DataIsOfFocusedTorrent
  <1>1. Inv => DataIsOfFocusedTorrent
    BY DEF Inv, Sound, DataIsOfFocusedTorrent, Before, State
  <1> QED BY <1>1, InvHolds, PTL
-----------------------------------------------------------------------------
(* A failed load stays failed. What could fetch it again without the user is   *)
(* the callback of the tab widget. But unless the mode has changed, the widget  *)
(* follows the active tab only to a torrent just focused, and while that        *)
(* refresh waits in the queue, the fetch of the tab has not returned.           *)

NeverBoth(s) ==
    \A t \in Tabs : ~(s.panel.data[t].failed /\ s.panel.data[t].loaded)

\* The fetch of the active tab is under way, and started after the last refresh.
Awaits(s) ==
    /\ ~s.panel.data[s.panel.tab].failed
    /\ \E f \in s.flights : f.behind /\ f.gen = s.panel.gen /\ f.tab = s.panel.tab

WidgetInv ==
    panel.hash # NoTorrent /\ host.mode # "off" /\ panel.tab # host.tab => Awaits(Before)

FailureInv == Inv /\ NeverBoth(Before) /\ WidgetInv

\* What a handler makes of s: it keeps the torrent and the tab, or drops the focus, ...
Kept(s, q) ==
    /\ q.panel.gen = s.panel.gen /\ q.panel.tab = s.panel.tab
    /\ q.panel.hash \in {s.panel.hash, NoTorrent}
    /\ s.flights \subseteq q.flights
    /\ \A t \in Tabs : /\ q.panel.data[t].failed = s.panel.data[t].failed
                       /\ q.panel.data[t].loaded = s.panel.data[t].loaded

\* ... without a fetch, ...
Stays(s, q) == Touches(s, q) /\ q.panel.tab = s.panel.tab

\* ... or it focuses another torrent, whose first tab it fetches.
Focuses(s, q) ==
    /\ q.panel.gen # s.panel.gen
    /\ \A t \in Tabs : ~q.panel.data[t].failed
    /\ Awaits(q)

LEMMA StaysIsKept ==
    ASSUME NEW s, NEW q, Stays(s, q)
    PROVE  Kept(s, q)
  BY DEF Stays, Touches, Kept

LEMMA KeptTwice ==
    ASSUME NEW s, NEW q, NEW r, Kept(s, q), Kept(q, r)
    PROVE  Kept(s, r)
  BY DEF Kept

LEMMA QueueStays ==
    ASSUME NEW s, Typed(s)
    PROVE  Stays(s, Queue(s))
  BY QueueTouches DEF Stays

LEMMA QueueShowStays ==
    ASSUME NEW s, Typed(s), NEW b \in BOOLEAN
    PROVE  Stays(s, Queue(Show(s, b)))
  <1>1. Touches(s, Show(s, b)) /\ Typed(Show(s, b)) /\ Show(s, b).panel.tab = s.panel.tab
    BY ShowTouches
  <1>2. /\ Touches(Show(s, b), Queue(Show(s, b)))
        /\ Queue(Show(s, b)).panel = Show(s, b).panel
    BY <1>1, QueueTouches
  <1> QED BY <1>1, <1>2 DEF Stays, Touches

\* loadDetailsDataset starts a fetch after the refresh it queues.
LEMMA LoadKeeps ==
    ASSUME NEW s, Typed(s), NEW t \in Tabs
    PROVE  /\ Kept(s, Load(s, t))
           /\ \A u \in Tabs : u # t => Load(s, t).panel.data[u] = s.panel.data[u]
           /\ \E f \in Load(s, t).flights :
                 f.behind /\ f.gen = s.panel.gen /\ f.tab = t
  <1> DEFINE q == Load(s, t)
             n == [hash |-> s.panel.hash, gen |-> s.panel.gen, tab |-> t, behind |-> TRUE]
             d == [s.panel.data[t] EXCEPT !.loading = TRUE]
             e == [s.panel.data EXCEPT ![t] = d]
  <1>1. s.panel.data \in [Tabs -> Dataset]
    BY DEF Typed, Panel
  <1>2. d.failed = s.panel.data[t].failed /\ d.loaded = s.panel.data[t].loaded
    BY <1>1 DEF Dataset
  <1>3. e[t] = d /\ \A u \in Tabs : u # t => e[u] = s.panel.data[u]
    BY <1>1
  <1>4. q = [panel |-> [visible |-> s.panel.visible, hash |-> s.panel.hash,
                        tab |-> s.panel.tab, gen |-> s.panel.gen, data |-> e],
             flights |-> s.flights \cup {n}, refresh |-> TRUE]
    BY DEF Load, Put, With, State
  <1>5. n.behind /\ n.gen = s.panel.gen /\ n.tab = t
    OBVIOUS
  <1> HIDE DEF q, n, d, e
  <1>6. /\ q.panel.hash = s.panel.hash /\ q.panel.tab = s.panel.tab
        /\ q.panel.gen = s.panel.gen /\ q.panel.data = e /\ q.flights = s.flights \cup {n}
    BY <1>4
  <1>7. Kept(s, q)
    BY <1>2, <1>3, <1>6 DEF Kept
  <1> QED BY <1>3, <1>5, <1>6, <1>7 DEF q

LEMMA EnsureLoadedKeeps ==
    ASSUME NEW s, Typed(s), NEW m
    PROVE  Kept(s, EnsureLoaded(s, m))
  <1>1. s.panel.tab \in Tabs
    BY DEF Typed, Panel
  <1>2. Kept(s, s)
    BY DEF Kept
  <1>3. Kept(s, Load(s, s.panel.tab))
    BY <1>1, LoadKeeps
  <1>4. EnsureLoaded(s, m) \in {s, Load(s, s.panel.tab)}
    BY DEF EnsureLoaded
  <1> QED BY <1>2, <1>3, <1>4

\* The poll fetches a tab again only if it is loaded.
LEMMA RefreshLoadedKeeps ==
    ASSUME NEW s, Typed(s), NeverBoth(s), NEW m
    PROVE  /\ Kept(s, RefreshLoaded(s, m))
           /\ \A t \in Tabs :
                 s.panel.data[t].failed =>
                    RefreshLoaded(s, m).panel.data[t].loading = s.panel.data[t].loading
  <1> DEFINE u == s.panel.tab
  <1>1. u \in Tabs
    BY DEF Typed, Panel
  <1>2. CASE RefreshLoaded(s, m) = s
    BY <1>2 DEF Kept
  <1>3. CASE RefreshLoaded(s, m) # s
    <2>1. RefreshLoaded(s, m) = Load(s, u) /\ s.panel.data[u].loaded
      BY <1>3 DEF RefreshLoaded
    <2>2. ~s.panel.data[u].failed
      BY <1>1, <2>1 DEF NeverBoth
    <2>3. Kept(s, Load(s, u))
      BY <1>1, LoadKeeps
    <2>4. \A t \in Tabs : t # u => Load(s, u).panel.data[t] = s.panel.data[t]
      BY <1>1, LoadKeeps
    <2> QED BY <2>1, <2>2, <2>3, <2>4
  <1> QED BY <1>2, <1>3

\* A torrent that comes into focus: everything is forgotten, and its first tab fetched.
LEMMA FocusFetches ==
    ASSUME NEW s, Typed(s), NEW m, m # "off", NEW h \in Torrents
    PROVE  Focuses(s, EnsureLoaded(Queue(Show(Reset(s, h), TRUE)), m))
  <1> DEFINE r == Reset(s, h)
             q == Queue(Show(r, TRUE))
  <1>1. /\ s = [panel |-> s.panel, flights |-> s.flights, refresh |-> s.refresh]
        /\ s.panel \in Panel /\ s.flights \subseteq Flight /\ s.refresh \in BOOLEAN
    BY DEF Typed
  <1>2. r = [panel |-> [visible |-> s.panel.visible, hash |-> h, tab |-> General,
                        gen |-> NextGeneration(s.panel.gen),
                        data |-> [t \in Tabs |-> Empty]],
             flights |-> s.flights, refresh |-> s.refresh]
    BY DEF Reset, With, State
  <1>3. /\ NextGeneration(s.panel.gen) \in 0 .. Generations - 1
        /\ NextGeneration(s.panel.gen) # s.panel.gen
    BY <1>1, NextIsAnother DEF Panel
  <1>4. r.panel \in Panel
    BY <1>1, <1>2, <1>3, EmptyIsDataset, TabsAssumption DEF Panel
  <1>5. Typed(r)
    BY <1>1, <1>2, <1>4 DEF Typed
  <1>6. /\ r.panel.hash = h /\ r.panel.tab = General
        /\ r.panel.gen = NextGeneration(s.panel.gen)
        /\ \A t \in Tabs : r.panel.data[t] = Empty
    BY <1>2
  <1> HIDE DEF r
  <1>7. Stays(r, q) /\ Typed(q) /\ q.panel.visible = TRUE /\ q.panel.hash = r.panel.hash
    <2>1. Touches(r, Show(r, TRUE)) /\ Typed(Show(r, TRUE))
          /\ Show(r, TRUE).panel.visible = TRUE /\ Show(r, TRUE).panel.hash = r.panel.hash
      BY <1>5, ShowTouches
    <2>2. q.panel = Show(r, TRUE).panel
      BY <2>1, QueueTouches
    <2> QED BY <1>5, <2>1, <2>2, QueueShowStays DEF Stays, Touches
  <1> HIDE DEF q
  <1>8. /\ q.panel.hash = h /\ q.panel.tab = General
        /\ q.panel.gen = NextGeneration(s.panel.gen)
        /\ \A t \in Tabs : q.panel.data[t] = Empty
    BY <1>6, <1>7 DEF Stays, Touches
  <1>9. EnsureLoaded(q, m) = Load(q, General)
    <2>1. MayLoad(q, m)
      BY <1>7, <1>8, TorrentsAssumption DEF MayLoad
    <2>2. ~q.panel.data[General].loaded /\ ~q.panel.data[General].loading
      BY <1>8, TabsAssumption DEF Empty
    <2> QED BY <1>8, <2>1, <2>2 DEF EnsureLoaded
  <1>10. /\ Kept(q, Load(q, General))
         /\ \E f \in Load(q, General).flights :
               f.behind /\ f.gen = q.panel.gen /\ f.tab = General
    BY <1>7, LoadKeeps, TabsAssumption
  <1>11. \A t \in Tabs : ~q.panel.data[t].failed
    BY <1>8 DEF Empty
  <1>12. Focuses(s, Load(q, General))
    BY <1>3, <1>8, <1>10, <1>11, TabsAssumption DEF Focuses, Awaits, Kept
  <1> QED BY <1>9, <1>12 DEF q, r

LEMMA EnsureFocusFetches ==
    ASSUME NEW s, Typed(s), NEW m, NEW sel \in SUBSET Torrents, NEW list
    PROVE  \/ Stays(s, EnsureFocus(s, m, sel, list))
           \/ Focuses(s, EnsureFocus(s, m, sel, list))
  <1> DEFINE q == EnsureFocus(s, m, sel, list)
             h == CHOOSE t \in sel : TRUE
             p == [s.panel EXCEPT !.visible = FALSE, !.hash = NoTorrent]
  <1>1. \/ q = s
        \/ q = Queue(Show(s, TRUE)) \/ q = Queue(Show(s, FALSE))
        \/ q = Queue(With(s, p))
        \/ /\ \E x \in Torrents : sel = {x}
           /\ q = EnsureLoaded(Queue(Show(Reset(s, h), TRUE)), "bottom")
    <2>1. CASE m = "bottom"
      BY <2>1 DEF EnsureFocus, FollowSelection
    <2>2. CASE m # "bottom"
      BY <2>2 DEF EnsureFocus, Close
    <2> QED BY <2>1, <2>2
  <1>2. CASE q = s
    BY <1>2 DEF Stays, Touches
  <1>3. CASE q = Queue(Show(s, TRUE)) \/ q = Queue(Show(s, FALSE))
    BY <1>3, QueueShowStays
  <1>4. CASE q = Queue(With(s, p))
    <2>1. /\ p \in Panel /\ p.hash = NoTorrent /\ p.tab = s.panel.tab
          /\ p.gen = s.panel.gen /\ p.data = s.panel.data
      BY DEF Typed, Panel
    <2>2. Typed(With(s, p)) /\ With(s, p).panel = p /\ With(s, p).flights = s.flights
      BY <2>1, WithTyped
    <2>3. Touches(With(s, p), Queue(With(s, p))) /\ Queue(With(s, p)).panel = p
      BY <2>2, QueueTouches
    <2> QED BY <1>4, <2>1, <2>2, <2>3 DEF Stays, Touches
  <1>5. CASE /\ \E x \in Torrents : sel = {x}
             /\ q = EnsureLoaded(Queue(Show(Reset(s, h), TRUE)), "bottom")
    <2>1. h \in Torrents
      BY <1>5
    <2> QED BY <1>5, <2>1, FocusFetches
  <1> QED BY <1>1, <1>2, <1>3, <1>4, <1>5

LEMMA OpenFetches ==
    ASSUME NEW s, Typed(s), NEW m, NEW h \in Torrents
    PROVE  Kept(s, Open(s, m, h)) \/ Focuses(s, Open(s, m, h))
  <1>1. CASE m = "off"
    BY <1>1 DEF Open, Kept
  <1>2. CASE m # "off" /\ s.panel.hash # h
    <2>1. Open(s, m, h) = EnsureLoaded(Queue(Show(Reset(s, h), TRUE)), m)
      BY <1>2 DEF Open
    <2> QED BY <1>2, <2>1, FocusFetches
  <1>3. CASE m # "off" /\ s.panel.hash = h
    <2> DEFINE q == Queue(Show(s, TRUE))
    <2>1. Open(s, m, h) = EnsureLoaded(q, m)
      BY <1>3 DEF Open
    <2>2. Stays(s, q) /\ Typed(q)
      BY QueueShowStays DEF Stays, Touches
    <2>3. Kept(s, q) /\ Kept(q, EnsureLoaded(q, m))
      BY <2>2, StaysIsKept, EnsureLoadedKeeps
    <2> QED BY <2>1, <2>3, KeptTwice
  <1> QED BY <1>1, <1>2, <1>3

\* setDetailsTab.
LEMMA SetTabKeeps ==
    ASSUME NEW s, Typed(s), NEW m, NEW t \in Tabs
    PROVE  LET q == SetTab(s, m, t)
           IN  /\ q.panel.tab = t /\ q.panel.gen = s.panel.gen
               /\ q.panel.hash \in {s.panel.hash, NoTorrent}
               /\ \A u \in Tabs : /\ q.panel.data[u].failed = s.panel.data[u].failed
                                  /\ q.panel.data[u].loaded = s.panel.data[u].loaded
                                  /\ u # t => q.panel.data[u] = s.panel.data[u]
               /\ s.panel.data[t].loading => q.panel.data = s.panel.data
  <1> DEFINE p == [s.panel EXCEPT !.tab = t]
             w == Queue(With(s, p))
             q == EnsureLoaded(w, m)
  <1>1. /\ p \in Panel /\ p.tab = t /\ p.gen = s.panel.gen /\ p.data = s.panel.data
        /\ p.hash = s.panel.hash
    BY DEF Typed, Panel
  <1>2. Typed(With(s, p)) /\ With(s, p).panel = p
    BY <1>1, WithTyped
  <1>3. w.panel = p /\ Typed(w)
    BY <1>2, QueueTouches DEF Touches
  <1>4. q = SetTab(s, m, t)
    BY DEF SetTab
  <1> HIDE DEF p, w, q
  <1>5. Kept(w, q)
    BY <1>3, EnsureLoadedKeeps DEF q
  <1>6. \A u \in Tabs : u # t => q.panel.data[u] = w.panel.data[u]
    <2>1. CASE q = w
      BY <2>1
    <2>2. CASE q # w
      <3>1. q = Load(w, t)
        BY <1>1, <1>3, <2>2 DEF q, EnsureLoaded
      <3> QED BY <1>3, <3>1, LoadKeeps
    <2> QED BY <2>1, <2>2
  <1>7. s.panel.data[t].loading => q = w
    BY <1>1, <1>3 DEF q, EnsureLoaded
  <1> QED BY <1>1, <1>3, <1>4, <1>5, <1>6, <1>7 DEF Kept

\* Handlers that leave the widget alone.
LEMMA HandlerWaits ==
    ASSUME FailureInv, NEW q, Becomes(q), Kept(Before, q) \/ Focuses(Before, q),
           UNCHANGED host
    PROVE  NeverBoth(Before)' /\ WidgetInv'
  <1>1. /\ Before.panel = panel /\ Before.flights = flights
        /\ Before'.panel = q.panel /\ Before'.flights = q.flights /\ panel' = q.panel
    BY DEF Becomes, Before, State
  <1>2. panel.tab \in Tabs
    BY DEF FailureInv, Inv, TypeOK, Panel
  <1>3. CASE Kept(Before, q)
    <2>1. NeverBoth(Before)'
      BY <1>1, <1>3 DEF FailureInv, NeverBoth, Kept
    <2>2. WidgetInv'
      BY <1>1, <1>2, <1>3 DEF FailureInv, WidgetInv, Awaits, Kept
    <2> QED BY <2>1, <2>2
  <1>4. CASE Focuses(Before, q)
    BY <1>1, <1>4 DEF Focuses, NeverBoth, WidgetInv, Awaits
  <1> QED BY <1>3, <1>4
\* Taking the refresh out of the queue leaves the panel as it is.
LEMMA HostRefreshWaits ==
    ASSUME FailureInv, HostRefresh
    PROVE  /\ NeverBoth(Before)' /\ WidgetInv'
           /\ host.mode = mode => \A t \in Tabs :
                 panel.data[t].failed => panel'.data[t].loading = panel.data[t].loading
  <1> DEFINE rebuilt == host.mode # mode
             closed  == IF rebuilt /\ mode # "bottom" THEN Show(Dequeued, FALSE)
                                                      ELSE Dequeued
             tab     == IF rebuilt THEN General ELSE host.tab
             present == mode # "off" /\ panel.hash # NoTorrent
             set     == SetTab(closed, mode, panel.tab)
             s       == IF present /\ tab # panel.tab THEN set ELSE closed
  <1>1. panel.tab \in Tabs /\ panel \in Panel /\ host \in Host
    BY DEF FailureInv, Inv, TypeOK, Panel
  <1>2. Typed(Dequeued) /\ Dequeued.panel = panel
    BY DequeuedGood DEF FailureInv, Good
  <1>3. /\ Typed(closed) /\ closed.panel.tab = panel.tab /\ closed.panel.gen = panel.gen
        /\ closed.panel.hash = panel.hash /\ closed.panel.data = panel.data
    <2>1. /\ Touches(Dequeued, Show(Dequeued, FALSE)) /\ Typed(Show(Dequeued, FALSE))
          /\ Show(Dequeued, FALSE).panel.hash = Dequeued.panel.hash
          /\ Show(Dequeued, FALSE).panel.tab = Dequeued.panel.tab
      BY <1>2, ShowTouches
    <2> QED BY <1>2, <2>1 DEF Touches
  <1>4. /\ Becomes(s) /\ UNCHANGED mode
        /\ host' = [mode |-> mode, tab |-> IF present THEN panel.tab ELSE tab,
                    tabs |-> present /\ (mode = "bottom" \/ closed.panel.visible)]
    BY DEF HostRefresh
  <1>5. host'.mode = mode /\ (present => host'.tab = panel.tab)
    BY <1>4
  <1> HIDE DEF closed
  <1>6. /\ set.panel.tab = panel.tab /\ set.panel.gen = panel.gen
        /\ set.panel.hash \in {panel.hash, NoTorrent}
        /\ \A u \in Tabs : /\ set.panel.data[u].failed = panel.data[u].failed
                           /\ set.panel.data[u].loaded = panel.data[u].loaded
                           /\ u # panel.tab => set.panel.data[u] = panel.data[u]
        /\ panel.data[panel.tab].loading => set.panel.data = panel.data
    BY <1>1, <1>3, SetTabKeeps
  <1> HIDE DEF set, s
  <1>7. /\ s.panel.tab = panel.tab /\ s.panel.hash \in {panel.hash, NoTorrent}
        /\ \A u \in Tabs : /\ s.panel.data[u].failed = panel.data[u].failed
                           /\ s.panel.data[u].loaded = panel.data[u].loaded
    BY <1>3, <1>6 DEF s
  <1>8. /\ Before.panel = panel /\ Before'.panel = s.panel /\ panel' = s.panel
    BY <1>4 DEF Becomes, Before, State
  <1>9. NeverBoth(Before)'
    BY <1>7, <1>8 DEF FailureInv, NeverBoth
  <1>10. WidgetInv'
    BY <1>5, <1>7, <1>8 DEF WidgetInv
  <1>11. ASSUME host.mode = mode, NEW t \in Tabs, panel.data[t].failed
         PROVE  panel'.data[t].loading = panel.data[t].loading
    <2>1. CASE s = closed
      BY <1>3, <1>8, <2>1
    <2>2. CASE present /\ host.tab # panel.tab /\ s = set
      <3>1. ~panel.data[panel.tab].failed
        BY <1>8, <1>11, <2>2 DEF FailureInv, WidgetInv, Awaits
      <3> QED BY <1>6, <1>8, <1>11, <2>2, <3>1
    <2> QED BY <1>11, <2>1, <2>2 DEF s
  <1> QED BY <1>9, <1>10, <1>11

\* The result of a fetch: not of the one the widget waits for, which is behind it.
LEMMA SettleWaits ==
    ASSUME FailureInv, NEW f \in flights, NEW ok \in BOOLEAN, Settle(f, ok)
    PROVE  NeverBoth(Before)' /\ WidgetInv'
  <1>1. /\ Before.panel = panel /\ Before.flights = flights
        /\ Before'.panel = panel' /\ Before'.flights = flights'
    BY DEF Before, State
  <1>2. flights' = flights \ {f} /\ ~f.behind /\ UNCHANGED host
    BY DEF Settle
  <1>3. CASE ~Current(f)
    <2>1. panel' = panel
      BY <1>3 DEF Settle
    <2> QED BY <1>1, <1>2, <2>1 DEF FailureInv, NeverBoth, WidgetInv, Awaits
  <1>4. CASE Current(f)
    <2> DEFINE d == Settled(f, ok)
               e == [panel.data EXCEPT ![f.tab] = d]
    <2>1. /\ f.tab \in Tabs /\ f.hash \in Torrents /\ panel.tab \in Tabs
          /\ panel.data \in [Tabs -> Dataset]
      BY DEF FailureInv, Inv, TypeOK, Flight, Panel
    <2>2. panel' = [visible |-> panel.visible, hash |-> panel.hash,
                    tab |-> panel.tab, gen |-> panel.gen, data |-> e]
      BY <1>1, <1>4 DEF Settle, Put, With, State
    <2>3. /\ panel'.hash = panel.hash /\ panel'.tab = panel.tab
          /\ panel'.gen = panel.gen /\ panel'.data = e
      BY <2>2
    <2>4. e[f.tab] = d /\ \A u \in Tabs : u # f.tab => e[u] = panel.data[u]
      BY <2>1
    <2>5. ~(d.failed /\ d.loaded)
      BY DEF Settled
    <2> HIDE DEF d, e
    <2>6. NeverBoth(Before)'
      BY <1>1, <2>3, <2>4, <2>5 DEF FailureInv, NeverBoth
    <2>7. ASSUME panel.hash # NoTorrent, Awaits(Before)
          PROVE  Awaits(Before)'
      <3>1. PICK g \in flights : g.behind /\ g.gen = panel.gen /\ g.tab = panel.tab
        BY <1>1, <2>7 DEF Awaits
      <3>2. f.gen = panel.gen /\ f # g
        BY <1>2, <1>4, <3>1 DEF Current
      <3>3. f.tab # panel.tab
        BY <1>1, <2>1, <2>7, <3>1, <3>2 DEF FailureInv, Inv, Sound
      <3>4. g \in flights' /\ panel'.data[panel.tab] = panel.data[panel.tab]
        BY <1>2, <2>1, <2>3, <2>4, <3>2, <3>3
      <3> QED BY <1>1, <2>3, <2>7, <3>1, <3>4 DEF Awaits
    <2>8. WidgetInv'
      BY <1>1, <1>2, <2>3, <2>7 DEF FailureInv, WidgetInv
    <2> QED BY <2>6, <2>8
  <1> QED BY <1>3, <1>4

\* The poll, and the loads it makes.
LEMMA PollWaits ==
    ASSUME FailureInv, Poll
    PROVE  /\ NeverBoth(Before)' /\ WidgetInv'
           /\ panel'.gen = panel.gen => \A t \in Tabs :
                 panel.data[t].failed => panel'.data[t].loading = panel.data[t].loading
  <1> DEFINE q == EnsureFocus(Before, mode, selection', listed')
             s == RefreshLoaded(q, mode)
  <1>1. Good(Before) /\ selection' \in SUBSET Torrents /\ Becomes(s) /\ UNCHANGED host
    BY BeforeGood DEF FailureInv, Poll
  <1>2. Before.panel = panel /\ panel' = s.panel
    BY <1>1 DEF Becomes, Before, State
  <1>3. s.panel.gen = q.panel.gen
    <2>1. CASE s = q
      BY <2>1
    <2>2. CASE s # q
      <3>1. s = Load(q, q.panel.tab)
        BY <2>2 DEF RefreshLoaded
      <3> QED BY <3>1 DEF Load, Put, With, State
    <2> QED BY <2>1, <2>2
  <1>4. Good(q)
    <2>1. Fresh(Before, q)
      BY <1>1, <1>3 DEF Becomes, Fresh, Before, State
    <2> QED BY <1>1, <2>1, EnsureFocusGood
  <1>5. Stays(Before, q) \/ Focuses(Before, q)
    BY <1>1, EnsureFocusFetches DEF Good
  <1>6. NeverBoth(q)
    <2>1. CASE Stays(Before, q)
      BY <2>1 DEF Stays, Touches, FailureInv, NeverBoth
    <2>2. CASE Focuses(Before, q)
      BY <2>2 DEF Focuses, NeverBoth
    <2> QED BY <1>5, <2>1, <2>2
  <1>7. /\ Kept(q, s)
        /\ \A t \in Tabs :
              q.panel.data[t].failed => s.panel.data[t].loading = q.panel.data[t].loading
    BY <1>4, <1>6, RefreshLoadedKeeps DEF Good
  <1>8. q.panel.tab \in Tabs
    BY <1>4 DEF Good, Typed, Panel
  <1> HIDE DEF q, s
  <1>9. Kept(Before, s) \/ Focuses(Before, s)
    <2>1. CASE Stays(Before, q)
      BY <1>7, <2>1, StaysIsKept, KeptTwice
    <2>2. CASE Focuses(Before, q)
      BY <1>7, <1>8, <2>2 DEF Focuses, Kept, Awaits
    <2> QED BY <1>5, <2>1, <2>2
  <1>10. NeverBoth(Before)' /\ WidgetInv'
    BY <1>1, <1>9, HandlerWaits
  <1>11. ASSUME panel'.gen = panel.gen, NEW t \in Tabs, panel.data[t].failed
         PROVE  panel'.data[t].loading = panel.data[t].loading
    <2>1. Stays(Before, q)
      BY <1>2, <1>3, <1>5, <1>11 DEF Focuses
    <2>2. q.panel.data = panel.data
      BY <1>2, <2>1 DEF Stays, Touches
    <2> QED BY <1>2, <1>7, <1>11, <2>2
  <1> QED BY <1>10, <1>11

LEMMA FailureInit == Init => FailureInv
  <1> SUFFICES ASSUME Init PROVE FailureInv
    OBVIOUS
  <1>1. Before.panel = panel
    BY DEF Before, State
  <1>2. NeverBoth(Before) /\ WidgetInv
    BY <1>1 DEF Init, Empty, NeverBoth, WidgetInv
  <1> QED BY <1>2, InitInv DEF FailureInv

LEMMA FailureNext == FailureInv /\ [Next]_vars => FailureInv'
  <1> SUFFICES ASSUME FailureInv, [Next]_vars PROVE NeverBoth(Before)' /\ WidgetInv'
    BY NextInv DEF FailureInv
  <1>1. Typed(Before) /\ Before.panel = panel /\ Before.flights = flights
    BY BeforeGood DEF FailureInv, Good, Before, State
  <1>2. selection \in SUBSET Torrents /\ panel.tab \in Tabs
        /\ panel.data \in [Tabs -> Dataset]
    BY DEF FailureInv, Inv, TypeOK, Panel
  <1>3. ASSUME NEW s, Typed(s), Kept(Before, s), NEW sel \in SUBSET Torrents, NEW m, NEW list,
               Becomes(EnsureFocus(s, m, sel, list)), UNCHANGED host,
               s.panel = Before.panel, s.flights = Before.flights
        PROVE  NeverBoth(Before)' /\ WidgetInv'
    <2> DEFINE q == EnsureFocus(s, m, sel, list)
    <2>1. Stays(s, q) \/ Focuses(s, q)
      BY <1>3, EnsureFocusFetches
    <2>2. Kept(Before, q) \/ Focuses(Before, q)
      BY <1>3, <2>1, StaysIsKept, KeptTwice DEF Focuses
    <2> QED BY <1>3, <2>2, HandlerWaits
  <1>4. Kept(Before, Before)
    BY DEF Kept
  <1>5. CASE Tap
    BY <1>1, <1>3, <1>4, <1>5 DEF Tap, FailureInv, Inv, TypeOK
  <1>6. ASSUME NEW h \in Torrents, DoubleTap(h) PROVE NeverBoth(Before)' /\ WidgetInv'
    BY <1>1, <1>6, OpenFetches, HandlerWaits DEF DoubleTap
  <1>7. ASSUME NEW t \in Tabs, TapTab(t) PROVE NeverBoth(Before)' /\ WidgetInv'
    <2> DEFINE q == SetTab(Before, mode, t)
    <2>1. /\ q.panel.tab = t
          /\ \A u \in Tabs : /\ q.panel.data[u].failed = panel.data[u].failed
                             /\ q.panel.data[u].loaded = panel.data[u].loaded
      BY <1>1, SetTabKeeps
    <2>2. panel' = q.panel /\ Before'.panel = panel' /\ host'.tab = t
      BY <1>7 DEF TapTab, Becomes, Before, State, FailureInv, Inv, TypeOK, Host
    <2> HIDE DEF q
    <2> QED BY <1>1, <2>1, <2>2 DEF FailureInv, NeverBoth, WidgetInv
  <1>8. CASE Retry
    <2> DEFINE d == [panel.data[panel.tab] EXCEPT !.failed = FALSE, !.loaded = FALSE]
               e == [panel.data EXCEPT ![panel.tab] = d]
               p == [visible |-> panel.visible, hash |-> panel.hash,
                     tab |-> panel.tab, gen |-> panel.gen, data |-> e]
               q == Queue(Put(Before, panel.tab, d))
               s == EnsureLoaded(q, mode)
    <2>1. Becomes(s) /\ UNCHANGED host /\ panel.data[panel.tab].failed
      BY <1>8 DEF Retry
    <2>2. ~d.failed
      BY <1>2 DEF Dataset
    <2>3. Good(q)
      BY <1>2, RetryGood DEF FailureInv
    <2>4. q.panel = p
      BY <1>1 DEF Queue, Put, With, State
    <2>5. e[panel.tab] = d /\ \A u \in Tabs : u # panel.tab => e[u] = panel.data[u]
      BY <1>2
    <2> HIDE DEF d, e, q
    <2>6. /\ q.panel.hash = panel.hash /\ q.panel.tab = panel.tab
          /\ q.panel.data[panel.tab] = d
          /\ \A u \in Tabs : u # panel.tab => q.panel.data[u] = panel.data[u]
      BY <2>4, <2>5
    <2> HIDE DEF p
    <2>7. Kept(q, s)
      BY <2>3, EnsureLoadedKeeps DEF Good
    <2> HIDE DEF s
    <2>8. /\ panel'.hash \in {panel.hash, NoTorrent} /\ panel'.tab = panel.tab
          /\ ~panel'.data[panel.tab].failed
          /\ \A u \in Tabs : u # panel.tab =>
                /\ panel'.data[u].failed = panel.data[u].failed
                /\ panel'.data[u].loaded = panel.data[u].loaded
          /\ Before'.panel = panel'
      BY <1>2, <2>1, <2>2, <2>6, <2>7 DEF Kept, Becomes, Before, State
    <2>9. NeverBoth(Before)'
      BY <1>1, <2>8 DEF FailureInv, NeverBoth
    <2>10. WidgetInv'
      BY <1>1, <2>1, <2>8 DEF FailureInv, WidgetInv, Awaits
    <2> QED BY <2>9, <2>10
  <1>9. CASE TapBackdrop
    <2>1. Kept(Before, Close(Before))
      BY <1>1, QueueShowStays, StaysIsKept DEF Close
    <2> QED BY <1>9, <2>1, HandlerWaits DEF TapBackdrop
  <1>10. ASSUME NEW m \in Modes, SaveSettings(m) PROVE NeverBoth(Before)' /\ WidgetInv'
    <2>1. Stays(Before, Queue(Before)) /\ Typed(Queue(Before))
      BY <1>1, QueueStays DEF Stays, Touches
    <2>2. Queue(Before).panel = Before.panel /\ Queue(Before).flights = Before.flights
      BY DEF Queue, State
    <2>3. Kept(Before, Queue(Before))
      BY <2>1, StaysIsKept
    <2> QED BY <1>2, <1>3, <1>10, <2>1, <2>2, <2>3 DEF SaveSettings
  <1>11. ASSUME UNCHANGED <<panel, flights, host>> PROVE NeverBoth(Before)' /\ WidgetInv'
    BY <1>11 DEF FailureInv, NeverBoth, WidgetInv, Awaits, Before, State
  <1>12. CASE Filter
    <2>1. selection' \in SUBSET Torrents
      BY <1>2, <1>12 DEF Filter
    <2> QED BY <1>1, <1>3, <1>4, <1>12, <2>1 DEF Filter
  <1>13. CASE Poll
    BY <1>13, PollWaits
  <1>14. ASSUME NEW f \in flights, NEW ok \in BOOLEAN, Settle(f, ok)
         PROVE  NeverBoth(Before)' /\ WidgetInv'
    BY <1>14, SettleWaits
  <1>15. CASE HostRefresh
    BY <1>15, HostRefreshWaits
  <1> QED BY <1>5, <1>6, <1>7, <1>8, <1>9, <1>10, <1>11, <1>12, <1>13, <1>14, <1>15
          DEF Next, SaveSettingsCutShort, Deleted, vars

\* Neither the poll nor the callbacks of the tab widget fetch a failed tab again, for
\* every set of torrents and tabs: the failure stays until the user acts.
THEOREM FailureCorrect == Spec => FailureWaitsForUser
  <1> DEFINE Step == Poll \/ (HostRefresh /\ host.mode = mode) =>
                       \A t \in Tabs : panel.data[t].failed /\ panel'.gen = panel.gen
                          => panel'.data[t].loading = panel.data[t].loading
  <1>1. FailureInv => [Step]_vars
    <2> SUFFICES ASSUME FailureInv PROVE Step
      OBVIOUS
    <2>1. CASE Poll
      BY <2>1, PollWaits
    <2>2. CASE HostRefresh /\ host.mode = mode
      BY <2>2, HostRefreshWaits
    <2> QED BY <2>1, <2>2
  <1> HIDE DEF Step
  <1>2. Spec => [][Step]_vars
    BY <1>1, FailureInit, FailureNext, PTL DEF Spec
  <1> QED BY <1>2 DEF FailureWaitsForUser, Step
===============================================================================
