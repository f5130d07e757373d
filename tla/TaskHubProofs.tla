---------------------------- MODULE TaskHubProofs ----------------------------
(* Theorems about TaskHub, for any viewers, any size of the buffers and any *)
(* number of frames.                                                        *)
EXTENDS TaskHub, SequenceTheorems, TLAPS

(* A page that does not stream is not listed and has nothing buffered.      *)
OnlyStreamsListed ==
  \A v \in Viewers : page[v] # "streaming" => v \notin subs /\ chan[v] = <<>>

(* The outcome, once in the snapshot w or in a frame of c, is in every      *)
(* state frame behind it and in h.                                          *)
Stays(w, c, h) ==
  /\ w.term => h.term
  /\ \A i \in 1 .. Len(c) : c[i].kind = "state" =>
       (w.term => c[i].snap.term) /\ (c[i].snap.term => h.term)
  /\ \A i, j \in 1 .. Len(c) :
       i < j /\ c[i].kind = "state" /\ c[j].kind = "state" /\ c[i].snap.term => c[j].snap.term

OutcomeStays == \A v \in Viewers : Stays(view[v], chan[v], hub)

IInv == TypeOK /\ OpenIffListed /\ OnlyStreamsListed /\ OutcomeStays /\ Lossless

-----------------------------------------------------------------------------
LEMMA StaysEmpty == \A w, h : (w.term => h.term) => Stays(w, <<>>, h)
BY EmptySeq DEF Stays

LEMMA InitInvariant == Init => IInv
<1> SUFFICES ASSUME Init PROVE IInv
  OBVIOUS
<1>1. TypeOK
  <2>1. Blank \in Snapshots
    BY DEF Blank, Snapshot, Snapshots
  <2>2. <<>> \in Seq(Frames) /\ Len(<<>>) = 0 /\ <<>> \in Seq(1 .. MaxFrames)
    BY EmptySeq
  <2>3. /\ chan \in [Viewers -> Seq(Frames)]
        /\ \A v \in Viewers : Len(chan[v]) <= BufferCap
    BY <2>2, HubAssumption DEF Init
  <2>4. /\ open \in [Viewers -> BOOLEAN] /\ view \in [Viewers -> Snapshots]
        /\ page \in [Viewers -> {"idle", "streaming", "ended", "broken", "settled"}]
    BY <2>1 DEF Init
  <2>5. made \in 0 .. MaxFrames
    BY HubAssumption DEF Init
  <2> QED BY <2>1, <2>2, <2>3, <2>4, <2>5 DEF Init, TypeOK
<1>2. OpenIffListed /\ OnlyStreamsListed /\ OutcomeStays /\ Lossless
  BY StaysEmpty DEF Init, OpenIffListed, OnlyStreamsListed, OutcomeStays, Lossless, Blank, Snapshot
<1> QED BY <1>1, <1>2 DEF IInv

LEMMA FrameTypes ==
  /\ \A s \in Snapshots : StateFrame(s) \in Frames
  /\ \A n \in 1 .. MaxFrames : EventFrame(n) \in Frames
  /\ \A s \in Snapshots, f \in Frames : Shown(s, f) \in Snapshots
<1>1. \A s \in Snapshots : StateFrame(s) \in Frames
  BY DEF StateFrame, Frames
<1>2. \A n \in 1 .. MaxFrames : EventFrame(n) \in Frames
  BY DEF EventFrame, Frames
<1>3. ASSUME NEW s \in Snapshots, NEW f \in Frames PROVE Shown(s, f) \in Snapshots
  <2>1. CASE f.kind = "state"
    BY <2>1 DEF Shown, Frames
  <2>2. CASE f.kind # "state"
    <3>1. s.lines \in Seq(1 .. MaxFrames) /\ f.line \in 1 .. MaxFrames
      BY <2>2 DEF Frames, Snapshots
    <3>2. Append(s.lines, f.line) \in Seq(1 .. MaxFrames)
      BY <3>1, AppendProperties
    <3> QED BY <2>2, <3>2 DEF Shown, Snapshots
  <2> QED BY <2>1, <2>2
<1> QED BY <1>1, <1>2, <1>3

\* fanout appends to those who stay, and evicts those whose buffer is full.
LEMMA FanoutEffect ==
  ASSUME TypeOK, NEW f \in Frames, Fanout(f)
  PROVE  /\ subs' \subseteq subs
         /\ \A v \in subs' : chan'[v] = Append(chan[v], f) /\ Len(chan[v]) < BufferCap
         /\ \A v \in Viewers \ subs' : chan'[v] = chan[v]
         /\ \A v \in Viewers : open'[v] = (open[v] /\ (v \in subs => v \in subs'))
         /\ chan' \in [Viewers -> Seq(Frames)] /\ \A v \in Viewers : Len(chan'[v]) <= BufferCap
         /\ open' \in [Viewers -> BOOLEAN] /\ dropped' \subseteq Viewers
<1> DEFINE slow == {v \in subs : Len(chan[v]) >= BufferCap}
<1>1. /\ chan' = [v \in Viewers |-> IF v \in subs \ slow THEN Append(chan[v], f) ELSE chan[v]]
      /\ subs' = subs \ slow
      /\ open' = [v \in Viewers |-> open[v] /\ v \notin slow]
      /\ dropped' = dropped \cup slow
  BY DEF Fanout
<1>2. \A v \in Viewers : chan[v] \in Seq(Frames) /\ Len(chan[v]) \in Nat
  BY LenProperties DEF TypeOK
<1>3. \A v \in Viewers : Append(chan[v], f) \in Seq(Frames)
                         /\ Len(Append(chan[v], f)) = Len(chan[v]) + 1
  BY <1>2, AppendProperties, ZenonT(60)
<1>4. BufferCap \in Nat
  BY HubAssumption
<1> QED BY <1>1, <1>2, <1>3, <1>4 DEF TypeOK

\* The frames published, and what a subscriber sees when it shows them; the
\* outcome is not taken back.
Publishes(f) ==
  /\ f \in Frames /\ Fanout(f)
  /\ hub' = Shown(hub, f) /\ hub' \in Snapshots
  /\ hub.term => hub'.term

LEMMA Published ==
  ASSUME TypeOK, PublishEvent \/ MutateState \/ (CloseAfterTerminal /\ ~closed)
  PROVE  \E f : Publishes(f)
<1>1. CASE PublishEvent
  <2>1. made' \in 1 .. MaxFrames /\ hub' = Shown(hub, EventFrame(made')) /\ Fanout(EventFrame(made'))
    BY <1>1, HubAssumption DEF PublishEvent, MayPublish, TypeOK, Shown, EventFrame
  <2>2. hub' \in Snapshots /\ hub'.term = hub.term /\ EventFrame(made') \in Frames
    BY <1>1, <2>1, FrameTypes DEF TypeOK, PublishEvent, Snapshots
  <2> QED BY <2>1, <2>2 DEF Publishes
<1>2. CASE MutateState
  <2>1. hub' = Shown(hub, StateFrame(hub)) /\ Fanout(StateFrame(hub)) /\ hub' = hub
    BY <1>2 DEF MutateState, Shown, StateFrame
  <2> QED BY <2>1, FrameTypes DEF Publishes, TypeOK
<1>3. CASE CloseAfterTerminal /\ ~closed
  <2>1. hub' = Snapshot(final, TRUE) /\ Fanout(StateFrame(hub'))
    BY <1>3 DEF CloseAfterTerminal
  <2>2. hub' \in Snapshots /\ hub'.term
    BY <2>1 DEF TypeOK, Snapshot, Snapshots
  <2>3. hub' = Shown(hub, StateFrame(hub'))
    BY DEF Shown, StateFrame
  <2> QED BY <2>1, <2>2, <2>3, FrameTypes DEF Publishes
<1> QED BY <1>1, <1>2, <1>3

LEMMA TypeStep == TypeOK /\ [Next]_vars => TypeOK'
<1> SUFFICES ASSUME TypeOK, [Next]_vars PROVE TypeOK'
  OBVIOUS
<1> USE DEF pageVars, hubVars
<1>1. ASSUME PublishEvent \/ MutateState PROVE TypeOK'
  <2>1. PICK f : Publishes(f)
    BY <1>1, Published
  <2>2. made' \in 0 .. MaxFrames
    BY <1>1, HubAssumption DEF PublishEvent, MutateState, MayPublish, TypeOK
  <2> QED BY <1>1, <2>1, <2>2, FanoutEffect DEF TypeOK, Publishes, PublishEvent, MutateState
<1>2. ASSUME CloseAfterTerminal, ~closed PROVE TypeOK'
  <2>1. PICK f : Publishes(f)
    BY <1>2, Published
  <2> QED BY <1>2, <2>1, FanoutEffect, EmptySeq DEF TypeOK, Publishes, CloseAfterTerminal
<1>3. ASSUME CloseAfterTerminal, closed PROVE TypeOK'
  BY <1>3, EmptySeq DEF TypeOK, CloseAfterTerminal
<1>4. ASSUME Decide PROVE TypeOK'
  BY <1>4 DEF TypeOK, Decide, Snapshots
<1>5. ASSUME GraceExpires \/ Shutdown \/ RemoveRun PROVE TypeOK'
  BY <1>5 DEF TypeOK, GraceExpires, Shutdown, RemoveRun, TearDown
<1>6. ASSUME NEW v \in Viewers, Subscribe(v) PROVE TypeOK'
  <2>1. <<StateFrame(hub)>> \in Seq(Frames) /\ Len(<<StateFrame(hub)>>) = 1
    BY FrameTypes DEF TypeOK
  <2>2. /\ chan' \in [Viewers -> Seq(Frames)]
        /\ \A u \in Viewers : Len(chan'[u]) <= BufferCap
    <3>1. chan' = chan \/ chan' = [chan EXCEPT ![v] = <<StateFrame(hub)>>]
      BY <1>6 DEF Subscribe
    <3>2. 1 <= BufferCap
      BY HubAssumption
    <3> QED BY <2>1, <3>1, <3>2 DEF TypeOK
  <2> QED BY <1>6, <2>2 DEF TypeOK, Subscribe
<1>7. ASSUME NEW v \in Viewers, Read(v) PROVE TypeOK'
  <2>1. /\ Head(chan[v]) \in Frames /\ Tail(chan[v]) \in Seq(Frames)
        /\ Len(Tail(chan[v])) = Len(chan[v]) - 1 /\ Len(chan[v]) \in Nat
    BY <1>7, HeadTailProperties, LenProperties DEF TypeOK, Read
  <2>2. Shown(view[v], Head(chan[v])) \in Snapshots
    BY <2>1, FrameTypes DEF TypeOK
  <2>3. /\ chan' \in [Viewers -> Seq(Frames)]
        /\ \A u \in Viewers : Len(chan'[u]) <= BufferCap
    BY <1>7, <2>1, HubAssumption DEF TypeOK, Read
  <2> QED BY <1>7, <2>2, <2>3 DEF TypeOK, Read
<1>8. ASSUME NEW v \in Viewers, Break(v) PROVE TypeOK'
  <2>1. /\ chan' \in [Viewers -> Seq(Frames)]
        /\ \A u \in Viewers : Len(chan'[u]) <= BufferCap
    BY <1>8, EmptySeq, HubAssumption DEF TypeOK, Break
  <2> QED BY <1>8, <2>1 DEF TypeOK, Break
<1>9. ASSUME NEW v \in Viewers, SubscribeUnknown(v) \/ End(v) \/ Fallback(v) PROVE TypeOK'
  BY <1>9 DEF TypeOK, SubscribeUnknown, End, Fallback
<1>10. ASSUME UNCHANGED vars PROVE TypeOK'
  BY <1>10 DEF vars, TypeOK
<1> QED BY <1>1, <1>2, <1>3, <1>4, <1>5, <1>6, <1>7, <1>8, <1>9, <1>10 DEF Next

-----------------------------------------------------------------------------
(* Who is listed. *)

LEMMA OpenStep == TypeOK /\ OpenIffListed /\ [Next]_vars => OpenIffListed'
<1> SUFFICES ASSUME TypeOK, OpenIffListed, [Next]_vars PROVE OpenIffListed'
  OBVIOUS
<1> USE DEF pageVars, hubVars, OpenIffListed
<1>1. ASSUME PublishEvent \/ MutateState \/ (CloseAfterTerminal /\ ~closed) PROVE OpenIffListed'
  <2>1. PICK f \in Frames : Fanout(f)
    BY <1>1, Published DEF Publishes
  <2> QED BY <2>1, FanoutEffect
<1>2. ASSUME \/ Decide \/ (CloseAfterTerminal /\ closed) \/ GraceExpires \/ Shutdown \/ RemoveRun
             \/ UNCHANGED vars
      PROVE  OpenIffListed'
  BY <1>2 DEF Decide, CloseAfterTerminal, GraceExpires, Shutdown, RemoveRun, TearDown, vars
<1>3. ASSUME NEW v \in Viewers, Subscribe(v) \/ Break(v) PROVE OpenIffListed'
  <2>1. CASE Break(v)
    BY <2>1 DEF TypeOK, Break
  <2>2. CASE Subscribe(v) /\ closed
    BY <2>2 DEF Subscribe
  <2>3. CASE Subscribe(v) /\ ~closed
    BY <2>3 DEF TypeOK, Subscribe
  <2> QED BY <1>3, <2>1, <2>2, <2>3
<1>4. ASSUME NEW v \in Viewers, SubscribeUnknown(v) \/ Read(v) \/ End(v) \/ Fallback(v)
      PROVE  OpenIffListed'
  BY <1>4 DEF SubscribeUnknown, Read, End, Fallback
<1> QED BY <1>1, <1>2, <1>3, <1>4 DEF Next

LEMMA ListedStep ==
  TypeOK /\ OpenIffListed /\ OnlyStreamsListed /\ [Next]_vars => OnlyStreamsListed'
<1> SUFFICES ASSUME TypeOK, OpenIffListed, OnlyStreamsListed, [Next]_vars
             PROVE  OnlyStreamsListed'
  OBVIOUS
<1> USE DEF pageVars, hubVars, OnlyStreamsListed
<1>1. ASSUME PublishEvent \/ MutateState \/ (CloseAfterTerminal /\ ~closed)
      PROVE  OnlyStreamsListed'
  <2>1. PICK f \in Frames : Fanout(f)
    BY <1>1, Published DEF Publishes
  <2>2. UNCHANGED page
    BY <1>1 DEF PublishEvent, MutateState, CloseAfterTerminal
  <2> QED BY <2>1, <2>2, FanoutEffect
<1>2. ASSUME \/ Decide \/ (CloseAfterTerminal /\ closed) \/ GraceExpires \/ Shutdown \/ RemoveRun
             \/ UNCHANGED vars
      PROVE  OnlyStreamsListed'
  BY <1>2 DEF Decide, CloseAfterTerminal, GraceExpires, Shutdown, RemoveRun, TearDown, vars
<1>3. ASSUME NEW v \in Viewers,
             Subscribe(v) \/ SubscribeUnknown(v) \/ Read(v) \/ End(v) \/ Break(v) \/ Fallback(v)
      PROVE  OnlyStreamsListed'
  BY <1>3 DEF TypeOK, OpenIffListed, Subscribe, SubscribeUnknown, Read, End, Break, Fallback
<1> QED BY <1>1, <1>2, <1>3 DEF Next

-----------------------------------------------------------------------------
(* What pages see. *)

LEMMA StaysOne ==
  ASSUME NEW w, NEW h, w.term => h.term PROVE Stays(w, <<StateFrame(h)>>, h)
<1>1. /\ Len(<<StateFrame(h)>>) = 1 /\ <<StateFrame(h)>>[1] = StateFrame(h)
      /\ StateFrame(h).snap = h
  BY DEF StateFrame
<1> QED BY <1>1 DEF Stays

LEMMA StaysAppend ==
  ASSUME NEW w, NEW h, NEW g, NEW c \in Seq(Frames), NEW f \in Frames,
         Stays(w, c, h), h.term => g.term, f.kind = "state" => f.snap = g
  PROVE  Stays(w, Append(c, f), g)
<1> DEFINE d == Append(c, f)
<1>1. /\ Len(c) \in Nat /\ Len(d) = Len(c) + 1 /\ d[Len(c) + 1] = f
      /\ \A i \in 1 .. Len(c) : d[i] = c[i]
  BY LenProperties, AppendProperties
<1> HIDE DEF d
<1>2. w.term => g.term
  BY DEF Stays
<1>3. ASSUME NEW i \in 1 .. Len(d), d[i].kind = "state"
      PROVE  (w.term => d[i].snap.term) /\ (d[i].snap.term => g.term)
  <2>1. CASE i \in 1 .. Len(c)
    BY <1>1, <1>3, <2>1 DEF Stays
  <2>2. CASE i = Len(c) + 1
    BY <1>1, <1>2, <1>3, <2>2
  <2> QED BY <1>1, <2>1, <2>2
<1>4. ASSUME NEW i \in 1 .. Len(d), NEW j \in 1 .. Len(d),
             i < j, d[i].kind = "state", d[j].kind = "state", d[i].snap.term
      PROVE  d[j].snap.term
  <2>1. CASE j \in 1 .. Len(c)
    BY <1>1, <1>4, <2>1 DEF Stays
  <2>2. CASE j = Len(c) + 1
    BY <1>1, <1>3, <1>4, <2>2
  <2> QED BY <1>1, <2>1, <2>2
<1> QED BY <1>2, <1>3, <1>4 DEF Stays, d

LEMMA StaysTail ==
  ASSUME NEW w \in Snapshots, NEW h, NEW c \in Seq(Frames), c # <<>>, Stays(w, c, h)
  PROVE  /\ Stays(Shown(w, Head(c)), Tail(c), h)
         /\ w.term => Shown(w, Head(c)).term
<1> DEFINE d == Tail(c)
           n == Len(c)
           s == Shown(w, Head(c))
<1>1. n \in Nat /\ n >= 1 /\ Len(d) = n - 1
  BY LenProperties, HeadTailProperties, EmptySeq
<1>2. \A i \in 1 .. n - 1 : d[i] = c[i + 1]
  BY <1>1, HeadTailProperties
<1>3. Head(c) = c[1]
  BY <1>1, HeadTailProperties
<1>4. /\ c[1].kind = "state" => s = c[1].snap
      /\ c[1].kind # "state" => s.term = w.term
  BY <1>3 DEF Shown, Snapshots
<1> HIDE DEF d, n, s
<1>5. (s.term => h.term) /\ (w.term => s.term)
  BY <1>1, <1>4 DEF Stays, n
<1>6. ASSUME NEW i \in 1 .. Len(d), d[i].kind = "state"
      PROVE  (s.term => d[i].snap.term) /\ (d[i].snap.term => h.term)
  <2>1. i + 1 \in 1 .. n /\ d[i] = c[i + 1] /\ 1 \in 1 .. n /\ 1 < i + 1
    BY <1>1, <1>2
  <2> QED BY <1>4, <1>6, <2>1 DEF Stays, n
<1>7. ASSUME NEW i \in 1 .. Len(d), NEW j \in 1 .. Len(d),
             i < j, d[i].kind = "state", d[j].kind = "state", d[i].snap.term
      PROVE  d[j].snap.term
  <2>1. /\ i + 1 \in 1 .. n /\ d[i] = c[i + 1]
        /\ j + 1 \in 1 .. n /\ d[j] = c[j + 1] /\ i + 1 < j + 1
    BY <1>1, <1>2, <1>7
  <2> QED BY <1>7, <2>1 DEF Stays, n
<1>8. Stays(s, d, h)
  BY <1>5, <1>6, <1>7 DEF Stays
<1> QED BY <1>5, <1>8 DEF s, d

LEMMA OutcomeStep ==
  TypeOK /\ OnlyStreamsListed /\ OutcomeStays /\ [Next]_vars =>
    OutcomeStays' /\ \A v \in Viewers : view[v].term => view'[v].term
<1> SUFFICES ASSUME TypeOK, OnlyStreamsListed, OutcomeStays, [Next]_vars
             PROVE  OutcomeStays' /\ \A v \in Viewers : view[v].term => view'[v].term
  OBVIOUS
<1> USE DEF pageVars, hubVars
<1>1. ASSUME PublishEvent \/ MutateState \/ (CloseAfterTerminal /\ ~closed)
      PROVE  OutcomeStays' /\ UNCHANGED view
  <2>1. PICK f : Publishes(f)
    BY <1>1, Published
  <2>2. UNCHANGED view
    BY <1>1 DEF PublishEvent, MutateState, CloseAfterTerminal
  <2>3. (f.kind = "state" => f.snap = hub') /\ (hub.term => hub'.term)
    BY <2>1 DEF Publishes, Shown
  <2>4. ASSUME NEW v \in Viewers PROVE Stays(view[v], chan'[v], hub')
    <3>1. CASE v \in subs'
      <4>1. f \in Frames /\ chan'[v] = Append(chan[v], f) /\ chan[v] \in Seq(Frames)
        BY <2>1, <3>1, FanoutEffect DEF Publishes, TypeOK
      <4>2. Stays(view[v], chan[v], hub)
        BY DEF OutcomeStays
      <4> QED BY <2>3, <4>1, <4>2, StaysAppend
    <3>2. CASE v \notin subs'
      BY <2>1, <2>3, <3>2, FanoutEffect DEF OutcomeStays, Publishes, Stays
    <3> QED BY <3>1, <3>2
  <2> QED BY <2>2, <2>4 DEF OutcomeStays
<1>2. ASSUME \/ Decide \/ (CloseAfterTerminal /\ closed) \/ GraceExpires \/ Shutdown \/ RemoveRun
             \/ UNCHANGED vars
      PROVE  OutcomeStays' /\ UNCHANGED view
  BY <1>2 DEF OutcomeStays, Decide, CloseAfterTerminal, GraceExpires, Shutdown, RemoveRun,
              TearDown, vars
<1>3. ASSUME NEW v \in Viewers, Subscribe(v) PROVE OutcomeStays' /\ UNCHANGED view
  <2>1. \A u \in Viewers : chan'[u] = chan[u] \/ chan'[u] = <<StateFrame(hub)>>
    BY <1>3 DEF Subscribe, TypeOK
  <2>2. UNCHANGED <<hub, view>>
    BY <1>3 DEF Subscribe
  <2>3. \A u \in Viewers : view[u].term => hub.term
    BY DEF OutcomeStays, Stays
  <2>4. ASSUME NEW u \in Viewers PROVE Stays(view[u], chan'[u], hub)
    BY <2>1, <2>3, StaysOne DEF OutcomeStays
  <2> QED BY <2>2, <2>4 DEF OutcomeStays
<1>4. ASSUME NEW v \in Viewers, Read(v)
      PROVE  OutcomeStays' /\ \A u \in Viewers : view[u].term => view'[u].term
  <2>1. /\ view'[v] = Shown(view[v], Head(chan[v])) /\ chan'[v] = Tail(chan[v])
        /\ \A u \in Viewers \ {v} : view'[u] = view[u] /\ chan'[u] = chan[u]
        /\ UNCHANGED hub
    BY <1>4 DEF Read, TypeOK
  <2>2. Stays(view'[v], chan'[v], hub) /\ (view[v].term => view'[v].term)
    BY <1>4, <2>1, StaysTail DEF OutcomeStays, Read, TypeOK
  <2> QED BY <2>1, <2>2 DEF OutcomeStays
<1>5. ASSUME NEW v \in Viewers, SubscribeUnknown(v) \/ End(v) PROVE OutcomeStays' /\ UNCHANGED view
  BY <1>5 DEF OutcomeStays, SubscribeUnknown, End
<1>6. ASSUME NEW v \in Viewers, Break(v) PROVE OutcomeStays' /\ UNCHANGED view
  <2>1. \A u \in Viewers : chan'[u] = chan[u] \/ chan'[u] = <<>>
    BY <1>6 DEF Break, TypeOK
  <2>2. ASSUME NEW u \in Viewers PROVE Stays(view[u], chan'[u], hub)
    <3>1. view[u].term => hub.term
      BY DEF OutcomeStays, Stays
    <3> QED BY <2>1, <3>1, StaysEmpty DEF OutcomeStays
  <2> QED BY <1>6, <2>2 DEF OutcomeStays, Break
<1>7. ASSUME NEW v \in Viewers, Fallback(v)
      PROVE  OutcomeStays' /\ \A u \in Viewers : view[u].term => view'[u].term
  <2>1. chan[v] = <<>> /\ UNCHANGED <<chan, hub>>
    BY <1>7 DEF Fallback, OnlyStreamsListed
  <2>2. \A u \in Viewers : view'[u] = view[u] \/ (u = v /\ view'[u] = hub)
    BY <1>7 DEF Fallback, TypeOK
  <2>3. \A u \in Viewers : view[u].term => hub.term
    BY DEF OutcomeStays, Stays
  <2>4. ASSUME NEW u \in Viewers PROVE Stays(view'[u], chan[u], hub)
    BY <2>1, <2>2, StaysEmpty DEF OutcomeStays
  <2> QED BY <2>1, <2>2, <2>3, <2>4 DEF OutcomeStays
<1> QED BY <1>1, <1>2, <1>3, <1>4, <1>5, <1>6, <1>7 DEF Next

-----------------------------------------------------------------------------
(* What a listed page sees and has buffered makes the hub's snapshot. *)

\* The lines of the events of c behind k.
Added(c, k) == [i \in 1 .. (Len(c) - k) |-> c[k + i].line]

\* ComesTo of a page that shows w and has c buffered, with k chosen.
From(w, c, s, k) ==
  LET base == IF k = 0 THEN w ELSE c[k].snap IN
  /\ k # 0 => c[k].kind = "state"
  /\ \A i \in (k + 1) .. Len(c) : c[i].kind = "event"
  /\ s.term = base.term
  /\ s.lines = base.lines \o Added(c, k)

LEMMA AddedIsSeq ==
  ASSUME NEW c \in Seq(Frames), NEW k \in 0 .. Len(c),
         \A i \in (k + 1) .. Len(c) : c[i].kind = "event"
  PROVE  /\ Added(c, k) \in Seq(1 .. MaxFrames)
         /\ Len(Added(c, k)) = Len(c) - k
         /\ \A i \in 1 .. Len(c) - k : Added(c, k)[i] = c[k + i].line
<1>1. Len(c) \in Nat /\ \A i \in 1 .. Len(c) : c[i] \in Frames
  BY LenProperties
<1>2. \A i \in 1 .. Len(c) - k : c[k + i].line \in 1 .. MaxFrames
  <2> SUFFICES ASSUME NEW i \in 1 .. Len(c) - k PROVE c[k + i].line \in 1 .. MaxFrames
    OBVIOUS
  <2>1. k + i \in (k + 1) .. Len(c) /\ k + i \in 1 .. Len(c)
    BY <1>1
  <2>2. c[k + i] \in Frames /\ c[k + i].kind = "event"
    BY <1>1, <2>1
  <2> QED BY <2>2 DEF Frames
<1>3. Len(c) - k \in Nat
  BY <1>1
<1> QED BY <1>2, <1>3 DEF Added

\* Equations between sequences, named: the provers take an equation apart
\* before they look for an instance of it.
AppendsBehind(a, b, x) == Append(a \o b, x) = a \o Append(b, x)

LEMMA AppendConcat ==
  \A S : \A a \in Seq(S), b \in Seq(S), x \in S : AppendsBehind(a, b, x)
<1> SUFFICES ASSUME NEW S, NEW a \in Seq(S), NEW b \in Seq(S), NEW x \in S
             PROVE  Append(a \o b, x) = a \o Append(b, x)
  BY DEF AppendsBehind
<1> DEFINE l == Append(a \o b, x)
           r == a \o Append(b, x)
<1>1. /\ a \o b \in Seq(S) /\ Len(a \o b) = Len(a) + Len(b)
      /\ \A i \in 1 .. Len(a) + Len(b) :
           (a \o b)[i] = IF i <= Len(a) THEN a[i] ELSE b[i - Len(a)]
  BY ConcatProperties
<1>2. /\ Append(b, x) \in Seq(S) /\ Len(Append(b, x)) = Len(b) + 1
      /\ \A i \in 1 .. Len(b) : Append(b, x)[i] = b[i]
      /\ Append(b, x)[Len(b) + 1] = x
  BY AppendProperties
<1>3. /\ l \in Seq(S) /\ Len(l) = Len(a) + Len(b) + 1
      /\ \A i \in 1 .. Len(a) + Len(b) : l[i] = (a \o b)[i]
      /\ l[Len(a) + Len(b) + 1] = x
  BY <1>1, AppendProperties
<1>4. /\ r \in Seq(S) /\ Len(r) = Len(a) + (Len(b) + 1)
      /\ \A i \in 1 .. Len(a) + (Len(b) + 1) :
           r[i] = IF i <= Len(a) THEN a[i] ELSE Append(b, x)[i - Len(a)]
  BY <1>2, ConcatProperties
<1>5. Len(a) \in Nat /\ Len(b) \in Nat
  BY LenProperties
<1> HIDE DEF l, r
<1>6. Len(l) = Len(r)
  BY <1>3, <1>4, <1>5
<1>7. ASSUME NEW i \in 1 .. Len(l) PROVE l[i] = r[i]
  <2>1. CASE i <= Len(a)
    BY <1>1, <1>3, <1>4, <1>5, <2>1
  <2>2. CASE Len(a) < i /\ i <= Len(a) + Len(b)
    <3>1. i - Len(a) \in 1 .. Len(b) /\ i \in 1 .. Len(a) + Len(b) /\ ~(i <= Len(a))
      BY <1>5, <2>2
    <3>2. i \in 1 .. Len(a) + (Len(b) + 1)
      BY <1>5, <3>1
    <3> QED BY <1>1, <1>2, <1>3, <1>4, <3>1, <3>2
  <2>3. CASE i = Len(a) + Len(b) + 1
    <3>1. i - Len(a) = Len(b) + 1 /\ ~(i <= Len(a)) /\ i \in 1 .. Len(a) + (Len(b) + 1)
      BY <1>5, <2>3
    <3> QED BY <1>2, <1>3, <1>4, <2>3, <3>1
  <2>4. i \in 1 .. (Len(a) + Len(b) + 1)
    BY <1>3
  <2>5. i <= Len(a) \/ (Len(a) < i /\ i <= Len(a) + Len(b)) \/ i = Len(a) + Len(b) + 1
    BY <1>5, <2>4
  <2> QED BY <2>1, <2>2, <2>3, <2>5
<1>8. l = r
  BY <1>3, <1>4, <1>6, <1>7, SeqEqual
<1> QED BY <1>8 DEF l, r

LEMMA FromAppend ==
  ASSUME NEW w \in Snapshots, NEW s \in Snapshots, NEW c \in Seq(Frames), NEW f \in Frames,
         NEW k \in 0 .. Len(c), From(w, c, s, k)
  PROVE  \E m \in 0 .. Len(Append(c, f)) : From(w, Append(c, f), Shown(s, f), m)
<1> DEFINE d == Append(c, f)
           n == Len(c)
<1>1. /\ n \in Nat /\ Len(d) = n + 1 /\ d[n + 1] = f /\ d \in Seq(Frames)
      /\ \A i \in 1 .. n : d[i] = c[i]
  BY LenProperties, AppendProperties
<1> HIDE DEF d
<1>2. CASE f.kind = "state"
  <2>1. f.snap \in Snapshots /\ Shown(s, f) = f.snap
    BY <1>2 DEF Frames, Shown
  <2>2. Added(d, n + 1) = <<>>
    BY <1>1 DEF Added
  <2>3. f.snap.lines \o <<>> = f.snap.lines
    BY <2>1, ConcatEmptySeq DEF Snapshots
  <2>4. From(w, d, Shown(s, f), n + 1)
    <3>1. n + 1 # 0 /\ (n + 1 + 1) .. Len(d) = {}
      BY <1>1
    <3>2. Shown(s, f).lines = f.snap.lines \o Added(d, n + 1)
      BY <2>1, <2>2, <2>3
    <3> QED BY <1>1, <1>2, <2>1, <3>1, <3>2 DEF From
  <2> QED BY <1>1, <2>4 DEF d
<1>3. CASE f.kind = "event"
  <2> DEFINE base == IF k = 0 THEN w ELSE c[k].snap
  <2>1. /\ k # 0 => c[k].kind = "state"
        /\ \A i \in (k + 1) .. n : c[i].kind = "event"
        /\ s.term = base.term /\ s.lines = base.lines \o Added(c, k)
    BY DEF From
  <2>2. base \in Snapshots
    <3>1. CASE k = 0
      BY <3>1
    <3>2. CASE k # 0
      <4>1. c[k] \in Frames /\ c[k].kind = "state"
        BY <1>1, <2>1, <3>2
      <4> QED BY <3>2, <4>1 DEF Frames
    <3> QED BY <3>1, <3>2
  <2>3. base = IF k = 0 THEN w ELSE d[k].snap
    BY <1>1
  <2> HIDE DEF base
  <2>4. \A i \in (k + 1) .. (n + 1) : d[i].kind = "event"
    BY <1>1, <1>3, <2>1
  <2>5. f.line \in 1 .. MaxFrames
    BY <1>3 DEF Frames
  <2>6. /\ Added(c, k) \in Seq(1 .. MaxFrames) /\ Len(Added(c, k)) = n - k
        /\ \A i \in 1 .. n - k : Added(c, k)[i] = c[k + i].line
    BY <2>1, AddedIsSeq
  <2>7. /\ Added(d, k) \in Seq(1 .. MaxFrames) /\ Len(Added(d, k)) = n + 1 - k
        /\ \A i \in 1 .. n + 1 - k : Added(d, k)[i] = d[k + i].line
    BY <1>1, <2>4, AddedIsSeq
  <2>8. Added(d, k) = Append(Added(c, k), f.line)
    <3>1. /\ Append(Added(c, k), f.line) \in Seq(1 .. MaxFrames)
          /\ Len(Append(Added(c, k), f.line)) = n - k + 1
          /\ \A i \in 1 .. n - k : Append(Added(c, k), f.line)[i] = Added(c, k)[i]
          /\ Append(Added(c, k), f.line)[n - k + 1] = f.line
      BY <2>5, <2>6, AppendProperties
    <3>2. \A i \in 1 .. n - k : d[k + i] = c[k + i]
      BY <1>1
    <3>3. \A i \in 1 .. n + 1 - k : Added(d, k)[i] = Append(Added(c, k), f.line)[i]
      <4> SUFFICES ASSUME NEW i \in 1 .. n + 1 - k
                   PROVE  Added(d, k)[i] = Append(Added(c, k), f.line)[i]
        OBVIOUS
      <4>1. CASE i \in 1 .. n - k
        BY <2>6, <2>7, <3>1, <3>2, <4>1
      <4>2. CASE i = n - k + 1
        <5>1. k + i = n + 1
          BY <1>1, <4>2
        <5> QED BY <1>1, <2>7, <3>1, <4>2, <5>1
      <4>3. i \in 1 .. n - k \/ i = n - k + 1
        BY <1>1
      <4> QED BY <4>1, <4>2, <4>3
    <3>4. Len(Added(d, k)) = Len(Append(Added(c, k), f.line))
      BY <1>1, <2>7, <3>1
    <3> QED BY <1>1, <2>7, <3>1, <3>3, <3>4, SeqEqual
  <2>9. Append(s.lines, f.line) = base.lines \o Added(d, k)
    <3> DEFINE L == 1 .. MaxFrames
    <3>1. base.lines \in Seq(L) /\ Added(c, k) \in Seq(L) /\ f.line \in L
      BY <2>2, <2>5, <2>6 DEF Snapshots
    <3> HIDE DEF L
    <3>2. AppendsBehind(base.lines, Added(c, k), f.line)
      BY <3>1, AppendConcat, Zenon
    <3> QED BY <2>1, <2>8, <3>2 DEF AppendsBehind
  <2>10. Shown(s, f).lines = Append(s.lines, f.line) /\ Shown(s, f).term = s.term
    BY <1>3 DEF Shown, Snapshots
  <2>11. k # 0 => d[k].kind = "state"
    BY <1>1, <2>1
  <2>12. From(w, d, Shown(s, f), k)
    BY <1>1, <2>1, <2>3, <2>4, <2>9, <2>10, <2>11 DEF From
  <2>13. k \in 0 .. Len(d)
    BY <1>1
  <2> QED BY <2>12, <2>13 DEF d
<1> QED BY <1>2, <1>3 DEF Frames

PrependsBefore(a, b, t, x) ==
  Len(t) = Len(b) + 1 /\ t[1] = x /\ (\A i \in 1 .. Len(b) : t[i + 1] = b[i])
    => Append(a, x) \o b = a \o t

LEMMA PrependConcat ==
  \A S : \A a \in Seq(S), b \in Seq(S), t \in Seq(S), x \in S : PrependsBefore(a, b, t, x)
<1> SUFFICES ASSUME NEW S, NEW a \in Seq(S), NEW b \in Seq(S), NEW t \in Seq(S), NEW x \in S
             PROVE  PrependsBefore(a, b, t, x)
  OBVIOUS
<1> SUFFICES ASSUME Len(t) = Len(b) + 1, t[1] = x, \A i \in 1 .. Len(b) : t[i + 1] = b[i]
             PROVE  Append(a, x) \o b = a \o t
  BY Zenon DEF PrependsBefore
<1> DEFINE l == Append(a, x) \o b
           r == a \o t
<1>1. Len(a) \in Nat /\ Len(b) \in Nat
  BY LenProperties
<1>2. /\ Append(a, x) \in Seq(S) /\ Len(Append(a, x)) = Len(a) + 1
      /\ \A i \in 1 .. Len(a) : Append(a, x)[i] = a[i]
      /\ Append(a, x)[Len(a) + 1] = x
  BY AppendProperties
<1>3. /\ l \in Seq(S) /\ Len(l) = Len(a) + 1 + Len(b)
      /\ \A i \in 1 .. Len(a) + 1 + Len(b) :
           l[i] = IF i <= Len(a) + 1 THEN Append(a, x)[i] ELSE b[i - (Len(a) + 1)]
  BY <1>2, ConcatProperties
<1>4. /\ r \in Seq(S) /\ Len(r) = Len(a) + (Len(b) + 1)
      /\ \A i \in 1 .. Len(a) + (Len(b) + 1) :
           r[i] = IF i <= Len(a) THEN a[i] ELSE t[i - Len(a)]
  <2>1. /\ r \in Seq(S) /\ Len(r) = Len(a) + Len(t)
        /\ \A i \in 1 .. Len(a) + Len(t) : r[i] = IF i <= Len(a) THEN a[i] ELSE t[i - Len(a)]
    BY ConcatProperties
  <2>2. Len(t) = Len(b) + 1
    OBVIOUS
  <2> HIDE DEF r
  <2> QED BY <2>1, <2>2
<1> HIDE DEF l, r
<1>5. Len(l) = Len(r)
  BY <1>1, <1>3, <1>4
<1>6. ASSUME NEW i \in 1 .. Len(l) PROVE l[i] = r[i]
  <2>1. i \in 1 .. Len(a) + 1 + Len(b) /\ i \in 1 .. Len(a) + (Len(b) + 1)
    BY <1>1, <1>3
  <2>2. CASE i <= Len(a)
    <3>1. i \in 1 .. Len(a) /\ i <= Len(a) + 1
      BY <1>1, <2>1, <2>2
    <3> QED BY <1>2, <1>3, <1>4, <2>1, <2>2, <3>1
  <2>3. CASE i = Len(a) + 1
    <3>1. i - Len(a) = 1 /\ ~(i <= Len(a)) /\ i <= Len(a) + 1
      BY <1>1, <2>3
    <3> QED BY <1>2, <1>3, <1>4, <2>1, <2>3, <3>1
  <2>4. CASE i > Len(a) + 1
    <3>1. /\ i - (Len(a) + 1) \in 1 .. Len(b) /\ i - Len(a) = (i - (Len(a) + 1)) + 1
          /\ ~(i <= Len(a)) /\ ~(i <= Len(a) + 1)
      BY <1>1, <2>1, <2>4
    <3> QED BY <1>3, <1>4, <2>1, <3>1
  <2>5. i <= Len(a) \/ i = Len(a) + 1 \/ i > Len(a) + 1
    BY <1>1, <2>1
  <2> QED BY <2>2, <2>3, <2>4, <2>5
<1>7. l = r
  BY <1>3, <1>4, <1>5, <1>6, SeqEqual
<1> QED BY <1>7 DEF l, r

LEMMA FromTail ==
  ASSUME NEW w \in Snapshots, NEW s \in Snapshots, NEW c \in Seq(Frames), c # <<>>,
         NEW k \in 0 .. Len(c), From(w, c, s, k)
  PROVE  \E m \in 0 .. Len(Tail(c)) : From(Shown(w, Head(c)), Tail(c), s, m)
<1> DEFINE d == Tail(c)
           n == Len(c)
           z == Shown(w, Head(c))
<1>1. /\ n \in Nat /\ n >= 1 /\ Len(d) = n - 1 /\ d \in Seq(Frames)
      /\ \A i \in 1 .. n : c[i] \in Frames
  BY LenProperties, HeadTailProperties, EmptySeq
<1>2. (\A i \in 1 .. n - 1 : d[i] = c[i + 1]) /\ Head(c) = c[1] /\ c[1] \in Frames
  BY <1>1, HeadTailProperties
<1>3. /\ k # 0 => c[k].kind = "state"
      /\ \A i \in (k + 1) .. n : c[i].kind = "event"
      /\ s.term = (IF k = 0 THEN w ELSE c[k].snap).term
      /\ s.lines = (IF k = 0 THEN w ELSE c[k].snap).lines \o Added(c, k)
  BY DEF From
<1>4. /\ Added(c, k) \in Seq(1 .. MaxFrames) /\ Len(Added(c, k)) = n - k
      /\ \A i \in 1 .. n - k : Added(c, k)[i] = c[k + i].line
  BY <1>3, AddedIsSeq
<1>5. c[1].kind = "state" => z = c[1].snap
  BY <1>2 DEF Shown
<1>6. c[1].kind = "event" => z.term = w.term /\ z.lines = Append(w.lines, c[1].line)
  BY <1>2 DEF Shown, Snapshots
<1> HIDE DEF d, z
<1>7. CASE k = 0
  <2>1. c[1].kind = "event" /\ c[1].line \in 1 .. MaxFrames
    BY <1>1, <1>2, <1>3, <1>7 DEF Frames
  <2>2. \A i \in 1 .. n - 1 : d[i].kind = "event"
    BY <1>1, <1>2, <1>3, <1>7
  <2>3. /\ Added(d, 0) \in Seq(1 .. MaxFrames) /\ Len(Added(d, 0)) = n - 1
        /\ \A i \in 1 .. n - 1 : Added(d, 0)[i] = d[i].line
    <3>1. 0 \in 0 .. Len(d) /\ \A i \in (0 + 1) .. Len(d) : d[i].kind = "event"
      BY <1>1, <2>2
    <3>2. /\ Added(d, 0) \in Seq(1 .. MaxFrames) /\ Len(Added(d, 0)) = Len(d) - 0
          /\ \A i \in 1 .. Len(d) - 0 : Added(d, 0)[i] = d[0 + i].line
      BY <1>1, <3>1, AddedIsSeq
    <3> QED BY <1>1, <3>2
  <2>4. Added(c, k)[1] = c[1].line /\ Len(Added(c, k)) = Len(Added(d, 0)) + 1
    BY <1>1, <1>4, <1>7, <2>3
  <2>5. \A i \in 1 .. Len(Added(d, 0)) : Added(c, k)[i + 1] = Added(d, 0)[i]
    <3> SUFFICES ASSUME NEW i \in 1 .. n - 1 PROVE Added(c, k)[i + 1] = Added(d, 0)[i]
      BY <2>3
    <3>1. i + 1 \in 1 .. n - k /\ k + (i + 1) = i + 1
      BY <1>1, <1>7
    <3> QED BY <1>2, <1>4, <2>3, <3>1
  <2>6. Append(w.lines, c[1].line) \o Added(d, 0) = w.lines \o Added(c, k)
    <3> DEFINE L == 1 .. MaxFrames
    <3>1. /\ w.lines \in Seq(L) /\ Added(d, 0) \in Seq(L) /\ Added(c, k) \in Seq(L)
          /\ c[1].line \in L
      BY <1>4, <2>1, <2>3 DEF Snapshots
    <3> HIDE DEF L
    <3>2. PrependsBefore(w.lines, Added(d, 0), Added(c, k), c[1].line)
      BY <3>1, PrependConcat, Zenon
    <3> QED BY <2>4, <2>5, <3>2 DEF PrependsBefore
  <2>7. s.lines = z.lines \o Added(d, 0) /\ s.term = z.term
    BY <1>3, <1>6, <1>7, <2>1, <2>6
  <2>8. From(z, d, s, 0)
    <3>1. \A i \in (0 + 1) .. Len(d) : d[i].kind = "event"
      BY <1>1, <2>2
    <3> QED BY <2>7, <3>1 DEF From
  <2> QED BY <1>1, <2>8 DEF d, z
<1>8. CASE k # 0
  <2>1. k - 1 \in 0 .. Len(d) /\ k \in 1 .. n
    BY <1>1, <1>8
  <2>2. \A i \in (k - 1 + 1) .. Len(d) : d[i].kind = "event"
    <3> SUFFICES ASSUME NEW i \in (k - 1 + 1) .. Len(d) PROVE d[i].kind = "event"
      OBVIOUS
    <3>1. i \in 1 .. n - 1 /\ i + 1 \in (k + 1) .. n
      BY <1>1, <2>1
    <3> QED BY <1>2, <1>3, <3>1
  <2>3. c[k].snap = IF k - 1 = 0 THEN z ELSE d[k - 1].snap
    <3>1. CASE k = 1
      BY <1>3, <1>5, <3>1
    <3>2. CASE k # 1
      <4>1. k - 1 \in 1 .. n - 1 /\ k - 1 + 1 = k /\ k - 1 # 0
        BY <1>1, <2>1, <3>2
      <4> QED BY <1>2, <4>1
    <3> QED BY <3>1, <3>2
  <2>4. k - 1 # 0 => d[k - 1].kind = "state"
    <3> SUFFICES ASSUME k - 1 # 0 PROVE d[k - 1].kind = "state"
      OBVIOUS
    <3>1. k - 1 \in 1 .. n - 1 /\ k - 1 + 1 = k
      BY <1>1, <2>1
    <3> QED BY <1>2, <1>3, <1>8, <3>1
  <2>5. Added(d, k - 1) = Added(c, k)
    <3>1. Len(d) - (k - 1) = n - k
      BY <1>1, <2>1
    <3>2. ASSUME NEW i \in 1 .. n - k PROVE d[k - 1 + i] = c[k + i]
      <4>1. k - 1 + i \in 1 .. n - 1 /\ k - 1 + i + 1 = k + i
        BY <1>1, <2>1
      <4> QED BY <1>2, <4>1
    <3> QED BY <3>1, <3>2 DEF Added
  <2>6. From(z, d, s, k - 1)
    BY <1>3, <1>8, <2>2, <2>3, <2>4, <2>5 DEF From
  <2> QED BY <2>1, <2>6 DEF d, z
<1> QED BY <1>7, <1>8

\* The snapshot s is what v will show once it has read what is buffered.
LEMMA Comes ==
  \A v \in Viewers : \A s :
    ComesTo(v, s) <=> \E k \in 0 .. Len(chan[v]) : From(view[v], chan[v], s, k)
BY DEF ComesTo, From, Added

LEMMA FromOne ==
  \A w, s : s \in Snapshots =>
    From(w, <<StateFrame(s)>>, s, 1) /\ 1 \in 0 .. Len(<<StateFrame(s)>>)
<1> SUFFICES ASSUME NEW w, NEW s \in Snapshots
             PROVE  From(w, <<StateFrame(s)>>, s, 1) /\ 1 \in 0 .. Len(<<StateFrame(s)>>)
  OBVIOUS
<1> DEFINE c == <<StateFrame(s)>>
<1>1. /\ Len(c) = 1 /\ c[1].kind = "state" /\ c[1].snap = s
      /\ (1 + 1) .. Len(c) = {}
  BY DEF StateFrame
<1>2. Added(c, 1) = <<>>
  BY <1>1 DEF Added
<1>3. s.lines \o <<>> = s.lines
  BY ConcatEmptySeq DEF Snapshots
<1> HIDE DEF c
<1>4. c[1].snap.lines \o Added(c, 1) = s.lines \o <<>>
  BY <1>1, <1>2, Zenon
<1>5. From(w, c, s, 1)
  BY <1>1, <1>3, <1>4 DEF From
<1> QED BY <1>1, <1>5 DEF c

LEMMA LosslessStep ==
  TypeOK /\ OnlyStreamsListed /\ Lossless /\ [Next]_vars => Lossless'
<1> SUFFICES ASSUME TypeOK, OnlyStreamsListed, Lossless, [Next]_vars PROVE Lossless'
  OBVIOUS
<1> SUFFICES ASSUME NEW v \in subs', v \in Viewers
             PROVE  \E k \in 0 .. Len(chan'[v]) : From(view'[v], chan'[v], hub', k)
  <2>1. subs' \subseteq Viewers
    BY TypeStep DEF TypeOK
  <2> QED BY <2>1 DEF Lossless, ComesTo, From, Added
<1> USE DEF pageVars, hubVars
<1>t. hub \in Snapshots /\ view[v] \in Snapshots /\ chan[v] \in Seq(Frames)
  BY DEF TypeOK
<1>f. v \in subs => \E k \in 0 .. Len(chan[v]) : From(view[v], chan[v], hub, k)
  BY Comes DEF Lossless
<1>u. ASSUME v \in subs, UNCHANGED <<hub, view[v], chan[v]>>
      PROVE  \E k \in 0 .. Len(chan'[v]) : From(view'[v], chan'[v], hub', k)
  BY <1>f, <1>u
<1>1. CASE PublishEvent \/ MutateState \/ (CloseAfterTerminal /\ ~closed)
  <2>1. PICK f : Publishes(f)
    BY <1>1, Published
  <2>2. UNCHANGED view
    BY <1>1 DEF PublishEvent, MutateState, CloseAfterTerminal
  <2>3. v \in subs /\ chan'[v] = Append(chan[v], f) /\ f \in Frames /\ hub' = Shown(hub, f)
    BY <2>1, FanoutEffect DEF Publishes
  <2>4. PICK k \in 0 .. Len(chan[v]) : From(view[v], chan[v], hub, k)
    BY <1>f, <2>3
  <2> QED BY <1>t, <2>2, <2>3, <2>4, FromAppend
<1>2. CASE \/ Decide \/ (CloseAfterTerminal /\ closed) \/ GraceExpires \/ Shutdown \/ RemoveRun
           \/ UNCHANGED vars
  BY <1>2, <1>u DEF Decide, CloseAfterTerminal, GraceExpires, Shutdown, RemoveRun, TearDown, vars
<1>3. ASSUME NEW u \in Viewers, Subscribe(u)
      PROVE  \E k \in 0 .. Len(chan'[v]) : From(view'[v], chan'[v], hub', k)
  <2>1. CASE closed \/ u # v
    BY <1>3, <1>u, <2>1 DEF Subscribe, TypeOK
  <2>2. CASE ~closed /\ u = v
    <3>1. chan'[v] = <<StateFrame(hub)>> /\ hub' = hub
      BY <1>3, <2>2 DEF Subscribe, TypeOK
    <3>2. From(view'[v], <<StateFrame(hub)>>, hub, 1) /\ 1 \in 0 .. Len(<<StateFrame(hub)>>)
      BY <1>t, FromOne
    <3> QED BY <3>1, <3>2
  <2> QED BY <2>1, <2>2
<1>4. ASSUME NEW u \in Viewers, Read(u)
      PROVE  \E k \in 0 .. Len(chan'[v]) : From(view'[v], chan'[v], hub', k)
  <2>1. CASE u # v
    BY <1>4, <1>u, <2>1 DEF Read, TypeOK
  <2>2. CASE u = v
    <3>1. /\ v \in subs /\ chan[v] # <<>> /\ chan'[v] = Tail(chan[v])
          /\ view'[v] = Shown(view[v], Head(chan[v])) /\ hub' = hub
      BY <1>4, <2>2 DEF Read, TypeOK
    <3>2. PICK k \in 0 .. Len(chan[v]) : From(view[v], chan[v], hub, k)
      BY <1>f, <3>1
    <3> QED BY <1>t, <3>1, <3>2, FromTail
  <2> QED BY <2>1, <2>2
<1>5. ASSUME NEW u \in Viewers, SubscribeUnknown(u) \/ End(u) \/ Break(u) \/ Fallback(u)
      PROVE  \E k \in 0 .. Len(chan'[v]) : From(view'[v], chan'[v], hub', k)
  BY <1>5, <1>u DEF OnlyStreamsListed, SubscribeUnknown, End, Break, Fallback, TypeOK
<1> QED BY <1>1, <1>2, <1>3, <1>4, <1>5 DEF Next

-----------------------------------------------------------------------------
(* Every reachable state of a hub with its pages satisfies the invariant.   *)
THEOREM Invariance == Spec => []IInv
<1>1. IInv /\ [Next]_vars => IInv'
  BY TypeStep, OpenStep, ListedStep, OutcomeStep, LosslessStep DEF IInv
<1> QED BY InitInvariant, <1>1, PTL DEF Spec

(* The hub's snapshot, its buffers and the pages are always well formed,    *)
(* and no buffer exceeds its capacity.                                      *)
THEOREM TypeCorrect == Spec => []TypeOK
<1>1. IInv => TypeOK
  BY DEF IInv
<1> QED BY Invariance, <1>1, PTL

(* A channel is open exactly while its subscriber is listed, whatever the   *)
(* order of evictions, unsubscribes and teardown: nothing is sent on a      *)
(* closed channel and none is closed twice.                                 *)
THEOREM OpenMatches == Spec => []OpenIffListed
<1>1. IInv => OpenIffListed
  BY DEF IInv
<1> QED BY Invariance, <1>1, PTL

(* Whenever a page subscribes, what it shows and what is buffered for it    *)
(* make the task's log exactly, for logs of any length.                     *)
THEOREM NothingLost == Spec => []Lossless
<1>1. IInv => Lossless
  BY DEF IInv
<1> QED BY Invariance, <1>1, PTL

(* A page that showed the outcome of the task keeps showing it.             *)
THEOREM OutcomeKept == Spec => OutcomeSticks
<1>1. IInv /\ [Next]_vars => [\A v \in Viewers : view[v].term => view'[v].term]_vars
  BY OutcomeStep DEF IInv
<1> QED BY Invariance, <1>1, PTL DEF Spec, OutcomeSticks
=============================================================================
