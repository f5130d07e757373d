------------------------------- MODULE TaskHub -------------------------------
(***************************************************************************)
(* The hub of one task (internal/tasks/hub.go), the SSE handler that       *)
(* drains a subscription (internal/api/sse.go) and the web page behind it  *)
(* (web/src/api/sse.ts and its callers).                                   *)
(*                                                                         *)
(* A snapshot is reduced to its event lines and to whether its state is    *)
(* terminal.  A state frame carries a snapshot, an event frame one line.   *)
(* Every hub method holds h.mu, so each is one step.  The handler copies   *)
(* frames to the network one by one: reading one and showing it is one     *)
(* step, and a reader that is slow is one that does not take it.           *)
(***************************************************************************)
EXTENDS Integers, Sequences

CONSTANTS
  Viewers,     \* pages that follow the task
  BufferCap,   \* subscriberBuffer
  MaxFrames,   \* bound: frames the executor publishes
  Straggling   \* goroutines outlive Execute (deploy's step drain)

ASSUME HubAssumption ==
  /\ BufferCap \in Nat \ {0} /\ MaxFrames \in Nat
  /\ Straggling \in BOOLEAN

VARIABLES
  hub,        \* the snapshot: [lines, term]
  closed,     \* h.closed
  subs,       \* h.subs
  chan,       \* chan[v]: frames buffered in v's channel
  open,       \* open[v]: v's channel is not closed
  run,        \* executeRun: "executing", "deciding" or "over"
  final,      \* the lines of finalState, from the snapshot to the last frame
  known,      \* the task is in Manager.runs
  made,       \* frames published so far; numbers the event lines
  page,       \* page[v]: "idle", "streaming", "ended", "broken" or "settled"
  view,       \* view[v]: the snapshot the page shows
  dropped     \* viewers evicted by fanout

hubVars == <<hub, closed, subs, chan, open>>
pageVars == <<page, view>>
vars == <<hubVars, run, final, known, made, pageVars, dropped>>

Snapshot(l, t) == [lines |-> l, term |-> t]
Blank == Snapshot(<<>>, FALSE)

StateFrame(s) == [kind |-> "state", snap |-> s]
EventFrame(n) == [kind |-> "event", line |-> n]

-----------------------------------------------------------------------------
\* What a page shows after a frame (subscribeOperationEvents' handlers).
Shown(s, f) ==
  IF f.kind = "state" THEN f.snap ELSE [s EXCEPT !.lines = Append(@, f.line)]

\* Mutant: a full buffer loses the frame but keeps the subscriber.
M_Fanout(f) ==
  LET slow == {v \in subs : Len(chan[v]) >= BufferCap} IN
  /\ chan' = [v \in Viewers |-> IF v \in subs \ slow THEN Append(chan[v], f) ELSE chan[v]]
  /\ UNCHANGED <<subs, open, dropped>>

\* Mutant: one frame too late.
M_FanoutLate(f) ==
  LET slow == {v \in subs : Len(chan[v]) > BufferCap} IN
  /\ chan' = [v \in Viewers |-> IF v \in subs \ slow THEN Append(chan[v], f) ELSE chan[v]]
  /\ subs' = subs \ slow
  /\ open' = [v \in Viewers |-> open[v] /\ v \notin slow]
  /\ dropped' = dropped \cup slow

(* fanout: a subscriber whose buffer is full is removed and its channel     *)
(* closed; what it had buffered can still be read.                          *)
Fanout(f) ==
  LET slow == {v \in subs : Len(chan[v]) >= BufferCap} IN
  /\ chan' = [v \in Viewers |-> IF v \in subs \ slow THEN Append(chan[v], f) ELSE chan[v]]
  /\ subs' = subs \ slow
  /\ open' = [v \in Viewers |-> open[v] /\ v \notin slow]
  /\ dropped' = dropped \cup slow

-----------------------------------------------------------------------------
Init ==
  /\ hub = Blank
  /\ closed = FALSE
  /\ subs = {}
  /\ chan = [v \in Viewers |-> <<>>]
  /\ open = [v \in Viewers |-> FALSE]
  /\ run = "executing"
  /\ final = <<>>
  /\ known = TRUE
  /\ made = 0
  /\ page = [v \in Viewers |-> "idle"]
  /\ view = [v \in Viewers |-> Blank]
  /\ dropped = {}

MayPublish == (run = "executing" \/ Straggling) /\ ~closed /\ made < MaxFrames

PublishEvent ==
  /\ MayPublish
  /\ made' = made + 1
  /\ hub' = [hub EXCEPT !.lines = Append(@, made')]
  /\ Fanout(EventFrame(made'))
  /\ UNCHANGED <<closed, run, final, known, pageVars>>

\* The fields MutateState changes are not distinguished.
MutateState ==
  /\ MayPublish
  /\ made' = made + 1
  /\ Fanout(StateFrame(hub))
  /\ UNCHANGED <<hub, closed, run, final, known, pageVars>>

\* The executor returned: executeRun takes a snapshot as the final state.
Decide ==
  /\ run = "executing"
  /\ run' = "deciding"
  /\ final' = hub.lines
  /\ UNCHANGED <<hubVars, known, made, pageVars, dropped>>

\* Mutant: the terminal state is fanned out but not stored.
M_CloseAfterTerminal ==
  /\ run = "deciding"
  /\ run' = "over"
  /\ final' = <<>>
  /\ IF closed
       THEN UNCHANGED <<hub, chan, subs, open, dropped>>
       ELSE /\ UNCHANGED hub
            /\ Fanout(StateFrame(Snapshot(final, TRUE)))
  /\ UNCHANGED <<closed, known, made, pageVars>>

(* CloseAfterTerminal: the final state replaces what stragglers published   *)
(* since it was computed.                                                   *)
CloseAfterTerminal ==
  /\ run = "deciding"
  /\ run' = "over"
  /\ final' = <<>>
  /\ IF closed
       THEN UNCHANGED <<hub, chan, subs, open, dropped>>
       ELSE /\ hub' = Snapshot(final, TRUE)
            /\ Fanout(StateFrame(hub'))
  /\ UNCHANGED <<closed, known, made, pageVars>>

\* Mutant: the subscribers are forgotten, their channels left open.
M_TearDown ==
  /\ closed' = TRUE
  /\ subs' = {}
  /\ UNCHANGED <<hub, chan, open>>

\* shutdown: every subscriber's channel is closed.
TearDown ==
  /\ closed' = TRUE
  /\ open' = [v \in Viewers |-> FALSE]
  /\ subs' = {}
  /\ UNCHANGED <<hub, chan>>

\* postTerminalGrace is over.
GraceExpires ==
  /\ run = "over" /\ ~closed
  /\ TearDown
  /\ UNCHANGED <<run, final, known, made, pageVars, dropped>>

\* Manager.Shutdown closes the hubs of known runs; the process is about to end.
Shutdown ==
  /\ known /\ ~closed
  /\ TearDown
  /\ UNCHANGED <<run, final, known, made, pageVars, dropped>>

RemoveRun ==
  /\ run = "over" /\ known
  /\ known' = FALSE
  /\ UNCHANGED <<hubVars, run, final, made, pageVars, dropped>>

-----------------------------------------------------------------------------
(* Pages and their handlers.                                                *)

\* The page connects: Subscribe queues the current snapshot, or returns a
\* closed channel from a closed hub.
Subscribe(v) ==
  /\ page[v] = "idle" /\ known
  /\ page' = [page EXCEPT ![v] = "streaming"]
  /\ IF closed
       THEN UNCHANGED <<subs, open, chan>>
       ELSE /\ subs' = subs \cup {v}
            /\ open' = [open EXCEPT ![v] = TRUE]
            /\ chan' = [chan EXCEPT ![v] = <<StateFrame(hub)>>]
  /\ UNCHANGED <<hub, closed, run, final, known, made, view, dropped>>

\* 404, and so is the snapshot the page falls back on.
SubscribeUnknown(v) ==
  /\ page[v] = "idle" /\ ~known
  /\ page' = [page EXCEPT ![v] = "settled"]
  /\ UNCHANGED <<hubVars, run, final, known, made, view, dropped>>

Read(v) ==
  /\ page[v] = "streaming" /\ chan[v] # <<>>
  /\ view' = [view EXCEPT ![v] = Shown(@, Head(chan[v]))]
  /\ chan' = [chan EXCEPT ![v] = Tail(@)]
  /\ UNCHANGED <<hub, closed, subs, open, run, final, known, made, page, dropped>>

\* Mutant: the handler returns when the channel is closed, whatever is left
\* in it.
M_End(v) ==
  /\ page[v] = "streaming" /\ ~open[v]
  /\ page' = [page EXCEPT ![v] = "ended"]
  /\ UNCHANGED <<hubVars, run, final, known, made, view, dropped>>

\* A drained and closed channel: the handler sends "end", and
\* subscribeOperationEvents returns without an error.
End(v) ==
  /\ page[v] = "streaming" /\ chan[v] = <<>> /\ ~open[v]
  /\ page' = [page EXCEPT ![v] = "ended"]
  /\ UNCHANGED <<hubVars, run, final, known, made, view, dropped>>

\* Mutant: the unsubscribe closes the channel but leaves the entry.
M_Break(v) ==
  /\ page[v] = "streaming"
  /\ page' = [page EXCEPT ![v] = "broken"]
  /\ open' = [open EXCEPT ![v] = FALSE]
  /\ UNCHANGED <<hub, closed, subs, chan, run, final, known, made, view, dropped>>

\* The connection breaks: the handler unsubscribes, frames not read are lost.
Break(v) ==
  /\ page[v] = "streaming"
  /\ page' = [page EXCEPT ![v] = "broken"]
  /\ subs' = subs \ {v}
  /\ open' = [open EXCEPT ![v] = FALSE]
  /\ chan' = [chan EXCEPT ![v] = <<>>]
  /\ UNCHANGED <<hub, closed, run, final, known, made, view, dropped>>

\* The page's error handler: one snapshot, then it stops waiting.
Fallback(v) ==
  /\ page[v] = "broken"
  /\ page' = [page EXCEPT ![v] = "settled"]
  /\ view' = IF known THEN [view EXCEPT ![v] = hub] ELSE view
  /\ UNCHANGED <<hubVars, run, final, known, made, dropped>>

-----------------------------------------------------------------------------
Next ==
  \/ PublishEvent \/ MutateState \/ Decide \/ CloseAfterTerminal
  \/ GraceExpires \/ Shutdown \/ RemoveRun
  \/ \E v \in Viewers :
       \/ Subscribe(v) \/ SubscribeUnknown(v) \/ Read(v) \/ End(v)
       \/ Break(v) \/ Fallback(v)

Spec == Init /\ [][Next]_vars

(* Fairness: the goroutine of executeRun goes on once the executor returned *)
(* and its timer fires; a page that has frames is written to; a broken      *)
(* page's handler runs.  The executor itself is under no obligation.        *)
Fairness ==
  /\ WF_vars(CloseAfterTerminal) /\ WF_vars(GraceExpires)
  /\ \A v \in Viewers :
       WF_vars(Read(v)) /\ WF_vars(End(v)) /\ WF_vars(Fallback(v))

FairSpec == Spec /\ Fairness

-----------------------------------------------------------------------------
(* Properties.                                                              *)

Snapshots == [lines : Seq(1 .. MaxFrames), term : BOOLEAN]
Frames == [kind : {"state"}, snap : Snapshots] \cup [kind : {"event"}, line : 1 .. MaxFrames]

TypeOK ==
  /\ hub \in Snapshots /\ final \in Seq(1 .. MaxFrames)
  /\ closed \in BOOLEAN /\ known \in BOOLEAN
  /\ subs \subseteq Viewers /\ dropped \subseteq Viewers
  /\ open \in [Viewers -> BOOLEAN]
  /\ chan \in [Viewers -> Seq(Frames)] /\ \A v \in Viewers : Len(chan[v]) <= BufferCap
  /\ view \in [Viewers -> Snapshots]
  /\ run \in {"executing", "deciding", "over"}
  /\ made \in 0 .. MaxFrames
  /\ page \in [Viewers -> {"idle", "streaming", "ended", "broken", "settled"}]

\* A channel is open exactly while the hub lists its subscriber, through
\* evictions, unsubscribes and teardown in any order: the hub never sends on
\* a closed channel and never closes one twice, which would panic bm
\* (hub.go, fanout/unsubscribe/shutdown).
OpenIffListed == \A v \in Viewers : v \in subs <=> open[v]

\* The last state frame buffered for v, if any, replaces what v sees, and the
\* events behind it are added: that makes s.
ComesTo(v, s) ==
  \E k \in 0 .. Len(chan[v]) :
    LET base == IF k = 0 THEN view[v] ELSE chan[v][k].snap IN
    /\ k # 0 => chan[v][k].kind = "state"
    /\ \A i \in (k + 1) .. Len(chan[v]) : chan[v][i].kind = "event"
    /\ s.term = base.term
    /\ s.lines = base.lines \o [i \in 1 .. (Len(chan[v]) - k) |-> chan[v][k + i].line]

\* What a listed subscriber sees plus what is buffered for it is the hub's
\* snapshot: no line lost, doubled or out of order, whenever it joined
\* (Subscribe queues the snapshot under the lock that orders the frames).
Lossless == \A v \in subs : ComesTo(v, hub)

\* Once a page shows the outcome it never shows a running task again, even
\* when stragglers publish after the terminal frame.
OutcomeSticks ==
  [][\A v \in Viewers : view[v].term => view'[v].term]_vars

\* A subscriber listed when the outcome is published sees it, unless it is too
\* slow or its connection breaks: the teardown after the grace period takes no
\* frame away.
ListedLearnOutcome ==
  \A v \in Viewers :
    hub.term /\ v \in subs ~> view[v].term \/ v \in dropped \/ page[v] \in {"broken", "settled"}

\* Every stream of a finished task is ended: no handler waits for a hub that
\* has nothing more to say.
StreamsEnd ==
  \A v \in Viewers : run = "over" /\ page[v] = "streaming" ~> page[v] # "streaming"

\* hub.go: a subscriber that is evicted reconnects and picks up where it left
\* off, so a page whose stream ended early shows the outcome in the end.
EvictedCatchUp ==
  \A v \in Viewers : v \in dropped /\ page[v] = "ended" ~> view[v].term
=============================================================================
