---- MODULE LiveGraph ----
(***************************************************************************)
(* A live graph of a link or of a meter: BinnedLiveGraph adds up values in *)
(* bins of time, hands full bins to Graph as data points, and draws them   *)
(* from a thread of its own.  The writer is the thread of the ferry that   *)
(* calls add_value_now() and set_max_value_now(); the animator draws frame *)
(* after frame.  mutex_ orders what they do to the bins, except that the   *)
(* animator reads the partial bins without it.  Neither the estimates nor  *)
(* the scale of a picture, which only it shows, are kept here.             *)
(***************************************************************************)
EXTENDS Integers, Sequences, SequencesExt, FiniteSets

CONSTANTS Graphs,     \* of "throughput", "delay", "none"
          BinWidth,   \* bin_width_ms_
          Window,     \* logical_width() + 1, in bins
          Instants,   \* what the clock may read
          MaxCalls

ASSUME LiveGraphAssumption ==
  /\ Graphs \subseteq {"throughput", "delay", "none"}
  /\ BinWidth \in Nat \ {0} /\ Window \in Nat /\ 0 \in Instants /\ Instants \subseteq Nat

Threads == {"writer", "animator"}

\* styles: a throughput graph has a filled area and a line.
Lines(g) == IF g = "throughput" THEN {0, 1} ELSE {0}

\* initialize_new_bin: a delay that nobody measured is not drawn.
NewBin(g) == IF g = "delay" THEN -1 ELSE 0

VARIABLES graph,         \* what it shows, "none" when there is no graph
          now,           \* timestamp()
          value_this_bin, current_bin,
          mutex,         \* who holds mutex_, or "free"
          at,            \* where each thread is
          ts,            \* the clock each read in advance()
          line,          \* the line each is at
          loaded,        \* the value the writer read before it adds to it
          constructed,   \* initialize_new_bin_ exists
          halt,          \* halt_
          points,        \* data_points_: [bin |-> b, value |-> v] of each line
          complete, idle,\* complete_ and idle_ of the window
          events,        \* what the X server has yet to tell
          calls,         \* how often the writer was asked to add
          fed, given     \* sums of what was added, and of what bins were drawn

binVars == <<value_this_bin, current_bin, points, given>>
drawVars == <<complete, idle, events>>
graphVars == <<graph, now, binVars, mutex, at, ts, line, loaded, constructed,
               halt, drawVars, calls, fed>>

At(t, place) == at' = [at EXCEPT ![t] = place]

GraphInit ==
  /\ graph \in Graphs
  /\ now = 0 /\ current_bin = 0 /\ mutex = "free"
  /\ value_this_bin = [l \in Lines(graph) |-> 0]
  /\ at = [writer |-> "starting", animator |-> "checking"]
  /\ ts = [t \in Threads |-> 0] /\ line = [t \in Threads |-> 0]
  /\ loaded = 0 /\ constructed = FALSE /\ halt = FALSE
  /\ points = [l \in Lines(graph) |-> <<>>]
  /\ complete = TRUE /\ idle = TRUE /\ events = {}
  /\ calls = 0
  /\ fed = [l \in Lines(graph) |-> 0] /\ given = [l \in Lines(graph) |-> 0]

GraphClockTicks ==
  /\ now' \in Instants /\ now < now'
  /\ \A n \in Instants : n <= now \/ now' <= n
  /\ UNCHANGED <<graph, binVars, mutex, at, ts, line, loaded, constructed, halt,
                 drawVars, calls, fed>>
----
(***************************************************************************)
(* The constructor: the animator is running before initialize_new_bin_ is  *)
(* made and before the lines get their first point.                        *)
(***************************************************************************)
Constructs ==
  /\ at.writer = "starting" /\ ~constructed
  /\ constructed' = TRUE
  /\ UNCHANGED <<graph, now, binVars, mutex, at, ts, line, loaded, halt,
                 drawVars, calls, fed>>

AddsFirstPoint ==
  /\ at.writer = "starting" /\ constructed
  /\ LET l == line.writer IN
       /\ points' = [points EXCEPT ![l] = Append(@, [bin |-> 0, value |-> 0])]
       /\ IF l + 1 \in Lines(graph)
          THEN line' = [line EXCEPT !.writer = l + 1] /\ at' = at
          ELSE line' = [line EXCEPT !.writer = 0] /\ At("writer", "idle")
  /\ UNCHANGED <<graph, now, value_this_bin, current_bin, given, mutex, ts,
                 loaded, constructed, halt, drawVars, calls, fed>>
----
\* Slip: advance() does not lock.
UnlockedAdvance(t) ==
  /\ at[t] = IF t = "writer" THEN "called" ELSE "frame"
  /\ ts' = [ts EXCEPT ![t] = now] /\ line' = [line EXCEPT ![t] = 0]
  /\ At(t, "advancing")
  /\ UNCHANGED <<graph, now, binVars, mutex, loaded, constructed, halt, drawVars,
                 calls, fed>>

\* advance() locks, then reads the clock.
AdvanceBegins(t) ==
  /\ at[t] = IF t = "writer" THEN "called" ELSE "frame"
  /\ mutex = "free" /\ mutex' = t
  /\ ts' = [ts EXCEPT ![t] = now] /\ line' = [line EXCEPT ![t] = 0]
  /\ At(t, "advancing")
  /\ UNCHANGED <<graph, now, binVars, loaded, constructed, halt, drawVars,
                 calls, fed>>

BinsLeft(t) == current_bin < ts[t] \div BinWidth

\* The inner loop's body: the bin's value becomes a point, and the bin new.
EmitBin(t) ==
  /\ at[t] = "advancing" /\ BinsLeft(t)
  /\ line[t] \in Lines(graph) /\ constructed
  /\ LET l == line[t] IN
       /\ points' = [points EXCEPT ![l] =
                       Append(@, [bin |-> current_bin + 1, value |-> value_this_bin[l]])]
       /\ given' = [given EXCEPT ![l] = @ + value_this_bin[l]]
       /\ value_this_bin' = [value_this_bin EXCEPT ![l] = NewBin(graph)]
       /\ line' = [line EXCEPT ![t] = l + 1]
  /\ UNCHANGED <<graph, now, current_bin, mutex, at, ts, loaded, constructed,
                 halt, drawVars, calls, fed>>

NextBin(t) ==
  /\ at[t] = "advancing" /\ BinsLeft(t) /\ line[t] \notin Lines(graph)
  /\ current_bin' = current_bin + 1
  /\ line' = [line EXCEPT ![t] = 0]
  /\ UNCHANGED <<graph, now, value_this_bin, points, given, mutex, at, ts,
                 loaded, constructed, halt, drawVars, calls, fed>>

\* Calling the function that is not made yet: it is found empty, and throws
\* bad_function_call, which ends the animator, or it takes the process with it.
CallsUnmade ==
  /\ at.animator = "advancing" /\ BinsLeft("animator") /\ ~constructed
  /\ \/ At("animator", "died")
     \/ at' = [t \in Threads |-> "crashed"]
  /\ mutex' = "free"
  /\ points' = [points EXCEPT ![0] =
                  Append(@, [bin |-> current_bin + 1, value |-> value_this_bin[0]])]
  /\ UNCHANGED <<graph, now, value_this_bin, current_bin, given, ts, line,
                 loaded, constructed, halt, drawVars, calls, fed>>

AdvanceEnds(t) ==
  /\ at[t] = "advancing" /\ ~BinsLeft(t)
  /\ mutex' = "free"
  /\ line' = [line EXCEPT ![t] = 0]
  /\ At(t, IF t = "writer" THEN "advanced" ELSE "estimating")
  /\ ts' = IF t = "writer" THEN [ts EXCEPT ![t] = 0] ELSE ts
  /\ UNCHANGED <<graph, now, binVars, loaded, constructed, halt, drawVars,
                 calls, fed>>
----
(***************************************************************************)
(* The writer: record_arrival() and its like, or MeterQueue::read_packet(). *)
(***************************************************************************)
Records(l) ==
  /\ at.writer = "idle" /\ calls < MaxCalls
  /\ calls' = calls + 1
  /\ line' = [line EXCEPT !.writer = l] /\ At("writer", "called")
  /\ loaded' = l   \* the argument num, until the value is read
  /\ UNCHANGED <<graph, now, binVars, mutex, ts, constructed, halt, drawVars, fed>>

\* Slip: only advance() locks.
UnlockedLoad(l) ==
  /\ at.writer = "advanced" /\ l = loaded
  /\ mutex' = mutex
  /\ line' = [line EXCEPT !.writer = l]
  /\ loaded' = value_this_bin[l] /\ At("writer", "adding")
  /\ UNCHANGED <<graph, now, binVars, ts, constructed, halt, drawVars, calls, fed>>

\* The second lock of a call: what advance() found may be past by now.
LoadsValue(l) ==
  /\ at.writer = "advanced" /\ l = loaded
  /\ mutex = "free" /\ mutex' = "writer"
  /\ line' = [line EXCEPT !.writer = l]
  /\ loaded' = value_this_bin[l] /\ At("writer", "adding")
  /\ UNCHANGED <<graph, now, binVars, ts, constructed, halt, drawVars, calls, fed>>

\* add_value_now(), or set_max_value_now() on a delay; sizes are alike here.
StoresValue(amount) ==
  /\ at.writer = "adding"
  /\ graph = "throughput" => amount = 1
  /\ value_this_bin' = [value_this_bin EXCEPT ![line.writer] =
       IF graph = "delay"
       THEN IF loaded < amount THEN amount ELSE loaded
       ELSE loaded + amount]
  /\ fed' = [fed EXCEPT ![line.writer] = @ + amount]
  /\ mutex' = "free" /\ loaded' = 0 /\ At("writer", "idle")
  /\ UNCHANGED <<graph, now, current_bin, points, given, ts, line, constructed,
                 halt, drawVars, calls>>

\* The destructor halts the animator and joins it.
Halts ==
  /\ at.writer = "idle"
  /\ halt' = TRUE /\ At("writer", "joining")
  /\ UNCHANGED <<graph, now, binVars, mutex, ts, line, loaded, constructed,
                 drawVars, calls, fed>>

Joins ==
  /\ at.writer = "joining" /\ at.animator \in {"ended", "died"}
  /\ At("writer", "done")
  /\ UNCHANGED <<graph, now, binVars, mutex, ts, line, loaded, constructed,
                 halt, drawVars, calls, fed>>
----
(***************************************************************************)
(* The animator: one frame after the other.                                *)
(***************************************************************************)
\* Slip: the flag is not looked at again.
ChecksNothing ==
  /\ at.animator = "checking"
  /\ At("animator", "frame")
  /\ UNCHANGED <<graph, now, binVars, mutex, ts, line, loaded, constructed,
                 halt, drawVars, calls, fed>>

ChecksHalt ==
  /\ at.animator = "checking"
  /\ At("animator", IF halt THEN "ended" ELSE "frame")
  /\ UNCHANGED <<graph, now, binVars, mutex, ts, line, loaded, constructed,
                 halt, drawVars, calls, fed>>

\* The current estimates, from bins that the writer may be at work on: this loop
\* does not lock the mutex, and what it reads is drawn and forgotten.
Estimates ==
  /\ at.animator = "estimating"
  /\ At("animator", "drawing")
  /\ UNCHANGED <<graph, now, binVars, mutex, ts, line, loaded, constructed, halt,
                 drawVars, calls, fed>>

MaxOf(S) == CHOOSE x \in S : \A y \in S : y <= x

\* Points out of the window go, while the one after them is out of it, too.
OutOfWindow(p) == p.bin * BinWidth < ts.animator - Window * BinWidth

Pruned(s) ==
  LET leading == {k \in DOMAIN s : \A j \in 1..k : OutOfWindow(s[j])}
  IN SubSeq(s, MaxOf({1} \cup leading), Len(s))

\* blocking_draw(): prune under data_mutex_, and draw.
Draws ==
  /\ at.animator = "drawing"
  /\ points' = [l \in Lines(graph) |-> Pruned(points[l])]
  /\ ts' = [ts EXCEPT !.animator = 0] /\ At("animator", "presenting")
  /\ UNCHANGED <<graph, now, value_this_bin, current_bin, given, mutex, line,
                 loaded, constructed, halt, drawVars, calls, fed>>

\* present(): once the last picture is complete, hand over this one.
Presents ==
  /\ at.animator = "presenting" /\ complete
  /\ complete' = FALSE /\ idle' = FALSE
  /\ events' = events \cup {"complete", "idle"}
  /\ At("animator", "presented")
  /\ UNCHANGED <<graph, now, binVars, mutex, ts, line, loaded, constructed, halt,
                 calls, fed>>

Waits == \/ at.animator = "presenting" /\ ~complete
         \/ at.animator = "presented" /\ ~idle

\* event_loop(): the server copies the picture, so that it is done with the
\* pixmap at once, and shows it at the next refresh, before or after that.
HandlesEvent(e) ==
  /\ Waits /\ e \in events
  /\ events' = events \ {e}
  /\ complete' = (complete \/ e = "complete") /\ idle' = (idle \/ e = "idle")
  /\ UNCHANGED <<graph, now, binVars, mutex, at, ts, line, loaded, constructed,
                 halt, calls, fed>>

FrameEnds ==
  /\ at.animator = "presented" /\ idle
  /\ At("animator", "checking")
  /\ UNCHANGED <<graph, now, binVars, mutex, ts, line, loaded, constructed, halt,
                 drawVars, calls, fed>>
----
Advances(t) ==
  AdvanceBegins(t) \/ EmitBin(t) \/ NextBin(t) \/ AdvanceEnds(t)

WriterRuns ==
  \/ Constructs \/ AddsFirstPoint \/ Advances("writer")
  \/ \E l \in {0, 1} : LoadsValue(l)
  \/ \E amount \in {1, 2} : StoresValue(amount)
  \/ Joins

AnimatorRuns ==
  \/ ChecksHalt \/ Advances("animator") \/ CallsUnmade
  \/ Estimates \/ Draws \/ Presents
  \/ \E e \in {"complete", "idle"} : HandlesEvent(e)
  \/ FrameEnds

GraphNext ==
  /\ graph # "none"
  /\ \/ GraphClockTicks \/ WriterRuns \/ AnimatorRuns
     \/ \E l \in Lines(graph) : Records(l)
     \/ Halts

\* The threads are scheduled fairly; a mutex does not pass one by for ever.
GraphFairness ==
  /\ WF_graphVars(graph # "none" /\ AnimatorRuns)
  /\ WF_graphVars(graph # "none" /\ WriterRuns)
  /\ \A t \in Threads : SF_graphVars(graph # "none" /\ AdvanceBegins(t))
  /\ SF_graphVars(graph # "none" /\ \E l \in {0, 1} : LoadsValue(l))
----
Ran == at.animator # "died" /\ at.writer # "crashed"

\* Every byte that was metered is in exactly one bin: in a point given to the
\* graph or in the partial bin, though either thread may close bins at any time
\* and the writer adds after it has let go of the lock (binned_livegraph.cc:97).
ValuesAreConserved ==
  Ran /\ graph = "throughput" =>
    \A l \in Lines(graph) : fed[l] = given[l] + value_this_bin[l]

\* The points that stand for a bin that was closed; the first point is at time 0.
ClosedBins(s) == {k \in DOMAIN s : s[k].bin > 0}

Consecutive(s) ==
  \A j, k \in ClosedBins(s) :
    j < k /\ (\A i \in ClosedBins(s) : i <= j \/ k <= i) => s[k].bin = s[j].bin + 1

EndsIn(s, bins) ==
  \A k \in ClosedBins(s) : (\A i \in ClosedBins(s) : i <= k) => s[k].bin \in bins

\* Each line has one point for every bin, in the order of time, whoever closed
\* it (binned_livegraph.cc:80); the first point of all, at time 0, may come late.
BinsInOrder ==
  Ran => \A l \in Lines(graph) :
    Consecutive(points[l]) /\ EndsIn(points[l], {current_bin, current_bin + 1})

\* A graph that is destroyed is destroyed: the animator finishes its frame, and
\* neither the mutex nor the window holds it (binned_livegraph.cc:123).
GraphEnds == halt ~> at.writer = "done"
====
