---------------------------------- MODULE Logs ----------------------------------
(***************************************************************************)
(* The log on the status page: the ring buffer every goroutine logs into   *)
(* (internal/logbuf), the event stream that follows it for each page       *)
(* (internal/webui, events) and the page that shows it (assets/app.js).    *)
(*                                                                         *)
(* Append stores its record under the lock and signals the subscribers     *)
(* after it, one at a time.  A stream subscribes before its first Since.   *)
(* Connections drop at any moment and the browser reconnects by itself;    *)
(* pages are reloaded; the bridge restarts, and its buffer with it.  Left  *)
(* out: the status events of the same stream, the records' contents, the   *)
(* trimming of the page's list, GET /api/logs, which no page asks for.     *)
(* The handler of a dropped connection ends with it: what it does until it *)
(* notices reaches nobody.                                                 *)
(***************************************************************************)
EXTENDS Integers, Sequences, SequencesExt, FiniteSets

CONSTANTS
    Pages,       \* open status pages
    Readers,     \* those that keep reading their stream
    Loggers,     \* goroutines that log
    RingSize,    \* 500 in main
    WireCap,     \* batches under way to a page before send blocks
    MaxRecords,  \* bound: records ever logged
    MaxStarts    \* bound: starts of the bridge

ASSUME LogsAssumption ==
    /\ RingSize \in Nat \ {0} /\ WireCap \in Nat \ {0}
    /\ MaxRecords \in Nat /\ MaxStarts \in Nat \ {0}
    /\ Readers \subseteq Pages

Slots == 0 .. RingSize - 1
Empty == [seq |-> 0, id |-> 0]

VARIABLES
    ring, next, seq,   \* Buffer.ring, next and seq
    subs,              \* Buffer.subs: the pages whose streams hold a channel
    notifying,         \* per logger: the subscribers its Append has yet to signal
    wake,              \* per page: the token in its stream's channel
    handler,           \* events: "none", "subscribed", "select" or "sending"
    position,          \* its local seq
    batch,             \* the records it is sending
    wire,              \* batches under way to the page
    lastSeq,           \* app.js
    shown,             \* the records in the page's list
    ids,               \* records ever logged, over all starts
    starts             \* starts of the bridge

bufferVars == <<ring, next, seq>>
streamVars == <<handler, position, batch, wire>>
pageVars == <<lastSeq, shown>>
vars == <<bufferVars, subs, notifying, wake, streamVars, pageVars, ids, starts>>

Init ==
    /\ ring = [s \in Slots |-> Empty] /\ next = 0 /\ seq = 0
    /\ subs = {}
    /\ notifying = [g \in Loggers |-> {}]
    /\ wake = [p \in Pages |-> FALSE]
    /\ handler = [p \in Pages |-> "none"]
    /\ position = [p \in Pages |-> 0]
    /\ batch = [p \in Pages |-> <<>>]
    /\ wire = [p \in Pages |-> <<>>]
    /\ lastSeq = [p \in Pages |-> 0]
    /\ shown = [p \in Pages |-> <<>>]
    /\ ids = 0 /\ starts = 1

----------------------------------------------------------------------------
(* internal/logbuf *)

\* The records of a sequence that have a number above n, in its order: a loop over
\* it, as a recursive function.
Newer(records, n) ==
    LET kept[i \in 0 .. Len(records)] ==
          IF i = 0 THEN <<>>
          ELSE IF records[i].seq > n THEN Append(kept[i - 1], records[i]) ELSE kept[i - 1]
    IN  kept[Len(records)]

\* From the oldest slot, so the result is in order.
Walk == [i \in 1 .. RingSize |-> ring[(next + i - 1) % RingSize]]
Since(n) == Newer(Walk, n)

\* The critical section of Append.
Append_(g) ==
    /\ notifying[g] = {}
    /\ ids < MaxRecords
    /\ ids' = ids + 1
    /\ seq' = seq + 1
    /\ ring' = [ring EXCEPT ![next] = [seq |-> seq + 1, id |-> ids + 1]]
    /\ next' = (next + 1) % RingSize
    /\ notifying' = [notifying EXCEPT ![g] = subs]
    /\ UNCHANGED <<subs, wake, streamVars, pageVars, starts>>

\* variants: a channel without a buffer takes a token only from a waiting reader;
\* a send without default waits for the reader
SignalUnbuffered(g, p) ==
    wake' = [wake EXCEPT ![p] = @ \/ handler[p] = "select"]
SignalBlocking(g, p) == ~wake[p] /\ wake' = [wake EXCEPT ![p] = TRUE]

\* The non-blocking send: a token that is already pending is enough.
Signal(g, p) == wake' = [wake EXCEPT ![p] = TRUE]

Notify(g) ==
    /\ \E p \in notifying[g] :
         /\ Signal(g, p)
         /\ notifying' = [notifying EXCEPT ![g] = @ \ {p}]
    /\ UNCHANGED <<bufferVars, subs, streamVars, pageVars, ids, starts>>

----------------------------------------------------------------------------
(* events in internal/webui *)

\* connect runs once, when the page is loaded and lastSeq is 0, and EventSource
\* repeats that URL whenever it reconnects.
SinceOfURL(p) == 0

\* Subscribe, then parseSeq.
OpenStream(p) ==
    /\ handler[p] = "none"
    /\ handler' = [handler EXCEPT ![p] = "subscribed"]
    /\ subs' = subs \cup {p}
    /\ wake' = [wake EXCEPT ![p] = FALSE]
    /\ position' = [position EXCEPT ![p] = SinceOfURL(p)]
    /\ UNCHANGED <<bufferVars, notifying, batch, wire, pageVars, ids, starts>>

\* What follows a Since: nothing new, or a batch to send and a new position.
Follow(p, records) ==
    IF records = <<>>
      THEN handler' = [handler EXCEPT ![p] = "select"] /\ UNCHANGED <<position, batch>>
      ELSE /\ handler' = [handler EXCEPT ![p] = "sending"]
           /\ position' = [position EXCEPT ![p] = Last(records).seq]
           /\ batch' = [batch EXCEPT ![p] = records]

ReadBacklog(p) ==
    /\ handler[p] = "subscribed"
    /\ Follow(p, Since(position[p]))
    /\ UNCHANGED <<bufferVars, subs, notifying, wake, wire, pageVars, ids, starts>>

WakeUp(p) ==
    /\ handler[p] = "select"
    /\ wake[p]
    /\ wake' = [wake EXCEPT ![p] = FALSE]
    /\ Follow(p, Since(position[p]))
    /\ UNCHANGED <<bufferVars, subs, notifying, wire, pageVars, ids, starts>>

\* variant: a batch that does not fit is dropped
SendOrDrop(p) ==
    /\ handler[p] = "sending"
    /\ wire' = IF Len(wire[p]) < WireCap THEN [wire EXCEPT ![p] = Append(@, batch[p])] ELSE wire
    /\ batch' = [batch EXCEPT ![p] = <<>>]
    /\ handler' = [handler EXCEPT ![p] = "select"]
    /\ UNCHANGED <<bufferVars, subs, notifying, wake, position, pageVars, ids, starts>>

\* A page that does not read leaves the handler blocked here.
Send(p) ==
    /\ handler[p] = "sending"
    /\ Len(wire[p]) < WireCap
    /\ wire' = [wire EXCEPT ![p] = Append(@, batch[p])]
    /\ batch' = [batch EXCEPT ![p] = <<>>]
    /\ handler' = [handler EXCEPT ![p] = "select"]
    /\ UNCHANGED <<bufferVars, subs, notifying, wake, position, pageVars, ids, starts>>

\* variant: the handler returns without cancelling its subscription
DisconnectSocket(gone) ==
    LET Cleared(f, v) == [p \in Pages |-> IF p \in gone THEN v ELSE f[p]]
    IN  /\ handler' = Cleared(handler, "none")
        /\ position' = Cleared(position, 0)
        /\ batch' = Cleared(batch, <<>>)
        /\ wire' = Cleared(wire, <<>>)
        /\ UNCHANGED <<subs, wake, notifying>>

\* The connections of gone are lost: their handlers return and release their
\* channels, so that an Append under way signals nobody there.
Disconnect(gone) ==
    LET Cleared(f, v) == [p \in Pages |-> IF p \in gone THEN v ELSE f[p]]
    IN  /\ handler' = Cleared(handler, "none")
        /\ position' = Cleared(position, 0)
        /\ batch' = Cleared(batch, <<>>)
        /\ wire' = Cleared(wire, <<>>)
        /\ wake' = Cleared(wake, FALSE)
        /\ subs' = subs \ gone
        /\ notifying' = [g \in Loggers |-> notifying[g] \ gone]

Drop(p) ==
    /\ handler[p] # "none"
    /\ Disconnect({p})
    /\ UNCHANGED <<bufferVars, pageVars, ids, starts>>

----------------------------------------------------------------------------
(* app.js, and the ends of a page and of the bridge *)

\* variant: appendLogs does not look at lastSeq
UnseenAll(p, records) == records

\* The loop raises lastSeq as it goes; a batch is in order, so that changes nothing.
Unseen(p, records) == Newer(records, lastSeq[p])

\* appendLogs on the next "logs" event.
ShowLogs(p) ==
    LET fresh == Unseen(p, Head(wire[p]))
    IN  /\ wire[p] # <<>>
        /\ wire' = [wire EXCEPT ![p] = Tail(@)]
        /\ shown' = [shown EXCEPT ![p] = @ \o fresh]
        /\ lastSeq' = [lastSeq EXCEPT ![p] = IF fresh = <<>> THEN @ ELSE Last(fresh).seq]
        /\ UNCHANGED <<bufferVars, subs, notifying, wake, handler, position, batch, ids, starts>>

Reload(p) ==
    /\ lastSeq[p] # 0
    /\ Disconnect({p})
    /\ lastSeq' = [lastSeq EXCEPT ![p] = 0]
    /\ shown' = [shown EXCEPT ![p] = <<>>]
    /\ UNCHANGED <<bufferVars, ids, starts>>

\* The process is replaced; the pages stay open.
Restart ==
    /\ starts < MaxStarts
    /\ starts' = starts + 1
    /\ Disconnect(Pages)
    /\ ring' = [s \in Slots |-> Empty] /\ next' = 0 /\ seq' = 0
    /\ UNCHANGED <<pageVars, ids>>

HandlerStep(p) == ReadBacklog(p) \/ WakeUp(p) \/ Send(p)

Next ==
    \/ \E g \in Loggers : Append_(g) \/ Notify(g)
    \/ \E p \in Pages : OpenStream(p) \/ HandlerStep(p) \/ ShowLogs(p) \/ Drop(p) \/ Reload(p)
    \/ Restart

\* Goroutines are scheduled; only Readers read what they are sent.  Nobody has to
\* log, connect, drop, reload or restart.
Fairness ==
    /\ \A g \in Loggers : WF_vars(Notify(g))
    /\ \A p \in Pages : WF_vars(HandlerStep(p))
    /\ \A p \in Readers : WF_vars(ShowLogs(p))

Spec == Init /\ [][Next]_vars /\ Fairness

----------------------------------------------------------------------------
Records == {r \in [seq : 0 .. MaxRecords, id : 0 .. MaxRecords] : r.seq <= r.id}

TypeOK ==
    /\ ring \in [Slots -> Records] /\ next \in Slots /\ seq \in 0 .. ids
    /\ subs \subseteq Pages /\ notifying \in [Loggers -> SUBSET subs]
    /\ wake \in [Pages -> BOOLEAN]
    /\ handler \in [Pages -> {"none", "subscribed", "select", "sending"}]
    /\ position \in [Pages -> 0 .. seq] /\ batch \in [Pages -> Seq(Records)]
    /\ wire \in [Pages -> Seq(Seq(Records))] /\ shown \in [Pages -> Seq(Records)]
    /\ lastSeq = [p \in Pages |-> IF shown[p] = <<>> THEN 0 ELSE Last(shown[p]).seq]
    /\ \A p \in Pages :
         /\ p \in subs <=> handler[p] # "none"
         /\ handler[p] = "sending" <=> batch[p] # <<>>
         /\ Len(wire[p]) <= WireCap
    /\ ids \in 0 .. MaxRecords /\ starts \in 1 .. MaxStarts

\* Whatever connections drop and come back with the whole ring, and whatever is
\* overwritten meanwhile, a page's list is in logging order without a repetition,
\* and of the numbers above the last one shown only what the ring had lost is missing:
\* within one start that is every record (logbuf.go:23-24, 92-94).
Feed == INSTANCE LogFeed WITH
    Capacity <- RingSize,
    logged <- seq,
    shown <- [p \in Pages |-> [i \in 1 .. Len(shown[p]) |-> shown[p][i].seq]]

ImplementsFeed == Feed!Spec

\* An event stream that stays up has a reason to move while its page is behind: a
\* token, an Append about to leave one, or a Since or a send still to be done.  A
\* wake-up may be coalesced but is never lost (logbuf.go:66-72, webui.go:252-303).
NoLostWakeUp ==
    \A p \in Pages :
        handler[p] = "select" /\ position[p] < seq
          => wake[p] \/ \E g \in Loggers : p \in notifying[g]

Following(p) == handler[p] # "none"

\* "A log written after the stream opens must reach it" (webui_test.go:93-94): a page
\* that reads its stream has caught up with the buffer in the end, unless it is cut
\* off first.  MaxRecords bounds what is logged meanwhile.
ReadersCatchUp ==
    \A p \in Readers :
        Following(p) /\ lastSeq[p] < seq ~> lastSeq[p] >= seq \/ ~Following(p)

\* "Writes never block ... a status page must not be able to stall navigation"
\* (logbuf.go:29-31): an Append returns, also when a page never reads its stream.
AppendsReturn == \A g \in Loggers : notifying[g] # {} ~> notifying[g] = {}

----------------------------------------------------------------------------
(* What a comment says, and the code does not do. *)

\* "A log written after the stream opens must reach it" (webui_test.go:93-94): a record
\* that was delivered to a page is on its screen afterwards.  Not once the bridge has
\* restarted: the page compares the new numbers with the last one of the old start.
DeliveredIsShown ==
    [][\A p \in Pages :
         wire[p] # <<>> /\ wire'[p] = Tail(wire[p]) /\ handler'[p] # "none"
           => \A i \in 1 .. Len(Head(wire[p])) :
                \E j \in 1 .. Len(shown'[p]) : shown'[p][j].id = Head(wire[p])[i].id]_vars
=============================================================================
