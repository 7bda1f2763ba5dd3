------------------------------ MODULE EventStream ------------------------------
(* The event manager (user_service/internal/events): events are numbered and   *)
(* kept by the MemPersister, broadcast to the subscribers' bounded channels,   *)
(* and played back to a subscriber that resumes at a cursor before it is       *)
(* handed over to the live events. A subscriber that does not keep up is cut   *)
(* off; cleanup may come from it and from its consumer at once.                *)
(*                                                                             *)
(* An event is its number. Persist holds mp.lk over append and broadcast, and  *)
(* the broadcast, which never blocks, subsLk: one step. Filters accept all, as *)
(* the one in pds/sync.go; a panic of AddEvent is recovered by its handler.    *)
EXTENDS Integers, Sequences

CONSTANTS Subs,           \* subscriptions; each is made once
          Resuming,       \* those that may ask for a cursor
          Kinds,          \* kinds of events added: "commit", "label", "sync"
          MaxEvents,      \* bound on the events ever added
          BufferSize,     \* of Subscriber.outgoing
          CrossoverSize   \* of the channel of a resumed subscriber

ASSUME SizesAssumption ==
  /\ MaxEvents \in Nat /\ BufferSize \in Nat \ {0} /\ CrossoverSize \in Nat \ {0}
  /\ Resuming \subseteq Subs
  /\ Kinds \subseteq {"commit", "label", "sync"}

VARIABLES
  seq, buf,    \* MemPersister: the last number given, and the events kept
  labels,      \* which of them are LabelLabels events
  subs,        \* EventManager.subs
  muted,       \* subscribers whose filter was replaced because they overflowed
  outgoing,    \* per subscription: the live channel
  out, outClosed,  \* the channel a resumed consumer reads; those closed
  clean,       \* how far cleanup is: done is closed in "closing", outgoing in "closed" too
  dropper,     \* the goroutine that reports an overflow
  consumer,    \* who called Subscribe: reading, at the end of its channel, gone
  pc,          \* the goroutine of a resumed subscription
  cursor, todo,  \* its lastSeq; what is left of the playback it is in
  inHand,      \* the event it took from outgoing
  (* What happened, for the properties.                                        *)
  start,       \* the event after which a subscription begins
  seen,        \* what its consumer received
  lost,        \* events whose broadcast panicked
  skipped      \* events of the log that its playbacks took for older than its cursor

persister == <<seq, buf, labels>>
channels == <<outgoing, out, outClosed>>
resuming == <<pc, cursor, todo, inHand>>
ghosts == <<start, seen, lost, skipped>>
vars == <<persister, subs, muted, channels, clean, dropper, consumer, resuming, ghosts>>

ErrorFrame == 0
NoEvent == -1
Events == 1 .. MaxEvents

(* SequenceForEvent: only repo events have one.                                *)
Sequence(e) == IF e \in Events \ labels THEN e ELSE -1

Full(channel, size) == Len(channel) >= size
Done(s) == clean[s] # "no"                  \* the done channel is closed
Dry(s) == outgoing[s] = <<>> /\ clean[s] = "closed"

Send(s, e) ==
  /\ ~Full(out[s], CrossoverSize)
  /\ out' = [out EXCEPT ![s] = Append(@, e)]

Init ==
  /\ seq = 0 /\ buf = <<>> /\ labels = {}
  /\ subs = {} /\ muted = {}
  /\ outgoing = [s \in Subs |-> <<>>]
  /\ out = [s \in Subs |-> <<>>] /\ outClosed = {}
  /\ clean = [s \in Subs |-> "no"]
  /\ dropper = [s \in Subs |-> "no"]
  /\ consumer = [s \in Subs |-> "none"]
  /\ pc = [s \in Subs |-> "none"]
  /\ cursor = [s \in Subs |-> 0]
  /\ todo = [s \in Subs |-> <<>>]
  /\ inHand = [s \in Subs |-> NoEvent]
  /\ start = [s \in Subs |-> 0] /\ seen = [s \in Subs |-> <<>>]
  /\ lost = {} /\ skipped = [s \in Subs |-> {}]

-------------------------------------------------------------------------------
(* broadcastEvent offers e to the subscribers one after the other. A full one  *)
(* is muted and reported; one whose done is closed may be passed over; sending *)
(* to one whose outgoing is closed panics, and the rest get nothing.           *)
Offered == subs \ muted
Reached(served) ==
  served = Offered \/ \E s \in Offered \ served : clean[s] = "closed"

Broadcast(e) ==
  \E served \in SUBSET Offered, passed \in SUBSET {s \in Offered : Done(s)} :
    LET able == {s \in served : ~Full(outgoing[s], BufferSize) /\ clean[s] # "closed"}
        slow == {s \in served : Full(outgoing[s], BufferSize) /\ ~Done(s)}
    IN
    /\ Reached(served)
    /\ outgoing' = [s \in Subs |-> IF s \in able \ passed THEN Append(outgoing[s], e)
                                                           ELSE outgoing[s]]
    /\ dropper' = [s \in Subs |-> IF s \in slow THEN "started" ELSE dropper[s]]
    /\ lost' = IF served = Offered THEN lost ELSE lost \cup {e}
    /\ muted' = muted \cup slow

(* Persist panics for a sync (or info) event once it has numbered it; a label  *)
(* event is kept, but Preserialize does not know it.                           *)
AddEvent(k) ==
  /\ seq < MaxEvents
  /\ seq' = seq + 1
  /\ buf' = IF k = "sync" THEN buf ELSE Append(buf, seq')
  /\ labels' = IF k = "label" THEN labels \cup {seq'} ELSE labels
  /\ IF k = "commit" THEN Broadcast(seq')
                     ELSE UNCHANGED <<outgoing, dropper, muted, lost>>
  /\ UNCHANGED <<subs, out, outClosed, clean, consumer, resuming, start, seen, skipped>>

(* The goroutine of a cut-off subscriber: an error frame within five seconds,  *)
(* holding sub.lk; then cleanup.                                               *)
ReportOverflow(s) ==
  /\ dropper[s] = "started"
  /\ clean[s] \in {"no", "closed"}
  /\ dropper' = [dropper EXCEPT ![s] = IF clean[s] = "no" THEN "sending" ELSE "sent"]
  /\ UNCHANGED <<persister, subs, muted, channels, clean, consumer, resuming, ghosts>>

SendErrorFrame(s) ==
  /\ dropper[s] = "sending"
  /\ \/ /\ ~Full(outgoing[s], BufferSize)
        /\ outgoing' = [outgoing EXCEPT ![s] = Append(@, ErrorFrame)]
     \/ UNCHANGED outgoing
  /\ dropper' = [dropper EXCEPT ![s] = "sent"]
  /\ UNCHANGED <<persister, subs, muted, out, outClosed, clean, consumer, resuming, ghosts>>

(* sub.cleanup, once, by the dropper or by the consumer: under sub.lk it       *)
(* closes done, then removes the subscriber and closes outgoing.               *)
Cleanup(s) ==
  /\ clean[s] = "no"
  /\ dropper[s] = "sent" \/ (consumer[s] \in {"ended", "left"} /\ dropper[s] # "sending")
  /\ clean' = [clean EXCEPT ![s] = "closing"]
  /\ UNCHANGED <<persister, subs, muted, channels, dropper, consumer, resuming, ghosts>>

(* Mutant: outgoing is left open.                                              *)
LeaveOpen(s) ==
  /\ clean[s] = "closing"
  /\ subs' = subs \ {s}
  /\ UNCHANGED <<persister, muted, channels, clean, dropper, consumer, resuming, ghosts>>

CloseOutgoing(s) ==
  /\ clean[s] = "closing"
  /\ subs' = subs \ {s}
  /\ clean' = [clean EXCEPT ![s] = "closed"]
  /\ UNCHANGED <<persister, muted, channels, dropper, consumer, resuming, ghosts>>

-------------------------------------------------------------------------------
(* Subscribe without a cursor.                                                 *)
Subscribe(s) ==
  /\ consumer[s] = "none"
  /\ consumer' = [consumer EXCEPT ![s] = "reading"]
  /\ subs' = subs \cup {s}
  /\ start' = [start EXCEPT ![s] = seq]
  /\ UNCHANGED <<persister, muted, channels, clean, dropper, resuming, seen, lost, skipped>>

(* Subscribe with one, which may be ahead of a persister that was restarted.   *)
SubscribeSince(s, n) ==
  /\ consumer[s] = "none"
  /\ consumer' = [consumer EXCEPT ![s] = "reading"]
  /\ pc' = [pc EXCEPT ![s] = "start"]
  /\ cursor' = [cursor EXCEPT ![s] = n]
  /\ start' = [start EXCEPT ![s] = n]
  /\ UNCHANGED <<persister, subs, muted, channels, clean, dropper, todo, inHand, seen, lost,
                 skipped>>

Goto(s, point) == pc' = [pc EXCEPT ![s] = point]

(* The goroutine returns.                                                      *)
Returns(s) ==
  /\ Goto(s, "end")
  /\ cursor' = [cursor EXCEPT ![s] = 0]
  /\ todo' = [todo EXCEPT ![s] = <<>>]
  /\ inHand' = [inHand EXCEPT ![s] = NoEvent]

(* Playback takes the slice of buf after the cursor: event n is buf[n - 1],    *)
(* "abusing the fact that buf[0].seq is currently always 1". Once numbers were *)
(* given to events that are not kept, later ones are at places before theirs.  *)
PassedOver(s) ==
  {e \in Events : cursor[s] < e /\ \E k \in DOMAIN buf : k <= cursor[s] /\ buf[k] = e}

StartPlayback(s) ==
  /\ \/ pc[s] = "start" /\ Goto(s, "play") /\ UNCHANGED cursor
     \/ pc[s] = "restart" /\ Goto(s, "replay") /\ cursor' = [cursor EXCEPT ![s] = 0]
  /\ todo' = [todo EXCEPT ![s] = SubSeq(buf, cursor[s] + 1, Len(buf))]
  /\ skipped' = [skipped EXCEPT ![s] = @ \cup PassedOver(s)]
  /\ UNCHANGED <<persister, subs, muted, channels, clean, dropper, consumer, inHand,
                 start, seen, lost>>

(* ErrPlaybackShutdown, which a callback may return once done is closed.       *)
StopPlayback(s) ==
  /\ pc[s] \in {"play", "replay"} /\ todo[s] # <<>>
  /\ Done(s)
  /\ pc[s] = "replay" => Sequence(Head(todo[s])) <= Sequence(inHand[s])
  /\ outClosed' = outClosed \cup {s}
  /\ subs' = IF pc[s] = "replay" THEN subs \ {s} ELSE subs
  /\ Returns(s)
  /\ UNCHANGED <<persister, muted, outgoing, out, clean, dropper, consumer, ghosts>>

(* Mutant: the cursor follows events without a sequence number too.            *)
PlayAny(s) ==
  /\ pc[s] = "play"
  /\ IF todo[s] = <<>> THEN Goto(s, "add") /\ UNCHANGED <<out, todo, cursor>>
     ELSE LET e == Head(todo[s]) IN
          /\ Send(s, e)
          /\ todo' = [todo EXCEPT ![s] = Tail(@)]
          /\ cursor' = [cursor EXCEPT ![s] = Sequence(e)]
          /\ UNCHANGED pc
  /\ UNCHANGED <<persister, subs, muted, outgoing, outClosed, clean, dropper, consumer,
                 inHand, ghosts>>

(* The first playback.                                                         *)
Play(s) ==
  /\ pc[s] = "play"
  /\ IF todo[s] = <<>> THEN Goto(s, "add") /\ UNCHANGED <<out, todo, cursor>>
     ELSE LET e == Head(todo[s]) IN
          /\ Send(s, e)
          /\ todo' = [todo EXCEPT ![s] = Tail(@)]
          /\ cursor' = IF Sequence(e) > 0 THEN [cursor EXCEPT ![s] = Sequence(e)] ELSE cursor
          /\ UNCHANGED pc
  /\ UNCHANGED <<persister, subs, muted, outgoing, outClosed, clean, dropper, consumer,
                 inHand, ghosts>>

AddSubscriber(s) ==
  /\ pc[s] = "add"
  /\ subs' = subs \cup {s}
  /\ Goto(s, "first")
  /\ UNCHANGED <<persister, muted, channels, clean, dropper, consumer, cursor, todo,
                 inHand, ghosts>>

(* Mutant: the first live event is copied without a second playback.           *)
TakeAndCopy(s) ==
  /\ pc[s] \in {"first", "copy"}
  /\ outgoing[s] # <<>>
  /\ inHand' = [inHand EXCEPT ![s] = Head(outgoing[s])]
  /\ outgoing' = [outgoing EXCEPT ![s] = Tail(@)]
  /\ Goto(s, "send")
  /\ UNCHANGED <<persister, subs, muted, out, outClosed, clean, dropper, consumer, cursor,
                 todo, ghosts>>

(* A receive from outgoing: the first live event, or one of the copying loop.  *)
TakeLive(s) ==
  /\ pc[s] \in {"first", "copy"}
  /\ outgoing[s] # <<>>
  /\ inHand' = [inHand EXCEPT ![s] = Head(outgoing[s])]
  /\ outgoing' = [outgoing EXCEPT ![s] = Tail(@)]
  /\ Goto(s, IF pc[s] = "first" THEN "restart" ELSE "send")
  /\ UNCHANGED <<persister, subs, muted, out, outClosed, clean, dropper, consumer, cursor,
                 todo, ghosts>>

(* outgoing is closed: a nil event, or the end of the loop, out staying open.  *)
TakeNone(s) ==
  /\ pc[s] \in {"first", "copy"}
  /\ Dry(s)
  /\ IF pc[s] = "first" THEN Goto(s, "restart") /\ UNCHANGED <<cursor, todo, inHand>>
                        ELSE Returns(s)
  /\ UNCHANGED <<persister, subs, muted, channels, clean, dropper, consumer, ghosts>>

(* Mutant: the second playback goes on to the end of the log.                  *)
ReplayAll(s) ==
  /\ pc[s] = "replay"
  /\ IF todo[s] = <<>>
       THEN Goto(s, "copy") /\ UNCHANGED <<out, todo>>
       ELSE /\ Send(s, Head(todo[s]))
            /\ todo' = [todo EXCEPT ![s] = Tail(@)]
            /\ UNCHANGED pc
  /\ UNCHANGED <<persister, subs, muted, outgoing, outClosed, clean, dropper, consumer,
                 cursor, inHand, ghosts>>

(* The second playback, up to the first live event.                            *)
Replay(s) ==
  /\ pc[s] = "replay"
  /\ IF todo[s] = <<>> \/ Sequence(Head(todo[s])) > Sequence(inHand[s])
       THEN /\ Goto(s, "copy")
            /\ todo' = [todo EXCEPT ![s] = <<>>]
            /\ inHand' = [inHand EXCEPT ![s] = NoEvent]
            /\ UNCHANGED out
       ELSE /\ Send(s, Head(todo[s]))
            /\ todo' = [todo EXCEPT ![s] = Tail(@)]
            /\ UNCHANGED <<pc, inHand>>
  /\ UNCHANGED <<persister, subs, muted, outgoing, outClosed, clean, dropper, consumer,
                 cursor, ghosts>>

(* The copying loop passes its event on, or sees done and gives up.            *)
SendLive(s) ==
  /\ pc[s] = "send"
  /\ \/ /\ Send(s, inHand[s])
        /\ Goto(s, "copy")
        /\ inHand' = [inHand EXCEPT ![s] = NoEvent]
        /\ UNCHANGED <<subs, cursor, todo>>
     \/ Done(s) /\ subs' = subs \ {s} /\ Returns(s) /\ UNCHANGED out
  /\ UNCHANGED <<persister, muted, outgoing, outClosed, clean, dropper, consumer, ghosts>>

-------------------------------------------------------------------------------
(* The consumer ranges over its channel and calls cleanup when it is done.     *)
Live(s) == pc[s] = "none"

Receive(s) ==
  LET mine == IF Live(s) THEN outgoing[s] ELSE out[s] IN
  /\ consumer[s] = "reading"
  /\ mine # <<>>
  /\ seen' = [seen EXCEPT ![s] = Append(@, Head(mine))]
  /\ IF Live(s) THEN outgoing' = [outgoing EXCEPT ![s] = Tail(@)] /\ UNCHANGED out
                ELSE out' = [out EXCEPT ![s] = Tail(@)] /\ UNCHANGED outgoing
  /\ UNCHANGED <<persister, subs, muted, outClosed, clean, dropper, consumer, resuming,
                 start, lost, skipped>>

EndOfStream(s) ==
  /\ consumer[s] = "reading"
  /\ IF Live(s) THEN Dry(s) ELSE out[s] = <<>> /\ s \in outClosed
  /\ consumer' = [consumer EXCEPT ![s] = "ended"]
  /\ seen' = [seen EXCEPT ![s] = <<>>]
  /\ UNCHANGED <<persister, subs, muted, channels, clean, dropper, resuming, start, lost,
                 skipped>>

Leave(s) ==
  /\ consumer[s] = "reading"
  /\ consumer' = [consumer EXCEPT ![s] = "left"]
  /\ seen' = [seen EXCEPT ![s] = <<>>]
  /\ UNCHANGED <<persister, subs, muted, channels, clean, dropper, resuming, start, lost,
                 skipped>>

Deliver(s) ==
  \/ ReportOverflow(s) \/ SendErrorFrame(s)
  \/ Cleanup(s) \/ CloseOutgoing(s)
  \/ StartPlayback(s) \/ StopPlayback(s) \/ Play(s) \/ AddSubscriber(s)
  \/ TakeLive(s) \/ TakeNone(s) \/ Replay(s) \/ SendLive(s)
  \/ Receive(s) \/ EndOfStream(s)

Next ==
  \/ \E k \in Kinds : AddEvent(k)
  \/ \E s \in Subs : \/ Subscribe(s) \/ Leave(s) \/ Deliver(s)
                     \/ s \in Resuming /\ \E n \in 0 .. MaxEvents : SubscribeSince(s, n)

Spec == Init /\ [][Next]_vars

(* Goroutines that can run do, and a consumer that stays reads on; nothing is  *)
(* asked of the resumed ones, which do not hold up the others.                 *)
Fairness ==
  \A s \in Subs \ Resuming :
    /\ WF_vars(ReportOverflow(s)) /\ WF_vars(SendErrorFrame(s))
    /\ WF_vars(Cleanup(s)) /\ WF_vars(CloseOutgoing(s))
    /\ WF_vars(Receive(s) \/ EndOfStream(s))
FairSpec == Spec /\ Fairness

-------------------------------------------------------------------------------
(* Every variable has its type, and no channel holds more than its size.       *)
TypeOK ==
  /\ seq \in 0 .. MaxEvents /\ labels \subseteq Events /\ lost \subseteq Events
  /\ subs \subseteq Subs /\ muted \subseteq Subs /\ outClosed \subseteq Subs
  /\ clean \in [Subs -> {"no", "closing", "closed"}]
  /\ skipped \in [Subs -> SUBSET Events]
  /\ dropper \in [Subs -> {"no", "started", "sending", "sent"}]
  /\ consumer \in [Subs -> {"none", "reading", "ended", "left"}]
  /\ cursor \in [Subs -> 0 .. MaxEvents]
  /\ \A s \in Subs : Len(outgoing[s]) <= BufferSize /\ Len(out[s]) <= CrossoverSize

(* A consumer gets repo events in the order of their numbers and none twice,   *)
(* across the two playbacks and the hand-over to the live events, and nothing  *)
(* after the frame that says ConsumerTooSlow.                                  *)
InOrder ==
  \A s \in Subs : \A i, j \in DOMAIN seen[s] :
    i < j => /\ {seen[s][i], seen[s][j]} \subseteq Events \ labels => seen[s][i] < seen[s][j]
             /\ seen[s][i] # ErrorFrame

(* Once a consumer has got an event it has got every repo event that is kept   *)
(* between where it started and that one, over both playbacks and the          *)
(* hand-over, unless its broadcast panicked or a playback passed over it.      *)
Kept == {buf[k] : k \in DOMAIN buf}
Missing(s) ==
  {e \in Kept \ (labels \cup lost) :
     /\ start[s] < e
     /\ \E i \in DOMAIN seen[s] : seen[s][i] \notin labels /\ e <= seen[s][i]
     /\ \A j \in DOMAIN seen[s] : seen[s][j] # e}

NoGap == \A s \in Subs : Missing(s) \subseteq skipped[s]

(* A consumer of live events that was cut off comes to the end of its channel, *)
(* even if the error frame could not be sent.                                  *)
CutOffEnds ==
  \A s \in Subs \ Resuming : s \in muted ~> consumer[s] # "reading"

===============================================================================
