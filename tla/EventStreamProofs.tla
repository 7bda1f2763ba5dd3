--------------------------- MODULE EventStreamProofs ---------------------------
(* Order and completeness of what subscribers of EventStream receive, for any  *)
(* number of subscriptions, events and cursors and any channel sizes.          *)
EXTENDS EventStream, SequenceTheorems, TLAPS

Frames == Events \cup {ErrorFrame}
Points == {"none", "start", "play", "add", "first", "restart", "replay", "copy", "send", "end"}

(* The events that have a sequence number, and what a consumer has received or *)
(* has waiting for it in the channel a resumed consumer reads.                 *)
IsRepo(e) == e \in Events \ labels
Got(s) == Range(seen[s]) \cup Range(out[s])

(* Repo events of X come before those of Y, and X has no error frame if there  *)
(* is anything in Y.                                                           *)
Before(X, Y) == \A x \in X, y \in Y : x # ErrorFrame /\ (IsRepo(x) /\ IsRepo(y) => x < y)
UpTo(X, n) == \A x \in X : IsRepo(x) => x <= n
After(X, n) == \A x \in X : IsRepo(x) => n < x
Sorted(q) ==
  \A i, j \in DOMAIN q : i < j => q[i] # ErrorFrame /\ (IsRepo(q[i]) /\ IsRepo(q[j]) => q[i] < q[j])

(* The types, in two parts: what is a sequence, and the rest.                  *)
PlainTypes ==
  /\ seq \in 0 .. MaxEvents /\ labels \subseteq Events /\ lost \subseteq Events
  /\ subs \subseteq Subs /\ muted \subseteq Subs /\ outClosed \subseteq Subs
  /\ clean \in [Subs -> {"no", "closing", "closed"}]
  /\ dropper \in [Subs -> {"no", "started", "sending", "sent"}]
  /\ consumer \in [Subs -> {"none", "reading", "ended", "left"}]
  /\ cursor \in [Subs -> 0 .. MaxEvents]
  /\ pc \in [Subs -> Points] /\ inHand \in [Subs -> Frames \cup {NoEvent}]
  /\ start \in [Subs -> 0 .. MaxEvents] /\ skipped \in [Subs -> SUBSET Events]
SeqTypes ==
  /\ buf \in Seq(Events) /\ todo \in [Subs -> Seq(Events)]
  /\ outgoing \in [Subs -> Seq(Frames)] /\ out \in [Subs -> Seq(Frames)]
  /\ seen \in [Subs -> Seq(Frames)]
  /\ \A s \in Subs : Len(outgoing[s]) <= BufferSize /\ Len(out[s]) <= CrossoverSize
Types == PlainTypes /\ SeqTypes

(* The log numbers its events upwards; all there is was numbered.              *)
LogInv ==
  /\ Len(buf) <= seq
  /\ \A i \in DOMAIN buf : i <= buf[i] /\ buf[i] <= seq
  /\ \A i, j \in DOMAIN buf : i < j => buf[i] < buf[j]
  /\ \A e \in labels \cup lost : e <= seq
Known(s) ==
  /\ \A x \in Got(s) \cup Range(todo[s]) : x <= seq
  /\ \A x \in Range(outgoing[s]) \cup {inHand[s]} : x <= seq /\ x \notin labels

(* Who is cut off, and when there may be an error frame.                       *)
CutOK(s) ==
  /\ dropper[s] # "no" => s \in muted
  /\ dropper[s] = "sending" => clean[s] = "no"
  /\ clean[s] # "no" => dropper[s] = "sent" \/ consumer[s] \in {"ended", "left"}
  /\ ErrorFrame \in Range(outgoing[s]) \cup Got(s) \cup {inHand[s]} => dropper[s] = "sent"
  /\ pc[s] \in {"start", "play", "add", "first", "restart", "replay"} => ErrorFrame \notin Got(s)

(* Where a subscription is, and what it has by then.                           *)
PhaseOK(s) ==
  /\ consumer[s] = "none" =>
       /\ pc[s] = "none" /\ s \notin subs /\ clean[s] = "no" /\ dropper[s] = "no"
       /\ outgoing[s] = <<>> /\ seen[s] = <<>>
  /\ consumer[s] \in {"ended", "left"} => seen[s] = <<>>
  /\ pc[s] = "none" => out[s] = <<>>
  /\ pc[s] = "start" => Got(s) = {}
  /\ pc[s] \in {"start", "play", "add"} => s \notin subs /\ outgoing[s] = <<>> /\ dropper[s] = "no"
  /\ pc[s] \notin {"restart", "replay", "send"} => inHand[s] = NoEvent
  /\ pc[s] \in {"restart", "replay"} /\ inHand[s] = NoEvent => Dry(s)
  /\ pc[s] = "send" => inHand[s] # NoEvent

OrderOK(s) ==
  /\ Sorted(seen[s]) /\ Sorted(out[s]) /\ Sorted(outgoing[s]) /\ Sorted(todo[s])
  /\ Before(Range(seen[s]), Range(out[s]))
  /\ pc[s] \in {"none", "first", "restart", "replay", "copy", "send"} => Before(Got(s), Range(outgoing[s]))
  /\ pc[s] \in {"play", "add", "first", "restart"} => UpTo(Got(s), cursor[s])
  /\ pc[s] = "play" => After(Range(todo[s]), cursor[s])
  /\ pc[s] \in {"restart", "send"} => Before(Got(s), {inHand[s]})
  /\ pc[s] = "replay" => /\ Before(Got(s), Range(todo[s]))
                         /\ IsRepo(inHand[s]) => UpTo(Got(s), inHand[s])
  /\ pc[s] \in {"restart", "replay", "send"} => Before({inHand[s]}, Range(outgoing[s]))

SubOK(s) == Known(s) /\ CutOK(s) /\ PhaseOK(s) /\ OrderOK(s)
OInv == Types /\ LogInv /\ \A s \in Subs : SubOK(s)
-------------------------------------------------------------------------------
(* A stretch of the log: it rises, and nothing that is kept is left out of it. *)
Run(q) ==
  /\ \A i, j \in DOMAIN q : i < j => q[i] < q[j]
  /\ \A e \in Kept, i \in DOMAIN q : q[1] <= e /\ e <= q[i] => e \in Range(q)

(* What s is to get; from x on, nothing of it is missing from the live events  *)
(* that s is offered.                                                          *)
Wanted(s, e) == IsRepo(e) /\ e \in Kept /\ e \notin skipped[s] /\ start[s] < e
Offers(s, e) == s \notin muted \/ \E y \in Range(outgoing[s]) : e <= y
Rest(s, x) ==
  \A e \in Events \ lost : Wanted(s, e) /\ x < e /\ Offers(s, e) => e \in Range(outgoing[s])
GotTo(s, n) == \A e \in Events : Wanted(s, e) /\ e <= n => e \in Got(s)
GotBelow(s, n) == \A e \in Events : Wanted(s, e) /\ e < n => e \in Got(s)
Covers(s, X, n) == \A e \in Events : Wanted(s, e) /\ e <= n => \E x \in X : e <= x

(* What was received has no hole; where the cursor and the playbacks are in    *)
(* the log; what the event in hand and the live channel still promise.         *)
NoHole(s) ==
  \A e \in Events \ lost, x \in Got(s) : Wanted(s, e) /\ IsRepo(x) /\ e <= x => e \in Got(s)
CursorOK(s) ==
  /\ pc[s] = "start" => cursor[s] = start[s]
  /\ pc[s] \in {"play", "add", "first", "restart"} =>
       GotTo(s, cursor[s]) /\ (cursor[s] = start[s] \/ cursor[s] <= seq)
PlaybackOK(s) ==
  /\ pc[s] \in {"play", "replay"} => Run(todo[s])
  /\ pc[s] = "play" /\ todo[s] # <<>> => GotBelow(s, Head(todo[s]))
HandOK(s) ==
  /\ pc[s] \in {"restart", "replay", "send"} /\ IsRepo(inHand[s]) => Rest(s, inHand[s])
  /\ pc[s] = "replay" /\ IsRepo(inHand[s]) =>
       /\ todo[s] = <<>> => GotTo(s, inHand[s])
       /\ todo[s] # <<>> => /\ GotBelow(s, Head(todo[s]))
                            /\ Covers(s, Range(todo[s]), inHand[s])
  /\ pc[s] = "send" /\ IsRepo(inHand[s]) =>
       \A e \in Events \ lost : Wanted(s, e) /\ e < inHand[s] => e \in Got(s)
LiveOK(s) ==
  /\ pc[s] \in {"none", "first", "restart", "replay", "copy", "send"} => s \in subs \cup muted
  /\ pc[s] = "first" => \A x \in Range(outgoing[s]) : IsRepo(x) => Rest(s, x)
  /\ pc[s] \in {"none", "copy"} =>
       \A e \in Events \ lost : Wanted(s, e) /\ Offers(s, e) => e \in Got(s) \cup Range(outgoing[s])
CoverOK(s) == NoHole(s) /\ CursorOK(s) /\ PlaybackOK(s) /\ HandOK(s) /\ LiveOK(s)

CInv == \A s \in Subs : consumer[s] = "reading" => CoverOK(s)
-------------------------------------------------------------------------------
(* What a sequence has after Append and Tail.                                  *)
LEMMA RangeAppend ==
  ASSUME NEW S, NEW q \in Seq(S), NEW e \in S
  PROVE  Range(Append(q, e)) = Range(q) \cup {e}
<1>1. /\ DOMAIN q = 1 .. Len(q) /\ DOMAIN Append(q, e) = 1 .. Len(q) + 1 /\ Len(q) \in Nat
      /\ \A i \in 1 .. Len(q) : Append(q, e)[i] = q[i]
      /\ Append(q, e)[Len(q) + 1] = e
  BY AppendProperties, LenProperties
<1>2. ASSUME NEW x \in Range(Append(q, e)) PROVE x \in Range(q) \cup {e}
  BY <1>1, <1>2 DEF Range
<1>3. ASSUME NEW x \in Range(q) \cup {e} PROVE x \in Range(Append(q, e))
  BY <1>1, <1>3 DEF Range
<1> QED
  BY <1>2, <1>3

(* The elements of a sequence are its head and those of its tail.              *)
LEMMA RangeTail ==
  ASSUME NEW S, NEW q \in Seq(S), q # <<>>
  PROVE  /\ Range(q) = Range(Tail(q)) \cup {Head(q)}
         /\ Head(q) = q[1] /\ Head(q) \in S /\ Len(q) \in Nat \ {0}
<1>1. /\ DOMAIN q = 1 .. Len(q) /\ Len(q) \in Nat \ {0}
      /\ Tail(q) \in Seq(S) /\ Len(Tail(q)) = Len(q) - 1 /\ Head(q) \in S
      /\ \A i \in 1 .. Len(Tail(q)) : Tail(q)[i] = q[i + 1]
  BY HeadTailProperties, LenProperties, EmptySeq
<1>2. DOMAIN Tail(q) = 1 .. Len(q) - 1
  BY <1>1, LenProperties
<1>3. Head(q) = q[1]
  OBVIOUS
<1>4. ASSUME NEW x \in Range(q) PROVE x \in Range(Tail(q)) \cup {Head(q)}
  <2>1. PICK i \in 1 .. Len(q) : x = q[i]
    BY <1>1, <1>4 DEF Range
  <2>2. i # 1 => i - 1 \in 1 .. Len(q) - 1 /\ Tail(q)[i - 1] = q[i]
    BY <1>1, <2>1
  <2> QED
    BY <1>2, <1>3, <2>1, <2>2 DEF Range
<1>5. ASSUME NEW x \in Range(Tail(q)) PROVE x \in Range(q)
  <2>1. PICK i \in 1 .. Len(q) - 1 : x = Tail(q)[i]
    BY <1>2, <1>5 DEF Range
  <2>2. i + 1 \in 1 .. Len(q) /\ x = q[i + 1]
    BY <1>1, <2>1
  <2> QED
    BY <1>1, <2>2 DEF Range
<1>6. Head(q) \in Range(q)
  BY <1>1, <1>3 DEF Range
<1> QED
  BY <1>1, <1>3, <1>4, <1>5, <1>6

(* An empty sequence has none; the head of another is one.                     *)
LEMMA RangeEmpty ==
  /\ Range(<<>>) = {}
  /\ \A S : \A q \in Seq(S) : q # <<>> => Head(q) \in Range(q)
<1>1. Range(<<>>) = {}
  BY DEF Range
<1> QED
  BY <1>1, RangeTail

(* A sequence stays in order when what is appended comes after all of it.      *)
LEMMA SortedAppend ==
  ASSUME NEW S, NEW q \in Seq(S), NEW e \in S, Sorted(q), Before(Range(q), {e})
  PROVE  Sorted(Append(q, e))
<1>1. /\ DOMAIN q = 1 .. Len(q) /\ DOMAIN Append(q, e) = 1 .. Len(q) + 1 /\ Len(q) \in Nat
      /\ \A i \in 1 .. Len(q) : Append(q, e)[i] = q[i]
      /\ Append(q, e)[Len(q) + 1] = e
  BY AppendProperties, LenProperties
<1>2. \A i \in 1 .. Len(q) : q[i] # ErrorFrame /\ (IsRepo(q[i]) /\ IsRepo(e) => q[i] < e)
  BY <1>1 DEF Before, Range
<1> QED
  BY <1>1, <1>2 DEF Sorted

(* A sequence in order stays so without its head, which comes before the rest. *)
LEMMA SortedTail ==
  ASSUME NEW S, NEW q \in Seq(S), q # <<>>, Sorted(q)
  PROVE  Sorted(Tail(q)) /\ Before({Head(q)}, Range(Tail(q)))
<1>1. /\ DOMAIN q = 1 .. Len(q) /\ Len(q) \in Nat \ {0}
      /\ Tail(q) \in Seq(S) /\ Len(Tail(q)) = Len(q) - 1 /\ Head(q) = q[1]
      /\ \A i \in 1 .. Len(Tail(q)) : Tail(q)[i] = q[i + 1]
  BY HeadTailProperties, LenProperties, RangeTail
<1>2. DOMAIN Tail(q) = 1 .. Len(q) - 1
  BY <1>1, LenProperties
<1>3. Sorted(Tail(q))
  BY <1>1, <1>2 DEF Sorted
<1>4. \A i \in 1 .. Len(q) - 1 : i + 1 \in 1 .. Len(q) /\ 1 \in 1 .. Len(q) /\ 1 < i + 1
  BY <1>1
<1>5. Before({Head(q)}, Range(Tail(q)))
  BY <1>1, <1>2, <1>4 DEF Before, Range, Sorted
<1> QED
  BY <1>3, <1>5

(* The tail of a stretch of the log is one; nothing is kept before its head    *)
(* that comes after the head before.                                           *)
LEMMA RunTail ==
  ASSUME NEW q \in Seq(Events), q # <<>>, Run(q), Kept \subseteq Events
  PROVE  /\ Run(Tail(q))
         /\ Tail(q) # <<>> => /\ Head(q) < Head(Tail(q))
                             /\ \A e \in Kept : e < Head(Tail(q)) => e <= Head(q)
<1>1. /\ DOMAIN q = 1 .. Len(q) /\ Len(q) \in Nat \ {0} /\ Head(q) = q[1] /\ q[1] \in Int
      /\ Tail(q) \in Seq(Events) /\ Len(Tail(q)) = Len(q) - 1
      /\ \A i \in 1 .. Len(Tail(q)) : Tail(q)[i] = q[i + 1]
      /\ \A i \in 1 .. Len(q) : q[i] \in Int
  <2>1. \A i \in 1 .. Len(q) : q[i] \in Events
    BY ElementOfSeq
  <2>2. Events \subseteq Int
    BY SizesAssumption DEF Events
  <2> QED
    BY <2>1, <2>2, HeadTailProperties, LenProperties, RangeTail
<1>2. DOMAIN Tail(q) = 1 .. Len(q) - 1
  BY <1>1, LenProperties
<1>3. \A i, j \in DOMAIN q : i < j => q[i] < q[j]
  BY DEF Run
<1>4. \A e \in Kept : e \in Int
  BY SizesAssumption DEF Events
<1>5. ASSUME NEW e \in Kept, NEW i \in 1 .. Len(q) - 1, q[2] <= e, e <= q[i + 1]
      PROVE  e \in Range(Tail(q))
  <2>1. 1 \in DOMAIN q /\ 2 \in DOMAIN q /\ i + 1 \in DOMAIN q /\ e \in Int
    BY <1>1, <1>4, <1>5
  <2>2. q[1] < q[2] /\ q[2] \in Int
    BY <1>1, <1>3, <2>1
  <2>3. e \in Range(q)
    BY <1>1, <1>5, <2>1, <2>2 DEF Run
  <2>4. PICK j \in 1 .. Len(q) : e = q[j]
    BY <1>1, <2>3 DEF Range
  <2>5. j # 1
    BY <1>1, <1>5, <2>1, <2>2, <2>4
  <2>6. j - 1 \in 1 .. Len(q) - 1 /\ Tail(q)[j - 1] = q[j]
    BY <1>1, <2>4, <2>5
  <2> QED
    BY <1>2, <2>4, <2>6 DEF Range
<1>6. Run(Tail(q))
  <2>1. \A i, j \in DOMAIN Tail(q) : i < j => Tail(q)[i] < Tail(q)[j]
    <3>1. \A i \in 1 .. Len(q) - 1 : i + 1 \in DOMAIN q /\ Tail(q)[i] = q[i + 1]
      BY <1>1
    <3>2. \A i, j \in 1 .. Len(q) - 1 : i < j => i + 1 < j + 1
      BY <1>1
    <3> QED
      BY <1>2, <1>3, <3>1, <3>2
  <2>2. \A i \in DOMAIN Tail(q) : Tail(q)[i] = q[i + 1] /\ Tail(q)[1] = q[2] /\ i \in 1 .. Len(q) - 1
    BY <1>1, <1>2
  <2> QED
    BY <1>5, <2>1, <2>2 DEF Run
<1>7. ASSUME Tail(q) # <<>>
      PROVE  Head(q) < Head(Tail(q)) /\ \A e \in Kept : e < Head(Tail(q)) => e <= Head(q)
  <2>1. Len(q) - 1 \in Nat \ {0} /\ Head(Tail(q)) = q[2]
    <3>1. Head(Tail(q)) = Tail(q)[1] /\ Len(Tail(q)) \in Nat \ {0}
      BY <1>1, <1>7, RangeTail
    <3> QED
      BY <1>1, <3>1
  <2>2. 1 \in DOMAIN q /\ 2 \in DOMAIN q /\ q[1] < q[2] /\ q[2] \in Int
    BY <1>1, <1>3, <2>1
  <2>3. ASSUME NEW e \in Kept, e < q[2], ~(e <= q[1]) PROVE FALSE
    <3>1. e \in Int
      BY <1>4
    <3>2. q[1] <= e /\ e <= q[2]
      BY <1>1, <2>2, <2>3, <3>1
    <3>3. e \in Range(q)
      BY <2>2, <3>2 DEF Run
    <3>4. PICK j \in 1 .. Len(q) : e = q[j]
      BY <1>1, <3>3 DEF Range
    <3>5. j = 1 \/ j = 2 \/ 2 < j
      BY <1>1
    <3>6. 2 < j => q[2] < q[j]
      BY <1>1, <1>3, <2>2
    <3> QED
      BY <1>1, <2>2, <2>3, <3>1, <3>4, <3>5, <3>6
  <2> QED
    BY <1>1, <2>1, <2>2, <2>3
<1> QED
  BY <1>6, <1>7

-------------------------------------------------------------------------------
(* A step of a subscription, as opposed to an event being added.               *)
SubStep(s) ==
  Subscribe(s) \/ Leave(s) \/ Deliver(s) \/ \E n \in 0 .. MaxEvents : SubscribeSince(s, n)

(* It leaves the log and the other subscriptions as they are.                  *)
LEMMA SubFrame ==
  ASSUME Types, NEW s \in Subs, SubStep(s)
  PROVE  /\ UNCHANGED <<seq, buf, labels, lost, muted>>
         /\ \A t \in Subs \ {s} :
              /\ pc'[t] = pc[t] /\ cursor'[t] = cursor[t] /\ todo'[t] = todo[t]
              /\ inHand'[t] = inHand[t] /\ start'[t] = start[t] /\ seen'[t] = seen[t]
              /\ outgoing'[t] = outgoing[t] /\ out'[t] = out[t]
              /\ clean'[t] = clean[t] /\ dropper'[t] = dropper[t] /\ consumer'[t] = consumer[t]
              /\ skipped'[t] = skipped[t]
              /\ t \in subs' <=> t \in subs
<1> USE DEF Types, PlainTypes, SeqTypes, Goto, Returns, Send, persister, channels, resuming,
    ghosts
<1>1. CASE Subscribe(s) \/ Leave(s) \/ \E n \in 0 .. MaxEvents : SubscribeSince(s, n)
  BY <1>1 DEF Subscribe, Leave, SubscribeSince
<1>2. CASE ReportOverflow(s) \/ SendErrorFrame(s) \/ Cleanup(s) \/ CloseOutgoing(s)
  BY <1>2 DEF ReportOverflow, SendErrorFrame, Cleanup, CloseOutgoing
<1>3. CASE StartPlayback(s) \/ StopPlayback(s) \/ AddSubscriber(s)
  BY <1>3 DEF StartPlayback, StopPlayback, AddSubscriber
<1>4. CASE Play(s)
  BY <1>4 DEF Play
<1>5. CASE TakeLive(s) \/ TakeNone(s)
  BY <1>5 DEF TakeLive, TakeNone
<1>6. CASE Replay(s)
  BY <1>6 DEF Replay
<1>7. CASE SendLive(s)
  BY <1>7 DEF SendLive
<1>8. CASE Receive(s) /\ Live(s)
  BY <1>8 DEF Receive
<1>9. CASE Receive(s) /\ ~Live(s)
  BY <1>9 DEF Receive
<1>10. CASE EndOfStream(s)
  BY <1>10 DEF EndOfStream
<1> QED
  BY <1>1, <1>2, <1>3, <1>4, <1>5, <1>6, <1>7, <1>8, <1>9, <1>10 DEF SubStep, Deliver

(* What it does to its sequences.                                              *)
LEMMA SubSequences ==
  ASSUME Types, NEW s \in Subs, SubStep(s), PhaseOK(s)
  PROVE  /\ \/ outgoing' = outgoing
            \/ outgoing[s] # <<>> /\ outgoing' = [outgoing EXCEPT ![s] = Tail(outgoing[s])]
            \/ /\ ~Full(outgoing[s], BufferSize)
               /\ outgoing' = [outgoing EXCEPT ![s] = Append(outgoing[s], ErrorFrame)]
         /\ \/ out' = out
            \/ out[s] # <<>> /\ out' = [out EXCEPT ![s] = Tail(out[s])]
            \/ /\ ~Full(out[s], CrossoverSize)
               /\ \E e \in Frames : out' = [out EXCEPT ![s] = Append(out[s], e)]
         /\ \/ seen' = seen \/ seen' = [seen EXCEPT ![s] = <<>>]
            \/ \E e \in Frames : seen' = [seen EXCEPT ![s] = Append(seen[s], e)]
         /\ \/ todo' = todo \/ todo' = [todo EXCEPT ![s] = <<>>]
            \/ todo[s] # <<>> /\ todo' = [todo EXCEPT ![s] = Tail(todo[s])]
            \/ todo' = [todo EXCEPT ![s] = SubSeq(buf, cursor[s] + 1, Len(buf))]
<1> USE DEF Goto, persister, channels, resuming, ghosts
<1>h. /\ outgoing[s] # <<>> => Head(outgoing[s]) \in Frames
      /\ out[s] # <<>> => Head(out[s]) \in Frames
      /\ todo[s] # <<>> => Head(todo[s]) \in Frames
  BY HeadTailProperties DEF Types, SeqTypes, Frames
<1>1. CASE Subscribe(s) \/ Leave(s) \/ \E n \in 0 .. MaxEvents : SubscribeSince(s, n)
  BY <1>1 DEF Subscribe, Leave, SubscribeSince
<1>2. CASE ReportOverflow(s) \/ SendErrorFrame(s) \/ Cleanup(s) \/ CloseOutgoing(s)
  BY <1>2 DEF ReportOverflow, SendErrorFrame, Cleanup, CloseOutgoing
<1>3. CASE StartPlayback(s) \/ StopPlayback(s) \/ AddSubscriber(s)
  BY <1>3 DEF StartPlayback, StopPlayback, AddSubscriber, Returns
<1>4. CASE Play(s)
  BY <1>4, <1>h DEF Play, Send
<1>5. CASE TakeLive(s) \/ TakeNone(s)
  BY <1>5 DEF TakeLive, TakeNone, Returns
<1>6. CASE Replay(s)
  BY <1>6, <1>h DEF Replay, Send
<1>7. CASE SendLive(s)
  <2>1. pc[s] = "send" => inHand[s] \in Frames
    BY DEF Types, PlainTypes, PhaseOK
  <2> QED
    BY <1>7, <2>1 DEF SendLive, Returns, Send
<1>8. CASE Receive(s) \/ EndOfStream(s)
  BY <1>8, <1>h DEF Receive, EndOfStream
<1> QED
  BY <1>1, <1>2, <1>3, <1>4, <1>5, <1>6, <1>7, <1>8 DEF SubStep, Deliver

(* The sequences keep their types and the channels their sizes.                *)
LEMMA SubSeqTypes ==
  ASSUME Types, NEW s \in Subs, SubStep(s), PhaseOK(s)
  PROVE  SeqTypes'
<1> DEFINE F == Seq(Frames)
<1>t. /\ buf \in Seq(Events) /\ todo \in [Subs -> Seq(Events)]
      /\ outgoing \in [Subs -> F] /\ out \in [Subs -> F] /\ seen \in [Subs -> F]
      /\ \A t \in Subs : Len(outgoing[t]) <= BufferSize /\ Len(out[t]) <= CrossoverSize
  BY DEF Types, SeqTypes
<1>h. \A q \in F : q # <<>> => Tail(q) \in F /\ Len(Tail(q)) <= Len(q)
  BY HeadTailProperties, LenProperties
<1>a. \A q \in F, e \in Frames : Append(q, e) \in F /\ Len(Append(q, e)) = Len(q) + 1
  BY AppendProperties
<1>f. ErrorFrame \in Frames /\ <<>> \in F /\ <<>> \in Seq(Events)
  BY EmptySeq DEF Frames
<1>l. \A q \in F : Len(q) \in Nat
  BY LenProperties
<1>1. buf' \in Seq(Events)
  BY <1>t, SubFrame
<1>2. todo' \in [Subs -> Seq(Events)]
  <2>1. SubSeq(buf, cursor[s] + 1, Len(buf)) \in Seq(Events)
    <3>1. /\ cursor[s] \in Nat /\ Len(buf) \in Nat
          /\ \A i \in cursor[s] + 1 .. Len(buf) : buf[i] \in Events
      BY <1>t, LenProperties, ElementOfSeq, SizesAssumption DEF Types, PlainTypes
    <3> QED
      BY <3>1, SubSeqProperties
  <2>2. todo[s] # <<>> => Tail(todo[s]) \in Seq(Events)
    BY <1>t, HeadTailProperties
  <2>3. PICK q \in Seq(Events) : todo' = todo \/ todo' = [todo EXCEPT ![s] = q]
    BY <1>f, <2>1, <2>2, SubSequences
  <2> QED
    BY <1>t, <2>3
<1>3. outgoing' \in [Subs -> F] /\ \A t \in Subs : Len(outgoing'[t]) <= BufferSize
  <2>1. \/ outgoing' = outgoing
        \/ outgoing[s] # <<>> /\ outgoing' = [outgoing EXCEPT ![s] = Tail(outgoing[s])]
        \/ /\ ~Full(outgoing[s], BufferSize)
           /\ outgoing' = [outgoing EXCEPT ![s] = Append(outgoing[s], ErrorFrame)]
    BY SubSequences
  <2>2. PICK q \in F : /\ outgoing' = outgoing \/ outgoing' = [outgoing EXCEPT ![s] = q]
                       /\ Len(q) <= BufferSize
    <3>1. outgoing[s] \in F /\ Len(outgoing[s]) \in Nat /\ Len(outgoing[s]) <= BufferSize
      BY <1>t, <1>l
    <3>2. CASE outgoing' = outgoing
      BY <3>1, <3>2
    <3>3. CASE outgoing[s] # <<>> /\ outgoing' = [outgoing EXCEPT ![s] = Tail(outgoing[s])]
      <4>1. Tail(outgoing[s]) \in F /\ Len(Tail(outgoing[s])) <= BufferSize
        BY <1>h, <1>l, <3>1, <3>3, SizesAssumption
      <4> QED
        BY <3>3, <4>1
    <3>4. CASE /\ ~Full(outgoing[s], BufferSize)
               /\ outgoing' = [outgoing EXCEPT ![s] = Append(outgoing[s], ErrorFrame)]
      <4>1. /\ Append(outgoing[s], ErrorFrame) \in F
            /\ Len(Append(outgoing[s], ErrorFrame)) <= BufferSize
        BY <1>a, <1>f, <3>1, <3>4, SizesAssumption DEF Full
      <4> QED
        BY <3>4, <4>1
    <3> QED
      BY <2>1, <3>2, <3>3, <3>4
  <2> QED
    BY <1>t, <2>2
<1>4. out' \in [Subs -> F] /\ \A t \in Subs : Len(out'[t]) <= CrossoverSize
  <2>1. \/ out' = out
        \/ out[s] # <<>> /\ out' = [out EXCEPT ![s] = Tail(out[s])]
        \/ /\ ~Full(out[s], CrossoverSize)
           /\ \E e \in Frames : out' = [out EXCEPT ![s] = Append(out[s], e)]
    BY SubSequences
  <2>2. PICK q \in F : /\ out' = out \/ out' = [out EXCEPT ![s] = q]
                       /\ Len(q) <= CrossoverSize
    <3>1. out[s] \in F /\ Len(out[s]) \in Nat /\ Len(out[s]) <= CrossoverSize
      BY <1>t, <1>l
    <3>2. CASE out' = out
      BY <3>1, <3>2
    <3>3. CASE out[s] # <<>> /\ out' = [out EXCEPT ![s] = Tail(out[s])]
      <4>1. Tail(out[s]) \in F /\ Len(Tail(out[s])) <= CrossoverSize
        BY <1>h, <1>l, <3>1, <3>3, SizesAssumption
      <4> QED
        BY <3>3, <4>1
    <3>4. ASSUME ~Full(out[s], CrossoverSize),
                 NEW e \in Frames, out' = [out EXCEPT ![s] = Append(out[s], e)]
          PROVE  \E q \in F : out' = [out EXCEPT ![s] = q] /\ Len(q) <= CrossoverSize
      <4>1. Append(out[s], e) \in F /\ Len(Append(out[s], e)) <= CrossoverSize
        BY <1>a, <3>1, <3>4, SizesAssumption DEF Full
      <4> QED
        BY <3>4, <4>1
    <3> QED
      BY <2>1, <3>2, <3>3, <3>4
  <2> QED
    BY <1>t, <2>2
<1>5. seen' \in [Subs -> F]
  <2>1. PICK q \in F : seen' = seen \/ seen' = [seen EXCEPT ![s] = q]
    BY <1>t, <1>a, <1>f, SubSequences
  <2> QED
    BY <1>t, <2>1
<1> QED
  BY <1>1, <1>2, <1>3, <1>4, <1>5 DEF SeqTypes, F

(* So do the other variables.                                                  *)
LEMMA SubPlainTypes ==
  ASSUME Types, NEW s \in Subs, SubStep(s)
  PROVE  PlainTypes'
<1> USE SizesAssumption DEF PlainTypes, Goto, persister, channels, resuming, ghosts
<1>t. PlainTypes /\ \A q \in Seq(Frames) : q # <<>> => Head(q) \in Frames
  BY HeadTailProperties DEF Types
<1>n. /\ outgoing[s] # <<>> => Head(outgoing[s]) \in Frames
      /\ todo[s] # <<>> => Head(todo[s]) \in Events
      /\ 0 \in 0 .. MaxEvents /\ Points \in {Points}
  BY HeadTailProperties DEF Types, SeqTypes
<1>1. CASE Subscribe(s)
  BY <1>t, <1>1 DEF Subscribe
<1>2. CASE Leave(s)
  BY <1>t, <1>2 DEF Leave
<1>3. ASSUME NEW n \in 0 .. MaxEvents, SubscribeSince(s, n) PROVE PlainTypes'
  BY <1>t, <1>3 DEF SubscribeSince, Points
<1>4. CASE ReportOverflow(s)
  BY <1>t, <1>4 DEF ReportOverflow
<1>5. CASE Cleanup(s)
  BY <1>t, <1>5 DEF Cleanup
<1>6. CASE CloseOutgoing(s)
  BY <1>t, <1>6 DEF CloseOutgoing
<1>7. CASE EndOfStream(s)
  BY <1>t, <1>7 DEF EndOfStream
<1>8. CASE SendErrorFrame(s)
  BY <1>t, <1>8 DEF SendErrorFrame
<1>9. CASE StopPlayback(s)
  BY <1>t, <1>n, <1>9 DEF StopPlayback, Returns, Points
<1>10. CASE AddSubscriber(s)
  BY <1>t, <1>10 DEF AddSubscriber, Points
<1>11. CASE TakeNone(s)
  <2>1. CASE pc[s] = "first"
    BY <1>t, <1>11, <2>1 DEF TakeNone, Points
  <2>2. CASE pc[s] # "first"
    <3>1. /\ pc' = [pc EXCEPT ![s] = "end"] /\ cursor' = [cursor EXCEPT ![s] = 0]
          /\ inHand' = [inHand EXCEPT ![s] = NoEvent]
          /\ UNCHANGED <<seq, labels, lost, subs, muted, outClosed, clean, dropper, consumer, start,
                        skipped>>
      BY <1>11, <2>2 DEF TakeNone, Returns
    <3> QED
      BY <1>t, <1>n, <3>1 DEF Points
  <2> QED
    BY <2>1, <2>2
<1>12. CASE StartPlayback(s)
  <2>1. \/ pc' = [pc EXCEPT ![s] = "play"] /\ cursor' = cursor
        \/ pc' = [pc EXCEPT ![s] = "replay"] /\ cursor' = [cursor EXCEPT ![s] = 0]
    BY <1>12 DEF StartPlayback
  <2>2. UNCHANGED <<seq, labels, lost, subs, muted, outClosed, clean, dropper, consumer, inHand,
                    start>>
    BY <1>12 DEF StartPlayback
  <2>5. skipped' \in [Subs -> SUBSET Events]
    <3>1. skipped' = [skipped EXCEPT ![s] = skipped[s] \cup PassedOver(s)] /\ PassedOver(s) \subseteq Events
      BY <1>12 DEF StartPlayback, PassedOver
    <3> QED
      BY <1>t, <3>1
  <2>3. pc' \in [Subs -> Points]
    BY <1>t, <2>1 DEF Points
  <2>4. cursor' \in [Subs -> 0 .. MaxEvents]
    BY <1>t, <1>n, <2>1
  <2> QED
    BY <1>t, <2>2, <2>3, <2>4, <2>5
<1>13. CASE Play(s)
  <2>1. todo[s] # <<>> /\ Sequence(Head(todo[s])) > 0 => Sequence(Head(todo[s])) \in 0 .. MaxEvents
    BY <1>n DEF Sequence, Events
  <2> QED
    BY <1>t, <1>13, <2>1 DEF Play, Points
<1>14. CASE TakeLive(s)
  BY <1>t, <1>n, <1>14 DEF TakeLive, Points
<1>15. CASE Replay(s)
  BY <1>t, <1>15 DEF Replay, Points
<1>16. CASE SendLive(s)
  <2>1. CASE UNCHANGED <<subs, cursor, todo>> /\ inHand' = [inHand EXCEPT ![s] = NoEvent]
                                              /\ pc' = [pc EXCEPT ![s] = "copy"]
    BY <1>t, <1>16, <2>1 DEF SendLive, Points
  <2>2. CASE subs' = subs \ {s} /\ Returns(s)
    BY <1>t, <1>n, <1>16, <2>2 DEF SendLive, Returns, Points
  <2> QED
    BY <1>16, <2>1, <2>2 DEF SendLive
<1>17. CASE Receive(s)
  BY <1>t, <1>17 DEF Receive
<1> QED
  BY <1>1, <1>2, <1>3, <1>4, <1>5, <1>6, <1>7, <1>8, <1>9, <1>10, <1>11, <1>12, <1>13, <1>14,
     <1>15, <1>16, <1>17 DEF SubStep, Deliver
-------------------------------------------------------------------------------
(* The variables of a subscription are as they were.                           *)
Same(t) ==
  /\ pc'[t] = pc[t] /\ cursor'[t] = cursor[t] /\ todo'[t] = todo[t]
  /\ inHand'[t] = inHand[t] /\ start'[t] = start[t] /\ seen'[t] = seen[t]
  /\ outgoing'[t] = outgoing[t] /\ out'[t] = out[t]
  /\ clean'[t] = clean[t] /\ dropper'[t] = dropper[t] /\ consumer'[t] = consumer[t]
  /\ skipped'[t] = skipped[t]
  /\ t \in subs' <=> t \in subs

(* What a subscription is and does is kept when its variables are.             *)
LEMMA SameKept ==
  ASSUME NEW t \in Subs, Same(t), UNCHANGED <<seq, labels, muted>>, SubOK(t)
  PROVE  SubOK(t)'
<1> USE DEF Same, Got
<1>1. Known(t)'
  BY DEF SubOK, Known
<1>2. CutOK(t)'
  BY DEF SubOK, CutOK
<1>3. PhaseOK(t)'
  BY DEF SubOK, PhaseOK, Dry
<1>4. OrderOK(t)'
  BY DEF SubOK, OrderOK, Sorted, Before, UpTo, After, IsRepo
<1> QED
  BY <1>1, <1>2, <1>3, <1>4 DEF SubOK

(* The values of one subscription.                                             *)
LEMMA Local ==
  ASSUME Types, NEW s \in Subs
  PROVE  /\ seen[s] \in Seq(Frames) /\ out[s] \in Seq(Frames) /\ outgoing[s] \in Seq(Frames)
         /\ todo[s] \in Seq(Events) /\ todo[s] \in Seq(Frames)
         /\ Got(s) \subseteq Frames /\ Range(outgoing[s]) \subseteq Frames
         /\ Range(seen[s]) \subseteq Got(s) /\ Range(out[s]) \subseteq Got(s)
         /\ Range(todo[s]) \subseteq Events
         /\ inHand[s] \in Frames \cup {NoEvent} /\ cursor[s] \in 0 .. MaxEvents
         /\ pc[s] \in Points
         /\ Frames \subseteq Int /\ Events \subseteq Int /\ ErrorFrame \notin Events
         /\ NoEvent \notin Frames /\ Events \subseteq Frames
<1>1. /\ seen[s] \in Seq(Frames) /\ out[s] \in Seq(Frames) /\ outgoing[s] \in Seq(Frames)
      /\ todo[s] \in Seq(Events)
  BY DEF Types, SeqTypes
<1>2. \A S : \A q \in Seq(S) : Range(q) \subseteq S
  <2> SUFFICES ASSUME NEW S, NEW q \in Seq(S) PROVE Range(q) \subseteq S
    OBVIOUS
  <2> QED
    BY ElementOfSeq, LenProperties DEF Range
<1>3. Events \subseteq Frames
  BY DEF Frames
<1>4. todo[s] \in Seq(Frames)
  <2>1. \A i \in 1 .. Len(todo[s]) : todo[s][i] \in Frames
    BY <1>1, <1>3, ElementOfSeq
  <2> QED
    BY <1>1, <2>1, SeqDef, LenProperties, IsASeq
<1>5. Range(todo[s]) \subseteq Events /\ Got(s) \subseteq Frames /\ Range(outgoing[s]) \subseteq Frames
  BY <1>1, <1>2 DEF Got
<1>6. inHand[s] \in Frames \cup {NoEvent} /\ cursor[s] \in 0 .. MaxEvents /\ pc[s] \in Points
  BY DEF Types, PlainTypes
<1>7. /\ Frames \subseteq Int /\ Events \subseteq Int /\ ErrorFrame \notin Events
      /\ NoEvent \notin Frames
  BY SizesAssumption DEF Frames, Events, ErrorFrame, NoEvent
<1> QED
  BY <1>1, <1>3, <1>4, <1>5, <1>6, <1>7 DEF Got

(* The first playback goes through the log from the cursor upwards.            *)
LEMMA PlayKept ==
  ASSUME Types, NEW s \in Subs, SubOK(s), Play(s)
  PROVE  SubOK(s)'
<1>u. /\ UNCHANGED <<seq, labels, muted, subs, outgoing, clean, dropper, consumer, inHand, seen>>
      /\ pc[s] = "play"
  BY DEF Play, persister, ghosts
<1>1. CASE todo[s] = <<>>
  <2>1. pc'[s] = "add" /\ UNCHANGED <<out, todo, cursor>>
    BY <1>1 DEF Play, Goto, Types, PlainTypes
  <2>2. Got(s)' = Got(s)
    BY <1>u, <2>1 DEF Got
  <2>3. Known(s)'
    BY <1>u, <2>1, <2>2 DEF SubOK, Known
  <2>4. CutOK(s)'
    BY <1>u, <2>1, <2>2 DEF SubOK, CutOK
  <2>5. PhaseOK(s)'
    BY <1>u, <2>1, <2>2 DEF SubOK, PhaseOK
  <2>6. OrderOK(s)'
    BY <1>u, <2>1, <2>2 DEF SubOK, OrderOK, Sorted, Before, UpTo, After, IsRepo
  <2> QED
    BY <2>3, <2>4, <2>5, <2>6 DEF SubOK
<1>2. ASSUME todo[s] # <<>>, NEW e, e = Head(todo[s]) PROVE SubOK(s)'
  <2>0. e \in Events /\ e \in Frames /\ e \in Range(todo[s])
    BY <1>2, Local, RangeTail
  <2>1. /\ pc'[s] = "play" /\ out'[s] = Append(out[s], e) /\ todo'[s] = Tail(todo[s])
        /\ cursor'[s] = IF IsRepo(e) THEN e ELSE cursor[s]
    <3>1. /\ pc' = pc /\ out' = [out EXCEPT ![s] = Append(out[s], e)]
          /\ todo' = [todo EXCEPT ![s] = Tail(todo[s])]
          /\ cursor' = IF Sequence(e) > 0 THEN [cursor EXCEPT ![s] = Sequence(e)] ELSE cursor
      BY <1>2 DEF Play, Send
    <3>2. s \in DOMAIN out /\ s \in DOMAIN todo /\ s \in DOMAIN cursor
      BY DEF Types, PlainTypes, SeqTypes
    <3>3. IF Sequence(e) > 0 THEN IsRepo(e) /\ Sequence(e) = e ELSE ~IsRepo(e)
      BY <2>0, SizesAssumption DEF Sequence, IsRepo, Events
    <3> QED
      BY <1>u, <3>1, <3>2, <3>3
  <2>2. Range(out'[s]) = Range(out[s]) \cup {e}
    BY <2>0, <2>1, Local, RangeAppend
  <2>3. Got(s)' = Got(s) \cup {e}
    BY <1>u, <2>2 DEF Got
  <2>4. Range(todo[s]) = Range(todo'[s]) \cup {e}
    BY <1>2, <2>1, Local, RangeTail
  <2>5. Known(s)'
    BY <1>u, <2>1, <2>3, <2>4 DEF SubOK, Known
  <2>6. CutOK(s)'
    BY <1>u, <2>0, <2>1, <2>3, Local DEF SubOK, CutOK
  <2>7. PhaseOK(s)'
    BY <1>u, <2>1 DEF SubOK, PhaseOK
  <2>8. Before(Got(s), {e})
    <3>1. /\ UpTo(Got(s), cursor[s]) /\ After(Range(todo[s]), cursor[s])
          /\ ErrorFrame \notin Got(s)
      BY <1>u DEF SubOK, OrderOK, CutOK
    <3>2. Got(s) \subseteq Int /\ e \in Int /\ cursor[s] \in Int
      BY <2>0, Local
    <3> QED
      BY <2>0, <3>1, <3>2 DEF Before, UpTo, After
  <2>9. Sorted(out'[s]) /\ Sorted(todo'[s]) /\ Before({e}, Range(todo'[s]))
    <3>1. Sorted(out[s]) /\ Sorted(todo[s])
      BY DEF SubOK, OrderOK
    <3>2. Before(Range(out[s]), {e})
      BY <2>8 DEF Before, Got
    <3>3. out[s] \in Seq(Frames) /\ todo[s] \in Seq(Frames)
      BY Local
    <3>4. Sorted(Append(out[s], e))
      BY <2>0, <3>1, <3>2, <3>3, SortedAppend
    <3>5. Sorted(Tail(todo[s])) /\ Before({e}, Range(Tail(todo[s])))
      BY <1>2, <3>1, <3>3, SortedTail
    <3> QED
      BY <2>1, <3>4, <3>5
  <2>10. OrderOK(s)'
    <3>1. (Before(Range(seen[s]), Range(out[s])))'
      BY <1>u, <2>2, <2>8, Local DEF SubOK, OrderOK, Before, IsRepo
    <3>2. (UpTo(Got(s), cursor[s]))'
      BY <1>u, <2>0, <2>1, <2>3, <2>8, Local DEF SubOK, OrderOK, UpTo, Before, IsRepo
    <3>3. (After(Range(todo[s]), cursor[s]))'
      BY <1>u, <2>0, <2>1, <2>4, <2>9, Local DEF SubOK, OrderOK, After, Before, IsRepo
    <3> QED
      BY <1>u, <2>1, <2>9, <3>1, <3>2, <3>3 DEF SubOK, OrderOK, Sorted, IsRepo
  <2> QED
    BY <2>5, <2>6, <2>7, <2>10 DEF SubOK
<1> QED
  BY <1>1, <1>2
(* Reporting an overflow and cleaning up leave what was sent as it is.         *)
LEMMA CleanupKept ==
  ASSUME Types, NEW s \in Subs, SubOK(s),
         ReportOverflow(s) \/ Cleanup(s) \/ CloseOutgoing(s)
  PROVE  SubOK(s)'
<1>1. /\ UNCHANGED <<seq, labels, muted, outgoing, out, consumer, inHand, seen, pc, cursor, todo>>
      /\ s \in subs' => s \in subs
  BY DEF ReportOverflow, Cleanup, CloseOutgoing, persister, ghosts, channels, resuming
<1>2. \/ /\ clean' = clean /\ dropper[s] = "started" /\ dropper'[s] = "sending" /\ clean[s] = "no"
      \/ /\ clean' = clean /\ dropper[s] = "started" /\ dropper'[s] = "sent"
      \/ /\ dropper' = dropper /\ clean[s] = "no" /\ clean'[s] = "closing"
         /\ dropper[s] = "sent" \/ (consumer[s] \in {"ended", "left"} /\ dropper[s] # "sending")
      \/ /\ dropper' = dropper /\ clean[s] = "closing" /\ clean'[s] = "closed"
  <2>1. CASE ReportOverflow(s)
    BY <2>1 DEF ReportOverflow, Types, PlainTypes
  <2>2. CASE Cleanup(s)
    BY <2>2 DEF Cleanup, Types, PlainTypes
  <2>3. CASE CloseOutgoing(s)
    BY <2>3 DEF CloseOutgoing, Types, PlainTypes
  <2> QED
    BY <2>1, <2>2, <2>3
<1>3. Got(s)' = Got(s)
  BY <1>1 DEF Got
<1>4. Known(s)'
  BY <1>1, <1>3 DEF SubOK, Known
<1>5. CutOK(s)'
  BY <1>1, <1>2, <1>3 DEF SubOK, CutOK
<1>6. PhaseOK(s)'
  BY <1>1, <1>2, <1>3 DEF SubOK, PhaseOK, CutOK, Dry
<1>7. OrderOK(s)'
  BY <1>1, <1>3 DEF SubOK, OrderOK, Sorted, Before, UpTo, After, IsRepo
<1> QED
  BY <1>4, <1>5, <1>6, <1>7 DEF SubOK

(* The error frame is the last thing to be sent.                               *)
LEMMA ErrorFrameKept ==
  ASSUME Types, NEW s \in Subs, SubOK(s), SendErrorFrame(s)
  PROVE  SubOK(s)'
<1>1. /\ UNCHANGED <<seq, labels, muted, subs, out, clean, consumer, inHand, seen, pc, cursor, todo>>
      /\ dropper[s] = "sending" /\ dropper'[s] = "sent"
      /\ \/ outgoing' = outgoing \/ outgoing'[s] = Append(outgoing[s], ErrorFrame)
  BY DEF SendErrorFrame, persister, ghosts, resuming, Types, PlainTypes, SeqTypes
<1>2. Got(s)' = Got(s)
  BY <1>1 DEF Got
<1>3. /\ ErrorFrame \notin Range(outgoing[s]) \cup Got(s) \cup {inHand[s]}
      /\ pc[s] \notin {"start", "play", "add"} /\ clean[s] = "no" /\ consumer[s] # "none"
  BY <1>1 DEF SubOK, CutOK, PhaseOK
<1>4. Range(outgoing'[s]) \subseteq Range(outgoing[s]) \cup {ErrorFrame}
  <2>1. outgoing[s] \in Seq(Frames) /\ ErrorFrame \in Frames
    BY Local DEF Frames
  <2>2. Range(Append(outgoing[s], ErrorFrame)) = Range(outgoing[s]) \cup {ErrorFrame}
    BY <2>1, RangeAppend
  <2> QED
    BY <1>1, <2>2
<1>5. ErrorFrame \notin labels /\ ErrorFrame <= seq /\ ~IsRepo(ErrorFrame)
  BY SizesAssumption DEF Types, PlainTypes, Events, ErrorFrame, IsRepo
<1>6. Known(s)'
  BY <1>1, <1>2, <1>4, <1>5 DEF SubOK, Known
<1>7. CutOK(s)'
  BY <1>1, <1>2, <1>3 DEF SubOK, CutOK
<1>8. PhaseOK(s)'
  BY <1>1, <1>2, <1>3 DEF SubOK, PhaseOK, Dry
<1>9. OrderOK(s)'
  <2>1. Sorted(outgoing[s]) /\ Before(Range(outgoing[s]), {ErrorFrame}) /\ ErrorFrame \in Frames
    BY <1>3, <1>5 DEF SubOK, OrderOK, Before, Frames
  <2>2. Sorted(outgoing'[s])
    BY <1>1, <2>1, Local, SortedAppend
  <2>3. \A X : Before(X, Range(outgoing[s])) /\ ErrorFrame \notin X => (Before(X, Range(outgoing[s]')))
    BY <1>4, <1>5 DEF Before
  <2>4. \A X, Y : Before(X, Y) => (\A x \in X, y \in Y : x # ErrorFrame /\ (IsRepo(x)' /\ IsRepo(y)' => x < y))
    BY <1>1 DEF Before, IsRepo
  <2>5. Sorted(seen[s])' /\ Sorted(out[s])' /\ Sorted(outgoing[s])' /\ Sorted(todo[s])'
    BY <1>1, <2>2 DEF SubOK, OrderOK, Sorted, IsRepo
  <2>6. /\ pc[s] \in {"none", "first", "restart", "replay", "copy", "send"} =>
             Before(Got(s), Range(outgoing[s]'))
        /\ pc[s] \in {"restart", "replay", "send"} => Before({inHand[s]}, Range(outgoing[s]'))
    BY <1>3, <2>3 DEF SubOK, OrderOK
  <2>7. /\ pc'[s] \in {"none", "first", "restart", "replay", "copy", "send"} =>
             Before(Got(s), Range(outgoing[s]))'
        /\ pc'[s] \in {"restart", "replay", "send"} => Before({inHand[s]}, Range(outgoing[s]))'
    BY <1>1, <1>2, <2>6 DEF Before, IsRepo
  <2> QED
    BY <1>1, <1>2, <2>5, <2>7 DEF SubOK, OrderOK, Before, UpTo, After, IsRepo
<1> QED
  BY <1>6, <1>7, <1>8, <1>9 DEF SubOK

(* A consumer that comes to the end, or leaves, is asked of no more.           *)
LEMMA LeaveKept ==
  ASSUME Types, NEW s \in Subs, SubOK(s), Leave(s) \/ EndOfStream(s)
  PROVE  SubOK(s)'
<1>1. /\ UNCHANGED <<seq, labels, muted, subs, outgoing, out, clean, dropper, inHand, pc, cursor, todo>>
      /\ consumer'[s] \in {"ended", "left"} /\ seen'[s] = <<>>
  BY DEF Leave, EndOfStream, persister, channels, resuming, Types, PlainTypes, SeqTypes
<1>2. Got(s)' \subseteq Got(s) /\ Range(seen'[s]) = {}
  BY <1>1, RangeEmpty DEF Got
<1>3. Known(s)'
  BY <1>1, <1>2 DEF SubOK, Known
<1>4. CutOK(s)'
  BY <1>1, <1>2 DEF SubOK, CutOK
<1>5. PhaseOK(s)'
  BY <1>1, <1>2 DEF SubOK, PhaseOK, Dry
<1>6. OrderOK(s)'
  <2>1. Sorted(seen[s])'
    BY <1>1 DEF Sorted
  <2> QED
    BY <1>1, <1>2, <2>1 DEF SubOK, OrderOK, Sorted, Before, UpTo, After, IsRepo
<1> QED
  BY <1>3, <1>4, <1>5, <1>6 DEF SubOK

(* A subscription starts with nothing.                                         *)
LEMMA SubscribeKept ==
  ASSUME Types, NEW s \in Subs, SubOK(s),
         Subscribe(s) \/ \E n \in 0 .. MaxEvents : SubscribeSince(s, n)
  PROVE  SubOK(s)'
<1>1. /\ UNCHANGED <<seq, labels, muted, outgoing, out, clean, dropper, inHand, seen, todo>>
      /\ consumer[s] = "none" /\ consumer'[s] = "reading"
      /\ \/ pc' = pc /\ cursor' = cursor
         \/ pc'[s] = "start" /\ subs' = subs
  BY DEF Subscribe, SubscribeSince, persister, channels, resuming, ghosts, Types, PlainTypes
<1>2. /\ pc[s] = "none" /\ s \notin subs /\ clean[s] = "no" /\ dropper[s] = "no"
      /\ outgoing[s] = <<>> /\ seen[s] = <<>> /\ out[s] = <<>> /\ inHand[s] = NoEvent
  BY <1>1 DEF SubOK, PhaseOK
<1>3. Got(s) = {} /\ Got(s)' = {} /\ Range(outgoing[s]) = {}
  BY <1>1, <1>2, RangeEmpty DEF Got
<1>4. Known(s)'
  BY <1>1, <1>3 DEF SubOK, Known
<1>5. CutOK(s)'
  BY <1>1, <1>2, <1>3 DEF SubOK, CutOK
<1>6. PhaseOK(s)'
  BY <1>1, <1>2, <1>3 DEF SubOK, PhaseOK
<1>7. OrderOK(s)'
  <2>1. Sorted(seen[s])' /\ Sorted(out[s])' /\ Sorted(outgoing[s])' /\ Sorted(todo[s])'
    BY <1>1 DEF SubOK, OrderOK, Sorted, IsRepo
  <2>2. Before(Range(seen[s]), Range(out[s]))' /\ Before(Got(s), Range(outgoing[s]))'
    BY <1>1, <1>2, <1>3, RangeEmpty DEF Before
  <2>3. pc'[s] \in {"none", "start"}
    BY <1>1, <1>2
  <2> QED
    BY <2>1, <2>2, <2>3 DEF OrderOK
<1> QED
  BY <1>4, <1>5, <1>6, <1>7 DEF SubOK
(* A consumer takes the next of what was sent.                                 *)
LEMMA ReceiveKept ==
  ASSUME Types, NEW s \in Subs, SubOK(s), Receive(s)
  PROVE  SubOK(s)'
<1>u. /\ UNCHANGED <<seq, labels, muted, subs, clean, dropper, consumer, pc, cursor, inHand, todo>>
      /\ consumer[s] = "reading"
  BY DEF Receive, persister, resuming
<1>o. OrderOK(s)
  BY DEF SubOK
<1>l. seen[s] \in Seq(Frames) /\ out[s] \in Seq(Frames) /\ outgoing[s] \in Seq(Frames)
  BY Local
<1>1. ASSUME pc[s] = "none", NEW e, e = Head(outgoing[s]) PROVE SubOK(s)'
  <2>1. /\ outgoing[s] # <<>> /\ outgoing'[s] = Tail(outgoing[s]) /\ out' = out
        /\ seen'[s] = Append(seen[s], e)
    BY <1>1 DEF Receive, Live, Types, SeqTypes
  <2>2. e \in Frames /\ e \in Range(outgoing[s])
    BY <1>1, <1>l, <2>1, RangeTail
  <2>3. Range(outgoing[s]) = Range(outgoing'[s]) \cup {e}
    BY <1>1, <1>l, <2>1, RangeTail
  <2>4. Range(seen'[s]) = Range(seen[s]) \cup {e}
    BY <1>l, <2>1, <2>2, RangeAppend
  <2>5. Range(out[s]) = {} /\ Got(s)' = Got(s) \cup {e}
    BY <1>1, <2>1, <2>4, RangeEmpty DEF Got, SubOK, PhaseOK
  <2>6. Known(s)'
    BY <1>u, <2>1, <2>3, <2>5 DEF SubOK, Known
  <2>7. CutOK(s)'
    BY <1>1, <1>u, <2>1, <2>3, <2>5 DEF SubOK, CutOK
  <2>8. PhaseOK(s)'
    BY <1>1, <1>u, <2>1 DEF SubOK, PhaseOK
  <2>9. Before(Got(s), {e}) /\ Before(Range(seen[s]), {e})
    BY <1>1, <1>o, <2>2 DEF OrderOK, Before, Got
  <2>10. Sorted(seen'[s]) /\ Sorted(outgoing'[s]) /\ Before({e}, Range(outgoing'[s]))
    <3>1. Sorted(seen[s]) /\ Sorted(outgoing[s])
      BY <1>o DEF OrderOK
    <3>2. Sorted(Append(seen[s], e))
      BY <1>l, <2>2, <2>9, <3>1, SortedAppend
    <3>3. Sorted(Tail(outgoing[s])) /\ Before({e}, Range(Tail(outgoing[s])))
      BY <1>1, <1>l, <2>1, <3>1, SortedTail
    <3> QED
      BY <2>1, <3>2, <3>3
  <2>11. OrderOK(s)'
    <3>1. Sorted(seen[s])' /\ Sorted(out[s])' /\ Sorted(outgoing[s])' /\ Sorted(todo[s])'
      BY <1>u, <1>o, <2>1, <2>10 DEF OrderOK, Sorted, IsRepo
    <3>2. Before(Range(seen[s]), Range(out[s]))'
      BY <2>1, <2>5 DEF Before
    <3>3. Before(Got(s), Range(outgoing[s]))
      BY <1>1, <1>o DEF OrderOK
    <3>4. Before(Got(s), Range(outgoing[s]))'
      BY <1>u, <2>3, <2>5, <2>10, <3>3 DEF Before, IsRepo
    <3> QED
      BY <1>1, <1>u, <3>1, <3>2, <3>4 DEF OrderOK
  <2> QED
    BY <2>6, <2>7, <2>8, <2>11 DEF SubOK
<1>2. ASSUME pc[s] # "none", NEW e, e = Head(out[s]) PROVE SubOK(s)'
  <2>1. /\ out[s] # <<>> /\ out'[s] = Tail(out[s]) /\ outgoing' = outgoing
        /\ seen'[s] = Append(seen[s], e)
    BY <1>2 DEF Receive, Live, Types, SeqTypes
  <2>2. e \in Frames /\ e \in Range(out[s])
    BY <1>2, <1>l, <2>1, RangeTail
  <2>3. Range(out[s]) = Range(out'[s]) \cup {e}
    BY <1>2, <1>l, <2>1, RangeTail
  <2>4. Range(seen'[s]) = Range(seen[s]) \cup {e}
    BY <1>l, <2>1, <2>2, RangeAppend
  <2>5. Got(s)' = Got(s)
    BY <2>3, <2>4 DEF Got
  <2>6. Known(s)'
    BY <1>u, <2>1, <2>5 DEF SubOK, Known
  <2>7. CutOK(s)'
    BY <1>u, <2>1, <2>5 DEF SubOK, CutOK
  <2>8. PhaseOK(s)'
    BY <1>2, <1>u, <2>1, <2>5 DEF SubOK, PhaseOK, Dry
  <2>9. Sorted(seen[s]) /\ Sorted(out[s]) /\ Before(Range(seen[s]), Range(out[s]))
    BY <1>o DEF OrderOK
  <2>10. Sorted(Append(seen[s], e))
    BY <1>l, <2>2, <2>9, SortedAppend DEF Before
  <2>11. Sorted(Tail(out[s])) /\ Before({e}, Range(Tail(out[s])))
    BY <1>2, <1>l, <2>1, <2>9, SortedTail
  <2>12. Before(Range(seen[s]), Range(out[s]))'
    BY <1>u, <2>1, <2>3, <2>4, <2>9, <2>11 DEF Before, IsRepo
  <2>13. Sorted(seen[s])' /\ Sorted(out[s])' /\ Sorted(outgoing[s])' /\ Sorted(todo[s])'
    BY <1>u, <1>o, <2>1, <2>10, <2>11 DEF OrderOK, Sorted, IsRepo
  <2>14. OrderOK(s)'
    BY <1>u, <1>o, <2>1, <2>5, <2>12, <2>13 DEF OrderOK, Before, UpTo, After, IsRepo
  <2> QED
    BY <2>6, <2>7, <2>8, <2>14 DEF SubOK
<1> QED
  BY <1>1, <1>2
(* The log after its first n events.                                           *)
Slice(n) == SubSeq(buf, n + 1, Len(buf))

(* A slice of the log is in order, and after what precedes it.                 *)
LEMMA SliceFacts ==
  ASSUME Types, LogInv, NEW n \in Nat
  PROVE  /\ Slice(n) \in Seq(Events) /\ DOMAIN Slice(n) = 1 .. Len(Slice(n))
         /\ Len(buf) \in Nat
         /\ n <= Len(buf) => Len(Slice(n)) = Len(buf) - n
         /\ n > Len(buf) => Len(Slice(n)) = 0
         /\ \A i \in DOMAIN Slice(n) : n + i \in DOMAIN buf /\ Slice(n)[i] = buf[n + i]
         /\ Sorted(Slice(n)) /\ After(Range(Slice(n)), n)
         /\ Range(Slice(n)) \subseteq Events
         /\ \A x \in Range(Slice(n)) : x <= seq /\ x # ErrorFrame
<1>1. Len(buf) \in Nat /\ DOMAIN buf = 1 .. Len(buf) /\ \A i \in 1 .. Len(buf) : buf[i] \in Events
  BY LenProperties, ElementOfSeq DEF Types, SeqTypes
<1>2. /\ SubSeq(buf, n + 1, Len(buf)) \in Seq(Events)
      /\ Len(SubSeq(buf, n + 1, Len(buf))) = IF n + 1 <= Len(buf) THEN Len(buf) - (n + 1) + 1 ELSE 0
      /\ \A i \in 1 .. Len(buf) - (n + 1) + 1 : SubSeq(buf, n + 1, Len(buf))[i] = buf[n + 1 + i - 1]
  BY <1>1, SubSeqProperties
<1>q. PICK q : q = Slice(n)
  OBVIOUS
<1>l. PICK l \in Nat : l = Len(buf)
  BY <1>1
<1>3. /\ q \in Seq(Events) /\ DOMAIN q = 1 .. Len(q) /\ Len(q) \in Nat
      /\ n <= l => Len(q) = l - n
      /\ n > l => Len(q) = 0
  <2>1. q \in Seq(Events) /\ Len(q) = (IF n + 1 <= l THEN l - (n + 1) + 1 ELSE 0)
    BY <1>q, <1>l, <1>2 DEF Slice
  <2>2. DOMAIN q = 1 .. Len(q) /\ Len(q) \in Nat
    BY <2>1, LenProperties
  <2>3. CASE n <= l
    <3>1. n + 1 <= l => Len(q) = l - n
      BY <1>l, <2>1
    <3>2. ~(n + 1 <= l) => Len(q) = l - n
      BY <1>l, <2>1, <2>3
    <3> QED
      BY <1>l, <2>1, <2>2, <2>3, <3>1, <3>2
  <2>4. CASE n > l
    BY <1>l, <2>1, <2>2, <2>4
  <2> QED
    BY <1>l, <2>1, <2>2, <2>3, <2>4
<1>4. \A i \in DOMAIN q : n + i \in DOMAIN buf /\ q[i] = buf[n + i] /\ i \in Nat \ {0}
  <2>1. \A i \in 1 .. l - (n + 1) + 1 : q[i] = buf[n + 1 + i - 1]
    BY <1>q, <1>l, <1>2 DEF Slice
  <2>2. ASSUME NEW i \in DOMAIN q
        PROVE  i \in 1 .. l - (n + 1) + 1 /\ n + 1 + i - 1 = n + i /\ i \in Nat \ {0} /\ n + i \in 1 .. l
    <3>1. i \in 1 .. Len(q)
      BY <1>3
    <3> QED
      BY <1>l, <1>3, <3>1
  <2> QED
    BY <1>1, <1>l, <2>1, <2>2
<1>5. \A j \in DOMAIN buf : buf[j] \in Events /\ j <= buf[j] /\ buf[j] <= seq /\ j \in Nat
  BY <1>1 DEF LogInv
<1>6. Events \subseteq Int /\ ErrorFrame \notin Events
  BY SizesAssumption DEF Events, ErrorFrame
<1>7. \A i, j \in DOMAIN q : i < j => q[i] < q[j] /\ q[i] # ErrorFrame
  BY <1>4, <1>5, <1>6 DEF LogInv
<1>8. \A x \in Range(q) : \E i \in DOMAIN q : x = q[i]
  BY DEF Range
<1>9. \A x \in Range(q) : x \in Events /\ n < x /\ x <= seq /\ x # ErrorFrame
  <2> SUFFICES ASSUME NEW i \in DOMAIN q
               PROVE  q[i] \in Events /\ n < q[i] /\ q[i] <= seq /\ q[i] # ErrorFrame
    BY <1>8
  <2>1. PICK j \in DOMAIN buf : j = n + i /\ q[i] = buf[j] /\ i \in Nat \ {0}
    BY <1>4
  <2>2. buf[j] \in Events /\ buf[j] \in Int /\ j <= buf[j] /\ buf[j] <= seq /\ j \in Nat
    BY <1>5, <1>6
  <2> QED
    BY <1>6, <2>1, <2>2
<1>10. Sorted(q) /\ After(Range(q), n)
  BY <1>7, <1>9 DEF Sorted, After
<1> QED
  BY <1>q, <1>l, <1>3, <1>4, <1>9, <1>10

(* A playback starts from the cursor.                                          *)
LEMMA StartPlaybackKept ==
  ASSUME Types, LogInv, NEW s \in Subs, SubOK(s), StartPlayback(s)
  PROVE  SubOK(s)'
<1>u. /\ UNCHANGED <<seq, labels, muted, subs, outgoing, out, clean, dropper, consumer, inHand, seen>>
      /\ todo'[s] = Slice(cursor[s])
      /\ \/ pc[s] = "start" /\ pc'[s] = "play" /\ cursor' = cursor
         \/ pc[s] = "restart" /\ pc'[s] = "replay"
  BY DEF StartPlayback, Goto, persister, channels, ghosts, Types, PlainTypes, SeqTypes, Slice
<1>o. SubOK(s) /\ OrderOK(s)
  BY DEF SubOK
<1>1. Got(s)' = Got(s)
  BY <1>u DEF Got
<1>2. /\ Sorted(todo'[s]) /\ After(Range(todo'[s]), cursor[s])
      /\ \A x \in Range(todo'[s]) : x <= seq /\ x # ErrorFrame
      /\ Range(todo'[s]) \subseteq Int
  <2>1. cursor[s] \in Nat
    BY Local, SizesAssumption
  <2>2. Events \subseteq Int
    BY Local
  <2> QED
    BY <1>u, <2>1, <2>2, SliceFacts
<1>3. Known(s)'
  BY <1>u, <1>1, <1>2 DEF SubOK, Known
<1>4. CutOK(s)'
  BY <1>u, <1>1 DEF SubOK, CutOK
<1>5. PhaseOK(s)'
  <2>1. CASE pc[s] = "start"
    BY <1>u, <1>1, <2>1 DEF SubOK, PhaseOK
  <2>2. CASE pc[s] = "restart"
    BY <1>u, <1>1, <2>2 DEF SubOK, PhaseOK, Dry
  <2> QED
    BY <1>u, <2>1, <2>2
<1>6. OrderOK(s)'
  <2>1. Sorted(seen[s])' /\ Sorted(out[s])' /\ Sorted(outgoing[s])' /\ Sorted(todo[s])'
    BY <1>u, <1>o, <1>2 DEF OrderOK, Sorted, IsRepo
  <2>2. Before(Range(seen[s]), Range(out[s]))'
    BY <1>u, <1>o DEF OrderOK, Before, IsRepo
  <2>3. CASE pc[s] = "start"
    <3>1. Got(s)' = {}
      BY <1>1, <2>3 DEF SubOK, PhaseOK
    <3>2. After(Range(todo[s]), cursor[s])'
      BY <1>u, <1>2, <2>3 DEF After, IsRepo
    <3> QED
      BY <1>u, <2>1, <2>2, <2>3, <3>1, <3>2 DEF OrderOK, UpTo
  <2>4. CASE pc[s] = "restart"
    <3>1. ErrorFrame \notin Got(s) /\ UpTo(Got(s), cursor[s]) /\ Got(s) \subseteq Int /\ cursor[s] \in Int
      BY <2>4, Local DEF SubOK, OrderOK, CutOK
    <3>2. Before(Got(s), Range(todo[s]'))
      BY <1>2, <3>1 DEF Before, UpTo, After
    <3>3. Before(Got(s), Range(todo[s]))'
      BY <1>u, <1>1, <3>2 DEF Before, IsRepo
    <3>4. Before(Got(s), Range(outgoing[s]))' /\ Before({inHand[s]}, Range(outgoing[s]))'
      BY <1>u, <1>1, <1>o, <2>4 DEF OrderOK, Before, IsRepo
    <3>5. IsRepo(inHand[s])' => UpTo(Got(s), inHand[s])'
      <4>1. Before(Got(s), {inHand[s]}) /\ inHand[s] \in Int
        BY <1>o, <2>4, Local DEF OrderOK, Frames, NoEvent
      <4> QED
        BY <1>u, <1>1, <3>1, <4>1 DEF Before, UpTo, IsRepo
    <3> QED
      BY <1>u, <2>1, <2>2, <2>4, <3>3, <3>4, <3>5 DEF OrderOK
  <2> QED
    BY <1>u, <2>3, <2>4
<1> QED
  BY <1>3, <1>4, <1>5, <1>6 DEF SubOK

(* A subscription whose goroutine returns has what it has.                     *)
LEMMA ReturnsKept ==
  ASSUME Types, NEW s \in Subs, SubOK(s), pc[s] # "none", Returns(s),
         UNCHANGED <<seq, labels, muted, outgoing, out, clean, dropper, consumer, seen>>,
         s \in subs' => s \in subs
  PROVE  SubOK(s)'
<1>1. pc'[s] = "end" /\ todo'[s] = <<>> /\ inHand'[s] = NoEvent
  BY DEF Returns, Goto, Types, PlainTypes, SeqTypes
<1>2. Got(s)' = Got(s) /\ Range(todo'[s]) = {} /\ Sorted(todo'[s])
  BY <1>1, RangeEmpty DEF Got, Sorted
<1>3. Known(s)'
  BY <1>1, <1>2, SizesAssumption DEF SubOK, Known, NoEvent, Types, PlainTypes, Events
<1>4. CutOK(s)'
  BY <1>1, <1>2 DEF SubOK, CutOK, ErrorFrame, NoEvent
<1>5. PhaseOK(s)'
  BY <1>1, <1>2 DEF SubOK, PhaseOK
<1>6. OrderOK(s)'
  BY <1>1, <1>2 DEF SubOK, OrderOK, Sorted, Before, IsRepo
<1> QED
  BY <1>3, <1>4, <1>5, <1>6 DEF SubOK

(* Where the goroutine returns, and where it moves on with nothing new.        *)
LEMMA MovesKept ==
  ASSUME Types, NEW s \in Subs, SubOK(s), StopPlayback(s) \/ AddSubscriber(s) \/ TakeNone(s)
  PROVE  SubOK(s)'
<1>1. CASE Returns(s)
  <2>1. /\ pc[s] # "none"
        /\ s \in subs' => s \in subs
        /\ UNCHANGED <<seq, labels, muted, outgoing, out, clean, dropper, consumer, seen>>
    BY <1>1 DEF StopPlayback, AddSubscriber, TakeNone, Returns, Goto, persister, channels,
        ghosts,
                Types, PlainTypes
  <2> QED
    BY <1>1, <2>1, ReturnsKept
<1>2. CASE ~Returns(s)
  <2>1. /\ UNCHANGED <<seq, labels, muted, outgoing, out, clean, dropper, consumer, seen, cursor, todo, inHand>>
        /\ \/ pc[s] = "add" /\ pc'[s] = "first"
           \/ pc[s] = "first" /\ pc'[s] = "restart" /\ Dry(s)
    BY <1>2 DEF StopPlayback, AddSubscriber, TakeNone, Goto, persister, channels, ghosts,
                Types, PlainTypes
  <2>2. Got(s)' = Got(s) /\ (pc[s] = "add" => outgoing[s] = <<>>)
    BY <2>1 DEF Got, SubOK, PhaseOK
  <2>3. Known(s)'
    BY <2>1, <2>2 DEF SubOK, Known
  <2>4. CutOK(s)'
    BY <2>1, <2>2 DEF SubOK, CutOK
  <2>5. PhaseOK(s)'
    BY <2>1, <2>2 DEF SubOK, PhaseOK, Dry
  <2>6. OrderOK(s)'
    <3>1. Sorted(seen[s])' /\ Sorted(out[s])' /\ Sorted(outgoing[s])' /\ Sorted(todo[s])'
      BY <2>1 DEF SubOK, OrderOK, Sorted, IsRepo
    <3>2. Before(Range(seen[s]), Range(out[s]))' /\ UpTo(Got(s), cursor[s])'
      BY <2>1, <2>2 DEF SubOK, OrderOK, Before, UpTo, IsRepo
    <3>3. outgoing[s] = <<>> /\ Range(outgoing'[s]) = {} /\ inHand'[s] = NoEvent
      BY <2>1, <2>2, RangeEmpty DEF SubOK, PhaseOK, Dry
    <3>4. Before(Got(s), Range(outgoing[s]))' /\ Before({inHand[s]}, Range(outgoing[s]))'
      BY <3>3 DEF Before
    <3>5. pc'[s] = "restart" => Before(Got(s), {inHand[s]})'
      <4>1. pc'[s] = "restart" => ErrorFrame \notin Got(s)
        BY <2>1 DEF SubOK, CutOK
      <4> QED
        BY <2>1, <2>2, <3>3, <4>1 DEF Before, IsRepo, Events, NoEvent
    <3> QED
      BY <2>1, <3>1, <3>2, <3>4, <3>5 DEF OrderOK
  <2> QED
    BY <2>3, <2>4, <2>5, <2>6 DEF SubOK
<1> QED
  BY <1>1, <1>2
(* The first live event comes into the goroutine's hand, or the next one does. *)
LEMMA TakeLiveKept ==
  ASSUME Types, NEW s \in Subs, SubOK(s), TakeLive(s)
  PROVE  SubOK(s)'
<1>1. PICK e : e = Head(outgoing[s])
  OBVIOUS
<1>u. /\ UNCHANGED <<seq, labels, muted, subs, out, clean, dropper, consumer, seen, cursor, todo>>
      /\ outgoing[s] # <<>> /\ outgoing'[s] = Tail(outgoing[s]) /\ inHand'[s] = e
      /\ \/ pc[s] = "first" /\ pc'[s] = "restart"
         \/ pc[s] = "copy" /\ pc'[s] = "send"
  BY <1>1 DEF TakeLive, Goto, persister, ghosts, Types, PlainTypes, SeqTypes
<1>o. OrderOK(s)
  BY DEF SubOK
<1>2. e \in Frames /\ e \in Range(outgoing[s]) /\ Range(outgoing[s]) = Range(outgoing'[s]) \cup {e}
  BY <1>1, <1>u, Local, RangeTail
<1>3. Got(s)' = Got(s)
  BY <1>u DEF Got
<1>4. Known(s)'
  BY <1>u, <1>2, <1>3 DEF SubOK, Known
<1>5. CutOK(s)'
  BY <1>u, <1>2, <1>3 DEF SubOK, CutOK
<1>6. PhaseOK(s)'
  BY <1>u, <1>2, <1>3, Local DEF SubOK, PhaseOK
<1>7. OrderOK(s)'
  <2>1. Sorted(outgoing[s]) /\ Before(Got(s), Range(outgoing[s]))
    BY <1>u, <1>o DEF OrderOK
  <2>2. Sorted(Tail(outgoing[s])) /\ Before({e}, Range(Tail(outgoing[s])))
    BY <1>1, <1>u, <2>1, Local, SortedTail
  <2>3. Sorted(seen[s])' /\ Sorted(out[s])' /\ Sorted(outgoing[s])' /\ Sorted(todo[s])'
    BY <1>u, <1>o, <2>2 DEF OrderOK, Sorted, IsRepo
  <2>4. Before(Range(seen[s]), Range(out[s]))' /\ (pc[s] = "first" => UpTo(Got(s), cursor[s])')
    BY <1>u, <1>o, <1>3 DEF OrderOK, Before, UpTo, IsRepo
  <2>5. Before(Got(s), Range(outgoing[s]))' /\ Before(Got(s), {inHand[s]})'
        /\ Before({inHand[s]}, Range(outgoing[s]))'
    BY <1>u, <1>2, <1>3, <2>1, <2>2 DEF Before, IsRepo
  <2> QED
    BY <1>u, <2>3, <2>4, <2>5 DEF OrderOK
<1> QED
  BY <1>4, <1>5, <1>6, <1>7 DEF SubOK

(* The second playback ends where the event in hand begins.                    *)
LEMMA ReplayKept ==
  ASSUME Types, NEW s \in Subs, SubOK(s), Replay(s)
  PROVE  SubOK(s)'
<1>u. /\ UNCHANGED <<seq, labels, muted, subs, outgoing, clean, dropper, consumer, seen, cursor>>
      /\ pc[s] = "replay"
  BY DEF Replay, persister, ghosts
<1>o. OrderOK(s)
  BY DEF SubOK
<1>1. CASE todo[s] = <<>> \/ Sequence(Head(todo[s])) > Sequence(inHand[s])
  <2>1. pc'[s] = "copy" /\ todo'[s] = <<>> /\ inHand'[s] = NoEvent /\ out' = out
    BY <1>1 DEF Replay, Goto, Types, PlainTypes, SeqTypes
  <2>2. Got(s)' = Got(s) /\ Range(todo'[s]) = {} /\ Sorted(todo[s])'
    BY <1>u, <2>1, RangeEmpty DEF Got, Sorted
  <2>3. Known(s)'
    BY <1>u, <2>1, <2>2, SizesAssumption DEF SubOK, Known, NoEvent, Types, PlainTypes, Events
  <2>4. CutOK(s)'
    BY <1>u, <2>1, <2>2 DEF SubOK, CutOK, ErrorFrame, NoEvent
  <2>5. PhaseOK(s)'
    BY <1>u, <2>1, <2>2 DEF SubOK, PhaseOK
  <2>6. OrderOK(s)'
    BY <1>u, <1>o, <2>1, <2>2 DEF OrderOK, Sorted, Before, IsRepo
  <2> QED
    BY <2>3, <2>4, <2>5, <2>6 DEF SubOK
<1>2. ASSUME todo[s] # <<>>, ~(Sequence(Head(todo[s])) > Sequence(inHand[s])), NEW e, e = Head(todo[s])
      PROVE  SubOK(s)'
  <2>0. e \in Events /\ e \in Frames /\ e \in Range(todo[s])
    BY <1>2, Local, RangeTail
  <2>1. /\ pc' = pc /\ inHand' = inHand /\ out'[s] = Append(out[s], e) /\ todo'[s] = Tail(todo[s])
    BY <1>2 DEF Replay, Send, Types, PlainTypes, SeqTypes
  <2>2. Range(out'[s]) = Range(out[s]) \cup {e}
    BY <2>0, <2>1, Local, RangeAppend
  <2>3. Got(s)' = Got(s) \cup {e}
    BY <1>u, <2>2 DEF Got
  <2>4. Range(todo[s]) = Range(todo'[s]) \cup {e}
    BY <1>2, <2>1, Local, RangeTail
  <2>5. Known(s)'
    BY <1>u, <2>1, <2>3, <2>4 DEF SubOK, Known
  <2>6. CutOK(s)'
    BY <1>u, <2>0, <2>1, <2>3, Local DEF SubOK, CutOK
  <2>7. PhaseOK(s)'
    BY <1>u, <2>1 DEF SubOK, PhaseOK, Dry
  <2>8. Before(Got(s), {e}) /\ Before(Got(s), Range(todo[s]))
    BY <1>u, <1>o, <2>0 DEF OrderOK, Before
  <2>9. Sorted(out'[s]) /\ Sorted(todo'[s]) /\ Before({e}, Range(todo'[s]))
    <3>1. Sorted(out[s]) /\ Sorted(todo[s])
      BY <1>o DEF OrderOK
    <3>2. Before(Range(out[s]), {e})
      BY <2>8 DEF Before, Got
    <3>3. out[s] \in Seq(Frames) /\ todo[s] \in Seq(Frames)
      BY Local
    <3>4. Sorted(Append(out[s], e))
      BY <2>0, <3>1, <3>2, <3>3, SortedAppend
    <3>5. Sorted(Tail(todo[s])) /\ Before({e}, Range(Tail(todo[s])))
      BY <1>2, <3>1, <3>3, SortedTail
    <3> QED
      BY <2>1, <3>4, <3>5
  <2>10. OrderOK(s)'
    <3>1. Sorted(seen[s])' /\ Sorted(out[s])' /\ Sorted(outgoing[s])' /\ Sorted(todo[s])'
      BY <1>u, <1>o, <2>9 DEF OrderOK, Sorted, IsRepo
    <3>2. Before(Range(seen[s]), Range(out[s]))'
      BY <1>u, <1>o, <2>2, <2>8, Local DEF OrderOK, Before, IsRepo
    <3>3. Before(Got(s), Range(todo[s]))'
      BY <1>u, <2>3, <2>4, <2>8, <2>9 DEF Before, IsRepo
    <3>4. IsRepo(inHand[s])' => UpTo(Got(s), inHand[s])'
      <4>1. ASSUME IsRepo(inHand[s]), IsRepo(e) PROVE e <= inHand[s]
        BY <1>2, <2>0, <4>1, Local DEF Sequence, IsRepo
      <4>2. IsRepo(inHand[s]) => UpTo(Got(s), inHand[s])
        BY <1>u, <1>o DEF OrderOK
      <4> QED
        BY <1>u, <2>1, <2>3, <4>1, <4>2 DEF UpTo, IsRepo
    <3>5. Before(Got(s), Range(outgoing[s]))' /\ Before({inHand[s]}, Range(outgoing[s]))'
      <4>1. Before(Got(s), Range(outgoing[s])) /\ Before({inHand[s]}, Range(outgoing[s]))
        BY <1>u, <1>o DEF OrderOK
      <4>2. ASSUME NEW y \in Range(outgoing[s]), IsRepo(y), IsRepo(e) PROVE e < y
        <5>1. inHand[s] # NoEvent
          <6>1. inHand[s] = NoEvent => Dry(s)
            BY <1>u DEF SubOK, PhaseOK
          <6> QED
            BY <4>2, <6>1, RangeEmpty DEF Dry
        <5>2. inHand[s] \in Frames /\ inHand[s] # ErrorFrame /\ inHand[s] \notin labels
          BY <4>1, <4>2, <5>1, Local DEF Before, SubOK, Known
        <5>3. IsRepo(inHand[s]) /\ inHand[s] < y
          BY <4>1, <4>2, <5>2 DEF Before, IsRepo, Frames
        <5>4. e <= inHand[s]
          BY <1>2, <2>0, <4>2, <5>3, Local DEF Sequence, IsRepo
        <5>5. e \in Int /\ inHand[s] \in Int /\ y \in Int
          BY <2>0, <4>2, <5>2, Local
        <5> QED
          BY <5>3, <5>4, <5>5
      <4>3. e # ErrorFrame
        BY <2>0, Local
      <4> QED
        BY <1>u, <2>1, <2>3, <4>1, <4>2, <4>3 DEF Before, IsRepo
    <3> QED
      BY <1>u, <2>1, <3>1, <3>2, <3>3, <3>4, <3>5 DEF OrderOK
  <2> QED
    BY <2>5, <2>6, <2>7, <2>10 DEF SubOK
<1> QED
  BY <1>1, <1>2

(* The event in hand is passed on.                                             *)
LEMMA SendLiveKept ==
  ASSUME Types, NEW s \in Subs, SubOK(s), SendLive(s)
  PROVE  SubOK(s)'
<1>1. CASE Returns(s) /\ subs' = subs \ {s} /\ UNCHANGED out
  <2>1. /\ pc[s] # "none" /\ UNCHANGED <<seq, labels, muted, outgoing, out, clean, dropper, consumer, seen>>
        /\ s \in subs' => s \in subs
    BY <1>1 DEF SendLive, persister, ghosts
  <2> QED
    BY <1>1, <2>1, ReturnsKept
<1>2. ASSUME NEW e, e = inHand[s], Send(s, e), Goto(s, "copy"), inHand' = [inHand EXCEPT ![s] = NoEvent],
             UNCHANGED <<subs, cursor, todo>>
      PROVE  SubOK(s)'
  <2>1. /\ UNCHANGED <<seq, labels, muted, subs, outgoing, clean, dropper, consumer, seen, cursor, todo>>
        /\ pc[s] = "send" /\ pc'[s] = "copy" /\ inHand'[s] = NoEvent /\ out'[s] = Append(out[s], e)
    BY <1>2 DEF SendLive, Send, Goto, persister, ghosts, Types, PlainTypes, SeqTypes
  <2>2. e \in Frames
    BY <1>2, <2>1, Local DEF SubOK, PhaseOK
  <2>3. Range(out'[s]) = Range(out[s]) \cup {e}
    BY <2>1, <2>2, Local, RangeAppend
  <2>4. Got(s)' = Got(s) \cup {e}
    BY <2>1, <2>3 DEF Got
  <2>5. Known(s)'
    BY <1>2, <2>1, <2>4, SizesAssumption DEF SubOK, Known, NoEvent, Types, PlainTypes, Events
  <2>6. CutOK(s)'
    BY <1>2, <2>1, <2>4 DEF SubOK, CutOK, ErrorFrame, NoEvent
  <2>7. PhaseOK(s)'
    BY <2>1 DEF SubOK, PhaseOK
  <2>8. /\ Before(Got(s), {e}) /\ Before({e}, Range(outgoing[s])) /\ Before(Got(s), Range(outgoing[s]))
        /\ Sorted(out[s]) /\ Before(Range(seen[s]), Range(out[s]))
    BY <1>2, <2>1 DEF SubOK, OrderOK
  <2>9. Sorted(out'[s])
    <3>1. Before(Range(out[s]), {e})
      BY <2>8 DEF Before, Got
    <3>2. out[s] \in Seq(Frames)
      BY Local
    <3>3. Sorted(Append(out[s], e))
      BY <2>2, <2>8, <3>1, <3>2, SortedAppend
    <3> QED
      BY <2>1, <3>3
  <2>10. OrderOK(s)'
    <3>1. Sorted(seen[s])' /\ Sorted(out[s])' /\ Sorted(outgoing[s])' /\ Sorted(todo[s])'
      BY <2>1, <2>9 DEF SubOK, OrderOK, Sorted, IsRepo
    <3>2. Before(Range(seen[s]), Range(out[s]))'
      BY <2>1, <2>3, <2>8, Local DEF Before, IsRepo
    <3>3. Before(Got(s), Range(outgoing[s]))'
      BY <2>1, <2>4, <2>8 DEF Before, IsRepo
    <3> QED
      BY <2>1, <3>1, <3>2, <3>3 DEF OrderOK
  <2> QED
    BY <2>5, <2>6, <2>7, <2>10 DEF SubOK
<1> QED
  BY <1>1, <1>2 DEF SendLive
-------------------------------------------------------------------------------
(* A step of a subscription keeps what is said of all of them.                 *)
LEMMA SubStepKept ==
  ASSUME OInv, NEW s \in Subs, SubStep(s)
  PROVE  OInv'
<1>1. Types /\ LogInv /\ SubOK(s) /\ PhaseOK(s)
  BY DEF OInv, SubOK
<1>2. Types'
  BY <1>1, SubSeqTypes, SubPlainTypes DEF Types
<1>3. UNCHANGED <<seq, buf, labels, lost, muted>>
  BY <1>1, SubFrame
<1>4. LogInv'
  BY <1>1, <1>3 DEF LogInv
<1>5. SubOK(s)'
  <2>1. CASE Deliver(s)
    BY <1>1, <2>1, CleanupKept, ErrorFrameKept, StartPlaybackKept, MovesKept, PlayKept,
        TakeLiveKept,
       ReplayKept, SendLiveKept, ReceiveKept, LeaveKept DEF Deliver
  <2>2. CASE Leave(s) \/ Subscribe(s) \/ \E n \in 0 .. MaxEvents : SubscribeSince(s, n)
    BY <1>1, <2>2, LeaveKept, SubscribeKept
  <2> QED
    BY <2>1, <2>2 DEF SubStep
<1>6. ASSUME NEW t \in Subs \ {s} PROVE SubOK(t)'
  <2>1. Same(t)
    BY <1>1, SubFrame DEF Same
  <2> QED
    BY <1>3, <2>1, SameKept DEF OInv
<1> QED
  BY <1>2, <1>4, <1>5, <1>6 DEF OInv

(* What adding an event does to the channels.                                  *)
LEMMA AddEventFacts ==
  ASSUME Types, NEW k \in Kinds, AddEvent(k)
  PROVE  /\ seq < MaxEvents /\ seq' = seq + 1 /\ seq' \in Events
         /\ (buf' = buf /\ k = "sync") \/ buf' = Append(buf, seq')
         /\ \/ labels' = labels
            \/ labels' = labels \cup {seq'} /\ outgoing' = outgoing
         /\ lost' \subseteq lost \cup {seq'} /\ lost \subseteq lost'
         /\ muted \subseteq muted' /\ muted' \subseteq Subs
         /\ UNCHANGED <<subs, out, outClosed, clean, consumer, pc, cursor, todo, inHand, start, seen,
                        skipped>>
         /\ dropper' \in [Subs -> {"no", "started", "sending", "sent"}]
         /\ \A s \in Subs : \/ dropper'[s] = dropper[s]
                            \/ dropper'[s] = "started" /\ s \in subs \ muted /\ s \in muted'
                                                       /\ clean[s] = "no"
         /\ outgoing' \in [Subs -> Seq(Frames)]
         /\ \A s \in Subs : \/ outgoing'[s] = outgoing[s]
                            \/ /\ outgoing'[s] = Append(outgoing[s], seq') /\ s \in subs \ muted
                               /\ Len(outgoing[s]) < BufferSize /\ clean[s] # "closed"
<1> USE DEF persister, resuming
<1>1. /\ seq < MaxEvents /\ seq' = seq + 1 /\ seq' \in Events /\ seq' \in Frames
      /\ outgoing \in [Subs -> Seq(Frames)] /\ muted \subseteq Subs /\ subs \subseteq Subs
      /\ dropper \in [Subs -> {"no", "started", "sending", "sent"}]
      /\ UNCHANGED <<subs, out, outClosed, clean, consumer, pc, cursor, todo, inHand, start, seen,
                     skipped>>
  BY SizesAssumption DEF AddEvent, Types, PlainTypes, SeqTypes, Events, Frames
<1>2. (buf' = buf /\ k = "sync") \/ buf' = Append(buf, seq')
  BY DEF AddEvent
<1>3. CASE k # "commit"
  <2>1. UNCHANGED <<outgoing, dropper, muted, lost>>
    BY <1>3 DEF AddEvent
  <2>2. labels' = labels \/ labels' = labels \cup {seq'}
    BY DEF AddEvent
  <2> QED
    BY <1>1, <1>2, <2>1, <2>2
<1>4. CASE k = "commit"
  <2>1. PICK served \in SUBSET Offered, passed \in SUBSET {s \in Offered : Done(s)} :
          LET able == {s \in served : ~Full(outgoing[s], BufferSize) /\ clean[s] # "closed"}
              slow == {s \in served : Full(outgoing[s], BufferSize) /\ ~Done(s)}
          IN
          /\ outgoing' = [s \in Subs |-> IF s \in able \ passed THEN Append(outgoing[s], seq')
                                                                ELSE outgoing[s]]
          /\ dropper' = [s \in Subs |-> IF s \in slow THEN "started" ELSE dropper[s]]
          /\ lost' = IF served = Offered THEN lost ELSE lost \cup {seq'}
          /\ muted' = muted \cup slow
    BY <1>4 DEF AddEvent, Broadcast
  <2> DEFINE able == {s \in served : ~Full(outgoing[s], BufferSize) /\ clean[s] # "closed"}
             slow == {s \in served : Full(outgoing[s], BufferSize) /\ ~Done(s)}
  <2>2. labels' = labels
    BY <1>4 DEF AddEvent
  <2>3. lost' \subseteq lost \cup {seq'} /\ lost \subseteq lost'
    BY <2>1
  <2>4. slow \subseteq subs \ muted /\ able \subseteq subs \ muted
    BY DEF Offered
  <2>5. muted \subseteq muted' /\ muted' \subseteq Subs
    BY <1>1, <2>1, <2>4
  <2>6. dropper' \in [Subs -> {"no", "started", "sending", "sent"}]
    BY <1>1, <2>1
  <2>7. ASSUME NEW s \in Subs
        PROVE  \/ dropper'[s] = dropper[s]
               \/ dropper'[s] = "started" /\ s \in subs \ muted /\ s \in muted' /\ clean[s] = "no"
    <3>1. CASE s \in slow
      BY <2>1, <2>4, <3>1 DEF Done
    <3>2. CASE s \notin slow
      BY <2>1, <3>2
    <3> QED
      BY <3>1, <3>2
  <2>8. ASSUME NEW s \in Subs
        PROVE  /\ outgoing'[s] \in Seq(Frames)
               /\ \/ outgoing'[s] = outgoing[s]
                  \/ /\ outgoing'[s] = Append(outgoing[s], seq') /\ s \in subs \ muted
                     /\ Len(outgoing[s]) < BufferSize /\ clean[s] # "closed"
    <3>1. outgoing[s] \in Seq(Frames) /\ Append(outgoing[s], seq') \in Seq(Frames) /\ Len(outgoing[s]) \in Nat
      BY <1>1, AppendProperties, LenProperties
    <3>2. CASE s \in able \ passed
      <4>1. outgoing'[s] = Append(outgoing[s], seq')
        BY <2>1, <3>2
      <4>2. Len(outgoing[s]) < BufferSize
        BY <3>1, <3>2, SizesAssumption DEF Full
      <4> QED
        BY <2>4, <3>1, <3>2, <4>1, <4>2
    <3>3. CASE s \notin able \ passed
      BY <2>1, <3>1, <3>3
    <3> QED
      BY <3>2, <3>3
  <2>9. outgoing' \in [Subs -> Seq(Frames)]
    <3>1. DOMAIN outgoing' = Subs /\ outgoing' = [s \in Subs |-> outgoing'[s]]
      BY <2>1
    <3> QED
      BY <2>8, <3>1
  <2> QED
    BY <1>1, <1>2, <2>2, <2>3, <2>5, <2>6, <2>7, <2>8, <2>9
<1> QED
  BY <1>3, <1>4
(* A new event is above all there is, and comes last where it is sent.         *)
LEMMA AddEventKept ==
  ASSUME OInv, NEW k \in Kinds, AddEvent(k)
  PROVE  OInv'
<1>n. PICK n : n = seq'
  OBVIOUS
<1>i. Types /\ LogInv /\ \A s \in Subs : SubOK(s)
  BY DEF OInv
<1>1. /\ seq < MaxEvents /\ n = seq + 1 /\ seq' = n /\ n \in Events /\ seq \in Nat /\ n \in Nat
      /\ n \in 0 .. MaxEvents
      /\ (buf' = buf) \/ buf' = Append(buf, n)
      /\ \/ labels' = labels
         \/ labels' = labels \cup {n} /\ outgoing' = outgoing
      /\ lost' \subseteq lost \cup {n}
      /\ muted \subseteq muted' /\ muted' \subseteq Subs
      /\ UNCHANGED <<subs, out, outClosed, clean, consumer, pc, cursor, todo, inHand, start, seen,
                     skipped>>
      /\ dropper' \in [Subs -> {"no", "started", "sending", "sent"}]
      /\ outgoing' \in [Subs -> Seq(Frames)]
  <2>1. /\ n \in Events /\ n = seq + 1 /\ seq \in 0 .. MaxEvents
    BY <1>i, <1>n, AddEventFacts DEF Types, PlainTypes
  <2>2. seq \in Nat /\ n \in Nat /\ n \in 0 .. MaxEvents
    BY <2>1, SizesAssumption DEF Events
  <2> QED
    BY <1>i, <1>n, <2>1, <2>2, AddEventFacts
<1>2. \A s \in Subs : \/ dropper'[s] = dropper[s]
                      \/ dropper'[s] = "started" /\ s \in subs \ muted /\ s \in muted' /\ clean[s] = "no"
  BY <1>i, AddEventFacts
<1>3. \A s \in Subs : \/ outgoing'[s] = outgoing[s]
                      \/ /\ outgoing'[s] = Append(outgoing[s], n) /\ s \in subs \ muted
                         /\ Len(outgoing[s]) < BufferSize /\ clean[s] # "closed"
  BY <1>i, <1>n, AddEventFacts
<1>4. Types'
  <2>1. PlainTypes'
    <3>1. labels' \subseteq Events /\ lost' \subseteq Events
      BY <1>i, <1>1 DEF Types, PlainTypes
    <3> QED
      BY <1>i, <1>1, <3>1 DEF Types, PlainTypes
  <2>2. buf' \in Seq(Events)
    <3>1. buf \in Seq(Events)
      BY <1>i DEF Types, SeqTypes
    <3>2. Append(buf, n) \in Seq(Events)
      BY <1>1, <3>1, AppendProperties
    <3> QED
      BY <1>1, <3>1, <3>2
  <2>3. ASSUME NEW s \in Subs PROVE Len(outgoing'[s]) <= BufferSize /\ Len(out'[s]) <= CrossoverSize
    <3>1. Len(outgoing[s]) \in Nat /\ Len(Append(outgoing[s], n)) = Len(outgoing[s]) + 1
      BY <1>i, Local, LenProperties, AppendProperties, <1>1 DEF Frames
    <3>2. Len(outgoing[s]) <= BufferSize /\ Len(out[s]) <= CrossoverSize
      BY <1>i DEF Types, SeqTypes
    <3> QED
      BY <1>1, <1>3, <3>1, <3>2, SizesAssumption
  <2> QED
    BY <1>i, <1>1, <2>1, <2>2, <2>3 DEF Types, SeqTypes
<1>5. LogInv'
  <2>1. \A e \in labels' \cup lost' : e <= n
    <3>1. labels \subseteq Int /\ lost \subseteq Int
      BY <1>i, SizesAssumption DEF Types, PlainTypes, Events
    <3>2. \A e \in labels \cup lost : e <= seq
      BY <1>i DEF LogInv
    <3>3. labels' \cup lost' \subseteq labels \cup lost \cup {n}
      BY <1>1
    <3>4. ASSUME NEW e, e \in labels \cup lost PROVE e \in Int /\ e <= seq
      BY <3>1, <3>2, <3>4
    <3>5. ASSUME NEW e \in labels' \cup lost' PROVE e <= n
      <4>1. e \in labels \cup lost \/ e = n
        BY <3>3
      <4> QED
        BY <1>1, <3>4, <4>1
    <3> QED
      BY <3>5
  <2>b. /\ Len(buf) \in Nat /\ DOMAIN buf = 1 .. Len(buf) /\ buf \in Seq(Events)
        /\ \A i \in 1 .. Len(buf) : buf[i] \in Int
    <3>1. buf \in Seq(Events)
      BY <1>i DEF Types, SeqTypes
    <3>2. \A i \in 1 .. Len(buf) : buf[i] \in Events
      BY <3>1, ElementOfSeq
    <3>3. Events \subseteq Int
      BY SizesAssumption DEF Events
    <3> QED
      BY <3>1, <3>2, <3>3, LenProperties
  <2>2. CASE buf' = buf
    <3>1. Len(buf) \in Nat /\ \A i \in DOMAIN buf : buf[i] \in Int
      BY <2>b
    <3> QED
      BY <1>i, <1>1, <2>1, <2>2, <3>1 DEF LogInv
  <2>3. CASE buf' = Append(buf, n)
    <3>1. PICK m \in Nat : m = Len(buf)
      BY <2>b
    <3>2. /\ DOMAIN buf = 1 .. m /\ DOMAIN buf' = 1 .. m + 1 /\ Len(buf') = m + 1 /\ buf'[m + 1] = n
          /\ \A i \in 1 .. m : buf'[i] = buf[i] /\ buf[i] \in Int
      BY <1>1, <2>b, <2>3, <3>1, AppendProperties
    <3>3. m <= seq /\ \A i \in 1 .. m : i <= buf[i] /\ buf[i] <= seq
      BY <1>i, <3>1, <3>2 DEF LogInv
    <3>4. \A i, j \in 1 .. m : i < j => buf[i] < buf[j]
      BY <1>i, <3>2 DEF LogInv
    <3>5. Len(buf') <= n
      BY <1>1, <3>1, <3>2, <3>3
    <3>6. \A i \in 1 .. m + 1 : i <= buf'[i] /\ buf'[i] <= n
      BY <1>1, <3>1, <3>2, <3>3
    <3>7. ASSUME NEW i \in 1 .. m + 1, NEW j \in 1 .. m + 1, i < j PROVE buf'[i] < buf'[j]
      <4>1. i \in 1 .. m /\ buf'[i] = buf[i] /\ buf[i] \in Int /\ buf[i] <= seq
        BY <3>1, <3>2, <3>3, <3>7
      <4>2. CASE j = m + 1
        BY <1>1, <3>2, <4>1, <4>2
      <4>3. CASE j # m + 1
        <5>1. j \in 1 .. m
          BY <3>1, <4>3
        <5> QED
          BY <3>2, <3>4, <3>7, <4>1, <5>1
      <4> QED
        BY <4>2, <4>3
    <3> QED
      BY <1>1, <2>1, <3>2, <3>5, <3>6, <3>7 DEF LogInv
  <2> QED
    BY <1>1, <2>2, <2>3
<1>6. ASSUME NEW s \in Subs PROVE SubOK(s)'
  <2>1. Got(s)' = Got(s) /\ Known(s) /\ CutOK(s) /\ PhaseOK(s) /\ OrderOK(s)
    BY <1>i, <1>1 DEF Got, SubOK
  <2>2. /\ Got(s) \subseteq Int /\ Range(todo[s]) \subseteq Int /\ Range(outgoing[s]) \subseteq Int
        /\ inHand[s] \in Int /\ n \in Frames /\ n # ErrorFrame /\ outgoing[s] \in Seq(Frames)
    BY <1>i, <1>1, Local DEF Frames, NoEvent
  <2>3. /\ n \notin Got(s) \cup Range(todo[s]) \cup Range(outgoing[s]) \cup {inHand[s]}
        /\ n \notin labels
    <3>1. \A e \in labels : e <= seq
      BY <1>i DEF LogInv
    <3> QED
      BY <1>1, <2>1, <2>2, <3>1 DEF Known
  <2>4. \A x : IsRepo(x)' => IsRepo(x)
    BY <1>1 DEF IsRepo
  <2>5. \/ outgoing'[s] = outgoing[s]
        \/ /\ Range(outgoing'[s]) = Range(outgoing[s]) \cup {n} /\ s \in subs \ muted
           /\ outgoing'[s] = Append(outgoing[s], n) /\ labels' = labels
    <3>1. Range(Append(outgoing[s], n)) = Range(outgoing[s]) \cup {n}
      BY <2>2, RangeAppend
    <3>2. outgoing'[s] = Append(outgoing[s], n) => labels' = labels
      <4>1. outgoing[s] # Append(outgoing[s], n)
        BY <2>2, AppendProperties, LenProperties
      <4> QED
        BY <1>1, <4>1
    <3> QED
      BY <1>3, <3>1, <3>2
  <2>6. Known(s)'
    <3>1. \A x \in Got(s) \cup Range(todo[s]) : x <= n
      BY <1>1, <2>1, <2>2 DEF Known
    <3>2. \A x \in Range(outgoing'[s]) \cup {inHand[s]} : x <= n /\ x \notin labels'
      <4>1. \A x \in Range(outgoing[s]) \cup {inHand[s]} : x <= n /\ x \notin labels'
        BY <1>1, <2>1, <2>2, <2>3 DEF Known
      <4> QED
        BY <1>1, <2>3, <2>5, <4>1
    <3> QED
      BY <1>1, <2>1, <3>1, <3>2 DEF Known
  <2>7. CutOK(s)'
    BY <1>1, <1>2, <2>1, <2>2, <2>5 DEF CutOK
  <2>8. PhaseOK(s)'
    BY <1>1, <1>2, <1>3, <2>1 DEF PhaseOK, Dry
  <2>9. OrderOK(s)'
    <3>1. ASSUME s \notin muted
          PROVE  Before(Got(s), {n}) /\ Before({inHand[s]}, {n}) /\ Before(Range(outgoing[s]), {n})
      <4>1. ErrorFrame \notin Range(outgoing[s]) \cup Got(s) \cup {inHand[s]}
        BY <2>1, <3>1 DEF CutOK
      <4>2. \A x \in Got(s) \cup Range(outgoing[s]) \cup {inHand[s]} : x < n
        <5> SUFFICES ASSUME NEW x \in Got(s) \cup Range(outgoing[s]) \cup {inHand[s]} PROVE x < n
          OBVIOUS
        <5>1. x \in Int
          BY <2>2
        <5>2. x <= seq
          BY <2>1 DEF Known
        <5> QED
          BY <1>1, <5>1, <5>2
      <4> QED
        BY <4>1, <4>2 DEF Before
    <3>2. Sorted(outgoing'[s])
      BY <2>1, <2>2, <2>5, <3>1, SortedAppend DEF OrderOK
    <3>3. Sorted(seen[s])' /\ Sorted(out[s])' /\ Sorted(outgoing[s])' /\ Sorted(todo[s])'
      BY <1>1, <2>1, <2>4, <3>2 DEF OrderOK, Sorted
    <3>4. Before(Range(seen[s]), Range(out[s]))'
      BY <1>1, <2>1, <2>4 DEF OrderOK, Before
    <3>5. pc'[s] \in {"none", "first", "restart", "replay", "copy", "send"} =>
            Before(Got(s), Range(outgoing[s]))'
      BY <1>1, <2>1, <2>4, <2>5, <3>1 DEF OrderOK, Before
    <3>6. pc'[s] \in {"restart", "replay", "send"} => Before({inHand[s]}, Range(outgoing[s]))'
      BY <1>1, <2>1, <2>4, <2>5, <3>1 DEF OrderOK, Before
    <3>7. /\ pc'[s] \in {"play", "add", "first", "restart"} => UpTo(Got(s), cursor[s])'
          /\ pc'[s] = "play" => After(Range(todo[s]), cursor[s])'
      BY <1>1, <2>1, <2>4 DEF OrderOK, UpTo, After
    <3>8. /\ pc'[s] \in {"restart", "send"} => Before(Got(s), {inHand[s]})'
          /\ pc'[s] = "replay" => Before(Got(s), Range(todo[s]))'
      BY <1>1, <2>1, <2>4 DEF OrderOK, Before
    <3>9. pc'[s] = "replay" /\ IsRepo(inHand[s])' => UpTo(Got(s), inHand[s])'
      BY <1>1, <2>1, <2>4 DEF OrderOK, UpTo
    <3> QED
      BY <3>3, <3>4, <3>5, <3>6, <3>7, <3>8, <3>9 DEF OrderOK
  <2> QED
    BY <2>6, <2>7, <2>8, <2>9 DEF SubOK
<1> QED
  BY <1>4, <1>5, <1>6 DEF OInv

(* At first nothing was added and nobody is subscribed.                        *)
LEMMA OrderedInit == Init => OInv
<1> SUFFICES ASSUME Init PROVE OInv
  OBVIOUS
<1>1. <<>> \in Seq(Events) /\ <<>> \in Seq(Frames) /\ Len(<<>>) = 0 /\ Range(<<>>) = {} /\ Sorted(<<>>)
  BY EmptySeq, RangeEmpty DEF Sorted
<1>2. Types
  BY <1>1, SizesAssumption DEF Init, Types, PlainTypes, SeqTypes, Points
<1>3. LogInv
  BY SizesAssumption DEF Init, LogInv
<1>4. ASSUME NEW s \in Subs PROVE SubOK(s)
  <2>1. /\ Got(s) = {} /\ Range(outgoing[s]) = {} /\ Range(todo[s]) = {} /\ inHand[s] = NoEvent
        /\ seen[s] = <<>> /\ out[s] = <<>> /\ outgoing[s] = <<>> /\ todo[s] = <<>>
        /\ pc[s] = "none" /\ clean[s] = "no" /\ dropper[s] = "no" /\ consumer[s] = "none"
        /\ seq = 0 /\ labels = {} /\ subs = {}
    BY <1>1 DEF Init, Got
  <2>2. Known(s)
    BY <2>1 DEF Known, NoEvent
  <2>3. CutOK(s)
    BY <2>1 DEF CutOK, NoEvent, ErrorFrame
  <2>4. PhaseOK(s)
    BY <2>1 DEF PhaseOK
  <2>5. OrderOK(s)
    BY <1>1, <2>1, RangeEmpty DEF OrderOK, Before
  <2> QED
    BY <2>2, <2>3, <2>4, <2>5 DEF SubOK
<1> QED
  BY <1>2, <1>3, <1>4 DEF OInv

(* The invariant that relates what was received, what waits, what is played    *)
(* back and what is offered, of every subscription.                            *)
LEMMA Ordered == Spec => []OInv
<1>1. OInv /\ [Next]_vars => OInv'
  <2> SUFFICES ASSUME OInv, [Next]_vars PROVE OInv'
    OBVIOUS
  <2>1. CASE UNCHANGED vars
    <3>1. UNCHANGED <<seq, buf, labels, lost, subs, muted, outgoing, out, outClosed, clean, dropper,
                      consumer, pc, cursor, todo, inHand, start, seen,
                      skipped>>
      BY <2>1 DEF vars, persister, channels, resuming, ghosts
    <3>2. ASSUME NEW s \in Subs PROVE SubOK(s)'
      BY <3>1, SameKept DEF OInv, Same
    <3>3. Types' /\ LogInv'
      BY <3>1 DEF OInv, Types, PlainTypes, SeqTypes, LogInv
    <3> QED
      BY <3>2, <3>3 DEF OInv
  <2>2. CASE \E k \in Kinds : AddEvent(k)
    BY <2>2, AddEventKept
  <2>3. CASE \E s \in Subs : SubStep(s)
    BY <2>3, SubStepKept
  <2> QED
    BY <2>1, <2>2, <2>3 DEF Next, SubStep
<1> QED
  BY <1>1, OrderedInit, PTL DEF Spec

(* Every variable has its type, and no channel holds more than its size.       *)
THEOREM EventTypes == Spec => []TypeOK
<1>1. OInv => TypeOK
  BY DEF OInv, Types, PlainTypes, SeqTypes, TypeOK
<1> QED
  BY <1>1, Ordered, PTL

(* A consumer gets repo events in the order of their numbers and none twice,   *)
(* whether it resumes or not, and nothing after ConsumerTooSlow.               *)
THEOREM ReceivedInOrder == Spec => []InOrder
<1>1. OInv => InOrder
  <2> SUFFICES ASSUME OInv, NEW s \in Subs, NEW i \in DOMAIN seen[s], NEW j \in DOMAIN seen[s], i < j
               PROVE  /\ {seen[s][i], seen[s][j]} \subseteq Events \ labels => seen[s][i] < seen[s][j]
                      /\ seen[s][i] # ErrorFrame
    BY DEF InOrder
  <2>1. Sorted(seen[s])
    BY DEF OInv, SubOK, OrderOK
  <2> QED
    BY <2>1 DEF Sorted, IsRepo
<1> QED
  BY <1>1, Ordered, PTL
-------------------------------------------------------------------------------
(* What is promised of a subscription is kept when its variables are.          *)
LEMMA SameCovered ==
  ASSUME NEW t \in Subs, Same(t), UNCHANGED <<seq, buf, labels, lost, muted>>, CoverOK(t)
  PROVE  CoverOK(t)'
<1> USE DEF Same, Got, Wanted, Offers, IsRepo, Kept
<1>1. NoHole(t)'
  BY DEF CoverOK, NoHole
<1>2. CursorOK(t)'
  BY DEF CoverOK, CursorOK, GotTo
<1>3. PlaybackOK(t)'
  BY DEF CoverOK, PlaybackOK, Run, GotBelow
<1>4. HandOK(t)'
  BY DEF CoverOK, HandOK, Rest, GotTo, GotBelow, Covers
<1>5. LiveOK(t)'
  BY DEF CoverOK, LiveOK, Rest
<1> QED
  BY <1>1, <1>2, <1>3, <1>4, <1>5 DEF CoverOK

(* What is in the log was numbered.                                            *)
LEMMA KeptFacts ==
  ASSUME Types, LogInv
  PROVE  Kept \subseteq Events /\ \A e \in Kept : e <= seq /\ e \in Int
<1>1. buf \in Seq(Events) /\ Events \subseteq Int
  BY SizesAssumption DEF Types, SeqTypes, Events
<1>2. \A i \in DOMAIN buf : buf[i] \in Events /\ buf[i] <= seq
  BY <1>1, ElementOfSeq, LenProperties DEF LogInv
<1> QED
  BY <1>1, <1>2 DEF Kept

(* What a step of a subscription that reads leaves alone.                      *)
LEMMA StepFacts ==
  ASSUME Types, NEW s \in Subs, Deliver(s), start' = start, skipped' = skipped
  PROVE  /\ UNCHANGED <<seq, buf, labels, lost, muted>> /\ Kept' = Kept
         /\ \A e : (Wanted(s, e)' <=> Wanted(s, e)) /\ (IsRepo(e)' <=> IsRepo(e))
<1>1. UNCHANGED <<seq, buf, labels, lost, muted>>
  BY SubFrame DEF SubStep
<1> QED
  BY <1>1 DEF Wanted, IsRepo, Kept

(* A step that sends or takes nothing, in the same phase of the subscription.  *)
LEMMA CleanupCovered ==
  ASSUME Types, NEW s \in Subs, SubOK(s), CoverOK(s), consumer[s] = "reading",
         ReportOverflow(s) \/ SendErrorFrame(s) \/ Cleanup(s) \/ CloseOutgoing(s)
  PROVE  CoverOK(s)'
<1>1. /\ UNCHANGED <<out, consumer, inHand, seen, pc, cursor, todo, start, lost, skipped>>
      /\ \/ outgoing'[s] = outgoing[s]
         \/ outgoing'[s] = Append(outgoing[s], ErrorFrame) /\ dropper[s] = "sending"
      /\ \/ s \in subs => s \in subs'
         \/ clean[s] = "closing"
  BY DEF ReportOverflow, SendErrorFrame, Cleanup, CloseOutgoing, persister, ghosts, channels,
      resuming,
         Types, SeqTypes
<1>2. /\ UNCHANGED <<seq, labels, lost, muted>> /\ Kept' = Kept
      /\ \A e : (Wanted(s, e)' <=> Wanted(s, e)) /\ (IsRepo(e)' <=> IsRepo(e))
  BY <1>1, StepFacts DEF Deliver
<1>3. Got(s)' = Got(s)
  BY <1>1 DEF Got
<1>4. s \in subs' \cup muted' \/ s \notin subs \cup muted
  BY <1>1, <1>2 DEF SubOK, CutOK
<1>5. /\ Range(outgoing[s]) \subseteq Range(outgoing'[s])
      /\ Range(outgoing'[s]) \subseteq Range(outgoing[s]) \cup {ErrorFrame}
  <2>1. outgoing[s] \in Seq(Frames) /\ ErrorFrame \in Frames
    BY Local DEF Frames
  <2>2. Range(Append(outgoing[s], ErrorFrame)) = Range(outgoing[s]) \cup {ErrorFrame}
    BY <2>1, RangeAppend
  <2> QED
    BY <1>1, <2>2
<1>6. ~IsRepo(ErrorFrame)
  BY Local DEF IsRepo
<1>7. \A e \in Events : Offers(s, e)' => Offers(s, e)
  <2>1. \A e \in Events : ~(e <= ErrorFrame)
    BY SizesAssumption DEF Events, ErrorFrame
  <2> QED
    BY <1>2, <1>5, <2>1 DEF Offers
<1>8. NoHole(s)'
  BY <1>1, <1>2, <1>3 DEF CoverOK, NoHole
<1>9. CursorOK(s)'
  BY <1>1, <1>2, <1>3 DEF CoverOK, CursorOK, GotTo
<1>10. PlaybackOK(s)'
  BY <1>1, <1>2, <1>3 DEF CoverOK, PlaybackOK, GotBelow, Run
<1>11. \A x : Rest(s, x) => \A e \in Events \ lost : Wanted(s, e) /\ x < e /\ Offers(s, e)' => e \in Range(outgoing'[s])
  BY <1>5, <1>7 DEF Rest
<1>12. HandOK(s)'
  BY <1>1, <1>2, <1>3, <1>11 DEF CoverOK, HandOK, GotTo, GotBelow, Rest, Covers
<1>13. LiveOK(s)'
  <2>1. pc[s] = "first" => \A x \in Range(outgoing'[s]) : IsRepo(x) => Rest(s, x)
    BY <1>5, <1>6 DEF CoverOK, LiveOK
  <2>2. pc'[s] = "first" => (\A x \in Range(outgoing[s]) : IsRepo(x) => Rest(s, x))'
    BY <1>1, <1>2, <1>11, <2>1 DEF Rest
  <2>3. pc'[s] \in {"none", "copy"} =>
          (\A e \in Events \ lost : Wanted(s, e) /\ Offers(s, e) => e \in Got(s) \cup Range(outgoing[s]))'
    BY <1>1, <1>2, <1>3, <1>5, <1>7 DEF CoverOK, LiveOK
  <2> QED
    BY <1>1, <1>4, <2>2, <2>3 DEF CoverOK, LiveOK
<1> QED
  BY <1>8, <1>9, <1>10, <1>12, <1>13 DEF CoverOK

(* A new subscription wants nothing that is already there, unless it resumes.  *)
LEMMA SubscribeCovered ==
  ASSUME Types, LogInv, NEW s \in Subs, SubOK(s),
         Subscribe(s) \/ \E n \in 0 .. MaxEvents : SubscribeSince(s, n)
  PROVE  CoverOK(s)'
<1>1. consumer[s] = "none" /\ pc[s] = "none" /\ Got(s) = {} /\ seen' = seen /\ out' = out
  <2>1. consumer[s] = "none" /\ seen' = seen /\ out' = out
    BY DEF Subscribe, SubscribeSince, channels
  <2>2. pc[s] = "none" /\ seen[s] = <<>> /\ out[s] = <<>>
    BY <2>1 DEF SubOK, PhaseOK
  <2> QED
    BY <2>1, <2>2, RangeEmpty DEF Got
<1>2. Got(s)' = {}
  BY <1>1 DEF Got
<1>3. CASE Subscribe(s)
  <2>1. pc'[s] = "none" /\ start'[s] = seq /\ s \in subs' /\ seq' = seq /\ buf' = buf
    BY <1>1, <1>3 DEF Subscribe, resuming, persister, Types, PlainTypes
  <2>2. \A e \in Events : ~Wanted(s, e)'
    <3>1. Kept' = Kept /\ \A e \in Kept : e <= seq /\ e \in Int /\ seq \in Int
      BY <2>1, KeptFacts, SizesAssumption DEF Kept, Types, PlainTypes
    <3> QED
      BY <2>1, <3>1 DEF Wanted
  <2> QED
    BY <1>2, <2>1, <2>2 DEF CoverOK, NoHole, CursorOK, PlaybackOK, HandOK, LiveOK
<1>4. CASE \E n \in 0 .. MaxEvents : SubscribeSince(s, n)
  <2>1. pc'[s] = "start" /\ start'[s] = cursor'[s]
    BY <1>4 DEF SubscribeSince, Types, PlainTypes
  <2> QED
    BY <1>2, <2>1 DEF CoverOK, NoHole, CursorOK, PlaybackOK, HandOK, LiveOK
<1> QED
  BY <1>3, <1>4

(* Once the goroutine has returned, only what was sent is left.                *)
LEMMA EndCovered ==
  ASSUME NEW s \in Subs, CoverOK(s), pc'[s] = "end", Got(s)' = Got(s), lost' = lost,
         \A e : (Wanted(s, e)' <=> Wanted(s, e)) /\ (IsRepo(e)' <=> IsRepo(e))
  PROVE  CoverOK(s)'
<1>1. NoHole(s)'
  BY DEF CoverOK, NoHole
<1> QED
  BY <1>1 DEF CoverOK, CursorOK, PlaybackOK, HandOK, LiveOK
(* A playback begins after the events it takes for older than the cursor.      *)
LEMMA StartPlaybackCovered ==
  ASSUME Types, LogInv, NEW s \in Subs, SubOK(s), CoverOK(s), StartPlayback(s)
  PROVE  CoverOK(s)'
<1>u. /\ UNCHANGED <<seq, buf, labels, lost, muted, subs, outgoing, inHand, seen, out, start>>
      /\ todo'[s] = Slice(cursor[s])
      /\ skipped'[s] = skipped[s] \cup PassedOver(s)
      /\ \/ pc[s] = "start" /\ pc'[s] = "play" /\ cursor' = cursor
         \/ pc[s] = "restart" /\ pc'[s] = "replay"
  BY DEF StartPlayback, Goto, persister, channels, Types, PlainTypes, SeqTypes, Slice
<1>w. /\ Kept' = Kept
      /\ \A e : (Wanted(s, e)' => Wanted(s, e) /\ e \notin PassedOver(s)) /\ (IsRepo(e)' <=> IsRepo(e))
  BY <1>u DEF Wanted, IsRepo, Kept
<1>1. Got(s)' = Got(s)
  BY <1>u DEF Got
<1>c. PICK c \in Nat : c = cursor[s]
  BY Local, SizesAssumption
<1>q. PICK q : q = Slice(c)
  OBVIOUS
<1>l. PICK l : l = Len(buf)
  OBVIOUS
<1>n. c = cursor[s] /\ q = Slice(c) /\ Kept \subseteq Events /\ \A e \in Kept : e <= seq /\ e \in Int
  BY <1>c, <1>q, KeptFacts
<1>2. /\ q = todo'[s] /\ q \in Seq(Events) /\ DOMAIN q = 1 .. Len(q) /\ Len(q) \in Nat /\ l \in Nat
      /\ \A i \in 1 .. Len(q) : c + i \in 1 .. l /\ q[i] = buf[c + i]
      /\ c <= l => Len(q) = l - c
      /\ DOMAIN buf = 1 .. l /\ \A i \in 1 .. l : buf[i] \in Int /\ buf[i] \in Kept
  <2>1. /\ q \in Seq(Events) /\ DOMAIN q = 1 .. Len(q) /\ Len(buf) \in Nat
        /\ c <= Len(buf) => Len(q) = Len(buf) - c
        /\ \A i \in DOMAIN q : c + i \in DOMAIN buf /\ q[i] = buf[c + i]
    BY <1>n, SliceFacts
  <2>2. DOMAIN buf = 1 .. Len(buf)
    BY LenProperties DEF Types, SeqTypes
  <2>3. \A i \in 1 .. Len(buf) : buf[i] \in Kept
    BY <2>2 DEF Kept
  <2>4. Len(q) \in Nat
    BY <2>1, LenProperties
  <2> QED
    BY <1>u, <1>n, <1>l, <2>1, <2>2, <2>3, <2>4
<1>r. \A i, j \in 1 .. l : i < j => buf[i] < buf[j]
  BY <1>2 DEF LogInv
(* What is kept is in the slice, or at a place up to the cursor.               *)
<1>3. ASSUME NEW k \in 1 .. l, c < k PROVE k - c \in 1 .. Len(q) /\ buf[k] = q[k - c] /\ q[1] <= buf[k]
  <2>1. k - c \in 1 .. Len(q) /\ c + (k - c) = k /\ 1 \in 1 .. Len(q)
    BY <1>2, <1>3
  <2>2. q[k - c] = buf[k] /\ q[1] = buf[c + 1] /\ c + 1 \in 1 .. l
    BY <1>2, <2>1
  <2>3. c + 1 < k \/ c + 1 = k
    BY <1>2, <1>3
  <2> QED
    BY <1>2, <1>r, <2>1, <2>2, <2>3
<1>4. Run(q)
  <2>1. ASSUME NEW i \in 1 .. Len(q), NEW j \in 1 .. Len(q), i < j PROVE q[i] < q[j]
    <3>1. c + i < c + j /\ c + i \in 1 .. l /\ c + j \in 1 .. l
      BY <1>2, <2>1
    <3> QED
      BY <1>2, <1>r, <3>1
  <2>2. ASSUME NEW e \in Kept, NEW i \in 1 .. Len(q), q[1] <= e PROVE e \in Range(q)
    <3>1. PICK k \in 1 .. l : e = buf[k]
      BY <1>2 DEF Kept
    <3>2. CASE c < k
      BY <1>2, <1>3, <3>1, <3>2 DEF Range
    <3>3. CASE k <= c
      <4>1. 1 \in 1 .. Len(q) /\ c + 1 \in 1 .. l /\ k < c + 1
        BY <1>2, <3>3
      <4>2. q[1] = buf[c + 1] /\ buf[k] < buf[c + 1] /\ buf[k] \in Int /\ buf[c + 1] \in Int
        BY <1>2, <1>r, <4>1
      <4> QED
        BY <2>2, <3>1, <4>2
    <3> QED
      BY <1>2, <3>2, <3>3
  <2> QED
    BY <1>2, <2>1, <2>2 DEF Run
<1>6. NoHole(s)'
  BY <1>1, <1>u, <1>w DEF CoverOK, NoHole
<1>7. GotTo(s, c)
  <2>1. CASE pc[s] = "start"
    <3>1. c = start[s]
      BY <1>n, <2>1 DEF CoverOK, CursorOK
    <3> QED
      BY <1>n, <3>1, SizesAssumption DEF GotTo, Wanted, Events
  <2>2. CASE pc[s] = "restart"
    BY <1>n, <2>2 DEF CoverOK, CursorOK
  <2> QED
    BY <1>u, <2>1, <2>2
<1>8. ASSUME NEW e \in Events, Wanted(s, e)', q # <<>> => e < Head(q) PROVE e \in Got(s)
  <2>1. Wanted(s, e) /\ e \notin PassedOver(s) /\ e \in Kept /\ e \in Int
    BY <1>n, <1>w, <1>8 DEF Wanted
  <2>2. PICK k \in 1 .. l : e = buf[k]
    BY <1>2, <2>1 DEF Kept
  <2>3. k <= c
    <3>1. SUFFICES ASSUME c < k PROVE FALSE
      BY <1>2
    <3>2. k - c \in 1 .. Len(q) /\ q[1] <= e
      BY <1>3, <2>2, <3>1
    <3>3. q # <<>> /\ q[1] \in Int
      BY <1>2, <3>2
    <3>4. Head(q) = q[1]
      BY <1>2, <3>3, RangeTail
    <3> QED
      BY <1>8, <2>1, <3>2, <3>3, <3>4
  <2>4. ~(c < e)
    BY <1>2, <1>n, <2>1, <2>2, <2>3 DEF PassedOver
  <2> QED
    BY <1>7, <2>1, <2>4 DEF GotTo
<1>9. CASE pc[s] = "start"
  <2>1. pc'[s] = "play" /\ cursor'[s] = c /\ c = start'[s]
    BY <1>u, <1>n, <1>9 DEF CoverOK, CursorOK
  <2>2. CursorOK(s)'
    BY <1>1, <1>w, <1>7, <2>1 DEF CursorOK, GotTo
  <2>3. PlaybackOK(s)'
    BY <1>1, <1>2, <1>w, <1>4, <1>8, <2>1 DEF PlaybackOK, GotBelow, Run
  <2> QED
    BY <1>6, <2>1, <2>2, <2>3 DEF CoverOK, HandOK, LiveOK
<1>10. CASE pc[s] = "restart"
  <2>1. pc'[s] = "replay"
    BY <1>u, <1>10
  <2>2. PlaybackOK(s)'
    BY <1>2, <1>4, <1>w, <2>1 DEF PlaybackOK, Run
  <2>3. IsRepo(inHand[s]) => Rest(s, inHand[s])
    BY <1>10 DEF CoverOK, HandOK
  <2>4. q = <<>> => \A e \in Events : Wanted(s, e)' => e \in Got(s)
    BY <1>8
  <2>5. ASSUME q # <<>>, NEW e \in Events, Wanted(s, e)' PROVE \E x \in Range(q) : e <= x
    <3>1. 1 \in 1 .. Len(q) /\ c + 1 \in 1 .. l
      <4>1. Len(q) # 0
        BY <1>2, <2>5, EmptySeq
      <4> QED
        BY <1>2, <4>1
    <3>2. PICK k \in 1 .. l : e = buf[k]
      BY <1>2, <1>w, <2>5 DEF Wanted, Kept
    <3>3. CASE c < k
      <4>1. e \in Range(q)
        BY <1>2, <1>3, <3>2, <3>3 DEF Range
      <4>2. e <= e
        BY <1>2, <3>2
      <4> QED
        BY <4>1, <4>2
    <3>4. CASE k <= c
      <4>1. k < c + 1
        BY <1>2, <3>1, <3>4
      <4>2. buf[k] < buf[c + 1] /\ q[1] = buf[c + 1] /\ buf[k] \in Int /\ buf[c + 1] \in Int
        BY <1>2, <1>r, <3>1, <4>1
      <4>3. q[1] \in Range(q)
        BY <1>2, <3>1 DEF Range
      <4>4. e <= q[1]
        BY <3>2, <4>2
      <4> QED
        BY <4>3, <4>4
    <3> QED
      BY <1>2, <3>3, <3>4
  <2>6. HandOK(s)'
    <3>1. IsRepo(inHand[s])' => Rest(s, inHand[s])'
      BY <1>u, <1>w, <2>3 DEF Rest, Offers
    <3>2. q = <<>> => GotTo(s, inHand[s])'
      BY <1>1, <2>4 DEF GotTo
    <3>3. q # <<>> => GotBelow(s, Head(todo[s]))' /\ Covers(s, Range(todo[s]), inHand[s])'
      BY <1>1, <1>2, <1>8, <2>5 DEF GotBelow, Covers
    <3> QED
      BY <1>2, <2>1, <3>1, <3>2, <3>3 DEF HandOK
  <2>7. LiveOK(s)'
    BY <1>u, <1>w, <1>10, <2>1 DEF CoverOK, LiveOK
  <2> QED
    BY <1>6, <2>1, <2>2, <2>6, <2>7 DEF CoverOK, CursorOK
<1> QED
  BY <1>u, <1>9, <1>10

(* The first playback leaves nothing out up to the cursor.                     *)
LEMMA PlayCovered ==
  ASSUME Types, LogInv, NEW s \in Subs, SubOK(s), CoverOK(s), Play(s)
  PROVE  CoverOK(s)'
<1>u. /\ UNCHANGED <<subs, outgoing, inHand, seen, start, skipped>>
      /\ pc[s] = "play"
  BY DEF Play, ghosts
<1>w. /\ UNCHANGED <<seq, labels, lost, muted>> /\ Kept' = Kept
      /\ \A e : (Wanted(s, e)' <=> Wanted(s, e)) /\ (IsRepo(e)' <=> IsRepo(e))
  BY <1>u, StepFacts DEF Deliver
<1>1. CASE todo[s] = <<>>
  <2>1. pc'[s] = "add" /\ UNCHANGED <<out, todo, cursor>>
    BY <1>1 DEF Play, Goto, Types, PlainTypes
  <2>2. Got(s)' = Got(s)
    BY <1>u, <2>1 DEF Got
  <2>3. NoHole(s)'
    BY <1>w, <2>2 DEF CoverOK, NoHole
  <2>4. CursorOK(s)'
    BY <1>u, <1>w, <2>1, <2>2 DEF CoverOK, CursorOK, GotTo
  <2> QED
    BY <2>1, <2>3, <2>4 DEF CoverOK, PlaybackOK, HandOK, LiveOK
<1>2. ASSUME todo[s] # <<>>, NEW e, e = Head(todo[s]) PROVE CoverOK(s)'
  <2>0. e \in Events /\ e \in Frames /\ e \in Int /\ e <= seq
    <3>1. e \in Range(todo[s])
      BY <1>2, Local, RangeTail
    <3> QED
      BY <3>1, Local DEF SubOK, Known
  <2>1. /\ pc'[s] = "play" /\ out'[s] = Append(out[s], e) /\ todo'[s] = Tail(todo[s])
        /\ cursor'[s] = IF IsRepo(e) THEN e ELSE cursor[s]
    <3>1. Sequence(e) = (IF IsRepo(e) THEN e ELSE -1) /\ e > 0
      BY <2>0, SizesAssumption DEF Sequence, IsRepo, Events
    <3>2. /\ pc' = pc /\ out' = [out EXCEPT ![s] = Append(out[s], e)]
          /\ todo' = [todo EXCEPT ![s] = Tail(todo[s])]
          /\ cursor' = IF Sequence(e) > 0 THEN [cursor EXCEPT ![s] = Sequence(e)] ELSE cursor
      BY <1>2 DEF Play, Send
    <3>3. out \in [Subs -> Seq(Frames)] /\ todo \in [Subs -> Seq(Events)] /\ cursor \in [Subs -> 0 .. MaxEvents]
      BY DEF Types, PlainTypes, SeqTypes
    <3>4. Sequence(e) > 0 <=> IsRepo(e)
      BY <2>0, <3>1
    <3> QED
      BY <1>u, <3>1, <3>2, <3>3, <3>4
  <2>2. Got(s)' = Got(s) \cup {e}
    <3>1. Range(out'[s]) = Range(out[s]) \cup {e}
      BY <2>0, <2>1, Local, RangeAppend
    <3> QED
      BY <1>u, <3>1 DEF Got
  <2>3. /\ GotBelow(s, e) /\ GotTo(s, cursor[s]) /\ (cursor[s] = start[s] \/ cursor[s] <= seq)
        /\ Run(todo[s])
    BY <1>2, <1>u DEF CoverOK, PlaybackOK, CursorOK
  <2>4. NoHole(s)'
    <3>1. ASSUME NEW f \in Events, Wanted(s, f), f <= e PROVE f \in Got(s) \cup {e}
      <4>1. f < e \/ f = e
        BY <2>0, <3>1, Local
      <4> QED
        BY <2>3, <3>1, <4>1 DEF GotBelow
    <3> QED
      BY <1>w, <2>2, <3>1 DEF CoverOK, NoHole
  <2>5. CursorOK(s)'
    <3>1. \A f \in Events : f <= e => f < e \/ f = e
      BY <2>0, Local
    <3>2. GotTo(s, cursor[s])'
      BY <1>w, <2>1, <2>2, <2>3, <3>1 DEF GotTo, GotBelow
    <3> QED
      BY <1>u, <1>w, <2>0, <2>1, <2>3, <3>2 DEF CursorOK
  <2>6. PlaybackOK(s)'
    <3>1. /\ Run(Tail(todo[s]))
          /\ Tail(todo[s]) # <<>> => \A f \in Kept : f < Head(Tail(todo[s])) => f <= e
      BY <1>2, <2>3, Local, KeptFacts, RunTail
    <3>2. \A f \in Events : f <= e => f < e \/ f = e
      BY <2>0, Local
    <3>3. ASSUME Tail(todo[s]) # <<>>, NEW f \in Events, Wanted(s, f), f < Head(Tail(todo[s]))
          PROVE  f \in Got(s) \cup {e}
      <4>1. f < e \/ f = e
        BY <3>1, <3>2, <3>3 DEF Wanted
      <4> QED
        BY <2>3, <3>3, <4>1 DEF GotBelow
    <3>4. Run(todo[s])'
      BY <1>w, <2>1, <3>1 DEF Run
    <3> QED
      BY <1>w, <2>1, <2>2, <3>3, <3>4 DEF PlaybackOK, GotBelow
  <2> QED
    BY <2>1, <2>4, <2>5, <2>6 DEF CoverOK, HandOK, LiveOK
<1> QED
  BY <1>1, <1>2

(* The goroutine returns, or moves on with nothing new.                        *)
LEMMA MovesCovered ==
  ASSUME Types, NEW s \in Subs, SubOK(s), CoverOK(s), consumer[s] = "reading",
         StopPlayback(s) \/ AddSubscriber(s) \/ TakeNone(s)
  PROVE  CoverOK(s)'
<1>u. UNCHANGED <<seen, out, start, outgoing, skipped>>
  BY DEF StopPlayback, AddSubscriber, TakeNone, channels, ghosts
<1>w. /\ UNCHANGED <<seq, labels, lost, muted>> /\ Kept' = Kept
      /\ \A e : (Wanted(s, e)' <=> Wanted(s, e)) /\ (IsRepo(e)' <=> IsRepo(e))
  BY <1>u, StepFacts DEF Deliver
<1>1. Got(s)' = Got(s)
  BY <1>u DEF Got
<1>2. CASE Returns(s)
  <2>1. pc'[s] = "end"
    BY <1>2 DEF Returns, Goto, Types, PlainTypes
  <2> QED
    BY <1>1, <1>w, <2>1, EndCovered
<1>3. CASE ~Returns(s)
  <2>1. /\ UNCHANGED <<cursor, todo, inHand>>
        /\ \/ pc[s] = "add" /\ pc'[s] = "first" /\ s \in subs'
           \/ pc[s] = "first" /\ pc'[s] = "restart" /\ subs' = subs
    BY <1>3 DEF StopPlayback, AddSubscriber, TakeNone, Goto, Types, PlainTypes
  <2>2. inHand[s] = NoEvent /\ (pc[s] = "add" => outgoing[s] = <<>>)
    BY <2>1 DEF SubOK, PhaseOK
  <2>3. NoHole(s)'
    BY <1>1, <1>w DEF CoverOK, NoHole
  <2>4. CursorOK(s)'
    BY <1>u, <1>1, <1>w, <2>1 DEF CoverOK, CursorOK, GotTo
  <2>5. ~IsRepo(inHand[s])'
    BY <2>1, <2>2 DEF IsRepo, Events, NoEvent
  <2>6. LiveOK(s)'
    BY <1>u, <1>w, <2>1, <2>2, RangeEmpty DEF CoverOK, LiveOK
  <2> QED
    BY <2>1, <2>3, <2>4, <2>5, <2>6 DEF CoverOK, PlaybackOK, HandOK
<1> QED
  BY <1>2, <1>3
(* A consumer that reads and whose live channel is no more is cut off; what is *)
(* in hand that is no event is the last of it.                                 *)
LEMMA LastInHand ==
  ASSUME Types, NEW s \in Subs, SubOK(s), consumer[s] = "reading",
         pc[s] \in {"restart", "replay", "send"}, ~IsRepo(inHand[s])
  PROVE  s \in muted /\ Range(outgoing[s]) = {} /\ inHand[s] \in {ErrorFrame, NoEvent}
<1>1. inHand[s] \in {ErrorFrame, NoEvent}
  BY Local DEF SubOK, Known, IsRepo, Frames
<1>2. CASE inHand[s] = NoEvent
  <2>1. Dry(s)
    BY <1>2 DEF SubOK, PhaseOK
  <2> QED
    BY <1>1, <2>1, RangeEmpty DEF Dry, SubOK, CutOK
<1>3. CASE inHand[s] = ErrorFrame
  <2>1. s \in muted
    BY <1>3 DEF SubOK, CutOK
  <2>2. Range(outgoing[s]) = {}
    BY <1>3 DEF SubOK, OrderOK, Before
  <2> QED
    BY <1>1, <2>1, <2>2
<1> QED
  BY <1>1, <1>2, <1>3

(* What comes into the goroutine's hand is followed by all the rest.           *)
LEMMA TakeLiveCovered ==
  ASSUME Types, NEW s \in Subs, SubOK(s), CoverOK(s), TakeLive(s)
  PROVE  CoverOK(s)'
<1>1. PICK h : h = Head(outgoing[s])
  OBVIOUS
<1>u. /\ UNCHANGED <<subs, out, seen, cursor, todo, start, skipped>>
      /\ outgoing[s] # <<>> /\ outgoing'[s] = Tail(outgoing[s]) /\ inHand'[s] = h
      /\ \/ pc[s] = "first" /\ pc'[s] = "restart"
         \/ pc[s] = "copy" /\ pc'[s] = "send"
  BY <1>1 DEF TakeLive, Goto, ghosts, Types, PlainTypes, SeqTypes
<1>w. /\ UNCHANGED <<seq, labels, lost, muted>> /\ Kept' = Kept
      /\ \A e : (Wanted(s, e)' <=> Wanted(s, e)) /\ (IsRepo(e)' <=> IsRepo(e))
  BY <1>u, StepFacts DEF Deliver
<1>2. Got(s)' = Got(s)
  BY <1>u DEF Got
<1>3. h \in Frames /\ h \in Int /\ h \in Range(outgoing[s]) /\ Range(outgoing[s]) = Range(outgoing'[s]) \cup {h}
  BY <1>1, <1>u, Local, RangeTail
<1>4. Before({h}, Range(outgoing'[s]))
  BY <1>1, <1>u, Local, SortedTail DEF SubOK, OrderOK
<1>5. \A e \in Events : Offers(s, e)' => Offers(s, e)
  BY <1>w, <1>3 DEF Offers
<1>6. NoHole(s)'
  BY <1>2, <1>w DEF CoverOK, NoHole
<1>7. CursorOK(s)'
  BY <1>u, <1>2, <1>w DEF CoverOK, CursorOK, GotTo
<1>8. PlaybackOK(s)'
  BY <1>u DEF PlaybackOK
<1>9. LiveOK(s)'
  BY <1>u, <1>w DEF CoverOK, LiveOK
<1>10. IsRepo(h) => Rest(s, h)
  <2>1. CASE pc[s] = "first"
    BY <1>3, <2>1 DEF CoverOK, LiveOK
  <2>2. CASE pc[s] = "copy"
    <3> SUFFICES ASSUME IsRepo(h), NEW e \in Events \ lost, Wanted(s, e), h < e, Offers(s, e)
                 PROVE  e \in Range(outgoing[s])
      BY DEF Rest
    <3>1. e \in Got(s) \cup Range(outgoing[s])
      BY <2>2 DEF CoverOK, LiveOK
    <3>2. e \in Got(s) => e < h
      BY <1>3, <2>2 DEF SubOK, OrderOK, Before, Wanted
    <3>3. e \in Int
      BY Local
    <3> QED
      BY <1>3, <3>1, <3>2, <3>3
  <2> QED
    BY <1>u, <2>1, <2>2
<1>11. IsRepo(h) => \A e \in Events \ lost : Wanted(s, e) /\ h < e /\ Offers(s, e)' => e \in Range(outgoing'[s])
  BY <1>3, <1>5, <1>10 DEF Rest
<1>12. ASSUME pc[s] = "copy", IsRepo(h), NEW e \in Events \ lost, Wanted(s, e), e < h PROVE e \in Got(s)
  <2>1. e \in Int /\ Offers(s, e)
    BY <1>3, <1>12, Local DEF Offers
  <2>2. e \in Got(s) \cup Range(outgoing[s])
    BY <1>12, <2>1 DEF CoverOK, LiveOK
  <2>3. e \in Range(outgoing'[s]) => h < e
    BY <1>4, <1>12 DEF Before, Wanted
  <2> QED
    BY <1>3, <1>12, <2>1, <2>2, <2>3
<1>13. HandOK(s)'
  BY <1>u, <1>w, <1>2, <1>11, <1>12 DEF HandOK, Rest
<1> QED
  BY <1>6, <1>7, <1>8, <1>9, <1>13 DEF CoverOK

(* When the second playback ends, what it went through and the live events     *)
(* that are left make the whole.                                               *)
LEMMA ReplayCovered ==
  ASSUME Types, LogInv, NEW s \in Subs, SubOK(s), CoverOK(s), consumer[s] = "reading", Replay(s)
  PROVE  CoverOK(s)'
<1>u. /\ UNCHANGED <<subs, outgoing, seen, start, skipped>>
      /\ pc[s] = "replay"
  BY DEF Replay, ghosts
<1>w. /\ UNCHANGED <<seq, labels, lost, muted>> /\ Kept' = Kept
      /\ \A e : (Wanted(s, e)' <=> Wanted(s, e)) /\ (IsRepo(e)' <=> IsRepo(e))
  BY <1>u, StepFacts DEF Deliver
<1>h. PICK h : h = inHand[s]
  OBVIOUS
<1>i. h \in Int /\ (IsRepo(h) => Sequence(h) = h) /\ (~IsRepo(h) => Sequence(h) = -1)
  BY <1>h, Local DEF Sequence, IsRepo, Frames, NoEvent
<1>1. CASE todo[s] = <<>> \/ Sequence(Head(todo[s])) > Sequence(h)
  <2>1. pc'[s] = "copy" /\ todo'[s] = <<>> /\ inHand'[s] = NoEvent /\ out' = out
    BY <1>1, <1>h DEF Replay, Goto, Types, PlainTypes, SeqTypes
  <2>2. Got(s)' = Got(s)
    BY <1>u, <2>1 DEF Got
  <2>3. NoHole(s)'
    BY <1>w, <2>2 DEF CoverOK, NoHole
  <2>4. ASSUME NEW e \in Events \ lost, Wanted(s, e), Offers(s, e)
        PROVE  e \in Got(s) \cup Range(outgoing[s])
    <3>1. IsRepo(h)
      BY <1>u, <1>h, <2>4, LastInHand DEF Offers
    <3>2. CASE e <= h
      <4>1. CASE todo[s] = <<>>
        BY <1>u, <1>h, <2>4, <3>1, <3>2, <4>1 DEF CoverOK, HandOK, GotTo
      <4>2. CASE todo[s] # <<>>
        <5>1. Head(todo[s]) \in Events /\ Events \subseteq Int
          BY <4>2, Local, RangeTail
        <5>2. h < Head(todo[s])
          BY <1>1, <1>i, <3>1, <4>2, <5>1, SizesAssumption DEF Sequence, IsRepo, Events
        <5>3. GotBelow(s, Head(todo[s]))
          BY <1>u, <1>h, <3>1, <4>2 DEF CoverOK, HandOK
        <5>4. e \in Int /\ Head(todo[s]) \in Int
          BY <5>1
        <5>5. e < Head(todo[s])
          BY <1>i, <3>2, <5>2, <5>4
        <5> QED
          BY <2>4, <5>3, <5>5 DEF GotBelow
      <4> QED
        BY <4>1, <4>2
    <3>3. CASE h < e
      BY <1>u, <1>h, <2>4, <3>1, <3>3 DEF CoverOK, HandOK, Rest
    <3>4. e \in Int
      BY Local
    <3> QED
      BY <1>i, <3>2, <3>3, <3>4
  <2>5. LiveOK(s)'
    BY <1>u, <1>w, <2>1, <2>2, <2>4 DEF CoverOK, LiveOK, Offers
  <2> QED
    BY <2>1, <2>3, <2>5 DEF CoverOK, CursorOK, PlaybackOK, HandOK
<1>2. ASSUME todo[s] # <<>>, ~(Sequence(Head(todo[s])) > Sequence(h)), NEW e, e = Head(todo[s])
      PROVE  CoverOK(s)'
  <2>0. e \in Events /\ e \in Frames /\ e \in Int
    BY <1>2, Local, RangeTail
  <2>1. /\ pc' = pc /\ inHand' = inHand /\ out'[s] = Append(out[s], e) /\ todo'[s] = Tail(todo[s])
    BY <1>2, <1>h DEF Replay, Send, Types, PlainTypes, SeqTypes
  <2>2. Got(s)' = Got(s) \cup {e}
    <3>1. Range(out'[s]) = Range(out[s]) \cup {e}
      BY <2>0, <2>1, Local, RangeAppend
    <3> QED
      BY <1>u, <3>1 DEF Got
  <2>3. IsRepo(e) => IsRepo(h) /\ e <= h
    BY <1>2, <1>i, <2>0, SizesAssumption DEF Sequence, IsRepo, Events
  <2>4. /\ Run(todo[s])
        /\ IsRepo(h) => GotBelow(s, e) /\ Covers(s, Range(todo[s]), h) /\ Rest(s, h)
    BY <1>2, <1>h, <1>u DEF CoverOK, PlaybackOK, HandOK
  <2>5. /\ Run(Tail(todo[s])) /\ Range(todo[s]) = Range(Tail(todo[s])) \cup {e}
        /\ Tail(todo[s]) # <<>> => /\ Head(Tail(todo[s])) \in Range(Tail(todo[s]))
                                  /\ e < Head(Tail(todo[s]))
                                  /\ \A f \in Kept : f < Head(Tail(todo[s])) => f <= e
        /\ Tail(todo[s]) = <<>> => Range(Tail(todo[s])) = {}
    <3>1. Tail(todo[s]) \in Seq(Events)
      BY <1>2, Local, RangeTail
    <3> QED
      BY <1>2, <2>4, <3>1, Local, KeptFacts, RunTail, RangeTail, RangeEmpty
  <2>6. ASSUME IsRepo(h), NEW f \in Events, Wanted(s, f), f <= e PROVE f \in Got(s) \cup {e}
    <3>1. f < e \/ f = e
      BY <2>0, <2>6, Local
    <3> QED
      BY <2>4, <2>6, <3>1 DEF GotBelow
  <2>7. NoHole(s)'
    <3>1. ASSUME NEW f \in Events \ lost, NEW x \in Got(s) \cup {e}, Wanted(s, f), IsRepo(x), f <= x
          PROVE  f \in Got(s) \cup {e}
      <4>1. CASE x \in Got(s)
        BY <3>1, <4>1 DEF CoverOK, NoHole
      <4>2. CASE x = e
        BY <2>3, <2>6, <3>1, <4>2
      <4> QED
        BY <3>1, <4>1, <4>2
    <3> QED
      BY <1>w, <2>2, <3>1 DEF NoHole
  <2>8. PlaybackOK(s)'
    BY <1>u, <1>w, <2>1, <2>5 DEF PlaybackOK, Run
  <2>9. HandOK(s)'
    <3>g. PICK g : g = Head(Tail(todo[s]))
      OBVIOUS
    <3>1. ASSUME IsRepo(h), Tail(todo[s]) = <<>>, NEW f \in Events, Wanted(s, f), f <= h PROVE f \in Got(s) \cup {e}
      <4>1. f <= e
        BY <2>4, <2>5, <3>1 DEF Covers
      <4> QED
        BY <2>6, <3>1, <4>1
    <3>2. ASSUME IsRepo(h), Tail(todo[s]) # <<>>, NEW f \in Events, Wanted(s, f), f < g
          PROVE  f \in Got(s) \cup {e}
      <4>1. f <= e
        BY <2>5, <3>g, <3>2 DEF Wanted
      <4> QED
        BY <2>6, <3>2, <4>1
    <3>3. ASSUME IsRepo(h), Tail(todo[s]) # <<>>, NEW f \in Events, Wanted(s, f), f <= h
          PROVE  \E x \in Range(Tail(todo[s])) : f <= x
      <4>1. PICK x \in Range(todo[s]) : f <= x
        BY <2>4, <3>3 DEF Covers
      <4>2. CASE x = e
        <5>1. Head(Tail(todo[s])) \in Int /\ f \in Int
          BY <2>5, <3>3, Local
        <5>2. f <= Head(Tail(todo[s]))
          BY <2>0, <2>5, <3>3, <4>1, <4>2, <5>1
        <5> QED
          BY <2>5, <3>3, <5>2
      <4> QED
        BY <2>5, <4>1, <4>2
    <3>4. IsRepo(h) => Rest(s, h)'
      BY <1>u, <1>w, <2>4 DEF Rest, Offers
    <3>5. IsRepo(h) /\ Tail(todo[s]) = <<>> => GotTo(s, h)'
      BY <1>w, <2>2, <3>1 DEF GotTo
    <3>6. IsRepo(h) /\ Tail(todo[s]) # <<>> => GotBelow(s, g)'
      BY <1>w, <2>2, <3>2 DEF GotBelow
    <3>7. inHand'[s] = h /\ pc'[s] = "replay" /\ todo'[s] = Tail(todo[s]) /\ (IsRepo(h)' <=> IsRepo(h))
      BY <1>h, <1>u, <1>w, <2>1
    <3>8. (IsRepo(h) => Rest(s, h)') => (IsRepo(inHand[s])' => Rest(s, inHand[s])')
      BY <3>7 DEF Rest, IsRepo
    <3>9. (IsRepo(h) /\ Tail(todo[s]) = <<>> => GotTo(s, h)') =>
            (IsRepo(inHand[s])' /\ todo'[s] = <<>> => GotTo(s, inHand[s])')
      BY <3>7 DEF GotTo, IsRepo
    <3>10. (IsRepo(h) /\ Tail(todo[s]) # <<>> => GotBelow(s, g)') =>
            (IsRepo(inHand[s])' /\ todo'[s] # <<>> => GotBelow(s, Head(todo[s]))')
      BY <3>g, <3>7 DEF GotBelow, IsRepo
    <3>11. IsRepo(inHand[s])' /\ todo'[s] # <<>> => Covers(s, Range(todo[s]), inHand[s])'
      BY <1>w, <3>3, <3>7 DEF Covers, IsRepo
    <3> QED
      BY <3>4, <3>5, <3>6, <3>7, <3>8, <3>9, <3>10, <3>11 DEF HandOK
  <2>10. LiveOK(s)'
    BY <1>u, <1>w, <2>1 DEF CoverOK, LiveOK
  <2> QED
    BY <1>u, <2>1, <2>7, <2>8, <2>9, <2>10 DEF CoverOK, CursorOK
<1> QED
  BY <1>h, <1>1, <1>2
(* The event in hand follows all that came before it.                          *)
LEMMA SendLiveCovered ==
  ASSUME Types, NEW s \in Subs, SubOK(s), CoverOK(s), consumer[s] = "reading", SendLive(s)
  PROVE  CoverOK(s)'
<1>u. UNCHANGED <<outgoing, seen, start, skipped>> /\ pc[s] = "send"
  BY DEF SendLive, ghosts
<1>w. /\ UNCHANGED <<seq, labels, lost, muted>> /\ Kept' = Kept
      /\ \A e : (Wanted(s, e)' <=> Wanted(s, e)) /\ (IsRepo(e)' <=> IsRepo(e))
  BY <1>u, StepFacts DEF Deliver
<1>1. CASE Returns(s) /\ UNCHANGED out
  <2>1. pc'[s] = "end" /\ Got(s)' = Got(s)
    BY <1>u, <1>1 DEF Returns, Goto, Got, Types, PlainTypes
  <2> QED
    BY <1>w, <2>1, EndCovered
<1>2. ASSUME NEW h, h = inHand[s], Send(s, h), Goto(s, "copy"), inHand' = [inHand EXCEPT ![s] = NoEvent],
             UNCHANGED <<subs, cursor, todo>>
      PROVE  CoverOK(s)'
  <2>1. pc'[s] = "copy" /\ inHand'[s] = NoEvent /\ out'[s] = Append(out[s], h)
    BY <1>2 DEF Send, Goto, Types, PlainTypes, SeqTypes
  <2>2. h \in Frames /\ h \in Int
    BY <1>2, <1>u, Local DEF SubOK, PhaseOK
  <2>3. Got(s)' = Got(s) \cup {h}
    <3>1. Range(out'[s]) = Range(out[s]) \cup {h}
      BY <2>1, <2>2, Local, RangeAppend
    <3> QED
      BY <1>u, <3>1 DEF Got
  <2>4. ASSUME IsRepo(h), NEW f \in Events \ lost, Wanted(s, f), f <= h PROVE f \in Got(s) \cup {h}
    <3>1. f < h \/ f = h
      BY <2>2, <2>4, Local
    <3> QED
      BY <1>2, <1>u, <2>4, <3>1 DEF CoverOK, HandOK
  <2>5. NoHole(s)'
    BY <1>w, <2>3, <2>4 DEF CoverOK, NoHole
  <2>6. ASSUME NEW f \in Events \ lost, Wanted(s, f), Offers(s, f)
        PROVE  f \in Got(s) \cup {h} \cup Range(outgoing[s])
    <3>1. IsRepo(h)
      BY <1>u, <1>2, <2>6, LastInHand DEF Offers
    <3>2. h < f => f \in Range(outgoing[s])
      BY <1>u, <1>2, <2>6, <3>1 DEF CoverOK, HandOK, Rest
    <3>3. f \in Int
      BY Local
    <3> QED
      BY <2>2, <2>4, <2>6, <3>1, <3>2, <3>3
  <2>7. LiveOK(s)'
    BY <1>u, <1>w, <1>2, <2>1, <2>3, <2>6 DEF CoverOK, LiveOK, Offers
  <2> QED
    BY <2>1, <2>5, <2>7 DEF CoverOK, CursorOK, PlaybackOK, HandOK
<1> QED
  BY <1>1, <1>2 DEF SendLive

(* What a consumer takes is the next of what it is offered.                    *)
LEMMA ReceiveCovered ==
  ASSUME Types, NEW s \in Subs, SubOK(s), CoverOK(s), Receive(s)
  PROVE  CoverOK(s)'
<1>u. UNCHANGED <<subs, inHand, cursor, todo, pc, start, skipped>>
  BY DEF Receive, resuming
<1>w. /\ UNCHANGED <<seq, labels, lost, muted>> /\ Kept' = Kept
      /\ \A e : (Wanted(s, e)' <=> Wanted(s, e)) /\ (IsRepo(e)' <=> IsRepo(e))
  BY <1>u, StepFacts DEF Deliver
<1>l. seen[s] \in Seq(Frames) /\ out[s] \in Seq(Frames) /\ outgoing[s] \in Seq(Frames)
  BY Local
<1>1. ASSUME pc[s] = "none", NEW h, h = Head(outgoing[s]) PROVE CoverOK(s)'
  <2>1. /\ outgoing[s] # <<>> /\ outgoing'[s] = Tail(outgoing[s]) /\ out' = out
        /\ seen'[s] = Append(seen[s], h)
    BY <1>1 DEF Receive, Live, Types, SeqTypes
  <2>2. h \in Frames /\ h \in Int /\ h \in Range(outgoing[s]) /\ Range(outgoing[s]) = Range(outgoing'[s]) \cup {h}
    BY <1>1, <1>l, <2>1, Local, RangeTail
  <2>3. Got(s)' = Got(s) \cup {h}
    <3>1. Range(seen'[s]) = Range(seen[s]) \cup {h}
      BY <1>l, <2>1, <2>2, RangeAppend
    <3> QED
      BY <2>1, <3>1 DEF Got
  <2>4. Before({h}, Range(outgoing'[s]))
    BY <1>1, <1>l, <2>1, SortedTail DEF SubOK, OrderOK
  <2>5. ASSUME IsRepo(h), NEW f \in Events \ lost, Wanted(s, f), f <= h PROVE f \in Got(s) \cup {h}
    <3>1. f \in Got(s) \cup Range(outgoing[s])
      BY <1>1, <2>2, <2>5 DEF CoverOK, LiveOK, Offers
    <3>2. f \in Range(outgoing'[s]) => h < f
      BY <2>4, <2>5 DEF Before, Wanted
    <3>3. f \in Int
      BY Local
    <3> QED
      BY <2>2, <2>5, <3>1, <3>2, <3>3
  <2>6. NoHole(s)'
    BY <1>w, <2>3, <2>5 DEF CoverOK, NoHole
  <2>7. LiveOK(s)'
    BY <1>1, <1>u, <1>w, <2>2, <2>3 DEF CoverOK, LiveOK, Offers
  <2> QED
    BY <1>1, <1>u, <2>6, <2>7 DEF CoverOK, CursorOK, PlaybackOK, HandOK
<1>2. ASSUME pc[s] # "none", NEW h, h = Head(out[s]) PROVE CoverOK(s)'
  <2>1. /\ out[s] # <<>> /\ out'[s] = Tail(out[s]) /\ outgoing' = outgoing
        /\ seen'[s] = Append(seen[s], h)
    BY <1>2 DEF Receive, Live, Types, SeqTypes
  <2>2. h \in Frames /\ Range(out[s]) = Range(out'[s]) \cup {h}
    BY <1>2, <1>l, <2>1, RangeTail
  <2>3. Got(s)' = Got(s)
    <3>1. Range(seen'[s]) = Range(seen[s]) \cup {h}
      BY <1>l, <2>1, <2>2, RangeAppend
    <3> QED
      BY <2>2, <3>1 DEF Got
  <2>4. NoHole(s)' /\ CursorOK(s)'
    BY <1>u, <1>w, <2>3 DEF CoverOK, NoHole, CursorOK, GotTo
  <2>5. PlaybackOK(s)'
    BY <1>u, <1>w, <2>3 DEF CoverOK, PlaybackOK, Run, GotBelow
  <2>6. HandOK(s)'
    BY <1>u, <1>w, <2>1, <2>3 DEF CoverOK, HandOK, Rest, Offers, GotTo, GotBelow, Covers
  <2>7. LiveOK(s)'
    BY <1>u, <1>w, <2>1, <2>3 DEF CoverOK, LiveOK, Rest, Offers
  <2> QED
    BY <2>4, <2>5, <2>6, <2>7 DEF CoverOK
<1> QED
  BY <1>1, <1>2

(* A step of a subscription keeps what is promised of all of them.             *)
LEMMA SubStepCovered ==
  ASSUME OInv, CInv, NEW s \in Subs, SubStep(s)
  PROVE  CInv'
<1>1. Types /\ LogInv /\ SubOK(s)
  BY DEF OInv
<1>2. UNCHANGED <<seq, buf, labels, lost, muted>>
  BY <1>1, SubFrame
<1>4. consumer'[s] = "reading" => CoverOK(s)'
  <2>1. CASE Subscribe(s) \/ \E n \in 0 .. MaxEvents : SubscribeSince(s, n)
    BY <1>1, <2>1, SubscribeCovered
  <2>2. CASE Leave(s) \/ EndOfStream(s)
    BY <1>1, <2>2 DEF Leave, EndOfStream, Types, PlainTypes
  <2>3. CASE Deliver(s) /\ ~EndOfStream(s)
    <3>1. consumer' = consumer
      BY <2>3 DEF Deliver, ReportOverflow, SendErrorFrame, Cleanup, CloseOutgoing,
          StartPlayback, StopPlayback,
                  Play, AddSubscriber, TakeLive, TakeNone, Replay, SendLive, Receive
    <3>2. CoverOK(s) /\ consumer[s] = "reading" => CoverOK(s)'
      BY <1>1, <2>3, CleanupCovered, StartPlaybackCovered, PlayCovered, MovesCovered,
          TakeLiveCovered,
         ReplayCovered, SendLiveCovered, ReceiveCovered DEF Deliver
    <3> QED
      BY <3>1, <3>2 DEF CInv
  <2> QED
    BY <2>1, <2>2, <2>3 DEF SubStep
<1>5. ASSUME NEW t \in Subs \ {s}, consumer'[t] = "reading" PROVE CoverOK(t)'
  <2>1. Same(t)
    BY <1>1, SubFrame DEF Same
  <2>2. CoverOK(t)
    BY <1>5, <2>1 DEF Same, CInv
  <2> QED
    BY <1>2, <2>1, <2>2, SameCovered
<1> QED
  BY <1>4, <1>5 DEF CInv
(* A repo event that is not lost is sent to every subscriber that is not done  *)
(* with, or cuts it off.                                                       *)
LEMMA BroadcastReaches ==
  ASSUME Types, NEW k \in Kinds, k # "sync", AddEvent(k),
         NEW s \in subs \ muted, clean[s] = "no"
  PROVE  \/ seq' \in lost' \cup labels' \/ s \in muted'
         \/ outgoing'[s] = Append(outgoing[s], seq')
<1>1. CASE k = "label"
  BY <1>1 DEF AddEvent
<1>2. CASE k = "commit"
  <2>1. PICK served \in SUBSET Offered, passed \in SUBSET {t \in Offered : Done(t)} :
          LET able == {t \in served : ~Full(outgoing[t], BufferSize) /\ clean[t] # "closed"}
              slow == {t \in served : Full(outgoing[t], BufferSize) /\ ~Done(t)}
          IN
          /\ outgoing' = [t \in Subs |-> IF t \in able \ passed THEN Append(outgoing[t], seq')
                                                                ELSE outgoing[t]]
          /\ lost' = IF served = Offered THEN lost ELSE lost \cup {seq'}
          /\ muted' = muted \cup slow
    BY <1>2 DEF AddEvent, Broadcast
  <2>2. CASE served # Offered
    BY <2>1, <2>2
  <2>3. CASE served = Offered
    <3>1. s \in served /\ s \in Subs /\ s \notin passed /\ ~Done(s)
      BY <2>3 DEF Offered, Done, Types, PlainTypes
    <3>2. CASE Full(outgoing[s], BufferSize)
      BY <2>1, <3>1, <3>2
    <3>3. CASE ~Full(outgoing[s], BufferSize)
      BY <2>1, <3>1, <3>3
    <3> QED
      BY <3>2, <3>3
  <2> QED
    BY <2>2, <2>3
<1> QED
  BY <1>1, <1>2, SizesAssumption

(* A new event is in the log, and offered to those who want it.                *)
LEMMA AddEventCovered ==
  ASSUME OInv, CInv, NEW k \in Kinds, AddEvent(k)
  PROVE  CInv'
<1>n. PICK n : n = seq'
  OBVIOUS
<1>i. Types /\ LogInv /\ \A s \in Subs : SubOK(s)
  BY DEF OInv
<1>1. /\ n = seq + 1 /\ seq' = n /\ n \in Events /\ seq \in Nat /\ n \in Nat
      /\ (buf' = buf /\ k = "sync") \/ buf' = Append(buf, n)
      /\ \/ labels' = labels
         \/ labels' = labels \cup {n} /\ outgoing' = outgoing
      /\ lost \subseteq lost' /\ muted \subseteq muted'
      /\ UNCHANGED <<subs, out, clean, consumer, pc, cursor, todo, inHand, start, seen, skipped>>
  <2>1. n \in Events /\ n = seq + 1 /\ seq \in 0 .. MaxEvents
    BY <1>i, <1>n, AddEventFacts DEF Types, PlainTypes
  <2>2. seq \in Nat /\ n \in Nat
    BY <2>1, SizesAssumption DEF Events
  <2> QED
    BY <1>i, <1>n, <2>1, <2>2, AddEventFacts
<1>2. /\ Kept \subseteq Events /\ \A e \in Kept : e \in Int /\ e < n
      /\ Kept' \subseteq Kept \cup {n} /\ (n \in Kept' => k # "sync")
  <2>1. Kept \subseteq Events /\ \A e \in Kept : e \in Int /\ e < n
    BY <1>i, <1>1, KeptFacts
  <2>2. CASE buf' = buf
    BY <1>1, <2>1, <2>2 DEF Kept, AddEvent
  <2>3. CASE buf' = Append(buf, n) /\ k # "sync"
    <3>1. buf \in Seq(Events) /\ Kept = Range(buf) /\ Kept' = Range(buf')
      BY <1>i DEF Types, SeqTypes, Kept, Range
    <3> QED
      BY <1>1, <2>1, <2>3, <3>1, RangeAppend
  <2> QED
    BY <1>1, <2>1, <2>2, <2>3 DEF AddEvent
<1>3. ASSUME NEW s \in Subs, consumer'[s] = "reading" PROVE CoverOK(s)'
  <2>0. CoverOK(s) /\ SubOK(s) /\ consumer[s] = "reading"
    BY <1>i, <1>1, <1>3 DEF CInv
  <2>1. Got(s)' = Got(s)
    BY <1>1 DEF Got
  <2>2. \A e : IsRepo(e)' => IsRepo(e)
    BY <1>1 DEF IsRepo
  <2>3. ASSUME NEW e \in Events, Wanted(s, e)' PROVE Wanted(s, e) \/ e = n
    <3>1. e \in Kept \/ e = n
      BY <1>2, <2>3 DEF Wanted
    <3> QED
      BY <1>1, <2>2, <2>3, <3>1 DEF Wanted
  <2>4. /\ \A x \in Got(s) \cup Range(todo[s]) : x <= seq /\ x < n
        /\ \A x \in Range(outgoing[s]) \cup {inHand[s]} : x <= seq /\ x < n
    <3>1. /\ \A x \in Got(s) \cup Range(todo[s]) : x \in Int
          /\ \A x \in Range(outgoing[s]) \cup {inHand[s]} : x \in Int
      BY <1>i, Local DEF NoEvent
    <3>2. /\ \A x \in Got(s) \cup Range(todo[s]) : x <= seq
          /\ \A x \in Range(outgoing[s]) \cup {inHand[s]} : x <= seq
      BY <2>0 DEF SubOK, Known
    <3>3. \A x \in Int : x <= seq => x < n
      BY <1>1
    <3> QED
      BY <3>1, <3>2, <3>3
  <2>5. /\ Range(outgoing[s]) \subseteq Range(outgoing'[s])
        /\ Range(outgoing'[s]) \subseteq Range(outgoing[s]) \cup {n}
        /\ n \in Range(outgoing'[s]) => s \notin muted
    <3>1. \/ outgoing'[s] = outgoing[s]
          \/ outgoing'[s] = Append(outgoing[s], n) /\ s \in subs \ muted
      BY <1>i, <1>n, AddEventFacts
    <3>2. outgoing[s] \in Seq(Frames) /\ n \in Frames
      BY <1>i, <1>1, Local
    <3>3. Range(Append(outgoing[s], n)) = Range(outgoing[s]) \cup {n}
      BY <3>2, RangeAppend
    <3>4. n \notin Range(outgoing[s])
      BY <1>1, <2>4
    <3> QED
      BY <3>1, <3>3, <3>4
  <2>6. ASSUME NEW e \in Events, Offers(s, e)' PROVE Offers(s, e)
    BY <1>1, <2>5, <2>6 DEF Offers
  <2>7. ASSUME pc[s] \in {"none", "first", "restart", "replay", "copy", "send"},
               n \notin lost', Wanted(s, n)', Offers(s, n)'
        PROVE  n \in Range(outgoing'[s])
    <3>1. CASE s \in muted'
      <4>1. PICK y \in Range(outgoing'[s]) : n <= y
        BY <2>7, <3>1 DEF Offers
      <4>2. y \in Range(outgoing[s]) => y < n /\ y \in Int
        BY <1>i, <2>4, Local
      <4> QED
        BY <1>1, <2>5, <4>1, <4>2
    <3>2. CASE s \notin muted'
      <4>1. s \in subs \ muted
        BY <1>1, <2>0, <2>7, <3>2 DEF CoverOK, LiveOK
      <4>2. clean[s] = "no"
        BY <2>0, <4>1 DEF SubOK, CutOK
      <4>3. k # "sync" /\ n \notin labels'
        BY <1>2, <2>7 DEF Wanted, IsRepo
      <4>4. outgoing'[s] = Append(outgoing[s], n)
        BY <1>i, <1>n, <2>7, <3>2, <4>1, <4>2, <4>3, BroadcastReaches
      <4>5. outgoing[s] \in Seq(Frames) /\ n \in Frames
        BY <1>i, <1>1, Local
      <4> QED
        BY <4>4, <4>5, RangeAppend
    <3> QED
      BY <3>1, <3>2
  <2>8. NoHole(s)'
    <3>1. \A e \in Events, x \in Got(s) : e <= x => e # n
      BY <1>1, <2>4, <1>i, Local
    <3> QED
      BY <1>1, <2>0, <2>1, <2>2, <2>3, <3>1 DEF CoverOK, NoHole
  <2>9. CursorOK(s)'
    <3>1. cursor[s] \in Int /\ start[s] \in Int
      BY <1>i, Local, SizesAssumption DEF Types, PlainTypes
    <3>2. ASSUME pc[s] \in {"play", "add", "first", "restart"} PROVE GotTo(s, cursor[s])'
      <4>1. GotTo(s, cursor[s]) /\ (cursor[s] = start[s] \/ cursor[s] <= seq)
        BY <2>0, <3>2 DEF CoverOK, CursorOK
      <4>2. Wanted(s, n)' => ~(n <= cursor[s])
        BY <1>1, <3>1, <4>1 DEF Wanted
      <4> QED
        BY <1>1, <2>1, <2>3, <4>1, <4>2 DEF GotTo
    <3>3. cursor[s] <= seq => cursor[s] <= n
      BY <1>1, <3>1
    <3> QED
      BY <1>1, <2>0, <3>2, <3>3 DEF CoverOK, CursorOK
  <2>10. \A h \in Int : h <= n => (GotBelow(s, h) => \A e \in Events : Wanted(s, e)' /\ e < h => e \in Got(s))
    BY <1>1, <2>3 DEF GotBelow
  <2>11. todo[s] # <<>> => Head(todo[s]) \in Int /\ Head(todo[s]) <= n
    <3>1. todo[s] # <<>> => Head(todo[s]) \in Range(todo[s]) /\ Head(todo[s]) \in Int
      BY <1>i, Local, RangeTail
    <3>2. \A x \in Int : x < n => x <= n
      BY <1>1
    <3>3. \A x \in Range(todo[s]) : x < n
      BY <2>4
    <3> QED
      BY <3>1, <3>2, <3>3
  <2>12. PlaybackOK(s)'
    <3>1. pc[s] = "play" /\ todo[s] # <<>> =>
            \A e \in Events : Wanted(s, e)' /\ e < Head(todo[s]) => e \in Got(s)
      BY <2>0, <2>10, <2>11 DEF CoverOK, PlaybackOK
    <3>2. ASSUME Run(todo[s]) PROVE Run(todo[s])'
      <4>1. \A i \in DOMAIN todo[s] : ~(n <= todo[s][i])
        <5>1. \A i \in DOMAIN todo[s] : todo[s][i] \in Range(todo[s])
          BY DEF Range
        <5> QED
          BY <1>1, <1>i, <2>4, <5>1, Local
      <4> QED
        BY <1>1, <1>2, <3>2, <4>1 DEF Run
    <3>3. pc[s] \in {"play", "replay"} => Run(todo[s])
      BY <2>0 DEF CoverOK, PlaybackOK
    <3> QED
      BY <1>1, <2>1, <3>1, <3>2, <3>3 DEF PlaybackOK, GotBelow
  <2>13. ASSUME NEW x, Rest(s, x), pc[s] \in {"none", "first", "restart", "replay", "copy", "send"}
         PROVE  \A e \in Events \ lost' : Wanted(s, e)' /\ x < e /\ Offers(s, e)' => e \in Range(outgoing'[s])
    <3> SUFFICES ASSUME NEW e \in Events \ lost', Wanted(s, e)', x < e, Offers(s, e)'
                 PROVE  e \in Range(outgoing'[s])
      OBVIOUS
    <3>1. CASE e = n
      BY <2>7, <2>13, <3>1
    <3>2. CASE e # n
      <4>1. Wanted(s, e) /\ Offers(s, e) /\ e \in Events \ lost
        BY <1>1, <2>3, <2>6, <3>2
      <4> QED
        BY <2>5, <2>13, <4>1 DEF Rest
    <3> QED
      BY <3>1, <3>2
  <2>14. HandOK(s)'
    <3>h. IsRepo(inHand[s])' => IsRepo(inHand[s])
      BY <1>1 DEF IsRepo
    <3>1. inHand[s] \in Int /\ inHand[s] < n
      BY <1>i, <2>4, Local DEF NoEvent
    <3>2. ASSUME pc[s] \in {"restart", "replay", "send"}, IsRepo(inHand[s])' PROVE Rest(s, inHand[s])'
      <4>1. Rest(s, inHand[s])
        BY <2>0, <3>h, <3>2 DEF CoverOK, HandOK
      <4> QED
        BY <1>1, <2>13, <3>2, <4>1 DEF Rest
    <3>3. ASSUME pc[s] = "replay", IsRepo(inHand[s])'
          PROVE  /\ todo[s] = <<>> => \A e \in Events : Wanted(s, e)' /\ e <= inHand[s] => e \in Got(s)
                 /\ todo[s] # <<>> =>
                      /\ \A e \in Events : Wanted(s, e)' /\ e < Head(todo[s]) => e \in Got(s)
                      /\ \A e \in Events : Wanted(s, e)' /\ e <= inHand[s] => \E x \in Range(todo[s]) : e <= x
      <4>1. IsRepo(inHand[s])
        BY <3>h, <3>3
      <4>2. \A e \in Events : e <= inHand[s] => e # n
        BY <1>1, <3>1
      <4> QED
        BY <2>0, <2>3, <2>10, <2>11, <3>3, <4>1, <4>2 DEF CoverOK, HandOK, GotTo, Covers
    <3>4. ASSUME pc[s] = "send", IsRepo(inHand[s])', NEW e \in Events \ lost', Wanted(s, e)', e < inHand[s]
          PROVE  e \in Got(s)
      <4>1. IsRepo(inHand[s]) /\ e # n /\ e \notin lost
        BY <1>1, <3>h, <3>1, <3>4
      <4> QED
        BY <2>0, <2>3, <3>4, <4>1 DEF CoverOK, HandOK
    <3> QED
      BY <1>1, <2>1, <3>2, <3>3, <3>4 DEF HandOK, GotTo, GotBelow, Covers
  <2>15. LiveOK(s)'
    <3>1. ASSUME pc[s] = "first", NEW x \in Range(outgoing'[s]), IsRepo(x)' PROVE Rest(s, x)'
      <4>1. CASE x \in Range(outgoing[s])
        <5>1. Rest(s, x)
          BY <2>0, <2>2, <3>1, <4>1 DEF CoverOK, LiveOK
        <5> QED
          BY <2>13, <3>1, <5>1 DEF Rest
      <4>2. CASE x = n
        <5>1. ASSUME NEW e \in Events, n < e PROVE ~Wanted(s, e)'
          <6>1. e \notin Kept /\ e # n
            BY <1>1, <1>2, <5>1
          <6> QED
            BY <1>2, <6>1 DEF Wanted
        <5> QED
          BY <4>2, <5>1 DEF Rest
      <4> QED
        BY <2>5, <4>1, <4>2
    <3>2. ASSUME pc[s] \in {"none", "copy"}, NEW e \in Events \ lost', Wanted(s, e)', Offers(s, e)'
          PROVE  e \in Got(s) \cup Range(outgoing'[s])
      <4>1. CASE e = n
        BY <2>7, <3>2, <4>1
      <4>2. CASE e # n
        BY <1>1, <2>0, <2>3, <2>5, <2>6, <3>2, <4>2 DEF CoverOK, LiveOK
      <4> QED
        BY <4>1, <4>2
    <3> QED
      BY <1>1, <2>0, <2>1, <3>1, <3>2 DEF CoverOK, LiveOK
  <2> QED
    BY <2>8, <2>9, <2>12, <2>14, <2>15 DEF CoverOK
<1> QED
  BY <1>3 DEF CInv

(* The invariant that says, of every point a subscription can be at, which     *)
(* events it has and which it is still promised.                               *)
LEMMA Covered == Spec => []CInv
<1>1. Init => CInv
  BY DEF Init, CInv
<1>2. OInv /\ CInv /\ [Next]_vars => CInv'
  <2> SUFFICES ASSUME OInv, CInv, [Next]_vars PROVE CInv'
    OBVIOUS
  <2>1. CASE UNCHANGED vars
    <3>1. UNCHANGED <<seq, buf, labels, lost, subs, muted, outgoing, out, outClosed, clean, dropper,
                      consumer, pc, cursor, todo, inHand, start, seen,
                      skipped>>
      BY <2>1 DEF vars, persister, channels, resuming, ghosts
    <3>2. ASSUME NEW s \in Subs, consumer'[s] = "reading" PROVE CoverOK(s)'
      BY <3>1, <3>2, SameCovered DEF CInv, Same
    <3> QED
      BY <3>2 DEF CInv
  <2>2. CASE \E k \in Kinds : AddEvent(k)
    BY <2>2, AddEventCovered
  <2>3. CASE \E s \in Subs : SubStep(s)
    BY <2>3, SubStepCovered
  <2> QED
    BY <2>1, <2>2, <2>3 DEF Next, SubStep
<1> QED
  BY <1>1, <1>2, Ordered, PTL DEF Spec

(* Once a consumer has got an event it has got every repo event that is kept   *)
(* between where it began and that one, over both playbacks and the hand-over, *)
(* whatever is added and whatever types it has, unless its broadcast panicked  *)
(* or a playback took it for older than the cursor.                            *)
THEOREM ReceivedWithoutGap == Spec => []NoGap
<1>1. OInv /\ CInv => NoGap
  <2> SUFFICES ASSUME OInv, CInv, NEW s \in Subs, NEW e \in Missing(s), e \notin skipped[s]
               PROVE  FALSE
    BY DEF NoGap
  <2>1. Types /\ LogInv /\ SubOK(s)
    BY DEF OInv
  <2>2. PICK i \in DOMAIN seen[s] : seen[s][i] \notin labels /\ e <= seen[s][i]
    BY DEF Missing
  <2>3. /\ e \in Kept /\ e \notin labels \cup lost /\ start[s] < e
        /\ \A j \in DOMAIN seen[s] : seen[s][j] # e
    BY DEF Missing
  <2>4. /\ e \in Events /\ e \in Int
        /\ seen[s][i] \in Frames /\ seen[s][i] \in Int /\ seen[s][i] \in Range(seen[s])
    <3>1. seen[s] \in Seq(Frames)
      BY <2>1 DEF Types, SeqTypes
    <3>2. seen[s][i] \in Frames
      BY <2>2, <3>1, LenProperties, ElementOfSeq
    <3> QED
      BY <2>1, <2>2, <2>3, <3>2, KeptFacts, Local DEF Range
  <2>5. IsRepo(seen[s][i]) /\ IsRepo(e)
    BY <2>2, <2>3, <2>4, SizesAssumption DEF IsRepo, Frames, Events, ErrorFrame
  <2>6. consumer[s] = "reading"
    <3>1. seen[s] # <<>>
      BY <2>2
    <3> QED
      BY <2>1, <3>1 DEF SubOK, PhaseOK, Types, PlainTypes
  <2>7. e \in Got(s)
    BY <2>2, <2>3, <2>4, <2>5, <2>6 DEF CInv, CoverOK, NoHole, Wanted, Got
  <2>8. e \notin Range(out[s])
    <3>1. e \in Range(out[s]) => seen[s][i] < e
      BY <2>1, <2>4, <2>5 DEF SubOK, OrderOK, Before
    <3> QED
      BY <2>2, <2>4, <3>1
  <2> QED
    BY <2>3, <2>7, <2>8 DEF Got, Range
<1> QED
  BY <1>1, Ordered, Covered, PTL
===============================================================================
