-------------------------- MODULE FrameSocketProofs --------------------------
(***************************************************************************)
(* Proofs about FrameSocket, for any frames, lengths and callers: the      *)
(* noise counters are used once and in order, OnDisconnect is started      *)
(* once, and frames come out whole and in order.                           *)
(***************************************************************************)
EXTENDS FrameSocket, FiniteSetTheorems, TLAPS

\* One step of Next, flattened into its actions.
NextActions ==
    \/ ReadMessage
    \/ ConnectionLost
    \/ ReadFails
    \/ ProcessHeader
    \/ ProcessBody
    \/ ConsumeFrame
    \/ ConsumerEnds
    \/ \E w \in {"pump", "stop"} : Close(w)
    \/ \E w \in {"pump", "stop"} : StartCallback(w)
    \/ OnDisconnect
    \/ Stop
    \/ StopClears
    \/ \E c \in Callers : SendFrame(c)
    \/ \E n \in pending : Write(n)
    \/ \E c \in Callers : SendReturns(c)
    \/ \E c \in Callers : ContextDone(c)

\* Next is the disjunction of its actions.
LEMMA NextSplit == Next => Alive /\ NextActions
BY DEF Next, Goroutines, Environment, NextActions

-----------------------------------------------------------------------------
(* Types.                                                                  *)

\* What each part of TypeOK depends on.
LEMMA ReadFrame == ASSUME ReadOK, UNCHANGED readVars PROVE ReadOK'
BY DEF ReadOK, readVars

LEMMA ConsumeFrameKeeps == ASSUME ConsumeOK, UNCHANGED consumeVars PROVE ConsumeOK'
BY DEF ConsumeOK, consumeVars

LEMMA CloseFrame == ASSUME CloseOK, UNCHANGED closeVars PROVE CloseOK'
BY DEF CloseOK, closeVars

LEMMA WriteFrame == ASSUME WriteOK, UNCHANGED writeVars PROVE WriteOK'
BY DEF WriteOK, writeVars

\* A step that leaves the stream alone and moves the pump.
LEMMA PumpMoves ==
    ASSUME ReadOK, UNCHANGED <<ends, pos, msg, incoming, partial, frame, split>>,
           pump' \in {"read", "process", "hand", "close", "ended", "panicked"}
    PROVE  ReadOK'
BY DEF ReadOK

\* conn.Read: the message begins with the bytes of a partial header.
LEMMA ReadMessageType == ASSUME TypeOK, ReadMessage PROVE ReadOK'
<1>1. PICK to \in pos + 1 .. StreamLen :
         /\ msg' = [from |-> pos - partial, to |-> to]
         /\ pos' = to
         /\ split' = (split \/ InBody(to))
  BY DEF ReadMessage, WithPartialHeader
<1>2. pos \in Nat /\ partial \in Nat /\ partial <= pos
  BY HeaderAssumption DEF TypeOK, ReadOK
<1>3. to \in Int /\ to >= pos + 1
  BY <1>2
<1>4. split' \in BOOLEAN
  BY <1>1, Zenon
<1>5. /\ pos' \in Nat /\ msg' \in [from : Nat, to : Nat]
      /\ msg'.from <= msg'.to /\ msg'.to = pos'
  BY <1>1, <1>2, <1>3
<1>6. partial' = 0 /\ pump' = "process" /\ UNCHANGED <<ends, incoming, frame>>
  BY DEF ReadMessage
<1> QED
  BY <1>4, <1>5, <1>6, HeaderAssumption DEF TypeOK, ReadOK

\* The frames follow each other in the stream.
LEMMA StreamLayout ==
    ASSUME ends \in Streams
    PROVE  /\ Len(ends) \in Nat
           /\ \A i \in 1..Len(ends) + 1 : Start(i) \in Nat
           /\ \A i \in Frames : i + 1 \in 1..Len(ends) + 1 /\ Start(i + 1) = ends[i]
           /\ \A i \in Frames : BodyLen(i) \in Nat /\ Start(i + 1) = Start(i) + HeaderLen + BodyLen(i)
           /\ \A i, j \in 1..Len(ends) + 1 : i < j => Start(j) >= Start(i) + HeaderLen
<1>0. ends \in Seq(Nat) /\ Len(ends) \in Nat /\ HeaderLen \in Nat
  BY StreamAssumption, HeaderAssumption
<1>1. \A i \in 1..Len(ends) : /\ ends[i] \in Nat /\ ends[i] >= HeaderLen
                              /\ \A j \in i + 1..Len(ends) : ends[j] >= ends[i] + HeaderLen
  BY <1>0, StreamAssumption
<1>2. \A i \in 1..Len(ends) + 1 : Start(i) \in Nat
  BY <1>0, <1>1 DEF Start
<1>3. \A i \in Frames : i + 1 \in 1..Len(ends) + 1 /\ Start(i + 1) = ends[i]
  BY <1>0 DEF Start, Frames
<1>4. ASSUME NEW i \in 1..Len(ends) + 1, NEW j \in 1..Len(ends) + 1, i < j
      PROVE  Start(j) >= Start(i) + HeaderLen
  <2>1. Start(j) = ends[j - 1] /\ j - 1 \in 1..Len(ends)
    BY <1>0, <1>4 DEF Start
  <2>2. CASE i = 1
    BY <1>0, <1>1, <2>1, <2>2 DEF Start
  <2>3. CASE i # 1
    <3>1. Start(i) = ends[i - 1] /\ i - 1 \in 1..Len(ends) /\ j - 1 \in (i - 1) + 1..Len(ends)
      BY <1>0, <1>4, <2>3 DEF Start
    <3> QED
      BY <1>1, <2>1, <3>1
  <2> QED
    BY <2>2, <2>3
<1>5. \A i \in Frames : BodyLen(i) \in Nat /\ Start(i + 1) = Start(i) + HeaderLen + BodyLen(i)
  <2> SUFFICES ASSUME NEW i \in Frames
               PROVE  BodyLen(i) \in Nat /\ Start(i + 1) = Start(i) + HeaderLen + BodyLen(i)
    OBVIOUS
  <2>1. i \in 1..Len(ends) + 1 /\ i + 1 \in 1..Len(ends) + 1 /\ i < i + 1
    BY <1>0 DEF Frames
  <2>2. Start(i + 1) = ends[i] /\ Start(i) \in Nat /\ Start(i + 1) \in Nat
    BY <1>2, <1>3, <2>1
  <2>3. Start(i + 1) >= Start(i) + HeaderLen
    BY <1>4, <2>1
  <2> QED
    BY <1>0, <2>2, <2>3 DEF BodyLen
<1> QED
  BY <1>0, <1>2, <1>3, <1>4, <1>5

\* The length of a header's frame is a number.
LEMMA HeaderLength ==
    ASSUME TypeOK, HeaderAt(msg) # None
    PROVE  HeaderAt(msg) \in Nat /\ BodyLen(HeaderAt(msg)) \in Nat
<1>1. \E i \in Frames : Start(i) = msg.from
  BY DEF HeaderAt
<1>2. HeaderAt(msg) \in Frames
  BY <1>1 DEF HeaderAt
<1> QED
  BY <1>2, StreamLayout DEF Frames, TypeOK, ReadOK

\* processData at the start of a frame.
LEMMA ProcessHeaderType == ASSUME TypeOK, ProcessHeader PROVE ReadOK'
<1>0. /\ UNCHANGED <<ends, pos, split>> /\ msg \in [from : Nat, to : Nat] /\ pos \in Nat
      /\ msg.from <= msg.to /\ msg.to = pos /\ HeaderLen \in Nat \ {0}
  BY HeaderAssumption DEF ProcessHeader, TypeOK, ReadOK
<1>1. CASE ShortHeader(msg)
  <2>1. /\ partial' = Size(msg) /\ msg' = [msg EXCEPT !.from = msg.to]
        /\ pump' = "read" /\ UNCHANGED <<incoming, frame>>
    BY <1>1 DEF ProcessHeader
  <2>2. partial' \in 0..HeaderLen - 1 /\ partial' <= pos
    BY <1>0, <1>1, <2>1 DEF ShortHeader, Size
  <2>3. /\ msg' \in [from : Nat, to : Nat] /\ msg'.from <= msg'.to /\ msg'.to = pos
    BY <1>0, <2>1
  <2> QED
    BY <1>0, <2>1, <2>2, <2>3 DEF TypeOK, ReadOK
<1>2. CASE ~ShortHeader(msg)
  <2> DEFINE id == IF HeaderAt(msg) = None THEN 0 ELSE HeaderAt(msg)
             body == [msg EXCEPT !.from = msg.from + HeaderLen]
  <2>1. PICK n \in (IF HeaderAt(msg) = None THEN GarbageLens ELSE {BodyLen(HeaderAt(msg))}) :
           IF Size(body) >= n
           THEN FrameComplete(id, [body EXCEPT !.from = body.from + n])
           ELSE /\ incoming' = [id |-> id, len |-> n, start |-> body.from,
                                received |-> FirstReceived(msg)]
                /\ msg' = [body EXCEPT !.from = body.to]
                /\ pump' = "read"
                /\ UNCHANGED frame
    BY <1>2 DEF ProcessHeader
  <2>2. n \in Nat
    BY HeaderLength, StreamAssumption
  <2>3. id \in Nat
    BY HeaderLength
  <2>4. body \in [from : Nat, to : Nat] /\ body.from <= body.to /\ body.to = pos
    BY <1>0, <1>2 DEF ShortHeader, Size
  <2>5. Size(msg) \in Nat
    BY <1>0 DEF Size
  <2>6. partial' = 0
    BY <1>2 DEF ProcessHeader
  <2> HIDE DEF id, body
  <2>7. CASE Size(body) >= n
    <3>1. /\ frame' = id /\ msg' = [body EXCEPT !.from = body.from + n] /\ incoming' = None
          /\ pump' = "hand"
      BY <2>1, <2>7 DEF FrameComplete
    <3>2. msg' \in [from : Nat, to : Nat] /\ msg'.from <= msg'.to /\ msg'.to = pos
      BY <2>2, <2>4, <2>7, <3>1 DEF Size
    <3> QED
      BY <1>0, <2>3, <2>6, <3>1, <3>2 DEF TypeOK, ReadOK
  <2>8. CASE ~(Size(body) >= n)
    <3>1. /\ incoming' = [id |-> id, len |-> n, start |-> body.from,
                          received |-> FirstReceived(msg)]
          /\ msg' = [body EXCEPT !.from = body.to] /\ pump' = "read" /\ UNCHANGED frame
      BY <2>1, <2>8
    <3>2. msg' \in [from : Nat, to : Nat] /\ msg'.from <= msg'.to /\ msg'.to = pos
      BY <2>4, <3>1
    <3>3. incoming' \in [id : Nat, len : Nat, start : Nat, received : Nat]
      BY <2>2, <2>3, <2>4, <2>5, <3>1 DEF FirstReceived
    <3> QED
      BY <1>0, <2>6, <3>1, <3>2, <3>3 DEF TypeOK, ReadOK
  <2> QED
    BY <2>7, <2>8
<1> QED
  BY <1>1, <1>2

\* processData inside a frame.
LEMMA ProcessBodyType == ASSUME TypeOK, ProcessBody PROVE ReadOK'
<1> DEFINE missing == incoming.len - incoming.received
<1>0. /\ UNCHANGED <<ends, pos, partial, split>> /\ msg \in [from : Nat, to : Nat]
      /\ pos \in Nat /\ msg.from <= msg.to /\ msg.to = pos
      /\ incoming \in [id : Nat, len : Nat, start : Nat, received : Nat]
  BY DEF ProcessBody, TypeOK, ReadOK
<1>1. InPlace(msg) \in Nat
  BY <1>0 DEF InPlace
<1>2. missing \in Int /\ Size(msg) \in Nat
  BY <1>0 DEF Size
<1>3. CASE Size(msg) >= missing /\ missing < 0
  <2>1. pump' = "panicked" /\ UNCHANGED <<msg, incoming, frame>>
    BY <1>3 DEF ProcessBody
  <2> QED
    BY <1>0, <2>1, PumpMoves DEF TypeOK
<1>4. CASE Size(msg) >= missing /\ ~(missing < 0)
  <2>1. FrameComplete(InPlace(msg), [msg EXCEPT !.from = msg.from + missing])
    BY <1>4 DEF ProcessBody
  <2> HIDE DEF missing
  <2>2. /\ frame' = InPlace(msg) /\ msg' = [msg EXCEPT !.from = msg.from + missing]
        /\ incoming' = None /\ pump' = "hand"
    BY <2>1 DEF FrameComplete
  <2>3. msg' \in [from : Nat, to : Nat] /\ msg'.from <= msg'.to /\ msg'.to = pos
    BY <1>0, <1>2, <1>4, <2>2 DEF Size
  <2> QED
    BY <1>0, <1>1, <2>2, <2>3 DEF TypeOK, ReadOK
<1>5. CASE ~(Size(msg) >= missing)
  <2>1. /\ incoming' = [incoming EXCEPT !.received = incoming.received + Size(msg),
                                        !.id = InPlace(msg)]
        /\ msg' = [msg EXCEPT !.from = msg.to] /\ pump' = "read" /\ UNCHANGED frame
    BY <1>5 DEF ProcessBody
  <2>2. msg' \in [from : Nat, to : Nat] /\ msg'.from <= msg'.to /\ msg'.to = pos
    BY <1>0, <2>1
  <2>3. incoming.received + Size(msg) \in Nat
    BY <1>0, <1>2
  <2>4. incoming' \in [id : Nat, len : Nat, start : Nat, received : Nat]
    BY <1>0, <1>1, <2>1, <2>3
  <2> QED
    BY <1>0, <2>1, <2>2, <2>4 DEF TypeOK, ReadOK
<1> QED
  BY <1>3, <1>4, <1>5

\* Every step keeps the types.
LEMMA TypeStep == ASSUME TypeOK, NextActions PROVE TypeOK'
<1> USE DEF TypeOK
<1>1. ASSUME ReadMessage PROVE TypeOK'
  BY <1>1, ReadMessageType, ConsumeFrameKeeps, CloseFrame, WriteFrame DEF ReadMessage
<1>2. ASSUME ReadFails PROVE TypeOK'
  BY <1>2, PumpMoves, ConsumeFrameKeeps, CloseFrame, WriteFrame DEF ReadFails
<1>3. ASSUME ProcessHeader PROVE TypeOK'
  BY <1>3, ProcessHeaderType, ConsumeFrameKeeps, CloseFrame, WriteFrame DEF ProcessHeader
<1>4. ASSUME ProcessBody PROVE TypeOK'
  BY <1>4, ProcessBodyType, ConsumeFrameKeeps, CloseFrame, WriteFrame DEF ProcessBody
<1>5. ASSUME ConsumeFrame PROVE TypeOK'
  <2>1. ReadOK'
    BY <1>5, PumpMoves DEF ConsumeFrame
  <2>2. ConsumeOK'
    BY <1>5 DEF ConsumeFrame, ConsumeOK
  <2> QED
    BY <1>5, <2>1, <2>2, CloseFrame, WriteFrame DEF ConsumeFrame
<1>6. ASSUME ConsumerEnds PROVE TypeOK'
  <2>1. ConsumeOK'
    BY <1>6 DEF ConsumerEnds, ConsumeOK
  <2> QED
    BY <1>6, <2>1, ReadFrame, CloseFrame, WriteFrame DEF ConsumerEnds
<1>7. ASSUME NEW w \in {"pump", "stop"}, Close(w) PROVE TypeOK'
  <2>1. pump' \in {pump, "ended"} /\ stopper' \in {stopper, "done"} /\ closer' \in {closer, w}
    BY <1>7 DEF Close, Closed
  <2>2. ReadOK'
    BY <1>7, <2>1, PumpMoves DEF Close, ReadOK
  <2>3. CloseOK'
    BY <1>7, <2>1 DEF Close, CloseOK
  <2> QED
    BY <1>7, <2>2, <2>3, ConsumeFrameKeeps, WriteFrame DEF Close
<1>8. ASSUME NEW w \in {"pump", "stop"}, StartCallback(w) PROVE TypeOK'
  <2>1. pump' \in {pump, "ended"} /\ stopper' \in {stopper, "done"}
    BY <1>8 DEF StartCallback, Closed
  <2>2. ReadOK'
    BY <1>8, <2>1, PumpMoves DEF StartCallback, ReadOK
  <2>3. calls' \in Nat /\ crashed' \in BOOLEAN /\ closer' = "free"
    <3>1. CASE callback
      BY <1>8, <3>1 DEF StartCallback, CloseOK
    <3>2. CASE ~callback
      BY <1>8, <3>2 DEF StartCallback, CloseOK
    <3> QED
      BY <3>1, <3>2
  <2>4. CloseOK'
    BY <1>8, <2>1, <2>3 DEF StartCallback, CloseOK
  <2> QED
    BY <1>8, <2>2, <2>4, ConsumeFrameKeeps, WriteFrame DEF StartCallback
<1>9. ASSUME OnDisconnect PROVE TypeOK'
  <2>1. callback' \in BOOLEAN
    BY <1>9, Zenon DEF OnDisconnect
  <2>2. CloseOK'
    BY <1>9, <2>1 DEF OnDisconnect, CloseOK
  <2> QED
    BY <1>9, <2>2, ReadFrame, ConsumeFrameKeeps, WriteFrame DEF OnDisconnect
<1>10. ASSUME Stop PROVE TypeOK'
  <2>1. CloseOK'
    BY <1>10 DEF Stop, CloseOK
  <2> QED
    BY <1>10, <2>1, ReadFrame, ConsumeFrameKeeps, WriteFrame DEF Stop
<1>11. ASSUME StopClears PROVE TypeOK'
  <2>1. CloseOK'
    BY <1>11 DEF StopClears, CloseOK
  <2> QED
    BY <1>11, <2>1, ReadFrame, ConsumeFrameKeeps, WriteFrame DEF StopClears
<1>12. ASSUME NEW c \in Callers, SendFrame(c) PROVE TypeOK'
  <2>1. WriteOK'
    BY <1>12 DEF SendFrame, WriteOK
  <2> QED
    BY <1>12, <2>1, ReadFrame, ConsumeFrameKeeps, CloseFrame DEF SendFrame
<1>13. ASSUME NEW n \in pending, Write(n) PROVE TypeOK'
  <2>0. n \in Nat /\ pending' \in SUBSET Nat /\ UNCHANGED <<caller, seal, writes, gaveUp>>
    BY <1>13 DEF Write, WriteOK
  <2>1. WriteOK'
    <3>1. CASE oversize' = oversize \cup {n} /\ wire' = wire
      BY <2>0, <3>1 DEF WriteOK
    <3>2. CASE wire' = (IF conn /\ ~lost THEN Append(wire, n) ELSE wire) /\ oversize' = oversize
      <4>1. wire' \in Seq(Nat)
        BY <2>0, <3>2 DEF WriteOK
      <4> QED
        BY <2>0, <3>2, <4>1 DEF WriteOK
    <3> QED
      BY <1>13, <3>1, <3>2 DEF Write
  <2> QED
    BY <1>13, <2>1, ReadFrame, ConsumeFrameKeeps, CloseFrame DEF Write
<1>14. ASSUME NEW c \in Callers, SendReturns(c) PROVE TypeOK'
  <2>1. WriteOK'
    BY <1>14 DEF SendReturns, WriteOK
  <2> QED
    BY <1>14, <2>1, ReadFrame, ConsumeFrameKeeps, CloseFrame DEF SendReturns
<1>15. ASSUME NEW c \in Callers, ContextDone(c) PROVE TypeOK'
  <2>1. gaveUp' \in BOOLEAN
    BY <1>15, Zenon DEF ContextDone, WriteOK
  <2>2. WriteOK'
    BY <1>15, <2>1 DEF ContextDone, WriteOK
  <2> QED
    BY <1>15, <2>2, ReadFrame, ConsumeFrameKeeps, CloseFrame DEF ContextDone
<1>16. ASSUME ConnectionLost PROVE TypeOK'
  <2>1. CloseOK'
    BY <1>16 DEF ConnectionLost, CloseOK
  <2> QED
    BY <1>16, <2>1, ReadFrame, ConsumeFrameKeeps, WriteFrame DEF ConnectionLost
<1> QED
  BY <1>1, <1>2, <1>3, <1>4, <1>5, <1>6, <1>7, <1>8, <1>9, <1>10, <1>11, <1>12, <1>13,
     <1>14, <1>15, <1>16 DEF NextActions

-----------------------------------------------------------------------------
(* The noise counters.                                                     *)

\* As long as no caller has given up, at most the last frame is not yet written,
\* its caller is the one that holds the lock, and everything before it is on the
\* wire or was too large, while the connection is there.
InOrder ==
    /\ \A n \in pending : n = writes - 1 /\ \E c \in Callers : caller[c] = "waiting" /\ seal[c] = n
    /\ conn /\ ~lost => \A n \in 0..writes - 1 :
          n \in pending \/ n \in oversize \/ \E k \in 1..Len(wire) : wire[k] = n

CounterInv ==
    /\ CountersInOrder
    /\ \A n \in pending : n < writes
    /\ \A c, d \in Callers : caller[c] = "waiting" /\ caller[d] = "waiting" => c = d
    /\ gaveUp \/ InOrder

\* What CounterInv depends on; a connection only goes away.
LEMMA CounterFrame ==
    ASSUME CounterInv, UNCHANGED writeVars, conn' => conn, lost => lost'
    PROVE  CounterInv'
BY DEF CounterInv, CountersInOrder, InOrder, writeVars

\* A new frame takes the next counter; nobody waits, so that nothing is pending.
LEMMA SendFrameKeeps ==
    ASSUME TypeOK, CounterInv, NEW c \in Callers, SendFrame(c)
    PROVE  CounterInv'
<1> USE DEF TypeOK, WriteOK
<1>1. /\ caller[c] = "idle" /\ \A d \in Callers : caller[d] # "waiting"
      /\ caller' = [caller EXCEPT ![c] = "waiting"] /\ seal' = [seal EXCEPT ![c] = writes]
      /\ writes' = writes + 1 /\ pending' = pending \cup {writes}
      /\ UNCHANGED <<wire, oversize, gaveUp, conn, lost>>
  BY DEF SendFrame, WriteLockFree, closeVars
<1>2. CountersInOrder'
  BY <1>1 DEF CounterInv, CountersInOrder
<1>3. \A n \in pending' : n < writes'
  BY <1>1 DEF CounterInv
<1>4. \A b, d \in Callers : caller'[b] = "waiting" /\ caller'[d] = "waiting" => b = d
  BY <1>1
<1>5. ASSUME ~gaveUp PROVE InOrder'
  <2>1. pending = {} /\ pending' = {writes}
    BY <1>1, <1>5 DEF CounterInv, InOrder
  <2>2. caller'[c] = "waiting" /\ seal'[c] = writes
    BY <1>1
  <2>3. \A n \in pending' : n = writes' - 1 /\ \E d \in Callers : caller'[d] = "waiting" /\ seal'[d] = n
    BY <1>1, <2>1, <2>2
  <2>4. \A n \in 0..writes' - 1 : n \in 0..writes - 1 \/ n \in pending'
    BY <1>1
  <2>5. InOrder
    BY <1>5 DEF CounterInv
  <2> QED
    BY <1>1, <2>1, <2>3, <2>4, <2>5 DEF InOrder
<1> QED
  BY <1>1, <1>2, <1>3, <1>4, <1>5 DEF CounterInv

\* A writer puts its counter on the wire, or the frame is refused.
LEMMA WriteKeeps ==
    ASSUME TypeOK, CounterInv, NEW n \in pending, Write(n)
    PROVE  CounterInv'
<1> USE DEF TypeOK, WriteOK
<1>1. /\ pending' = pending \ {n} /\ UNCHANGED <<caller, seal, writes, gaveUp, conn, lost>>
      /\ \A m \in oversize : m \in oversize'
  BY DEF Write, closeVars
<1>2. n < writes /\ \A i \in 1..Len(wire) : wire[i] # n
  BY DEF CounterInv, CountersInOrder
<1>3. CASE wire' = wire /\ (conn /\ ~lost => n \in oversize')
  <2>1. CountersInOrder'
    BY <1>1, <1>3 DEF CounterInv, CountersInOrder
  <2>2. ASSUME ~gaveUp PROVE InOrder'
    BY <1>1, <1>3, <2>2 DEF CounterInv, InOrder
  <2> QED
    BY <1>1, <2>1, <2>2 DEF CounterInv
<1>4. CASE conn /\ ~lost /\ wire' = Append(wire, n) /\ oversize' = oversize
  <2>1. /\ Len(wire') = Len(wire) + 1 /\ wire'[Len(wire) + 1] = n
        /\ \A i \in 1..Len(wire) : wire'[i] = wire[i]
    BY <1>4
  <2>2. \A i, j \in 1..Len(wire') : i # j => wire'[i] # wire'[j]
    <3> SUFFICES ASSUME NEW i \in 1..Len(wire) + 1, NEW j \in 1..Len(wire) + 1, i < j
                 PROVE  wire'[i] # wire'[j]
      BY <2>1
    <3>1. i \in 1..Len(wire)
      OBVIOUS
    <3>2. CASE j = Len(wire) + 1
      BY <1>2, <2>1, <3>1, <3>2
    <3>3. CASE j # Len(wire) + 1
      <4>1. j \in 1..Len(wire)
        BY <3>3
      <4> QED
        BY <2>1, <3>1, <4>1 DEF CounterInv, CountersInOrder
    <3> QED
      BY <3>2, <3>3
  <2>3. \A i \in 1..Len(wire') : wire'[i] \notin pending' /\ wire'[i] < writes'
    BY <1>1, <1>2, <2>1 DEF CounterInv, CountersInOrder
  <2>4. ASSUME ~gaveUp
        PROVE  /\ \A i, j \in 1..Len(wire') : i < j => wire'[i] < wire'[j]
               /\ \A i \in 1..Len(wire') : \A m \in 0..wire'[i] :
                     m \in oversize' \/ \E k \in 1..Len(wire') : wire'[k] = m
               /\ InOrder'
    <3>1. n = writes - 1 /\ pending = {n} /\ pending' = {}
      BY <1>1, <2>4 DEF CounterInv, InOrder
    <3>2. \A m \in 0..writes - 1 : m \in oversize' \/ \E k \in 1..Len(wire') : wire'[k] = m
      <4> SUFFICES ASSUME NEW m \in 0..writes - 1, m \notin oversize
                   PROVE  \E k \in 1..Len(wire') : wire'[k] = m
        BY <1>4
      <4>1. CASE m = n
        BY <2>1, <4>1
      <4>2. CASE m # n
        <5>1. PICK k \in 1..Len(wire) : wire[k] = m
          BY <1>4, <2>4, <3>1, <4>2 DEF CounterInv, InOrder
        <5>2. k \in 1..Len(wire') /\ wire'[k] = m
          BY <2>1, <5>1
        <5> QED
          BY <5>2
      <4> QED
        BY <4>1, <4>2
    <3>3. \A i \in 1..Len(wire) : wire[i] \in Nat /\ wire[i] < n
      BY <1>2, <3>1 DEF CounterInv, CountersInOrder
    <3>4. ASSUME NEW i \in 1..Len(wire'), NEW j \in 1..Len(wire'), i < j
          PROVE  wire'[i] < wire'[j]
      <4>1. i \in 1..Len(wire)
        BY <2>1, <3>4
      <4>2. CASE j = Len(wire) + 1
        BY <2>1, <3>3, <4>1, <4>2
      <4>3. CASE j # Len(wire) + 1
        <5>1. j \in 1..Len(wire)
          BY <2>1, <4>3
        <5> QED
          BY <2>1, <2>4, <3>4, <4>1, <5>1 DEF CounterInv, CountersInOrder
      <4> QED
        BY <4>2, <4>3
    <3>5. \A i \in 1..Len(wire') : \A m \in 0..wire'[i] : m \in 0..writes - 1
      BY <2>1, <3>1, <3>3
    <3> QED
      BY <1>1, <3>1, <3>2, <3>4, <3>5 DEF InOrder
  <2>5. CountersInOrder'
    BY <1>1, <2>2, <2>3, <2>4 DEF CountersInOrder
  <2> QED
    BY <1>1, <2>4, <2>5 DEF CounterInv
<1> QED
  BY <1>3, <1>4 DEF Write

\* A caller leaves: its writer is done, or it gives up.
LEMMA CallerLeaves ==
    ASSUME TypeOK, CounterInv, NEW c \in Callers,
           UNCHANGED <<seal, writes, pending, wire, oversize, conn, lost>>,
           caller' = [caller EXCEPT ![c] = "done"], gaveUp => gaveUp',
           caller[c] = "waiting" /\ ~gaveUp' => seal[c] \notin pending
    PROVE  CounterInv'
<1> USE DEF TypeOK, WriteOK
<1>1. ASSUME ~gaveUp' PROVE InOrder'
  BY <1>1 DEF CounterInv, InOrder
<1>2. \A b, d \in Callers : caller'[b] = "waiting" /\ caller'[d] = "waiting" => b = d
  BY DEF CounterInv
<1>3. CountersInOrder'
  BY DEF CounterInv, CountersInOrder
<1> QED
  BY <1>1, <1>2, <1>3 DEF CounterInv

\* Every step keeps CounterInv.
LEMMA CounterStep == ASSUME TypeOK, CounterInv, NextActions PROVE CounterInv'
<1>1. ASSUME UNCHANGED writeVars, conn' => conn, lost => lost' PROVE CounterInv'
  BY <1>1, CounterFrame
<1>2. ASSUME NEW c \in Callers, SendFrame(c) PROVE CounterInv'
  BY <1>2, SendFrameKeeps
<1>3. ASSUME NEW n \in pending, Write(n) PROVE CounterInv'
  BY <1>3, WriteKeeps
<1>4. ASSUME NEW c \in Callers, SendReturns(c) PROVE CounterInv'
  BY <1>4, CallerLeaves DEF SendReturns, closeVars
<1>5. ASSUME NEW c \in Callers, ContextDone(c) PROVE CounterInv'
  <2>1. (gaveUp => gaveUp') /\ (caller[c] = "waiting" /\ ~gaveUp' => seal[c] \notin pending)
    <3>1. CASE caller[c] = "idle" /\ gaveUp' = gaveUp
      BY <3>1
    <3>2. CASE gaveUp' = (gaveUp \/ seal[c] \in pending)
      BY <3>2, Zenon
    <3> QED
      BY <1>5, <3>1, <3>2 DEF ContextDone
  <2> QED
    BY <1>5, <2>1, CallerLeaves DEF ContextDone, closeVars
<1>6. ASSUME ReadMessage \/ ReadFails \/ ProcessHeader \/ ProcessBody \/ ConsumeFrame
      PROVE  UNCHANGED writeVars /\ conn' = conn /\ lost' = lost
  BY <1>6 DEF ReadMessage, ReadFails, ProcessHeader, ProcessBody, ConsumeFrame, closeVars
<1>7. ASSUME ConnectionLost \/ ConsumerEnds \/ OnDisconnect \/ Stop \/ StopClears
      PROVE  UNCHANGED writeVars /\ conn' = conn /\ (lost => lost')
  BY <1>7 DEF ConnectionLost, ConsumerEnds, OnDisconnect, Stop, StopClears, closeVars
<1>8. ASSUME NEW w, Close(w) \/ StartCallback(w)
      PROVE  UNCHANGED writeVars /\ (conn' => conn) /\ lost' = lost
  BY <1>8 DEF Close, StartCallback
<1> QED
  BY <1>1, <1>2, <1>3, <1>4, <1>5, <1>6, <1>7, <1>8 DEF NextActions

-----------------------------------------------------------------------------
(* OnDisconnect.                                                           *)

\* Only the pump's Close gets as far as the callback: Stop takes OnDisconnect away
\* before its own.
ReportInv ==
    /\ DisconnectReportedOnce
    /\ closer # "stop"
    /\ closer = "pump" => pump = "close" /\ calls = 0 /\ ~conn
    /\ calls > 0 => ~conn
    /\ stopper = "close" => ~callback
    /\ ~callback => stopper \in {"close", "done"} \/ calls > 0

\* What ReportInv depends on.
LEMMA ReportFrame ==
    ASSUME ReportInv, UNCHANGED <<pump, conn, callback, closer, stopper, calls, crashed>>
    PROVE  ReportInv'
BY DEF ReportInv, DisconnectReportedOnce

\* The pump goes on, which it does not do once it is in Close.
LEMMA ReportPump ==
    ASSUME TypeOK, ReportInv, Alive, pump \in {"read", "process", "hand"},
           UNCHANGED <<conn, callback, closer, stopper, calls, crashed>>
    PROVE  ReportInv'
BY DEF ReportInv, DisconnectReportedOnce, TypeOK, CloseOK, Alive

\* Every step of a process that runs keeps ReportInv.
LEMMA ReportStep == ASSUME TypeOK, ReportInv, Alive, NextActions PROVE ReportInv'
<1>1. ASSUME ReadMessage \/ ReadFails \/ ProcessHeader \/ ProcessBody \/ ConsumeFrame
      PROVE  ReportInv'
  <2>1. pump \in {"read", "process", "hand"} /\ UNCHANGED closeVars
    BY <1>1 DEF ReadMessage, ReadFails, ProcessHeader, ProcessBody, ConsumeFrame
  <2> QED
    BY <2>1, ReportPump DEF closeVars
<1>2. ASSUME NEW w \in {"pump", "stop"}, Close(w) PROVE ReportInv'
  <2>1. /\ Closing(w) /\ closer = "free" /\ ~conn'
        /\ UNCHANGED <<callback, calls, crashed>>
    BY <1>2 DEF Close
  <2>2. CASE conn /\ callback
    <3>1. closer' = w /\ UNCHANGED <<pump, stopper>>
      BY <1>2, <2>2 DEF Close
    <3>2. w = "pump" /\ pump = "close"
      BY <2>1, <2>2 DEF Closing, ReportInv
    <3>3. calls = 0
      BY <2>2 DEF ReportInv, TypeOK, CloseOK
    <3> QED
      BY <2>1, <3>1, <3>2, <3>3 DEF ReportInv, DisconnectReportedOnce
  <2>3. CASE ~(conn /\ callback)
    <3>1. closer' = closer /\ Closed(w)
      BY <1>2, <2>3 DEF Close
    <3>2. CASE w = "pump"
      <4>1. pump = "close" /\ pump' = "ended" /\ stopper' = stopper
        BY <2>1, <3>1, <3>2 DEF Closing, Closed
      <4> QED
        BY <2>1, <3>1, <4>1 DEF ReportInv, DisconnectReportedOnce
    <3>3. CASE w = "stop"
      <4>1. stopper = "close" /\ stopper' = "done" /\ pump' = pump
        BY <2>1, <3>1, <3>3 DEF Closing, Closed
      <4> QED
        BY <2>1, <3>1, <4>1 DEF ReportInv, DisconnectReportedOnce
    <3> QED
      BY <3>2, <3>3
  <2> QED
    BY <2>2, <2>3
<1>3. ASSUME NEW w \in {"pump", "stop"}, StartCallback(w) PROVE ReportInv'
  <2>1. w = "pump" /\ closer = "pump" /\ pump = "close" /\ calls = 0 /\ ~conn
    BY <1>3 DEF StartCallback, ReportInv
  <2>2. pump' = "ended" /\ UNCHANGED <<stopper, conn, callback>> /\ closer' = "free"
    BY <1>3, <2>1 DEF StartCallback, Closed
  <2>3. CASE callback
    <3>1. calls' = 1 /\ crashed' = crashed
      BY <1>3, <2>1, <2>3 DEF StartCallback
    <3> QED
      BY <2>1, <2>2, <2>3, <3>1 DEF ReportInv, DisconnectReportedOnce, Alive
  <2>4. CASE ~callback
    <3>1. calls' = 0
      BY <1>3, <2>1, <2>4 DEF StartCallback
    <3>2. stopper \in {"close", "done"}
      BY <2>1, <2>4 DEF ReportInv
    <3> QED
      BY <2>1, <2>2, <2>4, <3>1, <3>2 DEF ReportInv, DisconnectReportedOnce
  <2> QED
    BY <2>3, <2>4
<1>4. ASSUME OnDisconnect PROVE ReportInv'
  <2>1. /\ calls > 0 /\ (callback' => callback)
        /\ UNCHANGED <<pump, conn, closer, stopper, calls, crashed>>
    BY <1>4, Zenon DEF OnDisconnect, readVars
  <2> QED
    BY <2>1 DEF ReportInv, DisconnectReportedOnce
<1>5. ASSUME Stop PROVE ReportInv'
  <2>1. /\ stopper = "idle" /\ stopper' \in {"done", "clear"}
        /\ UNCHANGED <<pump, conn, callback, closer, calls, crashed>>
    BY <1>5 DEF Stop, readVars
  <2> QED
    BY <2>1 DEF ReportInv, DisconnectReportedOnce
<1>6. ASSUME StopClears PROVE ReportInv'
  <2>1. /\ stopper = "clear" /\ stopper' = "close" /\ ~callback'
        /\ UNCHANGED <<pump, conn, closer, calls, crashed>>
    BY <1>6 DEF StopClears, readVars
  <2> QED
    BY <2>1 DEF ReportInv, DisconnectReportedOnce
<1>7. ASSUME ConnectionLost \/ ConsumerEnds PROVE ReportInv'
  BY <1>7, ReportFrame DEF ConnectionLost, ConsumerEnds, readVars, closeVars
<1>8. ASSUME NEW c, SendFrame(c) \/ SendReturns(c) \/ ContextDone(c) \/ Write(c)
      PROVE  ReportInv'
  <2>1. UNCHANGED <<pump, conn, callback, closer, stopper, calls, crashed>>
    BY <1>8 DEF SendFrame, SendReturns, ContextDone, Write, readVars, closeVars
  <2> QED
    BY <2>1, ReportFrame
<1> QED
  BY <1>1, <1>2, <1>3, <1>4, <1>5, <1>6, <1>7, <1>8 DEF NextActions

-----------------------------------------------------------------------------
(* The frames.                                                             *)

\* Frames that the pump has taken out of the stream.
Taken == passed + (IF pump = "hand" THEN 1 ELSE 0)

\* No message has ended inside a body so far: no frame is ever half put together, the
\* next byte is where a header begins, but for the bytes of a partial header, and the
\* frame in hand is the one that the read counter is at.
Whole ==
    /\ pump # "panicked" /\ failed = 0 /\ reads = passed /\ incoming = None
    /\ pos <= StreamLen /\ ~InBody(pos)
    /\ Taken <= Len(ends) /\ msg.from - partial = Start(Taken + 1)
    /\ pump = "hand" => frame = Taken
    /\ IF pump \in {"process", "hand"} THEN partial = 0 ELSE msg.from = pos
    /\ pump = "process" => Size(msg) > 0

IntactInv == split \/ Whole

\* What IntactInv depends on; the pump stays where it is, or it ends.
LEMMA IntactFrame ==
    ASSUME TypeOK, IntactInv,
           UNCHANGED <<ends, pos, msg, incoming, partial, frame, split, reads, passed, failed>>,
           pump' = pump \/ (pump \in {"read", "close"} /\ pump' \in {"close", "ended"})
    PROVE  IntactInv'
<1>1. Start(Taken + 1)' = Start(Taken + 1) /\ Taken' = Taken
  BY DEF Start, Taken
<1>2. StreamLen' = StreamLen /\ InBody(pos)' = InBody(pos)
  BY DEF StreamLen, InBody, Frames, Start
<1> QED
  BY <1>1, <1>2 DEF IntactInv, Whole, Size

\* The numbers that the steps of the pump compute with.
LEMMA WholeNumbers ==
    ASSUME TypeOK, Whole
    PROVE  /\ Taken \in Nat /\ Taken + 1 \in 1..Len(ends) + 1 /\ Start(Taken + 1) \in Nat
           /\ StreamLen \in Nat /\ msg.from = Start(Taken + 1) + partial
           /\ pos \in Nat /\ msg.from \in Nat /\ partial \in Nat /\ partial < HeaderLen
           /\ msg.from <= pos /\ msg.to = pos /\ Size(msg) = pos - msg.from
<1>1. /\ pos \in Nat /\ msg.from \in Nat /\ partial \in Nat /\ partial < HeaderLen
      /\ msg.from <= pos /\ msg.to = pos /\ Size(msg) = pos - msg.from
  BY HeaderAssumption DEF TypeOK, ReadOK, Size
<1>2. /\ Len(ends) \in Nat /\ \A i \in 1..Len(ends) + 1 : Start(i) \in Nat
  BY StreamLayout DEF TypeOK, ReadOK
<1>3. Taken \in Nat /\ Taken + 1 \in 1..Len(ends) + 1
  BY <1>2 DEF Whole, Taken, TypeOK, ConsumeOK
<1>4. Start(Taken + 1) \in Nat /\ StreamLen \in Nat
  BY <1>2, <1>3 DEF StreamLen
<1>5. msg.from = Start(Taken + 1) + partial
  BY <1>1, <1>4 DEF Whole
<1> QED
  BY <1>1, <1>3, <1>4, <1>5

\* conn.Read: the message begins with the partial header.
LEMMA ReadMessageKeepsWhole == ASSUME TypeOK, IntactInv, ReadMessage PROVE IntactInv'
<1> SUFFICES ASSUME ~split' PROVE Whole'
  BY DEF IntactInv
<1>1. PICK to \in pos + 1..StreamLen :
         /\ msg' = [from |-> pos - partial, to |-> to]
         /\ pos' = to
         /\ split' = (split \/ InBody(to))
  BY DEF ReadMessage, WithPartialHeader
<1>2. ~split /\ ~InBody(to)
  BY <1>1, Zenon
<1>3. Whole
  BY <1>2 DEF IntactInv
<1>4. /\ pump = "read" /\ pump' = "process" /\ partial' = 0
      /\ UNCHANGED <<ends, incoming, frame, reads, passed, failed>>
  BY DEF ReadMessage, consumeVars
<1>5. Taken' = Taken /\ StreamLen' = StreamLen /\ Start(Taken + 1)' = Start(Taken + 1)
  BY <1>4 DEF Taken, StreamLen, Start
<1>6. to \in Nat /\ to > pos /\ to <= StreamLen
  BY <1>3, WholeNumbers
<1>7. ~InBody(pos)'
  BY <1>1, <1>2, <1>4 DEF InBody, Frames, Start
<1>8. msg.from = pos
  BY <1>3, <1>4 DEF Whole
<1>9. msg'.from = Start(Taken + 1) /\ Size(msg)' > 0
  BY <1>1, <1>3, <1>6, <1>8, WholeNumbers DEF Size
<1>10. (msg.from - partial = Start(Taken + 1))'
  BY <1>3, <1>4, <1>5, <1>9, WholeNumbers
<1> QED
  BY <1>1, <1>3, <1>4, <1>5, <1>6, <1>7, <1>9, <1>10 DEF Whole

\* The header that processData reads is the one of the next frame.
LEMMA NextHeader ==
    ASSUME TypeOK, Whole, pump = "process", ~ShortHeader(msg)
    PROVE  /\ Taken + 1 \in Frames
           /\ HeaderAt(msg) = Taken + 1 /\ HeaderAt(msg) # None
           /\ msg.from = Start(Taken + 1)
           /\ pos - msg.from >= HeaderLen
<1>1. HeaderLen \in Nat \ {0} /\ partial = 0 /\ Len(ends) \in Nat
  BY HeaderAssumption, StreamLayout DEF Whole, TypeOK, ReadOK
<1>2. msg.from = Start(Taken + 1) /\ pos - msg.from >= HeaderLen
  BY <1>1, WholeNumbers DEF ShortHeader
<1>3. Taken + 1 \in Frames
  <2>1. Taken # Len(ends)
    BY <1>1, <1>2, WholeNumbers DEF Whole, StreamLen
  <2> QED
    BY <1>1, <2>1, WholeNumbers DEF Frames
<1>4. ASSUME NEW i \in Frames, Start(i) = msg.from PROVE i = Taken + 1
  <2>1. i \in 1..Len(ends) + 1 /\ Taken + 1 \in 1..Len(ends) + 1
    BY <1>1, <1>3 DEF Frames
  <2>2. Start(i) \in Nat
    BY <1>2, <1>4, WholeNumbers
  <2>3. ~(i < Taken + 1) /\ ~(Taken + 1 < i)
    BY <1>1, <1>2, <1>4, <2>1, <2>2, StreamLayout DEF TypeOK, ReadOK
  <2> QED
    BY <2>1, <2>3, <1>1, WholeNumbers
<1>5. HeaderAt(msg) = Taken + 1
  BY <1>2, <1>3, <1>4 DEF HeaderAt
<1> QED
  BY <1>2, <1>3, <1>5, WholeNumbers, NoneAssumption

\* processData at the start of a frame: what is left is a partial header, or the whole
\* frame is there.
LEMMA ProcessHeaderKeepsWhole == ASSUME TypeOK, IntactInv, ProcessHeader PROVE IntactInv'
<1> SUFFICES ASSUME ~split' PROVE Whole'
  BY DEF IntactInv
<1>0. /\ pump = "process" /\ incoming = None
      /\ UNCHANGED <<ends, pos, split, reads, passed, failed>>
  BY DEF ProcessHeader, consumeVars
<1>1. Whole
  BY <1>0 DEF IntactInv
<1>2. StreamLen' = StreamLen /\ InBody(pos)' = InBody(pos)
  BY <1>0 DEF StreamLen, InBody, Frames, Start
<1>3. partial = 0 /\ msg.from = Start(Taken + 1)
  BY <1>0, <1>1, WholeNumbers DEF Whole
<1>4. CASE ShortHeader(msg)
  <2>1. /\ partial' = Size(msg) /\ msg' = [msg EXCEPT !.from = msg.to]
        /\ pump' = "read" /\ UNCHANGED <<incoming, frame>>
    BY <1>4 DEF ProcessHeader
  <2>2. Taken' = Taken /\ Start(Taken + 1)' = Start(Taken + 1)
    BY <1>0, <2>1 DEF Taken, Start
  <2>3. msg'.from = pos
    BY <1>1, <2>1, WholeNumbers DEF TypeOK, ReadOK
  <2>4. (msg.from - partial = Start(Taken + 1))'
    BY <1>1, <1>3, <2>1, <2>2, <2>3, WholeNumbers
  <2> QED
    BY <1>0, <1>1, <1>2, <2>1, <2>2, <2>3, <2>4 DEF Whole
<1>5. CASE ~ShortHeader(msg)
  <2> DEFINE id == IF HeaderAt(msg) = None THEN 0 ELSE HeaderAt(msg)
             body == [msg EXCEPT !.from = msg.from + HeaderLen]
  <2>1. PICK n \in (IF HeaderAt(msg) = None THEN GarbageLens ELSE {BodyLen(HeaderAt(msg))}) :
           IF Size(body) >= n
           THEN FrameComplete(id, [body EXCEPT !.from = body.from + n])
           ELSE /\ incoming' = [id |-> id, len |-> n, start |-> body.from,
                                received |-> FirstReceived(msg)]
                /\ msg' = [body EXCEPT !.from = body.to]
                /\ pump' = "read"
                /\ UNCHANGED frame
    BY <1>5 DEF ProcessHeader
  <2>2. Taken + 1 \in Frames /\ HeaderAt(msg) = Taken + 1 /\ HeaderAt(msg) # None
    BY <1>0, <1>1, <1>5, NextHeader
  <2>3. n = BodyLen(Taken + 1) /\ id = Taken + 1
    BY <2>1, <2>2
  <2>4. /\ n \in Nat /\ Start(Taken + 1 + 1) = Start(Taken + 1) + HeaderLen + n
    BY <2>2, <2>3, StreamLayout DEF TypeOK, ReadOK
  <2>5. HeaderLen \in Nat /\ pos - msg.from >= HeaderLen
    BY <1>0, <1>1, <1>5, NextHeader, HeaderAssumption
  <2>6. body \in [from : Nat, to : Nat] /\ body.from = msg.from + HeaderLen /\ body.to = pos
    BY <1>1, <2>5, WholeNumbers DEF TypeOK, ReadOK
  <2>7. Size(body) = pos - (msg.from + HeaderLen)
    BY <2>6 DEF Size
  <2> HIDE DEF id, body
  <2>8. Size(body) >= n
    <3> SUFFICES ASSUME ~(Size(body) >= n) PROVE FALSE
      OBVIOUS
    <3>1. Start(Taken + 1) + HeaderLen <= pos /\ pos < Start(Taken + 1 + 1)
      BY <1>1, <1>3, <2>4, <2>5, <2>7, WholeNumbers
    <3>2. InBody(pos)
      BY <2>2, <3>1 DEF InBody
    <3> QED
      BY <1>1, <3>2 DEF Whole
  <2>9. /\ frame' = Taken + 1 /\ msg' = [body EXCEPT !.from = body.from + n]
        /\ incoming' = None /\ pump' = "hand"
    BY <2>1, <2>3, <2>8 DEF FrameComplete
  <2>10. partial' = 0
    BY <1>5 DEF ProcessHeader
  <2>11. Taken' = Taken + 1
    BY <1>0, <1>1, <2>9, WholeNumbers DEF Taken, TypeOK, ConsumeOK
  <2>12. Start(Taken + 1)' = Start(Taken + 1 + 1)
    BY <1>0, <2>11 DEF Start
  <2>13. msg'.from = Start(Taken + 1 + 1)
    BY <1>1, <1>3, <2>4, <2>5, <2>6, <2>9, WholeNumbers
  <2>14. (msg.from - partial = Start(Taken + 1))'
    BY <1>1, <1>3, <2>4, <2>5, <2>10, <2>12, <2>13, WholeNumbers
  <2>15. Taken' <= Len(ends)'
    BY <1>0, <2>2, <2>11 DEF Frames
  <2> QED
    BY <1>0, <1>1, <1>2, <2>9, <2>10, <2>11, <2>14, <2>15 DEF Whole
<1> QED
  BY <1>4, <1>5

\* The consumer opens the frame with the counter that it was sealed with.
LEMMA ConsumeFrameKeepsWhole == ASSUME TypeOK, IntactInv, ConsumeFrame PROVE IntactInv'
<1> SUFFICES ASSUME ~split' PROVE Whole'
  BY DEF IntactInv
<1>0. /\ pump = "hand" /\ pump' = (IF Size(msg) > 0 THEN "process" ELSE "read")
      /\ reads' = reads + 1 /\ UNCHANGED <<ends, pos, msg, incoming, partial, frame, split>>
  BY DEF ConsumeFrame
<1>1. Whole
  BY <1>0 DEF IntactInv
<1>2. StreamLen' = StreamLen /\ InBody(pos)' = InBody(pos) /\ Size(msg)' = Size(msg)
  BY <1>0 DEF StreamLen, InBody, Frames, Start, Size
<1>3. frame = passed + 1 /\ reads = passed /\ partial = 0 /\ passed \in Nat
  BY <1>0, <1>1 DEF Whole, Taken, TypeOK, ConsumeOK
<1>4. passed' = passed + 1 /\ failed' = failed
  BY <1>3 DEF ConsumeFrame
<1>5. Taken' = Taken
  BY <1>0, <1>3, <1>4 DEF Taken
<1>6. Start(Taken + 1)' = Start(Taken + 1)
  BY <1>0, <1>5 DEF Start
<1>7. CASE Size(msg) > 0
  BY <1>0, <1>1, <1>2, <1>3, <1>4, <1>5, <1>6, <1>7 DEF Whole
<1>8. CASE ~(Size(msg) > 0)
  <2>1. msg.from = pos
    BY <1>1, <1>8, WholeNumbers
  <2> QED
    BY <1>0, <1>1, <1>2, <1>3, <1>4, <1>5, <1>6, <1>8, <2>1 DEF Whole
<1> QED
  BY <1>7, <1>8

\* Every step keeps IntactInv.
LEMMA IntactStep == ASSUME TypeOK, ReportInv, IntactInv, NextActions PROVE IntactInv'
<1>1. ASSUME ReadMessage \/ ProcessHeader \/ ConsumeFrame PROVE IntactInv'
  BY <1>1, ReadMessageKeepsWhole, ProcessHeaderKeepsWhole, ConsumeFrameKeepsWhole
<1>2. ASSUME ProcessBody PROVE IntactInv'
  <2>1. split /\ split' = split
    BY <1>2 DEF ProcessBody, IntactInv, Whole
  <2> QED
    BY <2>1 DEF IntactInv
<1>3. ASSUME ReadFails PROVE IntactInv'
  BY <1>3, IntactFrame DEF ReadFails, consumeVars
<1>4. ASSUME NEW w \in {"pump", "stop"}, Close(w) PROVE IntactInv'
  <2>1. pump' = pump \/ (pump = "close" /\ pump' = "ended")
    BY <1>4 DEF Close, Closing, Closed
  <2> QED
    BY <1>4, <2>1, IntactFrame DEF Close, consumeVars
<1>5. ASSUME NEW w \in {"pump", "stop"}, StartCallback(w) PROVE IntactInv'
  <2>1. pump' = pump \/ (pump = "close" /\ pump' = "ended")
    BY <1>5 DEF StartCallback, Closed, ReportInv
  <2> QED
    BY <1>5, <2>1, IntactFrame DEF StartCallback, consumeVars
<1>6. ASSUME ConnectionLost \/ ConsumerEnds \/ OnDisconnect \/ Stop \/ StopClears
      PROVE  IntactInv'
  <2>1. UNCHANGED readVars /\ UNCHANGED <<reads, passed, failed>>
    BY <1>6 DEF ConnectionLost, ConsumerEnds, OnDisconnect, Stop, StopClears, consumeVars
  <2> QED
    BY <2>1, IntactFrame DEF readVars
<1>7. ASSUME NEW c, SendFrame(c) \/ SendReturns(c) \/ ContextDone(c) \/ Write(c)
      PROVE  IntactInv'
  <2>1. UNCHANGED readVars /\ UNCHANGED <<reads, passed, failed>>
    BY <1>7 DEF SendFrame, SendReturns, ContextDone, Write, consumeVars
  <2> QED
    BY <2>1, IntactFrame DEF readVars
<1> QED
  BY <1>1, <1>2, <1>3, <1>4, <1>5, <1>6, <1>7 DEF NextActions

\* The frames taken are the ones that lie before the next byte.
LEMMA TakenAreComplete == ASSUME TypeOK, Whole PROVE Cardinality(Complete) = Taken
<1>1. Len(ends) \in Nat /\ HeaderLen \in Nat \ {0}
  BY StreamLayout, HeaderAssumption DEF TypeOK, ReadOK
<1>2. pos - Size(msg) = msg.from
  BY WholeNumbers
<1>3. ASSUME NEW i \in Frames PROVE i \in 1..Taken <=> Start(i + 1) <= msg.from
  <2>1. /\ i + 1 \in 1..Len(ends) + 1 /\ Taken + 1 \in 1..Len(ends) + 1 /\ i \in Nat \ {0}
        /\ Start(i + 1) \in Nat /\ Taken \in Nat
    BY <1>1, WholeNumbers, StreamLayout DEF TypeOK, ReadOK, Frames
  <2>2. i + 1 < Taken + 1 => Start(Taken + 1) >= Start(i + 1) + HeaderLen
    BY <2>1, StreamLayout DEF TypeOK, ReadOK
  <2>3. Taken + 1 < i + 1 => Start(i + 1) >= Start(Taken + 1) + HeaderLen
    BY <2>1, StreamLayout DEF TypeOK, ReadOK
  <2>4. CASE i = Taken
    BY <2>1, <2>4, WholeNumbers
  <2>5. CASE i < Taken
    BY <1>1, <2>1, <2>2, <2>5, WholeNumbers
  <2>6. CASE i > Taken
    BY <1>1, <2>1, <2>3, <2>6, WholeNumbers
  <2> QED
    BY <2>1, <2>4, <2>5, <2>6
<1>4. \A i \in 1..Taken : i \in Frames
  BY <1>1, WholeNumbers DEF Frames
<1>5. Complete = 1..Taken
  BY <1>2, <1>3, <1>4 DEF Complete
<1>6. 1 \in Int /\ Taken \in Int /\ Taken \in Nat
  BY WholeNumbers
<1>7. Cardinality(1..Taken) = IF 1 > Taken THEN 0 ELSE Taken - 1 + 1
  BY <1>6, FS_Interval
<1> QED
  BY <1>5, <1>6, <1>7

-----------------------------------------------------------------------------
(* The theorems.                                                           *)

SocketInv == TypeOK /\ CounterInv /\ ReportInv /\ IntactInv

\* SocketInv holds initially.
LEMMA InitHolds == Init => SocketInv
<1> SUFFICES ASSUME Init PROVE SocketInv
  OBVIOUS
<1>1. ReadOK
  <2>1. split \in BOOLEAN
    BY Zenon DEF Init
  <2>2. /\ ends \in Streams /\ pos = 0 /\ msg = [from |-> 0, to |-> 0] /\ incoming = None
        /\ partial = 0 /\ pump = "read" /\ frame = 0
    BY DEF Init
  <2> QED
    BY <2>1, <2>2, HeaderAssumption DEF ReadOK
<1>2. ConsumeOK
  BY DEF Init, ConsumeOK
<1>3. CloseOK
  BY DEF Init, CloseOK
<1>4. WriteOK
  <2>1. gaveUp \in BOOLEAN
    BY Zenon DEF Init
  <2>2. /\ caller = [c \in Callers |-> "idle"] /\ seal = [c \in Callers |-> 0]
        /\ writes = 0 /\ pending = {} /\ wire = <<>> /\ oversize = {}
    BY DEF Init
  <2> QED
    BY <2>1, <2>2 DEF WriteOK
<1>5. CounterInv
  BY DEF Init, CounterInv, CountersInOrder, InOrder
<1>6. ReportInv
  BY DEF Init, ReportInv, DisconnectReportedOnce
<1>7. IntactInv
  <2>1. ReadOK /\ ends \in Streams
    BY <1>1 DEF ReadOK
  <2>2. /\ pos = 0 /\ msg.from = 0 /\ msg.to = 0 /\ incoming = None /\ partial = 0 /\ pump = "read"
        /\ reads = 0 /\ passed = 0 /\ failed = 0
    BY DEF Init
  <2>3. Taken = 0 /\ Start(Taken + 1) = 0
    BY <2>2 DEF Taken, Start
  <2>4. Len(ends) \in Nat /\ StreamLen \in Nat
    BY <2>1, StreamLayout DEF StreamLen
  <2>5. ~InBody(pos)
    <3> SUFFICES ASSUME NEW i \in Frames, Start(i) + HeaderLen <= pos PROVE FALSE
      BY DEF InBody
    <3>1. Start(i) \in Nat /\ HeaderLen \in Nat \ {0}
      BY <2>1, <2>4, StreamLayout, HeaderAssumption DEF Frames
    <3> QED
      BY <2>2, <3>1
  <2> QED
    BY <2>2, <2>3, <2>4, <2>5 DEF IntactInv, Whole
<1> QED
  BY <1>1, <1>2, <1>3, <1>4, <1>5, <1>6, <1>7 DEF SocketInv, TypeOK

\* SocketInv is inductive.
LEMMA SocketInductive == Spec => []SocketInv
<1>1. SocketInv /\ [Next]_vars => SocketInv'
  <2> SUFFICES ASSUME SocketInv, [Next]_vars PROVE SocketInv'
    OBVIOUS
  <2>1. CASE Next
    BY <2>1, NextSplit, TypeStep, CounterStep, ReportStep, IntactStep DEF SocketInv
  <2>2. CASE UNCHANGED vars
    <3>1. UNCHANGED <<readVars, consumeVars, closeVars, writeVars>>
      BY <2>2 DEF vars, readVars, consumeVars, closeVars, writeVars
    <3>2. TypeOK'
      BY <3>1, ReadFrame, ConsumeFrameKeeps, CloseFrame, WriteFrame DEF SocketInv, TypeOK
    <3>3. CounterInv'
      BY <3>1, CounterFrame DEF SocketInv, closeVars
    <3>4. ReportInv'
      BY <3>1, ReportFrame DEF SocketInv, closeVars, readVars
    <3>5. IntactInv'
      BY <3>1, IntactFrame DEF SocketInv, readVars, consumeVars
    <3> QED
      BY <3>2, <3>3, <3>4, <3>5 DEF SocketInv
  <2> QED
    BY <2>1, <2>2
<1> QED
  BY InitHolds, <1>1, PTL DEF Spec

\* The pump, the consumer, Close and the senders keep their types.
THEOREM TypeCorrect == Spec => []TypeOK
<1>1. SocketInv => TypeOK
  BY DEF SocketInv
<1> QED
  BY SocketInductive, <1>1, PTL

\* NoiseSocket.SendFrame never uses a counter twice; unless a caller went away from an
\* unwritten frame, the counters are on the wire in order, and the only ones missing
\* before the last are those of frames that were too large.
THEOREM CountersOnce == Spec => []CountersInOrder
<1>1. SocketInv => CountersInOrder
  BY DEF SocketInv, CounterInv
<1> QED
  BY SocketInductive, <1>1, PTL

\* FrameSocket.Close reports a lost connection once, and never one that Stop closed.
THEOREM ReportedOnce == Spec => []DisconnectReportedOnce
<1>1. SocketInv => DisconnectReportedOnce
  BY DEF SocketInv, ReportInv
<1> QED
  BY SocketInductive, <1>1, PTL

\* processData hands over the frames of the stream, all of them, in order and under the
\* counters they were sealed with, unless a websocket message ended inside a body.
THEOREM FramesStayIntact == Spec => []FramesIntact
<1>1. SocketInv => FramesIntact
  BY TakenAreComplete DEF SocketInv, IntactInv, Whole, FramesIntact, Taken
<1> QED
  BY SocketInductive, <1>1, PTL
=============================================================================
