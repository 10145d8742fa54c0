----------------------------- MODULE FrameSocket -----------------------------
(***************************************************************************)
(* One websocket: FrameSocket, which cuts the byte stream into frames, and *)
(* the NoiseSocket on it, which encrypts and decrypts them with a counter  *)
(* (socket/framesocket.go, socket/noisesocket.go).                         *)
(*                                                                         *)
(* The goroutines: the read pump, the consumer of its frames, callers of   *)
(* SendFrame with the writers they start, whoever calls Stop, and the      *)
(* OnDisconnect callback.  A byte is its position in the stream; the       *)
(* server's i-th frame ends at position ends[i], and a websocket message   *)
(* may end anywhere.  The noise cipher accepts a frame only if it is       *)
(* intact and the counters agree.                                          *)
(***************************************************************************)
EXTENDS Integers, Sequences, FiniteSets

CONSTANTS
    HeaderLen,      \* FrameLengthSize (3)
    Streams,        \* streams the server may send: where each of the frames ends
    GarbageLens,    \* lengths that three bytes of a frame's body may spell
    Callers,        \* calls of NoiseSocket.SendFrame
    None

ASSUME HeaderAssumption == HeaderLen \in Nat \ {0}
\* A frame is a header and a body, which may be empty, after the frames before it.
ASSUME StreamAssumption ==
    /\ Streams \in SUBSET Seq(Nat) /\ GarbageLens \in SUBSET Nat
    /\ \A s \in Streams : \A i \in 1..Len(s) :
          /\ s[i] >= HeaderLen
          /\ \A j \in i + 1..Len(s) : s[j] >= s[i] + HeaderLen
ASSUME NoneAssumption == None \notin Nat

VARIABLES
    ends,       \* the frames of the server: where each one ends
    pos,        \* bytes of the stream in the messages read so far
    msg,        \* [from, to]: the positions left of the message being processed
    incoming,   \* the frame being put together, or None
    partial,    \* length of partialHeader
    pump,       \* readPump: "read", "process", "hand", "close", "ended", "panicked"
    frame,      \* the frame the pump is handing over: its number, 0 if damaged
    consumer,   \* consumeFrames: "run", "ended"
    reads,      \* readCounter
    passed,     \* frames decrypted and given to onFrame
    failed,     \* frames that did not decrypt
    lost,       \* the connection is broken: reads and writes fail
    conn,       \* fs.conn # nil
    stopped,    \* destroyed and stopConsumer
    callback,   \* OnDisconnect # nil
    closer,     \* who is in Close between the test of OnDisconnect and the call
    stopper,    \* Stop(true): "idle", "clear", "close", "done"
    calls,      \* times OnDisconnect was started
    told,       \* Client.onDisconnect has stopped the NoiseSocket
    crashed,    \* a nil OnDisconnect was started
    caller,     \* caller -> where its SendFrame is
    seal,       \* caller -> the counter its frame was sealed with
    writes,     \* writeCounter
    pending,    \* sealed frames whose writer has not called conn.Write yet
    wire,       \* counters in the order in which they went out
    oversize,   \* counters of frames that FrameSocket.SendFrame refused
    gaveUp,     \* a SendFrame returned before its writer
    split       \* a websocket message ended inside the body of a frame

readVars == <<ends, pos, msg, incoming, partial, pump, frame, split>>
consumeVars == <<consumer, reads, passed, failed>>
closeVars == <<lost, conn, stopped, callback, closer, stopper, calls, told, crashed>>
writeVars == <<caller, seal, writes, pending, wire, oversize, gaveUp>>
vars == <<ends, pos, msg, incoming, partial, pump, frame, split, consumer, reads, passed,
          failed, lost, conn, stopped, callback, closer, stopper, calls, told, crashed,
          caller, seal, writes, pending, wire, oversize, gaveUp>>

-----------------------------------------------------------------------------
(* The stream.                                                             *)

\* Position of the last byte before frame i, and the length of its body.
Start(i) == IF i = 1 THEN 0 ELSE ends[i - 1]
BodyLen(i) == ends[i] - Start(i) - HeaderLen
Frames == 1..Len(ends)
StreamLen == Start(Len(ends) + 1)

\* A message that ends at p ends inside a body.
InBody(p) == \E i \in Frames : Start(i) + HeaderLen <= p /\ p < Start(i + 1)

Size(m) == m.to - m.from

-----------------------------------------------------------------------------
(* The read pump.                                                          *)

\* Mutant of WithPartialHeader: the bytes of a partial header are forgotten.
WithoutPartialHeader == pos

WithPartialHeader == pos - partial

\* conn.Read returns the next websocket message.
ReadMessage ==
    /\ pump = "read" /\ conn
    /\ \E to \in pos + 1..StreamLen :
          /\ msg' = [from |-> WithPartialHeader, to |-> to]
          /\ pos' = to
          /\ split' = (split \/ InBody(to))
    /\ partial' = 0
    /\ pump' = "process"
    /\ UNCHANGED <<ends, incoming, frame, consumeVars, closeVars, writeVars>>

\* The network or the server ends the connection.
ConnectionLost ==
    /\ ~lost
    /\ lost' = TRUE
    /\ UNCHANGED <<readVars, consumeVars, conn, stopped, callback, closer, stopper, calls,
                   told, crashed, writeVars>>

\* Mutant of ReadFails: the pump returns without its deferred Close.
ReadFailsOnly ==
    /\ pump = "read" /\ (lost \/ ~conn)
    /\ pump' = "ended"
    /\ UNCHANGED <<ends, pos, msg, incoming, partial, frame, split, consumeVars, closeVars,
                   writeVars>>

\* conn.Read fails on a connection that is broken, or closed by Close; the pump ends,
\* and starts Close.
ReadFails ==
    /\ pump = "read" /\ (lost \/ ~conn)
    /\ pump' = "close"
    /\ UNCHANGED <<ends, pos, msg, incoming, partial, frame, split, consumeVars, closeVars,
                   writeVars>>

\* Hand a frame over: the pump blocks on the channel.
FrameComplete(n, rest) ==
    /\ frame' = n /\ msg' = rest /\ incoming' = None
    /\ pump' = "hand"

\* The number of the frame whose header is at m, None if the three bytes there are
\* no header.
HeaderAt(m) ==
    IF \E i \in Frames : Start(i) = m.from THEN CHOOSE i \in Frames : Start(i) = m.from ELSE None

\* receivedLength when the header has been read: the length of the message, the
\* header included.
FirstReceived(m) == Size(m)

ShortHeader(m) == Size(m) < HeaderLen

\* processData at the start of a frame.
ProcessHeader ==
    /\ pump = "process" /\ incoming = None
    /\ IF ShortHeader(msg)
       THEN /\ partial' = Size(msg)
            /\ msg' = [msg EXCEPT !.from = msg.to]
            /\ pump' = "read"
            /\ UNCHANGED <<incoming, frame>>
       ELSE /\ partial' = 0
            /\ \E n \in (IF HeaderAt(msg) = None THEN GarbageLens ELSE {BodyLen(HeaderAt(msg))}) :
                  LET body == [msg EXCEPT !.from = msg.from + HeaderLen]
                      id   == IF HeaderAt(msg) = None THEN 0 ELSE HeaderAt(msg)
                  IN  IF Size(body) >= n
                      THEN FrameComplete(id, [body EXCEPT !.from = body.from + n])
                      ELSE /\ incoming' = [id |-> id, len |-> n, start |-> body.from,
                                           received |-> FirstReceived(msg)]
                           /\ msg' = [body EXCEPT !.from = body.to]
                           /\ pump' = "read"
                           /\ UNCHANGED frame
    /\ UNCHANGED <<ends, pos, split, consumeVars, closeVars, writeVars>>

\* The bytes at m go to their own place in the frame only if receivedLength is
\* the number of body bytes before them.
InPlace(m) == IF incoming.start + incoming.received = m.from THEN incoming.id ELSE 0

\* processData inside a frame.  A receivedLength beyond the frame is out of the
\* bounds of the slice.
ProcessBody ==
    /\ pump = "process" /\ incoming # None
    /\ LET missing == incoming.len - incoming.received
       IN  IF Size(msg) >= missing
           THEN IF missing < 0
                THEN pump' = "panicked" /\ UNCHANGED <<msg, incoming, frame>>
                ELSE FrameComplete(InPlace(msg), [msg EXCEPT !.from = msg.from + missing])
           ELSE /\ incoming' = [incoming EXCEPT !.received = incoming.received + Size(msg), !.id = InPlace(msg)]
                /\ msg' = [msg EXCEPT !.from = msg.to]
                /\ pump' = "read"
                /\ UNCHANGED frame
    /\ UNCHANGED <<ends, pos, partial, split, consumeVars, closeVars, writeVars>>

-----------------------------------------------------------------------------
(* The consumer.                                                           *)

\* receiveEncryptedFrame: the counter moves on whether or not the frame opens.
ConsumeFrame ==
    /\ pump = "hand" /\ consumer = "run"
    /\ pump' = IF Size(msg) > 0 THEN "process" ELSE "read"
    /\ reads' = reads + 1
    /\ IF frame = reads + 1
       THEN passed' = passed + 1 /\ UNCHANGED failed
       ELSE failed' = failed + 1 /\ UNCHANGED passed
    /\ UNCHANGED <<ends, pos, msg, incoming, partial, frame, split, consumer, closeVars,
                   writeVars>>

ConsumerEnds ==
    /\ consumer = "run" /\ stopped
    /\ consumer' = "ended"
    /\ UNCHANGED <<readVars, reads, passed, failed, closeVars, writeVars>>

-----------------------------------------------------------------------------
(* Closing.                                                                *)

\* Close by the goroutine that the pump starts when it ends, or by Stop.
Closing(w) == IF w = "pump" THEN pump = "close" ELSE stopper = "close"
Closed(w) ==
    IF w = "pump" THEN pump' = "ended" /\ stopper' = stopper
                  ELSE stopper' = "done" /\ pump' = pump

\* FrameSocket.Close up to the test of OnDisconnect.
Close(w) ==
    /\ Closing(w) /\ closer = "free"
    /\ conn' = FALSE
    /\ IF conn /\ callback
       THEN closer' = w /\ UNCHANGED <<pump, stopper>>
       ELSE Closed(w) /\ UNCHANGED closer
    /\ UNCHANGED <<ends, pos, msg, incoming, partial, frame, split, consumeVars, lost,
                   stopped, callback, calls, told, crashed, writeVars>>

\* The go statement reads OnDisconnect again.
StartCallback(w) ==
    /\ closer = w
    /\ IF callback THEN calls' = calls + 1 /\ UNCHANGED crashed
                   ELSE crashed' = TRUE /\ UNCHANGED calls
    /\ closer' = "free"
    /\ Closed(w)
    /\ UNCHANGED <<ends, pos, msg, incoming, partial, frame, split, consumeVars, lost, conn,
                   stopped, callback, told, writeVars>>

\* Client.onDisconnect calls Stop(false).
OnDisconnect ==
    /\ calls > 0 /\ ~told
    /\ told' = TRUE /\ stopped' = TRUE
    /\ callback' = (stopped /\ callback)
    /\ UNCHANGED <<readVars, consumeVars, lost, conn, closer, stopper, calls, crashed,
                   writeVars>>

\* Stop(true): only the first Stop does anything; it ends the consumer, takes
\* OnDisconnect away without the lock, and closes.
Stop ==
    /\ stopper = "idle"
    /\ stopped' = TRUE
    /\ stopper' = IF stopped THEN "done" ELSE "clear"
    /\ UNCHANGED <<readVars, consumeVars, lost, conn, callback, closer, calls, told, crashed,
                   writeVars>>

\* Mutant of StopClears: OnDisconnect stays.
StopKeepsCallback ==
    /\ stopper = "clear"
    /\ stopper' = "close"
    /\ UNCHANGED <<readVars, consumeVars, lost, conn, stopped, callback, closer, calls, told,
                   crashed, writeVars>>

StopClears ==
    /\ stopper = "clear"
    /\ callback' = FALSE
    /\ stopper' = "close"
    /\ UNCHANGED <<readVars, consumeVars, lost, conn, stopped, closer, calls, told, crashed,
                   writeVars>>

-----------------------------------------------------------------------------
(* Sending.                                                                *)

WriteLockFree == \A c \in Callers : caller[c] # "waiting"

\* NoiseSocket.SendFrame takes the lock, seals the frame and starts the writer.
SendFrame(c) ==
    /\ caller[c] = "idle" /\ WriteLockFree
    /\ caller' = [caller EXCEPT ![c] = "waiting"]
    /\ seal' = [seal EXCEPT ![c] = writes]
    /\ writes' = writes + 1
    /\ pending' = pending \cup {writes}
    /\ UNCHANGED <<readVars, consumeVars, closeVars, wire, oversize, gaveUp>>

\* The writer: FrameSocket.SendFrame, an error if the socket is closed or broken, or if
\* the frame has FrameMaxSize bytes or more; its counter is used up all the same.
Write(n) ==
    /\ n \in pending
    /\ pending' = pending \ {n}
    /\ \/ conn /\ oversize' = oversize \cup {n} /\ UNCHANGED wire
       \/ wire' = (IF conn /\ ~lost THEN Append(wire, n) ELSE wire) /\ UNCHANGED oversize
    /\ UNCHANGED <<readVars, consumeVars, closeVars, caller, seal, writes, gaveUp>>

\* Mutant of SendReturns: the caller does not wait for its writer.
SendReturnsAtOnce(c) ==
    /\ caller[c] = "waiting"
    /\ caller' = [caller EXCEPT ![c] = "done"]
    /\ UNCHANGED <<readVars, consumeVars, closeVars, seal, writes, pending, wire, oversize, gaveUp>>

\* The writer is done.
SendReturns(c) ==
    /\ caller[c] = "waiting" /\ seal[c] \notin pending
    /\ caller' = [caller EXCEPT ![c] = "done"]
    /\ UNCHANGED <<readVars, consumeVars, closeVars, seal, writes, pending, wire, oversize, gaveUp>>

\* The caller's context ends: before the frame is sealed, or while the writer is
\* still at work, and then the lock is free for the next frame.
ContextDone(c) ==
    /\ \/ caller[c] = "idle" /\ WriteLockFree /\ UNCHANGED gaveUp
       \/ caller[c] = "waiting" /\ gaveUp' = (gaveUp \/ seal[c] \in pending)
    /\ caller' = [caller EXCEPT ![c] = "done"]
    /\ UNCHANGED <<readVars, consumeVars, closeVars, seal, writes, pending, wire, oversize>>

-----------------------------------------------------------------------------
Init ==
    /\ ends \in Streams
    /\ pos = 0 /\ msg = [from |-> 0, to |-> 0]
    /\ incoming = None /\ partial = 0 /\ pump = "read" /\ frame = 0 /\ split = FALSE
    /\ consumer = "run" /\ reads = 0 /\ passed = 0 /\ failed = 0
    /\ lost = FALSE /\ conn = TRUE /\ stopped = FALSE /\ callback = TRUE /\ closer = "free"
    /\ stopper = "idle" /\ calls = 0 /\ told = FALSE /\ crashed = FALSE
    /\ caller = [c \in Callers |-> "idle"] /\ seal = [c \in Callers |-> 0]
    /\ writes = 0 /\ pending = {} /\ wire = <<>>
    /\ oversize = {} /\ gaveUp = FALSE

\* A panic in the pump or in the start of a nil callback ends the process.
Alive == pump # "panicked" /\ ~crashed

Goroutines ==
    /\ Alive
    /\ \/ ProcessHeader \/ ProcessBody
       \/ ConsumeFrame \/ ConsumerEnds
       \/ \E w \in {"pump", "stop"} : Close(w) \/ StartCallback(w)
       \/ OnDisconnect \/ StopClears
       \/ \E c \in Callers : SendReturns(c)
       \/ \E n \in pending : Write(n)

Environment ==
    /\ Alive
    /\ \/ ReadMessage \/ ConnectionLost \/ ReadFails \/ Stop
       \/ \E c \in Callers : SendFrame(c) \/ ContextDone(c)

Next == Goroutines \/ Environment

Spec == Init /\ [][Next]_vars

\* Goroutines run, and a read on a broken or closed connection returns.
FairSpec == Spec /\ WF_vars(Goroutines) /\ WF_vars(Alive /\ ReadFails)

-----------------------------------------------------------------------------
ReadOK ==
    /\ ends \in Streams
    /\ pos \in Nat
    /\ msg \in [from : Nat, to : Nat]
    /\ msg.from <= msg.to
    /\ msg.to = pos
    /\ incoming = None \/ incoming \in [id : Nat, len : Nat, start : Nat, received : Nat]
    /\ partial \in 0..HeaderLen - 1
    /\ partial <= pos
    /\ pump \in {"read", "process", "hand", "close", "ended", "panicked"}
    /\ frame \in Nat
    /\ split \in BOOLEAN

ConsumeOK ==
    /\ consumer \in {"run", "ended"}
    /\ reads \in Nat
    /\ passed \in Nat
    /\ failed \in Nat

CloseOK ==
    /\ lost \in BOOLEAN
    /\ conn \in BOOLEAN
    /\ stopped \in BOOLEAN
    /\ callback \in BOOLEAN
    /\ closer \in {"free", "pump", "stop"}
    /\ stopper \in {"idle", "clear", "close", "done"}
    /\ calls \in Nat
    /\ told \in BOOLEAN
    /\ crashed \in BOOLEAN

WriteOK ==
    /\ caller \in [Callers -> {"idle", "waiting", "done"}]
    /\ seal \in [Callers -> Nat]
    /\ writes \in Nat
    /\ pending \in SUBSET Nat
    /\ wire \in Seq(Nat)
    /\ oversize \in SUBSET Nat
    /\ gaveUp \in BOOLEAN

\* Type invariant.
TypeOK == ReadOK /\ ConsumeOK /\ CloseOK /\ WriteOK

\* Frames whose last byte processData has taken out of the stream.
Complete == {i \in Frames : Start(i + 1) <= pos - Size(msg)}

\* processData puts the stream together again, in order and without a loss, as
\* long as no websocket message has ended inside the body of a frame; messages
\* that hold several frames and messages that end inside a header included.  The
\* noise counters of both sides then agree.
FramesIntact ==
    split \/ /\ pump # "panicked" /\ failed = 0
             /\ passed + (IF pump = "hand" THEN 1 ELSE 0) = Cardinality(Complete)

\* NoiseSocket.SendFrame: no counter is used for two frames; and unless a caller has
\* gone away from a frame that was not yet written, frames go out in the order of
\* their counters, and the server misses none before the last but those of frames
\* that were too large to send.  (With one of those, it cannot open what follows.)
CountersInOrder ==
    /\ \A i, j \in 1..Len(wire) : i # j => wire[i] # wire[j]
    /\ \A i \in 1..Len(wire) : wire[i] \notin pending /\ wire[i] < writes
    /\ gaveUp \/ /\ \A i, j \in 1..Len(wire) : i < j => wire[i] < wire[j]
                 /\ \A i \in 1..Len(wire) : \A n \in 0..wire[i] :
                       n \in oversize \/ \E k \in 1..Len(wire) : wire[k] = n

\* Close starts OnDisconnect at most once, and only when the pump has ended by
\* itself: a socket closed by Stop is not reported as lost.  The nil that Stop
\* writes without the lock is hit only by a Close that had already seen the
\* callback.
DisconnectReportedOnce ==
    /\ calls <= 1 /\ (calls = 1 => pump = "ended")
    /\ crashed => calls = 0 /\ stopper \in {"close", "done"} /\ pump = "ended"

\* A connection that breaks is reported to the client, which then reconnects, unless
\* it is being stopped anyway or the process has ended: wherever the pump is, in a read
\* or waiting for the consumer to take a frame, it gets as far as its deferred Close.
LossReported == []<>(lost => calls = 1 \/ stopper # "idle" \/ ~Alive)
=============================================================================
