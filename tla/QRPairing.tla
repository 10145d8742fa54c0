------------------------------ MODULE QRPairing -------------------------------
(***************************************************************************)
(* Pairing a new device (qrchan.go, pair.go): the goroutines that emit QR  *)
(* codes, the event handler of the QR channel, which runs in every         *)
(* goroutine that dispatches an event, the pairing itself, and the reader  *)
(* of the channel, which in the MCP tool takes one item and goes away.     *)
(*                                                                         *)
(* One QR channel over one connection.  A panic in dispatchEvent is        *)
(* recovered; a panic in an emitter ends the process.                      *)
(***************************************************************************)
EXTENDS Integers, Sequences

CONSTANTS
    Codes,      \* codes in one QR event
    Cap,        \* capacity of the output channel (8)
    MaxQRs,     \* bound: QR events, each of which starts an emitter
    MaxScans,   \* bound: scans without multidevice
    MaxFaults   \* bound: failed statements and rejected pairings

ASSUME BoundAssumption ==
    /\ Codes \in Nat \ {0}
    /\ Cap \in Nat \ {0}
    /\ MaxQRs \in Nat
    /\ MaxScans \in Nat
    /\ MaxFaults \in Nat

Emitters == 1..MaxQRs

\* Goroutines that dispatch events: the handler queue, the loss of the socket, the pairing
Dispatchers == {"node", "lost", "pair"}
Special == {"timeout", "unexpected", "success", "error"}

VARIABLES
    closed,     \* qrc.closed
    stopQRs,    \* qrc.stopQRs has been closed
    out,        \* the number of items in qrc.output
    sent,       \* the items sent so far, in order, and who sent each: an emitter, or 0
    closes,     \* how often qrc.output has been closed
    emit,       \* emitter -> its program counter and remaining codes
    disp,       \* dispatcher -> where it is in handleEvent, and with which event
    registered, \* the handler is in cli.eventHandlers
    removers,   \* RemoveEventHandler goroutines waiting for eventHandlersLock
    reader,     \* "reading" or "gone"
    ctxDone,    \* the context given to GetQRChannel has ended
    online,     \* the connection is up
    pair,       \* where handlePair is
    id,         \* cli.Store.ID is set
    row,        \* the device is in the database
    confirmed,  \* the server has the signed device identity
    scans, faults,
    deleteFailed,   \* Store.Delete failed, and its error was ignored
    full,       \* a full channel was closed without a final item
    crash       \* the panic that ended the process

chanVars == <<closed, stopQRs, out, sent, closes>>
readVars == <<reader, ctxDone>>
pairVars == <<pair, id, row, confirmed, deleteFailed>>
vars == <<chanVars, emit, disp, registered, removers, readVars, online, pairVars, scans, faults, full, crash>>

(***************************************************************************)
(* Channel operations.                                                     *)
(***************************************************************************)
\* Mutant of CAS: the flag is set without a test
CASAlways == closed' = TRUE

\* atomic.CompareAndSwapUint32(&qrc.closed, 0, 1)
CAS == ~closed /\ closed' = TRUE
CASFails == closed /\ UNCHANGED closed

outClosed == closes > 0
HasRoom == out < Cap

\* A send by an emitter, or by handleEvent (0)
Put(what, who) ==
    /\ out' = out + 1
    /\ sent' = Append(sent, [item |-> what, by |-> who])

(***************************************************************************)
(* emitQRs.                                                                *)
(***************************************************************************)
Emitter(e, pc) == emit' = [emit EXCEPT ![e].pc = pc]

OutOfCodes(e) ==
    /\ emit[e].pc = "loop" /\ emit[e].left = 0
    /\ \/ CAS /\ Emitter(e, "timeout")
       \/ CASFails /\ Emitter(e, "done")
    /\ UNCHANGED <<stopQRs, out, sent, closes, disp, registered, removers, readVars, online, pairVars, scans, faults, full, crash>>

NextCode(e) ==
    /\ emit[e].pc = "loop" /\ emit[e].left > 0
    /\ IF closed THEN Emitter(e, "done")
       ELSE emit' = [emit EXCEPT ![e] = [pc |-> "emit", left |-> emit[e].left - 1]]
    /\ UNCHANGED <<chanVars, disp, registered, removers, readVars, online, pairVars, scans, faults, full, crash>>

\* The code is sent if there is room; a closed channel panics, a full one is closed
EmitCode(e) ==
    /\ emit[e].pc = "emit"
    /\ \/ /\ outClosed
          /\ crash' = "sendOnClosed"
          /\ UNCHANGED <<chanVars, emit, full>>
       \/ /\ ~outClosed /\ HasRoom
          /\ Put("code", e)
          /\ Emitter(e, "wait")
          /\ UNCHANGED <<closed, stopQRs, closes, full, crash>>
       \/ /\ ~outClosed /\ ~HasRoom
          /\ \/ CAS /\ Emitter(e, "close") /\ full' = TRUE
             \/ CASFails /\ Emitter(e, "done") /\ UNCHANGED full
          /\ UNCHANGED <<stopQRs, out, sent, closes, crash>>
    /\ UNCHANGED <<disp, registered, removers, readVars, online, pairVars, scans, faults>>

EmitWaits(e) ==
    /\ emit[e].pc = "wait"
    /\ \/ Emitter(e, "loop") /\ UNCHANGED closed
       \/ stopQRs /\ Emitter(e, "done") /\ UNCHANGED closed
       \/ ctxDone /\ ((CAS /\ Emitter(e, "close")) \/ (CASFails /\ Emitter(e, "loop")))
    /\ UNCHANGED <<stopQRs, out, sent, closes, disp, registered, removers, readVars, online, pairVars, scans, faults, full, crash>>

\* qrc.output <- QRChannelTimeout
EmitTimeout(e) ==
    /\ emit[e].pc = "timeout" /\ HasRoom
    /\ Put("timeout", e)
    /\ Emitter(e, "close")
    /\ UNCHANGED <<closed, stopQRs, closes, disp, registered, removers, readVars, online, pairVars, scans, faults, full, crash>>

EmitCloses(e) ==
    /\ emit[e].pc = "close"
    /\ closes' = closes + 1
    /\ crash' = IF outClosed THEN "closeOfClosed" ELSE crash
    /\ removers' = removers + 1
    /\ Emitter(e, "disconnect")
    /\ UNCHANGED <<closed, stopQRs, out, sent, disp, registered, readVars, online, pairVars, scans, faults, full>>

\* cli.Disconnect(): the socket is closed, and no Disconnected event follows
EmitDisconnects(e) ==
    /\ emit[e].pc = "disconnect"
    /\ online' = FALSE
    /\ Emitter(e, "done")
    /\ UNCHANGED <<chanVars, disp, registered, removers, readVars, pairVars, scans, faults, full, crash>>

(***************************************************************************)
(* handleEvent, called by dispatchEvent with eventHandlersLock read-locked *)
(* A RemoveEventHandler that waits for the lock keeps new readers out.     *)
(***************************************************************************)
Idle == [pc |-> "idle", ev |-> "none"]
At(d, pc) == disp' = [disp EXCEPT ![d].pc = pc]
Done(d) == disp' = [disp EXCEPT ![d] = Idle]

Dispatch(d, ev) ==
    /\ disp[d] = Idle
    /\ removers = 0
    /\ disp' = IF registered THEN [disp EXCEPT ![d] = [pc |-> "check", ev |-> ev]] ELSE disp

NodeEvent(ev) ==
    /\ online
    /\ ev = "QR" => \E e \in Emitters : emit[e].pc = "off"
    /\ scans' = scans + (IF ev = "scanned" THEN 1 ELSE 0) /\ scans' <= MaxScans
    /\ registered
    /\ Dispatch("node", ev)
    /\ UNCHANGED <<chanVars, emit, registered, removers, readVars, online, pairVars, faults, full, crash>>

\* onDisconnect, unless the disconnect is expected
ConnectionLost ==
    /\ online
    /\ online' = FALSE
    /\ IF pair \in {"confirm", "success", "paired"} THEN UNCHANGED disp ELSE Dispatch("lost", "timeout")
    /\ UNCHANGED <<chanVars, emit, registered, removers, readVars, pairVars, scans, faults, full, crash>>

HandleEvent(d) ==
    /\ disp[d].pc = "check"
    /\ \/ closed /\ Done(d) /\ UNCHANGED emit
       \/ /\ ~closed /\ disp[d].ev = "QR"
          /\ \E e \in Emitters :
               /\ emit[e].pc = "off" /\ \A x \in 1..(e - 1) : emit[x].pc # "off"
               /\ emit' = [emit EXCEPT ![e].pc = "loop"]
          /\ Done(d)
       \/ ~closed /\ disp[d].ev = "scanned" /\ At(d, "scan") /\ UNCHANGED emit
       \/ ~closed /\ disp[d].ev \in Special /\ At(d, "stop") /\ UNCHANGED emit
    /\ UNCHANGED <<chanVars, registered, removers, readVars, online, pairVars, scans, faults, full, crash>>

\* qrc.output <- QRChannelScannedWithoutMultidevice; a panic is recovered
HandleScan(d) ==
    /\ disp[d].pc = "scan"
    /\ \/ outClosed /\ UNCHANGED <<out, sent>>
       \/ ~outClosed /\ HasRoom /\ Put("scanned", 0)
    /\ Done(d)
    /\ UNCHANGED <<closed, stopQRs, closes, emit, registered, removers, readVars, online, pairVars, scans, faults, full, crash>>

\* close(qrc.stopQRs): a second close panics, which dispatchEvent recovers
HandleStop(d) ==
    /\ disp[d].pc = "stop"
    /\ stopQRs' = TRUE
    /\ IF stopQRs THEN Done(d) ELSE At(d, "cas")
    /\ UNCHANGED <<closed, out, sent, closes, emit, registered, removers, readVars, online, pairVars, scans, faults, full, crash>>

\* Mutant of HandleFinal: the final item is forgotten
HandleFinalNoItem(d) ==
    /\ disp[d].pc = "cas"
    /\ \/ CAS /\ At(d, "close") /\ UNCHANGED removers
       \/ CASFails /\ Done(d) /\ removers' = removers + 1
    /\ UNCHANGED <<stopQRs, out, sent, closes, emit, registered, readVars, online, pairVars, scans, faults, full, crash>>

HandleFinal(d) ==
    /\ disp[d].pc = "cas"
    /\ \/ CAS /\ At(d, "send") /\ UNCHANGED removers
       \/ CASFails /\ Done(d) /\ removers' = removers + 1
    /\ UNCHANGED <<stopQRs, out, sent, closes, emit, registered, readVars, online, pairVars, scans, faults, full, crash>>

HandleSend(d) ==
    /\ disp[d].pc = "send" /\ HasRoom
    /\ Put(disp[d].ev, 0)
    /\ At(d, "close")
    /\ UNCHANGED <<closed, stopQRs, closes, emit, registered, removers, readVars, online, pairVars, scans, faults, full, crash>>

\* Mutants: the channel stays open; the handler waits for RemoveEventHandler
HandleCloseKeepsOpen(d) ==
    /\ disp[d].pc = "close"
    /\ removers' = removers + 1
    /\ Done(d)
    /\ UNCHANGED <<chanVars, emit, registered, readVars, online, pairVars, scans, faults, full, crash>>

HandleCloseSync(d) ==
    /\ disp[d].pc = "close"
    /\ \A x \in Dispatchers : disp[x] = Idle
    /\ registered' = FALSE
    /\ closes' = closes + 1
    /\ Done(d)
    /\ UNCHANGED <<closed, stopQRs, out, sent, emit, removers, readVars, online, pairVars, scans, faults, full, crash>>

\* close(qrc.output) and the removal of the handler
HandleClose(d) ==
    /\ disp[d].pc = "close"
    /\ closes' = closes + 1
    /\ removers' = removers + 1
    /\ Done(d)
    /\ UNCHANGED <<closed, stopQRs, out, sent, emit, registered, readVars, online, pairVars, scans, faults, full, crash>>

\* RemoveEventHandler, in a goroutine of its own because it needs the write lock
RemoveEventHandler ==
    /\ removers > 0
    /\ \A d \in Dispatchers : disp[d] = Idle
    /\ removers' = removers - 1
    /\ registered' = FALSE
    /\ UNCHANGED <<chanVars, emit, disp, readVars, online, pairVars, scans, faults, full, crash>>

(***************************************************************************)
(* The reader: GetQRCode takes one item, or leaves after its timeout.      *)
(***************************************************************************)
Read ==
    /\ reader = "reading" /\ out > 0
    /\ out' = out - 1
    /\ UNCHANGED <<closed, stopQRs, sent, closes, emit, disp, registered, removers, reader, ctxDone, online, pairVars, scans, faults, full, crash>>

ReaderLeaves ==
    /\ reader = "reading"
    /\ reader' = "gone"
    /\ UNCHANGED <<chanVars, emit, disp, registered, removers, ctxDone, online, pairVars, scans, faults, full, crash>>

ContextEnds ==
    /\ ~ctxDone
    /\ ctxDone' = TRUE
    /\ UNCHANGED <<chanVars, emit, disp, registered, removers, reader, online, pairVars, scans, faults, full, crash>>

(***************************************************************************)
(* handlePair, in a goroutine of its own.                                  *)
(***************************************************************************)
Fault == faults < MaxFaults /\ faults' = faults + 1
pairFrame == <<chanVars, emit, registered, removers, readVars, scans, full, crash>>

\* Store.Delete: the row, then the fields; its error is ignored
Delete(used) ==
    \/ row' = FALSE /\ id' = FALSE /\ faults' = faults + used /\ UNCHANGED deleteFailed
    \/ faults + used < MaxFaults /\ faults' = faults + used + 1 /\ deleteFailed' = TRUE /\ UNCHANGED <<row, id>>

PairSuccessNode ==
    /\ online /\ pair = "off"
    /\ \E e \in Emitters : emit[e].pc # "off"
    /\ pair' = "verify"
    /\ UNCHANGED <<pairFrame, disp, online, id, row, confirmed, deleteFailed, faults>>

\* HMAC, signatures and PrePairCallback; Store.ID is set before Save
Verify ==
    /\ pair = "verify"
    /\ \/ pair' = "failed" /\ Fault /\ UNCHANGED id
       \/ pair' = "save" /\ id' = TRUE /\ UNCHANGED faults
    /\ UNCHANGED <<pairFrame, disp, online, row, confirmed, deleteFailed>>

Save ==
    /\ pair = "save"
    /\ \/ pair' = "failed" /\ Fault /\ UNCHANGED row
       \/ pair' = "identity" /\ row' = TRUE /\ UNCHANGED faults
    /\ UNCHANGED <<pairFrame, disp, online, id, confirmed, deleteFailed>>

\* PutIdentity; then the disconnect that follows is an expected one
PutIdentity ==
    /\ pair = "identity"
    /\ \/ pair' = "failed" /\ faults < MaxFaults /\ Delete(1)
       \/ pair' = "confirm" /\ UNCHANGED <<faults, row, id, deleteFailed>>
    /\ UNCHANGED <<pairFrame, disp, online, confirmed>>

\* Mutant of Confirm: the row of a pairing that failed stays
ConfirmKeepsRow ==
    /\ pair = "confirm"
    /\ \/ online /\ confirmed' = TRUE /\ pair' = "success"
       \/ ~online /\ pair' = "failed" /\ UNCHANGED confirmed
    /\ UNCHANGED <<pairFrame, disp, online, faults, row, id, deleteFailed>>

Confirm ==
    /\ pair = "confirm"
    /\ \/ online /\ confirmed' = TRUE /\ pair' = "success" /\ UNCHANGED <<row, id, deleteFailed, faults>>
       \/ ~online /\ pair' = "failed" /\ Delete(0) /\ UNCHANGED confirmed
    /\ UNCHANGED <<pairFrame, disp, online>>

\* A failure disconnects first; then the event
PairEnds ==
    /\ \/ pair = "failed" /\ pair' = "error" /\ online' = FALSE /\ Dispatch("pair", "error")
       \/ pair = "success" /\ pair' = "paired" /\ UNCHANGED online /\ Dispatch("pair", "success")
    /\ UNCHANGED <<pairFrame, id, row, confirmed, deleteFailed, faults>>

Init ==
    /\ closed = FALSE /\ stopQRs = FALSE /\ out = 0 /\ sent = <<>> /\ closes = 0
    /\ emit = [e \in Emitters |-> [pc |-> "off", left |-> Codes]]
    /\ disp = [d \in Dispatchers |-> Idle]
    /\ registered = TRUE /\ removers = 0
    /\ reader = "reading" /\ ctxDone = FALSE /\ online = TRUE
    /\ pair = "off" /\ id = FALSE /\ row = FALSE /\ confirmed = FALSE /\ deleteFailed = FALSE
    /\ scans = 0 /\ faults = 0 /\ full = FALSE /\ crash = "none"

EmitQRs(e) ==
    \/ OutOfCodes(e) \/ NextCode(e) \/ EmitCode(e) \/ EmitWaits(e)
    \/ EmitTimeout(e) \/ EmitCloses(e) \/ EmitDisconnects(e)

Handle(d) ==
    HandleEvent(d) \/ HandleScan(d) \/ HandleStop(d) \/ HandleFinal(d) \/ HandleSend(d) \/ HandleClose(d)

HandlePair == Verify \/ Save \/ PutIdentity \/ Confirm \/ PairEnds

Environment ==
    \/ \E ev \in {"QR", "scanned", "unexpected"} : NodeEvent(ev)
    \/ ConnectionLost \/ PairSuccessNode \/ ReaderLeaves \/ ContextEnds

Running == crash = "none"

Next ==
    /\ Running
    /\ \/ \E e \in Emitters : EmitQRs(e)
       \/ \E d \in Dispatchers : Handle(d)
       \/ RemoveEventHandler
       \/ HandlePair
       \/ Read
       \/ Environment

Spec == Init /\ [][Next]_vars

\* Goroutines run and timers fire; whoever reads the channel goes on reading it until it leaves.
FairSpec ==
    /\ Spec
    /\ \A e \in Emitters : WF_vars(Running /\ EmitQRs(e))
    /\ \A d \in Dispatchers : WF_vars(Running /\ Handle(d))
    /\ WF_vars(Running /\ RemoveEventHandler)
    /\ WF_vars(Running /\ Read)

(***************************************************************************)
(* Properties.                                                             *)
(***************************************************************************)
ChanOK ==
    /\ closed \in BOOLEAN
    /\ stopQRs \in BOOLEAN
    /\ out \in 0..Cap
    /\ sent \in Seq([item : {"code", "scanned"} \cup Special, by : 0..MaxQRs])
    /\ closes \in Nat

EmitterStates ==
    [pc : {"off", "loop", "emit", "wait", "timeout", "close", "disconnect", "done"}, left : 0..Codes]
DispatcherStates ==
    [pc : {"idle", "check", "scan", "stop", "cas", "send", "close"}, ev : {"none", "QR", "scanned"} \cup Special]

GoroutinesOK ==
    /\ emit \in [Emitters -> EmitterStates]
    /\ disp \in [Dispatchers -> DispatcherStates]

PairOK ==
    /\ pair \in {"off", "verify", "save", "identity", "confirm", "success", "failed", "error", "paired"}
    /\ id \in BOOLEAN
    /\ row \in BOOLEAN
    /\ confirmed \in BOOLEAN
    /\ deleteFailed \in BOOLEAN

RestOK ==
    /\ registered \in BOOLEAN
    /\ removers \in Nat
    /\ reader \in {"reading", "gone"}
    /\ ctxDone \in BOOLEAN
    /\ online \in BOOLEAN
    /\ scans \in 0..MaxScans
    /\ faults \in 0..MaxFaults
    /\ full \in BOOLEAN
    /\ crash \in {"none", "sendOnClosed", "closeOfClosed"}

\* The types; the output never holds more than its capacity.
TypeOK == ChanOK /\ GoroutinesOK /\ PairOK /\ RestOK

\* Emitters, the handler queue, the loss of the socket and the pairing all want to close
\* the output: it is closed once, by whoever has set qrc.closed, and nobody closes it before.
ClosedOnce ==
    /\ closes <= 1 /\ crash # "closeOfClosed"
    /\ closes = 1 => closed

\* Where the final items are among the items sent.
Finals == {i \in 1..Len(sent) : sent[i].item \in Special}

\* The reader gets at most one final item; a channel that is closed without one was full, or
\* its context had ended.  What may still come after the final item is one item of each
\* goroutine that had seen the channel open before: a code of an emitter, or a scan.
OneFinalItem ==
    /\ \A i, j \in Finals : i = j
    /\ \A i \in Finals : \A j, k \in i + 1..Len(sent) : sent[j].by = sent[k].by => j = k
    /\ closes = 1 => Finals # {} \/ full \/ ctxDone

\* What the comment of GetQRChannel promises: the last value to be emitted is the special
\* one.  The code does not keep it: an emitter that has seen the channel open (line 76)
\* sends its code after the final item of handleEvent (147) and before the close (148).
FinalItemLast == \A i \in Finals : i = Len(sent)

\* A device the server takes for paired is in the database, and a pairing that was reported
\* as an error has left no device there - unless deleting it failed, which handlePair ignores.
ConfirmedIsStored ==
    /\ confirmed => row /\ id
    /\ pair = "error" => ~confirmed /\ (~row \/ deleteFailed)

\* dispatchEvent returns, so that the handler queue goes on, as long as somebody reads the
\* channel: handleEvent sends with eventHandlersLock held and must not wait for itself.
DispatchReturns ==
    \A d \in Dispatchers : []<>(disp[d] = Idle \/ reader = "gone" \/ ~Running)

\* Once codes have been offered, a reader that goes on reading sees the channel closed.
ChannelCloses ==
    []<>((\E e \in Emitters : emit[e].pc # "off") => outClosed \/ reader = "gone" \/ ~Running)
=============================================================================
