-------------------------- MODULE QRPairingProofs ---------------------------
(***************************************************************************)
(* Proofs about QRPairing, for any number of codes and emitters and any    *)
(* capacity of the channel: the output is closed once and carries one      *)
(* final item, and a confirmed device is stored.                           *)
(***************************************************************************)
EXTENDS QRPairing, TLAPS

\* One step of Next, flattened into its actions.
NextActions ==
    \/ \E e \in Emitters : OutOfCodes(e)
    \/ \E e \in Emitters : NextCode(e)
    \/ \E e \in Emitters : EmitCode(e)
    \/ \E e \in Emitters : EmitWaits(e)
    \/ \E e \in Emitters : EmitTimeout(e)
    \/ \E e \in Emitters : EmitCloses(e)
    \/ \E e \in Emitters : EmitDisconnects(e)
    \/ \E d \in Dispatchers : HandleEvent(d)
    \/ \E d \in Dispatchers : HandleScan(d)
    \/ \E d \in Dispatchers : HandleStop(d)
    \/ \E d \in Dispatchers : HandleFinal(d)
    \/ \E d \in Dispatchers : HandleSend(d)
    \/ \E d \in Dispatchers : HandleClose(d)
    \/ \E ev \in {"QR", "scanned", "unexpected"} : NodeEvent(ev)
    \/ RemoveEventHandler
    \/ Verify
    \/ Save
    \/ PutIdentity
    \/ Confirm
    \/ PairEnds
    \/ Read
    \/ ConnectionLost
    \/ PairSuccessNode
    \/ ReaderLeaves
    \/ ContextEnds

\* Next is the disjunction of its actions.
LEMMA NextSplit == Next => NextActions
BY DEF Next, NextActions, EmitQRs, Handle, HandlePair, Environment

-----------------------------------------------------------------------------
(* Types.                                                                  *)

\* A send when there is room.
LEMMA PutType ==
    ASSUME ChanOK, HasRoom, NEW what \in {"code", "scanned"} \cup Special,
           NEW who \in 0..MaxQRs, Put(what, who), UNCHANGED <<closed, stopQRs, closes>>
    PROVE  ChanOK'
<1>1. out' \in 0..Cap
  BY BoundAssumption DEF ChanOK, HasRoom, Put
<1>2. [item |-> what, by |-> who] \in [item : {"code", "scanned"} \cup Special, by : 0..MaxQRs]
  OBVIOUS
<1>3. sent' \in Seq([item : {"code", "scanned"} \cup Special, by : 0..MaxQRs])
  BY <1>2 DEF ChanOK, Put
<1> QED
  BY <1>1, <1>3 DEF ChanOK

\* Emitters are numbered from one.
LEMMA EmitterNumbers == 0 \in 0..MaxQRs /\ \A e \in Emitters : e \in 0..MaxQRs /\ e # 0
BY BoundAssumption DEF Emitters

\* A handler that is on its way to the final item has a final event; scans come from
\* the handler queue only.
EventInv ==
    /\ \A d \in Dispatchers : disp[d].pc \in {"stop", "cas", "send"} => disp[d].ev \in Special
    /\ \A d \in Dispatchers : disp[d].pc = "scan" => disp[d].ev = "scanned"
    /\ \A d \in Dispatchers : disp[d].ev = "scanned" => d = "node"

\* Every step keeps the types.
LEMMA TypeStep == ASSUME TypeOK, EventInv, NextActions PROVE TypeOK'
<1> USE DEF TypeOK
<1>1. ASSUME NEW e \in Emitters, OutOfCodes(e) PROVE TypeOK'
  <2>1. ChanOK'
    BY <1>1, BoundAssumption DEF OutOfCodes, CAS, CASFails, ChanOK
  <2>2. GoroutinesOK'
    BY <1>1, BoundAssumption DEF OutOfCodes, Emitter, EmitterStates, GoroutinesOK
  <2> QED
    BY <1>1, <2>1, <2>2, BoundAssumption DEF OutOfCodes, PairOK, RestOK, pairVars, readVars
<1>2. ASSUME NEW e \in Emitters, NextCode(e) PROVE TypeOK'
  <2>1. GoroutinesOK'
    BY <1>2, BoundAssumption DEF NextCode, Emitter, EmitterStates, GoroutinesOK
  <2> QED
    BY <1>2, <2>1, BoundAssumption DEF NextCode, ChanOK, PairOK, RestOK, chanVars, pairVars,
       readVars
<1>3. ASSUME NEW e \in Emitters, EmitCode(e) PROVE TypeOK'
  <2>0. \/ UNCHANGED chanVars
        \/ HasRoom /\ Put("code", e) /\ UNCHANGED <<closed, stopQRs, closes>>
        \/ closed' \in BOOLEAN /\ UNCHANGED <<stopQRs, out, sent, closes>>
    BY <1>3 DEF EmitCode, CAS, CASFails, ChanOK
  <2>1. ChanOK'
    BY <2>0, PutType, EmitterNumbers DEF chanVars, ChanOK
  <2>2. GoroutinesOK'
    BY <1>3, BoundAssumption DEF EmitCode, Emitter, EmitterStates, GoroutinesOK
  <2>3. RestOK'
    BY <1>3, BoundAssumption DEF EmitCode, readVars, RestOK
  <2> QED
    BY <1>3, <2>1, <2>2, <2>3 DEF EmitCode, PairOK, pairVars
<1>4. ASSUME NEW e \in Emitters, EmitWaits(e) PROVE TypeOK'
  <2>1. ChanOK'
    BY <1>4, BoundAssumption DEF EmitWaits, CAS, CASFails, ChanOK
  <2>2. GoroutinesOK'
    BY <1>4, BoundAssumption DEF EmitWaits, Emitter, EmitterStates, GoroutinesOK
  <2> QED
    BY <1>4, <2>1, <2>2, BoundAssumption DEF EmitWaits, PairOK, RestOK, pairVars, readVars
<1>5. ASSUME NEW e \in Emitters, EmitTimeout(e) PROVE TypeOK'
  <2>1. ChanOK'
    BY <1>5, PutType, EmitterNumbers DEF EmitTimeout, Special
  <2>2. GoroutinesOK'
    BY <1>5, BoundAssumption DEF EmitTimeout, Emitter, EmitterStates, GoroutinesOK
  <2> QED
    BY <1>5, <2>1, <2>2, BoundAssumption DEF EmitTimeout, PairOK, RestOK, pairVars, readVars
<1>6. ASSUME NEW e \in Emitters, EmitCloses(e) PROVE TypeOK'
  <2>1. ChanOK'
    BY <1>6, BoundAssumption DEF EmitCloses, ChanOK
  <2>2. GoroutinesOK'
    BY <1>6, BoundAssumption DEF EmitCloses, Emitter, EmitterStates, GoroutinesOK
  <2>3. RestOK'
    BY <1>6, BoundAssumption DEF EmitCloses, readVars, RestOK
  <2> QED
    BY <1>6, <2>1, <2>2, <2>3 DEF EmitCloses, PairOK, pairVars
<1>7. ASSUME NEW e \in Emitters, EmitDisconnects(e) PROVE TypeOK'
  <2>1. GoroutinesOK'
    BY <1>7, BoundAssumption DEF EmitDisconnects, Emitter, EmitterStates, GoroutinesOK
  <2>2. RestOK'
    BY <1>7, BoundAssumption DEF EmitDisconnects, readVars, RestOK
  <2> QED
    BY <1>7, <2>1, <2>2, BoundAssumption DEF EmitDisconnects, ChanOK, PairOK, chanVars, pairVars
<1>8. ASSUME NEW d \in Dispatchers, HandleEvent(d) PROVE TypeOK'
  <2>1. GoroutinesOK'
    BY <1>8, BoundAssumption DEF HandleEvent, Done, Idle, At, DispatcherStates, Special,
       EmitterStates, GoroutinesOK
  <2> QED
    BY <1>8, <2>1, BoundAssumption DEF HandleEvent, ChanOK, PairOK, RestOK, chanVars, pairVars,
       readVars
<1>9. ASSUME NEW d \in Dispatchers, HandleScan(d) PROVE TypeOK'
  <2>0. \/ UNCHANGED chanVars
        \/ HasRoom /\ Put("scanned", 0) /\ UNCHANGED <<closed, stopQRs, closes>>
    BY <1>9 DEF HandleScan, chanVars
  <2>1. ChanOK'
    BY <2>0, PutType, EmitterNumbers DEF chanVars, ChanOK
  <2>2. GoroutinesOK'
    BY <1>9, BoundAssumption DEF HandleScan, Done, Idle, DispatcherStates, Special, GoroutinesOK
  <2> QED
    BY <1>9, <2>1, <2>2, BoundAssumption DEF HandleScan, PairOK, RestOK, pairVars, readVars
<1>10. ASSUME NEW d \in Dispatchers, HandleStop(d) PROVE TypeOK'
  <2>1. ChanOK'
    BY <1>10, BoundAssumption DEF HandleStop, ChanOK
  <2>2. GoroutinesOK'
    BY <1>10, BoundAssumption DEF HandleStop, Done, Idle, At, DispatcherStates, Special,
       GoroutinesOK
  <2> QED
    BY <1>10, <2>1, <2>2, BoundAssumption DEF HandleStop, PairOK, RestOK, pairVars, readVars
<1>11. ASSUME NEW d \in Dispatchers, HandleFinal(d) PROVE TypeOK'
  <2>1. ChanOK'
    BY <1>11, BoundAssumption DEF HandleFinal, CAS, CASFails, ChanOK
  <2>2. GoroutinesOK'
    BY <1>11, BoundAssumption DEF HandleFinal, At, Done, Idle, DispatcherStates, Special,
       GoroutinesOK
  <2>3. RestOK'
    BY <1>11, BoundAssumption DEF HandleFinal, readVars, RestOK
  <2> QED
    BY <1>11, <2>1, <2>2, <2>3 DEF HandleFinal, PairOK, pairVars
<1>12. ASSUME NEW d \in Dispatchers, HandleSend(d) PROVE TypeOK'
  <2>1. ChanOK'
    BY <1>12, PutType, EmitterNumbers DEF HandleSend, EventInv
  <2>2. GoroutinesOK'
    BY <1>12, BoundAssumption DEF HandleSend, At, DispatcherStates, Special, GoroutinesOK
  <2> QED
    BY <1>12, <2>1, <2>2, BoundAssumption DEF HandleSend, PairOK, RestOK, pairVars, readVars
<1>13. ASSUME NEW d \in Dispatchers, HandleClose(d) PROVE TypeOK'
  <2>1. ChanOK'
    BY <1>13, BoundAssumption DEF HandleClose, ChanOK
  <2>2. GoroutinesOK'
    BY <1>13, BoundAssumption DEF HandleClose, Done, Idle, DispatcherStates, Special, GoroutinesOK
  <2>3. RestOK'
    BY <1>13, BoundAssumption DEF HandleClose, readVars, RestOK
  <2> QED
    BY <1>13, <2>1, <2>2, <2>3 DEF HandleClose, PairOK, pairVars
<1>14. ASSUME NEW ev \in {"QR", "scanned", "unexpected"}, NodeEvent(ev) PROVE TypeOK'
  <2>1. GoroutinesOK'
    BY <1>14, BoundAssumption DEF NodeEvent, Dispatch, DispatcherStates, Special, Dispatchers,
       GoroutinesOK
  <2>2. RestOK'
    BY <1>14, BoundAssumption DEF NodeEvent, readVars, RestOK
  <2> QED
    BY <1>14, <2>1, <2>2, BoundAssumption DEF NodeEvent, ChanOK, PairOK, chanVars, pairVars
<1>15. ASSUME RemoveEventHandler PROVE TypeOK'
  <2>0. removers' \in Nat
    <3>1. removers \in Nat /\ removers > 0 /\ removers' = removers - 1
      BY <1>15 DEF RemoveEventHandler, RestOK
    <3> QED
      BY <3>1
  <2>1. RestOK'
    BY <1>15, <2>0, BoundAssumption DEF RemoveEventHandler, readVars, RestOK
  <2> QED
    BY <1>15, <2>1, BoundAssumption DEF RemoveEventHandler, ChanOK, GoroutinesOK, PairOK,
       chanVars, pairVars
<1>16. ASSUME Verify PROVE TypeOK'
  <2>1. PairOK'
    BY <1>16 DEF Verify, PairOK
  <2>2. RestOK'
    BY <1>16, BoundAssumption DEF Verify, Fault, pairFrame, readVars, RestOK
  <2> QED
    BY <1>16, <2>1, <2>2, BoundAssumption DEF Verify, ChanOK, GoroutinesOK, chanVars, pairFrame
<1>17. ASSUME Save PROVE TypeOK'
  <2>1. PairOK'
    BY <1>17 DEF Save, PairOK
  <2>2. RestOK'
    BY <1>17, BoundAssumption DEF Save, Fault, pairFrame, readVars, RestOK
  <2> QED
    BY <1>17, <2>1, <2>2, BoundAssumption DEF Save, ChanOK, GoroutinesOK, chanVars, pairFrame
<1>18. ASSUME PutIdentity PROVE TypeOK'
  <2>1. PairOK'
    BY <1>18 DEF PutIdentity, Delete, PairOK
  <2>2. RestOK'
    BY <1>18, BoundAssumption DEF PutIdentity, Delete, pairFrame, readVars, RestOK
  <2> QED
    BY <1>18, <2>1, <2>2, BoundAssumption DEF PutIdentity, ChanOK, GoroutinesOK, chanVars, pairFrame
<1>19. ASSUME Confirm PROVE TypeOK'
  <2>1. PairOK'
    BY <1>19 DEF Confirm, Delete, PairOK
  <2>2. RestOK'
    BY <1>19, BoundAssumption DEF Confirm, Delete, pairFrame, readVars, RestOK
  <2> QED
    BY <1>19, <2>1, <2>2, BoundAssumption DEF Confirm, ChanOK, GoroutinesOK, chanVars, pairFrame
<1>20. ASSUME PairEnds PROVE TypeOK'
  <2>1. PairOK'
    BY <1>20 DEF PairEnds, PairOK
  <2>2. GoroutinesOK'
    BY <1>20, BoundAssumption DEF PairEnds, Dispatch, DispatcherStates, Special, Dispatchers,
       pairFrame, GoroutinesOK
  <2>3. RestOK'
    BY <1>20, BoundAssumption DEF PairEnds, pairFrame, readVars, RestOK
  <2> QED
    BY <1>20, <2>1, <2>2, <2>3, BoundAssumption DEF PairEnds, ChanOK, chanVars, pairFrame
<1>21. ASSUME Read PROVE TypeOK'
  <2>1. ChanOK'
    BY <1>21, BoundAssumption DEF Read, ChanOK
  <2> QED
    BY <1>21, <2>1, BoundAssumption DEF Read, GoroutinesOK, PairOK, RestOK, pairVars, readVars
<1>22. ASSUME ConnectionLost PROVE TypeOK'
  <2>1. GoroutinesOK'
    BY <1>22, BoundAssumption DEF ConnectionLost, Dispatch, DispatcherStates, Special,
       Dispatchers, GoroutinesOK
  <2>2. RestOK'
    BY <1>22, BoundAssumption DEF ConnectionLost, readVars, RestOK
  <2> QED
    BY <1>22, <2>1, <2>2, BoundAssumption DEF ConnectionLost, ChanOK, PairOK, chanVars, pairVars
<1>23. ASSUME PairSuccessNode PROVE TypeOK'
  <2>1. PairOK'
    BY <1>23 DEF PairSuccessNode, PairOK
  <2> QED
    BY <1>23, <2>1, BoundAssumption DEF PairSuccessNode, ChanOK, GoroutinesOK, RestOK, chanVars,
       readVars, pairFrame
<1>24. ASSUME ReaderLeaves PROVE TypeOK'
  <2>1. RestOK'
    BY <1>24, BoundAssumption DEF ReaderLeaves, RestOK
  <2> QED
    BY <1>24, <2>1, BoundAssumption DEF ReaderLeaves, ChanOK, GoroutinesOK, PairOK, chanVars,
       pairVars
<1>25. ASSUME ContextEnds PROVE TypeOK'
  <2>1. RestOK'
    BY <1>25, BoundAssumption DEF ContextEnds, RestOK
  <2> QED
    BY <1>25, <2>1, BoundAssumption DEF ContextEnds, ChanOK, GoroutinesOK, PairOK, chanVars,
       pairVars
<1> QED
  BY <1>1, <1>2, <1>3, <1>4, <1>5, <1>6, <1>7, <1>8, <1>9, <1>10, <1>11, <1>12, <1>13, <1>14,
     <1>15, <1>16, <1>17, <1>18, <1>19, <1>20, <1>21, <1>22, <1>23, <1>24, <1>25 DEF NextActions

-----------------------------------------------------------------------------
(* Closing the output.                                                     *)

\* Whoever has set qrc.closed owns the output until it has closed it.
EmitterOwns(e) == emit[e].pc \in {"timeout", "close"}
HandlerOwns(d) == disp[d].pc \in {"send", "close"}

\* One goroutine owns the output at a time, and nobody once it is closed.
OwnerInv ==
    /\ \A e \in Emitters : EmitterOwns(e) => closed /\ closes = 0
    /\ \A d \in Dispatchers : HandlerOwns(d) => closed /\ closes = 0
    /\ \A e, f \in Emitters : EmitterOwns(e) /\ EmitterOwns(f) => e = f
    /\ \A c, d \in Dispatchers : HandlerOwns(c) /\ HandlerOwns(d) => c = d
    /\ \A e \in Emitters, d \in Dispatchers : ~(EmitterOwns(e) /\ HandlerOwns(d))
    /\ closes \in {0, 1}
    /\ closes = 1 => closed
    /\ crash # "closeOfClosed"

\* No final item is sent before qrc.closed is set, and whoever closes the output
\* has sent one, has found it full, or has seen the context end.
FinalInv ==
    /\ \A e \in Emitters : emit[e].pc = "timeout" => Finals = {}
    /\ \A d \in Dispatchers : disp[d].pc = "send" => Finals = {}
    /\ \A e \in Emitters : emit[e].pc = "close" => Finals # {} \/ full \/ ctxDone
    /\ \A d \in Dispatchers : disp[d].pc = "close" => Finals # {}
    /\ Finals # {} => closed
    /\ \A i, j \in Finals : i = j
    /\ closes = 1 => Finals # {} \/ full \/ ctxDone

\* Whoever has sent an item after the final one does not send another: it looks at
\* qrc.closed before.
LateInv ==
    \A i \in Finals : \A j \in i + 1..Len(sent) :
        /\ \A e \in Emitters : sent[j].by = e => emit[e].pc # "emit"
        /\ sent[j].by = 0 => \A d \in Dispatchers : disp[d].pc # "scan"
        /\ \A k \in i + 1..Len(sent) : sent[j].by = sent[k].by => j = k

\* The device row follows the pairing.
PairInv ==
    /\ pair \in {"off", "verify", "save"} => ~row
    /\ pair = "save" => id
    /\ pair \in {"identity", "confirm", "success", "paired"} => row /\ id
    /\ pair \in {"failed", "error"} => ~row \/ deleteFailed
    /\ confirmed => pair \in {"success", "paired"}

\* What OwnerInv depends on.
LEMMA OwnerFrame == ASSUME OwnerInv, UNCHANGED <<closed, closes, emit, disp, crash>> PROVE OwnerInv'
BY DEF OwnerInv, EmitterOwns, HandlerOwns

\* What EventInv depends on.
LEMMA EventFrame == ASSUME EventInv, UNCHANGED <<disp>> PROVE EventInv'
BY DEF EventInv

\* What FinalInv depends on.
LEMMA FinalFrame == ASSUME FinalInv, UNCHANGED <<closed, closes, emit, disp, sent, full, ctxDone>> PROVE FinalInv'
<1>1. Finals' = Finals
  BY DEF Finals
<1> QED
  BY <1>1 DEF FinalInv

\* A send adds one item, a final one or not.
LEMMA PutAppends ==
    ASSUME ChanOK, NEW what, NEW who, Put(what, who)
    PROVE  /\ Finals' = IF what \in Special THEN Finals \cup {Len(sent) + 1} ELSE Finals
           /\ Len(sent') = Len(sent) + 1 /\ sent'[Len(sent) + 1].by = who
           /\ \A j \in 1..Len(sent) : sent'[j] = sent[j]
           /\ Len(sent) \in Nat /\ \A i \in Finals : i \in 1..Len(sent)
<1> DEFINE x == [item |-> what, by |-> who]
<1>1. sent' = Append(sent, x) /\ sent \in Seq([item : {"code", "scanned"} \cup Special, by : 0..MaxQRs])
  BY DEF Put, ChanOK
<1>2. /\ Len(sent) \in Nat /\ Len(sent') = Len(sent) + 1 /\ sent'[Len(sent) + 1] = x
      /\ \A j \in 1..Len(sent) : sent'[j] = sent[j]
  BY <1>1
<1>3. x.item = what /\ x.by = who
  OBVIOUS
<1> HIDE DEF x
<1>4. 1..Len(sent') = 1..Len(sent) \cup {Len(sent) + 1}
  BY <1>2
<1>5. Finals' = IF what \in Special THEN Finals \cup {Len(sent) + 1} ELSE Finals
  BY <1>2, <1>3, <1>4 DEF Finals
<1> QED
  BY <1>2, <1>3, <1>5 DEF Finals

\* What PairInv depends on.
LEMMA PairFrameKeeps == ASSUME PairInv, UNCHANGED <<pair, id, row, confirmed, deleteFailed>> PROVE PairInv'
BY DEF PairInv

\* Every step keeps OwnerInv: qrc.closed is set by one compare-and-swap.
LEMMA OwnerStep == ASSUME TypeOK, OwnerInv, NextActions PROVE OwnerInv'
<1> USE DEF TypeOK
<1>1. ASSUME NEW e \in Emitters, OutOfCodes(e) PROVE OwnerInv'
  BY <1>1 DEF OutOfCodes, OwnerInv, EmitterOwns, HandlerOwns, CAS, CASFails, GoroutinesOK,
     EmitterStates, Emitter
<1>2. ASSUME NEW e \in Emitters, NextCode(e) PROVE OwnerInv'
  BY <1>2 DEF NextCode, OwnerInv, EmitterOwns, HandlerOwns, GoroutinesOK, EmitterStates, Emitter,
     chanVars
<1>3. ASSUME NEW e \in Emitters, EmitCode(e) PROVE OwnerInv'
  BY <1>3 DEF EmitCode, OwnerInv, EmitterOwns, HandlerOwns, CAS, CASFails, chanVars,
     GoroutinesOK, EmitterStates, Emitter
<1>4. ASSUME NEW e \in Emitters, EmitWaits(e) PROVE OwnerInv'
  BY <1>4 DEF EmitWaits, OwnerInv, EmitterOwns, HandlerOwns, CAS, CASFails, GoroutinesOK,
     EmitterStates, Emitter
<1>5. ASSUME NEW e \in Emitters, EmitTimeout(e) PROVE OwnerInv'
  BY <1>5 DEF EmitTimeout, OwnerInv, EmitterOwns, HandlerOwns, GoroutinesOK, EmitterStates, Emitter
<1>6. ASSUME NEW e \in Emitters, EmitCloses(e) PROVE OwnerInv'
  BY <1>6 DEF EmitCloses, OwnerInv, EmitterOwns, HandlerOwns, outClosed, GoroutinesOK,
     EmitterStates, Emitter
<1>7. ASSUME NEW e \in Emitters, EmitDisconnects(e) PROVE OwnerInv'
  BY <1>7 DEF EmitDisconnects, OwnerInv, EmitterOwns, HandlerOwns, GoroutinesOK, EmitterStates,
     Emitter, chanVars
<1>8. ASSUME NEW d \in Dispatchers, HandleEvent(d) PROVE OwnerInv'
  BY <1>8 DEF HandleEvent, OwnerInv, EmitterOwns, HandlerOwns, EmitterStates, chanVars,
     GoroutinesOK, DispatcherStates, At, Done, Idle
<1>9. ASSUME NEW d \in Dispatchers, HandleScan(d) PROVE OwnerInv'
  BY <1>9 DEF HandleScan, OwnerInv, EmitterOwns, HandlerOwns, GoroutinesOK, DispatcherStates, At,
     Done, Idle
<1>10. ASSUME NEW d \in Dispatchers, HandleStop(d) PROVE OwnerInv'
  BY <1>10 DEF HandleStop, OwnerInv, EmitterOwns, HandlerOwns, GoroutinesOK, DispatcherStates,
     At, Done, Idle
<1>11. ASSUME NEW d \in Dispatchers, HandleFinal(d) PROVE OwnerInv'
  BY <1>11 DEF HandleFinal, OwnerInv, EmitterOwns, HandlerOwns, CAS, CASFails, GoroutinesOK,
     DispatcherStates, At, Done, Idle
<1>12. ASSUME NEW d \in Dispatchers, HandleSend(d) PROVE OwnerInv'
  BY <1>12 DEF HandleSend, OwnerInv, EmitterOwns, HandlerOwns, GoroutinesOK, DispatcherStates,
     At, Done, Idle
<1>13. ASSUME NEW d \in Dispatchers, HandleClose(d) PROVE OwnerInv'
  BY <1>13 DEF HandleClose, OwnerInv, EmitterOwns, HandlerOwns, GoroutinesOK, DispatcherStates,
     At, Done, Idle
<1>14. ASSUME NEW ev \in {"QR", "scanned", "unexpected"}, NodeEvent(ev) PROVE OwnerInv'
  BY <1>14 DEF NodeEvent, OwnerInv, EmitterOwns, HandlerOwns, Dispatch, chanVars, GoroutinesOK,
     DispatcherStates, At, Done, Idle
<1>15. ASSUME RemoveEventHandler PROVE OwnerInv'
  BY <1>15, OwnerFrame DEF RemoveEventHandler, chanVars
<1>16. ASSUME Verify PROVE OwnerInv'
  BY <1>16, OwnerFrame DEF Verify, chanVars, pairFrame
<1>17. ASSUME Save PROVE OwnerInv'
  BY <1>17, OwnerFrame DEF Save, chanVars, pairFrame
<1>18. ASSUME PutIdentity PROVE OwnerInv'
  BY <1>18, OwnerFrame DEF PutIdentity, chanVars, pairFrame
<1>19. ASSUME Confirm PROVE OwnerInv'
  BY <1>19, OwnerFrame DEF Confirm, chanVars, pairFrame
<1>20. ASSUME PairEnds PROVE OwnerInv'
  BY <1>20 DEF PairEnds, OwnerInv, EmitterOwns, HandlerOwns, Dispatch, pairFrame, chanVars,
     GoroutinesOK, DispatcherStates, At, Done, Idle
<1>21. ASSUME Read PROVE OwnerInv'
  BY <1>21, OwnerFrame DEF Read, chanVars
<1>22. ASSUME ConnectionLost PROVE OwnerInv'
  BY <1>22 DEF ConnectionLost, OwnerInv, EmitterOwns, HandlerOwns, Dispatch, chanVars,
     GoroutinesOK, DispatcherStates, At, Done, Idle
<1>23. ASSUME PairSuccessNode PROVE OwnerInv'
  BY <1>23, OwnerFrame DEF PairSuccessNode, chanVars, pairFrame
<1>24. ASSUME ReaderLeaves PROVE OwnerInv'
  BY <1>24, OwnerFrame DEF ReaderLeaves, chanVars
<1>25. ASSUME ContextEnds PROVE OwnerInv'
  BY <1>25, OwnerFrame DEF ContextEnds, chanVars
<1> QED
  BY <1>1, <1>2, <1>3, <1>4, <1>5, <1>6, <1>7, <1>8, <1>9, <1>10, <1>11, <1>12, <1>13, <1>14,
     <1>15, <1>16, <1>17, <1>18, <1>19, <1>20, <1>21, <1>22, <1>23, <1>24, <1>25 DEF NextActions

\* Every step keeps EventInv.
LEMMA EventStep == ASSUME TypeOK, EventInv, NextActions PROVE EventInv'
<1> USE DEF TypeOK
<1>1. ASSUME NEW e \in Emitters, OutOfCodes(e) PROVE EventInv'
  BY <1>1, EventFrame DEF OutOfCodes
<1>2. ASSUME NEW e \in Emitters, NextCode(e) PROVE EventInv'
  BY <1>2, EventFrame DEF NextCode
<1>3. ASSUME NEW e \in Emitters, EmitCode(e) PROVE EventInv'
  BY <1>3, EventFrame DEF EmitCode
<1>4. ASSUME NEW e \in Emitters, EmitWaits(e) PROVE EventInv'
  BY <1>4, EventFrame DEF EmitWaits
<1>5. ASSUME NEW e \in Emitters, EmitTimeout(e) PROVE EventInv'
  BY <1>5, EventFrame DEF EmitTimeout
<1>6. ASSUME NEW e \in Emitters, EmitCloses(e) PROVE EventInv'
  BY <1>6, EventFrame DEF EmitCloses
<1>7. ASSUME NEW e \in Emitters, EmitDisconnects(e) PROVE EventInv'
  BY <1>7, EventFrame DEF EmitDisconnects
<1>8. ASSUME NEW d \in Dispatchers, HandleEvent(d) PROVE EventInv'
  BY <1>8 DEF HandleEvent, EventInv, GoroutinesOK, DispatcherStates, At, Done, Idle
<1>9. ASSUME NEW d \in Dispatchers, HandleScan(d) PROVE EventInv'
  BY <1>9 DEF HandleScan, EventInv, GoroutinesOK, DispatcherStates, At, Done, Idle
<1>10. ASSUME NEW d \in Dispatchers, HandleStop(d) PROVE EventInv'
  BY <1>10 DEF HandleStop, EventInv, GoroutinesOK, DispatcherStates, At, Done, Idle
<1>11. ASSUME NEW d \in Dispatchers, HandleFinal(d) PROVE EventInv'
  BY <1>11 DEF HandleFinal, EventInv, GoroutinesOK, DispatcherStates, At, Done, Idle
<1>12. ASSUME NEW d \in Dispatchers, HandleSend(d) PROVE EventInv'
  BY <1>12 DEF HandleSend, EventInv, GoroutinesOK, DispatcherStates, At, Done, Idle
<1>13. ASSUME NEW d \in Dispatchers, HandleClose(d) PROVE EventInv'
  BY <1>13 DEF HandleClose, EventInv, GoroutinesOK, DispatcherStates, At, Done, Idle
<1>14. ASSUME NEW ev \in {"QR", "scanned", "unexpected"}, NodeEvent(ev) PROVE EventInv'
  BY <1>14 DEF NodeEvent, EventInv, Dispatch, GoroutinesOK, DispatcherStates, At, Done, Idle
<1>15. ASSUME RemoveEventHandler PROVE EventInv'
  BY <1>15, EventFrame DEF RemoveEventHandler
<1>16. ASSUME Verify PROVE EventInv'
  BY <1>16, EventFrame DEF Verify
<1>17. ASSUME Save PROVE EventInv'
  BY <1>17, EventFrame DEF Save
<1>18. ASSUME PutIdentity PROVE EventInv'
  BY <1>18, EventFrame DEF PutIdentity
<1>19. ASSUME Confirm PROVE EventInv'
  BY <1>19, EventFrame DEF Confirm
<1>20. ASSUME PairEnds PROVE EventInv'
  BY <1>20 DEF PairEnds, EventInv, Dispatch, GoroutinesOK, DispatcherStates, At, Done, Idle
<1>21. ASSUME Read PROVE EventInv'
  BY <1>21, EventFrame DEF Read
<1>22. ASSUME ConnectionLost PROVE EventInv'
  BY <1>22 DEF ConnectionLost, EventInv, Dispatch, GoroutinesOK, DispatcherStates, At, Done, Idle
<1>23. ASSUME PairSuccessNode PROVE EventInv'
  BY <1>23, EventFrame DEF PairSuccessNode
<1>24. ASSUME ReaderLeaves PROVE EventInv'
  BY <1>24, EventFrame DEF ReaderLeaves
<1>25. ASSUME ContextEnds PROVE EventInv'
  BY <1>25, EventFrame DEF ContextEnds
<1> QED
  BY <1>1, <1>2, <1>3, <1>4, <1>5, <1>6, <1>7, <1>8, <1>9, <1>10, <1>11, <1>12, <1>13, <1>14,
     <1>15, <1>16, <1>17, <1>18, <1>19, <1>20, <1>21, <1>22, <1>23, <1>24, <1>25 DEF NextActions

\* Every step keeps FinalInv.
LEMMA FinalStep == ASSUME TypeOK, OwnerInv, EventInv, FinalInv, NextActions PROVE FinalInv'
<1> USE DEF TypeOK
<1>0. ASSUME sent' = sent PROVE Finals' = Finals
  BY <1>0 DEF Finals
<1>1. ASSUME NEW e \in Emitters, OutOfCodes(e) PROVE FinalInv'
  BY <1>0, <1>1 DEF OutOfCodes, readVars, FinalInv, OwnerInv, EmitterOwns, HandlerOwns,
     CAS, CASFails, GoroutinesOK, EmitterStates, Emitter, chanVars
<1>2. ASSUME NEW e \in Emitters, NextCode(e) PROVE FinalInv'
  BY <1>0, <1>2 DEF NextCode, readVars, FinalInv, OwnerInv, EmitterOwns, HandlerOwns,
     GoroutinesOK, EmitterStates, Emitter, chanVars
<1>3. ASSUME NEW e \in Emitters, EmitCode(e) PROVE FinalInv'
  <2>1. Finals' = Finals
    BY <1>0, <1>3, PutAppends DEF EmitCode, Special, chanVars
  <2> QED
    BY <1>3, <2>1 DEF EmitCode, readVars, FinalInv, OwnerInv, EmitterOwns, HandlerOwns,
       CAS, CASFails, chanVars, GoroutinesOK, EmitterStates, Emitter
<1>4. ASSUME NEW e \in Emitters, EmitWaits(e) PROVE FinalInv'
  BY <1>0, <1>4 DEF EmitWaits, FinalInv, OwnerInv, EmitterOwns, HandlerOwns, CAS,
     CASFails, readVars, GoroutinesOK, EmitterStates, Emitter, chanVars
<1>5. ASSUME NEW e \in Emitters, EmitTimeout(e) PROVE FinalInv'
  <2>1. Finals = {} /\ Finals' = {Len(sent) + 1}
    BY <1>5, PutAppends DEF EmitTimeout, Special, FinalInv
  <2> QED
    BY <1>5, <2>1 DEF EmitTimeout, FinalInv, OwnerInv, EmitterOwns, HandlerOwns,
       readVars, GoroutinesOK, EmitterStates, Emitter
<1>6. ASSUME NEW e \in Emitters, EmitCloses(e) PROVE FinalInv'
  BY <1>0, <1>6 DEF EmitCloses, FinalInv, OwnerInv, EmitterOwns, HandlerOwns, readVars,
     GoroutinesOK, EmitterStates, Emitter, chanVars
<1>7. ASSUME NEW e \in Emitters, EmitDisconnects(e) PROVE FinalInv'
  BY <1>0, <1>7 DEF EmitDisconnects, FinalInv, OwnerInv, EmitterOwns, HandlerOwns,
     GoroutinesOK, EmitterStates, Emitter, chanVars, readVars
<1>8. ASSUME NEW d \in Dispatchers, HandleEvent(d) PROVE FinalInv'
  BY <1>0, <1>8 DEF HandleEvent, FinalInv, OwnerInv, EmitterOwns, HandlerOwns,
     EmitterStates, chanVars, readVars, GoroutinesOK, DispatcherStates, At, Done, Idle
<1>9. ASSUME NEW d \in Dispatchers, HandleScan(d) PROVE FinalInv'
  <2>1. Finals' = Finals
    BY <1>0, <1>9, PutAppends DEF HandleScan, Special
  <2> QED
    BY <1>9, <2>1 DEF HandleScan, FinalInv, OwnerInv, EmitterOwns, HandlerOwns,
       readVars, GoroutinesOK, DispatcherStates, At, Done, Idle
<1>10. ASSUME NEW d \in Dispatchers, HandleStop(d) PROVE FinalInv'
  BY <1>0, <1>10 DEF HandleStop, FinalInv, OwnerInv, EmitterOwns, HandlerOwns, readVars,
     GoroutinesOK, DispatcherStates, At, Done, Idle, chanVars
<1>11. ASSUME NEW d \in Dispatchers, HandleFinal(d) PROVE FinalInv'
  BY <1>0, <1>11 DEF HandleFinal, FinalInv, OwnerInv, EmitterOwns, HandlerOwns, CAS,
     CASFails, readVars, GoroutinesOK, DispatcherStates, At, Done, Idle, chanVars
<1>12. ASSUME NEW d \in Dispatchers, HandleSend(d) PROVE FinalInv'
  <2>1. Finals = {} /\ Finals' = {Len(sent) + 1}
    BY <1>12, PutAppends DEF HandleSend, EventInv, FinalInv
  <2> QED
    BY <1>12, <2>1 DEF HandleSend, FinalInv, OwnerInv, EmitterOwns, HandlerOwns,
       readVars, GoroutinesOK, DispatcherStates, At, Done, Idle
<1>13. ASSUME NEW d \in Dispatchers, HandleClose(d) PROVE FinalInv'
  BY <1>0, <1>13 DEF HandleClose, FinalInv, OwnerInv, EmitterOwns, HandlerOwns, readVars,
     GoroutinesOK, DispatcherStates, At, Done, Idle, chanVars
<1>14. ASSUME NEW ev \in {"QR", "scanned", "unexpected"}, NodeEvent(ev) PROVE FinalInv'
  BY <1>0, <1>14 DEF NodeEvent, FinalInv, OwnerInv, EmitterOwns, HandlerOwns, Dispatch,
     chanVars, readVars, GoroutinesOK, DispatcherStates, At, Done, Idle
<1>15. ASSUME RemoveEventHandler PROVE FinalInv'
  BY <1>15, FinalFrame DEF RemoveEventHandler, chanVars, readVars
<1>16. ASSUME Verify PROVE FinalInv'
  BY <1>16, FinalFrame DEF Verify, chanVars, readVars, pairFrame
<1>17. ASSUME Save PROVE FinalInv'
  BY <1>17, FinalFrame DEF Save, chanVars, readVars, pairFrame
<1>18. ASSUME PutIdentity PROVE FinalInv'
  BY <1>18, FinalFrame DEF PutIdentity, chanVars, readVars, pairFrame
<1>19. ASSUME Confirm PROVE FinalInv'
  BY <1>19, FinalFrame DEF Confirm, chanVars, readVars, pairFrame
<1>20. ASSUME PairEnds PROVE FinalInv'
  BY <1>0, <1>20 DEF PairEnds, FinalInv, OwnerInv, EmitterOwns, HandlerOwns, Dispatch,
     pairFrame, chanVars, readVars, GoroutinesOK, DispatcherStates, At, Done, Idle
<1>21. ASSUME Read PROVE FinalInv'
  BY <1>21, FinalFrame DEF Read, chanVars, readVars
<1>22. ASSUME ConnectionLost PROVE FinalInv'
  BY <1>0, <1>22 DEF ConnectionLost, FinalInv, OwnerInv, EmitterOwns, HandlerOwns,
     Dispatch, chanVars, readVars, GoroutinesOK, DispatcherStates, At, Done, Idle
<1>23. ASSUME PairSuccessNode PROVE FinalInv'
  BY <1>23, FinalFrame DEF PairSuccessNode, chanVars, readVars, pairFrame
<1>24. ASSUME ReaderLeaves PROVE FinalInv'
  BY <1>24, FinalFrame DEF ReaderLeaves, chanVars, readVars
<1>25. ASSUME ContextEnds PROVE FinalInv'
  BY <1>0, <1>25 DEF ContextEnds, FinalInv, OwnerInv, EmitterOwns, HandlerOwns, chanVars
<1> QED
  BY <1>1, <1>2, <1>3, <1>4, <1>5, <1>6, <1>7, <1>8, <1>9, <1>10, <1>11, <1>12, <1>13, <1>14,
     <1>15, <1>16, <1>17, <1>18, <1>19, <1>20, <1>21, <1>22, <1>23, <1>24, <1>25 DEF NextActions

\* A step without a send, after which no more goroutines are about to send.
LEMMA LateFrame ==
    ASSUME LateInv, sent' = sent,
           \A e \in Emitters : emit'[e].pc = "emit" => emit[e].pc = "emit",
           \A d \in Dispatchers : disp'[d].pc = "scan" => disp[d].pc = "scan"
    PROVE  LateInv'
<1>1. Finals' = Finals
  BY DEF Finals
<1> QED
  BY <1>1 DEF LateInv

\* An emitter or a handler sends an item that is not final, and is then past the send.
LEMMA LatePut ==
    ASSUME TypeOK, LateInv, NEW what, what \notin Special, NEW who, Put(what, who),
           \A e \in Emitters : emit'[e].pc = "emit" => emit[e].pc = "emit" /\ who # e,
           \A d \in Dispatchers : disp'[d].pc = "scan" => disp[d].pc = "scan" /\ who # 0,
           \/ \E e \in Emitters : who = e /\ emit[e].pc = "emit"
           \/ who = 0 /\ \E d \in Dispatchers : disp[d].pc = "scan"
    PROVE  LateInv'
<1> DEFINE n == Len(sent)
<1>1. /\ Finals' = Finals /\ Len(sent') = n + 1 /\ sent'[n + 1].by = who /\ n \in Nat
      /\ \A j \in 1..n : sent'[j] = sent[j]
      /\ \A i \in Finals : i \in 1..n
  BY PutAppends DEF TypeOK
<1> HIDE DEF n
<1>2. ASSUME NEW i \in Finals, NEW j \in i + 1..n PROVE sent[j].by # who
  BY <1>2 DEF LateInv, n
<1> SUFFICES ASSUME NEW i \in Finals, NEW j \in i + 1..n + 1
             PROVE  /\ \A e \in Emitters : sent'[j].by = e => emit'[e].pc # "emit"
                    /\ sent'[j].by = 0 => \A d \in Dispatchers : disp'[d].pc # "scan"
                    /\ \A k \in i + 1..n + 1 : sent'[j].by = sent'[k].by => j = k
  BY <1>1 DEF LateInv
<1>3. i \in Nat /\ i <= n /\ \A k \in i + 1..n + 1 : k = n + 1 \/ (k \in i + 1..n /\ k \in 1..n)
  BY <1>1
<1>4. CASE j = n + 1
  BY <1>1, <1>2, <1>3, <1>4
<1>5. CASE j # n + 1
  <2>1. j \in i + 1..n /\ sent'[j] = sent[j]
    BY <1>1, <1>3, <1>5
  <2> QED
    BY <1>1, <1>2, <1>3, <2>1 DEF LateInv, n
<1> QED
  BY <1>4, <1>5

\* The final item itself.
LEMMA LateFinal ==
    ASSUME TypeOK, Finals = {}, NEW what \in Special, NEW who, Put(what, who)
    PROVE  LateInv'
<1>1. Finals' = {Len(sent) + 1} /\ Len(sent') = Len(sent) + 1 /\ Len(sent) \in Nat
  BY PutAppends DEF TypeOK
<1> QED
  BY <1>1 DEF LateInv

\* Every step keeps LateInv.
LEMMA LateStep ==
    ASSUME TypeOK, EventInv, FinalInv, LateInv, NextActions
    PROVE  LateInv'
<1> USE DEF TypeOK, GoroutinesOK, EmitterStates, DispatcherStates
<1>0. ASSUME sent' = sent, Finals = {} PROVE LateInv'
  BY <1>0 DEF LateInv, Finals
<1>1. ASSUME NEW e \in Emitters, OutOfCodes(e) \/ EmitWaits(e) \/ EmitCloses(e) \/ EmitDisconnects(e)
      PROVE  LateInv'
  BY <1>1, LateFrame DEF OutOfCodes, EmitWaits, EmitCloses, EmitDisconnects, Emitter, chanVars
<1>2. ASSUME NEW e \in Emitters, NextCode(e) PROVE LateInv'
  <2>1. CASE closed
    BY <1>2, <2>1, LateFrame DEF NextCode, Emitter, chanVars
  <2>2. CASE ~closed
    BY <1>0, <1>2, <2>2 DEF NextCode, chanVars, FinalInv
  <2> QED
    BY <2>1, <2>2
<1>3. ASSUME NEW e \in Emitters, EmitCode(e) PROVE LateInv'
  <2>1. CASE sent' = sent
    BY <1>3, <2>1, LateFrame DEF EmitCode, Emitter
  <2>2. CASE Put("code", e) /\ Emitter(e, "wait")
    <3>1. "code" \notin Special /\ e # 0
      BY EmitterNumbers DEF Special
    <3>2. emit[e].pc = "emit" /\ disp' = disp
      BY <1>3 DEF EmitCode
    <3> QED
      BY <2>2, <3>1, <3>2, LatePut DEF Emitter
  <2> QED
    BY <1>3, <2>1, <2>2 DEF EmitCode, chanVars
<1>4. ASSUME NEW e \in Emitters, EmitTimeout(e) PROVE LateInv'
  BY <1>4, LateFinal DEF EmitTimeout, Special, FinalInv
<1>5. ASSUME NEW d \in Dispatchers, HandleEvent(d) PROVE LateInv'
  <2>1. CASE closed
    BY <1>5, <2>1, LateFrame DEF HandleEvent, Done, Idle, chanVars
  <2>2. CASE ~closed
    BY <1>0, <1>5, <2>2 DEF HandleEvent, chanVars, FinalInv
  <2> QED
    BY <2>1, <2>2
<1>6. ASSUME NEW d \in Dispatchers, HandleScan(d) PROVE LateInv'
  <2>1. CASE sent' = sent
    BY <1>6, <2>1, LateFrame DEF HandleScan, Done, Idle
  <2>2. CASE Put("scanned", 0)
    <3>1. "scanned" \notin Special /\ \A e \in Emitters : e # 0
      BY EmitterNumbers DEF Special
    <3>2. disp[d].pc = "scan" /\ emit' = emit /\ disp' = [disp EXCEPT ![d] = Idle]
      BY <1>6 DEF HandleScan, Done
    <3>3. \A c \in Dispatchers : disp'[c].pc # "scan"
      BY <3>2 DEF EventInv, Idle
    <3> QED
      BY <2>2, <3>1, <3>2, <3>3, LatePut
  <2> QED
    BY <1>6, <2>1, <2>2 DEF HandleScan
<1>7. ASSUME NEW d \in Dispatchers, HandleStop(d) \/ HandleFinal(d) \/ HandleClose(d)
      PROVE  LateInv'
  BY <1>7, LateFrame DEF HandleStop, HandleFinal, HandleClose, At, Done, Idle
<1>8. ASSUME NEW d \in Dispatchers, HandleSend(d) PROVE LateInv'
  BY <1>8, LateFinal DEF HandleSend, EventInv, FinalInv
<1>9. ASSUME NEW d \in Dispatchers, NEW ev, Dispatch(d, ev), UNCHANGED <<sent, emit>>
      PROVE  LateInv'
  BY <1>9, LateFrame DEF Dispatch, Idle
<1>10. ASSUME NEW ev, NodeEvent(ev) PROVE LateInv'
  BY <1>9, <1>10 DEF NodeEvent, chanVars, Dispatchers
<1>11. ASSUME PairEnds PROVE LateInv'
  BY <1>9, <1>11 DEF PairEnds, pairFrame, chanVars, Dispatchers
<1>12. ASSUME ConnectionLost PROVE LateInv'
  <2>1. UNCHANGED <<sent, emit>> /\ (disp' = disp \/ Dispatch("lost", "timeout"))
    BY <1>12 DEF ConnectionLost, chanVars
  <2> QED
    BY <1>9, <2>1, LateFrame DEF Dispatchers
<1>13. ASSUME RemoveEventHandler \/ Read \/ ReaderLeaves \/ ContextEnds PROVE LateInv'
  BY <1>13, LateFrame DEF RemoveEventHandler, Read, ReaderLeaves, ContextEnds, chanVars
<1>14. ASSUME Verify \/ Save \/ PutIdentity \/ Confirm \/ PairSuccessNode PROVE LateInv'
  BY <1>14, LateFrame DEF Verify, Save, PutIdentity, Confirm, PairSuccessNode, pairFrame, chanVars
<1> QED
  BY <1>1, <1>2, <1>3, <1>4, <1>5, <1>6, <1>7, <1>8, <1>10, <1>11, <1>12, <1>13, <1>14
     DEF NextActions

\* Every step keeps PairInv.
LEMMA PairStep == ASSUME TypeOK, PairInv, NextActions PROVE PairInv'
<1> USE DEF TypeOK
<1>1. ASSUME NEW e \in Emitters, OutOfCodes(e) PROVE PairInv'
  BY <1>1, PairFrameKeeps DEF OutOfCodes, pairVars
<1>2. ASSUME NEW e \in Emitters, NextCode(e) PROVE PairInv'
  BY <1>2, PairFrameKeeps DEF NextCode, pairVars
<1>3. ASSUME NEW e \in Emitters, EmitCode(e) PROVE PairInv'
  BY <1>3, PairFrameKeeps DEF EmitCode, pairVars
<1>4. ASSUME NEW e \in Emitters, EmitWaits(e) PROVE PairInv'
  BY <1>4, PairFrameKeeps DEF EmitWaits, pairVars
<1>5. ASSUME NEW e \in Emitters, EmitTimeout(e) PROVE PairInv'
  BY <1>5, PairFrameKeeps DEF EmitTimeout, pairVars
<1>6. ASSUME NEW e \in Emitters, EmitCloses(e) PROVE PairInv'
  BY <1>6, PairFrameKeeps DEF EmitCloses, pairVars
<1>7. ASSUME NEW e \in Emitters, EmitDisconnects(e) PROVE PairInv'
  BY <1>7, PairFrameKeeps DEF EmitDisconnects, pairVars
<1>8. ASSUME NEW d \in Dispatchers, HandleEvent(d) PROVE PairInv'
  BY <1>8, PairFrameKeeps DEF HandleEvent, pairVars
<1>9. ASSUME NEW d \in Dispatchers, HandleScan(d) PROVE PairInv'
  BY <1>9, PairFrameKeeps DEF HandleScan, pairVars
<1>10. ASSUME NEW d \in Dispatchers, HandleStop(d) PROVE PairInv'
  BY <1>10, PairFrameKeeps DEF HandleStop, pairVars
<1>11. ASSUME NEW d \in Dispatchers, HandleFinal(d) PROVE PairInv'
  BY <1>11, PairFrameKeeps DEF HandleFinal, pairVars
<1>12. ASSUME NEW d \in Dispatchers, HandleSend(d) PROVE PairInv'
  BY <1>12, PairFrameKeeps DEF HandleSend, pairVars
<1>13. ASSUME NEW d \in Dispatchers, HandleClose(d) PROVE PairInv'
  BY <1>13, PairFrameKeeps DEF HandleClose, pairVars
<1>14. ASSUME NEW ev \in {"QR", "scanned", "unexpected"}, NodeEvent(ev) PROVE PairInv'
  BY <1>14, PairFrameKeeps DEF NodeEvent, pairVars
<1>15. ASSUME RemoveEventHandler PROVE PairInv'
  BY <1>15, PairFrameKeeps DEF RemoveEventHandler, pairVars
<1>16. ASSUME Verify PROVE PairInv'
  BY <1>16 DEF Verify, PairInv, PairOK
<1>17. ASSUME Save PROVE PairInv'
  <2>1. ~row /\ ~confirmed /\ id' = id /\ confirmed' = confirmed
    BY <1>17 DEF Save, PairInv
  <2>2. CASE pair' = "failed" /\ row' = row
    <3>1. ~row' /\ ~confirmed'
      BY <2>1, <2>2, Zenon
    <3> QED
      BY <2>2, <3>1 DEF PairInv
  <2>3. CASE pair' = "identity" /\ row'
    BY <1>17, <2>1, <2>3 DEF Save, PairInv
  <2> QED
    BY <1>17, <2>2, <2>3 DEF Save
<1>18. ASSUME PutIdentity PROVE PairInv'
  BY <1>18 DEF PutIdentity, PairInv, PairOK, Delete
<1>19. ASSUME Confirm PROVE PairInv'
  <2>1. row /\ id /\ ~confirmed
    BY <1>19 DEF Confirm, PairInv
  <2>2. CASE pair' = "success" /\ UNCHANGED <<row, id>>
    BY <2>1, <2>2 DEF PairInv
  <2>3. CASE pair' = "failed" /\ confirmed' = confirmed /\ Delete(0)
    BY <2>1, <2>3 DEF PairInv, Delete
  <2> QED
    BY <1>19, <2>2, <2>3 DEF Confirm
<1>20. ASSUME PairEnds PROVE PairInv'
  BY <1>20 DEF PairEnds, PairInv, PairOK
<1>21. ASSUME Read PROVE PairInv'
  BY <1>21, PairFrameKeeps DEF Read, pairVars
<1>22. ASSUME ConnectionLost PROVE PairInv'
  BY <1>22, PairFrameKeeps DEF ConnectionLost, pairVars
<1>23. ASSUME PairSuccessNode PROVE PairInv'
  BY <1>23 DEF PairSuccessNode, PairInv, PairOK
<1>24. ASSUME ReaderLeaves PROVE PairInv'
  BY <1>24, PairFrameKeeps DEF ReaderLeaves, pairVars
<1>25. ASSUME ContextEnds PROVE PairInv'
  BY <1>25, PairFrameKeeps DEF ContextEnds, pairVars
<1> QED
  BY <1>1, <1>2, <1>3, <1>4, <1>5, <1>6, <1>7, <1>8, <1>9, <1>10, <1>11, <1>12, <1>13, <1>14,
     <1>15, <1>16, <1>17, <1>18, <1>19, <1>20, <1>21, <1>22, <1>23, <1>24, <1>25 DEF NextActions

-----------------------------------------------------------------------------
(* The theorems.                                                           *)

QRInv == TypeOK /\ OwnerInv /\ EventInv /\ FinalInv /\ LateInv /\ PairInv

\* QRInv holds initially.
LEMMA InitHolds == Init => QRInv
<1> SUFFICES ASSUME Init PROVE QRInv
  OBVIOUS
<1>1. TypeOK
  <2>1. /\ closed \in BOOLEAN /\ stopQRs \in BOOLEAN /\ registered \in BOOLEAN
        /\ ctxDone \in BOOLEAN /\ online \in BOOLEAN /\ full \in BOOLEAN
    BY Zenon DEF Init
  <2>2. id \in BOOLEAN /\ row \in BOOLEAN /\ confirmed \in BOOLEAN /\ deleteFailed \in BOOLEAN
    BY Zenon DEF Init
  <2>3. out = 0 /\ sent = <<>> /\ closes = 0 /\ removers = 0 /\ scans = 0 /\ faults = 0
    BY DEF Init
  <2>4. pair = "off" /\ reader = "reading" /\ crash = "none"
    BY DEF Init
  <2>5. ChanOK
    BY <2>1, <2>3, BoundAssumption DEF ChanOK
  <2>6. PairOK
    BY <2>2, <2>4 DEF PairOK
  <2>7. RestOK
    BY <2>1, <2>3, <2>4, BoundAssumption DEF RestOK
  <2>8. GoroutinesOK
    BY BoundAssumption DEF Init, GoroutinesOK, EmitterStates, DispatcherStates, Idle
  <2> QED
    BY <2>5, <2>6, <2>7, <2>8 DEF TypeOK
<1>2. OwnerInv
  BY DEF Init, OwnerInv, EmitterOwns, HandlerOwns, Idle
<1>3. EventInv
  BY DEF Init, EventInv, Idle
<1>4. Finals = {}
  BY DEF Init, Finals
<1>5. FinalInv /\ LateInv
  BY <1>4 DEF Init, FinalInv, LateInv, Idle
<1>6. PairInv
  BY DEF Init, PairInv
<1> QED
  BY <1>1, <1>2, <1>3, <1>5, <1>6 DEF QRInv

\* QRInv is inductive.
LEMMA QRInductive == Spec => []QRInv
<1>1. QRInv /\ [Next]_vars => QRInv'
  <2> SUFFICES ASSUME QRInv, [Next]_vars PROVE QRInv'
    OBVIOUS
  <2>1. CASE Next
    BY <2>1, NextSplit, TypeStep, OwnerStep, EventStep, FinalStep, LateStep, PairStep DEF QRInv
  <2>2. CASE UNCHANGED vars
    <3>1. ChanOK' /\ GoroutinesOK' /\ PairOK' /\ RestOK'
      BY <2>2 DEF QRInv, TypeOK, ChanOK, GoroutinesOK, PairOK, RestOK, vars, chanVars,
                  readVars, pairVars
    <3>2. OwnerInv' /\ EventInv' /\ FinalInv' /\ LateInv' /\ PairInv'
      BY <2>2, OwnerFrame, EventFrame, FinalFrame, LateFrame, PairFrameKeeps
         DEF QRInv, vars, chanVars, readVars, pairVars
    <3> QED
      BY <3>1, <3>2 DEF QRInv, TypeOK
  <2> QED
    BY <2>1, <2>2
<1> QED
  BY InitHolds, <1>1, PTL DEF Spec

\* The channel, its goroutines and the pairing keep their types; the output of
\* GetQRChannel never holds more items than it has room for.
THEOREM TypeCorrect == Spec => []TypeOK
<1>1. QRInv => TypeOK
  BY DEF QRInv
<1> QED
  BY QRInductive, <1>1, PTL

\* However many emitters and dispatchers race, qrc.output is closed once.
THEOREM OutputClosedOnce == Spec => []ClosedOnce
<1>1. QRInv => ClosedOnce
  BY DEF QRInv, OwnerInv, ClosedOnce
<1> QED
  BY QRInductive, <1>1, PTL

\* The reader of the QR channel gets at most one final item, a channel closed without
\* one was full or its context had ended, and after the final item each goroutine that
\* had seen the channel open sends at most one more.
THEOREM FinalItemOnce == Spec => []OneFinalItem
<1>1. QRInv => OneFinalItem
  BY DEF QRInv, FinalInv, LateInv, OneFinalItem
<1> QED
  BY QRInductive, <1>1, PTL

\* handlePair: a confirmed device is in the database, and a failed pairing leaves
\* none there unless its deletion failed.
THEOREM PairingStored == Spec => []ConfirmedIsStored
<1>1. QRInv => ConfirmedIsStored
  BY DEF QRInv, PairInv, ConfirmedIsStored
<1> QED
  BY QRInductive, <1>1, PTL
=============================================================================
