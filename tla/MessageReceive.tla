---------------------------- MODULE MessageReceive ----------------------------
(***************************************************************************)
(* Receiving messages (message.go, receipt.go, retry.go, the handler queue *)
(* of client.go): the queue between the socket and the node handlers, the  *)
(* decryption of the parts of a stanza with or without the decrypted event *)
(* buffer, the event handlers, and the receipts, acks and retry receipts   *)
(* that tell the server what to do with the stanza.                        *)
(*                                                                         *)
(* The server keeps a stanza until it is acknowledged and sends it again   *)
(* on every new connection.  The connection may be lost and the process    *)
(* may crash between any two steps; the Signal session and the event       *)
(* buffer are in the database and survive.                                 *)
(*                                                                         *)
(* What a goroutine started with "go" still has to send is in work[j]; a   *)
(* handler under SynchronousAck waits for its own.  The context of a node  *)
(* handler is BackgroundEventCtx, which never ends.                        *)
(* AutomaticMessageRerequestFromPhone is off, as in the MCP tool.          *)
(***************************************************************************)
EXTENDS Integers, Sequences

CONSTANTS
    Msgs,           \* message ids
    Kindings,       \* set of functions Msgs -> Kinds to consider
    NoJob,
    QueueCap,       \* handlerQueueSize
    RetryLimit,     \* messageRetries at which sendRetryReceipt gives up (5)
    MaxCopies,      \* bound: times the sender encrypts a message again
    MaxEpochs,      \* bound: connections and restarts after the first
    MaxFaults       \* bound: failed decryptions, failing and slow handlers

\* "dm" has one encrypted part, "group" a pkmsg with the sender key and a skmsg;
\* "halfgarbled" is a group stanza whose first part does not unmarshal, "badpad"
\* has wrong padding unless it is a copy, "resend" is the phone's answer to a
\* placeholder request, "bot" a msmsg.  "notype" has an <enc> without a type or of
\* one the client does not know, "noversion" one of an unknown version, "noenc" has
\* no <enc> child.  "blank" is a newsletter stanza without a readable plaintext.
Kinds == {"dm", "group", "halfgarbled", "badpad", "resend", "bot", "notype", "noversion",
          "newsletter", "blank", "unavailable", "noenc", "unparsable"}

Stanzas == Msgs \X (0..MaxCopies)
Epochs == 0..MaxEpochs
Jobs == Stanzas \X Epochs
Parts == Stanzas \X {1, 2}

Sends == {"ack", "nack", "receipt", "phone", "retry", "retrySend"}
PCs == {"off", "start", "plain", "decrypt", "handle", "clear", "end", "undec", "wait", "done"}

ASSUME KindAssumption == Kindings \subseteq [Msgs -> Kinds]
ASSUME BoundAssumption ==
    /\ MaxCopies \in Nat /\ MaxEpochs \in Nat /\ MaxFaults \in Nat
    /\ QueueCap \in Nat \ {0} /\ RetryLimit \in Nat \ {0}
ASSUME NoJobAssumption == NoJob \notin Jobs

VARIABLES
    opt,        \* SynchronousAck and EnableDecryptedEventBuffer
    kind,       \* message -> its kind
    inbox,      \* stanzas the server has not seen acknowledged
    copies,     \* message -> how often the sender has encrypted it again
    count,      \* stanza -> its count attribute
    online,     \* the connection is up
    epoch,      \* number of the connection
    delivered,  \* stanzas sent to the client on this connection
    queue,      \* handlerQueue
    parked,     \* goroutines of handleFrame waiting for room in the queue
    loop,       \* connection -> its handlerQueueLoop
    cur,        \* connection -> the job its loop waits for
    pc,         \* job -> where its handler is
    part,       \* job -> the part it is at
    garbled,    \* jobs with protobufFailed
    work,       \* job -> what its goroutines have to send
    tally,      \* job -> retryCount of its sendRetryReceipt
    used,       \* parts whose key the Signal session has consumed
    buf,        \* part -> its row of the event buffer: "none", "plain", "nil"
    retries,    \* messageRetries
    faults,     \* faults so far
    handled,    \* parts the event handlers have accepted
    swallowed,  \* parts whose handler failed or panicked and was taken for a success
    refused,    \* stanzas whose handler failed
    reported,   \* stanzas with an UndecryptableMessage event
    receipted,  \* stanzas whose delivery receipt reached the server
    spoilt,     \* parts whose handling failed or was cut short after the session moved on
    disorder    \* something has happened that gives up the order of the queue

serverVars == <<inbox, copies, count, online, epoch, delivered>>
queueVars == <<queue, parked, loop, cur>>
jobVars == <<pc, part, garbled>>
sendVars == <<work, tally, retries>>
storeVars == <<used, buf>>
eventVars == <<handled, swallowed, refused, reported, spoilt>>
vars == <<opt, kind, inbox, copies, count, online, epoch, delivered, queue, parked, loop,
          cur, pc, part, garbled, work, tally, retries, used, buf, faults, handled,
          swallowed, refused, reported, receipted, spoilt, disorder>>

-----------------------------------------------------------------------------
(* Stanzas and their parts.                                                *)

Msg(s) == s[1]
Stanza(j) == j[1]
KindOf(j) == kind[Msg(Stanza(j))]

\* A copy made for a retry has one part.
NumParts(s) ==
    IF kind[Msg(s)] = "noenc" THEN 0
    ELSE IF kind[Msg(s)] \in {"group", "halfgarbled"} /\ s[2] = 0 THEN 2 ELSE 1

PartsOf(s) == {s} \X (1..NumParts(s))

\* A wrong padding, and a part that does not unmarshal.
BadPadding(s) == kind[Msg(s)] = "badpad" /\ s[2] = 0
Garbled(p) == kind[Msg(p[1])] = "halfgarbled" /\ p[1][2] = 0 /\ p[2] = 1

\* Parts of a known type and version that can be read when the keys are there.
Good(p) ==
    ~BadPadding(p[1]) /\ ~Garbled(p) /\ kind[Msg(p[1])] \notin {"notype", "noversion"}

Part(j) == <<Stanza(j), part[j]>>

\* Parts that a handler has in hand.
InHand == {p \in Parts : \E j \in Jobs : pc[j] = "handle" /\ Part(j) = p}

\* Bot messages have their own cipher: no session and no row of the buffer.
Buffered(j) == opt.buffer /\ KindOf(j) # "bot"

-----------------------------------------------------------------------------
(* The connection and the queue (client.go).                               *)

\* Mutant of QueueHasRoom: the queue is taken to be unbounded.
QueueUnbounded == TRUE

QueueHasRoom == Len(queue) < QueueCap

\* The server sends a stanza it still has; handleFrame queues it, or leaves it
\* to a goroutine when the queue is full.
HandleFrame(s) ==
    /\ online /\ s \in inbox \ delivered
    /\ delivered' = delivered \cup {s}
    /\ IF QueueHasRoom
       THEN /\ queue' = Append(queue, <<s, epoch>>)
            /\ UNCHANGED <<parked, disorder>>
       ELSE /\ parked' = parked \cup {<<s, epoch>>}
            /\ disorder' = TRUE
            /\ UNCHANGED queue
    /\ UNCHANGED <<opt, kind, inbox, copies, count, online, epoch, loop, cur, jobVars,
                   sendVars, storeVars, faults, eventVars, receipted>>

\* A parked goroutine finds room.
Unpark(j) ==
    /\ j \in parked /\ QueueHasRoom
    /\ parked' = parked \ {j}
    /\ queue' = Append(queue, j)
    /\ UNCHANGED <<opt, kind, serverVars, loop, cur, jobVars, sendVars, storeVars, faults,
                   eventVars, receipted, disorder>>

\* A loop takes a node and starts its handler.  The loop of a lost connection may
\* still choose the queue over connCtx.Done.
QueueLoopTakes(e) ==
    /\ loop[e] = "idle" /\ queue # <<>>
    /\ queue' = Tail(queue)
    /\ loop' = [loop EXCEPT ![e] = "busy"]
    /\ cur' = [cur EXCEPT ![e] = Head(queue)]
    /\ pc' = [pc EXCEPT ![Head(queue)] = "start"]
    /\ UNCHANGED <<opt, kind, serverVars, parked, part, garbled, sendVars, storeVars, faults,
                   eventVars, receipted, disorder>>

\* Mutant of DoneChan: the loop does not wait for its handler.
DoneChanIgnored(e) == TRUE

DoneChan(e) == pc[cur[e]] = "done"

\* The handler is done, or the loop stops waiting for it after ten ticks, as it does
\* for a request to the phone that never returns.
QueueLoopGoesOn(e) ==
    /\ loop[e] = "busy"
    /\ \/ DoneChan(e) /\ UNCHANGED <<faults, disorder>>
       \/ /\ ~DoneChan(e) /\ disorder' = TRUE
          /\ \/ faults < MaxFaults /\ faults' = faults + 1
             \/ "phone" \in work[cur[e]] /\ UNCHANGED faults
    /\ loop' = [loop EXCEPT ![e] = "idle"]
    /\ cur' = [cur EXCEPT ![e] = NoJob]
    /\ UNCHANGED <<opt, kind, serverVars, queue, parked, jobVars, sendVars, storeVars,
                   eventVars, receipted>>

QueueLoopEnds(e) ==
    /\ loop[e] = "idle" /\ (e # epoch \/ ~online)
    /\ loop' = [loop EXCEPT ![e] = "ended"]
    /\ UNCHANGED <<opt, kind, serverVars, queue, parked, cur, jobVars, sendVars, storeVars,
                   faults, eventVars, receipted, disorder>>

Disconnected ==
    /\ online /\ epoch < MaxEpochs
    /\ online' = FALSE
    /\ UNCHANGED <<opt, kind, inbox, copies, count, epoch, delivered, queueVars, jobVars,
                   sendVars, storeVars, faults, eventVars, receipted, disorder>>

\* unlockedConnect: a new connection has its own queue loop, whatever the old
\* one is still doing.
Connect ==
    /\ ~online
    /\ online' = TRUE /\ epoch' = epoch + 1 /\ delivered' = {}
    /\ loop' = [loop EXCEPT ![epoch + 1] = "idle"]
    /\ disorder' = TRUE
    /\ UNCHANGED <<opt, kind, inbox, copies, count, queue, parked, cur, jobVars, sendVars,
                   storeVars, faults, eventVars, receipted>>

\* The process ends and is started again: only the database survives.  Parts that
\* were decrypted and not yet through the handlers are spoilt.
Crash ==
    /\ epoch < MaxEpochs
    /\ online' = FALSE
    /\ queue' = <<>> /\ parked' = {}
    /\ loop' = [e \in Epochs |-> IF loop[e] = "none" THEN "none" ELSE "ended"]
    /\ cur' = [e \in Epochs |-> NoJob]
    /\ pc' = [j \in Jobs |-> IF pc[j] = "off" THEN "off" ELSE "done"]
    /\ part' = [j \in Jobs |-> 1] /\ garbled' = {}
    /\ work' = [j \in Jobs |-> {}] /\ tally' = [j \in Jobs |-> 0]
    /\ retries' = [m \in Msgs |-> 0]
    /\ spoilt' = spoilt \cup InHand
    /\ UNCHANGED <<opt, kind, inbox, copies, count, epoch, delivered, storeVars, faults, handled,
                   swallowed, refused, reported, receipted, disorder>>

-----------------------------------------------------------------------------
(* The node handler (message.go).                                          *)

\* Where handleEncryptedMessage and the head of decryptMessages lead, and what
\* they have goroutines send.
Branch(k) ==
    IF k = "unparsable" THEN "done"
    ELSE IF k \in {"newsletter", "blank"} THEN "plain"
    ELSE IF k = "unavailable" THEN "undec"
    ELSE IF k = "noenc" THEN "end" ELSE "decrypt"

FirstSends(k) ==
    IF k \in {"newsletter", "blank"} /\ ~opt.sync THEN {"ack"}
    ELSE IF k = "unavailable" THEN {"phone", "ack"} ELSE {}

HandleEncryptedMessage(j) ==
    /\ pc[j] = "start"
    /\ pc' = [pc EXCEPT ![j] = Branch(KindOf(j))]
    /\ work' = [work EXCEPT ![j] = FirstSends(KindOf(j))]
    /\ UNCHANGED <<opt, kind, serverVars, queueVars, part, garbled, tally, retries, storeVars,
                   faults, eventVars, receipted, disorder>>

\* The handlers accept an event, or one of them fails, or one panics: the recover of
\* dispatchEvent leaves its result at FALSE, as if they all had accepted it.
Dispatched(p) ==
    /\ handled' = handled \cup {p}
    /\ UNCHANGED <<faults, swallowed, refused, spoilt>>

DispatchPanicked(p) ==
    /\ faults < MaxFaults
    /\ faults' = faults + 1
    /\ swallowed' = swallowed \cup {p}
    /\ UNCHANGED <<handled, refused, spoilt>>

DispatchFailed(j, p) ==
    /\ faults < MaxFaults
    /\ faults' = faults + 1
    /\ refused' = refused \cup {Stanza(j)}
    /\ spoilt' = spoilt \cup {p}
    /\ UNCHANGED <<handled, swallowed>>

\* handlePlaintextMessage; under SynchronousAck the deferred ack is sent only if
\* no handler failed; a blank stanza does not get as far as the handlers.
HandlePlaintextMessage(j) ==
    /\ pc[j] = "plain"
    /\ \/ /\ \/ KindOf(j) = "blank" /\ UNCHANGED <<faults, handled, swallowed, refused, spoilt>>
             \/ KindOf(j) # "blank" /\ (Dispatched(Part(j)) \/ DispatchPanicked(Part(j)))
          /\ work' = IF opt.sync THEN [work EXCEPT ![j] = {"ack"}] ELSE work
       \/ KindOf(j) # "blank" /\ DispatchFailed(j, Part(j)) /\ UNCHANGED work
    /\ pc' = [pc EXCEPT ![j] = "wait"]
    /\ UNCHANGED <<opt, kind, serverVars, queueVars, part, garbled, tally, retries, storeVars,
                   reported, receipted, disorder>>

\* The next part of the stanza, or the end of the loop over its children.
NextPart(j) ==
    IF part[j] < NumParts(Stanza(j))
    THEN pc' = [pc EXCEPT ![j] = "decrypt"] /\ part' = [part EXCEPT ![j] = @ + 1]
    ELSE pc' = [pc EXCEPT ![j] = "end"] /\ part' = part

\* The error branch of decryptMessages.
DecryptFailed(j) ==
    /\ pc' = [pc EXCEPT ![j] = "undec"]
    /\ work' = [work EXCEPT ![j] = IF KindOf(j) = "bot" THEN {"nack"} ELSE {"retry", "ack"}]
    /\ UNCHANGED part

\* An <enc> of no or of an unknown type is passed over.
UnhandledType(j) ==
    /\ pc[j] = "decrypt" /\ KindOf(j) = "notype"
    /\ NextPart(j)
    /\ UNCHANGED <<opt, kind, serverVars, queueVars, garbled, sendVars, storeVars, faults,
                   eventVars, receipted, disorder>>

\* bufferedDecrypt: the buffer has the part, as processed or as plaintext.
DecryptBuffered(j) ==
    /\ pc[j] = "decrypt" /\ Buffered(j) /\ buf[Part(j)] # "none"
    /\ IF buf[Part(j)] = "nil"
       THEN NextPart(j) /\ UNCHANGED work
       ELSE IF BadPadding(Stanza(j))
       THEN DecryptFailed(j)
       ELSE pc' = [pc EXCEPT ![j] = "handle"] /\ UNCHANGED <<part, work>>
    /\ UNCHANGED <<opt, kind, serverVars, queueVars, garbled, tally, retries, storeVars,
                   faults, eventVars, receipted, disorder>>

\* The session refuses a key it has already used (ErrOldCounter): the part is
\* skipped like one that has been processed.
DecryptOldCounter(j) ==
    /\ pc[j] = "decrypt" /\ KindOf(j) # "bot"
    /\ ~(Buffered(j) /\ buf[Part(j)] # "none")
    /\ Part(j) \in used
    /\ NextPart(j)
    /\ UNCHANGED <<opt, kind, serverVars, queueVars, garbled, sendVars, storeVars, faults,
                   eventVars, receipted, disorder>>

\* Mutant of PutBufferedEvent: the row is written without its plaintext.
PutBufferedEventNil(p) == [buf EXCEPT ![p] = "nil"]

PutBufferedEvent(p) == [buf EXCEPT ![p] = "plain"]

\* The session moves on and, with the buffer, the plaintext is stored in the same
\* transaction; the padding is looked at afterwards.
Decrypt(j) ==
    /\ pc[j] = "decrypt" /\ KindOf(j) # "notype"
    /\ ~(Buffered(j) /\ buf[Part(j)] # "none")
    /\ KindOf(j) = "bot" \/ Part(j) \notin used
    /\ used' = IF KindOf(j) = "bot" THEN used ELSE used \cup {Part(j)}
    /\ buf' = IF Buffered(j) THEN PutBufferedEvent(Part(j)) ELSE buf
    /\ IF BadPadding(Stanza(j))
       THEN DecryptFailed(j)
       ELSE pc' = [pc EXCEPT ![j] = "handle"] /\ UNCHANGED <<part, work>>
    /\ UNCHANGED <<opt, kind, serverVars, queueVars, garbled, tally, retries, faults,
                   eventVars, receipted, disorder>>

\* No session, a corrupt message, a database error: nothing is stored.
DecryptFails(j) ==
    /\ pc[j] = "decrypt" /\ KindOf(j) # "notype" /\ faults < MaxFaults
    /\ ~(Buffered(j) /\ buf[Part(j)] # "none")
    /\ KindOf(j) = "bot" \/ Part(j) \notin used
    /\ faults' = faults + 1
    /\ DecryptFailed(j)
    /\ UNCHANGED <<opt, kind, serverVars, queueVars, garbled, tally, retries, storeVars,
                   eventVars, receipted, disorder>>

\* ClearBufferedEventPlaintext follows only with the buffer on.
AfterHandlers(j) ==
    IF Buffered(j) THEN pc' = [pc EXCEPT ![j] = "clear"] /\ part' = part ELSE NextPart(j)

\* Mutant of HandlerFailed: the loop goes on after a failed handler.
HandlerFailedIgnored(j) == AfterHandlers(j)

\* decryptMessages returns, without an answer to the server.
HandlerFailed(j) == pc' = [pc EXCEPT ![j] = "done"] /\ part' = part

\* The part unmarshals and goes to the handlers.
HandleDecryptedMessage(j) ==
    /\ pc[j] = "handle" /\ ~Garbled(Part(j)) /\ KindOf(j) \notin {"resend", "noversion"}
    /\ garbled' = garbled \ {j}
    /\ \/ (Dispatched(Part(j)) \/ DispatchPanicked(Part(j))) /\ AfterHandlers(j)
       \/ DispatchFailed(j, Part(j)) /\ HandlerFailed(j)
    /\ UNCHANGED <<opt, kind, serverVars, queueVars, sendVars, storeVars, reported, receipted,
                   disorder>>

\* handlePlaceholderResendResponse returns what dispatchEvent returned, which is
\* TRUE when a handler failed: a success, or a panic, ends the handling of the
\* stanza; after a failure the stanza's own event is dispatched, and the failure is
\* swallowed unless that event fails too.
HandlePlaceholderResend(j) ==
    /\ pc[j] = "handle" /\ KindOf(j) = "resend"
    /\ garbled' = garbled \ {j}
    /\ \/ (Dispatched(Part(j)) \/ DispatchPanicked(Part(j))) /\ AfterHandlers(j)
       \/ DispatchFailed(j, Part(j)) /\ HandlerFailed(j)
    /\ UNCHANGED <<opt, kind, serverVars, queueVars, sendVars, storeVars, reported, receipted,
                   disorder>>

\* A version the client does not know: only logged, and then as after the handlers.
UnknownVersion(j) ==
    /\ pc[j] = "handle" /\ KindOf(j) = "noversion"
    /\ AfterHandlers(j)
    /\ UNCHANGED <<opt, kind, serverVars, queueVars, garbled, sendVars, storeVars, faults,
                   eventVars, receipted, disorder>>

\* The part does not unmarshal: the loop goes on without the buffer being cleared.
UnmarshalFails(j) ==
    /\ pc[j] = "handle" /\ Garbled(Part(j))
    /\ garbled' = garbled \cup {j}
    /\ NextPart(j)
    /\ UNCHANGED <<opt, kind, serverVars, queueVars, sendVars, storeVars, faults, eventVars,
                   receipted, disorder>>

\* An error is only logged.
ClearBufferedEventPlaintext(j) ==
    /\ pc[j] = "clear"
    /\ \/ buf' = [buf EXCEPT ![Part(j)] = "nil"] /\ UNCHANGED faults
       \/ buf' = buf /\ faults < MaxFaults /\ faults' = faults + 1
    /\ NextPart(j)
    /\ UNCHANGED <<opt, kind, serverVars, queueVars, garbled, sendVars, used, eventVars,
                   receipted, disorder>>

\* Mutant of Answer: a part that does not unmarshal is left without an answer.
AnswerNoNack(j) ==
    IF NumParts(Stanza(j)) = 0 THEN {"nack"} ELSE IF j \in garbled THEN {} ELSE {"receipt"}

Answer(j) == IF NumParts(Stanza(j)) = 0 \/ j \in garbled THEN {"nack"} ELSE {"receipt"}

\* The end of decryptMessages.
AnswerStanza(j) ==
    /\ pc[j] = "end"
    /\ work' = [work EXCEPT ![j] = Answer(j)]
    /\ pc' = [pc EXCEPT ![j] = "wait"]
    /\ UNCHANGED <<opt, kind, serverVars, queueVars, part, garbled, tally, retries, storeVars,
                   faults, eventVars, receipted, disorder>>

\* The UndecryptableMessage event; its result is ignored.
DispatchUndecryptable(j) ==
    /\ pc[j] = "undec" /\ (opt.sync => work[j] = {})
    /\ reported' = reported \cup {Stanza(j)}
    /\ pc' = [pc EXCEPT ![j] = "done"]
    /\ UNCHANGED <<opt, kind, serverVars, queueVars, part, garbled, sendVars, storeVars,
                   faults, handled, swallowed, refused, spoilt, receipted, disorder>>

\* Under SynchronousAck the handler returns after its own sends.
HandlerReturns(j) ==
    /\ pc[j] = "wait" /\ (opt.sync => work[j] = {})
    /\ pc' = [pc EXCEPT ![j] = "done"]
    /\ UNCHANGED <<opt, kind, serverVars, queueVars, part, garbled, sendVars, storeVars,
                   faults, eventVars, receipted, disorder>>

-----------------------------------------------------------------------------
(* What is sent (receipt.go, retry.go).  A send that fails is only logged. *)

\* sendAck and sendMessageReceipt.
SendAck(j, w) ==
    /\ w \in work[j] \cap {"ack", "nack", "receipt"}
    /\ "phone" \notin work[j]
    /\ opt.sync => work[j] \cap {"retry", "retrySend"} = {}
    /\ work' = [work EXCEPT ![j] = @ \ {w}]
    /\ inbox' = IF online THEN inbox \ {Stanza(j)} ELSE inbox
    /\ receipted' = IF online /\ w = "receipt" THEN receipted \cup {Stanza(j)} ELSE receipted
    /\ UNCHANGED <<opt, kind, copies, count, online, epoch, delivered, queueVars, jobVars,
                   tally, retries, storeVars, faults, eventVars, disorder>>

\* immediateRequestMessageFromPhone returns.  It is a SendMessage, which after a lost
\* connection may wait for ever.
RequestFromPhone(j) ==
    /\ "phone" \in work[j]
    /\ work' = [work EXCEPT ![j] = @ \ {"phone"}]
    /\ UNCHANGED <<opt, kind, serverVars, queueVars, jobVars, tally, retries, storeVars, faults,
                   eventVars, receipted, disorder>>

\* Mutant of EnoughRetries: off by one.
EnoughRetriesOffByOne(n) == n > RetryLimit

EnoughRetries(n) == n >= RetryLimit

\* sendRetryReceipt up to the unlock: the count, which after a restart comes from
\* the stanza, and whether to go on.
RetryCount(j) ==
    /\ "retry" \in work[j]
    /\ LET m == Msg(Stanza(j))
           next == IF retries[m] = 0 /\ count[Stanza(j)] > 0 THEN count[Stanza(j)] + 1
                                                             ELSE retries[m] + 1
       IN  /\ retries' = [retries EXCEPT ![m] = next]
           /\ tally' = [tally EXCEPT ![j] = IF EnoughRetries(next) THEN 0 ELSE next]
           /\ work' = [work EXCEPT ![j] = (@ \ {"retry"}) \cup
                         (IF EnoughRetries(next) THEN {}
                          ELSE IF next = 1 /\ opt.sync THEN {"phone", "retrySend"}
                          ELSE {"retrySend"})]
    /\ UNCHANGED <<opt, kind, serverVars, queueVars, jobVars, storeVars, faults, eventVars,
                   receipted, disorder>>

\* The retry receipt; the sender answers with a fresh copy that bears the count.
RetrySend(j) ==
    /\ "retrySend" \in work[j] /\ "phone" \notin work[j]
    /\ work' = [work EXCEPT ![j] = @ \ {"retrySend"}]
    /\ tally' = [tally EXCEPT ![j] = 0]
    /\ LET m == Msg(Stanza(j))
           s == <<m, copies[m] + 1>>
       IN  IF online /\ copies[m] < MaxCopies
           THEN /\ copies' = [copies EXCEPT ![m] = @ + 1]
                /\ count' = [count EXCEPT ![s] = tally[j]]
                /\ inbox' = inbox \cup {s}
           ELSE UNCHANGED <<copies, count, inbox>>
    /\ UNCHANGED <<opt, kind, online, epoch, delivered, queueVars, jobVars, retries,
                   storeVars, faults, eventVars, receipted, disorder>>

-----------------------------------------------------------------------------
Init ==
    /\ opt \in [sync : BOOLEAN, buffer : BOOLEAN]
    /\ kind \in Kindings
    /\ inbox = {<<m, 0>> : m \in Msgs}
    /\ copies = [m \in Msgs |-> 0]
    /\ count = [s \in Stanzas |-> 0]
    /\ online = TRUE /\ epoch = 0 /\ delivered = {}
    /\ queue = <<>> /\ parked = {}
    /\ loop = [e \in Epochs |-> IF e = 0 THEN "idle" ELSE "none"]
    /\ cur = [e \in Epochs |-> NoJob]
    /\ pc = [j \in Jobs |-> "off"]
    /\ part = [j \in Jobs |-> 1]
    /\ garbled = {}
    /\ work = [j \in Jobs |-> {}]
    /\ tally = [j \in Jobs |-> 0]
    /\ retries = [m \in Msgs |-> 0]
    /\ used = {} /\ buf = [p \in Parts |-> "none"]
    /\ faults = 0
    /\ handled = {} /\ swallowed = {} /\ refused = {} /\ reported = {} /\ spoilt = {}
    /\ receipted = {} /\ disorder = FALSE

ConnectionSteps == Disconnected \/ Connect \/ Crash

QueueLoop(e) == QueueLoopTakes(e) \/ QueueLoopGoesOn(e) \/ QueueLoopEnds(e)

Handler(j) ==
    \/ HandleEncryptedMessage(j) \/ HandlePlaintextMessage(j)
    \/ UnhandledType(j) \/ DecryptBuffered(j) \/ DecryptOldCounter(j)
    \/ Decrypt(j) \/ DecryptFails(j)
    \/ HandleDecryptedMessage(j) \/ HandlePlaceholderResend(j) \/ UnknownVersion(j)
    \/ UnmarshalFails(j) \/ ClearBufferedEventPlaintext(j) \/ AnswerStanza(j)
    \/ DispatchUndecryptable(j) \/ HandlerReturns(j)

Answers(j) == (\E w \in Sends : SendAck(j, w)) \/ RetryCount(j) \/ RetrySend(j)

Sender(j) == Answers(j) \/ RequestFromPhone(j)

Next ==
    \/ \E s \in Stanzas : HandleFrame(s)
    \/ \E j \in Jobs : Unpark(j) \/ Handler(j) \/ Sender(j)
    \/ \E e \in Epochs : QueueLoop(e)
    \/ ConnectionSteps

Spec == Init /\ [][Next]_vars

\* Goroutines run, event handlers return and a lost connection is made again:
\* something of the following happens as long as any of it can.  Each of them
\* can happen only so often, so that nobody waits for ever.  A request to the phone
\* need not return.
Progress ==
    \/ \E s \in Stanzas : HandleFrame(s)
    \/ \E j \in Jobs : Unpark(j) \/ Handler(j) \/ Answers(j)
    \/ \E e \in Epochs : QueueLoop(e)
    \/ Connect

FairSpec == Spec /\ WF_vars(Progress)

-----------------------------------------------------------------------------
ServerTypes ==
    /\ opt \in [sync : BOOLEAN, buffer : BOOLEAN]
    /\ kind \in [Msgs -> Kinds]
    /\ inbox \subseteq Stanzas /\ delivered \subseteq Stanzas
    /\ copies \in [Msgs -> 0..MaxCopies]
    /\ count \in [Stanzas -> Nat]
    /\ online \in BOOLEAN /\ epoch \in Epochs

QueueTypes ==
    /\ queue \in Seq(Jobs) /\ Len(queue) <= QueueCap
    /\ parked \subseteq Jobs
    /\ loop \in [Epochs -> {"none", "idle", "busy", "ended"}]
    /\ cur \in [Epochs -> Jobs \cup {NoJob}]
    /\ \A e \in Epochs : loop[e] = "busy" <=> cur[e] # NoJob

JobTypes ==
    /\ pc \in [Jobs -> PCs] /\ part \in [Jobs -> {1, 2}] /\ garbled \subseteq Jobs
    /\ work \in [Jobs -> SUBSET Sends] /\ tally \in [Jobs -> Nat]
    /\ retries \in [Msgs -> Nat]

EventTypes ==
    /\ used \subseteq Parts /\ buf \in [Parts -> {"none", "plain", "nil"}]
    /\ faults \in 0..MaxFaults
    /\ handled \subseteq Parts /\ swallowed \subseteq Parts /\ spoilt \subseteq Parts
    /\ refused \subseteq Stanzas /\ reported \subseteq Stanzas /\ receipted \subseteq Stanzas
    /\ disorder \in BOOLEAN

\* The types of the state; the queue never has more nodes than handlerQueueSize,
\* and a loop is busy exactly while it waits for a job.
TypeOK == ServerTypes /\ QueueTypes /\ JobTypes /\ EventTypes

\* decryptMessages sends the delivery receipt, with which the server forgets the
\* stanza, only when the handlers have had every part that can be read: accepted
\* it, or met it with a panic or a failure that dispatchEvent or
\* handlePlaceholderResendResponse took for acceptance (swallowed).
\* With the event buffer this survives crashes, failed handlers and a redelivery
\* that overlaps a slow handler.  Without it a part whose key the session has
\* used is skipped as an old message, so that the receipt may also cover a part
\* whose handling failed, was cut short, or is still going on in another handler.
ReceiptMeansHandled ==
    \A s \in receipted : \A p \in PartsOf(s) :
        Good(p) => p \in handled \cup swallowed \cup
                        (IF opt.buffer THEN {} ELSE spoilt \cup InHand)

\* handlerQueueLoop keeps the order of the stanzas: as long as the queue has not
\* overflowed, no handler has been left in the background and there has been no
\* second connection, at most one stanza is being handled.
OneAtATime ==
    disorder \/ \A i, j \in Jobs : pc[i] \in PCs \ {"off", "done"} /\
                                     pc[j] \in PCs \ {"off", "done"} => i = j

\* sendRetryReceipt: in one life of the process a message is asked for again at
\* most RetryLimit - 1 times, whichever of its copies fail and in whatever order
\* the goroutines run; a restart may start again from the original stanza.
RetriesBounded ==
    \A m \in Msgs : copies[m] <= (RetryLimit - 1) * (epoch + 1)

\* Every stanza that parses is acknowledged in the end, copies included and however
\* often the connection was lost or the process restarted, unless an event handler
\* refused it or its request to the phone, which comes before the ack, has not
\* returned; a request that hangs holds up no other stanza.
EveryStanzaAnswered ==
    <>[](\A s \in inbox : \/ kind[Msg(s)] = "unparsable" \/ s \in refused
                          \/ \E j \in Jobs : Stanza(j) = s /\ "phone" \in work[j])

\* The receipts and the event handlers keep the promise of AtLeastOnce, as a safe
\* receiver when EnableDecryptedEventBuffer is set and as the other kind when it
\* is not; a part is finished when the handlers accepted it, or when their panic or
\* failure was taken for a success.
Promise == INSTANCE AtLeastOnce WITH
             safe <- opt.buffer,
             opened <- used \cup handled \cup swallowed,
             finished <- handled \cup swallowed,
             receipted <- {p \in UNION {PartsOf(s) : s \in receipted} : Good(p)}
PromiseKept == Promise!Spec
=============================================================================
