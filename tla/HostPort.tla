------------------------------ MODULE HostPort ------------------------------
(***************************************************************************)
(* The firmware's end of the host's serial line: the receive ring filled   *)
(* by an interrupt, the queue of answers sent by DMA, their sticky faults, *)
(* and the loop that parses, answers and takes the faults (host_uart_rx.c, *)
(* host_uart_tx.c, SingleArmApp_Process, BinaryControl_ProcessByte,        *)
(* BinaryControl_HandleHostUartError).  A request is two bytes: its body   *)
(* and its delimiter; an answer is the number of its request.              *)
(***************************************************************************)
EXTENDS Integers, FiniteSets

CONSTANTS
    RingSize,       \* slots of the receive ring; one stays empty
    Burst,          \* bytes a pass may parse
    TxDepth,        \* answers the transmit queue holds
    MaxRequests,    \* requests the host sends (bounds the model)
    MaxOpen         \* requests the host leaves unanswered at a time

ASSUME PortAssumption ==
    /\ RingSize \in Nat /\ RingSize > 1
    /\ Burst \in Nat \ {0}
    /\ TxDepth \in Nat /\ TxDepth > 1
    /\ MaxRequests \in Nat \ {0}
    /\ MaxOpen \in Nat \ {0}
    /\ MaxOpen < TxDepth

VARIABLES
    ring, rxHead, rxTail,   \* host_rx_ring and its indexes
    rxFault,                \* host_rx_fault
    parser,                 \* host_binary_parser: what came since a delimiter
    tx,                     \* host_tx_queue, its indexes, count, active, fault
    wire,                   \* the DMA transfer of LPUART1, as the HAL sees it
    pc, parsed,             \* the loop: place in the pass, bytes parsed in it
    latched,                \* host_stop_latched
    sent,                   \* bytes the host has sent
    open,                   \* requests the host waits for
    handled, answered,      \* requests handled, and answers the host received
    told, warned,           \* requests older than a reported fault of a side
    gap, behind             \* first damaged request; one behind it handled

rxVars   == <<ring, rxHead, rxTail, rxFault>>
loopVars == <<pc, parsed, parser>>
vars == <<rxVars, parser, tx, wire, pc, parsed, latched,
          sent, open, handled, answered, told, warned, gap, behind>>

Requests == 1 .. MaxRequests
Nobody   == 0                       \* no request: noise, a torn answer
Empty    == 0                       \* parser: nothing since the delimiter
Bad      == -1                      \* parser: bytes that cannot decode
Bytes    == [of : Requests \cup {Nobody}, end : BOOLEAN]
Slots    == 0 .. TxDepth - 1
NoByte   == [of |-> Nobody, end |-> FALSE]
Queues   == [buf : [Slots -> Requests \cup {Nobody}],
             head : Slots, tail : Slots, count : 0 .. TxDepth,
             active : BOOLEAN, fault : BOOLEAN]
Transfers == [busy : BOOLEAN, slot : Slots, answer : Requests \cup {Nobody}]

TypeOK ==
    /\ ring \in [0 .. RingSize - 1 -> Bytes]
    /\ rxHead \in 0 .. RingSize - 1 /\ rxTail \in 0 .. RingSize - 1
    /\ rxFault \in BOOLEAN
    /\ parser \in Requests \cup {Empty, Bad}
    /\ tx \in Queues /\ wire \in Transfers
    /\ pc \in {"start", "burst", "service"} /\ parsed \in 0 .. Burst
    /\ latched \in BOOLEAN
    /\ sent \in 0 .. 2 * MaxRequests
    /\ open \subseteq Requests
    /\ handled \subseteq Requests /\ answered \subseteq Requests
    /\ told \subseteq Requests /\ warned \subseteq Requests
    /\ gap \in Requests \cup {Nobody} /\ behind \in BOOLEAN

\* BinaryControl_Init, HostUartRx_Start, BinaryControl_EnterMode.
Init ==
    /\ ring = [i \in 0 .. RingSize - 1 |-> NoByte]
    /\ rxHead = 0 /\ rxTail = 0 /\ rxFault = FALSE
    /\ parser = Empty
    /\ tx = [buf |-> [s \in Slots |-> Nobody], head |-> 0, tail |-> 0,
             count |-> 0, active |-> FALSE, fault |-> FALSE]
    /\ wire = [busy |-> FALSE, slot |-> 0, answer |-> Nobody]
    /\ pc = "start" /\ parsed = 0 /\ latched = FALSE
    /\ sent = 0 /\ open = {}
    /\ handled = {} /\ answered = {} /\ told = {} /\ warned = {}
    /\ gap = Nobody /\ behind = FALSE

-----------------------------------------------------------------------------
(* The receive ring.                                                       *)

RxNext(i) == (i + 1) % RingSize
RingFull  == RxNext(rxHead) = rxTail

\* variant: a byte without room is dropped and nothing says so
Received_Silent(b) ==
    IF RingFull
    THEN UNCHANGED <<ring, rxHead, rxFault>>
    ELSE /\ ring' = [ring EXCEPT ![rxHead] = b]
         /\ rxHead' = RxNext(rxHead)
         /\ UNCHANGED rxFault

\* HAL_UART_RxCpltCallback on byte b: stored, or dropped with a fault.
Received(b) ==
    IF RingFull
    THEN rxFault' = TRUE /\ UNCHANGED <<ring, rxHead>>
    ELSE /\ ring' = [ring EXCEPT ![rxHead] = b]
         /\ rxHead' = RxNext(rxHead)
         /\ UNCHANGED rxFault

\* HostUartRx_TakeFault: what is queued is invalid if there was a fault.
TakeRxFault ==
    /\ rxFault' = FALSE
    /\ rxTail' = IF rxFault THEN rxHead ELSE rxTail

-----------------------------------------------------------------------------
(* The transmit queue.                                                     *)

TxNext(s) == (s + 1) % TxDepth

\* HAL_UART_Transmit_DMA of the slot at the head.
TransmitDMA(q) == wire' = [busy |-> TRUE, slot |-> q.head, answer |-> q.buf[q.head]]

\* HostUartTx_StartLocked: the HAL refuses while a transfer is under way.
StartLocked(q, halBusy) ==
    IF halBusy
    THEN tx' = [q EXCEPT !.fault = TRUE] /\ UNCHANGED wire
    ELSE tx' = [q EXCEPT !.active = TRUE] /\ TransmitDMA(q)

\* HostUartTx_Enqueue, with what it copies into the slot.
Enqueue(k) ==
    LET q == [tx EXCEPT !.buf[tx.tail] = k, !.tail = TxNext(@), !.count = @ + 1]
    IN  IF tx.fault \/ tx.count >= TxDepth
        THEN tx' = [tx EXCEPT !.fault = TRUE] /\ UNCHANGED wire
        ELSE IF tx.active THEN tx' = q /\ UNCHANGED wire
                          ELSE StartLocked(q, wire.busy)

\* variant: a line error resets the queue without a fault
TxOnError_Silent ==
    tx' = [tx EXCEPT !.head = 0, !.tail = 0, !.count = 0, !.active = FALSE]

\* variant: a line error keeps the queue for a later start
TxOnError_Keep == tx' = [tx EXCEPT !.fault = TRUE, !.active = FALSE]

\* HostUartTx_OnError: the queue is dropped, the transfer is not stopped.
TxOnError ==
    tx' = [tx EXCEPT !.fault = TRUE, !.head = 0, !.tail = 0,
                     !.count = 0, !.active = FALSE]

-----------------------------------------------------------------------------
(* The line and its interrupts.                                            *)

\* The next byte of the host: its requests follow each other, at most
\* MaxOpen of them unanswered.
Byte(n)  == [of |-> n \div 2 + 1, end |-> n % 2 = 1]
NextByte == Byte(sent)
HostMaySend ==
    /\ sent < 2 * MaxRequests
    /\ NextByte.end \/ Cardinality(open) < MaxOpen
HostSends == sent' = sent + 1 /\ open' = open \cup {NextByte.of}

\* Bytes that the ring has no room for leave a gap in the stream.
Damage(k) == gap' = IF gap = Nobody THEN k ELSE gap

ByteArrives ==
    /\ HostMaySend
    /\ HostSends
    /\ Received(NextByte)
    /\ IF RingFull THEN Damage(NextByte.of) ELSE UNCHANGED gap
    /\ UNCHANGED <<rxTail, loopVars, tx, wire, latched,
                   handled, answered, told, warned, behind>>

\* HAL_UART_ErrorCallback: HostUartTx_OnError, then the fault of the ring.
\* An overrun loses the byte; noise or a framing error passes on a byte with
\* some value, which may be a delimiter.
ByteOverrun ==
    /\ HostMaySend
    /\ HostSends
    /\ TxOnError /\ rxFault' = TRUE
    /\ Damage(NextByte.of)
    /\ UNCHANGED <<ring, rxHead, rxTail, loopVars, wire, latched,
                   handled, answered, told, warned, behind>>

ByteNoisy ==
    /\ HostMaySend
    /\ HostSends
    /\ TxOnError /\ rxFault' = TRUE
    /\ Damage(NextByte.of)
    /\ IF RingFull
       THEN UNCHANGED <<ring, rxHead>>
       ELSE /\ \E b \in {NextByte} \cup [of : {Nobody}, end : BOOLEAN] :
                    ring' = [ring EXCEPT ![rxHead] = b]
            /\ rxHead' = RxNext(rxHead)
    /\ UNCHANGED <<rxTail, loopVars, wire, latched,
                   handled, answered, told, warned, behind>>

\* UART_DMAError: the transfer ends with an error, the host gets part of it.
TransferFails ==
    /\ wire.busy
    /\ wire' = [wire EXCEPT !.busy = FALSE]
    /\ TxOnError /\ rxFault' = TRUE
    /\ UNCHANGED <<ring, rxHead, rxTail, loopVars, latched, sent, open,
                   handled, answered, told, warned, gap, behind>>

\* What the transfer brought: the DMA reads the slot while it goes on, so a
\* slot that was written meanwhile yields either content or a torn answer.
Delivered ==
    IF tx.buf[wire.slot] = wire.answer THEN {wire.answer}
    ELSE {wire.answer, tx.buf[wire.slot], Nobody}

\* variant: the end of a transfer leaves the next answer to a later request
TransferEnds_Waits ==
    /\ wire.busy
    /\ \E d \in Delivered :
            /\ answered' = answered \cup ({d} \ {Nobody})
            /\ open' = open \ {d}
    /\ wire' = [wire EXCEPT !.busy = FALSE]
    /\ tx' = IF tx.active THEN [tx EXCEPT !.head = TxNext(@), !.count = @ - 1,
                                         !.active = FALSE]
             ELSE tx
    /\ UNCHANGED <<rxVars, loopVars, latched, sent,
                   handled, told, warned, gap, behind>>

\* UART_EndTransmit_IT and HAL_UART_TxCpltCallback.
TransferEnds ==
    /\ wire.busy
    /\ \E d \in Delivered :
            /\ answered' = answered \cup ({d} \ {Nobody})
            /\ open' = open \ {d}
    /\ IF ~tx.active
       THEN wire' = [wire EXCEPT !.busy = FALSE] /\ UNCHANGED tx
       ELSE LET q == [tx EXCEPT !.head = TxNext(@), !.count = @ - 1,
                                !.active = FALSE]
            IN  IF q.count = 0
                THEN tx' = q /\ wire' = [wire EXCEPT !.busy = FALSE]
                ELSE StartLocked(q, FALSE)
    /\ UNCHANGED <<rxVars, loopVars, latched, sent,
                   handled, told, warned, gap, behind>>

\* The host stops waiting; its timeout is longer than a transfer and than
\* what the loop needs to come to the request.
HostGivesUp ==
    /\ ~wire.busy
    /\ \E k \in open \cap (handled \cup told) : open' = open \ {k}
    /\ UNCHANGED <<rxVars, loopVars, tx, wire, latched, sent,
                   handled, answered, told, warned, gap, behind>>

-----------------------------------------------------------------------------
(* The loop: SingleArmApp_Process.                                         *)

\* Requests with a byte that has reached the port.
Begun == {k \in Requests : 2 * k - 1 <= sent}
Whole == {k \in Requests : 2 * k <= sent}

\* variant: the parser keeps the first half of a damaged frame
HostUartError_KeepsParser ==
    /\ UNCHANGED parser /\ latched' = TRUE
    /\ told' = Begun /\ gap' = Nobody

\* variant: the error resets the parser and lets the robot go on
HostUartError_NoStop ==
    /\ parser' = Empty /\ UNCHANGED latched
    /\ told' = Begun /\ gap' = Nobody

\* BinaryControl_HandleHostUartError.
HostUartError ==
    /\ parser' = Empty /\ latched' = TRUE
    /\ told' = Begun /\ gap' = Nobody

\* A fault that is there already is taken before anything is parsed.
PassStarts ==
    /\ pc = "start"
    /\ TakeRxFault
    /\ IF rxFault THEN HostUartError /\ pc' = "service"
                  ELSE pc' = "burst" /\ UNCHANGED <<parser, latched, told, gap>>
    /\ parsed' = 0 /\ behind' = FALSE
    /\ UNCHANGED <<ring, rxHead, tx, wire, sent, open, handled, answered, warned>>

\* Host_HandleBinaryFrame: every branch sends one answer, and may latch the
\* stop or clear the latch.
Handle(k) ==
    /\ handled' = handled \cup {k}
    /\ behind' = (behind \/ (gap # Nobody /\ k > gap))
    /\ latched' \in BOOLEAN
    /\ Enqueue(k)

\* actuator_stream_parser_push: a frame decodes if it is exactly one body.
ParseByte ==
    /\ pc = "burst" /\ parsed < Burst /\ rxTail # rxHead
    /\ LET b == ring[rxTail] IN
       IF ~b.end
       THEN /\ parser' = IF parser = Empty /\ b.of # Nobody THEN b.of ELSE Bad
            /\ UNCHANGED <<tx, wire, handled, behind, latched>>
       ELSE /\ parser' = Empty
            /\ IF parser \in Requests /\ parser = b.of
               THEN Handle(parser)
               ELSE UNCHANGED <<tx, wire, handled, behind, latched>>
    /\ rxTail' = RxNext(rxTail) /\ parsed' = parsed + 1
    /\ UNCHANGED <<ring, rxHead, rxFault, pc, sent, open,
                   answered, told, warned, gap>>

BurstEnds ==
    /\ pc = "burst" /\ (parsed = Burst \/ rxTail = rxHead)
    /\ TakeRxFault
    /\ IF rxFault THEN HostUartError ELSE UNCHANGED <<parser, latched, told, gap>>
    /\ pc' = "service"
    /\ UNCHANGED <<ring, rxHead, parsed, tx, wire, sent, open,
                   handled, answered, warned, behind>>

\* BinaryControl_Service: HostUartTx_TakeFault latches the stop.
Service ==
    /\ pc = "service"
    /\ IF tx.fault THEN latched' = TRUE /\ warned' = handled
                   ELSE latched' = latched /\ warned' = warned
    /\ tx' = [tx EXCEPT !.fault = FALSE]
    /\ pc' = "start"
    /\ UNCHANGED <<rxVars, parser, parsed, wire, sent, open,
                   handled, answered, told, gap, behind>>

-----------------------------------------------------------------------------
Interrupt == ByteArrives \/ ByteOverrun \/ ByteNoisy \/ TransferFails \/ TransferEnds
Loop == PassStarts \/ ParseByte \/ BurstEnds \/ Service
Next == Interrupt \/ HostGivesUp \/ Loop

Spec == Init /\ [][Next]_vars

\* The loop has no blocking branch, a transfer of a given length ends.
Fairness == WF_vars(Loop) /\ WF_vars(TransferEnds)
FairSpec == Spec /\ Fairness

-----------------------------------------------------------------------------
(* Properties.                                                             *)

\* Steps from slot a to slot b of a ring with n slots.
Ahead(a, b, n) == IF a <= b THEN b - a ELSE b - a + n

\* Bytes in the ring, and the requests that are whole in it or in the parser.
Stored == Ahead(rxTail, rxHead, RingSize)
Queued(b) ==
    \E i \in 0 .. RingSize - 1 :
        Ahead(rxTail, i, RingSize) < Stored /\ ring[i] = b
Arriving(k) ==
    /\ Queued(Byte(2 * k - 1))
    /\ Queued(Byte(2 * k - 2)) \/ parser = k

\* No request vanishes silently between interrupt, ring and parser: one that
\* was sent whole is handled, or on its way, or there has been a receive
\* fault since that stops the robot or is about to (host_uart_rx.c:98,
\* single_arm_app.c:388).
RequestsAccounted ==
    \A k \in Whole : k \in handled \/ Arriving(k) \/ rxFault \/ k \in told

\* An answer waits for a transfer that is going on.
Pending(k) ==
    /\ tx.active
    /\ \E i \in Slots : Ahead(tx.head, i, TxDepth) < tx.count /\ tx.buf[i] = k

\* No answer vanishes silently between the handler, the queue, its reset by a
\* line error and the DMA: the host has it, or it waits behind a running
\* transfer, or the transmit fault was raised since and stops the robot
\* (host_uart_tx.c:86, 126; binary_control.c:4347).
AnswersAccounted ==
    \A k \in handled : k \in answered \/ Pending(k) \/ tx.fault \/ k \in warned

\* Commands that were executed although bytes before them are missing end in
\* a latched stop before the same pass moves anything (single_arm_app.c:414).
BehindAGapStops == pc = "service" /\ behind => latched

\* A queue that is full is being sent.  A full queue without a transfer would
\* be the end of the link: Enqueue refuses before it starts anything, and
\* only the end of a transfer starts the next (host_uart_tx.c:86, 103, 161).
NeverWedged == tx.count = TxDepth => tx.active

\* Without a fault, the ring holds the last bytes sent, in order, and what
\* was sent before them is parsed: handled, told of, or in the parser.
StreamIntact ==
    LET at == sent - Stored IN
    \/ rxFault
    \/ /\ at >= 0
       /\ \A i \in 0 .. RingSize - 1 :
            Ahead(rxTail, i, RingSize) < Stored
                => ring[i] = Byte(at + Ahead(rxTail, i, RingSize))
       /\ \A k \in Requests : 2 * k <= at => k \in handled \cup told
       /\ at % 2 = 0 => parser = Empty
       /\ at % 2 = 1 => parser = Byte(at).of \/ Byte(at).of \in told

\* What is queued lies between the indexes, and an active queue has its head
\* on the line, as it was handed over.
HeadOnLine ==
    /\ \/ tx.count = Ahead(tx.head, tx.tail, TxDepth)
       \/ tx.count = TxDepth /\ tx.head = tx.tail
    /\ tx.active => /\ tx.count > 0 /\ wire.busy /\ wire.slot = tx.head
                    /\ wire.answer = tx.buf[tx.head]

\* Bytes are missing only under the fault, and what is handled behind them
\* in this pass is so too until the stop is latched.
GapIsFault ==
    /\ gap # Nobody => rxFault
    /\ behind /\ pc = "burst" => rxFault
    /\ BehindAGapStops

\* What holds in every state, together with what makes it inductive.
IInv ==
    /\ TypeOK
    /\ StreamIntact /\ RequestsAccounted
    /\ HeadOnLine /\ AnswersAccounted
    /\ GapIsFault

\* The loop comes to every request and the line to every answer, or the robot
\* is stopped for it: nothing waits for a later request to be noticed.
PortComesToRest ==
    []<>(Whole \subseteq handled \cup told /\ handled \subseteq answered \cup warned)
=============================================================================
