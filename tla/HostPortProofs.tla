--------------------------- MODULE HostPortProofs ---------------------------
(***************************************************************************)
(* No request and no answer is lost silently at the host's port, for every *)
(* size of the ring and of the queue.                                      *)
(***************************************************************************)
EXTENDS HostPort, FiniteSetTheorems, TLAPS

-----------------------------------------------------------------------------
(* Arithmetic of the ring.                                                 *)

\* The index after i, around a ring of n slots (host_uart_rx.c:96).
LEMMA WrapNext ==
    ASSUME NEW n \in Nat, n > 1, NEW i \in 0 .. n - 1
    PROVE  /\ (i + 1) % n = IF i + 1 = n THEN 0 ELSE i + 1
           /\ (i + 1) % n \in 0 .. n - 1
  <1>1. CASE i + 1 = n
    <2>1. n % n = 0
      BY SMT
    <2> QED
      BY <1>1, <2>1, SMT
  <1>2. CASE i + 1 # n
    <2>1. (i + 1) % n = i + 1
      BY <1>2, SMT
    <2> QED
      BY <1>2, <2>1, SMT
  <1> QED
    BY <1>1, <1>2

\* Distances are less than the size, and zero only from a slot to itself.
LEMMA AheadRange ==
    ASSUME NEW n \in Nat, NEW a \in 0 .. n - 1, NEW b \in 0 .. n - 1
    PROVE  /\ Ahead(a, b, n) \in 0 .. n - 1
           /\ Ahead(a, b, n) = 0 <=> a = b
  BY SMT DEF Ahead

\* There is a slot at every distance.
LEMMA AheadReaches ==
    ASSUME NEW n \in Nat, NEW a \in 0 .. n - 1, NEW d \in 0 .. n - 1
    PROVE  \E i \in 0 .. n - 1 : Ahead(a, i, n) = d
  <1>1. CASE a + d < n
    <2>1. a + d \in 0 .. n - 1 /\ Ahead(a, a + d, n) = d
      BY <1>1, SMT DEF Ahead
    <2> QED
      BY <2>1
  <1>2. CASE a + d >= n
    <2>1. a + d - n \in 0 .. n - 1 /\ Ahead(a, a + d - n, n) = d
      BY <1>2, SMT DEF Ahead
    <2> QED
      BY <2>1
  <1> QED
    BY <1>1, <1>2, SMT

\* Moving the far end adds one, moving the near end takes one away.
LEMMA AheadNext ==
    ASSUME NEW n \in Nat, n > 1,
           NEW a \in 0 .. n - 1, NEW b \in 0 .. n - 1
    PROVE  LET s(i) == (i + 1) % n IN
           /\ s(b) # a => Ahead(a, s(b), n) = Ahead(a, b, n) + 1
           /\ s(b) = a => Ahead(a, b, n) = n - 1
           /\ a # b => Ahead(s(a), b, n) = Ahead(a, b, n) - 1
           /\ Ahead(s(a), a, n) = n - 1
  <1>1. /\ (a + 1) % n = IF a + 1 = n THEN 0 ELSE a + 1
        /\ (b + 1) % n = IF b + 1 = n THEN 0 ELSE b + 1
    BY WrapNext
  <1> DEFINE x == (a + 1) % n
             y == (b + 1) % n
  <1>2. /\ x = IF a + 1 = n THEN 0 ELSE a + 1
        /\ y = IF b + 1 = n THEN 0 ELSE b + 1
    BY <1>1
  <1> HIDE DEF x, y
  <1>3. /\ y # a => Ahead(a, y, n) = Ahead(a, b, n) + 1
        /\ y = a => Ahead(a, b, n) = n - 1
        /\ a # b => Ahead(x, b, n) = Ahead(a, b, n) - 1
        /\ Ahead(x, a, n) = n - 1
    BY <1>2, SMT DEF Ahead
  <1> QED
    BY <1>3 DEF x, y

-----------------------------------------------------------------------------
(* Types.                                                                  *)

\* The bytes of the requests are bytes.
LEMMA ByteType ==
    ASSUME PortAssumption, NEW n \in 0 .. 2 * MaxRequests - 1
    PROVE  Byte(n) \in Bytes /\ Byte(n).of \in Requests
  <1>1. n \div 2 + 1 \in 1 .. MaxRequests
    BY SMT DEF PortAssumption
  <1>2. (n % 2 = 1) \in BOOLEAN
    OBVIOUS
  <1> QED
    BY <1>1, <1>2 DEF Byte, Bytes, Requests

\* The initial state has the declared types.
LEMMA InitTyped == ASSUME PortAssumption, Init PROVE TypeOK
  <1>1. 0 \in Slots /\ 0 \in 0 .. TxDepth /\ 0 \in 0 .. RingSize - 1
        /\ 0 \in 0 .. Burst /\ 0 \in 0 .. 2 * MaxRequests
    BY SMT DEF PortAssumption, Slots
  <1>2. NoByte \in Bytes
    BY DEF NoByte, Bytes
  <1>3. tx \in Queues /\ wire \in Transfers
    BY <1>1 DEF Init, Queues, Transfers
  <1> QED
    BY <1>1, <1>2, <1>3 DEF Init, TypeOK

\* What Received, TxOnError and Enqueue leave in the ring and in the queue.
LEMMA ReceivedTyped ==
    ASSUME PortAssumption, TypeOK, NEW b \in Bytes, Received(b)
    PROVE  /\ ring' \in [0 .. RingSize - 1 -> Bytes]
           /\ rxHead' \in 0 .. RingSize - 1 /\ rxFault' \in BOOLEAN
  <1>1. RxNext(rxHead) \in 0 .. RingSize - 1
    BY WrapNext DEF RxNext, TypeOK, PortAssumption
  <1> QED
    BY <1>1 DEF Received, TypeOK

LEMMA StartTyped ==
    ASSUME NEW q \in Queues, NEW b \in BOOLEAN, wire \in Transfers,
           StartLocked(q, b)
    PROVE  tx' \in Queues /\ wire' \in Transfers
  <1>1. CASE b
    BY <1>1 DEF StartLocked, Queues
  <1>2. CASE ~b
    <2>1. q.head \in Slots /\ q.buf[q.head] \in Requests \cup {Nobody}
      BY DEF Queues
    <2> DEFINE w == [busy |-> TRUE, slot |-> q.head, answer |-> q.buf[q.head]]
    <2>4. wire' = w
      BY <1>2 DEF StartLocked, TransmitDMA
    <2>5. w \in Transfers
      BY <2>1 DEF Transfers
    <2>2. wire' \in Transfers
      BY <2>4, <2>5
    <2>3. tx' = [q EXCEPT !.active = TRUE]
      BY <1>2 DEF StartLocked
    <2> QED
      BY <2>2, <2>3 DEF Queues
  <1> QED
    BY <1>1, <1>2

LEMMA EnqueueTyped ==
    ASSUME PortAssumption, TypeOK, NEW k \in Requests, Enqueue(k)
    PROVE  /\ tx' \in Queues
           /\ wire' \in Transfers
  <1>1. TxNext(tx.tail) \in Slots
    BY WrapNext DEF TxNext, TypeOK, PortAssumption, Slots, Queues
  <1> DEFINE q == [tx EXCEPT !.buf[tx.tail] = k, !.tail = TxNext(@), !.count = @ + 1]
  <1>2. CASE tx.fault \/ tx.count >= TxDepth
    BY <1>2 DEF Enqueue, TypeOK, Queues
  <1>3. CASE ~(tx.fault \/ tx.count >= TxDepth)
    <2>1. tx.count + 1 \in 0 .. TxDepth
      BY <1>3, SMT DEF TypeOK, PortAssumption, Queues
    <2>2. q \in Queues
      BY <2>1, <1>1 DEF TypeOK, Queues
    <2> HIDE DEF q
    <2>3. \/ tx' = q /\ UNCHANGED wire
          \/ StartLocked(q, wire.busy)
      BY <1>3 DEF Enqueue, q
    <2> QED
      BY <2>2, <2>3, StartTyped DEF TypeOK, Transfers
  <1> QED
    BY <1>2, <1>3

\* Every step keeps the types.
LEMMA TypeStep ==
    ASSUME PortAssumption, TypeOK, HeadOnLine, [Next]_vars PROVE TypeOK'
  <1> USE DEF rxVars, loopVars
  <1>1. CASE UNCHANGED vars
    BY <1>1 DEF TypeOK, vars
  <1>2. ASSUME HostMaySend
        PROVE  /\ NextByte \in Bytes /\ NextByte.of \in Requests
               /\ sent + 1 \in 0 .. 2 * MaxRequests
    <2>1. sent \in 0 .. 2 * MaxRequests - 1
      BY <1>2, SMT DEF HostMaySend, TypeOK, PortAssumption
    <2> QED
      BY <2>1, ByteType, SMT DEF NextByte, PortAssumption
  <1>3. CASE ByteArrives
    BY <1>2, <1>3, ReceivedTyped DEF ByteArrives, HostSends, Damage, TypeOK
  <1>4. ASSUME TxOnError
        PROVE  tx' \in Queues
    <2>1. 0 \in Slots /\ 0 \in 0 .. TxDepth
      BY SMT DEF Slots, PortAssumption
    <2> QED
      BY <1>4, <2>1 DEF TxOnError, TypeOK, Queues
  <1>5. CASE ByteOverrun
    BY <1>2, <1>4, <1>5 DEF ByteOverrun, HostSends, Damage, TypeOK
  <1>6. CASE ByteNoisy
    <2>1. RxNext(rxHead) \in 0 .. RingSize - 1
      BY WrapNext DEF RxNext, TypeOK, PortAssumption
    <2>2. {NextByte} \cup [of : {Nobody}, end : BOOLEAN] \subseteq Bytes
      BY <1>2, <1>6 DEF ByteNoisy, Bytes
    <2>3. ring' \in [0 .. RingSize - 1 -> Bytes] /\ rxHead' \in 0 .. RingSize - 1
      BY <1>6, <2>1, <2>2 DEF ByteNoisy, TypeOK
    <2> QED
      BY <1>2, <1>4, <1>6, <2>3 DEF ByteNoisy, HostSends, Damage, TypeOK
  <1>7. CASE TransferFails
    BY <1>4, <1>7 DEF TransferFails, TypeOK, Transfers
  <1>8. CASE TransferEnds
    <2> DEFINE q == [tx EXCEPT !.head = TxNext(@), !.count = @ - 1, !.active = FALSE]
    <2>0. TxNext(tx.head) \in Slots
      BY WrapNext DEF TxNext, TypeOK, PortAssumption, Slots, Queues
    <2>1. PICK d \in Delivered : /\ answered' = answered \cup ({d} \ {Nobody})
                                /\ open' = open \ {d}
      BY <1>8 DEF TransferEnds
    <2>2. Delivered \subseteq Requests \cup {Nobody}
      BY DEF Delivered, TypeOK, Queues, Transfers
    <2>3. CASE ~tx.active
      BY <1>8, <2>1, <2>2, <2>3 DEF TransferEnds, TypeOK, Transfers
    <2>4. CASE tx.active
      <3>1. tx.count - 1 \in 0 .. TxDepth
        BY <2>4, SMT DEF HeadOnLine, TypeOK, PortAssumption, Queues
      <3>2. q \in Queues
        BY <3>1, <2>0 DEF TypeOK, Queues
      <3>3. \/ tx' = q /\ wire' = [wire EXCEPT !.busy = FALSE]
            \/ StartLocked(q, FALSE)
        BY <1>8, <2>4 DEF TransferEnds
      <3> HIDE DEF q
      <3>4. /\ tx' \in Queues
            /\ wire' \in Transfers
        BY <3>2, <3>3, StartTyped DEF TypeOK, Transfers
      <3> QED
        BY <1>8, <2>1, <2>2, <3>4 DEF TransferEnds, TypeOK
    <2> QED
      BY <2>3, <2>4
  <1>9. CASE HostGivesUp
    BY <1>9 DEF HostGivesUp, TypeOK
  <1>10. Begun \subseteq Requests /\ Empty \in Requests \cup {Empty, Bad}
    BY DEF Begun
  <1>11. ASSUME TakeRxFault PROVE rxTail' \in 0 .. RingSize - 1 /\ rxFault' \in BOOLEAN
    BY <1>11 DEF TakeRxFault, TypeOK
  <1>12. CASE PassStarts
    <2>1. 0 \in 0 .. Burst
      BY SMT DEF PortAssumption
    <2> QED
      BY <1>10, <1>11, <1>12, <2>1 DEF PassStarts, HostUartError, TypeOK
  <1>13. CASE BurstEnds
    BY <1>10, <1>11, <1>13 DEF BurstEnds, HostUartError, TypeOK
  <1>14. CASE ParseByte
    <2>1. rxTail' \in 0 .. RingSize - 1
      BY <1>14, WrapNext DEF ParseByte, RxNext, TypeOK, PortAssumption
    <2>2. parsed' \in 0 .. Burst
      BY <1>14, SMT DEF ParseByte, TypeOK, PortAssumption
    <2>3. ring[rxTail] \in Bytes
      BY DEF TypeOK
    <2>4. CASE ~ring[rxTail].end
      BY <1>14, <2>1, <2>2, <2>3, <2>4 DEF ParseByte, TypeOK, Bytes
    <2>5. CASE ring[rxTail].end
      <3>1. CASE parser \in Requests /\ parser = ring[rxTail].of
        <4>1. Handle(parser)
          BY <1>14, <2>5, <3>1 DEF ParseByte
        <4> QED
          BY <1>14, <2>1, <2>2, <2>5, <3>1, <4>1, EnqueueTyped
             DEF ParseByte, Handle, TypeOK
      <3>2. CASE ~(parser \in Requests /\ parser = ring[rxTail].of)
        BY <1>14, <2>1, <2>2, <2>5, <3>2 DEF ParseByte, TypeOK
      <3> QED
        BY <3>1, <3>2
    <2> QED
      BY <2>4, <2>5
  <1>15. CASE Service
    BY <1>15 DEF Service, TypeOK, Queues
  <1> QED
    BY <1>1, <1>3, <1>5, <1>6, <1>7, <1>8, <1>9, <1>12, <1>13, <1>14, <1>15
       DEF Next, Interrupt, Loop

-----------------------------------------------------------------------------
(* The way of a request.                                                   *)

\* The bytes of request k, and the request of a byte.
LEMMA ByteFacts ==
    ASSUME NEW n \in Nat
    PROVE  /\ Byte(n).end <=> n % 2 = 1
           /\ n % 2 = 0 => Byte(n + 1).of = Byte(n).of /\ (n + 1) % 2 = 1
           /\ n % 2 = 1 => (n + 1) % 2 = 0 /\ 2 * Byte(n).of = n + 1
           /\ n % 2 \in {0, 1}
           /\ Byte(n).of \in Nat \ {0}
  <1>1. Byte(n).of = n \div 2 + 1 /\ (Byte(n).end <=> n % 2 = 1)
    BY DEF Byte
  <1>2. Byte(n + 1).of = (n + 1) \div 2 + 1
    BY DEF Byte
  <1>3. n % 2 \in {0, 1} /\ n \div 2 \in Nat /\ n = 2 * (n \div 2) + (n % 2)
    BY SMT
  <1>7. (n + 1) % 2 \in {0, 1} /\ n + 1 = 2 * ((n + 1) \div 2) + ((n + 1) % 2)
        /\ (n + 1) \div 2 \in Int
    BY SMT
  <1>4. n % 2 = 0 => (n + 1) \div 2 = n \div 2 /\ (n + 1) % 2 = 1
    BY <1>3, <1>7, SMT
  <1>5. n % 2 = 1 => (n + 1) % 2 = 0
    BY <1>3, <1>7, SMT
  <1>6. /\ n % 2 = 0 => Byte(n + 1).of = Byte(n).of
        /\ n % 2 = 1 => 2 * Byte(n).of = n + 1
        /\ Byte(n).of \in Nat \ {0}
    BY <1>1, <1>2, <1>3, <1>4, SMT
  <1> QED
    BY <1>1, <1>3, <1>4, <1>5, <1>6

\* A stream that is intact loses no request: one that was sent whole is
\* parsed, or its bytes are stored, the first one perhaps in the parser.
LEMMA IntactAccounts ==
    ASSUME PortAssumption, TypeOK, StreamIntact
    PROVE  RequestsAccounted
  <1> DEFINE at == sent - Stored
  <1>1. CASE rxFault
    BY <1>1 DEF RequestsAccounted
  <1>2. CASE ~rxFault
    <2>1. /\ at >= 0 /\ Stored \in 0 .. RingSize - 1 /\ at \in Nat
          /\ sent \in Nat
      BY <1>2, AheadRange, SMT DEF StreamIntact, Stored, TypeOK, PortAssumption
    <2>2. ASSUME NEW n \in at .. sent - 1 PROVE Queued(Byte(n))
      <3>1. n - at \in 0 .. RingSize - 1 /\ n - at < Stored /\ at + (n - at) = n
        BY <2>1, SMT DEF PortAssumption
      <3>2. PICK i \in 0 .. RingSize - 1 : Ahead(rxTail, i, RingSize) = n - at
        BY <3>1, AheadReaches DEF TypeOK, PortAssumption
      <3>3. ring[i] = Byte(n)
        BY <1>2, <3>1, <3>2 DEF StreamIntact
      <3> QED
        BY <3>1, <3>2, <3>3 DEF Queued
    <2>3. ASSUME NEW k \in Whole, k \notin handled, k \notin told
          PROVE  Arriving(k)
      <3>1. k \in Requests /\ k \in Nat /\ 2 * k <= sent /\ 2 * k > at
        BY <1>2, <2>1, <2>3, SMT DEF StreamIntact, Whole, Requests
      <3>2. 2 * k - 1 \in at .. sent - 1
        BY <2>1, <3>1, SMT
      <3>3. CASE 2 * k - 2 >= at
        <4>1. 2 * k - 2 \in at .. sent - 1
          BY <2>1, <3>1, <3>3, SMT
        <4> QED
          BY <2>2, <3>2, <4>1 DEF Arriving
      <3>4. CASE 2 * k - 2 < at
        <4>1. at = 2 * k - 1
          BY <2>1, <3>1, <3>4, SMT
        <4>2. at % 2 = 1 /\ Byte(at).of = k
          BY <3>1, <4>1, SMT DEF Byte
        <4>3. parser = k
          BY <1>2, <2>3, <4>2 DEF StreamIntact
        <4> QED
          BY <2>2, <3>2, <4>3 DEF Arriving
      <3> QED
        BY <2>1, <3>1, <3>3, <3>4, SMT
    <2> QED
      BY <2>3 DEF RequestsAccounted
  <1> QED
    BY <1>1, <1>2 DEF TypeOK

\* Steps that leave ring and parser alone.
LEMMA IntactQuiet ==
    ASSUME StreamIntact, UNCHANGED <<rxVars, parser, sent, told>>,
           handled \subseteq handled'
    PROVE  StreamIntact'
  BY DEF StreamIntact, Stored, rxVars

\* A byte that arrives is stored behind the others, or there is a fault.
LEMMA IntactArrives ==
    ASSUME PortAssumption, TypeOK, StreamIntact, ByteArrives
    PROVE  StreamIntact'
  <1> DEFINE at == sent - Stored
  <1> USE DEF rxVars, loopVars
  <1>1. CASE RingFull \/ rxFault
    BY <1>1 DEF ByteArrives, Received, StreamIntact
  <1>2. CASE ~RingFull /\ ~rxFault
    <2>1. /\ rxHead' = (rxHead + 1) % RingSize /\ rxHead' # rxTail
          /\ ring' = [ring EXCEPT ![rxHead] = Byte(sent)]
          /\ sent' = sent + 1
          /\ UNCHANGED <<rxFault, rxTail, parser, handled, told>>
      BY <1>2 DEF ByteArrives, Received, RingFull, RxNext, HostSends, NextByte
    <2>2. /\ rxHead' \in 0 .. RingSize - 1 /\ Stored' = Stored + 1
          /\ Stored \in 0 .. RingSize - 1 /\ sent \in Nat
          /\ sent - Stored \in Int
      <3>1. /\ RingSize \in Nat /\ RingSize > 1
            /\ rxHead \in 0 .. RingSize - 1 /\ rxTail \in 0 .. RingSize - 1
            /\ sent \in 0 .. 2 * MaxRequests /\ MaxRequests \in Nat
        BY DEF TypeOK, PortAssumption
      <3>2. rxHead' \in 0 .. RingSize - 1
        BY <2>1, <3>1, WrapNext
      <3>3. Ahead(rxTail, rxHead', RingSize) = Ahead(rxTail, rxHead, RingSize) + 1
        BY <2>1, <3>1, AheadNext
      <3>4. Stored' = Stored + 1
        BY <2>1, <3>3 DEF Stored
      <3>5. Stored \in 0 .. RingSize - 1
        BY <3>1, AheadRange DEF Stored
      <3>6. sent \in Nat /\ sent - Stored \in Int
        BY <3>1, <3>5, SMT
      <3> QED
        BY <3>2, <3>4, <3>5, <3>6
    <2>3. sent' - Stored' = at
      BY <2>1, <2>2, SMT
    <2>4. ASSUME NEW i \in 0 .. RingSize - 1, Ahead(rxTail, i, RingSize) < Stored'
          PROVE  ring'[i] = Byte(at + Ahead(rxTail, i, RingSize))
      <3>1. CASE i = rxHead
        <4>1. at + Ahead(rxTail, i, RingSize) = sent
          BY <2>2, <3>1, SMT DEF Stored
        <4> QED
          BY <2>1, <3>1, <4>1 DEF TypeOK
      <3>2. CASE i # rxHead
        <4>1. Ahead(rxTail, i, RingSize) # Ahead(rxTail, rxHead, RingSize)
          BY <3>2, SMT DEF Ahead, TypeOK, PortAssumption
        <4>2. Ahead(rxTail, i, RingSize) < Stored
          <5>1. Ahead(rxTail, i, RingSize) \in 0 .. RingSize - 1
            BY AheadRange DEF TypeOK, PortAssumption
          <5>2. Ahead(rxTail, i, RingSize) # Stored
            BY <4>1 DEF Stored
          <5>3. Ahead(rxTail, i, RingSize) < Stored + 1
            BY <2>2, <2>4
          <5> QED
            BY <2>2, <5>1, <5>2, <5>3, SMT
        <4> QED
          BY <1>2, <2>1, <3>2, <4>2 DEF StreamIntact, TypeOK
      <3> QED
        BY <3>1, <3>2
    <2> QED
      BY <1>2, <2>1, <2>3, <2>4 DEF StreamIntact
  <1> QED
    BY <1>1, <1>2

\* Taking a fault empties the ring: what was sent up to now is told of.
LEMMA IntactTaken ==
    ASSUME PortAssumption, TypeOK, StreamIntact, TakeRxFault,
           UNCHANGED <<ring, rxHead, sent, handled>>,
           IF rxFault THEN HostUartError
                      ELSE UNCHANGED <<parser, latched, told, gap>>
    PROVE  StreamIntact'
  <1>1. CASE ~rxFault
    BY <1>1 DEF TakeRxFault, StreamIntact, Stored
  <1>2. CASE rxFault
    <2>1. /\ rxTail' = rxHead' /\ rxHead' \in 0 .. RingSize - 1
          /\ parser' = Empty /\ told' = Begun /\ sent' = sent
          /\ sent \in 0 .. 2 * MaxRequests
      BY <1>2 DEF TakeRxFault, HostUartError, TypeOK
    <2>2. Stored' = 0
      BY <2>1, AheadRange DEF Stored, PortAssumption
    <2>3. sent' - Stored' = sent /\ sent \in Nat
      BY <2>1, <2>2, SMT
    <2>4. ASSUME NEW i \in 0 .. RingSize - 1
          PROVE  ~(Ahead(rxTail', i, RingSize) < Stored')
      BY <2>1, <2>2, AheadRange, SMT DEF PortAssumption
    <2>5. ASSUME NEW k \in Requests, 2 * k <= sent PROVE k \in told'
      BY <2>1, <2>5, SMT DEF Begun, Requests
    <2>6. ASSUME sent % 2 = 1 PROVE Byte(sent).of \in told'
      <3>1. 2 * Byte(sent).of = sent + 1 /\ Byte(sent).of \in Nat
        BY <2>3, <2>6, ByteFacts
      <3>2. Byte(sent).of \in Requests /\ 2 * Byte(sent).of - 1 <= sent
        BY <2>1, <3>1, SMT DEF Requests, PortAssumption
      <3> QED
        BY <2>1, <3>2 DEF Begun
    <2> QED
      BY <2>1, <2>3, <2>4, <2>5, <2>6, SMT DEF StreamIntact
  <1> QED
    BY <1>1, <1>2 DEF TypeOK

\* Parsing a byte moves it from the ring to the parser, or to the handler.
LEMMA IntactParsed ==
    ASSUME PortAssumption, TypeOK, StreamIntact, ParseByte
    PROVE  StreamIntact'
  <1> DEFINE at == sent - Stored
             b  == ring[rxTail]
  <1>1. CASE rxFault
    BY <1>1 DEF ParseByte, StreamIntact
  <1>2. CASE ~rxFault
    <2>1. /\ RingSize \in Nat /\ RingSize > 1
          /\ rxHead \in 0 .. RingSize - 1 /\ rxTail \in 0 .. RingSize - 1
          /\ rxTail # rxHead /\ rxTail' = (rxTail + 1) % RingSize
          /\ UNCHANGED <<ring, rxHead, rxFault, sent, told>>
          /\ sent \in Nat
      BY DEF ParseByte, RxNext, TypeOK, PortAssumption
    <2>2. /\ Ahead(rxTail', rxHead, RingSize) = Ahead(rxTail, rxHead, RingSize) - 1
          /\ rxTail' \in 0 .. RingSize - 1
      BY <2>1, AheadNext, WrapNext
    <2>3. Stored' = Stored - 1 /\ Stored \in 0 .. RingSize - 1 /\ Stored > 0
      BY <2>1, <2>2, AheadRange, SMT DEF Stored
    <2>4. at \in Nat /\ sent' - Stored' = at + 1
      BY <1>2, <2>1, <2>3, SMT DEF StreamIntact
    <2>5. ASSUME NEW i \in 0 .. RingSize - 1, Ahead(rxTail', i, RingSize) < Stored'
          PROVE  ring'[i] = Byte(at + 1 + Ahead(rxTail', i, RingSize))
      <3>1. CASE i = rxTail
        <4>1. Ahead(rxTail', i, RingSize) = RingSize - 1
          BY <2>1, <3>1, AheadNext
        <4> QED
          BY <2>1, <2>3, <2>5, <4>1, SMT
      <3>2. CASE i # rxTail
        <4>1. Ahead(rxTail', i, RingSize) = Ahead(rxTail, i, RingSize) - 1
          BY <2>1, <3>2, AheadNext
        <4>2. Ahead(rxTail, i, RingSize) \in 0 .. RingSize - 1
          BY <2>1, AheadRange
        <4>3. /\ Ahead(rxTail, i, RingSize) < Stored
              /\ at + 1 + Ahead(rxTail', i, RingSize) = at + Ahead(rxTail, i, RingSize)
          BY <2>3, <2>4, <2>5, <4>1, <4>2, SMT
        <4> QED
          BY <1>2, <2>1, <4>3 DEF StreamIntact
      <3> QED
        BY <3>1, <3>2
    <2>6. b = Byte(at)
      <3>1. Ahead(rxTail, rxTail, RingSize) = 0
        BY <2>1, AheadRange
      <3>2. b = Byte(at + Ahead(rxTail, rxTail, RingSize))
        BY <1>2, <2>1, <2>3, <3>1 DEF StreamIntact
      <3> QED
        BY <2>4, <3>1, <3>2, SMT
    <2>7. at % 2 \in {0, 1} /\ Byte(at).of \in Nat \ {0} /\ (b.end <=> at % 2 = 1)
      BY <2>4, <2>6, ByteFacts
    <2>8. handled \subseteq handled'
      BY DEF ParseByte, Handle
    <2>9. ASSUME NEW k \in Requests, 2 * k <= at PROVE k \in handled' \cup told'
      BY <1>2, <2>1, <2>8, <2>9 DEF StreamIntact
    <2>10. CASE at % 2 = 0
      <3>1. ~b.end /\ b.of # Nobody /\ parser = Empty
        BY <1>2, <2>6, <2>7, <2>10 DEF StreamIntact, Nobody
      <3>2. parser' = b.of
        BY <3>1 DEF ParseByte
      <3>3. Byte(at + 1).of = Byte(at).of /\ (at + 1) % 2 = 1
        BY <2>4, <2>10, ByteFacts
      <3>4. ASSUME NEW k \in Requests, 2 * k <= at + 1 PROVE 2 * k <= at
        <4>1. at = 2 * (at \div 2) /\ at \div 2 \in Int
          BY <2>4, <2>10, SMT
        <4> QED
          BY <2>4, <3>4, <4>1, SMT DEF Requests
      <3> QED
        BY <1>2, <2>1, <2>4, <2>5, <2>6, <2>9, <3>2, <3>3, <3>4 DEF StreamIntact
    <2>11. CASE at % 2 = 1
      <3>1. b.end /\ parser' = Empty
        BY <2>7, <2>11 DEF ParseByte
      <3>2. (at + 1) % 2 = 0 /\ 2 * Byte(at).of = at + 1
        BY <2>4, <2>11, ByteFacts
      <3>3. ASSUME NEW k \in Requests, 2 * k <= at + 1, ~(2 * k <= at)
            PROVE  k \in handled' \cup told'
        <4>1. k = Byte(at).of
          BY <2>4, <2>7, <3>2, <3>3, SMT DEF Requests
        <4>2. CASE parser = k
          BY <2>6, <3>1, <3>3, <4>1, <4>2 DEF ParseByte, Handle
        <4>3. CASE k \in told
          BY <2>1, <4>3
        <4> QED
          BY <1>2, <2>11, <4>1, <4>2, <4>3 DEF StreamIntact
      <3>4. ASSUME NEW k \in Requests, 2 * k <= at + 1
            PROVE  k \in handled' \cup told'
        BY <2>9, <3>3, <3>4
      <3>5. (at + 1) % 2 # 1
        BY <3>2
      <3> QED
        BY <1>2, <2>1, <2>4, <2>5, <3>1, <3>4, <3>5 DEF StreamIntact
    <2> QED
      BY <2>7, <2>10, <2>11
  <1> QED
    BY <1>1, <1>2 DEF TypeOK

\* Every step keeps the stream intact, or leaves a fault.
LEMMA IntactStep ==
    ASSUME PortAssumption, TypeOK, StreamIntact, [Next]_vars
    PROVE  StreamIntact'
  <1> USE DEF rxVars, loopVars
  <1>1. CASE UNCHANGED vars
    BY <1>1, IntactQuiet DEF vars
  <1>2. CASE ByteArrives
    BY <1>2, IntactArrives
  <1>3. CASE ByteOverrun \/ ByteNoisy \/ TransferFails
    BY <1>3 DEF ByteOverrun, ByteNoisy, TransferFails, StreamIntact
  <1>4. CASE TransferEnds
    BY <1>4, IntactQuiet DEF TransferEnds
  <1>5. CASE HostGivesUp
    BY <1>5, IntactQuiet DEF HostGivesUp
  <1>6. CASE PassStarts
    BY <1>6, IntactTaken DEF PassStarts
  <1>7. CASE ParseByte
    BY <1>7, IntactParsed
  <1>8. CASE BurstEnds
    BY <1>8, IntactTaken DEF BurstEnds
  <1>9. CASE Service
    BY <1>9, IntactQuiet DEF Service
  <1> QED
    BY <1>1, <1>2, <1>3, <1>4, <1>5, <1>6, <1>7, <1>8, <1>9
       DEF Next, Interrupt, Loop

-----------------------------------------------------------------------------
(* The way of an answer.                                                   *)

\* An answer that is enqueued waits behind a transfer, with those that did,
\* or the fault is set.
LEMMA EnqueueKeeps ==
    ASSUME PortAssumption, TypeOK, HeadOnLine, NEW k \in Requests, Enqueue(k)
    PROVE  /\ HeadOnLine'
           /\ tx.fault => tx'.fault
           /\ Pending(k)' \/ tx'.fault
           /\ \A j \in Requests : Pending(j) => Pending(j)' \/ tx'.fault
  <1> DEFINE q == [tx EXCEPT !.buf[tx.tail] = k, !.tail = TxNext(@), !.count = @ + 1]
  <1>1. CASE tx.fault \/ tx.count >= TxDepth
    <2>1. tx' = [tx EXCEPT !.fault = TRUE] /\ UNCHANGED wire
      BY <1>1 DEF Enqueue
    <2> QED
      BY <2>1 DEF HeadOnLine, TypeOK, Queues
  <1>2. CASE ~(tx.fault \/ tx.count >= TxDepth)
    <2>1. /\ TxDepth \in Nat /\ TxDepth > 1 /\ Slots = 0 .. TxDepth - 1
          /\ tx.head \in Slots /\ tx.tail \in Slots /\ tx.count \in 0 .. TxDepth
          /\ tx.buf \in [Slots -> Requests \cup {Nobody}]
          /\ ~tx.fault /\ tx.fault \in BOOLEAN /\ tx.active \in BOOLEAN
      BY <1>2 DEF TypeOK, Queues, Slots, PortAssumption
    <2>2. tx.count < TxDepth /\ tx.count = Ahead(tx.head, tx.tail, TxDepth)
      BY <1>2, <2>1, SMT DEF HeadOnLine
    <2>3. /\ TxNext(tx.tail) # tx.head
                => Ahead(tx.head, TxNext(tx.tail), TxDepth) = tx.count + 1
          /\ TxNext(tx.tail) = tx.head => tx.count + 1 = TxDepth
          /\ TxNext(tx.tail) \in Slots
      <3>1. /\ TxNext(tx.tail) # tx.head
                  => Ahead(tx.head, TxNext(tx.tail), TxDepth)
                        = Ahead(tx.head, tx.tail, TxDepth) + 1
            /\ TxNext(tx.tail) = tx.head
                  => Ahead(tx.head, tx.tail, TxDepth) = TxDepth - 1
            /\ TxNext(tx.tail) \in 0 .. TxDepth - 1
        BY <2>1, AheadNext, WrapNext DEF TxNext
      <3> QED
        BY <2>1, <2>2, <3>1, SMT
    <2>4. /\ q.buf = [tx.buf EXCEPT ![tx.tail] = k] /\ q.head = tx.head
          /\ q.tail = TxNext(tx.tail) /\ q.count = tx.count + 1
          /\ q.active = tx.active /\ q.fault = FALSE
          /\ q \in Queues
      <3>1. tx.count + 1 \in 0 .. TxDepth
        BY <2>1, <2>2, SMT
      <3> QED
        BY <2>1, <2>3, <3>1 DEF TypeOK, Queues
    <2>5. \/ tx.active /\ tx' = q /\ UNCHANGED wire
          \/ ~tx.active /\ StartLocked(q, wire.busy)
      BY <1>2 DEF Enqueue
    <2> HIDE DEF q
    <2>6. CASE ~tx.active /\ wire.busy
      <3>1. tx' = [q EXCEPT !.fault = TRUE] /\ UNCHANGED wire
        BY <2>5, <2>6 DEF StartLocked
      <3>2. /\ tx'.fault /\ ~tx'.active /\ tx'.count = q.count
            /\ tx'.head = q.head /\ tx'.tail = q.tail
        BY <2>4, <2>6, <3>1 DEF Queues
      <3>3. HeadOnLine'
        BY <2>3, <2>4, <3>2 DEF HeadOnLine
      <3> QED
        BY <3>2, <3>3
    <2>7. CASE tx.active \/ ~wire.busy
      <3>1. /\ tx'.buf = q.buf /\ tx'.head = q.head /\ tx'.tail = q.tail
            /\ tx'.count = q.count /\ tx'.active /\ tx'.fault = FALSE
        <4>1. CASE tx.active
          BY <2>4, <2>5, <4>1
        <4>2. CASE ~tx.active
          <5>1. tx' = [q EXCEPT !.active = TRUE]
            BY <2>5, <2>7, <4>2 DEF StartLocked
          <5> QED
            BY <2>4, <5>1 DEF Queues
        <4> QED
          BY <4>1, <4>2
      <3>2. ASSUME NEW i \in Slots, Ahead(tx.head, i, TxDepth) < tx.count
            PROVE  /\ Ahead(tx.head, i, TxDepth) < tx.count + 1
                   /\ q.buf[i] = tx.buf[i]
        <4>1. i # tx.tail /\ Ahead(tx.head, i, TxDepth) < tx.count + 1
          <5>1. Ahead(tx.head, i, TxDepth) \in 0 .. TxDepth - 1
            BY <2>1, AheadRange
          <5>2. i # tx.tail
            BY <2>1, <2>2, <3>2, <5>1, SMT
          <5> QED
            BY <2>1, <3>2, <5>1, <5>2, SMT
        <4> QED
          BY <2>1, <2>4, <4>1
      <3>3. tx.count < tx.count + 1 /\ q.buf[tx.tail] = k
        BY <2>1, <2>4, SMT
      <3>4. Pending(k)'
        BY <2>1, <2>2, <2>4, <3>1, <3>3 DEF Pending
      <3>5. \A j \in Requests : Pending(j) => Pending(j)'
        BY <2>4, <3>1, <3>2 DEF Pending
      <3>6. /\ wire'.busy /\ wire'.slot = tx'.head
            /\ wire'.answer = tx'.buf[tx'.head]
        <4>1. CASE tx.active
          <5>1. /\ tx.count > 0 /\ wire.busy /\ wire.slot = tx.head
                /\ wire.answer = tx.buf[tx.head] /\ wire' = wire
            BY <2>5, <4>1 DEF HeadOnLine
          <5>2. Ahead(tx.head, tx.head, TxDepth) < tx.count
            <6>1. Ahead(tx.head, tx.head, TxDepth) = 0
              BY <2>1, AheadRange
            <6> QED
              BY <2>1, <5>1, <6>1, SMT
          <5> QED
            BY <2>1, <2>4, <3>1, <3>2, <5>1, <5>2
        <4>2. CASE ~tx.active
          <5>1. wire' = [busy |-> TRUE, slot |-> q.head, answer |-> q.buf[q.head]]
            BY <2>5, <2>7, <4>2 DEF StartLocked, TransmitDMA
          <5> QED
            BY <3>1, <5>1
        <4> QED
          BY <4>1, <4>2
      <3>7. /\ \/ tx'.count = Ahead(tx'.head, tx'.tail, TxDepth)
               \/ tx'.count = TxDepth /\ tx'.head = tx'.tail
            /\ tx'.count > 0
        BY <2>1, <2>3, <2>4, <3>1, SMT
      <3>8. HeadOnLine'
        BY <3>6, <3>7 DEF HeadOnLine
      <3> QED
        BY <2>1, <3>4, <3>5, <3>8
    <2> QED
      BY <2>6, <2>7 DEF TypeOK, Transfers
  <1> QED
    BY <1>1, <1>2 DEF TypeOK, Queues

\* The end of a transfer delivers the head of an active queue and starts the
\* next answer.
LEMMA TransferKeeps ==
    ASSUME PortAssumption, TypeOK, HeadOnLine, AnswersAccounted, TransferEnds
    PROVE  HeadOnLine' /\ AnswersAccounted'
  <1> USE DEF rxVars, loopVars
  <1>1. PICK d \in Delivered : answered' = answered \cup ({d} \ {Nobody})
    BY DEF TransferEnds
  <1>2. UNCHANGED <<handled, warned>>
    BY DEF TransferEnds
  <1>3. CASE ~tx.active
    <2>1. tx' = tx /\ wire' = [wire EXCEPT !.busy = FALSE]
      BY <1>3 DEF TransferEnds
    <2> QED
      BY <1>1, <1>2, <1>3, <2>1 DEF HeadOnLine, AnswersAccounted, Pending, Ahead
  <1>4. CASE tx.active
    <2> DEFINE q == [tx EXCEPT !.head = TxNext(@), !.count = @ - 1, !.active = FALSE]
    <2>1. /\ TxDepth \in Nat /\ TxDepth > 1 /\ Slots = 0 .. TxDepth - 1
          /\ tx.head \in Slots /\ tx.tail \in Slots /\ tx.count \in 0 .. TxDepth
          /\ tx.buf \in [Slots -> Requests \cup {Nobody}] /\ tx.count > 0
          /\ wire.slot = tx.head /\ wire.answer = tx.buf[tx.head]
      BY <1>4 DEF TypeOK, Queues, Slots, PortAssumption, HeadOnLine
    <2>2. d = tx.buf[tx.head]
      BY <1>1, <2>1 DEF Delivered
    <2>3. /\ tx.head # tx.tail => Ahead(TxNext(tx.head), tx.tail, TxDepth)
                                    = Ahead(tx.head, tx.tail, TxDepth) - 1
          /\ Ahead(TxNext(tx.head), tx.head, TxDepth) = TxDepth - 1
          /\ TxNext(tx.head) \in Slots
      BY <2>1, AheadNext, WrapNext DEF TxNext
    <2>4. tx.count - 1 = Ahead(TxNext(tx.head), tx.tail, TxDepth)
      <3>1. tx.head = tx.tail => Ahead(tx.head, tx.tail, TxDepth) = 0
        BY <2>1, AheadRange
      <3> QED
        BY <2>1, <2>3, <3>1, SMT DEF HeadOnLine
    <2>5. /\ q.buf = tx.buf /\ q.head = TxNext(tx.head) /\ q.tail = tx.tail
          /\ q.count = tx.count - 1 /\ q.active = FALSE /\ q.fault = tx.fault
          /\ q \in Queues
      <3>1. tx.count - 1 \in 0 .. TxDepth
        BY <2>1, SMT
      <3> QED
        BY <2>1, <2>3, <3>1 DEF TypeOK, Queues
    <2>6. \/ q.count = 0 /\ tx' = q /\ wire' = [wire EXCEPT !.busy = FALSE]
          \/ q.count # 0 /\ StartLocked(q, FALSE)
      BY <1>4 DEF TransferEnds
    <2> HIDE DEF q
    <2>7. /\ tx'.buf = q.buf /\ tx'.head = q.head /\ tx'.tail = q.tail
          /\ tx'.count = q.count /\ tx'.fault = q.fault
          /\ tx'.active <=> q.count # 0
          /\ q.count # 0 => wire' = [busy |-> TRUE, slot |-> q.head,
                                     answer |-> q.buf[q.head]]
      <3>1. CASE q.count = 0
        BY <2>5, <2>6, <3>1
      <3>2. CASE q.count # 0
        <4>1. /\ tx' = [q EXCEPT !.active = TRUE]
              /\ wire' = [busy |-> TRUE, slot |-> q.head, answer |-> q.buf[q.head]]
          BY <2>6, <3>2 DEF StartLocked, TransmitDMA
        <4> QED
          BY <2>5, <3>2, <4>1 DEF Queues
      <3> QED
        BY <3>1, <3>2
    <2>8. HeadOnLine'
      <3>1. tx'.count = Ahead(tx'.head, tx'.tail, TxDepth)
        BY <2>4, <2>5, <2>7
      <3>2. tx'.active => /\ wire'.busy /\ wire'.slot = tx'.head
                          /\ wire'.answer = tx'.buf[tx'.head]
        BY <2>7
      <3>3. tx'.active => tx'.count > 0
        BY <2>1, <2>5, <2>7, SMT
      <3> QED
        BY <3>1, <3>2, <3>3 DEF HeadOnLine
    <2>9. ASSUME NEW j \in Requests, Pending(j)
          PROVE  Pending(j)' \/ j \in answered'
      <3>1. PICK i \in Slots : /\ Ahead(tx.head, i, TxDepth) < tx.count
                               /\ tx.buf[i] = j
        BY <2>9 DEF Pending
      <3>2. CASE i = tx.head
        BY <1>1, <2>2, <3>1, <3>2, SMT DEF Requests, Nobody
      <3>3. CASE i # tx.head
        <4>1. /\ Ahead(TxNext(tx.head), i, TxDepth) = Ahead(tx.head, i, TxDepth) - 1
              /\ Ahead(tx.head, i, TxDepth) \in 0 .. TxDepth - 1
              /\ Ahead(tx.head, i, TxDepth) # 0
          <5>1. i \in 0 .. TxDepth - 1 /\ tx.head \in 0 .. TxDepth - 1
            BY <2>1
          <5>2. Ahead((tx.head + 1) % TxDepth, i, TxDepth) = Ahead(tx.head, i, TxDepth) - 1
            BY <2>1, <3>3, <5>1, AheadNext
          <5>3. /\ Ahead(tx.head, i, TxDepth) \in 0 .. TxDepth - 1
                /\ Ahead(tx.head, i, TxDepth) = 0 <=> tx.head = i
            BY <2>1, <5>1, AheadRange
          <5> QED
            BY <3>3, <5>2, <5>3 DEF TxNext
        <4>2. Ahead(TxNext(tx.head), i, TxDepth) < tx.count - 1 /\ tx.count - 1 # 0
          BY <2>1, <3>1, <4>1, SMT
        <4> QED
          BY <2>5, <2>7, <3>1, <4>2 DEF Pending
      <3> QED
        BY <3>2, <3>3
    <2> QED
      BY <1>1, <1>2, <2>5, <2>7, <2>8, <2>9 DEF AnswersAccounted, TypeOK
  <1> QED
    BY <1>3, <1>4 DEF TypeOK, Queues

\* Steps that leave queue, transfer and answers alone.
LEMMA AnswersQuiet ==
    ASSUME HeadOnLine, AnswersAccounted,
           UNCHANGED <<tx, wire, handled, answered, warned>>
    PROVE  HeadOnLine' /\ AnswersAccounted'
  BY DEF HeadOnLine, AnswersAccounted, Pending

\* Every step keeps the answers accounted for.
LEMMA AnswersStep ==
    ASSUME PortAssumption, TypeOK, HeadOnLine, AnswersAccounted, [Next]_vars
    PROVE  HeadOnLine' /\ AnswersAccounted'
  <1> USE DEF rxVars, loopVars
  <1>1. CASE UNCHANGED vars
    BY <1>1, AnswersQuiet DEF vars
  <1>2. CASE ByteArrives
    BY <1>2, AnswersQuiet DEF ByteArrives
  <1>3. ASSUME TxOnError PROVE HeadOnLine' /\ AnswersAccounted'
    <2>1. /\ tx'.head = 0 /\ tx'.tail = 0 /\ tx'.count = 0 /\ ~tx'.active
          /\ tx'.fault
      BY <1>3 DEF TxOnError, TypeOK, Queues
    <2>2. Ahead(0, 0, TxDepth) = 0
      BY SMT DEF Ahead
    <2> QED
      BY <2>1, <2>2 DEF HeadOnLine, AnswersAccounted
  <1>4. CASE ByteOverrun \/ ByteNoisy \/ TransferFails
    BY <1>3, <1>4 DEF ByteOverrun, ByteNoisy, TransferFails
  <1>5. CASE TransferEnds
    BY <1>5, TransferKeeps
  <1>6. CASE HostGivesUp
    BY <1>6, AnswersQuiet DEF HostGivesUp
  <1>7. CASE PassStarts
    BY <1>7, AnswersQuiet DEF PassStarts
  <1>8. CASE BurstEnds
    BY <1>8, AnswersQuiet DEF BurstEnds
  <1>9. CASE ParseByte
    <2>1. CASE UNCHANGED <<tx, wire, handled, behind, latched>>
      BY <1>9, <2>1, AnswersQuiet DEF ParseByte
    <2>2. CASE parser \in Requests /\ Handle(parser)
      <3>1. UNCHANGED <<answered, warned>> /\ handled' = handled \cup {parser}
            /\ Enqueue(parser)
        BY <1>9, <2>2 DEF ParseByte, Handle
      <3> QED
        BY <2>2, <3>1, EnqueueKeeps DEF AnswersAccounted, TypeOK
    <2> QED
      BY <1>9, <2>1, <2>2 DEF ParseByte
  <1>10. CASE Service
    <2>1. /\ tx' = [tx EXCEPT !.fault = FALSE] /\ UNCHANGED <<wire, handled, answered>>
          /\ IF tx.fault THEN warned' = handled ELSE warned' = warned
      BY <1>10 DEF Service
    <2>2. /\ tx'.buf = tx.buf /\ tx'.head = tx.head /\ tx'.tail = tx.tail
          /\ tx'.count = tx.count /\ tx'.active = tx.active
      BY <2>1 DEF TypeOK, Queues
    <2>3. HeadOnLine' /\ (\A j : Pending(j)' <=> Pending(j))
      BY <2>1, <2>2 DEF HeadOnLine, Pending
    <2>4. CASE tx.fault
      BY <2>1, <2>3, <2>4 DEF AnswersAccounted
    <2>5. CASE ~tx.fault
      BY <2>1, <2>3, <2>5 DEF AnswersAccounted
    <2> QED
      BY <2>3, <2>4, <2>5 DEF TypeOK, Queues
  <1> QED
    BY <1>1, <1>2, <1>4, <1>5, <1>6, <1>7, <1>8, <1>9, <1>10
       DEF Next, Interrupt, Loop

-----------------------------------------------------------------------------
(* Gaps.                                                                   *)

\* Every step keeps a gap under its fault and latches before it is forgotten.
LEMMA GapStep ==
    ASSUME TypeOK, GapIsFault, [Next]_vars PROVE GapIsFault'
  <1> USE DEF rxVars, loopVars, GapIsFault, BehindAGapStops
  <1>1. CASE UNCHANGED vars
    BY <1>1 DEF vars
  <1>2. CASE ByteArrives
    BY <1>2 DEF ByteArrives, Received, Damage, TypeOK
  <1>3. CASE ByteOverrun
    BY <1>3 DEF ByteOverrun
  <1>4. CASE ByteNoisy
    BY <1>4 DEF ByteNoisy
  <1>5. CASE TransferFails
    BY <1>5 DEF TransferFails
  <1>6. CASE TransferEnds
    BY <1>6 DEF TransferEnds
  <1>7. CASE HostGivesUp
    BY <1>7 DEF HostGivesUp
  <1>8. CASE PassStarts
    BY <1>8 DEF PassStarts, TakeRxFault, HostUartError, TypeOK
  <1>9. CASE ParseByte
    <2>1. /\ pc' = "burst" /\ UNCHANGED <<gap, rxFault>> /\ pc = "burst"
      BY <1>9 DEF ParseByte
    <2>2. behind' => behind \/ gap # Nobody
      <3>1. CASE UNCHANGED <<tx, wire, handled, behind, latched>>
        BY <3>1
      <3>2. CASE Handle(parser)
        BY <3>2 DEF Handle
      <3> QED
        BY <1>9, <3>1, <3>2 DEF ParseByte
    <2> QED
      BY <2>1, <2>2
  <1>10. CASE BurstEnds
    BY <1>10 DEF BurstEnds, TakeRxFault, HostUartError, TypeOK
  <1>11. CASE Service
    BY <1>11 DEF Service
  <1> QED
    BY <1>1, <1>2, <1>3, <1>4, <1>5, <1>6, <1>7, <1>8, <1>9, <1>10, <1>11
       DEF Next, Interrupt, Loop

-----------------------------------------------------------------------------
(* The specification.                                                      *)

\* The part of IInv the rest follows from.
Inductive ==
    TypeOK /\ StreamIntact /\ HeadOnLine /\ AnswersAccounted /\ GapIsFault

\* The initial state: nothing stored, nothing queued.
LEMMA InitHolds == ASSUME PortAssumption, Init PROVE Inductive
  <1>1. TypeOK
    BY InitTyped
  <1>2. Ahead(0, 0, RingSize) = 0 /\ Ahead(0, 0, TxDepth) = 0
    BY SMT DEF Ahead
  <1>3. HeadOnLine /\ AnswersAccounted /\ GapIsFault
    BY <1>2 DEF Init, HeadOnLine, AnswersAccounted, GapIsFault, BehindAGapStops
  <1>4. Stored = 0 /\ sent = 0 /\ sent - Stored = 0 /\ parser = Empty
    BY <1>2, SMT DEF Init, Stored
  <1>5. \A i \in 0 .. RingSize - 1 : ~(Ahead(rxTail, i, RingSize) < Stored)
    BY <1>1, <1>4, AheadRange, SMT DEF TypeOK, PortAssumption
  <1>6. \A k \in Requests : ~(2 * k <= 0)
    BY SMT DEF Requests
  <1>7. 0 % 2 = 0
    BY SMT
  <1>8. StreamIntact
    BY <1>4, <1>5, <1>6, <1>7, SMT DEF StreamIntact
  <1> QED
    BY <1>1, <1>3, <1>8 DEF Inductive

\* Every step keeps the invariant.
LEMMA StepKeeps ==
    ASSUME PortAssumption, Inductive, [Next]_vars PROVE Inductive'
  <1>1. TypeOK'
    BY TypeStep DEF Inductive
  <1>2. StreamIntact'
    BY IntactStep DEF Inductive
  <1>3. HeadOnLine' /\ AnswersAccounted'
    BY AnswersStep DEF Inductive
  <1>4. GapIsFault'
    BY GapStep DEF Inductive
  <1> QED
    BY <1>1, <1>2, <1>3, <1>4 DEF Inductive

\* The types, the order of the bytes, the head of the queue on the line: all
\* that the theorems below rest on holds in every state.
THEOREM PortInvariant == Spec => []IInv
  <1>1. Init => Inductive
    BY PortAssumption, InitHolds
  <1>2. Inductive /\ [Next]_vars => Inductive'
    BY PortAssumption, StepKeeps
  <1>3. Inductive => IInv
    BY PortAssumption, IntactAccounts DEF Inductive, IInv
  <1> QED
    BY <1>1, <1>2, <1>3, PTL DEF Spec

\* A request that was sent whole is handled, or on its way to the handler, or
\* a receive fault stops the robot (host_uart_rx.c:98).
THEOREM RequestsSound == Spec => []RequestsAccounted
  <1>1. IInv => RequestsAccounted
    BY DEF IInv
  <1> QED
    BY <1>1, PortInvariant, PTL

\* An answer reached the host, or waits behind a running transfer, or the
\* transmit fault stops the robot (host_uart_tx.c:86).
THEOREM AnswersSound == Spec => []AnswersAccounted
  <1>1. IInv => AnswersAccounted
    BY DEF IInv
  <1> QED
    BY <1>1, PortInvariant, PTL

\* What was executed behind missing bytes is followed by a latched stop in
\* the same pass (single_arm_app.c:414).
THEOREM GapsStop == Spec => []BehindAGapStops
  <1>1. IInv => BehindAGapStops
    BY DEF IInv, GapIsFault
  <1> QED
    BY <1>1, PortInvariant, PTL
-----------------------------------------------------------------------------
(* A queue that is full is being sent.                                     *)

\* Requests that the host waits for and the firmware has not seen.
Fresh == {k \in open : k \in Begun /\ k \notin handled /\ k \notin told}

\* Slots of the ring that hold the body of a request.
InRing(i) == Ahead(rxTail, i, RingSize) < Stored
Body(i)   == InRing(i) /\ ~ring[i].end /\ ring[i].of \in Requests

\* A request is handled at most once, while the host waits for it: its body
\* is in one slot of the ring or in the parser, and only before it is handled.
ComingOnce ==
    /\ parser \in Requests => parser \in Fresh
    /\ \A i \in 0 .. RingSize - 1 :
         Body(i) => ring[i].of \in Fresh /\ ring[i].of # parser
    /\ \A i, j \in 0 .. RingSize - 1 :
         Body(i) /\ Body(j) /\ ring[i].of = ring[j].of => i = j

\* Only what was handled is answered, so an answer ends no other wait.
AnswersOfHandled ==
    /\ handled \subseteq Begun /\ told \subseteq Begun
    /\ \A s \in Slots : tx.buf[s] \in handled \cup {Nobody}
    /\ wire.answer \in handled \cup {Nobody}

\* The host keeps to its window, a request it is in the middle of included.
Half   == {k \in Requests : 2 * k - 1 = sent}
Window == Cardinality(open \cup Half) <= MaxOpen

\* What piles up while the line is busy without the queue being active, after
\* a line error, are answers the host still waits for.
Backlog ==
    /\ ~tx.active /\ wire.busy => tx.count <= Cardinality(open \cap handled)
    /\ ~tx.active => tx.count < TxDepth

WedgeInv == ComingOnce /\ AnswersOfHandled /\ Window /\ Backlog

\* The ring after a byte was stored, parsed, or all were dropped.
LEMMA RingStores ==
    ASSUME PortAssumption, TypeOK, ~RingFull,
           rxHead' = RxNext(rxHead), rxTail' = rxTail
    PROVE  /\ ~InRing(rxHead)
           /\ \A i \in 0 .. RingSize - 1 : InRing(i)' => InRing(i) \/ i = rxHead
  <1>1. /\ RingSize \in Nat /\ RingSize > 1
        /\ rxHead \in 0 .. RingSize - 1 /\ rxTail \in 0 .. RingSize - 1
        /\ rxHead' = (rxHead + 1) % RingSize /\ rxHead' # rxTail
    BY DEF TypeOK, PortAssumption, RingFull, RxNext
  <1>2. Ahead(rxTail, rxHead', RingSize) = Ahead(rxTail, rxHead, RingSize) + 1
    BY <1>1, AheadNext
  <1>3. Stored' = Stored + 1 /\ Stored \in 0 .. RingSize - 1
    BY <1>1, <1>2, AheadRange DEF Stored
  <1>4. ~InRing(rxHead)
    BY <1>3, SMT DEF InRing, Stored
  <1>5. ASSUME NEW i \in 0 .. RingSize - 1, InRing(i)', i # rxHead
        PROVE  InRing(i)
    <2>1. Ahead(rxTail, i, RingSize) < Stored + 1
      BY <1>1, <1>3, <1>5 DEF InRing
    <2>2. Ahead(rxTail, i, RingSize) \in 0 .. RingSize - 1
      BY <1>1, AheadRange
    <2>3. Ahead(rxTail, i, RingSize) # Stored
      BY <1>1, <1>5, SMT DEF Ahead, Stored
    <2> QED
      BY <1>3, <2>1, <2>2, <2>3, SMT DEF InRing
  <1> QED
    BY <1>4, <1>5

LEMMA RingParses ==
    ASSUME PortAssumption, TypeOK, rxTail # rxHead,
           rxTail' = RxNext(rxTail), rxHead' = rxHead
    PROVE  /\ InRing(rxTail)
           /\ \A i \in 0 .. RingSize - 1 : InRing(i)' => InRing(i) /\ i # rxTail
  <1>1. /\ RingSize \in Nat /\ RingSize > 1
        /\ rxHead \in 0 .. RingSize - 1 /\ rxTail \in 0 .. RingSize - 1
        /\ rxTail' = (rxTail + 1) % RingSize
    BY DEF TypeOK, PortAssumption, RxNext
  <1>2. /\ Ahead(rxTail', rxHead, RingSize) = Ahead(rxTail, rxHead, RingSize) - 1
        /\ Ahead(rxTail', rxTail, RingSize) = RingSize - 1
    BY <1>1, AheadNext
  <1>3. Stored' = Stored - 1 /\ Stored \in 0 .. RingSize - 1 /\ Stored > 0
    BY <1>1, <1>2, AheadRange, SMT DEF Stored
  <1>4. InRing(rxTail)
    <2>1. Ahead(rxTail, rxTail, RingSize) = 0
      BY <1>1, AheadRange
    <2> QED
      BY <1>3, <2>1, SMT DEF InRing
  <1>5. ASSUME NEW i \in 0 .. RingSize - 1, InRing(i)'
        PROVE  InRing(i) /\ i # rxTail
    <2>1. Ahead(rxTail', i, RingSize) < Stored - 1
      BY <1>3, <1>5 DEF InRing
    <2>2. i # rxTail
      BY <1>1, <1>2, <1>3, <2>1, SMT
    <2>3. Ahead(rxTail', i, RingSize) = Ahead(rxTail, i, RingSize) - 1
      BY <1>1, <2>2, AheadNext
    <2>4. Ahead(rxTail, i, RingSize) \in 0 .. RingSize - 1
      BY <1>1, AheadRange
    <2> QED
      BY <1>3, <2>1, <2>2, <2>3, <2>4, SMT DEF InRing
  <1> QED
    BY <1>4, <1>5

LEMMA RingDrops ==
    ASSUME PortAssumption, TypeOK, rxHead' = rxHead, rxTail' = rxHead
    PROVE  \A i \in 0 .. RingSize - 1 : ~InRing(i)'
  <1>1. /\ RingSize \in Nat /\ rxHead \in 0 .. RingSize - 1
    BY DEF TypeOK, PortAssumption
  <1>2. Stored' = 0
    BY <1>1, AheadRange DEF Stored
  <1> QED
    BY <1>1, <1>2, AheadRange, SMT DEF InRing

\* A byte of the next request is new: its request was not begun before its
\* body came, and nothing stored or parsed is of it.
LEMMA NextByteFacts ==
    ASSUME PortAssumption, TypeOK, HostMaySend, HostSends
    PROVE  /\ NextByte \in Bytes /\ NextByte.of \in Requests
           /\ Begun \subseteq Begun'
           /\ ~NextByte.end => NextByte.of \notin Begun /\ NextByte.of \in Begun'
           /\ ~NextByte.end => Half = {} /\ Half' = {NextByte.of}
           /\ NextByte.end => NextByte.of \in Begun
           /\ NextByte.end => Half = {NextByte.of} /\ Half' = {}
  <1>1. sent \in Nat /\ sent \in 0 .. 2 * MaxRequests - 1 /\ sent' = sent + 1
    BY SMT DEF TypeOK, HostMaySend, HostSends, PortAssumption
  <1>2. NextByte \in Bytes /\ NextByte.of \in Requests
    BY <1>1, ByteType DEF NextByte
  <1>3. /\ NextByte.end <=> sent % 2 = 1
        /\ NextByte.of = sent \div 2 + 1
    BY DEF NextByte, Byte
  <1>4. /\ sent % 2 \in {0, 1} /\ sent = 2 * (sent \div 2) + (sent % 2)
        /\ sent \div 2 \in Nat
    BY <1>1, SMT
  <1>5. /\ ~NextByte.end => sent = 2 * NextByte.of - 2
        /\ NextByte.end => sent = 2 * NextByte.of - 1
        /\ NextByte.of \in Nat
    BY <1>3, <1>4, SMT
  <1>6. Begun \subseteq Begun'
    BY <1>1, SMT DEF Begun, Requests
  <1>7. ASSUME ~NextByte.end
        PROVE  /\ NextByte.of \notin Begun /\ NextByte.of \in Begun'
               /\ Half = {} /\ Half' = {NextByte.of}
    <2>1. sent = 2 * NextByte.of - 2
      BY <1>5, <1>7
    <2>2. NextByte.of \notin Begun /\ NextByte.of \in Begun'
      BY <1>1, <1>2, <1>5, <2>1, SMT DEF Begun
    <2>3. \A k \in Requests : 2 * k - 1 # sent
      BY <1>5, <2>1, SMT DEF Requests
    <2>4. \A k \in Requests : 2 * k - 1 = sent' <=> k = NextByte.of
      BY <1>1, <1>5, <2>1, SMT DEF Requests
    <2> QED
      BY <1>2, <2>2, <2>3, <2>4 DEF Half
  <1>8. ASSUME NextByte.end
        PROVE  NextByte.of \in Begun /\ Half = {NextByte.of} /\ Half' = {}
    <2>1. sent = 2 * NextByte.of - 1
      BY <1>5, <1>8
    <2>2. NextByte.of \in Begun
      BY <1>1, <1>2, <1>5, <2>1, SMT DEF Begun
    <2>3. ASSUME NEW k \in Requests PROVE 2 * k - 1 = sent <=> k = NextByte.of
      <3>1. k \in Int /\ NextByte.of \in Int
        BY <1>5, SMT DEF Requests
      <3> QED
        BY <2>1, <3>1, SMT
    <2>4. \A k \in Requests : 2 * k - 1 # sent'
      BY <1>1, <1>5, <2>1, SMT DEF Requests
    <2> QED
      BY <1>2, <2>2, <2>3, <2>4 DEF Half
  <1> QED
    BY <1>2, <1>6, <1>7, <1>8

\* Finite sets of requests.
LEMMA RequestsFinite ==
    ASSUME PortAssumption, NEW S \in SUBSET Requests
    PROVE  IsFiniteSet(S) /\ Cardinality(S) \in Nat
  <1>1. IsFiniteSet(Requests)
    BY FS_Interval DEF Requests, PortAssumption
  <1> QED
    BY <1>1, FS_Subset, FS_CardinalityType

LEMMA FewerRequests ==
    ASSUME PortAssumption, NEW S \in SUBSET Requests, NEW T \in SUBSET S
    PROVE  /\ Cardinality(T) \in Nat /\ Cardinality(S) \in Nat
           /\ Cardinality(T) <= Cardinality(S)
  BY RequestsFinite, FS_Subset

LEMMA OneMoreRequest ==
    ASSUME PortAssumption, NEW S \in SUBSET Requests, NEW k \in Requests
    PROVE  /\ Cardinality(S \cup {k}) <= Cardinality(S) + 1
           /\ k \notin S => Cardinality(S \cup {k}) = Cardinality(S) + 1
           /\ Cardinality(S) \in Nat
  BY RequestsFinite, FS_AddElement, SMT

\* What is on its way stays so as long as it is fresh.
LEMMA ComingQuiet ==
    ASSUME ComingOnce, UNCHANGED <<ring, rxHead, rxTail, parser>>,
           Fresh \subseteq Fresh'
    PROVE  ComingOnce'
  <1>1. \A i : Body(i)' <=> Body(i)
    BY DEF Body, InRing, Stored
  <1> QED
    BY <1>1 DEF ComingOnce

\* Dropping everything: nothing is on its way.
LEMMA ComingDrops ==
    ASSUME PortAssumption, TypeOK, rxHead' = rxHead, rxTail' = rxHead,
           parser' = Empty
    PROVE  ComingOnce'
  <1>1. \A i \in 0 .. RingSize - 1 : ~Body(i)'
    BY RingDrops DEF Body
  <1>2. Empty \notin Requests
    BY SMT DEF Empty, Requests
  <1> QED
    BY <1>1, <1>2 DEF ComingOnce

\* The next byte of the host, or noise in its place, or nothing, is stored.
LEMMA ComingSent ==
    ASSUME PortAssumption, TypeOK, ComingOnce, AnswersOfHandled,
           HostMaySend, HostSends, UNCHANGED <<rxTail, parser, handled, told>>,
           \/ UNCHANGED <<ring, rxHead>>
           \/ /\ ~RingFull /\ rxHead' = RxNext(rxHead)
              /\ \E b \in {NextByte} \cup [of : {Nobody}, end : BOOLEAN] :
                    ring' = [ring EXCEPT ![rxHead] = b]
    PROVE  ComingOnce'
  <1>1. /\ NextByte \in Bytes /\ NextByte.of \in Requests
        /\ Begun \subseteq Begun'
        /\ ~NextByte.end => NextByte.of \notin Begun /\ NextByte.of \in Begun'
    BY NextByteFacts
  <1>2. Fresh \subseteq Fresh' /\ Fresh \subseteq Begun
    BY <1>1 DEF Fresh, HostSends
  <1>3. CASE UNCHANGED <<ring, rxHead>>
    BY <1>2, <1>3, ComingQuiet
  <1>4. CASE /\ ~RingFull /\ rxHead' = RxNext(rxHead)
             /\ \E b \in {NextByte} \cup [of : {Nobody}, end : BOOLEAN] :
                    ring' = [ring EXCEPT ![rxHead] = b]
    <2>1. PICK b \in {NextByte} \cup [of : {Nobody}, end : BOOLEAN] :
                    ring' = [ring EXCEPT ![rxHead] = b]
      BY <1>4
    <2>2. /\ rxHead \in 0 .. RingSize - 1 /\ ring'[rxHead] = b
          /\ \A i \in 0 .. RingSize - 1 : i # rxHead => ring'[i] = ring[i]
      BY <2>1 DEF TypeOK
    <2>3. \A i \in 0 .. RingSize - 1 : InRing(i)' => InRing(i) \/ i = rxHead
      BY <1>4, RingStores
    <2>4. \A i \in 0 .. RingSize - 1 :
            Body(i)' /\ i # rxHead => Body(i) /\ ring'[i].of = ring[i].of
      BY <2>2, <2>3 DEF Body
    <2>5. ASSUME NEW i \in 0 .. RingSize - 1, i = rxHead, Body(i)'
          PROVE  b = NextByte /\ ~NextByte.end
      <3>1. b.of \in Requests /\ ~b.end
        BY <2>2, <2>5 DEF Body
      <3>2. Nobody \notin Requests
        BY SMT DEF Nobody, Requests
      <3>3. b \notin [of : {Nobody}, end : BOOLEAN]
        BY <3>1, <3>2
      <3> QED
        BY <2>1, <3>1, <3>3
    <2>6. ASSUME NEW i \in 0 .. RingSize - 1, i = rxHead, Body(i)'
          PROVE  /\ ring'[i].of \in Fresh' /\ ring'[i].of \notin Begun
      <3>1. ring'[i].of = NextByte.of /\ ~NextByte.end
        BY <2>2, <2>5, <2>6
      <3>2. NextByte.of \notin handled /\ NextByte.of \notin told
        BY <1>1, <3>1 DEF AnswersOfHandled
      <3>3. NextByte.of \in open'
        BY DEF HostSends
      <3> QED
        BY <1>1, <3>1, <3>2, <3>3 DEF Fresh
    <2>7. ASSUME NEW i \in 0 .. RingSize - 1, Body(i)', i # rxHead
          PROVE  /\ Body(i) /\ ring'[i].of = ring[i].of
                 /\ ring[i].of \in Fresh /\ ring[i].of # parser
      BY <2>4, <2>7 DEF ComingOnce
    <2>8. parser' \in Requests => parser' \in Fresh'
      BY <1>2 DEF ComingOnce
    <2>9. ASSUME NEW i \in 0 .. RingSize - 1, Body(i)'
          PROVE  ring'[i].of \in Fresh' /\ ring'[i].of # parser'
      <3>1. CASE i = rxHead
        <4>1. ring'[i].of \in Fresh' /\ ring'[i].of \notin Begun
          BY <2>6, <2>9, <3>1
        <4>2. ring'[i].of \in Requests
          BY <2>9 DEF Body
        <4> QED
          BY <1>2, <4>1, <4>2 DEF ComingOnce
      <3> QED
        BY <1>2, <2>7, <2>9, <3>1
    <2>10. ASSUME NEW i \in 0 .. RingSize - 1, NEW j \in 0 .. RingSize - 1,
                  Body(i)', Body(j)', ring'[i].of = ring'[j].of
           PROVE  i = j
      <3>1. CASE i # rxHead /\ j # rxHead
        BY <2>7, <2>10, <3>1 DEF ComingOnce
      <3>2. CASE i = rxHead /\ j # rxHead
        BY <1>2, <2>6, <2>7, <2>10, <3>2
      <3>3. CASE i # rxHead /\ j = rxHead
        BY <1>2, <2>6, <2>7, <2>10, <3>3
      <3> QED
        BY <3>1, <3>2, <3>3
    <2> QED
      BY <2>8, <2>9, <2>10 DEF ComingOnce
  <1> QED
    BY <1>3, <1>4

\* A byte that is parsed goes to the parser, or completes the request in it.
LEMMA ComingParsed ==
    ASSUME PortAssumption, TypeOK, ComingOnce, ParseByte
    PROVE  ComingOnce'
  <1>1. /\ rxTail # rxHead /\ rxTail' = RxNext(rxTail)
        /\ UNCHANGED <<ring, rxHead, sent, open, told>>
        /\ rxTail \in 0 .. RingSize - 1
        /\ Begun' = Begun
    BY DEF ParseByte, TypeOK, Begun
  <1>2. /\ InRing(rxTail)
        /\ \A i \in 0 .. RingSize - 1 : InRing(i)' => InRing(i) /\ i # rxTail
    BY <1>1, RingParses
  <1>3. \A i \in 0 .. RingSize - 1 : Body(i)' => Body(i) /\ i # rxTail
    BY <1>1, <1>2 DEF Body
  <1>4. Empty \notin Requests /\ Bad \notin Requests
    BY SMT DEF Empty, Bad, Requests
  <1>5. CASE ~ring[rxTail].end
    <2>1. /\ handled' = handled
          /\ parser' = IF parser = Empty /\ ring[rxTail].of # Nobody
                       THEN ring[rxTail].of ELSE Bad
      BY <1>5 DEF ParseByte
    <2>2. Fresh' = Fresh
      BY <1>1, <2>1 DEF Fresh
    <2>3. parser' \in Requests => Body(rxTail) /\ parser' = ring[rxTail].of
      BY <1>2, <1>4, <1>5, <2>1 DEF Body
    <2>4. parser' \in Requests => parser' \in Fresh'
      BY <1>1, <2>2, <2>3 DEF ComingOnce
    <2>5. ASSUME NEW i \in 0 .. RingSize - 1, Body(i)'
          PROVE  ring'[i].of \in Fresh' /\ ring'[i].of # parser'
      <3>1. Body(i) /\ i # rxTail /\ ring'[i].of = ring[i].of
        BY <1>1, <1>3, <2>5
      <3>2. ring[i].of \in Requests
        BY <3>1 DEF Body
      <3> QED
        BY <1>1, <2>2, <2>3, <3>1, <3>2 DEF ComingOnce
    <2> QED
      BY <1>1, <1>3, <2>4, <2>5 DEF ComingOnce
  <1>6. CASE ring[rxTail].end
    <2>1. /\ parser' = Empty
          /\ \/ handled' = handled
             \/ parser \in Requests /\ handled' = handled \cup {parser}
      BY <1>6 DEF ParseByte, Handle
    <2>2. \A k \in Fresh : k # parser => k \in Fresh'
      BY <1>1, <2>1 DEF Fresh
    <2>3. ASSUME NEW i \in 0 .. RingSize - 1, Body(i)'
          PROVE  ring'[i].of \in Fresh' /\ ring'[i].of # parser'
      <3>1. /\ Body(i) /\ ring'[i].of = ring[i].of /\ ring[i].of \in Requests
            /\ ring[i].of \in Fresh /\ ring[i].of # parser
        BY <1>1, <1>3, <2>3 DEF ComingOnce, Body
      <3> QED
        BY <1>4, <2>1, <2>2, <3>1
    <2> QED
      BY <1>1, <1>3, <1>4, <2>1, <2>3 DEF ComingOnce
  <1> QED
    BY <1>5, <1>6

\* The host's window: a request it begins fits, one it ends was counted.
LEMMA WindowSent ==
    ASSUME PortAssumption, TypeOK, Window, HostMaySend, HostSends
    PROVE  Window'
  <1>1. open \in SUBSET Requests /\ open' = open \cup {NextByte.of}
    BY DEF TypeOK, HostSends
  <1>2. MaxOpen \in Nat
    BY DEF PortAssumption
  <1>3. CASE NextByte.end
    <2>1. open' \cup Half' = open \cup Half
      BY <1>1, <1>3, NextByteFacts
    <2> QED
      BY <2>1 DEF Window
  <1>4. CASE ~NextByte.end
    <2>1. open' \cup Half' = open \cup {NextByte.of} /\ NextByte.of \in Requests
      BY <1>1, <1>4, NextByteFacts
    <2>2. Cardinality(open) < MaxOpen
      BY <1>4 DEF HostMaySend
    <2>3. Cardinality(open \cup {NextByte.of}) <= Cardinality(open) + 1
          /\ Cardinality(open) \in Nat
      BY <1>1, <2>1, OneMoreRequest
    <2>4. Cardinality(open \cup {NextByte.of}) \in Nat
      BY <1>1, <2>1, RequestsFinite
    <2>5. Cardinality(open \cup {NextByte.of}) <= MaxOpen
      BY <1>2, <2>2, <2>3, <2>4, SMT
    <2> QED
      BY <2>1, <2>5 DEF Window
  <1> QED
    BY <1>3, <1>4

\* A window that only loses requests.
LEMMA WindowShrinks ==
    ASSUME PortAssumption, TypeOK, Window, open' \subseteq open, sent' = sent
    PROVE  Window'
  <1>1. Half' = Half /\ open \cup Half \in SUBSET Requests
        /\ open' \cup Half' \in SUBSET (open \cup Half)
    BY DEF Half, TypeOK
  <1>2. /\ Cardinality(open' \cup Half') \in Nat /\ Cardinality(open \cup Half) \in Nat
        /\ Cardinality(open' \cup Half') <= Cardinality(open \cup Half)
    BY <1>1, FewerRequests
  <1> QED
    BY <1>2, SMT DEF Window, PortAssumption

\* An answer that is queued without a transfer is one the host waits for.
LEMMA BacklogEnqueued ==
    ASSUME PortAssumption, TypeOK, Window, Backlog,
           NEW k \in Fresh, Enqueue(k), open' = open,
           handled' = handled \cup {k}
    PROVE  Backlog'
  <1> DEFINE q == [tx EXCEPT !.buf[tx.tail] = k, !.tail = TxNext(@), !.count = @ + 1]
  <1>1. /\ TxDepth \in Nat /\ tx.count \in 0 .. TxDepth
        /\ tx \in Queues /\ wire \in Transfers
        /\ k \in open /\ k \notin handled /\ k \in Requests
    BY DEF TypeOK, Queues, Fresh, PortAssumption
  <1>2. /\ open' \cap handled' = (open \cap handled) \cup {k}
        /\ open \cap handled \in SUBSET Requests /\ k \notin open \cap handled
    BY <1>1 DEF TypeOK
  <1>3. /\ Cardinality(open' \cap handled') = Cardinality(open \cap handled) + 1
        /\ Cardinality(open \cap handled) \in Nat
    BY <1>1, <1>2, OneMoreRequest
  <1>4. Cardinality(open' \cap handled') < TxDepth
    <2>1. open \cup Half \in SUBSET Requests
          /\ open' \cap handled' \in SUBSET (open \cup Half)
      BY DEF Half, TypeOK
    <2>2. /\ Cardinality(open' \cap handled') <= Cardinality(open \cup Half)
          /\ Cardinality(open' \cap handled') \in Nat
          /\ Cardinality(open \cup Half) \in Nat
      BY <2>1, FewerRequests
    <2> QED
      BY <2>2, SMT DEF Window, PortAssumption
  <1>5. CASE tx.fault \/ tx.count >= TxDepth
    <2>1. tx' = [tx EXCEPT !.fault = TRUE] /\ wire' = wire
      BY <1>5 DEF Enqueue
    <2>2. (tx'.active <=> tx.active) /\ tx'.count = tx.count
      BY <1>1, <2>1 DEF Queues
    <2>3. ~tx.active /\ wire.busy => tx.count <= Cardinality(open \cap handled) + 1
      BY <1>1, <1>3, SMT DEF Backlog
    <2> QED
      BY <1>3, <2>1, <2>2, <2>3 DEF Backlog
  <1>6. CASE ~(tx.fault \/ tx.count >= TxDepth)
    <2>1. q.count = tx.count + 1 /\ (q.active <=> tx.active)
      BY <1>1 DEF Queues
    <2>2. \/ tx.active /\ tx' = q
          \/ ~tx.active /\ ~wire.busy /\ tx' = [q EXCEPT !.active = TRUE]
          \/ ~tx.active /\ wire.busy /\ tx' = [q EXCEPT !.fault = TRUE]
      BY <1>6 DEF Enqueue, StartLocked
    <2>3. CASE tx.active /\ tx' = q
      BY <2>1, <2>3 DEF Backlog
    <2>4. CASE ~tx.active /\ ~wire.busy /\ tx' = [q EXCEPT !.active = TRUE]
      <3>1. tx'.active
        BY <1>1, <2>4 DEF Queues
      <3> QED
        BY <3>1 DEF Backlog
    <2>5. CASE ~tx.active /\ wire.busy /\ tx' = [q EXCEPT !.fault = TRUE]
      <3>1. tx'.count = tx.count + 1
        BY <1>1, <2>5 DEF Queues
      <3>2. tx.count <= Cardinality(open \cap handled)
        BY <2>5 DEF Backlog
      <3>3. tx'.count <= Cardinality(open' \cap handled') /\ tx'.count < TxDepth
        BY <1>1, <1>3, <1>4, <3>1, <3>2, SMT
      <3> QED
        BY <3>3 DEF Backlog
    <2> QED
      BY <2>2, <2>3, <2>4, <2>5
  <1> QED
    BY <1>5, <1>6

\* An empty queue has no backlog.
LEMMA BacklogDropped ==
    ASSUME PortAssumption, TypeOK, TypeOK', TxOnError PROVE Backlog'
  <1>1. tx'.count = 0
    BY DEF TxOnError, TypeOK, Queues
  <1>2. open' \cap handled' \in SUBSET Requests
    BY DEF TypeOK
  <1>3. Cardinality(open' \cap handled') \in Nat
    BY <1>2, RequestsFinite
  <1> QED
    BY <1>1, <1>3, SMT DEF Backlog, PortAssumption

\* The queue as it is, while the host waits for as many answers as before.
LEMMA BacklogQuiet ==
    ASSUME PortAssumption, TypeOK', Backlog, wire' = wire,
           tx'.active <=> tx.active, tx'.count = tx.count,
           open \cap handled \subseteq open' \cap handled', TypeOK
    PROVE  Backlog'
  <1>1. /\ open' \cap handled' \in SUBSET Requests
        /\ open \cap handled \in SUBSET (open' \cap handled')
    BY DEF TypeOK
  <1>2. /\ Cardinality(open \cap handled) \in Nat
        /\ Cardinality(open' \cap handled') \in Nat
        /\ Cardinality(open \cap handled) <= Cardinality(open' \cap handled')
    BY <1>1, FewerRequests
  <1>3. tx.count \in Int
    BY SMT DEF TypeOK, Queues, PortAssumption
  <1>4. ~tx.active /\ wire.busy => tx.count <= Cardinality(open' \cap handled')
    BY <1>2, <1>3, SMT DEF Backlog
  <1> QED
    BY <1>4 DEF Backlog

\* What is answered after Enqueue is what was, and the request itself.
LEMMA AnswersEnqueued ==
    ASSUME PortAssumption, TypeOK, AnswersOfHandled,
           NEW k \in Requests, Enqueue(k)
    PROVE  /\ \A s \in Slots : tx'.buf[s] \in handled \cup {k, Nobody}
           /\ wire'.answer \in handled \cup {k, Nobody}
  <1> DEFINE q == [tx EXCEPT !.buf[tx.tail] = k, !.tail = TxNext(@), !.count = @ + 1]
  <1>1. tx \in Queues /\ wire \in Transfers
    BY DEF TypeOK
  <1>2. /\ q.head \in Slots
        /\ \A s \in Slots : q.buf[s] \in handled \cup {k, Nobody}
    BY <1>1 DEF Queues, AnswersOfHandled
  <1>3. \/ tx' = [tx EXCEPT !.fault = TRUE] /\ wire' = wire
        \/ tx' = q /\ wire' = wire
        \/ tx' = [q EXCEPT !.fault = TRUE] /\ wire' = wire
        \/ /\ tx' = [q EXCEPT !.active = TRUE]
           /\ wire' = [busy |-> TRUE, slot |-> q.head, answer |-> q.buf[q.head]]
    BY DEF Enqueue, StartLocked, TransmitDMA
  <1>4. CASE tx' = [tx EXCEPT !.fault = TRUE] /\ wire' = wire
    BY <1>1, <1>4 DEF Queues, AnswersOfHandled
  <1>5. CASE tx' = q /\ wire' = wire
    BY <1>2, <1>5 DEF AnswersOfHandled
  <1>6. CASE tx' = [q EXCEPT !.fault = TRUE] /\ wire' = wire
    <2>1. tx'.buf = q.buf
      BY <1>1, <1>6 DEF Queues
    <2> QED
      BY <1>2, <1>6, <2>1 DEF AnswersOfHandled
  <1>7. CASE /\ tx' = [q EXCEPT !.active = TRUE]
             /\ wire' = [busy |-> TRUE, slot |-> q.head, answer |-> q.buf[q.head]]
    <2>1. tx'.buf = q.buf
      BY <1>1, <1>7 DEF Queues
    <2>2. wire'.answer = q.buf[q.head]
      BY <1>7
    <2> QED
      BY <1>2, <2>1, <2>2
  <1> QED
    BY <1>3, <1>4, <1>5, <1>6, <1>7

\* Every step of the host, the line and the loop keeps the queue from
\* filling up behind nothing.
LEMMA WedgeStep ==
    ASSUME PortAssumption, TypeOK, TypeOK', WedgeInv, [Next]_vars
    PROVE  WedgeInv'
  <1> USE DEF rxVars, loopVars
  <1>0. ComingOnce /\ AnswersOfHandled /\ Window /\ Backlog /\ open \subseteq Requests
    BY DEF WedgeInv, TypeOK
  <1>1. ASSUME UNCHANGED <<ring, rxHead, rxTail, parser, tx, wire, sent, open,
                           handled, told>>
        PROVE  WedgeInv'
    <2>1. Fresh' = Fresh /\ Begun' = Begun
      BY <1>1 DEF Fresh, Begun
    <2>2. ComingOnce'
      BY <1>0, <1>1, <2>1, ComingQuiet
    <2>3. AnswersOfHandled' /\ Window' /\ Backlog'
      BY <1>0, <1>1, <2>1 DEF AnswersOfHandled, Window, Half, Backlog
    <2> QED
      BY <2>2, <2>3 DEF WedgeInv
  <1>2. CASE UNCHANGED vars
    BY <1>1, <1>2 DEF vars
  <1>3. ASSUME HostMaySend, HostSends, UNCHANGED <<handled, told>>,
               tx'.buf = tx.buf, wire' = wire
        PROVE  AnswersOfHandled' /\ Window'
    <2>1. Begun \subseteq Begun'
      BY <1>3, NextByteFacts
    <2> QED
      BY <1>0, <1>3, <2>1, WindowSent DEF AnswersOfHandled
  <1>4. CASE ByteArrives
    <2>1. /\ HostMaySend /\ HostSends /\ UNCHANGED <<rxTail, parser, handled, told>>
          /\ tx' = tx /\ wire' = wire
          /\ \/ UNCHANGED <<ring, rxHead>>
             \/ /\ ~RingFull /\ rxHead' = RxNext(rxHead)
                /\ ring' = [ring EXCEPT ![rxHead] = NextByte]
      BY <1>4 DEF ByteArrives, Received
    <2>2. ComingOnce'
      BY <1>0, <2>1, ComingSent
    <2>3. open \cap handled \subseteq open' \cap handled'
      BY <2>1 DEF HostSends
    <2>4. Backlog'
      BY <1>0, <2>1, <2>3, BacklogQuiet
    <2> QED
      BY <1>3, <2>1, <2>2, <2>4 DEF WedgeInv
  <1>5. ASSUME TxOnError PROVE tx'.buf = tx.buf
    BY <1>5 DEF TxOnError, TypeOK, Queues
  <1>6. CASE ByteOverrun \/ ByteNoisy
    <2>1. /\ HostMaySend /\ HostSends /\ UNCHANGED <<rxTail, parser, handled, told>>
          /\ TxOnError /\ wire' = wire
          /\ \/ UNCHANGED <<ring, rxHead>>
             \/ /\ ~RingFull /\ rxHead' = RxNext(rxHead)
                /\ \E b \in {NextByte} \cup [of : {Nobody}, end : BOOLEAN] :
                      ring' = [ring EXCEPT ![rxHead] = b]
      BY <1>6 DEF ByteOverrun, ByteNoisy
    <2>2. ComingOnce'
      BY <1>0, <2>1, ComingSent
    <2>3. Backlog'
      BY <2>1, BacklogDropped
    <2> QED
      BY <1>3, <1>5, <2>1, <2>2, <2>3 DEF WedgeInv
  <1>7. CASE TransferFails
    <2>1. /\ TxOnError /\ wire' = [wire EXCEPT !.busy = FALSE]
          /\ UNCHANGED <<ring, rxHead, rxTail, parser, sent, open, handled, told>>
      BY <1>7 DEF TransferFails
    <2>2. Fresh' = Fresh /\ Begun' = Begun /\ Half' = Half
      BY <2>1 DEF Fresh, Begun, Half
    <2>3. ComingOnce' /\ Backlog'
      BY <1>0, <2>1, <2>2, ComingQuiet, BacklogDropped
    <2>4. wire'.answer = wire.answer
      BY <2>1 DEF TypeOK, Transfers
    <2>5. AnswersOfHandled' /\ Window'
      BY <1>0, <1>5, <2>1, <2>2, <2>4 DEF AnswersOfHandled, Window
    <2> QED
      BY <2>3, <2>5 DEF WedgeInv
  <1>8. CASE TransferEnds
    <2> DEFINE q == [tx EXCEPT !.head = TxNext(@), !.count = @ - 1, !.active = FALSE]
    <2>1. /\ wire.busy
          /\ UNCHANGED <<ring, rxHead, rxTail, parser, sent, handled, told>>
      BY <1>8 DEF TransferEnds
    <2>2. PICK d \in Delivered : open' = open \ {d}
      BY <1>8 DEF TransferEnds
    <2>3. wire.slot \in Slots /\ Delivered \subseteq handled \cup {Nobody}
      BY <1>0 DEF Delivered, AnswersOfHandled, TypeOK, Transfers
    <2>4. Begun' = Begun /\ Half' = Half /\ Nobody \notin Requests
      BY <2>1, SMT DEF Begun, Half, Nobody, Requests
    <2>5. Fresh \subseteq Fresh'
      BY <1>0, <2>1, <2>2, <2>3, <2>4 DEF Fresh
    <2>6. ComingOnce' /\ Window'
      BY <1>0, <2>1, <2>2, <2>5, ComingQuiet, WindowShrinks
    <2>7. CASE ~tx.active
      <3>1. tx' = tx /\ wire' = [wire EXCEPT !.busy = FALSE]
        BY <1>8, <2>7 DEF TransferEnds
      <3>2. ~wire'.busy /\ wire'.answer = wire.answer
        BY <3>1 DEF TypeOK, Transfers
      <3>3. AnswersOfHandled' /\ Backlog'
        BY <1>0, <2>1, <2>4, <3>1, <3>2 DEF AnswersOfHandled, Backlog
      <3> QED
        BY <2>6, <3>3 DEF WedgeInv
    <2>8. CASE tx.active
      <3>1. /\ q.buf = tx.buf /\ q.head \in Slots
            /\ ~q.active /\ q.count = tx.count - 1
        BY WrapNext DEF TypeOK, Queues, TxNext, Slots, PortAssumption
      <3>2. \/ q.count = 0 /\ tx' = q /\ wire' = [wire EXCEPT !.busy = FALSE]
            \/ /\ tx' = [q EXCEPT !.active = TRUE]
               /\ wire' = [busy |-> TRUE, slot |-> q.head, answer |-> q.buf[q.head]]
        BY <1>8, <2>8 DEF TransferEnds, StartLocked, TransmitDMA
      <3>3. CASE q.count = 0 /\ tx' = q /\ wire' = [wire EXCEPT !.busy = FALSE]
        <4>1. ~wire'.busy /\ wire'.answer = wire.answer
          BY <3>3 DEF TypeOK, Transfers
        <4>2. tx'.count < TxDepth /\ tx'.buf = tx.buf
          BY <3>1, <3>3, SMT DEF PortAssumption
        <4>3. AnswersOfHandled' /\ Backlog'
          BY <1>0, <2>1, <2>4, <4>1, <4>2 DEF AnswersOfHandled, Backlog
        <4> QED
          BY <2>6, <4>3 DEF WedgeInv
      <3>4. CASE /\ tx' = [q EXCEPT !.active = TRUE]
                 /\ wire' = [busy |-> TRUE, slot |-> q.head, answer |-> q.buf[q.head]]
        <4>1. tx'.active /\ tx'.buf = tx.buf
          BY <3>1, <3>4 DEF TypeOK, Queues
        <4>2. wire'.answer = tx.buf[q.head]
          BY <3>1, <3>4
        <4>3. AnswersOfHandled' /\ Backlog'
          BY <1>0, <2>1, <2>4, <3>1, <4>1, <4>2 DEF AnswersOfHandled, Backlog
        <4> QED
          BY <2>6, <4>3 DEF WedgeInv
      <3> QED
        BY <3>2, <3>3, <3>4
    <2> QED
      BY <2>7, <2>8
  <1>9. CASE HostGivesUp
    <2>1. /\ ~wire.busy
          /\ UNCHANGED <<ring, rxHead, rxTail, parser, tx, wire, sent, handled, told>>
      BY <1>9 DEF HostGivesUp
    <2>2. PICK k \in open \cap (handled \cup told) : open' = open \ {k}
      BY <1>9 DEF HostGivesUp
    <2>3. Fresh' = Fresh /\ Begun' = Begun
      BY <2>1, <2>2 DEF Fresh, Begun
    <2>4. ComingOnce' /\ Window'
      BY <1>0, <2>1, <2>2, <2>3, ComingQuiet, WindowShrinks
    <2>5. AnswersOfHandled' /\ Backlog'
      BY <1>0, <2>1, <2>3 DEF AnswersOfHandled, Backlog
    <2> QED
      BY <2>4, <2>5 DEF WedgeInv
  <1>10. ASSUME TakeRxFault,
                UNCHANGED <<ring, rxHead, tx, wire, sent, open, handled>>,
                IF rxFault THEN HostUartError
                           ELSE UNCHANGED <<parser, latched, told, gap>>
         PROVE  WedgeInv'
    <2>1. CASE ~rxFault
      BY <1>1, <1>10, <2>1 DEF TakeRxFault
    <2>2. CASE rxFault
      <3>1. rxTail' = rxHead /\ parser' = Empty /\ told' = Begun
        BY <1>10, <2>2 DEF TakeRxFault, HostUartError
      <3>2. Begun' = Begun /\ Half' = Half
        BY <1>10 DEF Begun, Half
      <3>3. ComingOnce'
        BY <1>10, <3>1, ComingDrops
      <3>4. AnswersOfHandled' /\ Window' /\ Backlog'
        BY <1>0, <1>10, <3>1, <3>2 DEF AnswersOfHandled, Window, Backlog
      <3> QED
        BY <3>3, <3>4 DEF WedgeInv
    <2> QED
      BY <2>1, <2>2
  <1>11. CASE PassStarts
    BY <1>10, <1>11 DEF PassStarts
  <1>12. CASE BurstEnds
    BY <1>10, <1>12 DEF BurstEnds
  <1>13. CASE ParseByte
    <2>1. UNCHANGED <<ring, rxHead, sent, open, told>> /\ Begun' = Begun /\ Half' = Half
      BY <1>13 DEF ParseByte, Begun, Half
    <2>2. ComingOnce' /\ Window'
      BY <1>0, <1>13, <2>1, ComingParsed DEF Window
    <2>3. \/ UNCHANGED <<tx, wire, handled>>
          \/ parser \in Requests /\ handled' = handled \cup {parser} /\ Enqueue(parser)
      BY <1>13 DEF ParseByte, Handle
    <2>4. CASE UNCHANGED <<tx, wire, handled>>
      BY <1>0, <2>1, <2>2, <2>4 DEF WedgeInv, AnswersOfHandled, Backlog
    <2>5. CASE parser \in Requests /\ handled' = handled \cup {parser} /\ Enqueue(parser)
      <3>1. parser \in Fresh /\ parser \in Begun
        BY <1>0, <2>5 DEF ComingOnce, Fresh
      <3>2. Backlog'
        BY <1>0, <2>1, <2>2, <2>5, <3>1, BacklogEnqueued
      <3>3. AnswersOfHandled'
        BY <1>0, <2>1, <2>5, <3>1, AnswersEnqueued DEF AnswersOfHandled
      <3> QED
        BY <2>2, <3>2, <3>3 DEF WedgeInv
    <2> QED
      BY <2>3, <2>4, <2>5
  <1>14. CASE Service
    <2>1. /\ UNCHANGED <<ring, rxHead, rxTail, parser, wire, sent, open, handled, told>>
          /\ tx' = [tx EXCEPT !.fault = FALSE]
      BY <1>14 DEF Service
    <2>2. Fresh' = Fresh /\ Begun' = Begun /\ Half' = Half
      BY <2>1 DEF Fresh, Begun, Half
    <2>3. tx'.buf = tx.buf /\ (tx'.active <=> tx.active) /\ tx'.count = tx.count
      BY <2>1 DEF TypeOK, Queues
    <2>4. ComingOnce' /\ AnswersOfHandled' /\ Window' /\ Backlog'
      BY <1>0, <2>1, <2>2, <2>3, ComingQuiet
         DEF AnswersOfHandled, Window, Backlog
    <2> QED
      BY <2>4 DEF WedgeInv
  <1> QED
    BY <1>2, <1>4, <1>6, <1>7, <1>8, <1>9, <1>11, <1>12, <1>13, <1>14
       DEF Next, Interrupt, Loop

\* At the start nothing is on its way and nothing is queued.
LEMMA WedgeInit == ASSUME PortAssumption, Init PROVE WedgeInv
  <1>1. TypeOK
    BY InitTyped
  <1>2. \A i \in 0 .. RingSize - 1 : ~ (ring[i].of \in Requests)
    BY SMT DEF Init, NoByte, Nobody, Requests
  <1>3. ComingOnce
    BY <1>2, SMT DEF Init, ComingOnce, Body, Empty, Requests
  <1>4. AnswersOfHandled
    BY DEF Init, AnswersOfHandled
  <1>5. open \cup Half = {} /\ open \cap handled = {}
    BY SMT DEF Init, Half, Requests
  <1>6. Cardinality(open \cup Half) = 0
    BY <1>5, FS_EmptySet
  <1>7. Window /\ Backlog
    BY <1>5, <1>6, SMT DEF Init, Window, Backlog, PortAssumption
  <1> QED
    BY <1>3, <1>4, <1>7 DEF WedgeInv

\* A full queue is being sent: there is always an end of a transfer to come
\* that makes room, whatever errors the line had (host_uart_tx.c:86, 103).
THEOREM QueueNeverWedged == Spec => []NeverWedged
  <1>1. Init => WedgeInv
    BY PortAssumption, WedgeInit
  <1>2. IInv /\ IInv' /\ WedgeInv /\ [Next]_vars => WedgeInv'
    BY PortAssumption, WedgeStep DEF IInv
  <1>3. WedgeInv => NeverWedged
    <2>1. tx.count < TxDepth => tx.count # TxDepth
      BY PortAssumption, SMT DEF PortAssumption
    <2> QED
      BY <2>1 DEF WedgeInv, Backlog, NeverWedged
  <1> QED
    BY <1>1, <1>2, <1>3, PortInvariant, PTL DEF Spec
=============================================================================
