-------------------------- MODULE SelectLoop_proofs --------------------------
(***************************************************************************)
(* The loop of SelectLoop for any texts, any descriptors and any size of   *)
(* the buffer: it keeps its types, never blocks, and implements the safety *)
(* half of DatagramService.  That no socket starves (ServesBoth) is left   *)
(* to TLC.                                                                 *)
(***************************************************************************)
EXTENDS SelectLoop, Induction_proofs, SequenceTheorems

Texts == UNION Range(Datagrams)

\* The buffer ends with a NUL, and is empty when the SIP socket, the first one,
\* is about to be read.  Behind a SIP message it may hold anything.
BufferOK ==
    /\ buffer[Size] = NUL
    /\ next = 1 => buffer = ClearedBuffer

\* The kernel's queues and the two descriptors.
KernelOK ==
    /\ queue \in [Sockets -> Seq(Texts)]
    /\ fd["sip"] # fd["client"]

Inv == TypeOK /\ KernelOK /\ NeverBlocks /\ BufferOK

-----------------------------------------------------------------------------
(* What is queued. *)

\* The datagrams of each socket, and the characters they are made of.
LEMMA DatagramFacts ==
    ASSUME NEW s \in Sockets, NEW d \in Datagrams[s]
    PROVE  /\ d \in Texts
           /\ d \in Seq(Characters)
           /\ Len(d) \in Nat /\ Len(d) < Size
           /\ \A i \in 1 .. Len(d) : d[i] # NUL
           /\ s = "client" => \E i \in 1 .. Len(d) : d[i] = EOL
<1>1. DOMAIN Datagrams = Sockets
  BY DEF Datagrams
<1>2. d \in Texts
  BY <1>1 DEF Texts, Range
<1>3. d \in Seq(Range(d)) /\ Len(d) < Size /\ NUL \notin Range(d)
  BY TextAssumption
<1>4. Range(d) \subseteq Characters
  BY <1>2 DEF Texts, Characters
<1>5. d \in Seq(Characters)
  BY <1>3, <1>4
<1>6. s = "client" => d \in ClientDatagrams
  BY DEF Datagrams, Sockets
<1> QED BY <1>2, <1>3, <1>5, <1>6, LineAssumption DEF Range

-----------------------------------------------------------------------------
(* What is read. *)

Buffers == {buf \in [1 .. Size -> Characters] : buf[Size] = NUL}

\* The first NUL of a buffer is where its string ends.
LEMMA TerminatorIs ==
    ASSUME NEW buf, NEW k \in 1 .. Size,
           buf[k] = NUL, \A j \in 1 .. k - 1 : buf[j] # NUL
    PROVE  Terminator(buf) = k
<1> DEFINE First(i) == buf[i] = NUL /\ \A j \in 1 .. i - 1 : buf[j] # NUL
<1>1. Size \in Nat
  BY BoundsAssumption
<1>2. First(k)
  OBVIOUS
<1>3. \A i \in 1 .. Size : First(i) => i = k
  BY <1>1
<1> QED BY <1>2, <1>3 DEF Terminator

\* A buffer that ends with a NUL has a first one.
LEMMA TerminatorFound ==
    ASSUME NEW buf \in Buffers
    PROVE  /\ Terminator(buf) \in 1 .. Size
           /\ buf[Terminator(buf)] = NUL
           /\ \A j \in 1 .. Terminator(buf) - 1 : buf[j] # NUL
<1> DEFINE M == {i \in 1 .. Size : buf[i] = NUL}
<1>1. Size \in 1 .. Size /\ Size \in M
  BY BoundsAssumption DEF Buffers
<1>2. PICK k \in 1 .. Size : k \in M /\ \A j \in 1 .. k - 1 : j \notin M
  <2> HIDE DEF M
  <2> QED BY <1>1, BoundsAssumption, FirstMarked, SMTT(30)
<1>3. buf[k] = NUL /\ \A j \in 1 .. k - 1 : buf[j] # NUL
  BY <1>2, BoundsAssumption
<1>4. Terminator(buf) = k
  BY <1>3, TerminatorIs
<1> QED BY <1>3, <1>4

\* What is received goes over the front of the buffer and leaves its last NUL.
LEMMA ReceivedBuffer ==
    ASSUME NEW s \in Sockets, NEW d \in Datagrams[s], NEW buf \in Buffers
    PROVE  /\ UdpReceive(buf, d) \in Buffers
           /\ Callback(s, UdpReceive(buf, d)) \in Buffers
<1>1. Size \in Nat /\ Size \in 1 .. Size
  BY BoundsAssumption
<1>2. \A i \in 1 .. Len(d) : d[i] \in Characters
  BY DatagramFacts
<1>3. UdpReceive(buf, d) \in Buffers
  BY <1>1, <1>2, DatagramFacts DEF UdpReceive, Buffers
<1>4. \A b \in Buffers : RemoveTailingCRLF(b) \in Buffers
  BY <1>1 DEF RemoveTailingCRLF, Buffers, Characters
<1> QED BY <1>3, <1>4 DEF Callback

\* The string of a buffer with the first NUL behind n characters of d.
LEMMA CStringIs ==
    ASSUME NEW buf \in Buffers, NEW d \in Seq(Characters),
           NEW n \in 0 .. Len(d), n < Size, buf[n + 1] = NUL,
           \A i \in 1 .. n : buf[i] = d[i] /\ d[i] # NUL
    PROVE  CString(buf) = SubSeq(d, 1, n)
<1>1. n + 1 \in 1 .. Size /\ \A j \in 1 .. (n + 1) - 1 : buf[j] # NUL
  BY BoundsAssumption
<1>2. Terminator(buf) = n + 1
  BY <1>1, TerminatorIs
<1>3. CString(buf) = SubSeq(buf, 1, n)
  BY <1>2 DEF CString
<1>4. SubSeq(buf, 1, n) = SubSeq(d, 1, n)
  <2>1. \A i \in 1 .. n : buf[i] \in Characters /\ d[i] \in Characters
    BY <1>1 DEF Buffers
  <2>2. /\ SubSeq(buf, 1, n) \in Seq(Characters) /\ SubSeq(d, 1, n) \in Seq(Characters)
        /\ Len(SubSeq(buf, 1, n)) = n /\ Len(SubSeq(d, 1, n)) = n
        /\ \A i \in 1 .. n : SubSeq(buf, 1, n)[i] = buf[i] /\ SubSeq(d, 1, n)[i] = d[i]
    BY <2>1, SubSeqProperties
  <2> QED BY <2>2, SeqEqual
<1> QED BY <1>3, <1>4

\* A SIP message received into a cleared buffer is read whole.
LEMMA SipIsRead ==
    ASSUME NEW d \in Datagrams["sip"]
    PROVE  CString(Callback("sip", UdpReceive(ClearedBuffer, d))) = Text("sip", d)
<1> DEFINE buf == UdpReceive(ClearedBuffer, d)
<1>1. "sip" \in Sockets /\ ClearedBuffer \in Buffers
  BY BoundsAssumption DEF Sockets, ClearedBuffer, Buffers, Characters
<1>2. buf \in Buffers
  BY <1>1, ReceivedBuffer
<1>3. /\ buf[Len(d) + 1] = NUL
      /\ \A i \in 1 .. Len(d) : buf[i] = d[i] /\ d[i] # NUL
  BY <1>1, DatagramFacts, BoundsAssumption DEF UdpReceive, ClearedBuffer
<1>4. CString(buf) = SubSeq(d, 1, Len(d))
  <2> HIDE DEF buf
  <2> QED BY <1>1, <1>2, <1>3, DatagramFacts, CStringIs
<1>5. SubSeq(d, 1, Len(d)) = d
  BY <1>1, DatagramFacts, SubSeqFull
<1> QED BY <1>4, <1>5 DEF Callback, Text

\* A command received over anything is read up to its own line end: behind it
\* there may be the rest of a SIP message.
LEMMA ClientIsRead ==
    ASSUME NEW d \in Datagrams["client"], NEW old \in Buffers
    PROVE  CString(Callback("client", UdpReceive(old, d))) = Text("client", d)
<1> DEFINE got == UdpReceive(old, d)
           buf == Callback("client", got)
           EndsAt(i) == d[i] = EOL /\ \A j \in 1 .. i - 1 : d[j] # EOL
           M == {i \in 1 .. Len(d) : d[i] = EOL}
<1>1. "client" \in Sockets
  BY DEF Sockets
<1>2. got \in Buffers /\ buf \in Buffers
  BY <1>1, ReceivedBuffer
<1>3. PICK k \in 1 .. Len(d) : k \in M /\ \A j \in 1 .. k - 1 : j \notin M
  <2>1. Len(d) \in Nat /\ \E i \in 1 .. Len(d) : i \in M
    BY <1>1, DatagramFacts
  <2> HIDE DEF M
  <2> QED BY <2>1, FirstMarked
<1>4. EndsAt(k) /\ \A i \in DOMAIN d : EndsAt(i) => i = k
  BY <1>1, <1>3, DatagramFacts
<1>5. Text("client", d) = SubSeq(d, 1, k - 1)
  BY <1>3, <1>4 DEF Text
<1>6. \A i \in 1 .. Len(d) : i \in 1 .. Size /\ got[i] = d[i] /\ d[i] # NUL
  BY <1>1, DatagramFacts, BoundsAssumption DEF UdpReceive
<1>7. Len(d) < Terminator(got)
  BY <1>1, <1>2, <1>6, TerminatorFound, DatagramFacts
<1>8. /\ buf[k] = NUL
      /\ \A i \in 1 .. k - 1 : buf[i] = d[i] /\ d[i] # NUL
  <2> HIDE DEF got
  <2>1. \A i \in 1 .. Len(d) : buf[i] = IF d[i] = EOL THEN NUL ELSE d[i]
    <3>1. Terminator(got) \in 1 .. Size /\ Len(d) \in Nat /\ Size \in Nat
      BY <1>1, <1>2, TerminatorFound, DatagramFacts, BoundsAssumption
    <3>2. \A i \in 1 .. Len(d) : i < Terminator(got)
      BY <1>7, <3>1
    <3> QED BY <1>6, <3>2 DEF Callback, RemoveTailingCRLF
  <2> QED BY <1>3, <1>4, <1>6, <2>1
<1>9. CString(buf) = SubSeq(d, 1, k - 1)
  <2>1. k - 1 \in 0 .. Len(d) /\ k - 1 < Size /\ (k - 1) + 1 = k
    BY <1>1, DatagramFacts, BoundsAssumption
  <2>2. d \in Seq(Characters)
    BY <1>1, DatagramFacts
  <2> HIDE DEF buf
  <2> QED BY <1>2, <1>8, <2>1, <2>2, CStringIs
<1> QED BY <1>5, <1>9

-----------------------------------------------------------------------------
(* The invariant. *)

\* The two transporters in their order.
LEMMA Transporters ==
    /\ Len(TransporterManagerInit) = 2 /\ DOMAIN TransporterManagerInit = {1, 2}
    /\ TransporterManagerInit[1] = "sip" /\ TransporterManagerInit[2] = "client"
    /\ Sockets = {"sip", "client"}
BY DEF TransporterManagerInit, Sockets

\* A receive takes the oldest datagram of the socket in turn.
LEMMA ReceiveFacts ==
    ASSUME Inv, ReceiveAndHandle
    PROVE  LET s == TransporterManagerInit[next] IN
           /\ s \in Sockets /\ next \in {1, 2} /\ (s = "sip" <=> next = 1)
           /\ Head(queue[s]) \in Datagrams[s]
           /\ queue' = [queue EXCEPT ![s] = Tail(@)]
           /\ queue[s] # <<>> /\ queue[s] \in Seq(Texts)
           /\ Tail(queue[s]) \in Seq(Texts)
           /\ Len(Tail(queue[s])) < Len(queue[s])
           /\ Range(Tail(queue[s])) \subseteq Range(queue[s])
<1> DEFINE s == TransporterManagerInit[next]
<1>1. next \in {1, 2} /\ s \in Sockets /\ (s = "sip" <=> next = 1)
  BY Transporters DEF ReceiveAndHandle, Inv, TypeOK
<1>2. queue[s] # <<>> /\ queue' = [queue EXCEPT ![s] = Tail(@)]
  BY DEF ReceiveAndHandle
<1>3. queue[s] \in Seq(Texts) /\ Range(queue[s]) \subseteq Datagrams[s]
  BY <1>1 DEF Inv, TypeOK, KernelOK
<1>4. /\ Head(queue[s]) = queue[s][1] /\ 1 \in DOMAIN queue[s]
      /\ Tail(queue[s]) \in Seq(Texts)
      /\ Len(Tail(queue[s])) = Len(queue[s]) - 1
      /\ \A i \in 1 .. Len(Tail(queue[s])) : Tail(queue[s])[i] = queue[s][i + 1]
  BY <1>2, <1>3
<1>5. Range(Tail(queue[s])) \subseteq Range(queue[s])
  BY <1>3, <1>4 DEF Range
<1>6. Head(queue[s]) \in Datagrams[s]
  BY <1>3, <1>4 DEF Range
<1> QED BY <1>1, <1>2, <1>3, <1>4, <1>5, <1>6

\* The descriptors select answers with belong to sockets with a datagram.
LEMMA SelectedFacts ==
    ASSUME Inv, NEW nfds
    PROVE  /\ Select(nfds, FillFdset) \subseteq Range(fd)
           /\ \A s \in Sockets : fd[s] \in Select(nfds, FillFdset) => queue[s] # <<>>
<1>1. \A s, t \in Sockets : fd[s] = fd[t] => s = t
  BY Transporters DEF Inv, KernelOK
<1> QED BY <1>1 DEF Select, FillFdset

\* The invariant holds before the loop.
LEMMA InitInv == Init => Inv
<1> SUFFICES ASSUME Init PROVE Inv
  OBVIOUS
<1>1. ClearedBuffer \in Buffers
  BY BoundsAssumption DEF ClearedBuffer, Buffers, Characters
<1>2. queue \in [Sockets -> Seq(Texts)] /\ \A s \in Sockets : queue[s] = <<>>
  BY DEF Init
<1>3. \A s \in Sockets : Len(queue[s]) <= Capacity /\ Range(queue[s]) \subseteq Datagrams[s]
  BY <1>2, BoundsAssumption DEF Range
<1>4. TypeOK
  BY <1>1, <1>3, Transporters DEF Init, TypeOK, Buffers
<1>5. KernelOK /\ NeverBlocks /\ BufferOK
  BY <1>1, <1>2 DEF Init, KernelOK, NeverBlocks, BufferOK, Buffers
<1> QED BY <1>4, <1>5 DEF Inv

\* A new datagram leaves the invariant.
LEMMA ArriveInv ==
    ASSUME Inv, NEW s \in Sockets, NEW d \in Datagrams[s], Arrive(s, d)
    PROVE  Inv'
<1>1. /\ queue' = [queue EXCEPT ![s] = Append(@, d)]
      /\ Len(queue[s]) < Capacity
      /\ UNCHANGED <<fd, ready, next, buffer, served>>
  BY DEF Arrive
<1>2. queue \in [Sockets -> Seq(Texts)] /\ d \in Texts
  BY DatagramFacts DEF Inv, KernelOK
<1>3. queue'[s] = Append(queue[s], d) /\ \A t \in Sockets \ {s} : queue'[t] = queue[t]
  BY <1>1, <1>2
<1>4. /\ queue'[s] \in Seq(Texts) /\ queue'[s] # <<>>
      /\ Len(queue'[s]) = Len(queue[s]) + 1
      /\ \A i \in DOMAIN queue'[s] :
           \/ queue'[s][i] = d
           \/ i \in DOMAIN queue[s] /\ queue'[s][i] = queue[s][i]
  BY <1>2, <1>3, AppendProperties
<1>5. Len(queue'[s]) <= Capacity /\ Range(queue'[s]) \subseteq Datagrams[s]
  <2>1. Len(queue[s]) + 1 <= Capacity
    BY <1>1, <1>2, BoundsAssumption
  <2>2. Range(queue[s]) \subseteq Datagrams[s]
    BY DEF Inv, TypeOK
  <2> QED BY <1>4, <2>1, <2>2 DEF Range
<1>6. TypeOK'
  BY <1>1, <1>3, <1>5 DEF Inv, TypeOK
<1>7. KernelOK'
  BY <1>1, <1>2, <1>3, <1>4 DEF Inv, KernelOK
<1>8. NeverBlocks'
  BY <1>1, <1>3, <1>4, Transporters DEF Inv, NeverBlocks
<1>9. BufferOK'
  BY <1>1 DEF Inv, BufferOK, ClearedBuffer
<1> QED BY <1>6, <1>7, <1>8, <1>9 DEF Inv

\* Select answers for the queues as they are: nothing was visited since.
LEMMA BeginTurnInv ==
    ASSUME Inv, BeginTurn
    PROVE  Inv'
<1>1. /\ ready' = Select(GetMaxFd + 1, FillFdset)
      /\ next' = 1 /\ buffer' = ClearedBuffer
      /\ UNCHANGED <<fd, queue, served>>
  BY DEF BeginTurn
<1>2. ClearedBuffer \in Buffers
  BY BoundsAssumption DEF ClearedBuffer, Buffers, Characters
<1>3. TypeOK'
  BY <1>1, <1>2, SelectedFacts, Transporters DEF Inv, TypeOK, Buffers
<1>4. KernelOK' /\ NeverBlocks'
  BY <1>1, SelectedFacts, Transporters DEF Inv, KernelOK, NeverBlocks
<1>5. BufferOK'
  BY <1>1, <1>2 DEF BufferOK, Buffers, ClearedBuffer
<1> QED BY <1>3, <1>4, <1>5 DEF Inv

\* The transporters after the one just visited are still to come.
LEMMA AfterFacts ==
    ASSUME next \in {1, 2}
    PROVE  After(next) = (IF next = 1 THEN 2 ELSE 0)
BY Transporters DEF After

\* A visit that finds nothing to read.
LEMMA SkipInv ==
    ASSUME Inv, Skip
    PROVE  Inv'
<1>1. next \in {1, 2} /\ next' = After(next) /\ UNCHANGED <<fd, queue, ready, buffer, served>>
  BY Transporters DEF Skip, Inv, TypeOK
<1>2. TypeOK' /\ KernelOK'
  BY <1>1, AfterFacts, Transporters DEF Inv, TypeOK, KernelOK
<1>3. NeverBlocks' /\ BufferOK'
  BY <1>1, AfterFacts, Transporters DEF Inv, NeverBlocks, BufferOK, ClearedBuffer
<1> QED BY <1>2, <1>3 DEF Inv

\* A visit that reads: only the queue of the socket just visited gets shorter, and
\* the visits still to come are those of the other one.
LEMMA ReceiveAndHandleInv ==
    ASSUME Inv, ReceiveAndHandle
    PROVE  Inv'
<1> DEFINE s == TransporterManagerInit[next]
           d == Head(queue[s])
<1>1. /\ s \in Sockets /\ next \in {1, 2} /\ (s = "sip" <=> next = 1)
      /\ d \in Datagrams[s]
      /\ queue' = [queue EXCEPT ![s] = Tail(@)]
      /\ queue[s] \in Seq(Texts) /\ Tail(queue[s]) \in Seq(Texts)
      /\ Len(Tail(queue[s])) < Len(queue[s])
      /\ Range(Tail(queue[s])) \subseteq Range(queue[s])
  BY ReceiveFacts
<1>2. /\ buffer' = Callback(s, UdpReceive(buffer, d))
      /\ served' = [socket |-> s, text |-> CString(buffer')]
      /\ next' = After(next) /\ UNCHANGED <<fd, ready>>
  BY DEF ReceiveAndHandle
<1>3. buffer' \in Buffers
  <2>1. buffer \in Buffers
    BY DEF Inv, TypeOK, BufferOK, Buffers
  <2> HIDE DEF d
  <2> QED BY <1>1, <1>2, <2>1, ReceivedBuffer
<1> HIDE DEF d
<1>4. queue'[s] = Tail(queue[s]) /\ \A t \in Sockets \ {s} : queue'[t] = queue[t]
  BY <1>1 DEF Inv, KernelOK
<1>5. Len(queue'[s]) <= Capacity /\ Range(queue'[s]) \subseteq Datagrams[s]
  <2>1. Len(queue[s]) <= Capacity /\ Range(queue[s]) \subseteq Datagrams[s]
    BY <1>1 DEF Inv, TypeOK
  <2>2. {Len(queue[s]), Len(Tail(queue[s])), Capacity} \subseteq Nat
    BY <1>1, BoundsAssumption
  <2> QED BY <1>1, <1>4, <2>1, <2>2
<1>6. TypeOK'
  BY <1>1, <1>2, <1>3, <1>4, <1>5, AfterFacts, Transporters DEF Inv, TypeOK, Buffers
<1>7. KernelOK'
  BY <1>1, <1>2, <1>4 DEF Inv, KernelOK
<1>8. NeverBlocks'
  BY <1>1, <1>2, <1>4, AfterFacts, Transporters DEF Inv, NeverBlocks
<1>9. BufferOK'
  BY <1>1, <1>2, <1>3, AfterFacts DEF BufferOK, Buffers
<1> QED BY <1>6, <1>7, <1>8, <1>9 DEF Inv

\* The invariant is inductive.
LEMMA NextInv == Inv /\ [Next]_vars => Inv'
<1> SUFFICES ASSUME Inv, [Next]_vars PROVE Inv'
  OBVIOUS
<1>1. CASE UNCHANGED vars
  BY <1>1 DEF vars, Inv, TypeOK, KernelOK, NeverBlocks, BufferOK, ClearedBuffer
<1>2. CASE Loop
  BY <1>2, BeginTurnInv, SkipInv, ReceiveAndHandleInv DEF Loop
<1>3. ASSUME NEW s \in Sockets, NEW d \in Datagrams[s], Arrive(s, d)
      PROVE  Inv'
  BY <1>3, ArriveInv
<1> QED BY <1>1, <1>2, <1>3 DEF Next

\* It holds of every turn of the loop (Init.c, TransporterManager.c, Udp.c).
THEOREM InvHolds == Spec => []Inv
BY InitInv, NextInv, PTL DEF Spec

-----------------------------------------------------------------------------
(* The results. *)

\* Every variable keeps its type, whatever arrives and when: the loop stays within
\* its transporters and the buffer keeps its size.
THEOREM TypeCorrect == Spec => []TypeOK
<1>1. Inv => TypeOK
  BY DEF Inv
<1> QED BY <1>1, InvHolds, PTL

\* The answer of select may be old when a socket's turn comes, but a descriptor in
\* it still has a datagram: the process never hangs in recvfrom
\* (TransporterManager.c:95, Init.c:28).
THEOREM LoopNeverBlocks == Spec => []NeverBlocks
<1>1. Inv => NeverBlocks
  BY DEF Inv
<1> QED BY <1>1, InvHolds, PTL

\* A step of the loop hands one datagram, the oldest of its socket, whole to its
\* handler, or changes nothing the service shows.
LEMMA StepServes ==
    ASSUME Inv, [Next]_vars
    PROVE  [Service!ServiceNext]_(Service!serviceVars)
<1> USE DEF Service!ServiceNext, Service!serviceVars
<1>1. CASE UNCHANGED vars
  BY <1>1 DEF vars
<1>2. CASE BeginTurn
  BY <1>2 DEF BeginTurn
<1>3. CASE Skip
  BY <1>3 DEF Skip
<1>4. CASE ReceiveAndHandle
  <2> DEFINE s == TransporterManagerInit[next]
             d == Head(queue[s])
  <2>1. s \in Sockets /\ (s = "sip" <=> next = 1) /\ d \in Datagrams[s]
    BY <1>4, ReceiveFacts
  <2>2. buffer \in Buffers /\ (s = "sip" => buffer = ClearedBuffer)
    BY <2>1 DEF Inv, TypeOK, BufferOK, Buffers
  <2>3. CString(Callback(s, UdpReceive(buffer, d))) = Text(s, d)
    <3>1. s = "sip" \/ s = "client"
      BY <2>1, Transporters
    <3> HIDE DEF d, s
    <3> QED BY <2>1, <2>2, <3>1, SipIsRead, ClientIsRead
  <2>4. Service!Serve(s)
    BY <1>4, <2>3 DEF ReceiveAndHandle, Service!Serve
  <2> QED BY <2>1, <2>4
<1>5. ASSUME NEW s \in Sockets, NEW d \in Datagrams[s], Arrive(s, d)
      PROVE  Service!Arrive(s, d)
  BY <1>5 DEF Arrive, Service!Arrive
<1> QED BY <1>1, <1>2, <1>3, <1>4, <1>5 DEF Next, Loop

\* The loop implements the safety half of DatagramService: every datagram is
\* handled once, in its order, as the text it was sent as
\* (TransporterManager.c:86-100, StringExt.c:13).
THEOREM ImplementsService == Spec => ServesInOrder
<1>1. Init => Service!ServiceInit
  BY DEF Init, Service!ServiceInit
<1>2. Inv /\ [Next]_vars => [Service!ServiceNext]_(Service!serviceVars)
  BY StepServes
<1> QED BY <1>1, <1>2, InvHolds, PTL DEF Spec, ServesInOrder, Service!ServiceSafety
=============================================================================
