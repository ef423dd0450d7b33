----------------------------- MODULE SelectLoop -----------------------------
(***************************************************************************)
(* The loop of InitStack (Init.c) over TransporterManager.c and Udp.c.     *)
(*                                                                         *)
(* A turn asks the kernel which descriptors can be read, clears ONE buffer *)
(* and visits the transporters in the order they were added: the datagram  *)
(* of a ready one is received into the buffer, over what is already there, *)
(* and its handler is called on the C string the buffer then holds.  The   *)
(* kernel queues datagrams at any moment, also in the middle of a turn.    *)
(*                                                                         *)
(* A buffer is a sequence of Size characters.  Of a character it matters   *)
(* whether it is NUL or ends a line; one line end stands for CR LF.        *)
(***************************************************************************)
EXTENDS SequencesExt, FiniteSets, Integers

CONSTANTS SipDatagrams,     \* what peers send to the SIP port
          ClientDatagrams,  \* what the client process sends to its port
          Descriptors,      \* the descriptors socket() may return
          Size,             \* of the buffer (MAX_MESSAGE_LENGTH)
          Capacity          \* bound: the datagrams a socket holds

NUL == "NUL"
EOL == "EOL"

Sockets == {"sip", "client"}

Datagrams == [s \in Sockets |-> IF s = "sip" THEN SipDatagrams ELSE ClientDatagrams]

ASSUME BoundsAssumption ==
    /\ {Size, Capacity} \subseteq Nat \ {0}
    /\ Descriptors \subseteq Nat /\ Cardinality(Descriptors) >= 2

\* Datagrams are text, and shorter than the buffer: a datagram of Size or more
\* leaves it without a NUL, and what the handlers then read is not known.
ASSUME TextAssumption ==
    \A s \in Sockets : \A d \in Datagrams[s] :
        d \in Seq(Range(d)) /\ Len(d) < Size /\ NUL \notin Range(d)

\* A message of the client is a line (BuildClientMessage).
ASSUME LineAssumption ==
    \A d \in ClientDatagrams : \E i \in DOMAIN d : d[i] = EOL

VARIABLES
    fd,         \* the descriptor of each transporter
    queue,      \* what the kernel holds for each socket
    ready,      \* the descriptor set after select
    next,       \* the transporter to visit next, 0 between two turns
    buffer,     \* the buffer of ReceiveMessages
    served      \* the last handler called and the text it read

vars == <<fd, queue, ready, next, buffer, served>>

-----------------------------------------------------------------------------
(* TransporterManager.c *)

\* TransporterManagerInit: the transporters in the order they are added.
TransporterManagerInit == <<"sip", "client">>

\* FAULT: the descriptor of the last transporter is taken for the greatest.
GetMaxFdOfLast == fd[Last(TransporterManagerInit)]

\* GetMaxFd, of the descriptors of all transporters.
GetMaxFd == CHOOSE max \in Range(fd) : \A f \in Range(fd) : f <= max

\* FillFdset.
FillFdset == Range(fd)

\* select: of the first nfds descriptors those of the set that have a datagram.
Select(nfds, fdset) ==
    {f \in fdset : f < nfds /\ \E s \in Sockets : fd[s] = f /\ queue[s] # <<>>}

-----------------------------------------------------------------------------
(* Udp.c, StringExt.c and the handlers *)

ClearedBuffer == [i \in 1 .. Size |-> NUL]

\* UdpReceive: the bytes of the datagram and nothing after them are written.
UdpReceive(buf, d) == [i \in 1 .. Size |-> IF i <= Len(d) THEN d[i] ELSE buf[i]]

\* The place of the NUL that ends the C string of a buffer.
Terminator(buf) ==
    CHOOSE i \in 1 .. Size : buf[i] = NUL /\ \A j \in 1 .. i - 1 : buf[j] # NUL

CString(buf) == SubSeq(buf, 1, Terminator(buf) - 1)

\* FAULT: the line end at the end of the string, and no other, is removed.
RemoveTailingCRLFOnly(buf) ==
    [i \in 1 .. Size |->
        IF i = Terminator(buf) - 1 /\ buf[i] = EOL THEN NUL ELSE buf[i]]

\* RemoveTailingCRLF: every line end of the string becomes a NUL.
RemoveTailingCRLF(buf) ==
    [i \in 1 .. Size |->
        IF i < Terminator(buf) /\ buf[i] = EOL THEN NUL ELSE buf[i]]

\* What the callback of a transporter makes of the buffer before it reads it:
\* SipMessageCallback copies it, ParseClientMessage removes line ends in place.
Callback(s, buf) == IF s = "client" THEN RemoveTailingCRLF(buf) ELSE buf

-----------------------------------------------------------------------------
\* A datagram arrives.  The kernel drops it when the socket is full.
Arrive(s, d) ==
    /\ Len(queue[s]) < Capacity
    /\ queue' = [queue EXCEPT ![s] = Append(@, d)]
    /\ UNCHANGED <<fd, ready, next, buffer, served>>

\* FAULT: the buffer is cleared once, before the loop.
BeginTurnStale ==
    /\ next = 0
    /\ ready' = Select(GetMaxFd + 1, FillFdset)
    /\ next' = 1
    /\ UNCHANGED <<fd, queue, buffer, served>>

\* The descriptor set is filled, select returns, with no descriptor after a
\* second without a datagram, and ReceiveMessages clears its buffer.
BeginTurn ==
    /\ next = 0
    /\ ready' = Select(GetMaxFd + 1, FillFdset)
    /\ next' = 1
    /\ buffer' = ClearedBuffer
    /\ UNCHANGED <<fd, queue, served>>

\* FAULT: the loop has one turn too many.
AfterOneMore(i) == IF i > Len(TransporterManagerInit) THEN 0 ELSE i + 1

\* FAULT: one message is received per turn.
AfterOnlyOne(i) == IF fd[TransporterManagerInit[i]] \in ready THEN 0
                   ELSE IF i = Len(TransporterManagerInit) THEN 0 ELSE i + 1

\* The transporter that ReceiveMessages visits after the i-th.
After(i) == IF i = Len(TransporterManagerInit) THEN 0 ELSE i + 1

\* A transporter whose descriptor is not set.
Skip ==
    /\ next # 0
    /\ fd[TransporterManagerInit[next]] \notin ready
    /\ next' = After(next)
    /\ UNCHANGED <<fd, queue, ready, buffer, served>>

\* FAULT: a transporter is read as long as its descriptor is set.
ReceiveAndHandleAgain ==
    LET s == TransporterManagerInit[next] IN
    /\ next # 0
    /\ fd[s] \in ready /\ queue[s] # <<>>
    /\ buffer' = Callback(s, UdpReceive(buffer, Head(queue[s])))
    /\ served' = [socket |-> s, text |-> CString(buffer')]
    /\ queue' = [queue EXCEPT ![s] = Tail(@)]
    /\ UNCHANGED <<fd, ready, next>>

\* A transporter whose descriptor is set: receive, then callback.  recvfrom would
\* block the process if nothing were queued.
ReceiveAndHandle ==
    LET s == TransporterManagerInit[next] IN
    /\ next # 0
    /\ fd[s] \in ready /\ queue[s] # <<>>
    /\ buffer' = Callback(s, UdpReceive(buffer, Head(queue[s])))
    /\ served' = [socket |-> s, text |-> CString(buffer')]
    /\ queue' = [queue EXCEPT ![s] = Tail(@)]
    /\ next' = After(next)
    /\ UNCHANGED <<fd, ready>>

Loop == BeginTurn \/ Skip \/ ReceiveAndHandle

\* AddTransporter of both: socket() returns two descriptors, in any order.
Init ==
    /\ fd \in {f \in [Sockets -> Descriptors] : f["sip"] # f["client"]}
    /\ queue = [s \in Sockets |-> <<>>]
    /\ ready = {} /\ next = 0 /\ buffer = ClearedBuffer
    /\ served = [socket |-> "none", text |-> <<>>]

Next == Loop \/ \E s \in Sockets : \E d \in Datagrams[s] : Arrive(s, d)

Spec == Init /\ [][Next]_vars

\* The process never leaves the loop, and select returns within a second.
FairSpec == Spec /\ WF_vars(Loop)

-----------------------------------------------------------------------------
(* Properties *)

Characters == {NUL, EOL} \cup UNION {Range(d) : d \in UNION Range(Datagrams)}

\* Every variable has its type: the loop of ReceiveMessages stays within the
\* list of transporters, and no datagram is written beyond the buffer.
TypeOK ==
    /\ fd \in [Sockets -> Descriptors]
    /\ \A s \in Sockets : Len(queue[s]) <= Capacity /\ Range(queue[s]) \subseteq Datagrams[s]
    /\ ready \subseteq Range(fd)
    /\ next \in 0 .. Len(TransporterManagerInit)
    /\ buffer \in [1 .. Size -> Characters]
    /\ served.socket \in Sockets \cup {"none"}

\* recvfrom never blocks the loop: as long as the visit of a transporter is
\* still to come, its descriptor is set only if a datagram waits there, however
\* old the answer of select is (TransporterManager.c:95, Init.c:28).
NeverBlocks ==
    \A i \in DOMAIN TransporterManagerInit :
        LET s == TransporterManagerInit[i] IN
        next # 0 /\ i >= next /\ fd[s] \in ready => queue[s] # <<>>

\* What a handler is to read: a peer's datagram whole, a client's first line.
Text(s, d) ==
    IF s = "sip" THEN d
    ELSE SubSeq(d, 1, (CHOOSE i \in DOMAIN d :
                          d[i] = EOL /\ \A j \in 1 .. i - 1 : d[j] # EOL) - 1)

Service == INSTANCE DatagramService

\* One buffer, visited in one order, with a snapshot of the descriptors: still
\* every datagram is handled once, in its order, as the text it was sent as
\* (TransporterManager.c:86-100, StringExt.c:13).
ServesInOrder == Service!ServiceSafety

\* Neither socket starves the other, whichever descriptor is the greater and
\* however busy the first one is (Init.c:28, TransporterManager.c:86-100).
ServesBoth == Service!ServiceFairness
=============================================================================
