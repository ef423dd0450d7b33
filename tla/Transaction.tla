----------------------------- MODULE Transaction -----------------------------
(***************************************************************************)
(* One SIP transaction of src/sip/Transaction.c: from AddTransaction to    *)
(* the moment the transaction manager frees it.                            *)
(*                                                                         *)
(* The machine is driven by the network (responses, retransmitted requests,*)
(* CANCEL), by the transaction user (the responses it sends) and by the    *)
(* timers it arms.  The process is single-threaded, so each of these is    *)
(* one step, and a step runs the whole handler: the message is recorded,   *)
(* the entry found, the state changed, the entry's actions run, and, when  *)
(* the transport refuses a message, the nested TRANSPORT_ERROR event run.  *)
(*                                                                         *)
(* Two services the code only reaches through function pointers are        *)
(* parameters:                                                             *)
(*   TimersFire    FALSE is the stub of src/sip/Timer.c, which forgets the *)
(*                 timer; TRUE is a service that fires each timer on time, *)
(*                 which is what the code is written for.  No code ever    *)
(*                 cancels a timer.                                        *)
(*   SendMayFail   whether SendMessage may return a negative number.       *)
(* WholeApi adds the operations of include/Transaction.h that only the     *)
(* tests call: ReceiveAckRequest, Receive3xxResponse, ReceiveDupRequest    *)
(* and the MOVED response.                                                 *)
(***************************************************************************)
EXTENDS TransactionFsm, FiniteSets

CONSTANTS Types,        \* the types of transaction considered
          Tags,         \* To tags a peer may put in a response
          NoTag,        \* a message without a To tag of the peer
          TimersFire, SendMayFail, WholeApi,
          MaxWaits      \* bound: rejections are repeated while fewer than this
                        \* many WAIT_FOR_RESPONSE timers are pending

ASSUME TypesAssumption  == Types \subseteq TransactionTypes
ASSUME TagsAssumption   == NoTag \notin Tags
ASSUME BoundAssumption  == MaxWaits \in Nat
ASSUME SwitchAssumption == {TimersFire, SendMayFail, WholeApi} \subseteq BOOLEAN

VARIABLES
    type,           \* t->type
    state,          \* t->state, or how the process died while running t
    retransmits,    \* t->retransmits
    latest,         \* the last element of t->responses
    timers,         \* pending AddTimer calls: for each kind, the ms left
    wire,           \* the message, if any, the last step put on the wire
    transmissions,  \* how often the request of a client was sent
    verdicts        \* the final events the transaction user was told of

vars == <<type, state, retransmits, latest, timers, wire, transmissions,
          verdicts>>

-----------------------------------------------------------------------------
\* include/Timer.h, in milliseconds.  Time passes in units of T1.
T1 == 500
T2 == 4000
T4 == 5000
TransactionTimeout == 64 * T1

\* T1 << retransmits.  IncRetransmit stops at 4, so OTHER is never reached.
Shifted(r) == CASE r = 0 -> T1 [] r = 1 -> 2 * T1 [] r = 2 -> 4 * T1
                [] r = 3 -> 8 * T1 [] r = 4 -> 16 * T1 [] OTHER -> 32 * T1

\* FAULT: the back-off has no end.
IncRetransmitForever(r) == r + 1

IncRetransmit(r) == IF Shifted(r) <= T2 THEN r + 1 ELSE r

\* FAULT: the interval is not capped.
UncappedInterval(r) == Shifted(r)

CalculateRetransmitInterval(r) == IF Shifted(r) > T2 THEN T2 ELSE Shifted(r)

\* FAULT: a provisional response restarts the back-off.
NonInviteIntervalRestarts(s, r) == CalculateRetransmitInterval(r)

\* The delay of ClientNonInviteAddRetransmitTimer in the state just entered.
NonInviteInterval(s, r) == CASE s = "TRYING" -> CalculateRetransmitInterval(r)
                             [] s = "PROCEEDING" -> T2
                             [] OTHER -> T1

\* The delays the actions that ran hand to AddTimer for a kind of timer.
AddTimer(kind, ran, s, r) ==
    CASE kind = "RETRANSMIT" /\ "ClientInviteAddRetransmitTimer" \in ran ->
            {CalculateRetransmitInterval(r)}
      [] kind = "RETRANSMIT" /\ "ClientNonInviteAddRetransmitTimer" \in ran ->
            {NonInviteInterval(s, r)}
      [] kind = "TIMEOUT" /\ "AddTimeoutTimer" \in ran ->
            {TransactionTimeout}
      [] kind = "WAIT_FOR_RESPONSE" /\ "AddWaitForResponseTimer" \in ran ->
            {T4}
      [] kind = "WAIT_REQUEST_RETRANSMITS"
            /\ "AddServerNonInviteWaitRequestRetransmitTimer" \in ran ->
            {TransactionTimeout}
      [] OTHER -> {}

-----------------------------------------------------------------------------
Message(kind, code, tag) == [kind |-> kind, code |-> code, tag |-> tag]
NoMessage        == Message("none", "none", NoTag)
Request          == Message("request", "request", NoTag)
ResponseIn(c, g) == Message("response", c, g)
ResponseOut(e)   == Message("response", e, NoTag)
Ack(g)           == Message("ack", "ack", g)

Messages == {NoMessage, Request}
              \cup {ResponseIn(c, g) : c \in ResponseEvents, g \in Tags}
              \cup {ResponseOut(e) : e \in SendEvents}
              \cup {Ack(g) : g \in Tags \cup {NoTag}}

\* How the process can die inside RunFsm: assert(0), a read beyond an
\* unterminated table, a timer that fires for a freed transaction.
Deaths == {"ASSERTED", "OVERRAN", "DANGLED"}
Live   == TransactionStates \ {"INIT", "TERMINATED"}
Over   == {"TERMINATED"} \cup Deaths

\* The state in which RunFsm leaves a transaction when an event has no entry.
Unhandled(s) == IF Unterminated(type, s) THEN "OVERRAN" ELSE "ASSERTED"

\* Where the nested event of a refused message leads.
TransportErrorState(s) ==
    IF LocateEventEntry(type, s, "TRANSPORT_ERROR") = {}
    THEN Unhandled(s) ELSE "TERMINATED"

\* FAULT: the ACK is built from the response before the one just received.
OutgoingStale(ran, rsp) ==
    CASE "SendRequestMessage"    \in ran -> Request
      [] "SendAckRequest"        \in ran -> Ack(latest.tag)
      [] "ResendLatestResponse"  \in ran -> rsp
      [] "ResponseWith100Trying" \in ran -> ResponseOut("SEND_TRYING")
      [] OTHER -> NoMessage

\* What the sending action among ran puts on the wire: the request, the
\* latest response, a 100 or an ACK with the tag of the latest response.
Outgoing(ran, rsp) ==
    CASE "SendRequestMessage"    \in ran -> Request
      [] "SendAckRequest"        \in ran -> Ack(rsp.tag)
      [] "ResendLatestResponse"  \in ran -> rsp
      [] "ResponseWith100Trying" \in ran -> ResponseOut("SEND_TRYING")
      [] OTHER -> NoMessage

\* TransactionHandleEvent.  rsp is the latest response and pending the timers
\* on entry, out the message the handler has already sent in this step; ok is
\* the transport's answer to the message one of the actions may send.
TransactionHandleEvent(entry, event, rsp, pending, out, ok) ==
    LET ran   == InvokeActions(entry.actions, ok)
        sends == InvokeActions(entry.actions, TRUE) \cap SendActions # {}
    IN  /\ state' = IF sends /\ ~ok THEN TransportErrorState(entry.nextState)
                    ELSE entry.nextState
        /\ retransmits' = CASE "ResetRetransmits" \in ran -> 0
                            [] "IncRetransmit" \in ran -> IncRetransmit(retransmits)
                            [] OTHER -> retransmits
        /\ latest' = IF ran \cap {"SendAckRequest", "ResponseWith100Trying"} = {}
                     THEN rsp ELSE Outgoing(ran, rsp)
        /\ timers' = IF ~TimersFire THEN pending
                     ELSE [k \in TimerEvents |-> pending[k] \cup
                             AddTimer(k, ran, entry.nextState, retransmits')]
        /\ wire' = IF ~sends THEN out
                   ELSE IF ok THEN Outgoing(ran, rsp) ELSE NoMessage
        /\ transmissions' = IF ok /\ "SendRequestMessage" \in ran
                            THEN transmissions + 1 ELSE transmissions
        /\ verdicts' = IF "InformTU" \in ran /\ event \in FinalEvents
                       THEN Append(verdicts, event) ELSE verdicts
        /\ UNCHANGED type

\* RunFsm: the event's entry is run; without one the process dies.
RunFsm(event, rsp, pending, out) ==
    LET entries == LocateEventEntry(type, state, event) IN
    \/ \E entry \in entries, ok \in {TRUE, ~SendMayFail} :
          TransactionHandleEvent(entry, event, rsp, pending, out, ok)
    \/ /\ entries = {}
       /\ state' = Unhandled(state)
       /\ latest' = rsp
       /\ timers' = pending
       /\ wire' = out
       /\ UNCHANGED <<type, retransmits, transmissions, verdicts>>

\* SendTransactionMessage when the transport refuses the message.
RefuseMessage(rsp) ==
    /\ SendMayFail
    /\ state' = TransportErrorState(state)
    /\ latest' = rsp
    /\ wire' = NoMessage
    /\ UNCHANGED <<type, retransmits, timers, transmissions, verdicts>>

\* ResponseWith: the response is recorded and sent, then its event is run.
ResponseWith(event) ==
    \/ RunFsm(event, ResponseOut(event), timers, ResponseOut(event))
    \/ RefuseMessage(ResponseOut(event))

-----------------------------------------------------------------------------
Init ==
    /\ type \in Types
    /\ state = "INIT"
    /\ retransmits = 0
    /\ latest = NoMessage
    /\ timers = [k \in TimerEvents |-> {}]
    /\ wire = NoMessage
    /\ transmissions = 0
    /\ verdicts = <<>>

\* AddTransaction: the transaction is created, listed and started.
AddTransaction ==
    /\ state = "INIT"
    /\ RunFsm("INIT", latest, timers, NoMessage)

\* Each copy of a rejection arms one more timer.
RoomToWait == Cardinality(timers["WAIT_FOR_RESPONSE"]) < MaxWaits

\* The manager matched a response to a client transaction.
ReceiveResponse(code, tag) ==
    /\ type \in ClientTypes
    /\ state \in Live
    /\ RoomToWait
    /\ RunFsm(code, ResponseIn(code, tag), timers, NoMessage)

\* The manager matched an INVITE to the transaction of its first copy.
ReceiveInvite ==
    /\ type = "SERVER_INVITE"
    /\ state \in Live
    /\ RunFsm("INVITE", latest, timers, NoMessage)

\* The manager matched a CANCEL: the transaction of the INVITE ends with a 487
\* (whose CSeq is not the INVITE's: StackObjects).
ReceiveCancel ==
    /\ type = "SERVER_INVITE"
    /\ state \in Live
    /\ ResponseWith("SEND_REQUEST_TERMINATED")

\* The user of a server transaction sends a response.
Respond(event) ==
    /\ type \in ServerTypes
    /\ state \in Live
    /\ event = "SEND_MOVED" => WholeApi
    /\ ResponseWith(event)

\* ReceiveAckRequest.
ReceiveAck ==
    /\ WholeApi
    /\ type = "SERVER_INVITE"
    /\ state \in Live
    /\ RunFsm("ACK", latest, timers, NoMessage)

\* Receive3xxResponse: the event without a message.
Receive3xxResponse ==
    /\ WholeApi
    /\ type = "CLIENT_INVITE"
    /\ state \in Live
    /\ RoomToWait
    /\ RunFsm("3XX", latest, timers, NoMessage)

\* ReceiveDupRequest: the latest response is sent again, outside the machine.
ReceiveDupRequest ==
    /\ WholeApi
    /\ type \in ServerTypes
    /\ state \in Live
    /\ latest # NoMessage
    /\ \/ /\ wire' = latest
          /\ UNCHANGED <<type, state, retransmits, latest, timers,
                         transmissions, verdicts>>
       \/ RefuseMessage(latest)

-----------------------------------------------------------------------------
\* T1 milliseconds pass; a timer that is due fires first.
Tick ==
    /\ state \notin Deaths
    /\ \A k \in TimerEvents : 0 \notin timers[k]
    /\ \E k \in TimerEvents : timers[k] # {}
    /\ timers' = [k \in TimerEvents |-> {d - T1 : d \in timers[k]}]
    /\ wire' = NoMessage
    /\ UNCHANGED <<type, state, retransmits, latest, transmissions, verdicts>>

\* A timer callback.  The transaction it was armed for may be gone.
FireTimer(kind) ==
    LET pending == [timers EXCEPT ![kind] = @ \ {0}] IN
    /\ state \notin Deaths
    /\ 0 \in timers[kind]
    /\ \/ state \in Live /\ RunFsm(kind, latest, pending, NoMessage)
       \/ /\ state = "TERMINATED"
          /\ state' = "DANGLED"
          /\ timers' = pending
          /\ wire' = NoMessage
          /\ UNCHANGED <<type, retransmits, latest, transmissions, verdicts>>

Next ==
    \/ AddTransaction
    \/ \E code \in ResponseEvents, tag \in Tags : ReceiveResponse(code, tag)
    \/ ReceiveInvite
    \/ ReceiveCancel
    \/ \E event \in {"SEND_RINGING", "SEND_OK", "SEND_MOVED"} : Respond(event)
    \/ ReceiveAck
    \/ Receive3xxResponse
    \/ ReceiveDupRequest
    \/ Tick
    \/ \E kind \in TimerEvents : FireTimer(kind)

Spec == Init /\ [][Next]_vars

\* Time passes and a due timer fires; nothing is assumed of the peer or user.
FairSpec == Spec /\ WF_vars(Tick) /\ WF_vars(\E k \in TimerEvents : FireTimer(k))
-----------------------------------------------------------------------------
(* Properties *)

\* Every variable has its type; retransmits stays within the shift the code
\* can make without leaving the table of intervals (IncRetransmit, :118).
TypeOK ==
    /\ type \in TransactionTypes
    /\ state \in TransactionStates \cup Deaths
    /\ retransmits \in 0 .. 4
    /\ latest \in Messages
    /\ timers \in [TimerEvents -> SUBSET Int]
    /\ wire \in Messages
    /\ transmissions \in Nat
    /\ verdicts \in Seq(FinalEvents)

\* The timers the table of a state relies on: those whose entry ends the
\* transaction, and those whose entry arms the same timer once more.
Guardians(ty, s) ==
    {k \in TimerEvents : \E entry \in LocateEventEntry(ty, s, k) :
        \/ entry.nextState = "TERMINATED"
        \/ AddTimer(k, InvokeActions(entry.actions, TRUE), entry.nextState, 0) # {}}

\* With a working timer service every timer that the table of the present state
\* relies on is pending, whichever path led to the state and whatever was
\* refused by the transport on the way (the AddTimer calls of the tables,
\* :405-667).  A state whose table has no such timer is not promised one: there
\* (CLIENT_INVITE and SERVER_INVITE in PROCEEDING, SERVER_NON_INVITE before its
\* final response) the transaction waits for the peer or the user.  Nor is it
\* said that the pending timer is the first to fire: see TimersAreExpected.
Supervised == TimersFire => \A k \in Guardians(type, state) : timers[k] # {}

\* The moment, in ms after the first, at which the request is due again after
\* it was sent n times: the interval doubles from T1 up to T2.
RetransmissionDue(n) ==
    CASE n = 1 -> T1 [] n = 2 -> 3 * T1 [] n = 3 -> 7 * T1
      [] OTHER -> 15 * T1 + T2 * (n - 4)

\* As long as nothing is heard, exactly one retransmission and one timeout are
\* pending, and the retransmission is due at the moment the back-off schedule
\* says: no double arming, no drift, no missed or extra doubling (:112-156).
OnSchedule ==
    TimersFire /\ state \in {"TRYING", "CALLING"} /\ type \in ClientTypes =>
        \E left \in timers["TIMEOUT"], due \in timers["RETRANSMIT"] :
            /\ timers["TIMEOUT"] = {left}
            /\ timers["RETRANSMIT"] = {due}
            /\ (TransactionTimeout - left) + due = RetransmissionDue(transmissions)

\* The request of a client goes out 11 times at most, provisional responses
\* (which reset the back-off) or not, before the timeout ends it.
TransmissionBudget == transmissions <= 11

\* A server transaction that has answered finally stands by it: what a copy of
\* the request is answered with is the final response, never a provisional
\* one sent before it (the order of AddResponse and RunFsm in ResponseWith,
\* :252-263).
FinalResponseStands ==
    type \in ServerTypes /\ state \in {"COMPLETED", "CONFIRMED"} =>
        latest \in {ResponseOut("SEND_OK"), ResponseOut("SEND_MOVED")}

\* Every rejection received once the peer has answered provisionally, the first
\* and its copies, is acknowledged with the tag of that very response, unless
\* the transport refuses the ACK and the transaction ends (:287-303, :525-558).
AcksEveryReject ==
    [][\A code \in RejectEvents, tag \in Tags :
         /\ type = "CLIENT_INVITE"
         /\ state \in {"PROCEEDING", "COMPLETED"}
         /\ ReceiveResponse(code, tag)
         => wire' = Ack(tag) \/ state' = "TERMINATED"]_vars

\* A request nobody answers does not stay unanswered for ever: with a timer
\* service, every client transaction leaves its first state (TimeoutTimer).
UnansweredEnds ==
    (type \in ClientTypes /\ state \in {"TRYING", "CALLING"})
        ~> state \notin {"TRYING", "CALLING"}

\* assert(0) at the end of RunFsm (:791): every event a transaction can meet
\* has an entry in the table of its state.
EveryEventHandled == state # "ASSERTED"

\* The same assertion, for the timers alone: a timer fires only in a state whose
\* table expects it.
TimersAreExpected ==
    [][\A kind \in TimerEvents : FireTimer(kind) => state' \notin Deaths]_vars

\* A transaction keeps the promises of TransactionContract: it starts once,
\* repeats its request only while undecided, and tells its user of at most one
\* final response, when it decides (InformTU in the tables).
PhaseOf(s) == CASE s = "INIT" -> "idle"
                [] s \in Over -> "over"
                [] s \in {"COMPLETED", "CONFIRMED"} -> "decided"
                [] OTHER -> "pending"

Phase == PhaseOf(state)

Contract == INSTANCE TransactionContract
              WITH Verdicts <- FinalEvents,
                   phase <- Phase, told <- verdicts, sent <- transmissions

KeepsContract == Contract!ContractSpec
=============================================================================
