--------------------------- MODULE TransactionFsm ---------------------------
(***************************************************************************)
(* The four finite state machines of src/sip/Transaction.c, as data.       *)
(*                                                                         *)
(* The C code keeps one table per state: an array of entries, each with a  *)
(* bit mask of the events it accepts, the state it leads to and the        *)
(* actions to run.  Here a mask is a set of events and a state's table is  *)
(* a set of entries, because the masks of one state never overlap and the  *)
(* order in which LocateEventEntry walks the array does not matter.  The   *)
(* order of the ACTIONS does, because InvokeActions stops at the first one *)
(* that fails: they are sequences.                                         *)
(***************************************************************************)
EXTENDS Integers, Sequences

ClientTypes == {"CLIENT_INVITE", "CLIENT_NON_INVITE"}
ServerTypes == {"SERVER_INVITE", "SERVER_NON_INVITE"}
TransactionTypes == ClientTypes \cup ServerTypes

\* enum TransactionState.
TransactionStates ==
    {"INIT", "TRYING", "CALLING", "PROCEEDING", "COMPLETED", "CONFIRMED",
     "TERMINATED"}

\* What MapStatusCodeToEvent makes of a status code in 100..699.
ProvisionalEvent == "1XX"
RejectEvents     == {"3XX", "4XX", "5XX", "6XX"}
FinalEvents      == {"2XX"} \cup RejectEvents
ResponseEvents   == {ProvisionalEvent} \cup FinalEvents

\* The responses a transaction user sends with Response() and ResponseWith().
SendEvents == {"SEND_TRYING", "SEND_RINGING", "SEND_OK", "SEND_MOVED",
               "SEND_REQUEST_TERMINATED"}

\* Each timer callback runs the machine with the event named after the timer.
TimerEvents == {"RETRANSMIT", "TIMEOUT", "WAIT_FOR_RESPONSE",
                "WAIT_REQUEST_RETRANSMITS"}

TransactionEvents ==
    {"INIT", "ACK", "INVITE", "TRANSPORT_ERROR"}
       \cup ResponseEvents \cup SendEvents \cup TimerEvents

\* The actions that hand a message to the transport, and so can fail.
SendActions == {"SendRequestMessage", "SendAckRequest",
                "ResendLatestResponse", "ResponseWith100Trying"}

Actions == SendActions \cup
    {"ClientInviteAddRetransmitTimer", "ClientNonInviteAddRetransmitTimer",
     "AddTimeoutTimer", "AddWaitForResponseTimer",
     "AddServerNonInviteWaitRequestRetransmitTimer",
     "ResetRetransmits", "IncRetransmit", "InformTU"}

-----------------------------------------------------------------------------
\* struct FsmStateEventEntry.
Entry(evs, next, acts) == [events |-> evs, nextState |-> next, actions |-> acts]

\* An entry that only changes the state.
Goto(ev, next) == Entry({ev}, next, <<>>)

\* FAULT: the client never arms its timers.
ClientInitStateUntimed(next) ==
    {Entry({"INIT"}, next, <<"SendRequestMessage">>),
     Goto("TRANSPORT_ERROR", "TERMINATED")}

\* The table both client machines start from.
ClientInitState(next) ==
    {Entry({"INIT"}, next, <<"SendRequestMessage",
                             "ClientNonInviteAddRetransmitTimer",
                             "AddTimeoutTimer">>),
     Goto("TRANSPORT_ERROR", "TERMINATED")}

\* FAULT: a rejected request stays open.
ClientNonInviteTryingStateLoops ==
    {Entry({"2XX"}, "COMPLETED", <<"AddWaitForResponseTimer", "InformTU">>),
     Entry({"1XX"}, "PROCEEDING", <<"ResetRetransmits">>),
     Entry({"4XX"}, "TRYING", <<"InformTU">>)}

ClientNonInviteTryingState ==
    {Entry({"2XX"}, "COMPLETED", <<"AddWaitForResponseTimer", "InformTU">>),
     Entry({"1XX"}, "PROCEEDING", <<"ResetRetransmits">>),
     Entry({"4XX"}, "COMPLETED", <<"AddWaitForResponseTimer", "InformTU">>),
     Entry({"RETRANSMIT"}, "TRYING", <<"SendRequestMessage", "IncRetransmit",
                                   "ClientNonInviteAddRetransmitTimer">>),
     Goto("TIMEOUT", "TERMINATED"),
     Goto("TRANSPORT_ERROR", "TERMINATED")}

ClientNonInviteProceedingState ==
    {Entry({"2XX"}, "COMPLETED", <<"AddWaitForResponseTimer">>),
     Goto("1XX", "PROCEEDING"),
     Entry({"RETRANSMIT"}, "PROCEEDING", <<"SendRequestMessage", "IncRetransmit",
                                       "ClientNonInviteAddRetransmitTimer">>),
     Goto("TRANSPORT_ERROR", "TERMINATED"),
     Goto("TIMEOUT", "TERMINATED")}

ClientNonInviteCompletedState == {Goto("WAIT_FOR_RESPONSE", "TERMINATED")}

ClientNonInviteTransactionFsm ==
    [INIT       |-> ClientInitState("TRYING"),
     TRYING     |-> ClientNonInviteTryingState,
     PROCEEDING |-> ClientNonInviteProceedingState,
     COMPLETED  |-> ClientNonInviteCompletedState]

ClientInviteCallingState ==
    {Entry({"2XX"}, "TERMINATED", <<"InformTU">>),
     Entry({"1XX"}, "PROCEEDING", <<"ResetRetransmits">>),
     Entry({"RETRANSMIT"}, "CALLING", <<"SendRequestMessage", "IncRetransmit",
                                    "ClientInviteAddRetransmitTimer">>),
     Goto("TIMEOUT", "TERMINATED"),
     Goto("TRANSPORT_ERROR", "TERMINATED"),
     Entry({"3XX", "5XX", "6XX"}, "COMPLETED", <<"AddWaitForResponseTimer">>)}

\* FAULT: a 2XX does not end the transaction.
ClientInviteProceedingStateLingers ==
    {Entry(RejectEvents, "COMPLETED", <<"AddWaitForResponseTimer",
                                        "SendAckRequest">>),
     Entry({"1XX", "2XX"}, "PROCEEDING", <<"InformTU">>)}

\* FAULT: the user is not told of a 2XX that follows a provisional response.
ClientInviteProceedingStateSilent ==
    {Entry(RejectEvents, "COMPLETED", <<"AddWaitForResponseTimer",
                                        "SendAckRequest">>),
     Goto("2XX", "TERMINATED"),
     Entry({"1XX"}, "PROCEEDING", <<"InformTU">>)}

ClientInviteProceedingState ==
    {Entry(RejectEvents, "COMPLETED", <<"AddWaitForResponseTimer",
                                        "SendAckRequest">>),
     Entry({"2XX"}, "TERMINATED", <<"InformTU">>),
     Entry({"1XX"}, "PROCEEDING", <<"InformTU">>)}

ClientInviteCompletedState ==
    {Entry(RejectEvents, "COMPLETED", <<"SendAckRequest",
                                        "AddWaitForResponseTimer">>),
     Goto("TRANSPORT_ERROR", "TERMINATED"),
     Goto("WAIT_FOR_RESPONSE", "TERMINATED")}

ClientInviteTransactionFsm ==
    [INIT       |-> ClientInitState("CALLING"),
     CALLING    |-> ClientInviteCallingState,
     PROCEEDING |-> ClientInviteProceedingState,
     COMPLETED  |-> ClientInviteCompletedState]

ServerInviteInitState ==
    {Entry({"INIT"}, "PROCEEDING", <<"ResponseWith100Trying">>),
     Goto("TRANSPORT_ERROR", "TERMINATED")}

\* FAULT: the accepted INVITE waits on.
ServerInviteProceedingStateStays ==
    {Goto("SEND_TRYING", "PROCEEDING"),
     Goto("SEND_RINGING", "PROCEEDING"),
     Entry({"INVITE"}, "PROCEEDING", <<"ResendLatestResponse">>),
     Goto("SEND_REQUEST_TERMINATED", "TERMINATED"),
     Goto("SEND_OK", "PROCEEDING")}

\* FAULT: ringing completes the transaction.
ServerInviteProceedingStateRings ==
    {Goto("SEND_TRYING", "PROCEEDING"),
     Goto("SEND_RINGING", "COMPLETED"),
     Entry({"INVITE"}, "PROCEEDING", <<"ResendLatestResponse">>),
     Goto("SEND_REQUEST_TERMINATED", "TERMINATED"),
     Goto("SEND_OK", "TERMINATED")}

ServerInviteProceedingState ==
    {Goto("SEND_TRYING", "PROCEEDING"),
     Goto("SEND_RINGING", "PROCEEDING"),
     Entry({"INVITE"}, "PROCEEDING", <<"ResendLatestResponse">>),
     Goto("TRANSPORT_ERROR", "TERMINATED"),
     Goto("SEND_REQUEST_TERMINATED", "TERMINATED"),
     Goto("SEND_OK", "TERMINATED"),
     Entry({"SEND_MOVED"}, "COMPLETED", <<"ClientNonInviteAddRetransmitTimer",
                                          "AddTimeoutTimer">>)}

\* FAULT: a user may still send a ringing after its final response.
ServerInviteCompletedStateRings ==
    {Entry({"INVITE"}, "COMPLETED", <<"ResendLatestResponse">>),
     Goto("SEND_RINGING", "COMPLETED")}

ServerInviteCompletedState ==
    {Entry({"INVITE"}, "COMPLETED", <<"ResendLatestResponse">>),
     Entry({"RETRANSMIT"}, "COMPLETED", <<"ResendLatestResponse">>),
     Goto("TIMEOUT", "TERMINATED"),
     Goto("TRANSPORT_ERROR", "TERMINATED"),
     Entry({"ACK"}, "CONFIRMED", <<"AddWaitForResponseTimer">>)}

ServerInviteConfirmedState == {Goto("WAIT_FOR_RESPONSE", "TERMINATED")}

ServerInviteTransactionFsm ==
    [INIT       |-> ServerInviteInitState,
     PROCEEDING |-> ServerInviteProceedingState,
     COMPLETED  |-> ServerInviteCompletedState,
     CONFIRMED  |-> ServerInviteConfirmedState]

ServerNonInviteInitState == {Goto("INIT", "TRYING")}

ServerNonInviteTryingState ==
    {Goto("SEND_RINGING", "PROCEEDING"),
     Entry({"SEND_OK"}, "COMPLETED",
           <<"AddServerNonInviteWaitRequestRetransmitTimer">>)}

\* FAULT: no timer when the final response follows a provisional one.
ServerNonInviteProceedingStateUntimed ==
    {Goto("SEND_RINGING", "PROCEEDING"), Goto("SEND_OK", "COMPLETED")}

ServerNonInviteProceedingState ==
    {Goto("SEND_RINGING", "PROCEEDING"),
     Goto("TRANSPORT_ERROR", "TERMINATED"),
     Entry({"SEND_OK"}, "COMPLETED",
           <<"AddServerNonInviteWaitRequestRetransmitTimer">>)}

ServerNonInviteCompletedState ==
    {Goto("TRANSPORT_ERROR", "TERMINATED"),
     Goto("WAIT_REQUEST_RETRANSMITS", "TERMINATED")}

ServerNonInviteTransactionFsm ==
    [INIT       |-> ServerNonInviteInitState,
     TRYING     |-> ServerNonInviteTryingState,
     PROCEEDING |-> ServerNonInviteProceedingState,
     COMPLETED  |-> ServerNonInviteCompletedState]

\* TransactionInitInfos: the machine a type of transaction runs.
Fsm(type) ==
    CASE type = "CLIENT_NON_INVITE" -> ClientNonInviteTransactionFsm
      [] type = "CLIENT_INVITE"     -> ClientInviteTransactionFsm
      [] type = "SERVER_INVITE"     -> ServerInviteTransactionFsm
      [] type = "SERVER_NON_INVITE" -> ServerNonInviteTransactionFsm

-----------------------------------------------------------------------------
\* The entries of the current state's table, none for a state (TERMINATED)
\* that has no table.
LocateFsmState(type, state) ==
    IF state \in DOMAIN Fsm(type) THEN Fsm(type)[state] ELSE {}

\* The entry that handles the event: empty where the C function returns NULL
\* or, in an unterminated table, runs past the end of the array.
LocateEventEntry(type, state, event) ==
    {e \in LocateFsmState(type, state) : event \in e.events}

\* The two tables that lack the {TRANSACTION_EVENT_MAX} terminator: a lookup
\* that finds no entry there keeps reading beyond the array.
Unterminated(type, state) ==
    <<type, state>> \in {<<"SERVER_INVITE", "CONFIRMED">>,
                         <<"SERVER_NON_INVITE", "COMPLETED">>}

\* The actions InvokeActions runs when the transport accepts a message
\* (ok) or refuses it: all of them, or those up to the refused send.
InvokeActions(actions, ok) ==
    {actions[i] : i \in {j \in DOMAIN actions :
        ok \/ \A k \in DOMAIN actions : k < j => actions[k] \notin SendActions}}
=============================================================================
