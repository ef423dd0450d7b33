-------------------------- MODULE Transaction_proofs --------------------------
(***************************************************************************)
(* Theorems about module Transaction, for every choice of its constants.   *)
(*                                                                         *)
(* The first part says what the tables of TransactionFsm guarantee, entry  *)
(* by entry.  Sound collects everything the invariants need of one entry:  *)
(* where it leads, what it may send, which timers it must arm.  One lemma  *)
(* per table shows that each of its entries is sound, and EntriesAreSound  *)
(* sums them up for any type and state.                                    *)
(***************************************************************************)
EXTENDS Transaction, TLAPS

-----------------------------------------------------------------------------
(* The tables, entry by entry. *)

\* The actions of an entry, whatever their order.
ActionsOf(e) == {e.actions[i] : i \in DOMAIN e.actions}

\* One of the actions hands a timer of this kind to AddTimer.
Arms(acts, k) ==
    CASE k = "RETRANSMIT" ->
            acts \cap {"ClientInviteAddRetransmitTimer",
                       "ClientNonInviteAddRetransmitTimer"} # {}
      [] k = "TIMEOUT" -> "AddTimeoutTimer" \in acts
      [] k = "WAIT_FOR_RESPONSE" -> "AddWaitForResponseTimer" \in acts
      [] k = "WAIT_REQUEST_RETRANSMITS" ->
            "AddServerNonInviteWaitRequestRetransmitTimer" \in acts
      [] OTHER -> FALSE

\* The states in which a client waits for an answer to its request.
WaitStates == {"TRYING", "CALLING", "PROCEEDING"}

\* The entry sends the request for the first time and starts both timers.
Starts(ty, s, evs, n, acts) ==
    /\ ty \in ClientTypes
    /\ s = "INIT"
    /\ evs = {"INIT"}
    /\ n \in {"TRYING", "CALLING"}
    /\ {"ClientNonInviteAddRetransmitTimer", "AddTimeoutTimer"} \subseteq acts
    /\ acts \cap {"ClientInviteAddRetransmitTimer", "IncRetransmit",
                  "ResetRetransmits"} = {}

\* The entry sends the request again, in the state it was sent in, and arms the
\* next retransmission; the timeout goes on.
Retransmits(ty, s, evs, n, acts) ==
    /\ ty \in ClientTypes
    /\ s \in WaitStates
    /\ evs = {"RETRANSMIT"}
    /\ n = s
    /\ "IncRetransmit" \in acts
    /\ acts \cap {"AddTimeoutTimer", "ResetRetransmits"} = {}
    /\ \/ /\ "ClientInviteAddRetransmitTimer" \in acts /\ s = "CALLING"
          /\ "ClientNonInviteAddRetransmitTimer" \notin acts
       \/ /\ "ClientNonInviteAddRetransmitTimer" \in acts /\ s # "CALLING"
          /\ "ClientInviteAddRetransmitTimer" \notin acts

\* The timers a state relies on, as a list: GuardiansWatch shows that no other
\* is among the Guardians the tables themselves give.
Watchers(ty, s) ==
    CASE ty \in ClientTypes /\ s \in {"TRYING", "CALLING"} ->
            {"TIMEOUT", "RETRANSMIT"}
      [] ty = "CLIENT_NON_INVITE" /\ s = "PROCEEDING" ->
            {"TIMEOUT", "RETRANSMIT"}
      [] ty \in ClientTypes /\ s = "COMPLETED" -> {"WAIT_FOR_RESPONSE"}
      [] ty = "SERVER_INVITE" /\ s = "COMPLETED" -> {"TIMEOUT"}
      [] ty = "SERVER_INVITE" /\ s = "CONFIRMED" -> {"WAIT_FOR_RESPONSE"}
      [] ty = "SERVER_NON_INVITE" /\ s = "COMPLETED" ->
            {"WAIT_REQUEST_RETRANSMITS"}
      [] OTHER -> {}

\* An entry of state s in the machine of type ty, for events evs, leading to n
\* with actions acts:
\*  - moves the phase forward, sends the request only while it is undecided and
\*    informs the user only when deciding;
\*  - arms, or leaves pending, the timers the new state relies on;
\*  - for a timer that ends the transaction or is armed again, is an entry of a
\*    state that relies on that timer;
\*  - enters a decided state of a server by sending a final response;
\*  - acknowledges a rejection that follows a provisional response;
\*  - sends the request only on starting, with both timers, or on a
\*    retransmission, with the next one, and arms neither timer otherwise while
\*    the client waits.
Sound(ty, s, evs, n, acts) ==
    /\ n \in TransactionStates \ {"INIT"}
    /\ PhaseOf(s) = "idle" => PhaseOf(n) \in {"pending", "over"}
    /\ PhaseOf(s) = "decided" => PhaseOf(n) \in {"decided", "over"}
    /\ "SendRequestMessage" \in acts =>
          PhaseOf(s) \in {"idle", "pending"} /\ PhaseOf(n) = "pending"
    /\ "InformTU" \in acts =>
          /\ acts \cap SendActions = {}
          /\ PhaseOf(s) = "pending"
          /\ evs \cap FinalEvents # {} => PhaseOf(n) \in {"decided", "over"}
    /\ \A ev \in evs, k \in Watchers(ty, n) :
          Arms(acts, k) \/ (k \in Watchers(ty, s) /\ k # ev)
    /\ \A k \in evs \cap TimerEvents :
          n = "TERMINATED" \/ Arms(acts, k) => k \in Watchers(ty, s)
    /\ ty \in ServerTypes /\ n \in {"COMPLETED", "CONFIRMED"} =>
          /\ acts \cap {"SendAckRequest", "ResponseWith100Trying"} = {}
          /\ \/ evs \subseteq {"SEND_OK", "SEND_MOVED"}
             \/ s \in {"COMPLETED", "CONFIRMED"} /\ evs \cap SendEvents = {}
    /\ ty = "CLIENT_INVITE" /\ s \in {"PROCEEDING", "COMPLETED"}
          /\ evs \cap RejectEvents # {} =>
          /\ n = "COMPLETED"
          /\ acts \cap SendActions = {"SendAckRequest"}
    /\ "SendRequestMessage" \in acts =>
          Starts(ty, s, evs, n, acts) \/ Retransmits(ty, s, evs, n, acts)
    /\ ty \in ClientTypes /\ n \in WaitStates /\ "SendRequestMessage" \notin acts =>
          /\ s \in WaitStates
          /\ n = "PROCEEDING"
          /\ evs = {"1XX"}
          /\ ~Arms(acts, "TIMEOUT") /\ ~Arms(acts, "RETRANSMIT")

SoundEntry(ty, s, e) == Sound(ty, s, e.events, e.nextState, ActionsOf(e))

-----------------------------------------------------------------------------
(* Entries with none, one, two and three actions. *)

\* An entry without actions is sound if its parts are.
LEMMA SoundEntry0 ==
    ASSUME NEW ty, NEW s, NEW evs, NEW n,
           Sound(ty, s, evs, n, {})
    PROVE  SoundEntry(ty, s, Entry(evs, n, <<>>))
<1>1. ActionsOf(Entry(evs, n, <<>>)) = {}
    BY DEF ActionsOf, Entry
<1>2. /\ Entry(evs, n, <<>>).events = evs
      /\ Entry(evs, n, <<>>).nextState = n
    BY DEF Entry
<1> QED BY <1>1, <1>2, Zenon DEF SoundEntry

\* The same for one action.
LEMMA SoundEntry1 ==
    ASSUME NEW ty, NEW s, NEW evs, NEW n, NEW a,
           Sound(ty, s, evs, n, {a})
    PROVE  SoundEntry(ty, s, Entry(evs, n, <<a>>))
<1>1. ActionsOf(Entry(evs, n, <<a>>)) = {a}
    BY DEF ActionsOf, Entry
<1>2. /\ Entry(evs, n, <<a>>).events = evs
      /\ Entry(evs, n, <<a>>).nextState = n
    BY DEF Entry
<1> QED BY <1>1, <1>2, Zenon DEF SoundEntry

\* The same for two.
LEMMA SoundEntry2 ==
    ASSUME NEW ty, NEW s, NEW evs, NEW n, NEW a, NEW b,
           Sound(ty, s, evs, n, {a, b})
    PROVE  SoundEntry(ty, s, Entry(evs, n, <<a, b>>))
<1>1. ActionsOf(Entry(evs, n, <<a, b>>)) = {a, b}
    BY DEF ActionsOf, Entry
<1>2. /\ Entry(evs, n, <<a, b>>).events = evs
      /\ Entry(evs, n, <<a, b>>).nextState = n
    BY DEF Entry
<1> QED BY <1>1, <1>2, Zenon DEF SoundEntry

\* The same for three.
LEMMA SoundEntry3 ==
    ASSUME NEW ty, NEW s, NEW evs, NEW n, NEW a, NEW b, NEW c,
           Sound(ty, s, evs, n, {a, b, c})
    PROVE  SoundEntry(ty, s, Entry(evs, n, <<a, b, c>>))
<1>1. ActionsOf(Entry(evs, n, <<a, b, c>>)) = {a, b, c}
    BY DEF ActionsOf, Entry
<1>2. /\ Entry(evs, n, <<a, b, c>>).events = evs
      /\ Entry(evs, n, <<a, b, c>>).nextState = n
    BY DEF Entry
<1> QED BY <1>1, <1>2, Zenon DEF SoundEntry

\* An entry that only changes the state is sound if its parts are.
LEMMA SoundGoto ==
    ASSUME NEW ty, NEW s, NEW ev, NEW n, Sound(ty, s, {ev}, n, {})
    PROVE  SoundEntry(ty, s, Goto(ev, n))
BY SoundEntry0, Zenon DEF Goto

-----------------------------------------------------------------------------
(* The tables. *)

\* Every entry of ClientNonInviteInitState is sound.
LEMMA SoundClientNonInviteInitState ==
    \A e \in ClientInitState("TRYING") : SoundEntry("CLIENT_NON_INVITE", "INIT", e)
<1> DEFINE Row(evs, n, acts) == Sound("CLIENT_NON_INVITE", "INIT", evs, n, acts)
           Kept(e) == SoundEntry("CLIENT_NON_INVITE", "INIT", e)
<1>1. /\ Row({"INIT"}, "TRYING", {"SendRequestMessage",
                  "ClientNonInviteAddRetransmitTimer", "AddTimeoutTimer"})
      /\ Row({"TRANSPORT_ERROR"}, "TERMINATED", {})
    BY DEF Sound, Starts, Retransmits, WaitStates, PhaseOf, Arms, Watchers,
           ServerTypes, ClientTypes, Over, Deaths, TransactionStates, FinalEvents,
           RejectEvents, SendEvents, SendActions, TimerEvents
<1>2. /\ Kept(Entry({"INIT"}, "TRYING", <<"SendRequestMessage",
                  "ClientNonInviteAddRetransmitTimer", "AddTimeoutTimer">>))
      /\ Kept(Goto("TRANSPORT_ERROR", "TERMINATED"))
    BY <1>1, SoundEntry3, SoundGoto, Zenon
<1> HIDE DEF Kept
<1>3. \A e \in ClientInitState("TRYING") : Kept(e)
    BY <1>2, Zenon DEF ClientInitState
<1> QED BY <1>3, Zenon DEF Kept

\* Every entry of ClientNonInviteTryingState is sound.
LEMMA SoundClientNonInviteTryingState ==
    \A e \in ClientNonInviteTryingState : SoundEntry("CLIENT_NON_INVITE", "TRYING", e)
<1> DEFINE Row(evs, n, acts) == Sound("CLIENT_NON_INVITE", "TRYING", evs, n, acts)
           Kept(e) == SoundEntry("CLIENT_NON_INVITE", "TRYING", e)
<1>1. /\ Row({"2XX"}, "COMPLETED", {"AddWaitForResponseTimer", "InformTU"})
      /\ Row({"1XX"}, "PROCEEDING", {"ResetRetransmits"})
      /\ Row({"4XX"}, "COMPLETED", {"AddWaitForResponseTimer", "InformTU"})
      /\ Row({"RETRANSMIT"}, "TRYING", {"SendRequestMessage",
                  "IncRetransmit", "ClientNonInviteAddRetransmitTimer"})
      /\ Row({"TIMEOUT"}, "TERMINATED", {})
      /\ Row({"TRANSPORT_ERROR"}, "TERMINATED", {})
    BY DEF Sound, Starts, Retransmits, WaitStates, PhaseOf, Arms, Watchers,
           ServerTypes, ClientTypes, Over, Deaths, TransactionStates, FinalEvents,
           RejectEvents, SendEvents, SendActions, TimerEvents
<1>2. /\ Kept(Entry({"2XX"}, "COMPLETED", <<"AddWaitForResponseTimer",
                  "InformTU">>))
      /\ Kept(Entry({"1XX"}, "PROCEEDING", <<"ResetRetransmits">>))
      /\ Kept(Entry({"4XX"}, "COMPLETED", <<"AddWaitForResponseTimer",
                  "InformTU">>))
      /\ Kept(Entry({"RETRANSMIT"}, "TRYING", <<"SendRequestMessage",
                  "IncRetransmit", "ClientNonInviteAddRetransmitTimer">>))
      /\ Kept(Goto("TIMEOUT", "TERMINATED"))
      /\ Kept(Goto("TRANSPORT_ERROR", "TERMINATED"))
    BY <1>1, SoundEntry1, SoundEntry2, SoundEntry3, SoundGoto, Zenon
<1> HIDE DEF Kept
<1>3. \A e \in ClientNonInviteTryingState : Kept(e)
    BY <1>2, Zenon DEF ClientNonInviteTryingState
<1> QED BY <1>3, Zenon DEF Kept

\* Every entry of ClientNonInviteProceedingState is sound.
LEMMA SoundClientNonInviteProceedingState ==
    \A e \in ClientNonInviteProceedingState : SoundEntry("CLIENT_NON_INVITE", "PROCEEDING", e)
<1> DEFINE Row(evs, n, acts) == Sound("CLIENT_NON_INVITE", "PROCEEDING", evs, n, acts)
           Kept(e) == SoundEntry("CLIENT_NON_INVITE", "PROCEEDING", e)
<1>1. /\ Row({"2XX"}, "COMPLETED", {"AddWaitForResponseTimer"})
      /\ Row({"1XX"}, "PROCEEDING", {})
      /\ Row({"RETRANSMIT"}, "PROCEEDING", {"SendRequestMessage",
                  "IncRetransmit", "ClientNonInviteAddRetransmitTimer"})
      /\ Row({"TRANSPORT_ERROR"}, "TERMINATED", {})
      /\ Row({"TIMEOUT"}, "TERMINATED", {})
    BY DEF Sound, Starts, Retransmits, WaitStates, PhaseOf, Arms, Watchers,
           ServerTypes, ClientTypes, Over, Deaths, TransactionStates, FinalEvents,
           RejectEvents, SendEvents, SendActions, TimerEvents
<1>2. /\ Kept(Entry({"2XX"}, "COMPLETED", <<"AddWaitForResponseTimer">>))
      /\ Kept(Goto("1XX", "PROCEEDING"))
      /\ Kept(Entry({"RETRANSMIT"}, "PROCEEDING", <<"SendRequestMessage",
                  "IncRetransmit", "ClientNonInviteAddRetransmitTimer">>))
      /\ Kept(Goto("TRANSPORT_ERROR", "TERMINATED"))
      /\ Kept(Goto("TIMEOUT", "TERMINATED"))
    BY <1>1, SoundEntry1, SoundEntry3, SoundGoto, Zenon
<1> HIDE DEF Kept
<1>3. \A e \in ClientNonInviteProceedingState : Kept(e)
    BY <1>2, Zenon DEF ClientNonInviteProceedingState
<1> QED BY <1>3, Zenon DEF Kept

\* Every entry of ClientNonInviteCompletedState is sound.
LEMMA SoundClientNonInviteCompletedState ==
    \A e \in ClientNonInviteCompletedState : SoundEntry("CLIENT_NON_INVITE", "COMPLETED", e)
<1> DEFINE Row(evs, n, acts) == Sound("CLIENT_NON_INVITE", "COMPLETED", evs, n, acts)
           Kept(e) == SoundEntry("CLIENT_NON_INVITE", "COMPLETED", e)
<1>1. Row({"WAIT_FOR_RESPONSE"}, "TERMINATED", {})
    BY DEF Sound, Starts, Retransmits, WaitStates, PhaseOf, Arms, Watchers,
           ServerTypes, ClientTypes, Over, Deaths, TransactionStates, FinalEvents,
           RejectEvents, SendEvents, SendActions, TimerEvents
<1>2. Kept(Goto("WAIT_FOR_RESPONSE", "TERMINATED"))
    BY <1>1, SoundGoto, Zenon
<1> HIDE DEF Kept
<1>3. \A e \in ClientNonInviteCompletedState : Kept(e)
    BY <1>2, Zenon DEF ClientNonInviteCompletedState
<1> QED BY <1>3, Zenon DEF Kept

\* Every entry of ClientInviteInitState is sound.
LEMMA SoundClientInviteInitState ==
    \A e \in ClientInitState("CALLING") : SoundEntry("CLIENT_INVITE", "INIT", e)
<1> DEFINE Row(evs, n, acts) == Sound("CLIENT_INVITE", "INIT", evs, n, acts)
           Kept(e) == SoundEntry("CLIENT_INVITE", "INIT", e)
<1>1. /\ Row({"INIT"}, "CALLING", {"SendRequestMessage",
                  "ClientNonInviteAddRetransmitTimer", "AddTimeoutTimer"})
      /\ Row({"TRANSPORT_ERROR"}, "TERMINATED", {})
    BY DEF Sound, Starts, Retransmits, WaitStates, PhaseOf, Arms, Watchers,
           ServerTypes, ClientTypes, Over, Deaths, TransactionStates, FinalEvents,
           RejectEvents, SendEvents, SendActions, TimerEvents
<1>2. /\ Kept(Entry({"INIT"}, "CALLING", <<"SendRequestMessage",
                  "ClientNonInviteAddRetransmitTimer", "AddTimeoutTimer">>))
      /\ Kept(Goto("TRANSPORT_ERROR", "TERMINATED"))
    BY <1>1, SoundEntry3, SoundGoto, Zenon
<1> HIDE DEF Kept
<1>3. \A e \in ClientInitState("CALLING") : Kept(e)
    BY <1>2, Zenon DEF ClientInitState
<1> QED BY <1>3, Zenon DEF Kept

\* Every entry of ClientInviteCallingState is sound.
LEMMA SoundClientInviteCallingState ==
    \A e \in ClientInviteCallingState : SoundEntry("CLIENT_INVITE", "CALLING", e)
<1> DEFINE Row(evs, n, acts) == Sound("CLIENT_INVITE", "CALLING", evs, n, acts)
           Kept(e) == SoundEntry("CLIENT_INVITE", "CALLING", e)
<1>1. /\ Row({"2XX"}, "TERMINATED", {"InformTU"})
      /\ Row({"1XX"}, "PROCEEDING", {"ResetRetransmits"})
      /\ Row({"RETRANSMIT"}, "CALLING", {"SendRequestMessage",
                  "IncRetransmit", "ClientInviteAddRetransmitTimer"})
      /\ Row({"TIMEOUT"}, "TERMINATED", {})
      /\ Row({"TRANSPORT_ERROR"}, "TERMINATED", {})
      /\ Row({"3XX", "5XX", "6XX"}, "COMPLETED", {"AddWaitForResponseTimer"})
    BY DEF Sound, Starts, Retransmits, WaitStates, PhaseOf, Arms, Watchers,
           ServerTypes, ClientTypes, Over, Deaths, TransactionStates, FinalEvents,
           RejectEvents, SendEvents, SendActions, TimerEvents
<1>2. /\ Kept(Entry({"2XX"}, "TERMINATED", <<"InformTU">>))
      /\ Kept(Entry({"1XX"}, "PROCEEDING", <<"ResetRetransmits">>))
      /\ Kept(Entry({"RETRANSMIT"}, "CALLING", <<"SendRequestMessage",
                  "IncRetransmit", "ClientInviteAddRetransmitTimer">>))
      /\ Kept(Goto("TIMEOUT", "TERMINATED"))
      /\ Kept(Goto("TRANSPORT_ERROR", "TERMINATED"))
      /\ Kept(Entry({"3XX", "5XX", "6XX"}, "COMPLETED",
                  <<"AddWaitForResponseTimer">>))
    BY <1>1, SoundEntry1, SoundEntry3, SoundGoto, Zenon
<1> HIDE DEF Kept
<1>3. \A e \in ClientInviteCallingState : Kept(e)
    BY <1>2, Zenon DEF ClientInviteCallingState
<1> QED BY <1>3, Zenon DEF Kept

\* Every entry of ClientInviteProceedingState is sound.
LEMMA SoundClientInviteProceedingState ==
    \A e \in ClientInviteProceedingState : SoundEntry("CLIENT_INVITE", "PROCEEDING", e)
<1> DEFINE Row(evs, n, acts) == Sound("CLIENT_INVITE", "PROCEEDING", evs, n, acts)
           Kept(e) == SoundEntry("CLIENT_INVITE", "PROCEEDING", e)
<1>1. /\ Row(RejectEvents, "COMPLETED", {"AddWaitForResponseTimer",
                  "SendAckRequest"})
      /\ Row({"2XX"}, "TERMINATED", {"InformTU"})
      /\ Row({"1XX"}, "PROCEEDING", {"InformTU"})
    BY DEF Sound, Starts, Retransmits, WaitStates, PhaseOf, Arms, Watchers,
           ServerTypes, ClientTypes, Over, Deaths, TransactionStates, FinalEvents,
           RejectEvents, SendEvents, SendActions, TimerEvents
<1>2. /\ Kept(Entry(RejectEvents, "COMPLETED", <<"AddWaitForResponseTimer",
                  "SendAckRequest">>))
      /\ Kept(Entry({"2XX"}, "TERMINATED", <<"InformTU">>))
      /\ Kept(Entry({"1XX"}, "PROCEEDING", <<"InformTU">>))
    BY <1>1, SoundEntry1, SoundEntry2, Zenon
<1> HIDE DEF Kept
<1>3. \A e \in ClientInviteProceedingState : Kept(e)
    BY <1>2, Zenon DEF ClientInviteProceedingState
<1> QED BY <1>3, Zenon DEF Kept

\* Every entry of ClientInviteCompletedState is sound.
LEMMA SoundClientInviteCompletedState ==
    \A e \in ClientInviteCompletedState : SoundEntry("CLIENT_INVITE", "COMPLETED", e)
<1> DEFINE Row(evs, n, acts) == Sound("CLIENT_INVITE", "COMPLETED", evs, n, acts)
           Kept(e) == SoundEntry("CLIENT_INVITE", "COMPLETED", e)
<1>1. /\ Row(RejectEvents, "COMPLETED", {"SendAckRequest",
                  "AddWaitForResponseTimer"})
      /\ Row({"TRANSPORT_ERROR"}, "TERMINATED", {})
      /\ Row({"WAIT_FOR_RESPONSE"}, "TERMINATED", {})
    BY DEF Sound, Starts, Retransmits, WaitStates, PhaseOf, Arms, Watchers,
           ServerTypes, ClientTypes, Over, Deaths, TransactionStates, FinalEvents,
           RejectEvents, SendEvents, SendActions, TimerEvents
<1>2. /\ Kept(Entry(RejectEvents, "COMPLETED", <<"SendAckRequest",
                  "AddWaitForResponseTimer">>))
      /\ Kept(Goto("TRANSPORT_ERROR", "TERMINATED"))
      /\ Kept(Goto("WAIT_FOR_RESPONSE", "TERMINATED"))
    BY <1>1, SoundEntry2, SoundGoto, Zenon
<1> HIDE DEF Kept
<1>3. \A e \in ClientInviteCompletedState : Kept(e)
    BY <1>2, Zenon DEF ClientInviteCompletedState
<1> QED BY <1>3, Zenon DEF Kept

\* Every entry of ServerInviteInitState is sound.
LEMMA SoundServerInviteInitState ==
    \A e \in ServerInviteInitState : SoundEntry("SERVER_INVITE", "INIT", e)
<1> DEFINE Row(evs, n, acts) == Sound("SERVER_INVITE", "INIT", evs, n, acts)
           Kept(e) == SoundEntry("SERVER_INVITE", "INIT", e)
<1>1. /\ Row({"INIT"}, "PROCEEDING", {"ResponseWith100Trying"})
      /\ Row({"TRANSPORT_ERROR"}, "TERMINATED", {})
    BY DEF Sound, Starts, Retransmits, WaitStates, PhaseOf, Arms, Watchers,
           ServerTypes, ClientTypes, Over, Deaths, TransactionStates, FinalEvents,
           RejectEvents, SendEvents, SendActions, TimerEvents
<1>2. /\ Kept(Entry({"INIT"}, "PROCEEDING", <<"ResponseWith100Trying">>))
      /\ Kept(Goto("TRANSPORT_ERROR", "TERMINATED"))
    BY <1>1, SoundEntry1, SoundGoto, Zenon
<1> HIDE DEF Kept
<1>3. \A e \in ServerInviteInitState : Kept(e)
    BY <1>2, Zenon DEF ServerInviteInitState
<1> QED BY <1>3, Zenon DEF Kept

\* Every entry of ServerInviteProceedingState is sound.
LEMMA SoundServerInviteProceedingState ==
    \A e \in ServerInviteProceedingState : SoundEntry("SERVER_INVITE", "PROCEEDING", e)
<1> DEFINE Row(evs, n, acts) == Sound("SERVER_INVITE", "PROCEEDING", evs, n, acts)
           Kept(e) == SoundEntry("SERVER_INVITE", "PROCEEDING", e)
<1>1. /\ Row({"SEND_TRYING"}, "PROCEEDING", {})
      /\ Row({"SEND_RINGING"}, "PROCEEDING", {})
      /\ Row({"INVITE"}, "PROCEEDING", {"ResendLatestResponse"})
      /\ Row({"TRANSPORT_ERROR"}, "TERMINATED", {})
      /\ Row({"SEND_REQUEST_TERMINATED"}, "TERMINATED", {})
      /\ Row({"SEND_OK"}, "TERMINATED", {})
      /\ Row({"SEND_MOVED"}, "COMPLETED",
                  {"ClientNonInviteAddRetransmitTimer", "AddTimeoutTimer"})
    BY DEF Sound, Starts, Retransmits, WaitStates, PhaseOf, Arms, Watchers,
           ServerTypes, ClientTypes, Over, Deaths, TransactionStates, FinalEvents,
           RejectEvents, SendEvents, SendActions, TimerEvents
<1>2. /\ Kept(Goto("SEND_TRYING", "PROCEEDING"))
      /\ Kept(Goto("SEND_RINGING", "PROCEEDING"))
      /\ Kept(Entry({"INVITE"}, "PROCEEDING", <<"ResendLatestResponse">>))
      /\ Kept(Goto("TRANSPORT_ERROR", "TERMINATED"))
      /\ Kept(Goto("SEND_REQUEST_TERMINATED", "TERMINATED"))
      /\ Kept(Goto("SEND_OK", "TERMINATED"))
      /\ Kept(Entry({"SEND_MOVED"}, "COMPLETED",
                  <<"ClientNonInviteAddRetransmitTimer", "AddTimeoutTimer">>))
    BY <1>1, SoundEntry1, SoundEntry2, SoundGoto, Zenon
<1> HIDE DEF Kept
<1>3. \A e \in ServerInviteProceedingState : Kept(e)
    BY <1>2, Zenon DEF ServerInviteProceedingState
<1> QED BY <1>3, Zenon DEF Kept

\* Every entry of ServerInviteCompletedState is sound.
LEMMA SoundServerInviteCompletedState ==
    \A e \in ServerInviteCompletedState : SoundEntry("SERVER_INVITE", "COMPLETED", e)
<1> DEFINE Row(evs, n, acts) == Sound("SERVER_INVITE", "COMPLETED", evs, n, acts)
           Kept(e) == SoundEntry("SERVER_INVITE", "COMPLETED", e)
<1>1. /\ Row({"INVITE"}, "COMPLETED", {"ResendLatestResponse"})
      /\ Row({"RETRANSMIT"}, "COMPLETED", {"ResendLatestResponse"})
      /\ Row({"TIMEOUT"}, "TERMINATED", {})
      /\ Row({"TRANSPORT_ERROR"}, "TERMINATED", {})
      /\ Row({"ACK"}, "CONFIRMED", {"AddWaitForResponseTimer"})
    BY DEF Sound, Starts, Retransmits, WaitStates, PhaseOf, Arms, Watchers,
           ServerTypes, ClientTypes, Over, Deaths, TransactionStates, FinalEvents,
           RejectEvents, SendEvents, SendActions, TimerEvents
<1>2. /\ Kept(Entry({"INVITE"}, "COMPLETED", <<"ResendLatestResponse">>))
      /\ Kept(Entry({"RETRANSMIT"}, "COMPLETED", <<"ResendLatestResponse">>))
      /\ Kept(Goto("TIMEOUT", "TERMINATED"))
      /\ Kept(Goto("TRANSPORT_ERROR", "TERMINATED"))
      /\ Kept(Entry({"ACK"}, "CONFIRMED", <<"AddWaitForResponseTimer">>))
    BY <1>1, SoundEntry1, SoundGoto, Zenon
<1> HIDE DEF Kept
<1>3. \A e \in ServerInviteCompletedState : Kept(e)
    BY <1>2, Zenon DEF ServerInviteCompletedState
<1> QED BY <1>3, Zenon DEF Kept

\* Every entry of ServerInviteConfirmedState is sound.
LEMMA SoundServerInviteConfirmedState ==
    \A e \in ServerInviteConfirmedState : SoundEntry("SERVER_INVITE", "CONFIRMED", e)
<1> DEFINE Row(evs, n, acts) == Sound("SERVER_INVITE", "CONFIRMED", evs, n, acts)
           Kept(e) == SoundEntry("SERVER_INVITE", "CONFIRMED", e)
<1>1. Row({"WAIT_FOR_RESPONSE"}, "TERMINATED", {})
    BY DEF Sound, Starts, Retransmits, WaitStates, PhaseOf, Arms, Watchers,
           ServerTypes, ClientTypes, Over, Deaths, TransactionStates, FinalEvents,
           RejectEvents, SendEvents, SendActions, TimerEvents
<1>2. Kept(Goto("WAIT_FOR_RESPONSE", "TERMINATED"))
    BY <1>1, SoundGoto, Zenon
<1> HIDE DEF Kept
<1>3. \A e \in ServerInviteConfirmedState : Kept(e)
    BY <1>2, Zenon DEF ServerInviteConfirmedState
<1> QED BY <1>3, Zenon DEF Kept

\* Every entry of ServerNonInviteInitState is sound.
LEMMA SoundServerNonInviteInitState ==
    \A e \in ServerNonInviteInitState : SoundEntry("SERVER_NON_INVITE", "INIT", e)
<1> DEFINE Row(evs, n, acts) == Sound("SERVER_NON_INVITE", "INIT", evs, n, acts)
           Kept(e) == SoundEntry("SERVER_NON_INVITE", "INIT", e)
<1>1. Row({"INIT"}, "TRYING", {})
    BY DEF Sound, Starts, Retransmits, WaitStates, PhaseOf, Arms, Watchers,
           ServerTypes, ClientTypes, Over, Deaths, TransactionStates, FinalEvents,
           RejectEvents, SendEvents, SendActions, TimerEvents
<1>2. Kept(Goto("INIT", "TRYING"))
    BY <1>1, SoundGoto, Zenon
<1> HIDE DEF Kept
<1>3. \A e \in ServerNonInviteInitState : Kept(e)
    BY <1>2, Zenon DEF ServerNonInviteInitState
<1> QED BY <1>3, Zenon DEF Kept

\* Every entry of ServerNonInviteTryingState is sound.
LEMMA SoundServerNonInviteTryingState ==
    \A e \in ServerNonInviteTryingState : SoundEntry("SERVER_NON_INVITE", "TRYING", e)
<1> DEFINE Row(evs, n, acts) == Sound("SERVER_NON_INVITE", "TRYING", evs, n, acts)
           Kept(e) == SoundEntry("SERVER_NON_INVITE", "TRYING", e)
<1>1. /\ Row({"SEND_RINGING"}, "PROCEEDING", {})
      /\ Row({"SEND_OK"}, "COMPLETED",
                  {"AddServerNonInviteWaitRequestRetransmitTimer"})
    BY DEF Sound, Starts, Retransmits, WaitStates, PhaseOf, Arms, Watchers,
           ServerTypes, ClientTypes, Over, Deaths, TransactionStates, FinalEvents,
           RejectEvents, SendEvents, SendActions, TimerEvents
<1>2. /\ Kept(Goto("SEND_RINGING", "PROCEEDING"))
      /\ Kept(Entry({"SEND_OK"}, "COMPLETED",
                  <<"AddServerNonInviteWaitRequestRetransmitTimer">>))
    BY <1>1, SoundEntry1, SoundGoto, Zenon
<1> HIDE DEF Kept
<1>3. \A e \in ServerNonInviteTryingState : Kept(e)
    BY <1>2, Zenon DEF ServerNonInviteTryingState
<1> QED BY <1>3, Zenon DEF Kept

\* Every entry of ServerNonInviteProceedingState is sound.
LEMMA SoundServerNonInviteProceedingState ==
    \A e \in ServerNonInviteProceedingState : SoundEntry("SERVER_NON_INVITE", "PROCEEDING", e)
<1> DEFINE Row(evs, n, acts) == Sound("SERVER_NON_INVITE", "PROCEEDING", evs, n, acts)
           Kept(e) == SoundEntry("SERVER_NON_INVITE", "PROCEEDING", e)
<1>1. /\ Row({"SEND_RINGING"}, "PROCEEDING", {})
      /\ Row({"TRANSPORT_ERROR"}, "TERMINATED", {})
      /\ Row({"SEND_OK"}, "COMPLETED",
                  {"AddServerNonInviteWaitRequestRetransmitTimer"})
    BY DEF Sound, Starts, Retransmits, WaitStates, PhaseOf, Arms, Watchers,
           ServerTypes, ClientTypes, Over, Deaths, TransactionStates, FinalEvents,
           RejectEvents, SendEvents, SendActions, TimerEvents
<1>2. /\ Kept(Goto("SEND_RINGING", "PROCEEDING"))
      /\ Kept(Goto("TRANSPORT_ERROR", "TERMINATED"))
      /\ Kept(Entry({"SEND_OK"}, "COMPLETED",
                  <<"AddServerNonInviteWaitRequestRetransmitTimer">>))
    BY <1>1, SoundEntry1, SoundGoto, Zenon
<1> HIDE DEF Kept
<1>3. \A e \in ServerNonInviteProceedingState : Kept(e)
    BY <1>2, Zenon DEF ServerNonInviteProceedingState
<1> QED BY <1>3, Zenon DEF Kept

\* Every entry of ServerNonInviteCompletedState is sound.
LEMMA SoundServerNonInviteCompletedState ==
    \A e \in ServerNonInviteCompletedState : SoundEntry("SERVER_NON_INVITE", "COMPLETED", e)
<1> DEFINE Row(evs, n, acts) == Sound("SERVER_NON_INVITE", "COMPLETED", evs, n, acts)
           Kept(e) == SoundEntry("SERVER_NON_INVITE", "COMPLETED", e)
<1>1. /\ Row({"TRANSPORT_ERROR"}, "TERMINATED", {})
      /\ Row({"WAIT_REQUEST_RETRANSMITS"}, "TERMINATED", {})
    BY DEF Sound, Starts, Retransmits, WaitStates, PhaseOf, Arms, Watchers,
           ServerTypes, ClientTypes, Over, Deaths, TransactionStates, FinalEvents,
           RejectEvents, SendEvents, SendActions, TimerEvents
<1>2. /\ Kept(Goto("TRANSPORT_ERROR", "TERMINATED"))
      /\ Kept(Goto("WAIT_REQUEST_RETRANSMITS", "TERMINATED"))
    BY <1>1, SoundGoto, Zenon
<1> HIDE DEF Kept
<1>3. \A e \in ServerNonInviteCompletedState : Kept(e)
    BY <1>2, Zenon DEF ServerNonInviteCompletedState
<1> QED BY <1>3, Zenon DEF Kept

-----------------------------------------------------------------------------
\* Every entry the lookup can return is sound.
LEMMA EntriesAreSound ==
    ASSUME NEW ty \in TransactionTypes, NEW s,
           NEW e \in LocateFsmState(ty, s)
    PROVE  SoundEntry(ty, s, e)
<1>1. CASE ty = "CLIENT_NON_INVITE"
  <2>1. CASE s = "INIT"
    BY <1>1, <2>1, SoundClientNonInviteInitState
    DEF LocateFsmState, Fsm, ClientNonInviteTransactionFsm
  <2>2. CASE s = "TRYING"
    BY <1>1, <2>2, SoundClientNonInviteTryingState
    DEF LocateFsmState, Fsm, ClientNonInviteTransactionFsm
  <2>3. CASE s = "PROCEEDING"
    BY <1>1, <2>3, SoundClientNonInviteProceedingState
    DEF LocateFsmState, Fsm, ClientNonInviteTransactionFsm
  <2>4. CASE s = "COMPLETED"
    BY <1>1, <2>4, SoundClientNonInviteCompletedState
    DEF LocateFsmState, Fsm, ClientNonInviteTransactionFsm
  <2> QED BY <1>1, <2>1, <2>2, <2>3, <2>4
    DEF LocateFsmState, Fsm, ClientNonInviteTransactionFsm
<1>2. CASE ty = "CLIENT_INVITE"
  <2>1. CASE s = "INIT"
    BY <1>2, <2>1, SoundClientInviteInitState
    DEF LocateFsmState, Fsm, ClientInviteTransactionFsm
  <2>2. CASE s = "CALLING"
    BY <1>2, <2>2, SoundClientInviteCallingState
    DEF LocateFsmState, Fsm, ClientInviteTransactionFsm
  <2>3. CASE s = "PROCEEDING"
    BY <1>2, <2>3, SoundClientInviteProceedingState
    DEF LocateFsmState, Fsm, ClientInviteTransactionFsm
  <2>4. CASE s = "COMPLETED"
    BY <1>2, <2>4, SoundClientInviteCompletedState
    DEF LocateFsmState, Fsm, ClientInviteTransactionFsm
  <2> QED BY <1>2, <2>1, <2>2, <2>3, <2>4
    DEF LocateFsmState, Fsm, ClientInviteTransactionFsm
<1>3. CASE ty = "SERVER_INVITE"
  <2>1. CASE s = "INIT"
    BY <1>3, <2>1, SoundServerInviteInitState
    DEF LocateFsmState, Fsm, ServerInviteTransactionFsm
  <2>2. CASE s = "PROCEEDING"
    BY <1>3, <2>2, SoundServerInviteProceedingState
    DEF LocateFsmState, Fsm, ServerInviteTransactionFsm
  <2>3. CASE s = "COMPLETED"
    BY <1>3, <2>3, SoundServerInviteCompletedState
    DEF LocateFsmState, Fsm, ServerInviteTransactionFsm
  <2>4. CASE s = "CONFIRMED"
    BY <1>3, <2>4, SoundServerInviteConfirmedState
    DEF LocateFsmState, Fsm, ServerInviteTransactionFsm
  <2> QED BY <1>3, <2>1, <2>2, <2>3, <2>4
    DEF LocateFsmState, Fsm, ServerInviteTransactionFsm
<1>4. CASE ty = "SERVER_NON_INVITE"
  <2>1. CASE s = "INIT"
    BY <1>4, <2>1, SoundServerNonInviteInitState
    DEF LocateFsmState, Fsm, ServerNonInviteTransactionFsm
  <2>2. CASE s = "TRYING"
    BY <1>4, <2>2, SoundServerNonInviteTryingState
    DEF LocateFsmState, Fsm, ServerNonInviteTransactionFsm
  <2>3. CASE s = "PROCEEDING"
    BY <1>4, <2>3, SoundServerNonInviteProceedingState
    DEF LocateFsmState, Fsm, ServerNonInviteTransactionFsm
  <2>4. CASE s = "COMPLETED"
    BY <1>4, <2>4, SoundServerNonInviteCompletedState
    DEF LocateFsmState, Fsm, ServerNonInviteTransactionFsm
  <2> QED BY <1>4, <2>1, <2>2, <2>3, <2>4
    DEF LocateFsmState, Fsm, ServerNonInviteTransactionFsm
<1> QED BY <1>1, <1>2, <1>3, <1>4 DEF TransactionTypes, ClientTypes, ServerTypes

-----------------------------------------------------------------------------
(* One run of the machine. *)

\* What InvokeActions runs of an entry: all of it, or when the transport refuses
\* a part of it that is the whole if nothing was to be sent.
LEMMA RanActions ==
    ASSUME NEW e
    PROVE  /\ InvokeActions(e.actions, TRUE) = ActionsOf(e)
           /\ InvokeActions(e.actions, FALSE) \subseteq ActionsOf(e)
           /\ ActionsOf(e) \cap SendActions = {} =>
                InvokeActions(e.actions, FALSE) = ActionsOf(e)
<1> DEFINE D == DOMAIN e.actions
           Reached(ok) == {j \in D : ok \/ \A k \in D :
                                     k < j => e.actions[k] \notin SendActions}
<1>1. \A ok : InvokeActions(e.actions, ok) = {e.actions[i] : i \in Reached(ok)}
  BY Zenon DEF InvokeActions
<1>2. Reached(TRUE) = D /\ Reached(FALSE) \subseteq D
  OBVIOUS
<1>3. ASSUME ActionsOf(e) \cap SendActions = {}
      PROVE  Reached(FALSE) = D
  BY <1>3 DEF ActionsOf
<1> HIDE DEF Reached, D
<1>4. ActionsOf(e) = {e.actions[i] : i \in D}
  BY DEF ActionsOf, D
<1>5. InvokeActions(e.actions, TRUE) = ActionsOf(e)
  BY <1>1, <1>2, <1>4, Zenon
<1>6. InvokeActions(e.actions, FALSE) \subseteq ActionsOf(e)
  <2>1. InvokeActions(e.actions, FALSE) = {e.actions[i] : i \in Reached(FALSE)}
    BY <1>1, Zenon
  <2> QED BY <2>1, <1>2, <1>4
<1>7. ActionsOf(e) \cap SendActions = {} =>
        InvokeActions(e.actions, FALSE) = ActionsOf(e)
  BY <1>1, <1>3, <1>4, Zenon
<1> QED BY <1>5, <1>6, <1>7

\* A refused message ends the transaction, or the process, from every state.
LEMMA ErrorEnds == \A s : TransportErrorState(s) \in Over
BY DEF TransportErrorState, Unhandled, Over, Deaths

\* The event found entry e and the whole of its actions ran.
Ran(e, event, rsp, pending) ==
    /\ e \in LocateFsmState(type, state)
    /\ event \in e.events
    /\ type' = type
    /\ state' = e.nextState
    /\ retransmits' = CASE "ResetRetransmits" \in ActionsOf(e) -> 0
                        [] "IncRetransmit" \in ActionsOf(e) -> IncRetransmit(retransmits)
                        [] OTHER -> retransmits
    /\ latest' = IF ActionsOf(e) \cap {"SendAckRequest", "ResponseWith100Trying"} = {}
                 THEN rsp ELSE Outgoing(ActionsOf(e), rsp)
    /\ timers' = IF ~TimersFire THEN pending
                 ELSE [k \in TimerEvents |-> pending[k] \cup
                         AddTimer(k, ActionsOf(e), e.nextState, retransmits')]
    /\ transmissions' = IF "SendRequestMessage" \in ActionsOf(e)
                        THEN transmissions + 1 ELSE transmissions
    /\ verdicts' = IF "InformTU" \in ActionsOf(e) /\ event \in FinalEvents
                   THEN Append(verdicts, event) ELSE verdicts

\* The transaction is over: the event had no entry or the transport refused.
Stopped == state' \in Over /\ UNCHANGED <<type, transmissions, verdicts>>

\* RunFsm either stops the transaction or runs the whole of one entry.
LEMMA RunFsmOutcome ==
    ASSUME type \in TransactionTypes,
           NEW event, NEW rsp, NEW pending, NEW out,
           RunFsm(event, rsp, pending, out)
    PROVE  Stopped \/ \E e : Ran(e, event, rsp, pending)
<1>1. ASSUME NEW e \in LocateEventEntry(type, state, event), NEW ok \in {TRUE, ~SendMayFail},
             TransactionHandleEvent(e, event, rsp, pending, out, ok)
      PROVE  Stopped \/ Ran(e, event, rsp, pending)
  <2> DEFINE sends == ActionsOf(e) \cap SendActions # {}
  <2>1. SoundEntry(type, state, e)
    BY EntriesAreSound DEF LocateEventEntry
  <2>2. CASE ok \/ ~sends
    <3>1. InvokeActions(e.actions, ok) = ActionsOf(e)
      BY <2>2, RanActions, SwitchAssumption
    <3>2. ~(~ok /\ sends)
      BY <2>2
    <3>3. state' = e.nextState
      BY <1>1, <3>2, RanActions DEF TransactionHandleEvent
    <3>4. "SendRequestMessage" \in ActionsOf(e) => ok
      BY <2>2 DEF SendActions
    <3> QED
      BY <1>1, <3>1, <3>3, <3>4 DEF TransactionHandleEvent, Ran, LocateEventEntry
  <2>3. CASE ~ok /\ sends
    <3>1. "InformTU" \notin InvokeActions(e.actions, ok)
      BY <2>1, <2>3, RanActions DEF SoundEntry, Sound
    <3>2. state' \in Over
      BY <1>1, <2>3, RanActions, ErrorEnds DEF TransactionHandleEvent
    <3> QED
      BY <1>1, <2>3, <3>1, <3>2 DEF TransactionHandleEvent, Stopped
  <2> QED BY <2>2, <2>3
<1>2. CASE /\ LocateEventEntry(type, state, event) = {}
           /\ state' = Unhandled(state)
           /\ UNCHANGED <<type, retransmits, transmissions, verdicts>>
  BY <1>2 DEF Stopped, Unhandled, Over, Deaths
<1> QED BY <1>1, <1>2 DEF RunFsm

-----------------------------------------------------------------------------
(* Type correctness. *)

\* The constructors of messages build messages; any of them can be acknowledged.
LEMMA MessageTypes ==
    /\ NoMessage \in Messages
    /\ Request \in Messages
    /\ \A c \in ResponseEvents, g \in Tags : ResponseIn(c, g) \in Messages
    /\ \A ev \in SendEvents : ResponseOut(ev) \in Messages
    /\ \A m \in Messages : Ack(m.tag) \in Messages
<1>1. /\ NoMessage \in Messages
      /\ Request \in Messages
      /\ \A c \in ResponseEvents, g \in Tags : ResponseIn(c, g) \in Messages
      /\ \A ev \in SendEvents : ResponseOut(ev) \in Messages
      /\ \A g \in Tags \cup {NoTag} : Ack(g) \in Messages
  BY DEF Messages
<1>2. ASSUME NEW m \in Messages
      PROVE  m.tag \in Tags \cup {NoTag}
  <2>1. CASE m \in {NoMessage, Request}
    BY <2>1 DEF NoMessage, Request, Message
  <2>2. CASE \E c \in ResponseEvents, g \in Tags : m = ResponseIn(c, g)
    BY <2>2 DEF ResponseIn, Message
  <2>3. CASE \E ev \in SendEvents : m = ResponseOut(ev)
    BY <2>3 DEF ResponseOut, Message
  <2>4. CASE \E g \in Tags \cup {NoTag} : m = Ack(g)
    BY <2>4 DEF Ack, Message
  <2> QED BY <2>1, <2>2, <2>3, <2>4 DEF Messages
<1> QED BY <1>1, <1>2, Zenon

\* What an entry puts on the wire is a message.
LEMMA OutgoingType ==
    ASSUME NEW ran, NEW rsp \in Messages
    PROVE  Outgoing(ran, rsp) \in Messages
BY MessageTypes DEF Outgoing, SendEvents

\* From a shift within 0 .. 4 the next one is too, and the intervals are numbers.
LEMMA IntervalTypes ==
    ASSUME NEW r \in 0 .. 4
    PROVE  /\ IncRetransmit(r) \in 0 .. 4
           /\ CalculateRetransmitInterval(r) \in Int
           /\ \A s : NonInviteInterval(s, r) \in Int
BY DEF IncRetransmit, CalculateRetransmitInterval, NonInviteInterval, Shifted, T1, T2

\* The delays handed to AddTimer are numbers.
LEMMA AddTimerType ==
    ASSUME NEW kind, NEW ran, NEW s, NEW r \in 0 .. 4
    PROVE  AddTimer(kind, ran, s, r) \subseteq Int
BY IntervalTypes DEF AddTimer, TransactionTimeout, T1, T4

\* RunFsm keeps the types, for any event and any response recorded with it.
LEMMA RunFsmType ==
    ASSUME TypeOK, NEW event \in TransactionEvents, NEW rsp \in Messages,
           NEW pending \in [TimerEvents -> SUBSET Int], NEW out \in Messages,
           RunFsm(event, rsp, pending, out)
    PROVE  TypeOK'
<1>1. ASSUME NEW e \in LocateEventEntry(type, state, event), NEW ok \in {TRUE, ~SendMayFail},
             TransactionHandleEvent(e, event, rsp, pending, out, ok)
      PROVE  TypeOK'
  <2> DEFINE ran == InvokeActions(e.actions, ok)
  <2>1. type' \in TransactionTypes
    BY <1>1 DEF TransactionHandleEvent, TypeOK
  <2>2. state' \in TransactionStates \cup Deaths
    <3>1. e.nextState \in TransactionStates
      BY EntriesAreSound DEF LocateEventEntry, SoundEntry, Sound, TypeOK
    <3> QED BY <1>1, <3>1, ErrorEnds DEF TransactionHandleEvent, Over, TransactionStates
  <2>3. retransmits' \in 0 .. 4
    <3>1. retransmits' \in {0, IncRetransmit(retransmits), retransmits}
      BY <1>1 DEF TransactionHandleEvent
    <3> QED BY <3>1, IntervalTypes DEF TypeOK
  <2>4. latest' \in Messages
    BY <1>1, OutgoingType DEF TransactionHandleEvent
  <2>5. timers' \in [TimerEvents -> SUBSET Int]
    <3>1. CASE ~TimersFire
      BY <1>1, <3>1 DEF TransactionHandleEvent
    <3>2. CASE TimersFire
      <4>1. timers' = [k \in TimerEvents |-> pending[k] \cup
                         AddTimer(k, ran, e.nextState, retransmits')]
        BY <1>1, <3>2 DEF TransactionHandleEvent
      <4> HIDE DEF ran
      <4>2. \A k \in TimerEvents :
               pending[k] \cup AddTimer(k, ran, e.nextState, retransmits') \subseteq Int
        BY <2>3, AddTimerType
      <4> QED BY <4>1, <4>2
    <3> QED BY <3>1, <3>2
  <2>6. wire' \in Messages
    BY <1>1, OutgoingType, MessageTypes DEF TransactionHandleEvent
  <2>7. transmissions' \in Nat
    BY <1>1 DEF TransactionHandleEvent, TypeOK
  <2>8. verdicts' \in Seq(FinalEvents)
    <3>1. verdicts' = verdicts \/ (event \in FinalEvents /\ verdicts' = Append(verdicts, event))
      BY <1>1 DEF TransactionHandleEvent
    <3> QED BY <3>1 DEF TypeOK
  <2> QED BY <2>1, <2>2, <2>3, <2>4, <2>5, <2>6, <2>7, <2>8 DEF TypeOK
<1>2. CASE /\ state' = Unhandled(state)
           /\ latest' = rsp
           /\ timers' = pending
           /\ wire' = out
           /\ UNCHANGED <<type, retransmits, transmissions, verdicts>>
  BY <1>2 DEF TypeOK, Unhandled, Deaths
<1> QED BY <1>1, <1>2 DEF RunFsm

\* A refused response keeps the types.
LEMMA RefuseType ==
    ASSUME TypeOK, NEW rsp \in Messages, RefuseMessage(rsp)
    PROVE  TypeOK'
<1>1. state' \in TransactionStates \cup Deaths
  BY ErrorEnds DEF RefuseMessage, Over, TransactionStates
<1> QED BY <1>1, MessageTypes DEF RefuseMessage, TypeOK

\* A transaction just created has its types.
LEMMA InitType == Init => TypeOK
<1> SUFFICES ASSUME Init PROVE TypeOK
  OBVIOUS
<1>1. type \in TransactionTypes
  BY TypesAssumption DEF Init
<1>2. timers \in [TimerEvents -> SUBSET Int]
  BY DEF Init
<1>3. verdicts \in Seq(FinalEvents)
  BY DEF Init
<1> QED BY <1>1, <1>2, <1>3, MessageTypes DEF Init, TypeOK, TransactionStates

\* Every step keeps the types.
LEMMA NextType == TypeOK /\ [Next]_vars => TypeOK'
<1> SUFFICES ASSUME TypeOK, [Next]_vars PROVE TypeOK'
  OBVIOUS
<1> USE MessageTypes
<1>1. CASE AddTransaction
  BY <1>1, RunFsmType DEF AddTransaction, TypeOK, TransactionEvents
<1>2. ASSUME NEW code \in ResponseEvents, NEW tag \in Tags, ReceiveResponse(code, tag)
      PROVE  TypeOK'
  BY <1>2, RunFsmType DEF ReceiveResponse, TypeOK, TransactionEvents
<1>3. CASE ReceiveInvite
  BY <1>3, RunFsmType DEF ReceiveInvite, TypeOK, TransactionEvents
<1>4. ASSUME NEW event \in SendEvents, ResponseWith(event)
      PROVE  TypeOK'
  BY <1>4, RunFsmType, RefuseType DEF ResponseWith, TypeOK, TransactionEvents
<1>5. CASE ReceiveCancel
  BY <1>5, <1>4 DEF ReceiveCancel, SendEvents
<1>6. ASSUME NEW event \in {"SEND_RINGING", "SEND_OK", "SEND_MOVED"}, Respond(event)
      PROVE  TypeOK'
  BY <1>6, <1>4 DEF Respond, SendEvents
<1>7. CASE ReceiveAck
  BY <1>7, RunFsmType DEF ReceiveAck, TypeOK, TransactionEvents
<1>8. CASE Receive3xxResponse
  BY <1>8, RunFsmType DEF Receive3xxResponse, TypeOK, TransactionEvents, ResponseEvents, FinalEvents, RejectEvents
<1>9. CASE ReceiveDupRequest
  BY <1>9, RefuseType DEF ReceiveDupRequest, TypeOK
<1>10. CASE Tick
  <2>1. timers' \in [TimerEvents -> SUBSET Int]
    BY <1>10 DEF Tick, TypeOK, T1
  <2> QED BY <1>10, <2>1 DEF Tick, TypeOK
<1>11. ASSUME NEW kind \in TimerEvents, FireTimer(kind)
       PROVE  TypeOK'
  <2> DEFINE pending == [timers EXCEPT ![kind] = @ \ {0}]
  <2>1. pending \in [TimerEvents -> SUBSET Int]
    BY DEF TypeOK
  <2>2. CASE RunFsm(kind, latest, pending, NoMessage)
    BY <2>1, <2>2, RunFsmType DEF TypeOK, TransactionEvents
  <2>3. CASE /\ state' = "DANGLED"
             /\ timers' = pending
             /\ wire' = NoMessage
             /\ UNCHANGED <<type, retransmits, latest, transmissions, verdicts>>
    BY <2>1, <2>3 DEF TypeOK, Deaths
  <2> QED BY <1>11, <2>2, <2>3 DEF FireTimer
<1>12. CASE UNCHANGED vars
  BY <1>12 DEF vars, TypeOK
<1> QED BY <1>1, <1>2, <1>3, <1>5, <1>6, <1>7, <1>8, <1>9, <1>10, <1>11, <1>12
        DEF Next

\* Every variable keeps its type: in particular the shift t->retransmits never
\* exceeds 4, whatever the peer sends and however long nobody answers (the
\* guard of IncRetransmit, :118-124).
THEOREM TypeCorrect == Spec => []TypeOK
<1>1. Init => TypeOK
  BY InitType
<1>2. TypeOK /\ [Next]_vars => TypeOK'
  BY NextType
<1> QED BY <1>1, <1>2, PTL DEF Spec

-----------------------------------------------------------------------------
(* What a step can be: the machine ran, or stopped, or did not take part. *)

\* The machine ran on an event.  The response recorded with it is the latest
\* one unless one is being received or sent; the timers it starts from are the
\* pending ones, less the one that is due and fires.
MachineRan ==
    \E e, event, rsp, pending :
        /\ Ran(e, event, rsp, pending)
        /\ state \notin Over
        /\ event \in SendEvents => rsp = ResponseOut(event)
        /\ event \in SendEvents \/ type \in ClientTypes \/ rsp = latest
        /\ \A k \in TimerEvents \ {event} : pending[k] = timers[k]
        /\ event \in TimerEvents =>
              0 \in timers[event] /\ pending[event] = timers[event] \ {0}

\* The transaction does not change; its timers do not either, or run down.
Quiet ==
    /\ UNCHANGED <<type, state, retransmits, transmissions, verdicts, latest>>
    /\ Tick \/ timers' = timers

\* No kind of timer is lost on the way.
LEMMA QuietKeepsTimers ==
    ASSUME TypeOK, Quiet, NEW k \in TimerEvents, timers[k] # {}
    PROVE  timers'[k] # {}
<1>1. CASE Tick
  BY <1>1 DEF Tick
<1> QED BY <1>1 DEF Quiet

\* A step runs the machine, stops it, or leaves it alone.
LEMMA StepOutcome ==
    ASSUME TypeOK, [Next]_vars
    PROVE  Stopped \/ MachineRan \/ Quiet
<1>1. ASSUME NEW event, NEW rsp, NEW pending, NEW out,
             RunFsm(event, rsp, pending, out),
             state \notin Over,
             event \in SendEvents => rsp = ResponseOut(event),
             event \in SendEvents \/ type \in ClientTypes \/ rsp = latest,
             \A k \in TimerEvents \ {event} : pending[k] = timers[k],
             event \in TimerEvents =>
                0 \in timers[event] /\ pending[event] = timers[event] \ {0}
      PROVE  Stopped \/ MachineRan
  <2>1. Stopped \/ \E e : Ran(e, event, rsp, pending)
    BY <1>1, RunFsmOutcome DEF TypeOK
  <2>2. ASSUME NEW e, Ran(e, event, rsp, pending)
        PROVE  MachineRan
    <3> SUFFICES \E f, ev, r, p :
                    /\ Ran(f, ev, r, p)
                    /\ state \notin Over
                    /\ ev \in SendEvents => r = ResponseOut(ev)
                    /\ ev \in SendEvents \/ type \in ClientTypes \/ r = latest
                    /\ \A k \in TimerEvents \ {ev} : p[k] = timers[k]
                    /\ ev \in TimerEvents =>
                          0 \in timers[ev] /\ p[ev] = timers[ev] \ {0}
      BY DEF MachineRan
    <3> WITNESS e, event, rsp, pending
    <3> QED BY <1>1, <2>2
  <2> QED BY <2>1, <2>2
<1>2. \A rsp : RefuseMessage(rsp) => Stopped
  BY ErrorEnds DEF RefuseMessage, Stopped
<1>3. "INIT" \notin Over /\ \A s \in Live : s \notin Over
  BY DEF Live, Over, Deaths, TransactionStates
<1>4. CASE AddTransaction
  BY <1>1, <1>3, <1>4 DEF AddTransaction, SendEvents, TimerEvents
<1>5. ASSUME NEW code \in ResponseEvents, NEW tag \in Tags, ReceiveResponse(code, tag)
      PROVE  Stopped \/ MachineRan
  <2>1. code \notin SendEvents \cup TimerEvents
    BY DEF ResponseEvents, ProvisionalEvent, FinalEvents, RejectEvents, SendEvents,
           TimerEvents
  <2>2. RunFsm(code, ResponseIn(code, tag), timers, NoMessage)
    BY <1>5 DEF ReceiveResponse
  <2>3. type \in ClientTypes /\ state \notin Over
    BY <1>3, <1>5 DEF ReceiveResponse
  <2> QED BY <1>1, <2>1, <2>2, <2>3
<1>6. CASE ReceiveInvite
  BY <1>1, <1>3, <1>6 DEF ReceiveInvite, SendEvents, TimerEvents
<1>7. ASSUME NEW event \in SendEvents, ResponseWith(event), state \in Live
      PROVE  Stopped \/ MachineRan
  <2>1. event \notin TimerEvents
    BY DEF SendEvents, TimerEvents
  <2> QED BY <1>1, <1>2, <1>3, <1>7, <2>1 DEF ResponseWith
<1>8. CASE ReceiveCancel
  BY <1>7, <1>8 DEF ReceiveCancel, SendEvents
<1>9. ASSUME NEW event \in {"SEND_RINGING", "SEND_OK", "SEND_MOVED"}, Respond(event)
      PROVE  Stopped \/ MachineRan
  BY <1>7, <1>9 DEF Respond, SendEvents
<1>10. CASE ReceiveAck
  BY <1>1, <1>3, <1>10 DEF ReceiveAck, SendEvents, TimerEvents
<1>11. CASE Receive3xxResponse
  BY <1>1, <1>3, <1>11 DEF Receive3xxResponse, SendEvents, TimerEvents
<1>12. CASE ReceiveDupRequest
  BY <1>2, <1>12 DEF ReceiveDupRequest, Quiet
<1>13. CASE Tick
  BY <1>13 DEF Tick, Quiet
<1>14. ASSUME NEW kind \in TimerEvents, FireTimer(kind)
       PROVE  Stopped \/ MachineRan
  <2> DEFINE pending == [timers EXCEPT ![kind] = @ \ {0}]
  <2>1. kind \notin SendEvents
    BY DEF TimerEvents, SendEvents
  <2>2. /\ \A k \in TimerEvents \ {kind} : pending[k] = timers[k]
        /\ pending[kind] = timers[kind] \ {0}
    BY DEF TypeOK
  <2>3. CASE state \in Live /\ RunFsm(kind, latest, pending, NoMessage)
    <3> HIDE DEF pending
    <3> QED BY <1>1, <1>3, <1>14, <2>1, <2>2, <2>3 DEF FireTimer
  <2>4. CASE state' = "DANGLED" /\ UNCHANGED <<type, transmissions, verdicts>>
    BY <2>4 DEF Stopped, Over, Deaths
  <2> QED BY <1>14, <2>3, <2>4 DEF FireTimer
<1>15. CASE UNCHANGED vars
  BY <1>15 DEF vars, Quiet
<1> QED BY <1>4, <1>5, <1>6, <1>8, <1>9, <1>10, <1>11, <1>12, <1>13, <1>14, <1>15
        DEF Next

-----------------------------------------------------------------------------
(* The invariant. *)

\* Nobody is told of an outcome before there is one.
Undecided == Phase \in {"idle", "pending"} => verdicts = <<>>

\* The timers the present state relies on are pending.
Watched == TimersFire => \A k \in Watchers(type, state) : timers[k] # {}

Inv == TypeOK /\ Watched /\ FinalResponseStands /\ Undecided

\* The invariant holds of a transaction just created.
LEMMA InitInv == Init => Inv
<1> SUFFICES ASSUME Init PROVE Inv
  OBVIOUS
<1>1. Watched
  BY DEF Init, Watched, Watchers
<1>2. FinalResponseStands /\ Undecided
  BY DEF Init, FinalResponseStands, Undecided
<1> QED BY <1>1, <1>2, InitType DEF Inv

\* A timer of kind k is pending after an entry that arms one.
LEMMA ArmedIsPending ==
    ASSUME NEW k \in TimerEvents, NEW acts, NEW s, NEW r, Arms(acts, k)
    PROVE  AddTimer(k, acts, s, r) # {}
BY DEF Arms, AddTimer, TimerEvents

\* After any step the timers that guard the new state are pending.
LEMMA StepWatched ==
    ASSUME Inv, [Next]_vars
    PROVE  Watched'
<1> SUFFICES ASSUME TimersFire, NEW k \in Watchers(type', state')
             PROVE  timers'[k] # {}
  BY DEF Watched
<1>1. k \in TimerEvents
  BY DEF Watchers, TimerEvents
<1>2. CASE Stopped
  BY <1>2 DEF Stopped, Over, Deaths, Watchers
<1>3. CASE Quiet
  BY <1>1, <1>3, QuietKeepsTimers DEF Quiet, Inv, Watched
<1>4. CASE MachineRan
  <2>1. PICK e, event, rsp, pending :
           /\ Ran(e, event, rsp, pending)
           /\ \A j \in TimerEvents \ {event} : pending[j] = timers[j]
    BY <1>4 DEF MachineRan
  <2>2. Arms(ActionsOf(e), k) \/ (k \in Watchers(type, state) /\ k # event)
    BY <2>1, EntriesAreSound DEF Ran, SoundEntry, Sound, Inv, TypeOK
  <2>3. timers'[k] = pending[k] \cup AddTimer(k, ActionsOf(e), e.nextState, retransmits')
    BY <1>1, <2>1 DEF Ran
  <2>4. CASE Arms(ActionsOf(e), k)
    BY <1>1, <2>3, <2>4, ArmedIsPending
  <2>5. CASE k \in Watchers(type, state) /\ k # event
    BY <1>1, <2>1, <2>3, <2>5 DEF Inv, Watched
  <2> QED BY <2>2, <2>4, <2>5
<1> QED BY <1>2, <1>3, <1>4, StepOutcome DEF Inv

\* After any step a final response of a server is still its latest.
LEMMA StepStands ==
    ASSUME Inv, [Next]_vars
    PROVE  FinalResponseStands'
<1> SUFFICES ASSUME type' \in ServerTypes, state' \in {"COMPLETED", "CONFIRMED"}
             PROVE  latest' \in {ResponseOut("SEND_OK"), ResponseOut("SEND_MOVED")}
  BY DEF FinalResponseStands
<1>1. ~Stopped
  BY DEF Stopped, Over, Deaths
<1>2. CASE Quiet
  BY <1>2 DEF Quiet, Inv, FinalResponseStands
<1>3. CASE MachineRan
  <2>1. PICK e, event, rsp, pending :
           /\ Ran(e, event, rsp, pending)
           /\ event \in SendEvents => rsp = ResponseOut(event)
           /\ event \in SendEvents \/ type \in ClientTypes \/ rsp = latest
    BY <1>3 DEF MachineRan
  <2>2. Sound(type, state, e.events, e.nextState, ActionsOf(e))
    BY <2>1, EntriesAreSound DEF Ran, SoundEntry, Inv, TypeOK
  <2>3. type \in ServerTypes /\ type \notin ClientTypes
    BY <2>1 DEF Ran, ServerTypes, ClientTypes
  <2>4. latest' = rsp
    BY <2>1, <2>2, <2>3 DEF Ran, Sound
  <2>5. CASE event \in {"SEND_OK", "SEND_MOVED"}
    BY <2>1, <2>4, <2>5 DEF SendEvents
  <2>6. CASE state \in {"COMPLETED", "CONFIRMED"} /\ event \notin SendEvents
    BY <2>1, <2>3, <2>4, <2>6 DEF Inv, FinalResponseStands
  <2> QED BY <2>1, <2>2, <2>3, <2>5, <2>6 DEF Ran, Sound
<1> QED BY <1>1, <1>2, <1>3, StepOutcome DEF Inv

\* A step of a transaction is a step of its contract, or a stutter.
LEMMA StepContract ==
    ASSUME Inv, [Next]_vars
    PROVE  Undecided' /\ [Contract!ContractNext]_(Contract!contractVars)
<1> DEFINE Kept == UNCHANGED <<Phase, verdicts, transmissions>>
<1>1. Phase \in {"idle", "pending", "decided", "over"}
  BY DEF Phase, PhaseOf
<1>2. Kept => Undecided' /\ [Contract!ContractNext]_(Contract!contractVars)
  BY DEF Inv, Undecided, Contract!contractVars
<1> USE DEF Contract!ContractNext, Contract!Start, Contract!Repeat,
            Contract!Decide, Contract!Dispose
<1>3. CASE Quiet
  <2>1. Kept
    BY <1>3 DEF Quiet, Phase
  <2> QED BY <1>2, <2>1
<1>4. CASE Stopped
  <2>1. Phase' = "over" /\ UNCHANGED <<verdicts, transmissions>>
    BY <1>4 DEF Stopped, Phase, PhaseOf, Over, Deaths
  <2>2. Undecided'
    BY <2>1 DEF Undecided
  <2>3. CASE Phase \in {"idle", "decided"}
    BY <2>1, <2>2, <2>3
  <2>4. CASE Phase = "pending"
    BY <2>1, <2>2, <2>4 DEF Inv, Undecided
  <2>5. CASE Phase = "over"
    BY <1>2, <2>1, <2>5
  <2> QED BY <1>1, <2>3, <2>4, <2>5
<1>5. CASE MachineRan
  <2>1. PICK e, event, rsp, pending : Ran(e, event, rsp, pending) /\ state \notin Over
    BY <1>5 DEF MachineRan
  <2>2. Sound(type, state, e.events, e.nextState, ActionsOf(e))
    BY <2>1, EntriesAreSound DEF Ran, SoundEntry, Inv, TypeOK
  <2>3. Phase # "over" /\ Phase' \in {"pending", "decided", "over"}
    BY <2>1, <2>2 DEF Ran, Sound, Phase, PhaseOf, TransactionStates
  <2>4. CASE "SendRequestMessage" \in ActionsOf(e)
    <3>1. Phase \in {"idle", "pending"} /\ Phase' = "pending"
      BY <2>1, <2>2, <2>4 DEF Ran, Sound, Phase
    <3>2. "InformTU" \notin ActionsOf(e)
      BY <2>2, <2>4 DEF Sound, SendActions
    <3>3. verdicts' = verdicts /\ transmissions' = transmissions + 1
      BY <2>1, <2>4, <3>2 DEF Ran
    <3>4. Undecided'
      BY <3>1, <3>3 DEF Inv, Undecided
    <3> QED BY <3>1, <3>3, <3>4
  <2>5. CASE "InformTU" \in ActionsOf(e) /\ event \in FinalEvents
    <3>1. Phase = "pending" /\ Phase' \in {"decided", "over"}
      BY <2>1, <2>2, <2>5 DEF Ran, Sound, Phase
    <3>2. transmissions' = transmissions
      BY <2>1, <2>2, <2>5 DEF Ran, Sound, SendActions
    <3>3. verdicts = <<>>
      BY <3>1 DEF Inv, Undecided
    <3>4. verdicts' = <<event>>
      BY <2>1, <2>5, <3>3 DEF Ran
    <3>5. Undecided'
      BY <3>1 DEF Undecided
    <3> QED BY <2>5, <3>1, <3>2, <3>4, <3>5
  <2>6. CASE /\ "SendRequestMessage" \notin ActionsOf(e)
             /\ ~("InformTU" \in ActionsOf(e) /\ event \in FinalEvents)
    <3>1. UNCHANGED <<verdicts, transmissions>>
      BY <2>1, <2>6 DEF Ran
    <3>2. CASE Phase = "idle"
      <4>1. Phase' \in {"pending", "over"}
        BY <2>1, <2>2, <3>2 DEF Ran, Sound, Phase
      <4>2. Undecided'
        BY <3>1, <3>2 DEF Inv, Undecided
      <4> QED BY <3>1, <3>2, <4>1, <4>2
    <3>3. CASE Phase = "pending"
      <4>1. CASE Phase' = "pending"
        BY <1>2, <3>1, <3>3, <4>1
      <4>2. CASE Phase' \in {"decided", "over"}
        BY <3>1, <3>3, <4>2 DEF Inv, Undecided
      <4> QED BY <2>3, <4>1, <4>2
    <3>4. CASE Phase = "decided"
      <4>1. Phase' \in {"decided", "over"}
        BY <2>1, <2>2, <3>4 DEF Ran, Sound, Phase
      <4>2. CASE Phase' = "decided"
        BY <1>2, <3>1, <3>4, <4>2
      <4>3. CASE Phase' = "over"
        BY <3>1, <3>4, <4>3 DEF Undecided
      <4> QED BY <4>1, <4>2, <4>3
    <3> QED BY <1>1, <2>3, <3>2, <3>3, <3>4
  <2> QED BY <2>4, <2>5, <2>6
<1> QED BY <1>3, <1>4, <1>5, StepOutcome DEF Inv

\* The invariant is inductive.
LEMMA NextInv == Inv /\ [Next]_vars => Inv'
BY NextType, StepWatched, StepStands, StepContract DEF Inv

\* The inductive invariant holds of every behaviour of the machine: its types, its
\* guarding timers, the final response it stands by, and a user who is told
\* nothing final before the decision (Transaction.c, the tables and RunFsm).
THEOREM InvHolds == Spec => []Inv
<1>1. Init => Inv
  BY InitInv
<1>2. Inv /\ [Next]_vars => Inv'
  BY NextInv
<1> QED BY <1>1, <1>2, PTL DEF Spec

-----------------------------------------------------------------------------
(* The acknowledgement of rejections. *)

\* The tables of an INVITE client have an entry for every rejection once the
\* peer has answered, and one for a refused message when it is completed.
LEMMA RejectsHaveEntries ==
    ASSUME NEW s \in {"PROCEEDING", "COMPLETED"}, NEW code \in RejectEvents
    PROVE  LocateEventEntry("CLIENT_INVITE", s, code) # {}
<1> DEFINE Rejected(acts) == Entry(RejectEvents, "COMPLETED", acts)
<1>1. \A acts : code \in Rejected(acts).events
  BY DEF Entry
<1>2. CASE s = "PROCEEDING"
  <2> DEFINE e == Rejected(<<"AddWaitForResponseTimer", "SendAckRequest">>)
  <2>1. e \in ClientInviteProceedingState
    BY Zenon DEF ClientInviteProceedingState
  <2> HIDE DEF e
  <2>2. e \in LocateFsmState("CLIENT_INVITE", s)
    BY <1>2, <2>1 DEF LocateFsmState, Fsm, ClientInviteTransactionFsm
  <2> QED BY <1>1, <2>2, Zenon DEF LocateEventEntry, e
<1>3. CASE s = "COMPLETED"
  <2> DEFINE e == Rejected(<<"SendAckRequest", "AddWaitForResponseTimer">>)
  <2>1. e \in ClientInviteCompletedState
    BY Zenon DEF ClientInviteCompletedState
  <2> HIDE DEF e
  <2>2. e \in LocateFsmState("CLIENT_INVITE", s)
    BY <1>3, <2>1 DEF LocateFsmState, Fsm, ClientInviteTransactionFsm
  <2> QED BY <1>1, <2>2, Zenon DEF LocateEventEntry, e
<1> QED BY <1>2, <1>3

\* A completed INVITE client has an entry for a refused message.
LEMMA CompletedExpectsErrors ==
    LocateEventEntry("CLIENT_INVITE", "COMPLETED", "TRANSPORT_ERROR") # {}
<1> DEFINE e == Goto("TRANSPORT_ERROR", "TERMINATED")
<1>1. e \in ClientInviteCompletedState
  BY Zenon DEF ClientInviteCompletedState
<1>2. "TRANSPORT_ERROR" \in e.events
  BY DEF Goto, Entry
<1> HIDE DEF e
<1>3. e \in LocateFsmState("CLIENT_INVITE", "COMPLETED")
  BY <1>1 DEF LocateFsmState, Fsm, ClientInviteTransactionFsm
<1> QED BY <1>2, <1>3, Zenon DEF LocateEventEntry

\* The step that receives a rejection acknowledges it or ends the transaction.
LEMMA StepAcks ==
    ASSUME TypeOK, NEW code \in RejectEvents, NEW tag \in Tags,
           type = "CLIENT_INVITE", state \in {"PROCEEDING", "COMPLETED"},
           ReceiveResponse(code, tag)
    PROVE  wire' = Ack(tag) \/ state' = "TERMINATED"
<1> DEFINE rsp == ResponseIn(code, tag)
<1>1. PICK e \in LocateEventEntry(type, state, code), ok \in {TRUE, ~SendMayFail} :
         TransactionHandleEvent(e, code, rsp, timers, NoMessage, ok)
  BY RejectsHaveEntries DEF ReceiveResponse, RunFsm
<1>2. /\ e.nextState = "COMPLETED"
      /\ ActionsOf(e) \cap SendActions = {"SendAckRequest"}
  BY EntriesAreSound DEF LocateEventEntry, SoundEntry, Sound, TypeOK
<1>3. /\ "SendAckRequest" \in ActionsOf(e)
      /\ {"SendRequestMessage", "ResendLatestResponse", "ResponseWith100Trying"}
            \cap ActionsOf(e) = {}
  BY <1>2 DEF SendActions
<1>4. CASE ok
  <2>1. wire' = Outgoing(ActionsOf(e), rsp)
    BY <1>1, <1>2, <1>4, RanActions, SwitchAssumption DEF TransactionHandleEvent
  <2>2. rsp.tag = tag
    BY DEF ResponseIn, Message
  <2> QED BY <1>3, <2>1, <2>2 DEF Outgoing
<1>5. CASE ~ok
  <2>1. state' = TransportErrorState("COMPLETED")
    BY <1>1, <1>2, <1>5, RanActions DEF TransactionHandleEvent
  <2> QED BY <2>1, CompletedExpectsErrors DEF TransportErrorState
<1> QED BY <1>4, <1>5

-----------------------------------------------------------------------------
(* The schedule of retransmissions. *)

\* A client waits for an answer.
Waiting == type \in ClientTypes /\ state \in WaitStates

\* How far the back-off has got once the request was sent n times.
BackOff(n) == IF n <= 4 THEN n - 1 ELSE 4

\* One timeout and one retransmission are pending, each a whole number of T1
\* away, and the retransmission is not due before the schedule says so: exactly
\* then as long as no provisional response came.
Scheduled ==
    \E a, b \in Nat :
        LET due == (TransactionTimeout - T1 * a) + T1 * b IN
        /\ timers["TIMEOUT"] = {T1 * a}
        /\ timers["RETRANSMIT"] = {T1 * b}
        /\ transmissions >= 1
        /\ due >= RetransmissionDue(transmissions)
        /\ state # "PROCEEDING" =>
              /\ due = RetransmissionDue(transmissions)
              /\ retransmits = BackOff(transmissions)

\* Nothing is armed or sent before the start.
Fresh ==
    state = "INIT" => /\ transmissions = 0
                      /\ retransmits = 0
                      /\ \A k \in TimerEvents : timers[k] = {}

\* The stub of Timer.c forgets every timer.
Silent == ~TimersFire => \A k \in TimerEvents : timers[k] = {}

\* What the schedule of a transaction rests on, whatever its switches.
Timed ==
    /\ TypeOK
    /\ Fresh
    /\ Silent
    /\ TimersFire /\ Waiting => Scheduled
    /\ TransmissionBudget

\* Sent n times, the request is next due one interval later; the interval is
\* never more than T2, and 64 T1 leave room for 10 repetitions.
LEMMA Schedule ==
    ASSUME NEW n \in Nat, n >= 1
    PROVE  /\ \E j \in Nat :
                /\ CalculateRetransmitInterval(IncRetransmit(BackOff(n))) = T1 * j
                /\ RetransmissionDue(n + 1) = RetransmissionDue(n) + T1 * j
           /\ RetransmissionDue(n + 1) <= RetransmissionDue(n) + T2
           /\ IncRetransmit(BackOff(n)) = BackOff(n + 1)
           /\ RetransmissionDue(n) <= TransactionTimeout => n <= 10
           /\ RetransmissionDue(n) \in Int
<1> USE DEF CalculateRetransmitInterval, IncRetransmit, Shifted, RetransmissionDue,
            BackOff, T1, T2, TransactionTimeout
<1> DEFINE j == CASE n = 1 -> 2 [] n = 2 -> 4 [] OTHER -> 8
<1>1. j \in Nat /\ T1 * j <= T2
  OBVIOUS
<1>2. n \in 1 .. 4 \/ n > 4
  OBVIOUS
<1>3. CalculateRetransmitInterval(IncRetransmit(BackOff(n))) = T1 * j
  BY <1>2
<1>4. RetransmissionDue(n + 1) = RetransmissionDue(n) + T1 * j
  BY <1>2
<1>5. IncRetransmit(BackOff(n)) = BackOff(n + 1)
  BY <1>2
<1>6. RetransmissionDue(n) <= TransactionTimeout => n <= 10
  BY <1>2
<1>7. RetransmissionDue(n) \in Int
  BY <1>2
<1> HIDE DEF j, CalculateRetransmitInterval, IncRetransmit, RetransmissionDue, BackOff,
             TransactionTimeout
<1>8. RetransmissionDue(n + 1) <= RetransmissionDue(n) + T2
  BY <1>1, <1>4, <1>7
<1> QED BY <1>1, <1>3, <1>4, <1>5, <1>6, <1>7, <1>8

\* A run of the machine arms nothing when the timers are a stub.
LEMMA StubArmsNothing ==
    ASSUME ~TimersFire, NEW event, NEW rsp, NEW pending, NEW out,
           RunFsm(event, rsp, pending, out)
    PROVE  timers' = pending
BY DEF RunFsm, TransactionHandleEvent

\* A step keeps a stub's timers empty.
LEMMA StepSilent ==
    ASSUME TypeOK, Silent, [Next]_vars
    PROVE  Silent'
<1> SUFFICES ASSUME ~TimersFire PROVE timers' = timers
  BY DEF Silent
<1>1. \A k \in TimerEvents : timers[k] = {}
  BY DEF Silent
<1>2. ~Tick
  BY <1>1 DEF Tick
<1>3. \A kind \in TimerEvents : ~FireTimer(kind)
  BY <1>1 DEF FireTimer
<1>4. CASE UNCHANGED vars
  BY <1>4 DEF vars
<1>5. CASE Next
  <2>1. \A rsp : RefuseMessage(rsp) => timers' = timers
    BY DEF RefuseMessage
  <2> QED BY <1>2, <1>3, <1>5, <2>1, StubArmsNothing
        DEF Next, AddTransaction, ReceiveResponse, ReceiveInvite, ReceiveCancel,
            Respond, ReceiveAck, Receive3xxResponse, ReceiveDupRequest, ResponseWith
<1> QED BY <1>4, <1>5

\* The first transmission starts the schedule.
LEMMA StartSchedules ==
    ASSUME Timed, TimersFire, NEW e, NEW event, NEW rsp, NEW pending,
           Ran(e, event, rsp, pending),
           \A k \in TimerEvents \ {event} : pending[k] = timers[k],
           "SendRequestMessage" \in ActionsOf(e),
           Starts(type, state, e.events, e.nextState, ActionsOf(e))
    PROVE  Scheduled' /\ TransmissionBudget'
<1>1. /\ event = "INIT" /\ state = "INIT"
      /\ state' \in {"TRYING", "CALLING"}
  BY DEF Ran, Starts
<1>2. /\ transmissions' = 1
      /\ retransmits' = 0
  BY <1>1 DEF Ran, Starts, Timed, Fresh
<1>3. \A k \in TimerEvents : pending[k] = {}
  BY <1>1 DEF Timed, Fresh, TimerEvents
<1>4. \A k \in TimerEvents :
         timers'[k] = pending[k] \cup AddTimer(k, ActionsOf(e), e.nextState, retransmits')
  BY DEF Ran
<1>5. timers'["TIMEOUT"] = {TransactionTimeout}
  BY <1>3, <1>4 DEF TimerEvents, AddTimer, Starts
<1>6. timers'["RETRANSMIT"] = {NonInviteInterval(state', 0)}
  BY <1>2, <1>3, <1>4 DEF TimerEvents, AddTimer, Starts, Ran
<1>7. NonInviteInterval(state', 0) = T1
  BY <1>1 DEF NonInviteInterval, CalculateRetransmitInterval, Shifted, T1, T2
<1>8. /\ TransactionTimeout = T1 * 64
      /\ T1 = T1 * 1
      /\ (TransactionTimeout - T1 * 64) + T1 * 1 = RetransmissionDue(1)
  BY DEF TransactionTimeout, T1, RetransmissionDue
<1>9. /\ timers'["TIMEOUT"] = {T1 * 64}
      /\ timers'["RETRANSMIT"] = {T1 * 1}
  BY <1>5, <1>6, <1>7, <1>8
<1>10. BackOff(1) = 0 /\ RetransmissionDue(1) >= RetransmissionDue(1)
  BY DEF BackOff, RetransmissionDue, T1
<1>11. Scheduled'
  BY <1>2, <1>8, <1>9, <1>10 DEF Scheduled
<1> QED BY <1>2, <1>11 DEF TransmissionBudget

\* A retransmission moves to the next point of the schedule, and there is room
\* for one only while the request was sent 10 times at most.
LEMMA RetransmissionSchedules ==
    ASSUME Timed, TimersFire, NEW e, NEW event, NEW rsp, NEW pending,
           Ran(e, event, rsp, pending),
           \A k \in TimerEvents \ {event} : pending[k] = timers[k],
           event \in TimerEvents =>
              0 \in timers[event] /\ pending[event] = timers[event] \ {0},
           "SendRequestMessage" \in ActionsOf(e),
           Retransmits(type, state, e.events, e.nextState, ActionsOf(e))
    PROVE  Scheduled' /\ TransmissionBudget'
<1>1. /\ event = "RETRANSMIT" /\ "RETRANSMIT" \in TimerEvents /\ "TIMEOUT" \in TimerEvents
      /\ state' = state /\ Waiting
  BY DEF Ran, Retransmits, Waiting, TimerEvents
<1> DEFINE n == transmissions
<1>2. PICK a, b \in Nat :
         LET due == (TransactionTimeout - T1 * a) + T1 * b IN
         /\ timers["TIMEOUT"] = {T1 * a}
         /\ timers["RETRANSMIT"] = {T1 * b}
         /\ n >= 1
         /\ due >= RetransmissionDue(n)
         /\ state # "PROCEEDING" =>
               due = RetransmissionDue(n) /\ retransmits = BackOff(n)
  BY <1>1 DEF Timed, Scheduled
<1>3. T1 * b = 0 /\ pending["RETRANSMIT"] = {} /\ pending["TIMEOUT"] = {T1 * a}
  BY <1>1, <1>2
<1>4. n \in Nat /\ n' = n + 1 /\ retransmits' = IncRetransmit(retransmits)
  BY DEF Ran, Retransmits, Timed, TypeOK
<1>5. \A k \in TimerEvents :
         timers'[k] = pending[k] \cup AddTimer(k, ActionsOf(e), state, retransmits')
  BY <1>1 DEF Ran
<1>6. timers'["TIMEOUT"] = {T1 * a}
  BY <1>1, <1>3, <1>5 DEF AddTimer, Retransmits
<1> DEFINE i == IF state = "PROCEEDING" THEN T2
                ELSE CalculateRetransmitInterval(retransmits')
<1>7. timers'["RETRANSMIT"] = {i}
  <2>1. AddTimer("RETRANSMIT", ActionsOf(e), state, retransmits') = {i}
    <3>1. CASE "ClientInviteAddRetransmitTimer" \in ActionsOf(e)
      <4>1. /\ i = CalculateRetransmitInterval(retransmits')
            /\ "ClientNonInviteAddRetransmitTimer" \notin ActionsOf(e)
        BY <3>1 DEF Retransmits
      <4> HIDE DEF i
      <4> QED BY <3>1, <4>1 DEF AddTimer
    <3>2. CASE "ClientInviteAddRetransmitTimer" \notin ActionsOf(e)
      <4>1. /\ "ClientNonInviteAddRetransmitTimer" \in ActionsOf(e)
            /\ state \in {"TRYING", "PROCEEDING"}
        BY <3>2 DEF Retransmits, WaitStates
      <4>2. NonInviteInterval(state, retransmits') = i
        BY <4>1 DEF NonInviteInterval
      <4> QED BY <3>2, <4>1, <4>2 DEF AddTimer
    <3> QED BY <3>1, <3>2
  <2> QED BY <1>1, <1>3, <1>5, <2>1
<1>8. (TransactionTimeout - T1 * a) >= RetransmissionDue(n)
  BY <1>2, <1>3 DEF TransactionTimeout, T1
<1>9. n <= 10
  <2>1. RetransmissionDue(n) <= TransactionTimeout
    BY <1>2, <1>4, <1>8, Schedule DEF TransactionTimeout, T1
  <2> QED BY <1>2, <1>4, <2>1, Schedule
<1>10. CASE state = "PROCEEDING"
  <2>1. i = T1 * 8 /\ T2 = T1 * 8
    BY <1>10 DEF T1, T2
  <2>2. (TransactionTimeout - T1 * a) + T1 * 8 >= RetransmissionDue(n')
    <3>1. RetransmissionDue(n + 1) <= RetransmissionDue(n) + T1 * 8
      BY <1>2, <1>4, <2>1, Schedule
    <3>2. RetransmissionDue(n) \in Int /\ RetransmissionDue(n + 1) \in Int
      BY <1>2, <1>4, Schedule
    <3> QED BY <1>4, <1>8, <3>1, <3>2 DEF T1, TransactionTimeout
  <2>3. Scheduled'
    BY <1>1, <1>2, <1>4, <1>6, <1>7, <1>10, <2>1, <2>2 DEF Scheduled
  <2> QED BY <1>4, <1>9, <2>3 DEF TransmissionBudget
<1>11. CASE state # "PROCEEDING"
  <2>1. retransmits' = BackOff(n')
    BY <1>2, <1>4, <1>11, Schedule
  <2>2. PICK j \in Nat : i = T1 * j /\ RetransmissionDue(n') = RetransmissionDue(n) + T1 * j
    BY <1>2, <1>4, <1>11, Schedule
  <2>3. (TransactionTimeout - T1 * a) + T1 * j = RetransmissionDue(n')
    <3>1. TransactionTimeout - T1 * a = RetransmissionDue(n)
      BY <1>2, <1>3, <1>11 DEF T1, TransactionTimeout
    <3> QED BY <2>2, <3>1
  <2>4. RetransmissionDue(n') \in Int
    BY <1>2, <1>4, Schedule
  <2>5. Scheduled'
    BY <1>1, <1>2, <1>4, <1>6, <1>7, <2>1, <2>2, <2>3, <2>4 DEF Scheduled
  <2> QED BY <1>4, <1>9, <2>5 DEF TransmissionBudget
<1> QED BY <1>10, <1>11

\* Time that passes leaves the schedule where it is.
LEMMA TickSchedules ==
    ASSUME Timed, TimersFire, Waiting, Tick
    PROVE  Scheduled'
<1>1. PICK a, b \in Nat :
         LET due == (TransactionTimeout - T1 * a) + T1 * b IN
         /\ timers["TIMEOUT"] = {T1 * a}
         /\ timers["RETRANSMIT"] = {T1 * b}
         /\ transmissions >= 1
         /\ due >= RetransmissionDue(transmissions)
         /\ state # "PROCEEDING" =>
               /\ due = RetransmissionDue(transmissions)
               /\ retransmits = BackOff(transmissions)
  BY DEF Timed, Scheduled
<1>2. a - 1 \in Nat /\ b - 1 \in Nat
  <2>1. T1 * a # 0 /\ T1 * b # 0
    BY <1>1 DEF Tick, TimerEvents
  <2> QED BY <2>1 DEF T1
<1>3. /\ timers'["TIMEOUT"] = {T1 * (a - 1)}
      /\ timers'["RETRANSMIT"] = {T1 * (b - 1)}
  <2>1. \A k \in TimerEvents : timers'[k] = {d - T1 : d \in timers[k]}
    BY DEF Tick
  <2>2. /\ timers'["TIMEOUT"] = {T1 * a - T1}
        /\ timers'["RETRANSMIT"] = {T1 * b - T1}
    BY <1>1, <2>1 DEF TimerEvents
  <2>3. T1 * a - T1 = T1 * (a - 1) /\ T1 * b - T1 = T1 * (b - 1)
    BY DEF T1
  <2> QED BY <2>2, <2>3
<1>4. (TransactionTimeout - T1 * (a - 1)) + T1 * (b - 1)
        = (TransactionTimeout - T1 * a) + T1 * b
  BY DEF TransactionTimeout, T1
<1>5. UNCHANGED <<state, retransmits, transmissions>>
  BY DEF Tick
<1> QED BY <1>1, <1>2, <1>3, <1>4, <1>5 DEF Scheduled

\* The machine keeps the schedule.
LEMMA RunIsTimed ==
    ASSUME Timed, MachineRan
    PROVE  /\ state' # "INIT"
           /\ TimersFire /\ Waiting' => Scheduled'
           /\ TransmissionBudget'
<1>1. PICK e, event, rsp, pending :
         /\ Ran(e, event, rsp, pending)
         /\ \A k \in TimerEvents \ {event} : pending[k] = timers[k]
         /\ event \in TimerEvents =>
               0 \in timers[event] /\ pending[event] = timers[event] \ {0}
  BY DEF MachineRan
<1>2. Sound(type, state, e.events, e.nextState, ActionsOf(e))
  BY <1>1, EntriesAreSound DEF Ran, SoundEntry, Timed, TypeOK
<1>3. state' # "INIT"
  BY <1>1, <1>2 DEF Ran, Sound
<1>4. CASE "SendRequestMessage" \in ActionsOf(e) /\ TimersFire
  BY <1>1, <1>2, <1>3, <1>4, StartSchedules, RetransmissionSchedules DEF Sound
<1>5. CASE "SendRequestMessage" \in ActionsOf(e) /\ ~TimersFire
  <2>1. event \notin TimerEvents
    BY <1>1, <1>5 DEF Timed, Silent
  <2>2. state = "INIT"
    BY <1>1, <1>2, <1>5, <2>1 DEF Sound, Starts, Retransmits, Ran, TimerEvents
  <2>3. transmissions' = 1
    BY <1>1, <1>5, <2>2 DEF Timed, Fresh, Ran
  <2> QED BY <1>3, <1>5, <2>3 DEF TransmissionBudget
<1>6. CASE "SendRequestMessage" \notin ActionsOf(e)
  <2>1. transmissions' = transmissions
    BY <1>1, <1>6 DEF Ran
  <2>2. ASSUME TimersFire, Waiting'
        PROVE  Scheduled'
    <3>1. /\ Waiting /\ state' = "PROCEEDING" /\ event = "1XX"
          /\ ~Arms(ActionsOf(e), "TIMEOUT") /\ ~Arms(ActionsOf(e), "RETRANSMIT")
      BY <1>1, <1>2, <1>6, <2>2 DEF Sound, Waiting, Ran
    <3>2. \A k \in {"TIMEOUT", "RETRANSMIT"} :
             timers'[k] = timers[k] \cup AddTimer(k, ActionsOf(e), e.nextState, retransmits')
      BY <1>1, <2>2, <3>1 DEF Ran, TimerEvents
    <3>3. UNCHANGED <<timers["TIMEOUT"], timers["RETRANSMIT"]>>
      BY <3>1, <3>2 DEF Arms, AddTimer
    <3> QED BY <2>1, <2>2, <3>1, <3>3 DEF Timed, Scheduled
  <2> QED BY <1>3, <2>1, <2>2 DEF Timed, TransmissionBudget
<1> QED BY <1>4, <1>5, <1>6

\* The schedule is inductive.
LEMMA NextTimed == Timed /\ [Next]_vars => Timed'
<1> SUFFICES ASSUME Timed, [Next]_vars PROVE Timed'
  OBVIOUS
<1>1. TypeOK' /\ Silent'
  BY NextType, StepSilent DEF Timed
<1>2. CASE Stopped
  <2>1. state' # "INIT" /\ state' \notin WaitStates
    BY <1>2 DEF Stopped, Over, Deaths, WaitStates
  <2> QED BY <1>1, <1>2, <2>1 DEF Stopped, Timed, Fresh, Waiting, TransmissionBudget
<1>3. CASE MachineRan
  BY <1>1, <1>3, RunIsTimed DEF Timed, Fresh
<1>4. CASE Quiet
  <2>1. Fresh'
    <3>1. CASE Tick
      BY <1>4, <3>1 DEF Quiet, Timed, Fresh, Tick
    <3>2. CASE timers' = timers
      BY <1>4, <3>2 DEF Quiet, Timed, Fresh
    <3> QED BY <1>4, <3>1, <3>2 DEF Quiet
  <2>2. ASSUME TimersFire, Waiting'
        PROVE  Scheduled'
    <3>1. Waiting
      BY <1>4, <2>2 DEF Quiet, Waiting
    <3>2. CASE Tick
      BY <2>2, <3>1, <3>2, TickSchedules
    <3>3. CASE timers' = timers
      BY <1>4, <2>2, <3>1, <3>3 DEF Quiet, Timed, Scheduled
    <3> QED BY <1>4, <3>2, <3>3 DEF Quiet
  <2>3. TransmissionBudget'
    BY <1>4 DEF Quiet, Timed, TransmissionBudget
  <2> QED BY <1>1, <2>1, <2>2, <2>3 DEF Timed
<1> QED BY <1>2, <1>3, <1>4, StepOutcome DEF Timed

\* The schedule holds of every behaviour.
LEMMA TimedHolds == Spec => []Timed
<1>1. Init => Timed
  <2> SUFFICES ASSUME Init PROVE Timed
    OBVIOUS
  <2>1. state = "INIT" /\ transmissions = 0 /\ retransmits = 0
    BY DEF Init
  <2>2. \A k \in TimerEvents : timers[k] = {}
    BY DEF Init
  <2> QED BY <2>1, <2>2, InitType
      DEF Timed, Fresh, Silent, Waiting, WaitStates, TransmissionBudget
<1>2. Timed /\ [Next]_vars => Timed'
  BY NextTimed
<1> QED BY <1>1, <1>2, PTL DEF Spec

-----------------------------------------------------------------------------
(* The results. *)

\* A timer is pending after an entry only if one of its actions armed it.
LEMMA PendingIsArmed ==
    ASSUME NEW k \in TimerEvents, NEW acts, NEW s, NEW r,
           AddTimer(k, acts, s, r) # {}
    PROVE  Arms(acts, k)
BY DEF Arms, AddTimer, TimerEvents

\* What a table relies on is among what Watchers lists for its state.
LEMMA GuardiansWatch ==
    ASSUME NEW ty \in TransactionTypes, NEW s, NEW k \in Guardians(ty, s)
    PROVE  k \in Watchers(ty, s)
<1>1. k \in TimerEvents
  BY DEF Guardians
<1>2. PICK e \in LocateEventEntry(ty, s, k) :
         \/ e.nextState = "TERMINATED"
         \/ AddTimer(k, InvokeActions(e.actions, TRUE), e.nextState, 0) # {}
  BY DEF Guardians
<1>3. e \in LocateFsmState(ty, s) /\ k \in e.events
  BY <1>2 DEF LocateEventEntry
<1>4. InvokeActions(e.actions, TRUE) = ActionsOf(e)
  BY DEF InvokeActions, ActionsOf
<1>5. e.nextState = "TERMINATED" \/ Arms(ActionsOf(e), k)
  BY <1>1, <1>2, <1>4, PendingIsArmed
<1>6. Sound(ty, s, e.events, e.nextState, ActionsOf(e))
  BY <1>3, EntriesAreSound DEF SoundEntry
<1> QED BY <1>1, <1>3, <1>5, <1>6 DEF Sound

\* With a timer service every timer the table of the present state relies on is
\* pending: no order of responses, copies, refused messages and timers leads to
\* a state without the timers its own entries count on (the AddTimer calls of
\* the tables, :405-667).
THEOREM AlwaysSupervised == Spec => []Supervised
<1>1. Inv => Supervised
  BY GuardiansWatch DEF Inv, Watched, Supervised, TypeOK
<1> QED BY <1>1, InvHolds, PTL

\* A server never goes back on a final response: a copy of the request is
\* answered with it and with nothing else (ResponseWith, :252-263).
THEOREM FinalResponseAlwaysStands == Spec => []FinalResponseStands
<1>1. Inv => FinalResponseStands
  BY DEF Inv
<1> QED BY <1>1, InvHolds, PTL

\* Transaction implements TransactionContract: it starts once, repeats its
\* request only while undecided, and tells its user of one final response at
\* most, when it decides, under every combination of the switches.
THEOREM ImplementsContract == Spec => KeepsContract
<1>1. Init => Contract!ContractInit
  BY DEF Init, Contract!ContractInit, Phase, PhaseOf, Over, Deaths
<1>2. Inv /\ [Next]_vars => [Contract!ContractNext]_(Contract!contractVars)
  BY StepContract
<1> QED BY <1>1, <1>2, InvHolds, PTL DEF Spec, KeepsContract, Contract!ContractSpec

\* With a timer service, a client that has heard nothing has exactly one timeout
\* and one retransmission pending, and the retransmission is due when the
\* back-off says: T1 doubled up to T2, without drift or a second timer
\* (IncRetransmit, CalculateRetransmitInterval and the AddTimer calls, :112-156).
THEOREM AlwaysOnSchedule == Spec => []OnSchedule
<1>1. Timed => OnSchedule
  <2> SUFFICES ASSUME Timed, TimersFire, state \in {"TRYING", "CALLING"}, type \in ClientTypes
               PROVE  \E left \in timers["TIMEOUT"], due \in timers["RETRANSMIT"] :
                         /\ timers["TIMEOUT"] = {left}
                         /\ timers["RETRANSMIT"] = {due}
                         /\ (TransactionTimeout - left) + due
                               = RetransmissionDue(transmissions)
    BY DEF OnSchedule
  <2>1. Scheduled /\ state # "PROCEEDING"
    BY DEF Timed, Waiting, WaitStates
  <2> QED BY <2>1, Zenon DEF Scheduled
<1> QED BY <1>1, TimedHolds, PTL

\* No client sends its request more than 11 times, whatever provisional
\* responses reset its back-off and whatever the transport refuses: the timeout
\* comes first (ResetRetransmits and the PROCEEDING tables, :405-560).
THEOREM BudgetIsKept == Spec => []TransmissionBudget
<1>1. Timed => TransmissionBudget
  BY DEF Timed
<1> QED BY <1>1, TimedHolds, PTL

\* Every rejection of an INVITE that follows a provisional response, the first
\* copy and the later ones, is acknowledged with its own tag, unless the
\* transport refuses the ACK (SendAckRequest, :287-303, :525-558).
THEOREM EveryRejectAcknowledged == Spec => AcksEveryReject
<1>1. Inv /\ [Next]_vars =>
        [\A code \in RejectEvents, tag \in Tags :
           /\ type = "CLIENT_INVITE"
           /\ state \in {"PROCEEDING", "COMPLETED"}
           /\ ReceiveResponse(code, tag)
           => wire' = Ack(tag) \/ state' = "TERMINATED"]_vars
  BY StepAcks DEF Inv
<1> QED BY <1>1, InvHolds, PTL DEF Spec, AcksEveryReject
===============================================================================
